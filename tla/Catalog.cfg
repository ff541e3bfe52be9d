\* Two calls of any tools of the catalogue, step by step, from four catalogues.
SPECIFICATION Spec
CONSTANTS
  m1 = m1
  m2 = m2
  b = b
  k1 = k1
  k2 = k2
  s1 = s1
  s2 = s2
  t = t
  pr = pr
  new = new
  n1 = n1
  n2 = n2
  n3 = n3
  None = None
  Calls = {c1, c2}
  Records = {m1, m2, b, k1, k2, s1, s2, t, pr, new}
  MaxOthers = 0
  Names = {n1, n2, n3}
  Changes <- SmallChanges
  Tried <- SmallInputs
  Worlds <- StartWorlds
SYMMETRY CallSymmetry
INVARIANTS OneWritePerVersion ReadyIsAccepted ArchivedRestorable
PROPERTIES ActsAtOnce
CHECK_DEADLOCK FALSE
