\* One call between changes from elsewhere, from every small tree.
SPECIFICATION Spec
CONSTANTS
  r1 = r1
  r2 = r2
  r3 = r3
  None = None
  Calls = {c1}
  Records = {r1, r2, r3}
  MaxOthers = 1
  Codes = {r1, r2, r3}
  Worlds <- StartWorlds
INVARIANTS GuidedInv ReadyIsAccepted
PROPERTIES ReviewedOnly
CHECK_DEADLOCK FALSE
