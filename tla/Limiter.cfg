\* Two addresses, one entry kept beyond need, requests that wait up to a whole
\* window for the lock; windows of two ticks.
SPECIFICATION Spec
CONSTANTS
  Requests = {r1, r2, r3, r4, r5, r6}
  Addresses = {a1, a2}
  None = None
  Limit = 2
  Window = 2
  MaxEntries = 1
  MaxStall = 2
  MaxTime = 4
SYMMETRY LimiterSymmetry
INVARIANTS DeletionInvisible BurstBound RejectedForCause
CHECK_DEADLOCK FALSE
