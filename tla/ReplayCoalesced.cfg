\* A retry that waits for a first attempt which fails.
SPECIFICATION Spec
CONSTANTS
  Calls = {c1, c2}
  PlainKeys = {}
  DurableKeys = {}
  OwnerKeys = {owner}
  Payloads = {p1}
  None = None
  WriteReplayMax = 3
  WriteReplayTTL = 1
  MaxTime = 0
  MaxCrashes = 0
INVARIANT OwnerReplayWritesNothing
CHECK_DEADLOCK FALSE
