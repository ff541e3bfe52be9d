\* A full store and a retry within the time to live.
SPECIFICATION Spec
CONSTANTS
  Calls = {c1, c2, c3}
  PlainKeys = {k1, k2}
  DurableKeys = {}
  OwnerKeys = {}
  Payloads = {p1}
  None = None
  WriteReplayMax = 2
  WriteReplayTTL = 1
  MaxTime = 1
  MaxCrashes = 0
INVARIANT DeduplicatedWithinTTL
CHECK_DEADLOCK FALSE
