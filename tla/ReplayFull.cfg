\* A store of one entry, so that begin evicts all the time, with failing
\* durable calls between finish and forgetFailed, and calls that wait.
SPECIFICATION FairSpec
CONSTANTS
  Calls = {c1, c2, c3}
  PlainKeys = {plain}
  DurableKeys = {durable}
  OwnerKeys = {}
  Payloads = {p1}
  None = None
  WriteReplayMax = 1
  WriteReplayTTL = 1
  MaxTime = 1
  MaxCrashes = 0
INVARIANTS ReplayInv AtMostOneRunner
PROPERTIES GrowsPastCapOnlyInFlight WaitersAnswered FailedDurableKeyFreed
CHECK_DEADLOCK FALSE
