\* One tool without and one with a durable receipt, three calls, two payloads,
\* a restart, an expiry; the store is never full.
SPECIFICATION Spec
CONSTANTS
  Calls = {c1, c2, c3}
  PlainKeys = {plain}
  DurableKeys = {}
  OwnerKeys = {owner}
  Payloads = {p1, p2}
  None = None
  WriteReplayMax = 3
  WriteReplayTTL = 0
  MaxTime = 1
  MaxCrashes = 1
SYMMETRY CallSymmetry
INVARIANTS DeduplicatedWithinTTL CachedReplaysFirstResult OwnerReplayAfterSuccess
PROPERTY KeepsPromise
\* Every call of the bounded instance may have been answered.
CHECK_DEADLOCK FALSE
