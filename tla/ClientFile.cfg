\* Three registrations that overlap, fail and are cut off by two stops; their
\* progress past failures and stops.
SPECIFICATION FairSpec
CONSTANTS
  Registrations = {r1, r2, r3}
  None = None
  MaxStops = 2
INVARIANTS CreatedClientsKept FileAlwaysLoads
PROPERTIES RegistersAtOnce RegistrationsEnd
\* All registrations may have been answered.
CHECK_DEADLOCK FALSE
