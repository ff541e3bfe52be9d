\* Two calls with one key, of one tool of each kind.
SPECIFICATION Spec
CONSTANTS
  Calls = {c1, c2}
  None = None
  Tried <- OneOfEach
  MaxRestarts = 1
  MaxRenames = 1
SYMMETRY CallSymmetry
INVARIANTS OwnerInv OnlyGuardedWrites NoCommercialWithoutGrant RightsAtAnswer KeysAreForWrites FailedMaintenanceRepeatable
PROPERTIES RepeatNeverAsks ChangesAsConfirmed
\* Every call may have been answered.
CHECK_DEADLOCK FALSE
