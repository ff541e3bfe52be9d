\* Two clients race for the codes of a user, who is disabled or changes role,
\* while time passes and a restart enables or disables writes; consent,
\* exchange, refresh and API requests follow each other.
SPECIFICATION Spec
CONSTANTS
  Users = {u1}
  Clients = {cl1, cl2}
  Requests = {r1, r2, r3, r4}
  Codes = {k1}
  DataScopes = {money}
  WriteScopes = {write, send}
  ReadScope = read
  GeneralWrite = write
  Askable = {{read}, {read, money, send}, {other}}
  None = None
  CodeLife = 0
  AccessLife = 1
  RefreshLife = 1
  MaxTime = 1
  MaxChanges = 1
  MaxRestarts = 1
SYMMETRY RequestSymmetry
INVARIANTS OAuthInv ScopeCeiling RightsCurrentDuringRequest
PROPERTIES NoWritesWhileDisabled DelegatesAsApproved
\* Every request of the bounded instance may have been answered.
CHECK_DEADLOCK FALSE
