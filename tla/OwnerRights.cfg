\* A call of a user who was an administrator when the first one was answered.
SPECIFICATION Spec
CONSTANTS
  Calls = {c1, c2}
  None = None
  Tried <- OneOfEach
  MaxRestarts = 0
  MaxRenames = 0
INVARIANT CachedAnswersClosed
CHECK_DEADLOCK FALSE
