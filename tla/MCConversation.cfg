SPECIFICATION Spec
CONSTANTS
  Sends = {s1}
  Clock = {1, 5}
  PageSize = 1
  MaxLog = 2
  MaxTurns = 4
  None = None
INVARIANTS NewestFirstOnce Converged CacheIsView RequestKept
PROPERTIES MarkerNeverBack
CHECK_DEADLOCK FALSE
