SPECIFICATION Spec
CONSTANTS
  a1 = a1
  a2 = a2
  v1 = v1
  Asset = {a1, a2}
  Tag = {v1}
  TagOf <- MCTagOf
  Replaces <- MCReplaces
  SizeOf <- MCSizeOf
  VersionOf <- MCVersionOf
  k1 = k1
  k2 = k2
  Calls = {k1, k2}
  Issues <- MCIssues
  MaxAttempts = 2
  MaxStalled = 1
  None = None
INVARIANTS ReadyIsSigned HashedIsWritten RetryLosesNothing LockIsShort NobodyStuck
PROPERTIES StagesAtOnce NearerItsEnd
CHECK_DEADLOCK FALSE
