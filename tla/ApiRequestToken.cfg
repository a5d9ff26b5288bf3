SPECIFICATION Spec
CONSTANTS
  Auths = {"rotating"}
  Workload <- AnyRequest
  MaxCalls = 1
  MaxToken = 1
INVARIANT AuthRetryUsesRotatedToken
CHECK_DEADLOCK FALSE
