SPECIFICATION Spec
CONSTANTS
  Auths = {"password"}
  Workload <- AnyRequest
  MaxCalls = 1
  MaxToken = 0
INVARIANT RejectedURIIsNotRetried
CHECK_DEADLOCK FALSE
