SPECIFICATION MCSpec
CONSTANTS
  Auths = {"password", "file", "rotating"}
  Workload <- AnyRequest
  MaxCalls = 2
  MaxToken = 1
INVARIANTS TypeOK ContextEndIsReported ArrowQueryErrorIsTheServers
PROPERTIES CallsReturn RefinesStatementService
CHECK_DEADLOCK FALSE
