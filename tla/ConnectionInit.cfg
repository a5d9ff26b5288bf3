SPECIFICATION FairSpec
CONSTANTS
  Callers = {c1, c2, c3}
  Nobody = nobody
  MaxCalls = 4
INVARIANTS TypeOK OneLogin StatementsAgree SessionsAreLoggedOut
PROPERTIES CallersReturn
CHECK_DEADLOCK FALSE
