SPECIFICATION Spec
CONSTANTS
  Clients = {c1, c2}
  Nodes = {n1, n2}
  NoNode = NoNode
  NoState = NoState
  MaxStatements = 3
  NamingKinds = {"begin", "read"}
SYMMETRY Permute
INVARIANTS TypeOK DistinctIDs SessionIsCurrent PagesReachTheirNode TransactionsStayPut
CHECK_DEADLOCK FALSE
