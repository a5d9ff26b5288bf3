SPECIFICATION MCSpec
CONSTANTS
  Queries = {q1}
  NoQuery = NoQuery
  Layouts <- FewLayouts
  MaxOpen = 1
INVARIANT EndedContextKillsQuery
CHECK_DEADLOCK FALSE
