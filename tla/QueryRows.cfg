SPECIFICATION MCSpec
CONSTANTS
  Queries = {q1, q2}
  NoQuery = NoQuery
  Layouts <- ManyLayouts
  MaxOpen = 2
INVARIANTS TypeOK ReleaseAsked PollsBeforeRelease PollsOwnNode
PROPERTIES RefinesResultStream CallsReturn StatementsAreReleased
CHECK_DEADLOCK FALSE
