SPECIFICATION Spec
CONSTANTS
  b1 = b1
  b2 = b2
  Batches = {b1}
  MaxRows <- JustTwo
INVARIANT RowsAffectedIsTrue
CHECK_DEADLOCK FALSE
