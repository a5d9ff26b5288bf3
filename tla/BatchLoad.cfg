SPECIFICATION FairSpec
CONSTANTS
  b1 = b1
  b2 = b2
  Batches = {b1, b2}
  MaxRows <- TwoAndOne
INVARIANTS TypeOK SuccessMeansInserted WholeBatches FilesAreRemoved
PROPERTIES BatchesReturn
CHECK_DEADLOCK FALSE
