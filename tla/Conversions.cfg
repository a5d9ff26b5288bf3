SPECIFICATION Spec
CONSTANTS
  MaxQuery = 5
  MaxBound = 4
  MaxNesting = 2
  MaxParams = 3
  MaxUserinfo = 5
  MaxFields = 4
  Offset <- Clocks
  Width = 4
  MicrosMin <- SmallMin
  MicrosMax <- SmallMax
INVARIANTS
  PlaceholdersAreTheLexers BoundStatementKeepsItsRegions NestedValuesAreComplete
  DSNRoundTrips OrderOfParametersIsIrrelevant PlainTextIsAskedFor
  TypeNamesAreRead ResultsDoNotDependOnTransport
CHECK_DEADLOCK FALSE
