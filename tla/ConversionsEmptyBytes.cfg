SPECIFICATION Spec
CONSTANTS
  MaxQuery = 2
  MaxBound = 2
  MaxNesting = 0
  MaxParams = 0
  MaxUserinfo = 0
  MaxFields = 1
  Offset <- Clocks
  Width = 4
  MicrosMin <- SmallMin
  MicrosMax <- SmallMax
INVARIANT EveryValueIsBound
CHECK_DEADLOCK FALSE
