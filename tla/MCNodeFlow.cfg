CONSTANTS
  MenuTypes <- MCMenuTypes
  Buttons = 1
  MaxNodes = 4
  MaxConnections = 3
  MaxQueue = 0
  MaxDrags = 1
  MaxSize = 8
  Weight <- MCWeight
SPECIFICATION FlowSpec
INVARIANTS
  RunTypeOK
  EndsOnce
  ReadsAfterSource
  WellWiredNeverFails
  CompletedRanAll
PROPERTY RunEnds
CHECK_DEADLOCK FALSE
