CONSTANTS
  MenuTypes <- MCMenuTypes
  Buttons = 2
  MaxNodes = 2
  MaxConnections = 2
  MaxQueue = 1
  MaxDrags = 2
SPECIFICATION Spec
INVARIANTS
  TypeOK
  PortsOwned
  ConnectionsJoin
  CrashNeedsTwoDrags
  DragMovesOwnNode
PROPERTY FlowOnlyGrows
