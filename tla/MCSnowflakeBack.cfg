CONSTANTS
  PartitionCount = 2
  SequenceSize = 3
  MaxElapsed = 2
  BackWhileSpinning = TRUE
SPECIFICATION Spec
PROPERTY BlocksUntilNext
CHECK_DEADLOCK FALSE
