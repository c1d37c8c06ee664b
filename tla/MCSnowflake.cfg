CONSTANTS
  PartitionCount = 2
  SequenceSize = 3
  MaxElapsed = 2
  BackWhileSpinning = FALSE
SPECIFICATION Spec
INVARIANTS
  TypeOK
  Growing
  Apart
CHECK_DEADLOCK FALSE
