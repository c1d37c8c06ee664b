CONSTANTS
  Execs = {1, 2}
  Attempts = {1, 2}
SPECIFICATION Spec
INVARIANTS
  TypeOK
  QueueProjectionExact
  RetryAnswersFirstVersion
PROPERTY ImplementsLifecycle
CHECK_DEADLOCK FALSE
