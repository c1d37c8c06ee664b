CONSTANTS
  a1 = a1
  a2 = a2
  c1 = c1
  Appenders = {a1, a2}
  Consumers = {c1}
  NoThread = NoThread
  MaxAppends = 2
  FetchLimit = 2
SPECIFICATION Spec
INVARIANT NoCircularWait
CHECK_DEADLOCK FALSE
