CONSTANTS
  e1 = e1
  e2 = e2
  e3 = e3
  c1 = c1
  r1 = r1
  r2 = r2
  NoExec = NoExec
  NoCorrelation = NoCorrelation
  Correlations <- MCCorrelations
  Execs <- WholeExecs
  CorrelationOf <- WholeCorrelationOf
  InvokedBy <- WholeInvokedBy
  Runners = {r1, r2}
  BatchLimit = 2
  MaxCrashes = 0
  Untidy = FALSE
SPECIFICATION FairSpec
INVARIANTS
  TypeOK
  StateHandoff
  NoRequestFails
PROPERTIES
  ImplementsOrchestration
  InvokeEnds
CHECK_DEADLOCK FALSE
