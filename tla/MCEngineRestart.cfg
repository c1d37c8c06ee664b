CONSTANTS
  e1 = e1
  e2 = e2
  e3 = e3
  c1 = c1
  r1 = r1
  r2 = r2
  NoExec = NoExec
  NoCorrelation = NoCorrelation
  Correlations <- MCCorrelations
  Execs <- ChainExecs
  CorrelationOf <- ChainCorrelationOf
  InvokedBy <- ChainInvokedBy
  Runners = {r1}
  BatchLimit = 2
  MaxCrashes = 1
  Untidy = FALSE
SPECIFICATION Spec
INVARIANT ExecsKnown
CHECK_DEADLOCK FALSE
