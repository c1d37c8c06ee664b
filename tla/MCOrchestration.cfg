CONSTANTS
  e1 = e1
  e2 = e2
  e3 = e3
  e4 = e4
  c1 = c1
  c2 = c2
  NoExec = NoExec
  NoCorrelation = NoCorrelation
  Execs <- MCExecs
  Correlations <- MCCorrelations
  CorrelationOf <- MCCorrelationOf
SPECIFICATION FairSpec
INVARIANTS
  TypeOK
  SerialInOrder
  NoneStranded
  BooksExact
PROPERTY AllSettle
CHECK_DEADLOCK FALSE
