CONSTANTS
  flows = flows
  threats = threats
  f1 = f1
  f2 = f2
  f3 = f3
  t1 = t1
  c1 = c1
  c2 = c2
  Flusher = Flusher
  Closer = Closer
  TableOrder <- MCTables
  Rows <- MCRows
  TableOf <- MCTableOf
  Callers <- TwoCallers
  BatchSize = 2
SPECIFICATION FairSpec
INVARIANTS BuffersBelowLimit
PROPERTIES KeepsLedger CloseDrains BufferedRowsSettle
CHECK_DEADLOCK FALSE
