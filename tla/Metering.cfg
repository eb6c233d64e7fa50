SPECIFICATION FairSpec
CONSTANTS
  Requests = {r1, r2}
  Providers = {p1}
  Costs <- One
  LogCap = 1
  LogBatch = 2
  ChargeCap = 1
  ChargeBatch = 1
  MaxRestarts = 1
INVARIANTS TypeOK OneRowPerRecord LastRowIsFinal QuotaNeverInvented
PROPERTY MemoryDrains
CHECK_DEADLOCK FALSE
