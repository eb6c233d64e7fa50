SPECIFICATION FairSpec
CONSTANTS
  t1 = t1
  t2 = t2
  r1 = r1
  r2 = r2
  Tokens <- OneToken
  Requests <- TwoRequests
  Costs <- OneTwo
  ChanCap = 1
  Totals <- Two
  AdminTotals <- Unlimited
  LoadMayFail = TRUE
  MaxUsed = 3
  MaxRestarts = 1
  MaxEdits = 1
INVARIANTS
  TypeOK
  NoOverdraft
  CountedAtMostTwice
  FlushedIsDurable
PROPERTIES
  AccountSpec
  RowsSettle
CHECK_DEADLOCK FALSE
