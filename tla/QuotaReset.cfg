SPECIFICATION Spec
CONSTANTS
  t1 = t1
  t2 = t2
  r1 = r1
  r2 = r2
  Tokens <- OneToken
  Requests <- TwoRequests
  Costs <- OneTwo
  ChanCap = 1
  Totals <- Two
  AdminTotals <- Three
  LoadMayFail = FALSE
  MaxUsed = 3
  MaxRestarts = 1
  MaxEdits = 2
PROPERTY
  ResetSticks
CHECK_DEADLOCK FALSE
