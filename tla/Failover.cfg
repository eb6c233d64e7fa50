SPECIFICATION FairSpec
CONSTANTS
  p1 = p1
  p2 = p2
  p3 = p3
  None = None
  Providers = {p1, p2, p3}
  ProviderRetries <- Retries
  Requests = {r1}
  MaxFailover = 2
  MaxRetryCount = 1
INVARIANTS TypeOK CallsBounded ProviderSpared SuccessIsDelivered RecordedOnce
PROPERTY EveryRequestAnswered
CHECK_DEADLOCK FALSE
