SPECIFICATION FairSpec
CONSTANTS
  p1 = p1
  c1 = c1
  Providers = {p1}
  Channels = {}
  Parent <- NoParent
  Requests = {r1, r2}
  Reloaders = {a1}
  Conditions = {"ok", "badkey", "exhausted", "down", "slow", "sick"}
  MaxShifts = 1
  MaxEdits = 1
  MaxFails = 1
PROPERTY PoolFollowsUpstream
CHECK_DEADLOCK FALSE
