SPECIFICATION Spec
CONSTANTS
  Items = {i1, i2}
  Domains = {d1}
  FreshDomains = {d2}
  Memories = {m1}
  MaxActs = 2
  MaxFails = 0
INVARIANTS
  ApprovalTakesEffect
CHECK_DEADLOCK FALSE
