SPECIFICATION Spec
CONSTANTS
  Items = {i1, i2}
  Domains = {d1}
  FreshDomains = {d2}
  Memories = {m1}
  MaxActs = 3
  MaxFails = 1
INVARIANTS
  TypeOK
  LoadingEnds
CHECK_DEADLOCK FALSE
