SPECIFICATION Spec
CONSTANTS
  Orgs = {a, b}
  FreshOrgs = {c}
  Members = {m1}
  FreshMembers = {m2}
  Parent <- BelowA
  Seat <- InA
  Models = {x}
  None = None
  a = a
  b = b
  m1 = m1
  MaxActs = 2
  MaxFails = 1
INVARIANTS TypeOK NoOrphans  MembersOfSelected
CONSTRAINT OrgsOrTokens
CHECK_DEADLOCK FALSE
