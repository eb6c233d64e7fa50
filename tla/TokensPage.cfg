SPECIFICATION Spec
CONSTANTS
  Tokens = {t1, t2}
  Fresh = {n1}
  Models = {m1, m2}
  Restriction <- AllOrOne
  t1 = t1
  t2 = t2
  n1 = n1
  m1 = m1
  m2 = m2
  MaxActs = 3
  MaxFails = 1
INVARIANTS TypeOK FormWritesItsToken ListCatchesUp
CHECK_DEADLOCK FALSE
