SPECIFICATION Spec
CONSTANTS
  Values = {v1, v2}
  Old = v1
  Bands = 3
  Full = 3
  Top = 4
  None = None
  MaxActs = 2
  MaxFails = 2
INVARIANTS
  TypeOK
  StoredConfigValid
  PageFollowsRows
  GatewayFollowsSwitch
CHECK_DEADLOCK FALSE
