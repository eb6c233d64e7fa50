SPECIFICATION Spec
CONSTANTS
  p1 = p1
  c1 = c1
  Providers = {p1}
  Channels = {}
  Parent <- NoParent
  Requests = {r1, r2}
  Reloaders = {a1, a2}
  Conditions = {"ok", "badkey", "down"}
  MaxShifts = 1
  MaxEdits = 2
  MaxFails = 2
INVARIANTS TypeOK EscalationIsEarned BannedStaysOut ReloadTakesEffect
SYMMETRY Alike
CONSTRAINT RefusalsOrEdits
CHECK_DEADLOCK FALSE
