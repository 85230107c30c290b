\* Three proposals, two clicks, one slot, the smallest heat cap.
SPECIFICATION Spec
CONSTANTS
  Sites = {}
  MaxDay = 0
  MaxCrashes = 0
  WriteOutcomes = {"ok"}
  AuditOutcomes = {TRUE, FALSE}
  NoDay = NoDay
  Torn = Torn
  Orders = {o1, o2, o3}
  Clicks = {c1, c2}
  MaxConcurrent = 1
  SwitchesMove = FALSE
  HeatCap = 0
CHECK_DEADLOCK FALSE
SYMMETRY Symmetry
INVARIANTS
  EnvelopeHeld
  HeatOvershoot
