\* Three clicks on one proposal, two restarts, appends that fail.
SPECIFICATION Spec
CONSTANTS
  Sites = {}
  MaxDay = 0
  MaxCrashes = 2
  WriteOutcomes = {"ok"}
  AuditOutcomes = {TRUE, FALSE}
  NoDay = NoDay
  Torn = Torn
  Orders = {o1}
  Clicks = {c1, c2, c3}
  MaxConcurrent = 2
  SwitchesMove = FALSE
  HeatCap = 1
CHECK_DEADLOCK FALSE
SYMMETRY Symmetry
INVARIANTS
  TypeOK
  AtMostOnce
  ProvenanceDurable
  ExecutedIsReal
PROPERTY
  OutcomeFinal
  PromiseKept
