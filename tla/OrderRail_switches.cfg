\* One click while the switches move, fair.
SPECIFICATION FairSpec
CONSTANTS
  Sites = {}
  MaxDay = 1
  MaxCrashes = 1
  WriteOutcomes = {"ok"}
  AuditOutcomes = {TRUE, FALSE}
  NoDay = NoDay
  Torn = Torn
  Orders = {o1}
  Clicks = {c1}
  MaxConcurrent = 1
  SwitchesMove = TRUE
  HeatCap = 1
CHECK_DEADLOCK FALSE
PROPERTIES
  AdmissionRespectsSwitches
  ClickAnswered
