\* Files are written whole or not at all.
SPECIFICATION PostureSpec
CONSTANTS
  Sites = {"trading:ccxt"}
  MaxDay = 2
  MaxCrashes = 2
  WriteOutcomes = {"ok", "kept"}
  AuditOutcomes = {TRUE, FALSE}
  NoDay = NoDay
  Torn = Torn
INVARIANTS
  PostureTypeOK
  TripStands
  KillStands
  TakeoverStands
