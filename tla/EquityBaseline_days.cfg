\* Two UTC days, two rails and the sweep, midnight at any time.
SPECIFICATION EquityFairSpec
CONSTANTS
  e1 = e1
  Exchanges = {e1}
  SweepOrder <- MCSweepOne
  Rails = {r1, r2}
  Sweep = Sweep
  NoRecord = NoRecord
  PersistOutcomes = {TRUE, FALSE}
  MaxDay = 1
  MaxReadings = 5
  MaxCrashes = 2
CHECK_DEADLOCK FALSE
INVARIANT
  EquityTypeOK
PROPERTIES
  BaselineStands
  NoLostUpdate
  EveryObservationEnds
