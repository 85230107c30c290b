\* Equities that cross the step zone and the hard stop, a second exchange that
\* comes and goes, failing writes and restarts.
SPECIFICATION Spec
CONSTANTS
  Spots = {binance, kraken}
  Perps = hyperliquid
  Usd <- MCUsd
  SumOf <- MCSumOf
  StepPct = 10
  HardPct = 15
  Exposures = {1, 2}
  StepCeiling = 1
  WriteOutcomes = {"ok", "kept", "torn"}
  NoStore = NoStore
  Torn = Torn
INVARIANTS
  RiskTypeOK
  PeakStands
PROPERTY
  LatchStands
  NeverPartial
