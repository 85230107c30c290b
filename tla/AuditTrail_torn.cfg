\* A write may stop anywhere.
SPECIFICATION TrailSpec
CONSTANTS
  Hashes = {h1, h2, h3, h4, h5}
  NoHash = NoHash
  Broken = Broken
  AppendOutcomes = {"ok", "kept", "torn", "bare"}
  MaxSeq = 5
  MaxCrashes = 2
CHECK_DEADLOCK FALSE
SYMMETRY Symmetry
INVARIANTS
  ChainUnbroken
  NothingLostSilently
PROPERTY
  AppendOnly
