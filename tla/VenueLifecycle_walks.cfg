\* Two walks on one venue, with strikes, days, a changing drawdown and restarts.
SPECIFICATION FairSpec
CHECK_DEADLOCK FALSE
CONSTANTS
  Venues = {kraken}
  Walks = {w1, w2}
  Sides = {"buy", "sell"}
  Sizes = {2}
  LegSets <- MCLegSets
  StrikeLimit = 1
  MaxStrikes = 1
  MaxDay = 1
INVARIANTS
  LifecycleTypeOK
  BookWithinFills
  CompletedIsReal
PROPERTY
  BarredSendsNothing
  WalkEnds
