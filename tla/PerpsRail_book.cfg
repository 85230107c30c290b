\* One proposal and its close, one order by hand; every request overlaps with every
\* other and with restarts; writes and appends fail.
SPECIFICATION Spec
CONSTANTS
  s1 = s1
  s2 = s2
  Pairs = {s1, s2}
  OrderIds = {1, 2}
  MaxSize = 1
  WriteOutcomes = {"ok", "torn"}
  Torn = Torn
  Proposals = {p1}
  PairOf <- MCPairOf
  Clicks = {c1}
  Others = {r1}
  HandMade <- MCHandMade
  MaxOpen = 1
  Closable = {1}
  Lot = 1
  AuditOutcomes = {TRUE, FALSE}
  NoView = NoView
CHECK_DEADLOCK FALSE
INVARIANTS
  PerpsTypeOK
  SubmittedOnce
  AnchorAfterOutcome
  NothingInvented
PROPERTY
  LeavesOnEvidence
  LookAgrees
