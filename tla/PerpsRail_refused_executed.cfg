\* An order the rail refused to send is listed as executed.
SPECIFICATION Spec
CONSTANTS
  s1 = s1
  s2 = s2
  Pairs = {s1, s2}
  OrderIds = {1}
  MaxSize = 1
  WriteOutcomes = {"ok"}
  Torn = Torn
  Proposals = {p1}
  PairOf <- MCPairOf
  Clicks = {c1}
  Others = {r1}
  HandMade = {}
  MaxOpen = 1
  Closable = {}
  Lot = 1
  AuditOutcomes = {TRUE}
  NoView = NoView
CHECK_DEADLOCK FALSE
INVARIANTS
  ExecutedWasSent
