----------------------------- MODULE PerpsRail -----------------------------
(***************************************************************************)
(* The live perpetuals rail (site trading:perps): propose, execute, close, *)
(* verify and list, the routes of handlers.mjs over perpsExecution.mjs,    *)
(* with the position book and the venue (hyperliquidPerps.mjs).            *)
(*                                                                         *)
(* A click (propose, execute or close) has up to five turns.  Begin reads  *)
(* the proposal or the position; a process that has not yet reconciled     *)
(* asks for the venue's view (Looks) and applies the answer (Applies);     *)
(* the last observation's turn runs every gate (Refuse, Record, Admit);    *)
(* then the venue call (Send or NotSent) and its outcome (Settle).  The    *)
(* list route looks and applies too; the verify route reads one order and  *)
(* books its fill in a later turn.  Requests repeat without bound.         *)
(***************************************************************************)
EXTENDS PerpsBook

CONSTANTS
  Proposals,      \* clientOrderIds of open proposals
  PairOf,         \* the pair a proposal is for
  Clicks,         \* propose, execute and close requests that overlap
  Others,         \* list and verify requests that overlap
  Closable,       \* bound: the positions somebody asks to close
  HandMade,       \* bound: the (order id, pair, opens) somebody orders by hand
  MaxOpen,        \* PICC_CCXT_PERPS_MAX_OPEN_POSITIONS
  Lot,            \* contracts of a proposal
  AuditOutcomes,  \* whether an append returns
  NoView          \* no view held

ASSUME PerpsAssumption ==
  /\ PairOf \in [Proposals -> Pairs] /\ HandMade \subseteq OrderIds \X Pairs \X BOOLEAN
  /\ MaxOpen \in Nat /\ Lot \in 1..MaxSize
  /\ AuditOutcomes \subseteq BOOLEAN
  /\ Proposals \cap Ids = {}
  /\ Clicks \cap Others = {}
  /\ NoView \notin Views

VARIABLES
  trail,    \* the audit trail, by kind and idempotency key
  keys,     \* safetySidecar idempotencyKeys, in memory
  pc,       \* where each click is
  goal,     \* its job and the proposal or position it works on
  replay,   \* a close: the position as Begin read it
  view,     \* the venue's view a request holds
  reading,  \* a verify request's answered read
  wire,     \* createOrder calls the venue has not decided
  sent,     \* how often createOrder was called for a key
  orders,   \* the venue's orders
  net       \* the venue's positions

railVars == <<trail, keys, pc, goal, replay, view, reading, wire, sent>>
venueVars == <<orders, net>>
vars == <<bookVars, railVars, venueVars>>

-----------------------------------------------------------------------------
\* An open is keyed by its clientOrderId, a close by its position id
\* (closeClientOrderIdFor): the second one is the same for every click.
Keys == Proposals \cup Ids

Kinds == {"allow", "created", "executed", "failed"}
Entry(kind, key) == [kind |-> kind, key |-> key]
Has(kind, key)   == Entry(kind, key) \in trail

\* A slip: the trail is not asked.
SeenInMemory(key) == key \in keys

\* gate 10: the memory set, then the trail.
Seen(key) == key \in keys \/ Has("allow", key)

Jobs   == {"propose", "execute", "close"}
NoGoal == [job |-> "none"]
Goals  == [job : Jobs, key : Keys]
NoPos  == [pair |-> "none"]

NoOrder == [pair |-> "none"]
Orders  == [pair : Pairs, opens : BOOLEAN, amount : 1..MaxSize, filled : 0..MaxSize]
Calls   == [key : Keys, pair : Pairs, opens : BOOLEAN, amount : 1..MaxSize]

NoRead   == [key |-> "none"]
Readings == [key : Keys, id : OrderIds, filled : 1..MaxSize]

Readers == Clicks \cup Others

Init ==
  /\ BookInit
  /\ trail = {} /\ keys = {} /\ wire = {}
  /\ pc = [c \in Clicks |-> "idle"]
  /\ goal = [c \in Clicks |-> NoGoal]
  /\ replay = [c \in Clicks |-> NoPos]
  /\ view = [r \in Readers |-> NoView]
  /\ reading = [v \in Others |-> NoRead]
  /\ sent = [k \in Keys |-> 0]
  /\ orders = [o \in OrderIds |-> NoOrder]
  /\ net = [p \in Pairs |-> 0]

-----------------------------------------------------------------------------
\* What a click works on must be there when it starts: an execute needs the
\* recorded proposal, a close the open position, which it keeps.
Startable(g) ==
  CASE g.job = "propose" -> g.key \in Proposals /\ ~Has("created", g.key)
    [] g.job = "execute" -> g.key \in Proposals /\ Has("created", g.key)
    [] g.job = "close"   -> g.key \in DOMAIN book \cap Closable

Begin(c, g) ==
  /\ pc[c] = "idle"
  /\ Startable(g)
  /\ goal' = [goal EXCEPT ![c] = g]
  /\ replay' = [replay EXCEPT ![c] = IF g.job = "close" THEN book[g.key] ELSE NoPos]
  /\ pc' = [pc EXCEPT ![c] = IF latched \/ ~healthy THEN "deciding" ELSE "looking"]
  /\ UNCHANGED <<trail, keys, view, reading, wire, sent, bookVars, venueVars>>

\* positionView is answered with what the venue holds at that moment, without
\* the positions whose row has no finite entry price.  An unobservable venue
\* leaves the request without a view, and the book alone; so does a store that
\* did not boot, which reconciles nothing.
Looks(r) ==
  /\ view[r] = NoView /\ healthy
  /\ IF r \in Clicks THEN pc[r] = "looking" ELSE reading[r] = NoRead
  /\ \E hidden \in SUBSET {p \in Pairs : net[p] > 0} :
       view' = [view EXCEPT ![r] = [p \in Pairs |-> IF p \in hidden THEN 0 ELSE net[p]]]
  /\ UNCHANGED <<trail, keys, pc, goal, replay, reading, wire, sent, bookVars, venueVars>>

LooksInVain(c) ==
  /\ pc[c] = "looking" /\ view[c] = NoView
  /\ pc' = [pc EXCEPT ![c] = "deciding"]
  /\ UNCHANGED <<trail, keys, goal, replay, view, reading, wire, sent, bookVars, venueVars>>

\* The answer arrives and is applied, in a later turn.
Applies(r, adopted, w) ==
  /\ view[r] # NoView
  /\ reconcileWithVenue(view[r], adopted, r \in Clicks, w)
  /\ view' = [view EXCEPT ![r] = NoView]
  /\ pc' = IF r \in Clicks THEN [pc EXCEPT ![r] = "deciding"] ELSE pc
  /\ UNCHANGED <<trail, keys, goal, replay, reading, wire, sent, venueVars>>

-----------------------------------------------------------------------------
Done(c) ==
  /\ pc' = [pc EXCEPT ![c] = "idle"]
  /\ goal' = [goal EXCEPT ![c] = NoGoal]
  /\ replay' = [replay EXCEPT ![c] = NoPos]

\* Gate 14, over the book as it is in this turn.
PositionCap(job) ==
  IF job = "close" THEN Cardinality(DOMAIN book) <= MaxOpen + 1
                   ELSE Cardinality(DOMAIN book) + 1 <= MaxOpen

\* Any of the twenty gates denies, the wallet's leverage has drifted, or an
\* append on the way throws.  Nothing it leaves is read again.
Refuse(c) ==
  /\ pc[c] = "deciding"
  /\ Done(c)
  /\ UNCHANGED <<trail, keys, view, reading, wire, sent, bookVars, venueVars>>

\* proposePerpsOpen passes every gate and records the proposal.
Record(c) ==
  /\ pc[c] = "deciding" /\ goal[c].job = "propose"
  /\ PositionCap("propose")
  /\ TRUE \in AuditOutcomes
  /\ trail' = trail \cup {Entry("created", goal[c].key)}
  /\ Done(c)
  /\ UNCHANGED <<keys, view, reading, wire, sent, bookVars, venueVars>>

\* executePerpsOpen and executePerpsClose pass every gate; the last one
\* registers the execution key before its allow is appended.
GatesPass(c) ==
  /\ pc[c] = "deciding" /\ goal[c].job \in {"execute", "close"}
  /\ PositionCap(goal[c].job)
  /\ ~Seen(goal[c].key)
  /\ keys' = keys \cup {goal[c].key}

Admit(c) ==
  /\ GatesPass(c)
  /\ TRUE \in AuditOutcomes
  /\ trail' = trail \cup {Entry("allow", goal[c].key)}
  /\ pc' = [pc EXCEPT ![c] = "admitted"]
  /\ UNCHANGED <<goal, replay, view, reading, wire, sent, bookVars, venueVars>>

\* The append of the allow throws: no executor, the key stays in memory.
AdmitUnrecorded(c) ==
  /\ GatesPass(c)
  /\ FALSE \in AuditOutcomes
  /\ Done(c)
  /\ UNCHANGED <<trail, view, reading, wire, sent, bookVars, venueVars>>

-----------------------------------------------------------------------------
\* What executeProposal may append for an executor that returned or threw: the
\* append of execution:executed may throw into the catch, and that one too.
Outcomes(ended) ==
  {{ended}} \cup (IF FALSE \in AuditOutcomes
                    THEN {{}} \cup (IF ended = "executed" THEN {{"failed"}} ELSE {})
                    ELSE {})

\* A slip: the anchor of a close is appended before its outcome is known.
FinishAnchorFirst(c, ended) ==
  LET key == goal[c].key IN
  /\ \E kinds \in Outcomes(ended) :
       trail' = trail \cup {Entry(k, key) : k \in kinds \cup {"created"}}
  /\ Done(c)
  /\ UNCHANGED <<keys, view, reading, wire, sent, bookVars, venueVars>>

\* The outcome; then, for a close that has one, its anchor proposal:created.
Finish(c, ended) ==
  LET key == goal[c].key IN
  /\ \E kinds \in Outcomes(ended) :
       \E anchor \in {{}, {"created"}} :
         /\ anchor # {} => kinds # {} /\ goal[c].job = "close"
         /\ (kinds # {} /\ goal[c].job = "close" /\ anchor = {}) => FALSE \in AuditOutcomes
         /\ trail' = trail \cup {Entry(k, key) : k \in kinds \cup anchor}
  /\ Done(c)
  /\ UNCHANGED <<keys, view, reading, wire, sent, bookVars, venueVars>>

\* submitOrder refuses before createOrder (rail off, markets, margin, setup):
\* it returns { ok: false }, which is an executor that returned.  Building the
\* instance may throw.
NotSent(c) ==
  /\ pc[c] = "admitted"
  /\ \E ended \in {"executed", "failed"} : Finish(c, ended)

\* The order a click sends: the proposal's lot, or the size of the position
\* as it was read when the close began.
CallOf(c) ==
  IF goal[c].job = "close"
    THEN [key |-> goal[c].key, pair |-> replay[c].pair, opens |-> FALSE,
          amount |-> replay[c].size]
    ELSE [key |-> goal[c].key, pair |-> PairOf[goal[c].key], opens |-> TRUE,
          amount |-> Lot]

Send(c) ==
  /\ pc[c] = "admitted"
  /\ wire' = wire \cup {CallOf(c)}
  /\ sent' = [sent EXCEPT ![goal[c].key] = @ + 1]
  /\ pc' = [pc EXCEPT ![c] = "sent"]
  /\ UNCHANGED <<trail, keys, goal, replay, view, reading, bookVars, venueVars>>

\* createOrder answered, was refused, or gave no answer in time: submitOrder
\* returns in every case.
Settle(c) ==
  /\ pc[c] = "sent"
  /\ Finish(c, "executed")

-----------------------------------------------------------------------------
\* The venue.  A call is taken at any later time or never; an order fills
\* contract by contract; a reduce-only order never opens a position.
Fresh(o) == orders[o] = NoOrder /\ \A i \in OrderIds : i < o => orders[i] # NoOrder

VenueTakes(call, o) ==
  /\ call \in wire /\ Fresh(o)
  /\ wire' = wire \ {call}
  /\ orders' = [orders EXCEPT ![o] = [pair |-> call.pair, opens |-> call.opens,
                                      amount |-> call.amount, filled |-> 0]]
  /\ UNCHANGED <<trail, keys, pc, goal, replay, view, reading, sent, bookVars, net>>

Fills(o) ==
  /\ orders[o] # NoOrder
  /\ orders[o].filled < orders[o].amount
  /\ LET p == orders[o].pair IN
       /\ IF orders[o].opens THEN net[p] < MaxSize ELSE net[p] > 0
       /\ net' = [net EXCEPT ![p] = IF orders[o].opens THEN @ + 1 ELSE @ - 1]
  /\ orders' = [orders EXCEPT ![o].filled = @ + 1]
  /\ UNCHANGED <<railVars, bookVars>>

\* The human places an order by hand: a recorded proposal's (carrier B) or any
\* other one.
HumanPlaces(o, p, opens) ==
  /\ Fresh(o) /\ <<o, p, opens>> \in HandMade
  /\ orders' = [orders EXCEPT ![o] = [pair |-> p, opens |-> opens,
                                      amount |-> Lot, filled |-> 0]]
  /\ UNCHANGED <<railVars, bookVars, net>>

\* A liquidation, or a close by hand.
Vanishes(p) ==
  /\ net[p] > 0
  /\ net' = [net EXCEPT ![p] = 0]
  /\ UNCHANGED <<railVars, bookVars, orders>>

-----------------------------------------------------------------------------
\* A slip: the planned size is taken for the filled one.
VerifyReadsPlanned(v, key, o) ==
  /\ reading[v] = NoRead /\ view[v] = NoView
  /\ Has("created", key)
  /\ orders[o] # NoOrder
  /\ reading' = [reading EXCEPT ![v] = [key |-> key, id |-> o, filled |-> orders[o].amount]]
  /\ UNCHANGED <<trail, keys, pc, goal, replay, view, wire, sent, bookVars, venueVars>>

\* POST /verify for a recorded proposal or close anchor, with the id of any
\* order of the wallet: the fill's symbol and side are read and compared with
\* nothing.  A read that fails or shows nothing filled books nothing.
VerifyReads(v, key, o) ==
  /\ reading[v] = NoRead /\ view[v] = NoView
  /\ Has("created", key)
  /\ orders[o] # NoOrder /\ orders[o].filled > 0
  /\ reading' = [reading EXCEPT ![v] = [key |-> key, id |-> o, filled |-> orders[o].filled]]
  /\ UNCHANGED <<trail, keys, pc, goal, replay, view, wire, sent, bookVars, venueVars>>

\* The verified fill books a position change: of the proposal's pair, with the
\* fill's size and order id, or of the position the anchor names.
BooksFill(r, w) ==
  /\ r.filled > 0
  /\ IF r.key \in Proposals THEN trackOpen(r.id, PairOf[r.key], r.filled, w)
                            ELSE recordClose(r.key, w)

\* The entry perps-verify:filled or :unobserved is appended first, and only
\* the list shows it: when the append throws, or the booking is refused (a
\* duplicate id, an unknown position, no average price), the book stays.
VerifyApplies(v) ==
  LET r == reading[v] IN
  /\ r # NoRead
  /\ reading' = [reading EXCEPT ![v] = NoRead]
  /\ \/ TRUE \in AuditOutcomes /\ \E w \in WriteOutcomes : BooksFill(r, w)
     \/ UNCHANGED bookVars
  /\ UNCHANGED <<trail, keys, pc, goal, replay, view, wire, sent, venueVars>>

-----------------------------------------------------------------------------
\* The process dies and a new one boots.
Restart ==
  /\ Reboot
  /\ keys' = {}
  /\ pc' = [c \in Clicks |-> "idle"]
  /\ goal' = [c \in Clicks |-> NoGoal]
  /\ replay' = [c \in Clicks |-> NoPos]
  /\ view' = [r \in Readers |-> NoView]
  /\ reading' = [v \in Others |-> NoRead]
  /\ UNCHANGED <<trail, wire, sent, venueVars>>

ClickTurn(c) ==
  \/ \E g \in Goals : Begin(c, g)
  \/ LooksInVain(c) \/ Refuse(c) \/ Record(c) \/ Admit(c) \/ AdmitUnrecorded(c)
  \/ NotSent(c) \/ Send(c) \/ Settle(c)

Venue ==
  \/ \E call \in wire, o \in OrderIds : VenueTakes(call, o)
  \/ \E o \in OrderIds : Fills(o) \/ \E p \in Pairs, opens \in BOOLEAN : HumanPlaces(o, p, opens)
  \/ \E p \in Pairs : Vanishes(p)

Next ==
  \/ \E c \in Clicks : ClickTurn(c)
  \/ \E r \in Readers :
       \/ Looks(r)
       \/ view[r] # NoView
          /\ \E adopted \in SUBSET Unknown(view[r]), w \in WriteOutcomes : Applies(r, adopted, w)
  \/ \E v \in Others :
       VerifyApplies(v) \/ \E key \in Keys, o \in OrderIds : VerifyReads(v, key, o)
  \/ Venue
  \/ Restart

Spec == Init /\ [][Next]_vars

-----------------------------------------------------------------------------
\* The state of the rail, the book and the venue.
PerpsTypeOK ==
  /\ book \in Books /\ file \in Books \cup {Torn}
  /\ healthy \in BOOLEAN /\ latched \in BOOLEAN
  /\ trail \subseteq [kind : Kinds, key : Keys]
  /\ keys \subseteq Keys
  /\ pc \in [Clicks -> {"idle", "looking", "deciding", "admitted", "sent"}]
  /\ goal \in [Clicks -> Goals \cup {NoGoal}]
  /\ replay \in [Clicks -> Positions \cup {NoPos}]
  /\ view \in [Readers -> Views \cup {NoView}]
  /\ reading \in [Others -> Readings \cup {NoRead}]
  /\ wire \subseteq Calls
  /\ sent \in [Keys -> Nat]
  /\ orders \in [OrderIds -> Orders \cup {NoOrder}]
  /\ net \in [Pairs -> 0..MaxSize]

\* createOrder is called at most once for a proposal and at most once for a
\* position id, whatever overlaps, throws or restarts: "venue reached exactly
\* once" (perpsExecution.mjs:68-70).
SubmittedOnce == \A key \in Keys : sent[key] <= 1

\* A close is listed only after its attempt has an outcome: "the close's list
\* row only exists from an executed/failed attempt" (perpsExecution.mjs:553-555).
AnchorAfterOutcome ==
  \A id \in Ids : Has("created", id) => Has("executed", id) \/ Has("failed", id)

\* Nothing is invented: a tracked position, in memory or in the file, is no
\* larger than what the venue order it is named after has filled, and its pair
\* is that of a recorded proposal, which need not be the pair of that order; an
\* adopted one is of a pair in which some order has filled.
Backed(b) ==
  \A id \in DOMAIN b :
    IF id \in OrderIds
      THEN /\ orders[id] # NoOrder /\ b[id].size <= orders[id].filled
           /\ \E p \in Proposals : Has("created", p) /\ b[id].pair = PairOf[p]
      ELSE \E o \in OrderIds : orders[o] # NoOrder /\ orders[o].pair = id
                                                  /\ orders[o].filled > 0

NothingInvented == Backed(book) /\ (file # Torn => Backed(file))

\* A position leaves the book only on evidence: a fill that was read for it, a
\* view of the venue without its pair, or a process that booted without it.  The
\* evidence may be stale or partial by then, and the fill another order's.
LeavesOnEvidence ==
  [][\A id \in DOMAIN book \ DOMAIN book' :
       \/ Restart
       \/ \E v \in Others : /\ reading[v] # NoRead /\ reading'[v] = NoRead
                            /\ reading[v].key = id /\ reading[v].filled > 0
       \/ \E r \in Readers : /\ view[r] # NoView /\ view'[r] = NoView
                             /\ view[r][book[id].pair] = 0]_vars

\* A whole view, priced and still true when it is applied, leaves the venue's
\* pairs in the book and no others, whatever was in it: phantoms are gone,
\* positions a failed write lost are back.  No view adds a second record of a
\* pair; those a pair already has all stay.
LookAgrees ==
  [][\A r \in Readers : view[r] # NoView /\ view'[r] = NoView =>
       /\ \A w \in WriteOutcomes :
            view[r] = net /\ Applies(r, Unknown(net), w)
              => PairsOf(book') = {p \in Pairs : net[p] > 0}
       /\ \A id \in DOMAIN book' \ DOMAIN book, i \in DOMAIN book' :
            book'[i].pair = book'[id].pair => i = id \/ Restart]_vars

\* Stated by the repository and not true: what the list calls executed was
\* sent to the venue ("their honest latest state", perpsExecution.mjs:676-677).
ExecutedWasSent == \A key \in Keys : Has("executed", key) => sent[key] = 1
=============================================================================
