----------------------------- MODULE OrderRail -----------------------------
(***************************************************************************)
(* The live spot order rail (site trading:ccxt): a human proposes an       *)
(* order, clicks "Execute via PICC" on it (carrier A), or places it on the *)
(* exchange and asks for a read-only verification (carrier B).             *)
(*                                                                         *)
(* Requests are the routes of handlers.mjs.  Node runs one turn at a time, *)
(* so an action is the stretch between two awaits that wait for a file     *)
(* lock or the network; an await of a promise that is already settled      *)
(* yields only to the microtask queue, which is drained before any other   *)
(* request runs.  A click therefore has three turns: Begin (consent), Admit *)
(* (everything from the last observation to the durable allow), and the    *)
(* venue call with its outcome (Place, then Settle).  The process may die  *)
(* between any two of them; only the audit trail and the switch files      *)
(* survive, and the venue, which may still receive a call already sent.    *)
(***************************************************************************)
EXTENDS SafetyPosture, Integers, FiniteSets

CONSTANTS
  Orders,         \* the clientOrderIds clientOrderIdFor can draw; never drawn twice
  Clicks,         \* execute requests; each is used once
  MaxConcurrent,  \* envelope.maxConcurrent of the trading:ccxt template
  SwitchesMove,   \* bound: whether people and breakers move the switches too
  HeatCap         \* PICC_RISK_PORTFOLIO_HEAT_CAP_USD, in orders of the clamp size

ASSUME RailAssumption ==
  /\ MaxConcurrent \in Nat
  /\ SwitchesMove \in BOOLEAN
  /\ HeatCap \in Nat

VARIABLES
  minted,   \* ids already drawn
  trail,    \* the audit trail: what is on disk, which is what readAudit returns
  keys,     \* safetySidecar idempotencyKeys, in memory
  running,  \* commandCentreExecution `running` for this site, in memory
  pc,       \* where each click is
  target,   \* the proposal a click executes
  call,     \* the venue's side of a click's createOrder
  manual    \* carrier B: what the human placed on the exchange for a proposal

railVars == <<minted, trail, keys, running, pc, target, call, manual>>
vars == <<postureVars, railVars>>

-----------------------------------------------------------------------------
Kinds == {"safety-gate:allow", "proposal:created", "consent:reconfirmed",
          "execution:executed", "execution:failed",
          "ccxt-verify:filled", "ccxt-verify:unobserved"}

\* data.idempotencyKey of an entry: the proposal key, the execution key, none.
KeyKinds == {"proposal", "exec", "none"}

Entries == [kind : Kinds, order : Orders, key : KeyKinds]
Entry(kind, o, key) == [kind |-> kind, order |-> o, key |-> key]

Idle     == "idle"
Live     == {"observing", "placing", "sent"}
Answered == {"executed", "failed", "denied", "error"}
PcStates == {Idle, "lost"} \cup Live \cup Answered

NoOrder == "no order"

\* A slip the runs must notice: the audit reader was never wired.
SeenInMemoryOnly(o, key) == <<o, key>> \in keys

\* auditSeen: the memory set first, then every entry of the trail.
Seen(o, key) ==
  \/ <<o, key>> \in keys
  \/ \E e \in trail : e.order = o /\ e.key = key

Has(kind, o) == \E e \in trail : e.kind = kind /\ e.order = o

\* A slip: the verification outranks the recorded outcome.
StatusVerifyFirst(o) ==
  IF Has("ccxt-verify:filled", o)          THEN "verified-filled"
  ELSE IF Has("execution:executed", o)     THEN "executed"
  ELSE IF Has("execution:failed", o)       THEN "failed"
  ELSE IF Has("ccxt-verify:unobserved", o) THEN "verify-unobserved"
  ELSE "open"

\* proposalOrdersFromAudit: the status the orders list shows.
Status(o) ==
  IF Has("execution:executed", o)          THEN "executed"
  ELSE IF Has("execution:failed", o)       THEN "failed"
  ELSE IF Has("ccxt-verify:filled", o)     THEN "verified-filled"
  ELSE IF Has("ccxt-verify:unobserved", o) THEN "verify-unobserved"
  ELSE "open"

\* portfolioHeatUsd, the spot half: proposals shown open or executed.
Heat == Cardinality({o \in Orders : /\ Has("proposal:created", o)
                                    /\ Status(o) \in {"open", "executed"}})

\* A slip: the heat is shown and not enforced.
HeatIgnored == TRUE

\* Gate 19 compares the heat already there, without the order it lets through.
HeatGate == Heat <= HeatCap

\* A slip: one executor too many.
EnvelopeOffByOne == running <= MaxConcurrent

EnvelopeGate == running < MaxConcurrent

\* A call the venue has turned into an order.
OnBook     == {"accepted", "unheard"}
CallStates == {"none", "wire", "refused"} \cup OnBook

\* The clicks whose executor is running.
InFlight == {c \in Clicks : pc[c] \in {"placing", "sent"}}

-----------------------------------------------------------------------------
RailInit ==
  /\ minted = {} /\ trail = {} /\ keys = {} /\ running = 0
  /\ pc = [c \in Clicks |-> Idle]
  /\ target = [c \in Clicks |-> NoOrder]
  /\ call = [c \in Clicks |-> "none"]
  /\ manual = [o \in Orders |-> "none"]

Init == PostureInit /\ RailInit

\* POST /orders.  A proposal the sidecar denies leaves nothing that is read
\* again, so only the admitted ones are steps: the sidecar's allow, then the
\* risk gates, then proposal:created, each of which may end the request.
ProposeAllowed(o) ==
  /\ o \notin minted
  /\ minted' = minted \cup {o}
  /\ PostureOpen /\ EnvelopeGate
  /\ ~Seen(o, "proposal")
  /\ keys' = keys \cup {<<o, "proposal">>}
  /\ UNCHANGED <<running, pc, target, call, manual>>

Allowed(o, key) == Entry("safety-gate:allow", o, key)

\* The append of the allow throws: the key stays in memory.
ProposeUnrecorded(o) ==
  /\ ProposeAllowed(o)
  /\ FALSE \in AuditOutcomes
  /\ UNCHANGED <<trail, postureVars>>

\* A risk gate denies, or the append of proposal:created throws.
ProposeDropped(o) ==
  /\ ProposeAllowed(o)
  /\ trail' = trail \cup {Allowed(o, "proposal")}
  /\ UNCHANGED postureVars

\* Gate 16 sees the day's loss above its ceiling and trips the breaker.
ProposeTrips(o) ==
  /\ ProposeAllowed(o)
  /\ trail' = trail \cup {Allowed(o, "proposal")}
  /\ \E w \in WriteOutcomes, a \in AuditOutcomes : tripBreaker(w, a)

ProposeCreated(o) ==
  /\ ProposeAllowed(o)
  /\ HeatGate
  /\ TRUE \in AuditOutcomes
  /\ trail' = trail \cup {Allowed(o, "proposal"),
                          Entry("proposal:created", o, "proposal")}
  /\ UNCHANGED postureVars

Propose(o) ==
  ProposeUnrecorded(o) \/ ProposeDropped(o) \/ ProposeTrips(o) \/ ProposeCreated(o)

-----------------------------------------------------------------------------
\* A slip: the route does not bind the proposal it looked up.
BeginUnbound(c, o) ==
  /\ pc[c] = Idle
  /\ Has("proposal:created", o)
  /\ trail' = trail \cup {Entry("consent:reconfirmed", o, "none")}
  /\ pc' = [pc EXCEPT ![c] = "observing"]
  /\ UNCHANGED <<minted, keys, running, target, call, manual, postureVars>>

\* POST /orders/execute, up to the first observation: the proposal is read
\* back from the trail and the payload is compared with it.
Begin(c, o) ==
  /\ pc[c] = Idle
  /\ Has("proposal:created", o)
  /\ target' = [target EXCEPT ![c] = o]
  /\ \/ /\ TRUE \in AuditOutcomes
        /\ trail' = trail \cup {Entry("consent:reconfirmed", o, "none")}
        /\ pc' = [pc EXCEPT ![c] = "observing"]
     \/ /\ pc' = [pc EXCEPT ![c] = "denied"]     \* consent-payload-mismatch
        /\ UNCHANGED trail
     \/ /\ FALSE \in AuditOutcomes
        /\ pc' = [pc EXCEPT ![c] = "error"]
        /\ UNCHANGED trail
  /\ UNCHANGED <<minted, keys, running, call, manual, postureVars>>

\* The reference price has answered.  The limit, the wallet, the risk
\* aggregate and the gates are read in this turn; any of them may deny, and
\* the append of a denial or of the risk gates' allow may throw.
Refuse(c) ==
  /\ pc[c] = "observing"
  /\ \/ pc' = [pc EXCEPT ![c] = "denied"]
     \/ FALSE \in AuditOutcomes /\ pc' = [pc EXCEPT ![c] = "error"]
  /\ UNCHANGED <<minted, trail, keys, running, target, call, manual, postureVars>>

\* Gate 16 trips the breaker on the way to its own denial.
RefuseAndTrip(c) ==
  /\ pc[c] = "observing"
  /\ \E w \in WriteOutcomes, a \in AuditOutcomes :
       /\ tripBreaker(w, a)
       /\ pc' = [pc EXCEPT ![c] = IF Committed(w, a) THEN "denied" ELSE "error"]
  /\ UNCHANGED <<minted, trail, keys, running, target, call, manual>>

\* Every gate of the click passes; gate 10 registers the execution key.
GatesPass(c) ==
  /\ pc[c] = "observing"
  /\ HeatGate
  /\ PostureOpen
  /\ EnvelopeGate
  /\ ~Seen(target[c], "exec")
  /\ keys' = keys \cup {<<target[c], "exec">>}

Admit(c) ==
  /\ GatesPass(c)
  /\ TRUE \in AuditOutcomes
  /\ trail' = trail \cup {Allowed(target[c], "exec")}
  /\ running' = running + 1
  /\ pc' = [pc EXCEPT ![c] = "placing"]
  /\ UNCHANGED <<minted, target, call, manual, postureVars>>

\* A slip: the failed append is swallowed and the executor runs.
AdmitSwallowed(c) ==
  /\ GatesPass(c)
  /\ FALSE \in AuditOutcomes
  /\ running' = running + 1
  /\ pc' = [pc EXCEPT ![c] = "placing"]
  /\ UNCHANGED <<minted, trail, target, call, manual, postureVars>>

\* The append of the allow throws out of evaluateGate: no executor.
AdmitUnrecorded(c) ==
  /\ GatesPass(c)
  /\ FALSE \in AuditOutcomes
  /\ pc' = [pc EXCEPT ![c] = "error"]
  /\ UNCHANGED <<minted, trail, running, target, call, manual, postureVars>>

\* placeCcxtOrder reaches createOrder.
Place(c) ==
  /\ pc[c] = "placing"
  /\ call' = [call EXCEPT ![c] = "wire"]
  /\ pc' = [pc EXCEPT ![c] = "sent"]
  /\ UNCHANGED <<minted, trail, keys, running, target, manual, postureVars>>

\* The executor threw: execution:failed, or a throw out of the catch block.
\* The counter goes down in `finally` either way.
ExecutionFailed(c) ==
  /\ \/ /\ TRUE \in AuditOutcomes
        /\ trail' = trail \cup {Entry("execution:failed", target[c], "exec")}
        /\ pc' = [pc EXCEPT ![c] = "failed"]
     \/ /\ FALSE \in AuditOutcomes
        /\ pc' = [pc EXCEPT ![c] = "error"]
        /\ UNCHANGED trail
  /\ running' = running - 1
  /\ UNCHANGED <<minted, keys, target, call, manual, postureVars>>

\* placeCcxtOrder refuses before createOrder (cap, credentials, instance).
PlaceRefused(c) == pc[c] = "placing" /\ ExecutionFailed(c)

\* A slip: createOrder has no time limit.
SettleRefusedOnly(c) ==
  /\ pc[c] = "sent" /\ call[c] = "refused"
  /\ ExecutionFailed(c)

\* createOrder rejected: the venue refused, or no answer came in 15 seconds
\* (the call may have been accepted all the same, or may still be).
SettleFailed(c) ==
  /\ pc[c] = "sent" /\ call[c] # "accepted"
  /\ ExecutionFailed(c)

\* A slip: an unanswered call is taken for an accepted one.
SettleAssumed(c) ==
  /\ pc[c] = "sent"
  /\ TRUE \in AuditOutcomes
  /\ trail' = trail \cup {Entry("execution:executed", target[c], "exec")}
  /\ pc' = [pc EXCEPT ![c] = "executed"]
  /\ running' = running - 1
  /\ UNCHANGED <<minted, keys, target, call, manual, postureVars>>

\* createOrder answered with an order and the outcome is recorded.
SettleExecuted(c) ==
  /\ pc[c] = "sent" /\ call[c] = "accepted"
  /\ TRUE \in AuditOutcomes
  /\ trail' = trail \cup {Entry("execution:executed", target[c], "exec")}
  /\ pc' = [pc EXCEPT ![c] = "executed"]
  /\ running' = running - 1
  /\ UNCHANGED <<minted, keys, target, call, manual, postureVars>>

\* The append of execution:executed throws inside the try block.
SettleUnrecorded(c) ==
  /\ pc[c] = "sent" /\ call[c] = "accepted"
  /\ FALSE \in AuditOutcomes
  /\ ExecutionFailed(c)

Settle(c) == SettleExecuted(c) \/ SettleUnrecorded(c) \/ SettleFailed(c)

-----------------------------------------------------------------------------
\* The venue, as src/ uses it.  A call on the wire is accepted or refused,
\* also after the click has given up on it and after the process has died; an
\* acceptance nobody hears of leaves the call "unheard".
VenueAccepts(c) ==
  /\ call[c] = "wire"
  /\ \/ pc[c] = "sent" /\ call' = [call EXCEPT ![c] = "accepted"]
     \/ call' = [call EXCEPT ![c] = "unheard"]
  /\ UNCHANGED <<minted, trail, keys, running, pc, target, manual, postureVars>>

VenueRefuses(c) ==
  /\ call[c] = "wire"
  /\ call' = [call EXCEPT ![c] = "refused"]
  /\ UNCHANGED <<minted, trail, keys, running, pc, target, manual, postureVars>>

\* Carrier B: the human places the proposal's order by hand, and it may fill.
HumanPlaces(o) ==
  /\ Has("proposal:created", o) /\ manual[o] = "none"
  /\ manual' = [manual EXCEPT ![o] = "resting"]
  /\ UNCHANGED <<minted, trail, keys, running, pc, target, call, postureVars>>

ManualFills(o) ==
  /\ manual[o] = "resting"
  /\ manual' = [manual EXCEPT ![o] = "filled"]
  /\ UNCHANGED <<minted, trail, keys, running, pc, target, call, postureVars>>

\* POST /orders/verify with the id of any order the venue knows: which order it
\* is, is not compared with the proposal, and any order object counts as filled.
VerifyFilled(o) ==
  /\ Has("proposal:created", o)
  /\ TRUE \in AuditOutcomes
  /\ trail' = trail \cup {Entry("ccxt-verify:filled", o, "proposal")}
  /\ UNCHANGED <<minted, keys, running, pc, target, call, manual, postureVars>>

VerifyUnobserved(o) ==
  /\ Has("proposal:created", o)
  /\ TRUE \in AuditOutcomes
  /\ trail' = trail \cup {Entry("ccxt-verify:unobserved", o, "proposal")}
  /\ UNCHANGED <<minted, keys, running, pc, target, call, manual, postureVars>>

-----------------------------------------------------------------------------
\* The switches move beside the rail.
PostureStep ==
  /\ SwitchesMove
  /\ KillMutation \/ HaltMutation \/ NextDay
  /\ UNCHANGED railVars

\* The process dies and restarts: memory is gone, the trail is reread.
Crash ==
  /\ Restart
  /\ keys' = {}
  /\ running' = 0
  /\ pc' = [c \in Clicks |-> IF pc[c] \in Live THEN "lost" ELSE pc[c]]
  /\ UNCHANGED <<minted, trail, target, call, manual>>

Click(c) ==
  \/ \E o \in Orders : Begin(c, o)
  \/ Refuse(c) \/ RefuseAndTrip(c) \/ Admit(c) \/ AdmitUnrecorded(c)
  \/ Place(c) \/ PlaceRefused(c) \/ Settle(c)

Venue(c) == VenueAccepts(c) \/ VenueRefuses(c)

CarrierB(o) ==
  HumanPlaces(o) \/ ManualFills(o) \/ VerifyFilled(o) \/ VerifyUnobserved(o)

Next ==
  \/ \E o \in Orders : Propose(o) \/ CarrierB(o)
  \/ \E c \in Clicks : Click(c) \/ Venue(c)
  \/ PostureStep
  \/ Crash

Spec == Init /\ [][Next]_vars

\* A started click runs on: every wait in it ends, the lock because its holder
\* releases in `finally`, the network because every call has a time limit.
Fairness ==
  \A c \in Clicks :
    /\ WF_vars(Refuse(c) \/ RefuseAndTrip(c) \/ Admit(c) \/ AdmitUnrecorded(c))
    /\ WF_vars(Place(c) \/ PlaceRefused(c))
    /\ WF_vars(Settle(c))

FairSpec == Spec /\ Fairness

-----------------------------------------------------------------------------
TypeOK ==
  /\ PostureTypeOK
  /\ minted \in SUBSET Orders
  /\ trail \in SUBSET Entries
  /\ keys \in SUBSET (Orders \X KeyKinds)
  /\ running \in Int
  /\ pc \in [Clicks -> PcStates]
  /\ target \in [Clicks -> Orders \cup {NoOrder}]
  /\ call \in [Clicks -> CallStates]
  /\ manual \in [Orders -> {"none", "resting", "filled"}]

\* "The venue is only ever reached once per proposal": no two clicks, however
\* they interleave, fail, or fall on both sides of a restart, issue createOrder
\* for the same proposal (ccxtExecution.mjs two keys per order; gate 10).
AtMostOnce ==
  \A c, d \in Clicks :
    call[c] # "none" /\ call[d] # "none" /\ target[c] = target[d] => c = d

\* Whatever reached the venue is explained by the trail that survives: the
\* proposal, the human's reconfirmation and the gate's allow were all durable
\* before the call (handlers.mjs execute route, executeProposal).
ProvenanceDurable ==
  \A c \in Clicks : call[c] # "none" =>
    /\ Has("proposal:created", target[c])
    /\ Has("consent:reconfirmed", target[c])
    /\ Allowed(target[c], "exec") \in trail

\* An order shown executed is on the venue's book, and so is one whose click was
\* answered executed: never a partial success claim (executeProposal).
ExecutedIsReal ==
  /\ \A o \in Orders : Status(o) = "executed" =>
       \E c \in Clicks : target[c] = o /\ call[c] \in OnBook
  /\ \A c \in Clicks : pc[c] = "executed" => Status(target[c]) = "executed"

\* The counter behind the envelope is exactly the number of executors running,
\* on every path out of executeProposal, and never passes the ceiling.
EnvelopeHeld ==
  /\ running = Cardinality(InFlight)
  /\ running <= MaxConcurrent

\* Open exposure overshoots the heat cap by the one order being created and by
\* the executors that were let in below it, never by more (gate 19).
HeatOvershoot == Heat <= HeatCap + 1 + MaxConcurrent

\* No click is let through to the venue while a kill or a takeover somebody was
\* told of is in force or a breaker tripped today, restarts included.
AdmissionRespectsSwitches ==
  [][\A c \in Clicks : pc[c] # "placing" /\ pc'[c] = "placing" =>
        killWanted = {} /\ ~takeoverWanted /\ trippedOn # day]_vars

\* What the list says of a finished order is final: a later click, restart,
\* late answer or verification never changes executed or failed.
OutcomeFinal ==
  [][\A o \in Orders :
       Status(o) \in {"executed", "failed"} => Status(o)' = Status(o)]_vars

\* Every click that passed the consent check is answered, unless the process
\* dies under it.
ClickAnswered ==
  \A c \in Clicks : pc[c] = "observing" ~> pc[c] \in Answered \cup {"lost"}

\* The rail implements OrderPromise: the phase of a proposal is read off the
\* trail, and its calls are the clicks that issued createOrder for it.
Phase(o) ==
  IF Status(o) \in {"executed", "failed"}     THEN Status(o)
  ELSE IF Allowed(o, "exec") \in trail        THEN "approved"
  ELSE IF Has("proposal:created", o)          THEN "proposed"
  ELSE "none"

Calls(o) == Cardinality({c \in Clicks : target[c] = o /\ call[c] # "none"})

Promise == INSTANCE OrderPromise WITH
  phase <- [o \in Orders |-> Phase(o)],
  calls <- [o \in Orders |-> Calls(o)]

\* Every step of the rail, restarts and failed appends included, is a step of
\* the promise or leaves it alone: recorded, approved, sent and settled at most
\* once each and in this order (propose and execute routes together).
PromiseKept == Promise!Spec

\* What the code promises and does not keep.

\* "An executor throw is caught, audited as execution:failed": a click answered
\* failed had an executor that threw.
FailedMeansExecutorThrew ==
  \A c \in Clicks : pc[c] = "failed" => call[c] # "accepted"
=============================================================================
