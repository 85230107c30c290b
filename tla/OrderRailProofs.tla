-------------------------- MODULE OrderRailProofs --------------------------
(***************************************************************************)
(* The order rail, for every number of orders, clicks, restarts and days:  *)
(* the venue is reached at most once per proposal, whatever reached it is  *)
(* explained by the trail, and no click is admitted under a switch that is *)
(* in force; it implements what OrderPromise says of one proposal, and it  *)
(* stays within its two ceilings, the executors of the envelope and the    *)
(* heat.                                                                   *)
(***************************************************************************)
EXTENDS OrderRail, SafetyPostureProofs, FiniteSetTheorems

\* Every step of the rail is a step of the switches or leaves them alone, so
\* what is proved of the switches alone holds in the composition.
LEMMA RailStepsPosture == [Next]_vars => [PostureNext]_postureVars
<1> SUFFICES ASSUME [Next]_vars PROVE [PostureNext]_postureVars
  OBVIOUS
<1>1. ASSUME NEW o \in Orders, Propose(o)
      PROVE  [PostureNext]_postureVars
  <2>1. CASE ProposeTrips(o)
    BY <2>1 DEF ProposeTrips, PostureNext, HaltMutation
  <2>2. CASE ProposeUnrecorded(o) \/ ProposeDropped(o) \/ ProposeCreated(o)
    BY <2>2 DEF ProposeUnrecorded, ProposeDropped, ProposeCreated
  <2> QED
    BY <1>1, <2>1, <2>2 DEF Propose
<1>2. ASSUME NEW o \in Orders, CarrierB(o)
      PROVE  UNCHANGED postureVars
  BY <1>2 DEF CarrierB, HumanPlaces, ManualFills, VerifyFilled, VerifyUnobserved
<1>3. ASSUME NEW c \in Clicks, Click(c)
      PROVE  [PostureNext]_postureVars
  <2>1. CASE RefuseAndTrip(c)
    BY <2>1 DEF RefuseAndTrip, PostureNext, HaltMutation
  <2>2. CASE ~RefuseAndTrip(c)
    BY <1>3, <2>2
       DEF Click, Begin, Refuse, Admit, AdmitUnrecorded, Place, PlaceRefused,
           Settle, SettleExecuted, SettleUnrecorded, SettleFailed, ExecutionFailed
  <2> QED
    BY <2>1, <2>2
<1>4. ASSUME NEW c \in Clicks, Venue(c)
      PROVE  UNCHANGED postureVars
  BY <1>4 DEF Venue, VenueAccepts, VenueRefuses
<1>5. PostureStep \/ Crash => PostureNext
  BY DEF PostureStep, Crash, PostureNext
<1>6. UNCHANGED vars => UNCHANGED postureVars
  BY DEF vars
<1> QED
  BY <1>1, <1>2, <1>3, <1>4, <1>5, <1>6 DEF Next

\* The rail keeps every promise of the switches it is built on: with it what is
\* proved of the switches alone, crashes and failed files included, holds of them
\* inside the rail (evaluateGate reads them, gate 16 trips the breaker).
THEOREM RailKeepsPosture == Spec => PostureSpec
<1>1. Init => PostureInit
  BY DEF Init
<1> QED
  BY <1>1, RailStepsPosture, PTL DEF Spec, PostureSpec

-----------------------------------------------------------------------------
(* The type invariant is not inductive alone: a click writes trail entries    *)
(* about its target, so a live click must have one.                           *)
Targeted == \A c \in Clicks : pc[c] \in Live => target[c] \in Orders

\* Every kind of entry the rail appends is an entry of the trail.
LEMMA EntryType ==
  ASSUME NEW kind \in Kinds, NEW o \in Orders, NEW key \in KeyKinds
  PROVE  Entry(kind, o, key) \in Entries
  BY DEF Entry, Entries

LEMMA TypeInit == Init => TypeOK /\ Targeted
<1> SUFFICES ASSUME Init PROVE TypeOK /\ Targeted
  OBVIOUS
<1>1. PostureTypeOK
  BY PostureTypeInit DEF Init
<1>2. /\ minted = {} /\ trail = {} /\ keys = {} /\ running = 0
      /\ pc \in [Clicks -> PcStates]
      /\ target \in [Clicks -> Orders \cup {NoOrder}]
      /\ call \in [Clicks -> CallStates]
      /\ manual \in [Orders -> {"none", "resting", "filled"}]
      /\ \A c \in Clicks : pc[c] \notin Live
  BY DEF Init, RailInit, PcStates, CallStates, Idle, Live
<1> QED
  BY <1>1, <1>2 DEF TypeOK, Targeted

LEMMA TypeStep == TypeOK /\ Targeted /\ [Next]_vars => TypeOK' /\ Targeted'
<1> SUFFICES ASSUME TypeOK, Targeted, [Next]_vars PROVE TypeOK' /\ Targeted'
  OBVIOUS
<1> USE DEF TypeOK, Targeted
<1>0. PostureTypeOK'
  BY RailStepsPosture, PostureTypeStep
<1>k. /\ {"safety-gate:allow", "proposal:created", "consent:reconfirmed",
          "execution:executed", "execution:failed",
          "ccxt-verify:filled", "ccxt-verify:unobserved"} \subseteq Kinds
      /\ {"proposal", "exec", "none"} \subseteq KeyKinds
      /\ {"observing", "placing", "sent", "executed", "failed", "denied", "error",
          "lost"} \subseteq PcStates
      /\ {"wire", "refused", "accepted", "unheard"} \subseteq CallStates
      /\ {"executed", "failed", "denied", "error", "lost"} \cap Live = {}
      /\ {"observing", "placing", "sent"} = Live
  BY DEF Kinds, KeyKinds, PcStates, Live, Answered, CallStates, OnBook
<1>1. ASSUME NEW o \in Orders, Propose(o)
      PROVE  TypeOK' /\ Targeted'
  <2>1. /\ ProposeAllowed(o)
        /\ trail' \subseteq trail \cup {Allowed(o, "proposal"),
                                        Entry("proposal:created", o, "proposal")}
    BY <1>1
       DEF Propose, ProposeUnrecorded, ProposeDropped, ProposeTrips, ProposeCreated
  <2>2. trail' \in SUBSET Entries
    BY <1>k, <2>1, EntryType DEF Allowed
  <2> QED
    BY <1>0, <1>k, <2>1, <2>2 DEF ProposeAllowed
<1>2. ASSUME NEW o \in Orders, CarrierB(o)
      PROVE  TypeOK' /\ Targeted'
  <2>1. trail' \subseteq trail \cup {Entry("ccxt-verify:filled", o, "proposal"),
                                     Entry("ccxt-verify:unobserved", o, "proposal")}
    BY <1>2 DEF CarrierB, HumanPlaces, ManualFills, VerifyFilled, VerifyUnobserved
  <2>2. trail' \in SUBSET Entries
    BY <1>k, <2>1, EntryType
  <2>3. manual' \in [Orders -> {"none", "resting", "filled"}]
    BY <1>2 DEF CarrierB, HumanPlaces, ManualFills, VerifyFilled, VerifyUnobserved
  <2> QED
    BY <1>0, <1>2, <2>2, <2>3
       DEF CarrierB, HumanPlaces, ManualFills, VerifyFilled, VerifyUnobserved
<1>3. ASSUME NEW c \in Clicks, NEW o \in Orders, Begin(c, o)
      PROVE  TypeOK' /\ Targeted'
  <2>1. trail' \subseteq trail \cup {Entry("consent:reconfirmed", o, "none")}
    BY <1>3 DEF Begin
  <2>2. trail' \in SUBSET Entries
    BY <1>k, <2>1, EntryType
  <2>3. /\ target' = [target EXCEPT ![c] = o]
        /\ \E s \in {"observing", "denied", "error"} : pc' = [pc EXCEPT ![c] = s]
    BY <1>3 DEF Begin
  <2> QED
    BY <1>0, <1>3, <1>k, <2>2, <2>3 DEF Begin
<1>4. ASSUME NEW c \in Clicks,
             \/ Refuse(c) \/ RefuseAndTrip(c) \/ Admit(c) \/ AdmitUnrecorded(c)
             \/ Place(c) \/ PlaceRefused(c) \/ Settle(c)
      PROVE  TypeOK' /\ Targeted'
  <2> USE <1>4
      DEF Refuse, RefuseAndTrip, Admit, AdmitUnrecorded, GatesPass, Place, PlaceRefused,
          Settle, SettleExecuted, SettleUnrecorded, SettleFailed, ExecutionFailed
  <2>1. pc[c] \in Live /\ target[c] \in Orders
    BY <1>k
  <2>2. trail' \subseteq trail \cup {Allowed(target[c], "exec"),
                                     Entry("execution:failed", target[c], "exec"),
                                     Entry("execution:executed", target[c], "exec")}
    OBVIOUS
  <2>3. trail' \in SUBSET Entries
    BY <1>k, <2>1, <2>2, EntryType DEF Allowed
  <2>a. keys' \in {keys, keys \cup {<<target[c], "exec">>}}
    OBVIOUS
  <2>b. <<target[c], "exec">> \in Orders \X KeyKinds
    BY <1>k, <2>1
  <2>4. keys' \in SUBSET (Orders \X KeyKinds)
    BY <2>a, <2>b
  <2>5. \E s \in {"denied", "error", "placing", "sent", "failed", "executed"} :
          pc' = [pc EXCEPT ![c] = s]
    <3>1. CASE Refuse(c)
      BY <3>1
    <3>2. CASE ~Refuse(c)
      BY <3>2
    <3> QED
      BY <3>1, <3>2
  <2>c. /\ call' \in {call, [call EXCEPT ![c] = "wire"]}
        /\ running' \in {running, running + 1, running - 1}
        /\ UNCHANGED <<minted, target, manual>>
    OBVIOUS
  <2> HIDE <1>4
      DEF Refuse, RefuseAndTrip, Admit, AdmitUnrecorded, GatesPass, Place, PlaceRefused,
          Settle, SettleExecuted, SettleUnrecorded, SettleFailed, ExecutionFailed
  <2>6. pc' \in [Clicks -> PcStates] /\ Targeted'
    BY <1>k, <2>1, <2>5, <2>c
  <2>7. call' \in [Clicks -> CallStates] /\ running' \in Int
    BY <1>k, <2>c
  <2> QED
    BY <1>0, <2>3, <2>4, <2>6, <2>7, <2>c
<1>5. ASSUME NEW c \in Clicks, Venue(c)
      PROVE  TypeOK' /\ Targeted'
  BY <1>0, <1>5, <1>k DEF Venue, VenueAccepts, VenueRefuses
<1>6. CASE PostureStep
  BY <1>0, <1>6 DEF PostureStep, railVars
<1>7. CASE Crash
  BY <1>0, <1>7, <1>k DEF Crash
<1>8. CASE UNCHANGED vars
  BY <1>0, <1>8 DEF vars, railVars
<1> QED
  BY <1>1, <1>2, <1>3, <1>4, <1>5, <1>6, <1>7, <1>8 DEF Next, Click

\* The rail's state always has the shape the code gives it.
THEOREM TypeCorrect == Spec => []TypeOK
<1>1. Spec => [](TypeOK /\ Targeted)
  BY TypeInit, TypeStep, PTL DEF Spec
<1> QED
  BY <1>1, PTL

-----------------------------------------------------------------------------
(* Why the venue is reached once.  The durable allow is the lock of a          *)
(* proposal: it is written in the turn that lets the click through, and gate   *)
(* 10 reads it back from the trail, so it outlives the process.  A click holds *)
(* the lock from then on, and for ever once its call has left.                 *)
Holds(c) == pc[c] \in {"placing", "sent"} \/ call[c] # "none"

Outcomes == {"execution:executed", "execution:failed"}

\* A click has sent nothing before it was admitted.
Unsent == \A c \in Clicks : pc[c] \in {Idle, "observing"} => call[c] = "none"

\* A click past the consent check has its proposal and its consent in the trail.
Consented == \A c \in Clicks : pc[c] \in Live \/ Holds(c) =>
  Has("proposal:created", target[c]) /\ Has("consent:reconfirmed", target[c])

\* Whoever holds a proposal has its allow in the trail, and holds it alone.
Locked == \A c \in Clicks : Holds(c) => Allowed(target[c], "exec") \in trail
Alone == \A c, d \in Clicks : Holds(c) /\ Holds(d) /\ target[c] = target[d] => c = d

\* An outcome is recorded by the holder, on its way out.
Closed == \A e \in trail : e.kind \in Outcomes =>
  /\ Allowed(e.order, "exec") \in trail
  /\ \A c \in Clicks : pc[c] \in {"placing", "sent"} => target[c] # e.order

RailInv == Unsent /\ Consented /\ Locked /\ Alone /\ Closed

\* A step that begins and admits no click: the trail grows, and no click gets
\* further than it was, except out of the executor with the outcome it records.
Quiet ==
  /\ trail \subseteq trail'
  /\ target' = target
  /\ \A c \in Clicks :
       /\ Holds(c)' => Holds(c)
       /\ pc'[c] \in Live => pc[c] \in Live
       /\ pc'[c] \in {"placing", "sent"} => pc[c] \in {"placing", "sent"}
       /\ pc'[c] \in {Idle, "observing"} => pc'[c] = pc[c] /\ call'[c] = call[c]
  /\ \A e \in trail' \ trail : e.kind \in Outcomes =>
       \E c \in Clicks : /\ target[c] = e.order
                         /\ pc[c] \in {"placing", "sent"}
                         /\ pc'[c] \notin {"placing", "sent"}

LEMMA QuietStep ==
  ASSUME RailInv, Quiet
  PROVE  RailInv'
<1> USE DEF RailInv
<1>1. \A kind, o : Has(kind, o) => Has(kind, o)'
  BY DEF Has, Quiet
<1>2. Unsent'
  BY DEF Unsent, Quiet
<1>3. Consented'
  BY <1>1 DEF Consented, Quiet
<1>4. Locked'
  BY DEF Locked, Quiet, Allowed, Entry
<1>5. Alone'
  BY DEF Alone, Quiet
<1>6. Closed'
  <2> SUFFICES ASSUME NEW e \in trail', e.kind \in Outcomes
               PROVE  /\ Allowed(e.order, "exec") \in trail'
                      /\ \A c \in Clicks :
                           pc'[c] \in {"placing", "sent"} => target'[c] # e.order
    BY DEF Closed, Allowed, Entry
  <2>1. CASE e \in trail
    BY <2>1 DEF Closed, Quiet
  <2>2. CASE e \notin trail
    <3>1. PICK c \in Clicks : /\ target[c] = e.order
                              /\ pc[c] \in {"placing", "sent"}
                              /\ pc'[c] \notin {"placing", "sent"}
      BY <2>2 DEF Quiet
    <3>2. Allowed(e.order, "exec") \in trail'
      BY <3>1 DEF Locked, Holds, Quiet
    <3>3. ASSUME NEW d \in Clicks, pc'[d] \in {"placing", "sent"}, target'[d] = e.order
          PROVE  FALSE
      <4>1. pc[d] \in {"placing", "sent"} /\ target[d] = e.order
        BY <3>3 DEF Quiet
      <4>2. c = d
        BY <3>1, <4>1 DEF Alone, Holds
      <4> QED
        BY <3>1, <3>3, <4>2
    <3> QED
      BY <3>2, <3>3
  <2> QED
    BY <2>1, <2>2
<1> QED
  BY <1>2, <1>3, <1>4, <1>5, <1>6

\* Every step but Begin and Admit is quiet.
LEMMA QuietCases ==
  ASSUME TypeOK, Unsent, [Next]_vars,
         \A c \in Clicks : ~Admit(c) /\ \A o \in Orders : ~Begin(c, o)
  PROVE  Quiet
<1> USE DEF TypeOK
<1>0. ASSUME UNCHANGED <<pc, target, call>>, trail \subseteq trail',
             \A e \in trail' \ trail : e.kind \notin Outcomes
      PROVE  Quiet
  BY <1>0 DEF Quiet, Holds
<1>1. ASSUME NEW o \in Orders, Propose(o)
      PROVE  Quiet
  <2>1. UNCHANGED <<pc, target, call>>
    BY <1>1
       DEF Propose, ProposeUnrecorded, ProposeDropped, ProposeTrips, ProposeCreated,
           ProposeAllowed
  <2>2. \/ trail' = trail
        \/ trail' = trail \cup {Allowed(o, "proposal")}
        \/ trail' = trail \cup {Allowed(o, "proposal"),
                                Entry("proposal:created", o, "proposal")}
    BY <1>1
       DEF Propose, ProposeUnrecorded, ProposeDropped, ProposeTrips, ProposeCreated
  <2> QED
    BY <1>0, <2>1, <2>2 DEF Outcomes, Allowed, Entry
<1>2. ASSUME NEW o \in Orders, CarrierB(o)
      PROVE  Quiet
  <2>1. /\ UNCHANGED <<pc, target, call>>
        /\ \/ trail' = trail
           \/ trail' = trail \cup {Entry("ccxt-verify:filled", o, "proposal")}
           \/ trail' = trail \cup {Entry("ccxt-verify:unobserved", o, "proposal")}
    BY <1>2 DEF CarrierB, HumanPlaces, ManualFills, VerifyFilled, VerifyUnobserved
  <2> QED
    BY <1>0, <2>1 DEF Outcomes, Entry
<1>3. ASSUME NEW c \in Clicks, Refuse(c) \/ RefuseAndTrip(c) \/ AdmitUnrecorded(c)
      PROVE  Quiet
  <2>1. /\ pc[c] = "observing"
        /\ \E s \in {"denied", "error"} : pc' = [pc EXCEPT ![c] = s]
        /\ UNCHANGED <<trail, target, call>>
    BY <1>3 DEF Refuse, RefuseAndTrip, AdmitUnrecorded, GatesPass
  <2> QED
    BY <2>1 DEF Quiet, Holds, Live, Idle
<1>4. ASSUME NEW c \in Clicks, Place(c)
      PROVE  Quiet
  <2>1. /\ pc[c] = "placing"
        /\ pc' = [pc EXCEPT ![c] = "sent"] /\ call' = [call EXCEPT ![c] = "wire"]
        /\ UNCHANGED <<trail, target>>
    BY <1>4 DEF Place
  <2> QED
    BY <2>1 DEF Quiet, Holds, Live, Idle
<1>5. ASSUME NEW c \in Clicks, PlaceRefused(c) \/ Settle(c)
      PROVE  Quiet
  <2>a. /\ pc[c] \in {"placing", "sent"}
        /\ ExecutionFailed(c) \/ SettleExecuted(c)
    BY <1>5 DEF PlaceRefused, Settle, SettleExecuted, SettleUnrecorded, SettleFailed
  <2>b. /\ \E s \in {"failed", "error", "executed"} : pc' = [pc EXCEPT ![c] = s]
        /\ UNCHANGED <<target, call>>
        /\ \/ trail' = trail
           \/ trail' = trail \cup {Entry("execution:failed", target[c], "exec")}
           \/ trail' = trail \cup {Entry("execution:executed", target[c], "exec")}
    BY <2>a DEF ExecutionFailed, SettleExecuted
  <2>1. /\ pc[c] \in {"placing", "sent"}
        /\ \E s \in {"failed", "error", "executed"} : pc' = [pc EXCEPT ![c] = s]
        /\ UNCHANGED <<target, call>>
        /\ trail \subseteq trail'
        /\ \A e \in trail' \ trail : e.order = target[c]
    <3>1. \A kind : Entry(kind, target[c], "exec").order = target[c]
      BY DEF Entry
    <3> QED
      BY <2>a, <2>b, <3>1
  <2>2. /\ pc'[c] \notin {"placing", "sent", "observing", Idle}
        /\ \A d \in Clicks : d # c => pc'[d] = pc[d]
    BY <2>1 DEF Idle
  <2>3. \A e \in trail' \ trail :
          \E d \in Clicks : /\ target[d] = e.order
                            /\ pc[d] \in {"placing", "sent"}
                            /\ pc'[d] \notin {"placing", "sent"}
    BY <2>1, <2>2
  <2> QED
    BY <2>1, <2>2, <2>3 DEF Quiet, Holds, Live
<1>6. ASSUME NEW c \in Clicks, Venue(c)
      PROVE  Quiet
  <2>1. /\ call[c] = "wire"
        /\ \E s \in CallStates : call' = [call EXCEPT ![c] = s]
        /\ UNCHANGED <<trail, target, pc>>
    BY <1>6 DEF Venue, VenueAccepts, VenueRefuses, CallStates, OnBook
  <2>2. pc[c] \notin {Idle, "observing"}
    BY <2>1 DEF Unsent
  <2> QED
    BY <2>1, <2>2 DEF Quiet, Holds, Live, Idle
<1>7. CASE PostureStep \/ UNCHANGED vars
  BY <1>7 DEF PostureStep, vars, railVars, Quiet, Holds
<1>8. CASE Crash
  BY <1>8 DEF Crash, Quiet, Holds, Live, Idle
<1> QED
  BY <1>1, <1>2, <1>3, <1>4, <1>5, <1>6, <1>7, <1>8 DEF Next, Click

LEMMA BeginStep ==
  ASSUME TypeOK, RailInv, NEW c \in Clicks, NEW o \in Orders, Begin(c, o)
  PROVE  RailInv'
<1> USE DEF RailInv
<1>1. /\ pc[c] = Idle /\ call[c] = "none" /\ ~Holds(c)
      /\ UNCHANGED call
  BY DEF Begin, Unsent, Holds, Idle
<1>2. /\ target' = [target EXCEPT ![c] = o]
      /\ \/ trail' = trail \cup {Entry("consent:reconfirmed", o, "none")}
         \/ trail' = trail /\ pc'[c] # "observing"
      /\ \E s \in {"observing", "denied", "error"} : pc' = [pc EXCEPT ![c] = s]
  BY DEF Begin, TypeOK
<1>3. /\ ~Holds(c)' /\ target'[c] = o
      /\ pc'[c] \in {"observing", "denied", "error"}
      /\ \A d \in Clicks : d # c =>
           pc'[d] = pc[d] /\ target'[d] = target[d] /\ Holds(d)' = Holds(d)
  BY <1>1, <1>2 DEF TypeOK, Holds
<1>4. trail \subseteq trail' /\ \A kind, p : Has(kind, p) => Has(kind, p)'
  BY <1>2 DEF Has
<1>5. Unsent'
  BY <1>1, <1>3 DEF Unsent
<1>6. Consented'
  <2>1. pc'[c] = "observing" =>
          Has("proposal:created", o)' /\ Has("consent:reconfirmed", o)'
    <3>1. Has("proposal:created", o)'
      BY <1>4 DEF Begin
    <3>2. pc'[c] = "observing" => Entry("consent:reconfirmed", o, "none") \in trail'
      BY <1>2
    <3>3. /\ Entry("consent:reconfirmed", o, "none").kind = "consent:reconfirmed"
          /\ Entry("consent:reconfirmed", o, "none").order = o
      BY DEF Entry
    <3> QED
      BY <3>1, <3>2, <3>3 DEF Has
  <2> QED
    BY <1>3, <1>4, <2>1 DEF Consented, Live
<1>7. Locked' /\ Alone'
  BY <1>3, <1>4 DEF Locked, Alone, Allowed, Entry
<1>8. Closed'
  <2>1. \A e \in trail' : e.kind \in Outcomes => e \in trail
    BY <1>2 DEF Outcomes, Entry
  <2> QED
    BY <1>3, <1>4, <2>1 DEF Closed, Allowed, Entry
<1> QED
  BY <1>5, <1>6, <1>7, <1>8

LEMMA AdmitStep ==
  ASSUME TypeOK, RailInv, NEW c \in Clicks, Admit(c)
  PROVE  RailInv'
<1> USE DEF RailInv
<1> DEFINE allow == Allowed(target[c], "exec")
<1>1. /\ pc[c] = "observing" /\ pc' = [pc EXCEPT ![c] = "placing"]
      /\ trail' = trail \cup {allow}
      /\ UNCHANGED <<target, call>>
  BY DEF Admit, GatesPass
<1>2. allow \notin trail
  BY DEF Admit, GatesPass, Seen, Allowed, Entry
<1>3. /\ pc'[c] = "placing" /\ Holds(c)'
      /\ \A d \in Clicks : d # c => pc'[d] = pc[d] /\ Holds(d)' = Holds(d)
  BY <1>1 DEF TypeOK, Holds
<1>4. trail \subseteq trail' /\ \A kind, o : Has(kind, o) => Has(kind, o)'
  BY <1>1 DEF Has
<1>5. Unsent'
  BY <1>1, <1>3 DEF Unsent, Idle
<1>6. Consented'
  BY <1>1, <1>3, <1>4 DEF Consented, Live
<1>7. Locked'
  BY <1>1, <1>3 DEF Locked, Allowed, Entry
<1>8. Alone'
  <2>1. \A d \in Clicks : Holds(d) => target[d] # target[c]
    BY <1>2 DEF Locked
  <2> QED
    BY <1>1, <1>3, <2>1 DEF Alone
<1>9. Closed'
  <2>1. \A e \in trail' : e.kind \in Outcomes => e \in trail
    BY <1>1 DEF Outcomes, Allowed, Entry
  <2>2. \A e \in trail : e.kind \in Outcomes => target[c] # e.order
    BY <1>2 DEF Closed
  <2> QED
    BY <1>1, <1>3, <2>1, <2>2 DEF Closed, Allowed, Entry
<1> QED
  BY <1>5, <1>6, <1>7, <1>8, <1>9

LEMMA RailInvariant == Spec => [](TypeOK /\ RailInv)
<1>1. Init => RailInv
  BY DEF Init, RailInit, RailInv, Unsent, Consented, Locked, Alone, Closed, Holds,
         Live, Idle
<1>2. TypeOK /\ RailInv /\ [Next]_vars => RailInv'
  <2> SUFFICES ASSUME TypeOK, RailInv, [Next]_vars PROVE RailInv'
    OBVIOUS
  <2>1. CASE \E c \in Clicks, o \in Orders : Begin(c, o)
    BY <2>1, BeginStep
  <2>2. CASE \E c \in Clicks : Admit(c)
    BY <2>2, AdmitStep
  <2>3. CASE \A c \in Clicks : ~Admit(c) /\ \A o \in Orders : ~Begin(c, o)
    <3>1. Quiet
      BY <2>3, QuietCases DEF RailInv
    <3> QED
      BY <3>1, QuietStep
  <2> QED
    BY <2>1, <2>2, <2>3
<1> QED
  BY <1>1, <1>2, TypeCorrect, PTL DEF Spec

\* However clicks interleave, fail, time out or fall on both sides of a restart,
\* createOrder is issued at most once per proposal (ccxtExecution.mjs, gate 10).
THEOREM VenueReachedOnce == Spec => []AtMostOnce
<1>1. RailInv => AtMostOnce
  BY DEF RailInv, Alone, Holds, AtMostOnce
<1> QED
  BY <1>1, RailInvariant, PTL

\* Proposal, reconfirmation and allow are durable before the venue is reached
\* (the execute route, evaluateGate, executeProposal).
THEOREM ProvenanceAlwaysDurable == Spec => []ProvenanceDurable
<1>1. RailInv => ProvenanceDurable
  BY DEF RailInv, Consented, Locked, Holds, ProvenanceDurable
<1> QED
  BY <1>1, RailInvariant, PTL

-----------------------------------------------------------------------------
\* The turn that lets a click through is the one that reads the switches.
LEMMA OnlyAdmitPlaces ==
  ASSUME TypeOK, [Next]_vars, NEW c \in Clicks,
         pc[c] # "placing", pc'[c] = "placing"
  PROVE  Admit(c)
<1> USE DEF TypeOK
<1>1. pc' # pc
  OBVIOUS
<1>2. PICK d \in Clicks : Click(d)
  <2>1. ~Crash
    BY DEF Crash, Live
  <2>2. \A o \in Orders : ~Propose(o) /\ ~CarrierB(o)
    BY <1>1
       DEF Propose, ProposeUnrecorded, ProposeDropped, ProposeTrips, ProposeCreated,
           ProposeAllowed, CarrierB, HumanPlaces, ManualFills, VerifyFilled,
           VerifyUnobserved
  <2>3. ~PostureStep /\ ~UNCHANGED vars /\ \A e \in Clicks : ~Venue(e)
    BY <1>1 DEF PostureStep, railVars, vars, Venue, VenueAccepts, VenueRefuses
  <2> QED
    BY <2>1, <2>2, <2>3 DEF Next
<1>3. Admit(d) \/ \E s \in PcStates \ {"placing"} : pc' = [pc EXCEPT ![d] = s]
  <2>1. CASE \E o \in Orders : Begin(d, o)
    BY <2>1 DEF Begin, PcStates, Live, Answered
  <2>2. CASE Refuse(d) \/ RefuseAndTrip(d) \/ AdmitUnrecorded(d) \/ Place(d)
    BY <2>2 DEF Refuse, RefuseAndTrip, AdmitUnrecorded, Place, PcStates, Live, Answered
  <2>3. CASE PlaceRefused(d) \/ Settle(d)
    <3>1. ExecutionFailed(d) \/ SettleExecuted(d)
      BY <2>3 DEF PlaceRefused, Settle, SettleUnrecorded, SettleFailed
    <3> QED
      BY <3>1 DEF ExecutionFailed, SettleExecuted, PcStates, Answered
  <2> QED
    BY <1>2, <2>1, <2>2, <2>3 DEF Click
<1>4. Admit(d)
  BY <1>3
<1>5. pc' = [pc EXCEPT ![d] = "placing"]
  BY <1>4 DEF Admit
<1> QED
  BY <1>4, <1>5

\* As long as no switch file is left half written, no click is let through to
\* the venue under a kill or a takeover that was answered, nor on the day of a
\* breaker trip that was answered (evaluateGate gates 1 to 3, setKillSwitch,
\* riskHaltStore), whatever crashes and failed appends lie in between.
THEOREM AdmissionAlwaysRespectsSwitches ==
  ASSUME "torn" \notin WriteOutcomes
  PROVE  Spec => AdmissionRespectsSwitches
<1>1. TypeOK /\ WantedInv /\ TripStands /\ [Next]_vars =>
        [\A c \in Clicks : pc[c] # "placing" /\ pc'[c] = "placing" =>
           killWanted = {} /\ ~takeoverWanted /\ trippedOn # day]_vars
  <2> SUFFICES ASSUME TypeOK, WantedInv, TripStands, [Next]_vars, NEW c \in Clicks,
                      pc[c] # "placing", pc'[c] = "placing"
               PROVE  killWanted = {} /\ ~takeoverWanted /\ trippedOn # day
    OBVIOUS
  <2>1. PostureOpen
    BY OnlyAdmitPlaces DEF Admit, GatesPass
  <2> QED
    BY <2>1
       DEF WantedInv, TripStands, PostureOpen, KillGate, anyKillActive, DayHaltGate,
           TakeoverGate
<1>2. PostureSpec => []WantedInv
  BY WantedInvariant
<1> QED
  BY <1>1, <1>2, TypeCorrect, TripAlwaysStands, RailKeepsPosture, PTL
     DEF Spec, AdmissionRespectsSwitches

-----------------------------------------------------------------------------
\* The trail only grows, and an outcome is only ever appended about the target
\* of a click whose executor is running.
LEMMA OutcomeSource ==
  ASSUME TypeOK, RailInv, [Next]_vars
  PROVE  /\ trail \subseteq trail'
         /\ \A e \in trail' \ trail : e.kind \in Outcomes =>
              \E c \in Clicks : target[c] = e.order /\ pc[c] \in {"placing", "sent"}
<1>1. ASSUME NEW c \in Clicks, NEW o \in Orders, Begin(c, o)
      PROVE  /\ trail \subseteq trail'
             /\ \A e \in trail' \ trail : e.kind \notin Outcomes
  <2>1. trail' \in {trail, trail \cup {Entry("consent:reconfirmed", o, "none")}}
    BY <1>1 DEF Begin
  <2>2. Entry("consent:reconfirmed", o, "none").kind \notin Outcomes
    BY DEF Entry, Outcomes
  <2> QED
    BY <2>1, <2>2
<1>2. ASSUME NEW c \in Clicks, Admit(c)
      PROVE  /\ trail \subseteq trail'
             /\ \A e \in trail' \ trail : e.kind \notin Outcomes
  BY <1>2 DEF Admit, Outcomes, Allowed, Entry
<1>3. ASSUME \A c \in Clicks : ~Admit(c) /\ \A o \in Orders : ~Begin(c, o)
      PROVE  Quiet
  BY <1>3, QuietCases DEF RailInv
<1> QED
  BY <1>1, <1>2, <1>3 DEF Quiet

\* A finished order never changes its status (proposalOrdersFromAudit), because
\* the holder of a proposal records one outcome and nobody holds it afterwards.
THEOREM OutcomeAlwaysFinal == Spec => OutcomeFinal
<1>1. TypeOK /\ RailInv /\ [Next]_vars =>
        [\A o \in Orders :
           Status(o) \in {"executed", "failed"} => Status(o)' = Status(o)]_vars
  <2> SUFFICES ASSUME TypeOK, RailInv, [Next]_vars, NEW o \in Orders,
                      Status(o) \in {"executed", "failed"}
               PROVE  Status(o)' = Status(o)
    OBVIOUS
  <2>1. \A kind : Has(kind, o) => Has(kind, o)'
    BY OutcomeSource DEF Has
  <2>2. CASE Has("execution:executed", o)
    BY <2>1, <2>2 DEF Status
  <2>3. CASE ~Has("execution:executed", o)
    <3>1. PICK f \in trail : f.kind = "execution:failed" /\ f.order = o
      BY <2>3 DEF Status, Has
    <3>2. \A c \in Clicks : pc[c] \in {"placing", "sent"} => target[c] # o
      BY <3>1 DEF RailInv, Closed, Outcomes
    <3>3. ~Has("execution:executed", o)'
      BY <2>3, <3>2, OutcomeSource DEF Has, Outcomes
    <3>4. Has("execution:failed", o)'
      BY <2>1, <3>1 DEF Has
    <3> QED
      BY <2>3, <3>1, <3>3, <3>4 DEF Status, Has
  <2> QED
    BY <2>2, <2>3
<1> QED
  BY <1>1, RailInvariant, PTL DEF Spec, OutcomeFinal

-----------------------------------------------------------------------------
(* Why an order shown executed is on the book.  A call that became an order     *)
(* stays one, and the click that made it never turns to another proposal; the  *)
(* outcome is appended after the venue's answer, never before.                  *)

\* A click has a call only once it has reached Place.
Uncalled == \A c \in Clicks : pc[c] \in {Idle, "observing", "placing"} => call[c] = "none"

\* The order recorded as executed has a click whose call is an order.
Booked == \A e \in trail : e.kind = "execution:executed" =>
  \E c \in Clicks : target[c] = e.order /\ call[c] \in OnBook

\* A click answered executed recorded it.
Recorded == \A c \in Clicks :
  pc[c] = "executed" => Has("execution:executed", target[c])

RealInv == Uncalled /\ Booked /\ Recorded

\* The clicks' own steps, and what each does to a click and to the trail.
LEMMA ClickReal ==
  ASSUME TypeOK, RealInv, NEW c \in Clicks, Click(c)
  PROVE  RealInv'
<1> USE DEF TypeOK, RealInv
<1>0. "none" \notin OnBook /\ "wire" \notin OnBook /\ "accepted" \in OnBook
  BY DEF OnBook
<1>1. ASSUME NEW o \in Orders, Begin(c, o)
      PROVE  RealInv'
  <2>1. /\ target' = [target EXCEPT ![c] = o] /\ call' = call
        /\ trail' \in {trail, trail \cup {Entry("consent:reconfirmed", o, "none")}}
        /\ pc[c] = Idle
        /\ \E s \in {"observing", "denied", "error"} : pc' = [pc EXCEPT ![c] = s]
    BY <1>1 DEF Begin
  <2>2. Uncalled'
    BY <2>1 DEF Uncalled
  <2>3. \A e \in trail' : e.kind = "execution:executed" => e \in trail
    BY <2>1 DEF Entry
  <2>4. Booked'
    BY <1>0, <2>1, <2>3 DEF Booked, Uncalled
  <2>5. Recorded'
    BY <2>1 DEF Recorded, Has, Idle
  <2> QED
    BY <2>2, <2>4, <2>5
<1>2. ASSUME UNCHANGED <<target, call>>,
             trail \subseteq trail',
             \A e \in trail' : e.kind = "execution:executed" => e \in trail,
             \E s \in PcStates \ {Idle, "observing", "executed"} :
               pc' = [pc EXCEPT ![c] = s] /\ (s = "placing" => pc[c] = "observing")
      PROVE  RealInv'
  <2>1. Uncalled'
    BY <1>2 DEF Uncalled
  <2>2. Booked'
    BY <1>2 DEF Booked
  <2>3. Recorded'
    BY <1>2 DEF Recorded, Has
  <2> QED
    BY <2>1, <2>2, <2>3
<1>3. CASE Refuse(c) \/ RefuseAndTrip(c) \/ AdmitUnrecorded(c)
  BY <1>2, <1>3
     DEF Refuse, RefuseAndTrip, AdmitUnrecorded, PcStates, Live, Answered, Idle
<1>4. CASE Admit(c)
  <2>1. \A e \in trail' : e.kind = "execution:executed" => e \in trail
    BY <1>4 DEF Admit, Allowed, Entry
  <2> QED
    BY <1>2, <1>4, <2>1 DEF Admit, GatesPass, PcStates, Live, Idle
<1>5. CASE Place(c)
  <2>1. Uncalled' /\ Recorded'
    BY <1>5 DEF Place, Uncalled, Recorded, Has, Idle
  <2>2. Booked'
    BY <1>0, <1>5 DEF Place, Booked, Uncalled
  <2> QED
    BY <2>1, <2>2
<1>6. CASE ExecutionFailed(c)
  <2>1. \A e \in trail' : e.kind = "execution:executed" => e \in trail
    <3>1. trail' \in {trail, trail \cup {Entry("execution:failed", target[c], "exec")}}
      BY <1>6 DEF ExecutionFailed
    <3>2. Entry("execution:failed", target[c], "exec").kind # "execution:executed"
      BY DEF Entry
    <3> QED
      BY <3>1, <3>2
  <2> QED
    BY <1>2, <1>6, <2>1 DEF ExecutionFailed, PcStates, Answered, Live, Idle
<1>7. CASE SettleExecuted(c)
  <2>1. /\ trail' = trail \cup {Entry("execution:executed", target[c], "exec")}
        /\ UNCHANGED <<target, call>>
        /\ pc' = [pc EXCEPT ![c] = "executed"]
        /\ call[c] = "accepted"
    BY <1>7 DEF SettleExecuted
  <2>2. Uncalled'
    BY <2>1 DEF Uncalled, Idle
  <2>3. Booked'
    BY <1>0, <2>1 DEF Booked, Entry
  <2>4. Recorded'
    <3>1. Has("execution:executed", target[c])'
      <4> DEFINE e == Entry("execution:executed", target[c], "exec")
      <4>1. e \in trail' /\ e.kind = "execution:executed" /\ e.order = target'[c]
        BY <2>1 DEF Entry
      <4> QED
        BY <4>1 DEF Has
    <3>2. \A d \in Clicks : d # c => pc'[d] = pc[d] /\ target'[d] = target[d]
      BY <2>1
    <3>3. \A o : Has("execution:executed", o) => Has("execution:executed", o)'
      BY <2>1 DEF Has
    <3> QED
      BY <3>1, <3>2, <3>3 DEF Recorded
  <2> QED
    BY <2>2, <2>3, <2>4
<1> QED
  BY <1>1, <1>3, <1>4, <1>5, <1>6, <1>7
     DEF Click, PlaceRefused, Settle, SettleUnrecorded, SettleFailed

LEMMA RealStep ==
  ASSUME TypeOK, RealInv, [Next]_vars
  PROVE  RealInv'
<1> USE DEF TypeOK, RealInv
<1>1. ASSUME UNCHANGED <<pc, target, call>>,
             trail \subseteq trail',
             \A e \in trail' : e.kind = "execution:executed" => e \in trail
      PROVE  RealInv'
  BY <1>1 DEF Uncalled, Booked, Recorded, Has
<1>2. ASSUME NEW o \in Orders, Propose(o) \/ CarrierB(o)
      PROVE  RealInv'
  <2>1. UNCHANGED <<pc, target, call>>
    BY <1>2
       DEF Propose, ProposeUnrecorded, ProposeDropped, ProposeTrips, ProposeCreated,
           ProposeAllowed, CarrierB, HumanPlaces, ManualFills, VerifyFilled,
           VerifyUnobserved
  <2>2. \/ trail' = trail
        \/ trail' = trail \cup {Allowed(o, "proposal")}
        \/ trail' = trail \cup {Allowed(o, "proposal"),
                                Entry("proposal:created", o, "proposal")}
        \/ trail' = trail \cup {Entry("ccxt-verify:filled", o, "proposal")}
        \/ trail' = trail \cup {Entry("ccxt-verify:unobserved", o, "proposal")}
    BY <1>2
       DEF Propose, ProposeUnrecorded, ProposeDropped, ProposeTrips, ProposeCreated,
           CarrierB, HumanPlaces, ManualFills, VerifyFilled, VerifyUnobserved
  <2> QED
    BY <1>1, <2>1, <2>2 DEF Allowed, Entry
<1>3. ASSUME NEW c \in Clicks, Venue(c)
      PROVE  RealInv'
  <2>1. /\ UNCHANGED <<pc, target, trail>>
        /\ call[c] = "wire" /\ \E s \in CallStates : call' = [call EXCEPT ![c] = s]
    BY <1>3 DEF Venue, VenueAccepts, VenueRefuses, CallStates, OnBook
  <2>2. Uncalled' /\ Recorded'
    BY <2>1 DEF Uncalled, Recorded, Has
  <2>3. Booked'
    BY <2>1 DEF Booked, OnBook
  <2> QED
    BY <2>2, <2>3
<1>4. CASE Crash
  <2>1. Uncalled' /\ Recorded'
    BY <1>4 DEF Crash, Uncalled, Recorded, Has, Live, Idle
  <2>2. Booked'
    BY <1>4 DEF Crash, Booked
  <2> QED
    BY <2>1, <2>2
<1>5. CASE PostureStep \/ UNCHANGED vars
  BY <1>1, <1>5 DEF PostureStep, vars, railVars
<1> QED
  BY <1>2, <1>3, <1>4, <1>5, ClickReal DEF Next

\* An order shown executed is an order on the venue's book, and a click answered
\* executed has its order shown so, after any restart or lost answer
\* (executeProposal, proposalOrdersFromAudit).
THEOREM ExecutedAlwaysReal == Spec => []ExecutedIsReal
<1>1. Init => RealInv
  BY DEF Init, RailInit, RealInv, Uncalled, Booked, Recorded, Idle
<1>2. RealInv => ExecutedIsReal
  BY DEF RealInv, Booked, Recorded, ExecutedIsReal, Status, Has
<1>3. TypeOK /\ RealInv /\ [Next]_vars => RealInv'
  BY RealStep
<1> QED
  BY <1>1, <1>2, <1>3, TypeCorrect, PTL DEF Spec

-----------------------------------------------------------------------------
(* The rail implements OrderPromise.  What a proposal's phase rests on is        *)
(* written in one order: the proposal before its allow, the allow before its   *)
(* outcome, and each at most once.                                              *)

\* A recorded proposal was minted, and an allowed one was recorded.
Begun ==
  /\ \A o \in Orders : Has("proposal:created", o) => o \in minted
  /\ \A o \in Orders : Allowed(o, "exec") \in trail => Has("proposal:created", o)

\* The phase, with the status spelled out.
LEMMA PhaseIs ==
  ASSUME NEW o
  PROVE  Phase(o) = IF Has("execution:executed", o)     THEN "executed"
                    ELSE IF Has("execution:failed", o)  THEN "failed"
                    ELSE IF Allowed(o, "exec") \in trail THEN "approved"
                    ELSE IF Has("proposal:created", o)  THEN "proposed"
                    ELSE "none"
  BY DEF Phase, Status

\* A step that leaves the trail's facts about an order alone leaves its phase.
LEMMA PhaseKept ==
  ASSUME NEW o, trail \subseteq trail',
         \A e \in trail' \ trail :
           e.order = o => /\ e.kind \notin Outcomes \cup {"proposal:created"}
                          /\ e # Allowed(o, "exec")
  PROVE  Phase(o)' = Phase(o)
<1>1. /\ Has("execution:executed", o)' <=> Has("execution:executed", o)
      /\ Has("execution:failed", o)' <=> Has("execution:failed", o)
      /\ Has("proposal:created", o)' <=> Has("proposal:created", o)
  BY DEF Has, Outcomes
<1>2. Allowed(o, "exec") \in trail' <=> Allowed(o, "exec") \in trail
  BY DEF Allowed, Entry
<1> QED
  BY <1>1, <1>2 DEF Phase, Status

\* A proposal held by a click is approved and has no outcome.
LEMMA HeldIsApproved ==
  ASSUME RailInv, NEW c \in Clicks, pc[c] \in {"placing", "sent"}
  PROVE  Phase(target[c]) = "approved"
<1>1. Allowed(target[c], "exec") \in trail
  BY DEF RailInv, Locked, Holds
<1>2. ~Has("execution:executed", target[c]) /\ ~Has("execution:failed", target[c])
  BY DEF RailInv, Closed, Has, Outcomes
<1> QED
  BY <1>1, <1>2, PhaseIs

\* A step about which the promise has nothing to say: it appends only consents
\* and verifications, no click gets a call or takes one to another proposal, and
\* no executor starts.
Aside ==
  /\ minted' = minted
  /\ trail \subseteq trail'
  /\ \A e \in trail' \ trail :
       e.kind \in {"consent:reconfirmed", "ccxt-verify:filled", "ccxt-verify:unobserved"}
  /\ \A c \in Clicks : /\ call'[c] # "none" <=> call[c] # "none"
                       /\ call[c] # "none" => target'[c] = target[c]
                       /\ pc'[c] \in {"placing", "sent"} =>
                            pc[c] \in {"placing", "sent"} /\ target'[c] = target[c]

LEMMA StepCases ==
  ASSUME TypeOK, RailInv, [Next]_vars
  PROVE  \/ \E o \in Orders : Propose(o)
         \/ \E c \in Clicks : \/ Admit(c) \/ Place(c) \/ SettleExecuted(c)
                              \/ pc[c] \in {"placing", "sent"} /\ ExecutionFailed(c)
         \/ Aside
<1> USE DEF TypeOK
<1>1. ASSUME NEW o \in Orders, CarrierB(o)
      PROVE  Aside
  <2>1. UNCHANGED <<minted, target, call, pc>>
    BY <1>1 DEF CarrierB, HumanPlaces, ManualFills, VerifyFilled, VerifyUnobserved
  <2>2. \/ trail' = trail
        \/ trail' = trail \cup {Entry("ccxt-verify:filled", o, "proposal")}
        \/ trail' = trail \cup {Entry("ccxt-verify:unobserved", o, "proposal")}
    BY <1>1 DEF CarrierB, HumanPlaces, ManualFills, VerifyFilled, VerifyUnobserved
  <2> QED
    BY <2>1, <2>2 DEF Aside, Entry
<1>2. ASSUME NEW c \in Clicks, NEW o \in Orders, Begin(c, o)
      PROVE  Aside
  <2>1. /\ UNCHANGED <<minted, call>>
        /\ target' = [target EXCEPT ![c] = o]
        /\ call[c] = "none"
        /\ \E s \in {"observing", "denied", "error"} : pc' = [pc EXCEPT ![c] = s]
    BY <1>2 DEF Begin, RailInv, Unsent
  <2>2. trail' \in {trail, trail \cup {Entry("consent:reconfirmed", o, "none")}}
    BY <1>2 DEF Begin
  <2>3. Entry("consent:reconfirmed", o, "none").kind = "consent:reconfirmed"
    BY DEF Entry
  <2> QED
    BY <2>1, <2>2, <2>3 DEF Aside
<1>3. ASSUME NEW c \in Clicks, Refuse(c) \/ RefuseAndTrip(c) \/ AdmitUnrecorded(c)
      PROVE  Aside
  BY <1>3 DEF Refuse, RefuseAndTrip, AdmitUnrecorded, Aside
<1>4. ASSUME NEW c \in Clicks, Venue(c)
      PROVE  Aside
  BY <1>4 DEF Venue, VenueAccepts, VenueRefuses, Aside
<1>5. PostureStep \/ Crash \/ UNCHANGED vars => Aside
  BY DEF PostureStep, Crash, vars, railVars, Aside, Live
<1>6. ASSUME NEW c \in Clicks, PlaceRefused(c) \/ Settle(c)
      PROVE  SettleExecuted(c) \/ (pc[c] \in {"placing", "sent"} /\ ExecutionFailed(c))
  BY <1>6 DEF PlaceRefused, Settle, SettleUnrecorded, SettleFailed
<1> QED
  BY <1>1, <1>2, <1>3, <1>4, <1>5, <1>6 DEF Next, Click

LEMMA BegunStep ==
  ASSUME TypeOK, RailInv, Begun, [Next]_vars
  PROVE  Begun'
<1>0. trail \subseteq trail' /\ \A kind, o : Has(kind, o) => Has(kind, o)'
  BY OutcomeSource DEF Has
<1>2. ASSUME NEW o \in Orders, Propose(o)
      PROVE  Begun'
  <2>1. /\ minted' = minted \cup {o}
        /\ \/ trail' = trail
           \/ trail' = trail \cup {Allowed(o, "proposal")}
           \/ trail' = trail \cup {Allowed(o, "proposal"),
                                   Entry("proposal:created", o, "proposal")}
    BY <1>2
       DEF Propose, ProposeUnrecorded, ProposeDropped, ProposeTrips, ProposeCreated,
           ProposeAllowed
  <2>2. \A p \in Orders : Has("proposal:created", p)' => p \in minted'
    BY <2>1 DEF Begun, Has, Allowed, Entry
  <2>3. \A p \in Orders : Allowed(p, "exec") \in trail' => Allowed(p, "exec") \in trail
    BY <2>1 DEF Allowed, Entry
  <2> QED
    BY <1>0, <2>2, <2>3 DEF Begun, Allowed, Entry
<1>3. ASSUME NEW c \in Clicks, Admit(c)
      PROVE  Begun'
  <2>1. /\ minted' = minted
        /\ trail' = trail \cup {Allowed(target[c], "exec")}
    BY <1>3 DEF Admit
  <2>2. Has("proposal:created", target[c])
    BY <1>3 DEF Admit, GatesPass, RailInv, Consented, Live
  <2>3. \A p \in Orders : Has("proposal:created", p)' => Has("proposal:created", p)
    BY <2>1 DEF Has, Allowed, Entry
  <2>4. \A p \in Orders : Allowed(p, "exec") \in trail' =>
          Allowed(p, "exec") \in trail \/ p = target[c]
    BY <2>1 DEF Allowed, Entry
  <2> QED
    BY <1>0, <2>1, <2>2, <2>3, <2>4 DEF Begun, Allowed, Entry
<1>4. ASSUME minted' = minted,
             \A e \in trail' \ trail :
               e.kind \notin {"proposal:created", "safety-gate:allow"}
      PROVE  Begun'
  <2>1. \A p \in Orders : Has("proposal:created", p)' => Has("proposal:created", p)
    BY <1>4 DEF Has
  <2>2. \A p \in Orders : Allowed(p, "exec") \in trail' => Allowed(p, "exec") \in trail
    BY <1>4 DEF Allowed, Entry
  <2> QED
    BY <1>0, <1>4, <2>1, <2>2 DEF Begun, Allowed, Entry
<1>5. ASSUME NEW c \in Clicks, Place(c) \/ SettleExecuted(c) \/ ExecutionFailed(c)
      PROVE  Begun'
  <2>1. /\ minted' = minted
        /\ trail' \in {trail, trail \cup {Entry("execution:executed", target[c], "exec")},
                             trail \cup {Entry("execution:failed", target[c], "exec")}}
    BY <1>5 DEF Place, SettleExecuted, ExecutionFailed
  <2> QED
    BY <1>4, <2>1 DEF Entry
<1>6. CASE Aside
  BY <1>4, <1>6 DEF Aside
<1> QED
  BY <1>2, <1>3, <1>5, <1>6, StepCases

-----------------------------------------------------------------------------
\* The clicks whose createOrder was for this proposal.
Callers(o) == {c \in Clicks : target[c] = o /\ call[c] # "none"}

\* What a step of the rail must do to be a step of the promise.
LEMMA PromiseMove ==
  ASSUME NEW t \in Orders, NEW from, NEW to,
         Phase(t) = from, Phase(t)' = to,
         \A o \in Orders : o # t => Phase(o)' = Phase(o),
         \A o \in Orders : Calls(o)' = Calls(o)
  PROVE  Promise!Moves(t, from, to)
<1>1. [o \in Orders |-> Phase(o)]' = [[o \in Orders |-> Phase(o)] EXCEPT ![t] = to]
  OBVIOUS
<1>2. [o \in Orders |-> Calls(o)]' = [o \in Orders |-> Calls(o)]
  OBVIOUS
<1> QED
  BY <1>1, <1>2 DEF Promise!Moves

LEMMA PromiseStutter ==
  ASSUME \A o \in Orders : Phase(o)' = Phase(o),
         \A o \in Orders : Calls(o)' = Calls(o)
  PROVE  UNCHANGED Promise!promiseVars
<1>1. [o \in Orders |-> Phase(o)]' = [o \in Orders |-> Phase(o)]
  OBVIOUS
<1>2. [o \in Orders |-> Calls(o)]' = [o \in Orders |-> Calls(o)]
  OBVIOUS
<1> QED
  BY <1>1, <1>2 DEF Promise!promiseVars

LEMMA CallsKept ==
  ASSUME NEW o, Callers(o)' = Callers(o)
  PROVE  Calls(o)' = Calls(o)
  BY DEF Calls, Callers

LEMMA PromiseInit == Init => Promise!Init
<1> SUFFICES ASSUME Init PROVE Promise!Init
  OBVIOUS
<1>1. ASSUME NEW o \in Orders
      PROVE  Phase(o) = "none" /\ Calls(o) = 0
  <2>1. Phase(o) = "none"
    BY PhaseIs DEF Init, RailInit, Has
  <2>2. Callers(o) = {}
    BY DEF Init, RailInit, Callers
  <2> QED
    BY <2>1, <2>2, FS_EmptySet DEF Calls, Callers
<1> QED
  BY <1>1 DEF Promise!Init

LEMMA PromiseStep ==
  ASSUME TypeOK, Targeted, RailInv, RealInv, Begun, [Next]_vars
  PROVE  [Promise!Next]_Promise!promiseVars
<1> USE DEF TypeOK
<1>1. CASE Aside
  <2>1. ASSUME NEW o \in Orders
        PROVE  Phase(o)' = Phase(o) /\ Calls(o)' = Calls(o)
    <3>1. Phase(o)' = Phase(o)
      BY <1>1, PhaseKept DEF Aside, Outcomes, Allowed, Entry
    <3>2. Callers(o)' = Callers(o)
      BY <1>1 DEF Aside, Callers
    <3> QED
      BY <3>1, <3>2, CallsKept
  <2> QED
    BY <2>1, PromiseStutter
<1>2. ASSUME NEW t \in Orders, Propose(t)
      PROVE  [Promise!Next]_Promise!promiseVars
  <2>1. /\ UNCHANGED <<target, call>> /\ t \notin minted
        /\ \/ trail' = trail
           \/ trail' = trail \cup {Allowed(t, "proposal")}
           \/ trail' = trail \cup {Allowed(t, "proposal"),
                                   Entry("proposal:created", t, "proposal")}
    BY <1>2
       DEF Propose, ProposeUnrecorded, ProposeDropped, ProposeTrips, ProposeCreated,
           ProposeAllowed
  <2>2. ASSUME NEW o \in Orders
        PROVE  Calls(o)' = Calls(o)
    BY <2>1, CallsKept DEF Callers
  <2>3. ASSUME NEW o \in Orders, o # t
        PROVE  Phase(o)' = Phase(o)
    BY <2>1, <2>3, PhaseKept DEF Allowed, Entry
  <2>4. Phase(t) = "none"
    <3>1. ~Has("proposal:created", t) /\ Allowed(t, "exec") \notin trail
      BY <2>1 DEF Begun
    <3>2. ~Has("execution:executed", t) /\ ~Has("execution:failed", t)
      BY <3>1 DEF RailInv, Closed, Has, Outcomes
    <3> QED
      BY <3>1, <3>2, PhaseIs
  <2>5. CASE trail' = trail
    <3>1. Phase(t)' = Phase(t)
      BY <2>5 DEF Phase, Status, Has
    <3> QED
      BY <2>2, <2>3, <3>1, PromiseStutter
  <2>6. CASE trail' = trail \cup {Allowed(t, "proposal")}
    <3>1. Phase(t)' = Phase(t)
      BY <2>6, PhaseKept DEF Allowed, Entry, Outcomes
    <3> QED
      BY <2>2, <2>3, <3>1, PromiseStutter
  <2>7. CASE trail' = trail \cup {Allowed(t, "proposal"),
                                  Entry("proposal:created", t, "proposal")}
    <3>1. /\ Has("execution:executed", t)' <=> Has("execution:executed", t)
          /\ Has("execution:failed", t)' <=> Has("execution:failed", t)
      BY <2>7 DEF Has, Allowed, Entry
    <3>2. Allowed(t, "exec") \in trail' <=> Allowed(t, "exec") \in trail
      BY <2>7 DEF Allowed, Entry
    <3>3. Has("proposal:created", t)'
      <4> DEFINE e == Entry("proposal:created", t, "proposal")
      <4>1. e \in trail' /\ e.kind = "proposal:created" /\ e.order = t
        BY <2>7 DEF Entry
      <4> QED
        BY <4>1 DEF Has
    <3>4. Phase(t)' = "proposed"
      BY <2>4, <3>1, <3>2, <3>3 DEF Phase, Status
    <3>5. Promise!Moves(t, "none", "proposed")
      BY <2>2, <2>3, <2>4, <3>4, PromiseMove
    <3> QED
      BY <3>5 DEF Promise!Next, Promise!Record
  <2> QED
    BY <2>1, <2>5, <2>6, <2>7
<1>3. ASSUME NEW c \in Clicks, Admit(c)
      PROVE  [Promise!Next]_Promise!promiseVars
  <2> DEFINE t == target[c]
  <2>0. t \in Orders
    BY <1>3 DEF Admit, GatesPass, Targeted, Live
  <2>1. /\ UNCHANGED <<target, call>>
        /\ trail' = trail \cup {Allowed(t, "exec")}
        /\ ~Seen(t, "exec")
    BY <1>3 DEF Admit, GatesPass
  <2>2. ASSUME NEW o \in Orders
        PROVE  Calls(o)' = Calls(o)
    BY <2>1, CallsKept DEF Callers
  <2>3. ASSUME NEW o \in Orders, o # t
        PROVE  Phase(o)' = Phase(o)
    BY <2>1, <2>3, PhaseKept DEF Allowed, Entry
  <2>4. ~Has("execution:executed", t) /\ ~Has("execution:failed", t)
    <3>1. Allowed(t, "exec") \notin trail
      BY <2>1 DEF Seen, Allowed, Entry
    <3> QED
      BY <3>1 DEF RailInv, Closed, Has, Outcomes
  <2>5. Phase(t) = "proposed"
    <3>1. Has("proposal:created", t)
      BY <1>3 DEF Admit, GatesPass, RailInv, Consented, Live
    <3>2. Allowed(t, "exec") \notin trail
      BY <2>1 DEF Seen, Allowed, Entry
    <3> QED
      BY <2>4, <3>1, <3>2, PhaseIs
  <2>6. Phase(t)' = "approved"
    <3>1. ~Has("execution:executed", t)' /\ ~Has("execution:failed", t)'
      BY <2>1, <2>4 DEF Has, Allowed, Entry
    <3>2. (Allowed(t, "exec") \in trail)'
      BY <2>1 DEF Allowed, Entry
    <3> QED
      BY <3>1, <3>2 DEF Phase, Status
  <2>7. Promise!Moves(t, "proposed", "approved")
    BY <2>0, <2>1, <2>2, <2>3, <2>5, <2>6, PromiseMove
  <2> QED
    BY <2>0, <2>7 DEF Promise!Next, Promise!Approve
<1>4. ASSUME NEW c \in Clicks, pc[c] \in {"placing", "sent"}, ExecutionFailed(c)
      PROVE  [Promise!Next]_Promise!promiseVars
  <2> DEFINE t == target[c]
  <2>0. t \in Orders
    BY <1>4 DEF Targeted, Live
  <2>1. /\ UNCHANGED <<target, call>>
        /\ trail' \in {trail, trail \cup {Entry("execution:failed", t, "exec")}}
    BY <1>4 DEF ExecutionFailed
  <2>2. ASSUME NEW o \in Orders
        PROVE  Calls(o)' = Calls(o)
    BY <2>1, CallsKept DEF Callers
  <2>3. ASSUME NEW o \in Orders, o # t
        PROVE  Phase(o)' = Phase(o)
    BY <2>1, <2>3, PhaseKept DEF Entry
  <2>4. Phase(t) = "approved"
    BY <1>4, HeldIsApproved
  <2>5. CASE trail' = trail
    <3>1. ASSUME NEW o \in Orders
          PROVE  Phase(o)' = Phase(o)
      BY <2>5 DEF Phase, Status, Has
    <3> QED
      BY <2>2, <3>1, PromiseStutter
  <2>6. CASE trail' = trail \cup {Entry("execution:failed", t, "exec")}
    <3>1. ~Has("execution:executed", t)'
      <4>1. ~Has("execution:executed", t)
        BY <2>4, PhaseIs
      <4> QED
        BY <2>1, <2>6, <4>1 DEF Has, Entry
    <3>2. Has("execution:failed", t)'
      <4> DEFINE e == Entry("execution:failed", t, "exec")
      <4>1. e \in trail' /\ e.kind = "execution:failed" /\ e.order = t'
        BY <2>1, <2>6 DEF Entry
      <4> QED
        BY <4>1 DEF Has
    <3>3. Phase(t)' = "failed"
      BY <3>1, <3>2 DEF Phase, Status
    <3>4. Promise!Moves(t, "approved", "failed")
      BY <2>0, <2>1, <2>2, <2>3, <2>4, <3>3, PromiseMove
    <3> QED
      BY <2>0, <3>4 DEF Promise!Next, Promise!Fail
  <2> QED
    BY <2>1, <2>5, <2>6
<1>5. ASSUME NEW c \in Clicks, SettleExecuted(c)
      PROVE  [Promise!Next]_Promise!promiseVars
  <2> DEFINE t == target[c]
  <2>1. /\ UNCHANGED <<target, call>>
        /\ trail' = trail \cup {Entry("execution:executed", t, "exec")}
        /\ pc[c] = "sent" /\ call[c] = "accepted"
    BY <1>5 DEF SettleExecuted
  <2>0. t \in Orders
    BY <2>1 DEF Targeted, Live
  <2>2. ASSUME NEW o \in Orders
        PROVE  Calls(o)' = Calls(o)
    BY <2>1, CallsKept DEF Callers
  <2>3. ASSUME NEW o \in Orders, o # t
        PROVE  Phase(o)' = Phase(o)
    BY <2>1, <2>3, PhaseKept DEF Entry
  <2>4. Phase(t) = "approved"
    BY <2>1, HeldIsApproved
  <2>5. Phase(t)' = "executed"
    <3> DEFINE e == Entry("execution:executed", t, "exec")
    <3>1. e \in trail' /\ e.kind = "execution:executed" /\ e.order = t'
      BY <2>1 DEF Entry
    <3>2. Has("execution:executed", t)'
      BY <3>1 DEF Has
    <3> QED
      BY <3>2 DEF Phase, Status
  <2>6. Calls(t) = 1
    <3>1. Callers(t) = {c}
      BY <2>1 DEF Callers, RailInv, Alone, Holds
    <3> QED
      BY <3>1, FS_Singleton DEF Calls, Callers
  <2>7. Promise!Moves(t, "approved", "executed")
    BY <2>0, <2>1, <2>2, <2>3, <2>4, <2>5, PromiseMove
  <2> QED
    BY <2>0, <2>6, <2>7 DEF Promise!Next, Promise!Succeed
<1>6. ASSUME NEW c \in Clicks, Place(c)
      PROVE  [Promise!Next]_Promise!promiseVars
  <2> DEFINE t == target[c]
  <2>1. /\ UNCHANGED <<target, trail>>
        /\ pc[c] = "placing" /\ call[c] = "none"
        /\ call' = [call EXCEPT ![c] = "wire"]
    BY <1>6 DEF Place, RealInv, Uncalled
  <2>0. t \in Orders
    BY <2>1 DEF Targeted, Live
  <2>2. ASSUME NEW o \in Orders
        PROVE  Phase(o)' = Phase(o)
    BY <2>1 DEF Phase, Status, Has
  <2>3. Phase(t) = "approved"
    BY <2>1, HeldIsApproved
  <2>4. Calls(t) = 0 /\ Calls(t)' = 1
    <3>1. Callers(t) = {}
      BY <2>1 DEF Callers, RailInv, Alone, Holds
    <3>2. Callers(t)' = {c}
      BY <2>1, <3>1 DEF Callers
    <3> QED
      BY <3>1, <3>2, FS_EmptySet, FS_Singleton DEF Calls, Callers
  <2>5. ASSUME NEW o \in Orders, o # t
        PROVE  Calls(o)' = Calls(o)
    BY <2>1, <2>5, CallsKept DEF Callers
  <2>6. [o \in Orders |-> Calls(o)]' = [[o \in Orders |-> Calls(o)] EXCEPT ![t] = 1]
    BY <2>0, <2>1, <2>4, <2>5
  <2>7. [o \in Orders |-> Phase(o)]' = [o \in Orders |-> Phase(o)]
    BY <2>2
  <2> QED
    BY <2>0, <2>3, <2>4, <2>6, <2>7 DEF Promise!Next, Promise!Reach
<1> QED
  BY <1>1, <1>2, <1>3, <1>4, <1>5, <1>6, StepCases

\* The rail, with its restarts, failed appends and lost answers, implements the
\* promise made of one proposal (the propose and execute routes together).
THEOREM RailKeepsPromise == Spec => PromiseKept
<1>1. Init => Targeted /\ RealInv /\ Begun
  <2>1. Init => RealInv
    BY DEF Init, RailInit, RealInv, Uncalled, Booked, Recorded, Idle
  <2>2. Init => Begun
    BY DEF Init, RailInit, Begun, Has
  <2> QED
    BY <2>1, <2>2, TypeInit
<1>2. TypeOK /\ RailInv /\ Targeted /\ RealInv /\ Begun /\ [Next]_vars =>
        Targeted' /\ RealInv' /\ Begun'
  BY TypeStep, RealStep, BegunStep
<1>3. Spec => [](TypeOK /\ RailInv /\ Targeted /\ RealInv /\ Begun)
  BY <1>1, <1>2, RailInvariant, PTL DEF Spec
<1>4. TypeOK /\ RailInv /\ Targeted /\ RealInv /\ Begun /\ [Next]_vars =>
        [Promise!Next]_Promise!promiseVars
  BY PromiseStep
<1> QED
  BY <1>3, <1>4, PromiseInit, PTL DEF Spec, PromiseKept, Promise!Spec

-----------------------------------------------------------------------------
(* The envelope.  The counter is adjusted in the turn that starts an executor   *)
(* and in the `finally` that ends it, so it counts the executors; a restart     *)
(* ends them all and resets it.                                                 *)
EnvelopeInv == IsFiniteSet(InFlight) /\ EnvelopeHeld

\* A step that starts and ends no executor.
LEMMA EnvelopeQuiet ==
  ASSUME EnvelopeInv, running' = running,
         \A c \in Clicks : pc'[c] \in {"placing", "sent"} <=> pc[c] \in {"placing", "sent"}
  PROVE  EnvelopeInv'
<1>1. InFlight' = InFlight
  BY DEF InFlight
<1> QED
  BY <1>1 DEF EnvelopeInv, EnvelopeHeld

\* The step that ends one.
LEMMA EnvelopeEnd ==
  ASSUME TypeOK, EnvelopeInv, NEW c \in Clicks, pc[c] \in {"placing", "sent"},
         running' = running - 1,
         \E s \in {"failed", "error", "executed"} : pc' = [pc EXCEPT ![c] = s]
  PROVE  EnvelopeInv'
<1>1. InFlight' = InFlight \ {c} /\ c \in InFlight
  BY DEF InFlight, TypeOK
<1>2. /\ IsFiniteSet(InFlight \ {c})
      /\ Cardinality(InFlight \ {c}) = Cardinality(InFlight) - 1
  BY <1>1, FS_RemoveElement DEF EnvelopeInv
<1>3. IsFiniteSet(InFlight') /\ running' = Cardinality(InFlight')
  BY <1>1, <1>2 DEF EnvelopeInv, EnvelopeHeld
<1>4. running' <= MaxConcurrent
  BY RailAssumption DEF EnvelopeInv, EnvelopeHeld, TypeOK
<1> QED
  BY <1>3, <1>4 DEF EnvelopeInv, EnvelopeHeld

LEMMA EnvelopeStep ==
  ASSUME TypeOK, EnvelopeInv, [Next]_vars
  PROVE  EnvelopeInv'
<1>1. ASSUME NEW o \in Orders, Propose(o) \/ CarrierB(o)
      PROVE  UNCHANGED <<pc, running>>
  BY <1>1
     DEF Propose, ProposeUnrecorded, ProposeDropped, ProposeTrips, ProposeCreated,
         ProposeAllowed, CarrierB, HumanPlaces, ManualFills, VerifyFilled,
         VerifyUnobserved
<1>2. ASSUME NEW c \in Clicks, Venue(c)
      PROVE  UNCHANGED <<pc, running>>
  BY <1>2 DEF Venue, VenueAccepts, VenueRefuses
<1>3. PostureStep \/ UNCHANGED vars => UNCHANGED <<pc, running>>
  BY DEF PostureStep, railVars, vars
<1>4. ASSUME UNCHANGED <<pc, running>>
      PROVE  EnvelopeInv'
  BY <1>4, EnvelopeQuiet
<1>5. CASE Crash
  <2>1. InFlight' = {} /\ running' = 0
    BY <1>5 DEF Crash, InFlight, Live
  <2> QED
    BY <2>1, FS_EmptySet, RailAssumption DEF EnvelopeInv, EnvelopeHeld
<1>6. ASSUME NEW c \in Clicks, NEW o \in Orders, Begin(c, o)
      PROVE  EnvelopeInv'
  <2>1. /\ running' = running /\ pc[c] = Idle
        /\ \E s \in {"observing", "denied", "error"} : pc' = [pc EXCEPT ![c] = s]
    BY <1>6 DEF Begin
  <2> QED
    BY <2>1, EnvelopeQuiet DEF TypeOK, Idle
<1>7. ASSUME NEW c \in Clicks, Refuse(c) \/ RefuseAndTrip(c) \/ AdmitUnrecorded(c)
      PROVE  EnvelopeInv'
  <2>1. /\ running' = running /\ pc[c] = "observing"
        /\ \E s \in {"denied", "error"} : pc' = [pc EXCEPT ![c] = s]
    BY <1>7 DEF Refuse, RefuseAndTrip, AdmitUnrecorded, GatesPass
  <2> QED
    BY <2>1, EnvelopeQuiet DEF TypeOK
<1>8. ASSUME NEW c \in Clicks, Admit(c)
      PROVE  EnvelopeInv'
  <2>1. /\ running' = running + 1 /\ running < MaxConcurrent
        /\ pc[c] = "observing" /\ pc' = [pc EXCEPT ![c] = "placing"]
    BY <1>8 DEF Admit, GatesPass, EnvelopeGate
  <2>2. InFlight' = InFlight \cup {c} /\ c \notin InFlight
    BY <2>1 DEF InFlight, TypeOK
  <2>3. /\ IsFiniteSet(InFlight \cup {c})
        /\ Cardinality(InFlight \cup {c}) = Cardinality(InFlight) + 1
    BY <2>2, FS_AddElement DEF EnvelopeInv
  <2>4. IsFiniteSet(InFlight') /\ running' = Cardinality(InFlight')
    BY <2>1, <2>2, <2>3 DEF EnvelopeInv, EnvelopeHeld
  <2>5. running' <= MaxConcurrent
    BY <2>1, RailAssumption DEF TypeOK
  <2> QED
    BY <2>4, <2>5 DEF EnvelopeInv, EnvelopeHeld
<1>9. ASSUME NEW c \in Clicks, Place(c)
      PROVE  EnvelopeInv'
  BY <1>9, EnvelopeQuiet DEF Place, TypeOK
<1>10. ASSUME NEW c \in Clicks, PlaceRefused(c) \/ Settle(c)
       PROVE  EnvelopeInv'
  <2>1. /\ pc[c] \in {"placing", "sent"} /\ running' = running - 1
        /\ \E s \in {"failed", "error", "executed"} : pc' = [pc EXCEPT ![c] = s]
    BY <1>10
       DEF PlaceRefused, Settle, SettleExecuted, SettleUnrecorded, SettleFailed,
           ExecutionFailed
  <2> QED
    BY <2>1, EnvelopeEnd
<1> QED
  BY <1>1, <1>2, <1>3, <1>4, <1>5, <1>6, <1>7, <1>8, <1>9, <1>10 DEF Next, Click

\* At every moment the counter is the number of executors running and is within
\* the ceiling, on every path out of executeProposal.
THEOREM EnvelopeAlwaysHeld == Spec => []EnvelopeHeld
<1>1. Init => EnvelopeInv
  <2>1. Init => InFlight = {} /\ running = 0
    BY DEF Init, RailInit, InFlight, Idle
  <2> QED
    BY <2>1, FS_EmptySet, RailAssumption DEF EnvelopeInv, EnvelopeHeld
<1>2. TypeOK /\ EnvelopeInv /\ [Next]_vars => EnvelopeInv'
  BY EnvelopeStep
<1>3. EnvelopeInv => EnvelopeHeld
  BY DEF EnvelopeInv
<1> QED
  BY <1>1, <1>2, <1>3, TypeCorrect, PTL DEF Spec

-----------------------------------------------------------------------------
(* The heat.  Gate 19 reads the heat twice, at the proposal and at the click,   *)
(* and each reading lets one more order in.  What bounds the overshoot is the  *)
(* heat together with the orders being executed: an order verified while its   *)
(* click is out leaves the heat and comes back executed.                        *)
HeatOrders == {o \in Orders : /\ Has("proposal:created", o)
                             /\ Status(o) \in {"open", "executed"}}
Busy == {target[c] : c \in InFlight}
Exposed == HeatOrders \cup Busy

ExposedInv ==
  /\ IsFiniteSet(Exposed)
  /\ Cardinality(Exposed) <= HeatCap + 1 + MaxConcurrent

\* A function takes no more values than it has arguments.
LEMMA ImageBound ==
  ASSUME NEW S, IsFiniteSet(S), NEW f
  PROVE  /\ IsFiniteSet({f[x] : x \in S})
         /\ Cardinality({f[x] : x \in S}) <= Cardinality(S)
<1> DEFINE g == [x \in S |-> f[x]]
           T == {f[x] : x \in S}
<1>1. g \in Surjection(S, T)
  BY DEF Surjection
<1> HIDE DEF g, T
<1>2. IsFiniteSet(T) /\ Cardinality(T) <= Cardinality(S)
  BY <1>1, FS_Surjection
<1> QED
  BY <1>2 DEF T

\* A step that brings no order into the exposure.
LEMMA ExposureShrinks ==
  ASSUME ExposedInv, Exposed' \subseteq Exposed
  PROVE  ExposedInv'
<1>1. /\ IsFiniteSet(Exposed') /\ Cardinality(Exposed') <= Cardinality(Exposed)
      /\ Cardinality(Exposed') \in Nat /\ Cardinality(Exposed) \in Nat
  BY FS_Subset, FS_CardinalityType DEF ExposedInv
<1> QED
  BY <1>1, RailAssumption DEF ExposedInv

\* A step let through by the gate, which brings in an executor and an order.
LEMMA ExposureGrows ==
  ASSUME ExposedInv, EnvelopeInv', HeatGate,
         NEW t, Exposed' \subseteq (HeatOrders \cup Busy') \cup {t}
  PROVE  ExposedInv'
<1>1. IsFiniteSet(HeatOrders) /\ Cardinality(HeatOrders) \in Nat
  BY FS_Subset, FS_CardinalityType DEF ExposedInv, Exposed
<1>2. Cardinality(HeatOrders) <= HeatCap
  BY DEF HeatGate, Heat, HeatOrders
<1>3. IsFiniteSet(Busy') /\ Cardinality(Busy') <= MaxConcurrent
  <2>1. IsFiniteSet(InFlight') /\ Cardinality(InFlight') <= MaxConcurrent
    BY DEF EnvelopeInv, EnvelopeHeld
  <2>2. IsFiniteSet(Busy') /\ Cardinality(Busy') <= Cardinality(InFlight')
    BY <2>1, ImageBound DEF Busy
  <2>3. Cardinality(Busy') \in Nat /\ Cardinality(InFlight') \in Nat
    BY <2>1, <2>2, FS_CardinalityType
  <2> QED
    BY <2>1, <2>2, <2>3, RailAssumption
<1>4. Cardinality(Busy') \in Nat
  BY <1>3, FS_CardinalityType
<1>5. /\ IsFiniteSet(HeatOrders \cup Busy')
      /\ Cardinality(HeatOrders \cup Busy') \in Nat
      /\ Cardinality(HeatOrders \cup Busy') <= HeatCap + MaxConcurrent
  <2>1. /\ IsFiniteSet(HeatOrders \cup Busy')
        /\ Cardinality(HeatOrders \cup Busy') =
             Cardinality(HeatOrders) + Cardinality(Busy') - Cardinality(HeatOrders \cap Busy')
    BY <1>1, <1>3, FS_Union
  <2>2. Cardinality(HeatOrders \cap Busy') \in Nat
    BY <1>1, FS_Intersection, FS_CardinalityType
  <2>3. Cardinality(HeatOrders \cup Busy') \in Nat
    BY <2>1, FS_CardinalityType
  <2> QED
    BY <1>1, <1>2, <1>3, <1>4, <2>1, <2>2, <2>3, RailAssumption
<1>6. /\ IsFiniteSet((HeatOrders \cup Busy') \cup {t})
      /\ Cardinality((HeatOrders \cup Busy') \cup {t}) \in Nat
      /\ Cardinality((HeatOrders \cup Busy') \cup {t}) <= HeatCap + 1 + MaxConcurrent
  <2>1. /\ IsFiniteSet((HeatOrders \cup Busy') \cup {t})
        /\ Cardinality((HeatOrders \cup Busy') \cup {t})
             \in {Cardinality(HeatOrders \cup Busy'), Cardinality(HeatOrders \cup Busy') + 1}
    BY <1>5, FS_AddElement
  <2> QED
    BY <1>5, <2>1, RailAssumption
<1>7. /\ IsFiniteSet(Exposed')
      /\ Cardinality(Exposed') <= Cardinality((HeatOrders \cup Busy') \cup {t})
      /\ Cardinality(Exposed') \in Nat
  BY <1>6, FS_Subset, FS_CardinalityType
<1> QED
  BY <1>6, <1>7, RailAssumption DEF ExposedInv

\* What a step does to the heat, read off the entries it appends.
LEMMA HeatOrdersStep ==
  ASSUME NEW S, trail \subseteq trail',
         \A e \in trail' \ trail : e.order \notin S =>
           e.kind \notin {"proposal:created", "execution:executed"}
  PROVE  HeatOrders' \subseteq HeatOrders \cup S
<1> SUFFICES ASSUME NEW o \in HeatOrders', o \notin S
             PROVE  o \in HeatOrders
  OBVIOUS
<1>1. /\ Has("execution:executed", o)' <=> Has("execution:executed", o)
      /\ Has("proposal:created", o)' <=> Has("proposal:created", o)
      /\ Has("execution:failed", o) => Has("execution:failed", o)'
      /\ Has("ccxt-verify:filled", o) => Has("ccxt-verify:filled", o)'
      /\ Has("ccxt-verify:unobserved", o) => Has("ccxt-verify:unobserved", o)'
  BY DEF Has
<1>2. o \in Orders /\ Has("proposal:created", o)' /\ Status(o)' \in {"open", "executed"}
  BY DEF HeatOrders
<1>3. Status(o) \in {"open", "executed"}
  <2>1. CASE Has("execution:executed", o)
    BY <2>1 DEF Status
  <2>2. CASE ~Has("execution:executed", o)
    BY <1>1, <1>2, <2>2 DEF Status
  <2> QED
    BY <2>1, <2>2
<1> QED
  BY <1>1, <1>2, <1>3 DEF HeatOrders

LEMMA ExposedStep ==
  ASSUME TypeOK, Targeted, RailInv, EnvelopeInv, ExposedInv, [Next]_vars
  PROVE  ExposedInv'
<1> USE DEF TypeOK
<1>0. trail \subseteq trail' /\ EnvelopeInv'
  BY OutcomeSource, EnvelopeStep
<1>1. ASSUME NEW o \in Orders, Propose(o)
      PROVE  ExposedInv'
  <2>1. Busy' = Busy
    BY <1>1
       DEF Propose, ProposeUnrecorded, ProposeDropped, ProposeTrips, ProposeCreated,
           ProposeAllowed, Busy, InFlight
  <2>2. CASE ProposeCreated(o)
    <3>1. trail' = trail \cup {Allowed(o, "proposal"),
                               Entry("proposal:created", o, "proposal")}
      BY <2>2 DEF ProposeCreated
    <3>2. \A e \in trail' \ trail : e.order = o
      BY <3>1 DEF Allowed, Entry
    <3>3. HeatOrders' \subseteq HeatOrders \cup {o}
      BY <1>0, <3>2, HeatOrdersStep
    <3>4. Exposed' \subseteq (HeatOrders \cup Busy') \cup {o}
      BY <3>3 DEF Exposed
    <3> QED
      BY <1>0, <2>2, <3>4, ExposureGrows DEF ProposeCreated
  <2>3. CASE ~ProposeCreated(o)
    <3>1. trail' \in {trail, trail \cup {Allowed(o, "proposal")}}
      BY <1>1, <2>3 DEF Propose, ProposeUnrecorded, ProposeDropped, ProposeTrips
    <3>2. \A e \in trail' \ trail : e.kind = "safety-gate:allow"
      BY <3>1 DEF Allowed, Entry
    <3>3. HeatOrders' \subseteq HeatOrders \cup {}
      BY <1>0, <3>2, HeatOrdersStep
    <3> QED
      BY <2>1, <3>3, ExposureShrinks DEF Exposed
  <2> QED
    BY <2>2, <2>3
<1>2. ASSUME NEW c \in Clicks, Admit(c)
      PROVE  ExposedInv'
  <2>1. trail' = trail \cup {Allowed(target[c], "exec")}
    BY <1>2 DEF Admit
  <2>2. HeatOrders' \subseteq HeatOrders \cup {}
    BY <1>0, <2>1, HeatOrdersStep DEF Allowed, Entry
  <2>3. Exposed' \subseteq (HeatOrders \cup Busy') \cup {target[c]}
    BY <2>2 DEF Exposed
  <2> QED
    BY <1>0, <1>2, <2>3, ExposureGrows DEF Admit, GatesPass
<1>3. ASSUME NEW c \in Clicks, SettleExecuted(c)
      PROVE  ExposedInv'
  <2>1. /\ trail' = trail \cup {Entry("execution:executed", target[c], "exec")}
        /\ pc[c] = "sent" /\ pc' = [pc EXCEPT ![c] = "executed"]
        /\ target' = target
    BY <1>3 DEF SettleExecuted
  <2>2. HeatOrders' \subseteq HeatOrders \cup {target[c]}
    <3>1. \A e \in trail' \ trail : e.order \in {target[c]}
      BY <2>1 DEF Entry
    <3> QED
      BY <1>0, <3>1, HeatOrdersStep
  <2>3. Busy' \subseteq Busy /\ target[c] \in Busy
    BY <2>1 DEF Busy, InFlight
  <2> QED
    BY <2>2, <2>3, ExposureShrinks DEF Exposed
<1>4. ASSUME NEW c \in Clicks, Place(c) \/ ExecutionFailed(c),
             pc[c] \in {"placing", "sent"}
      PROVE  ExposedInv'
  <2>1. /\ trail' \in {trail, trail \cup {Entry("execution:failed", target[c], "exec")}}
        /\ target' = target
        /\ \E s \in {"sent", "failed", "error"} : pc' = [pc EXCEPT ![c] = s]
    BY <1>4 DEF Place, ExecutionFailed
  <2>2. HeatOrders' \subseteq HeatOrders \cup {}
    BY <1>0, <2>1, HeatOrdersStep DEF Entry
  <2>3. Busy' \subseteq Busy
    BY <1>4, <2>1 DEF Busy, InFlight
  <2> QED
    BY <2>2, <2>3, ExposureShrinks DEF Exposed
<1>5. CASE Aside
  <2>1. HeatOrders' \subseteq HeatOrders \cup {}
    BY <1>0, <1>5, HeatOrdersStep DEF Aside
  <2>2. Busy' \subseteq Busy
    BY <1>5 DEF Aside, Busy, InFlight
  <2> QED
    BY <2>1, <2>2, ExposureShrinks DEF Exposed
<1>6. \A c \in Clicks : Place(c) => pc[c] = "placing"
  BY DEF Place
<1> QED
  BY <1>1, <1>2, <1>3, <1>4, <1>5, <1>6, StepCases

\* The heat passes its cap by at most the order being created and the executors
\* let in below it, however proposals, clicks and verifications interleave
\* (portfolioHeatUsd, gate 19).
THEOREM HeatOvershootBounded == Spec => []HeatOvershoot
<1>1. Init => EnvelopeInv /\ ExposedInv
  <2>1. Init => InFlight = {} /\ running = 0
    BY DEF Init, RailInit, InFlight, Idle
  <2>2. Init => Exposed = {}
    BY <2>1 DEF Init, RailInit, Exposed, HeatOrders, Busy, Has
  <2> QED
    BY <2>1, <2>2, FS_EmptySet, RailAssumption
       DEF EnvelopeInv, EnvelopeHeld, ExposedInv
<1>2. TypeOK /\ Targeted /\ RailInv /\ EnvelopeInv /\ ExposedInv /\ [Next]_vars =>
        EnvelopeInv' /\ ExposedInv'
  BY EnvelopeStep, ExposedStep
<1>3. Spec => [](TypeOK /\ Targeted /\ RailInv /\ EnvelopeInv /\ ExposedInv)
  BY <1>1, <1>2, TypeInit, TypeStep, RailInvariant, PTL DEF Spec
<1>4. ExposedInv => HeatOvershoot
  <2> SUFFICES ASSUME ExposedInv PROVE HeatOvershoot
    OBVIOUS
  <2>1. /\ IsFiniteSet(HeatOrders)
        /\ Cardinality(HeatOrders) <= Cardinality(Exposed)
        /\ Cardinality(HeatOrders) \in Nat /\ Cardinality(Exposed) \in Nat
    BY FS_Subset, FS_CardinalityType DEF ExposedInv, Exposed
  <2> QED
    BY <2>1, RailAssumption DEF ExposedInv, HeatOvershoot, Heat, HeatOrders
<1> QED
  BY <1>3, <1>4, PTL
=============================================================================
