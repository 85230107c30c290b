---------------------------- MODULE OrderPromise ----------------------------
(***************************************************************************)
(* What the order rail promises about one proposal, without clicks,        *)
(* switches, files or restarts: it is recorded, it may be approved for     *)
(* execution once, an approved proposal may be sent to the venue once, and *)
(* only one outcome is ever recorded.  A restart may leave a proposal       *)
(* approved for good; it never takes a step back.                          *)
(***************************************************************************)
EXTENDS Naturals

CONSTANT Orders

VARIABLES
  phase,   \* per proposal: none, proposed, approved, executed or failed
  calls    \* per proposal: createOrder calls issued

promiseVars == <<phase, calls>>

Phases == {"none", "proposed", "approved", "executed", "failed"}

Init ==
  /\ phase = [o \in Orders |-> "none"]
  /\ calls = [o \in Orders |-> 0]

Moves(o, from, to) ==
  /\ phase[o] = from
  /\ phase' = [phase EXCEPT ![o] = to]
  /\ UNCHANGED calls

Record(o)  == Moves(o, "none", "proposed")
Approve(o) == Moves(o, "proposed", "approved")
Fail(o)    == Moves(o, "approved", "failed")
Succeed(o) == calls[o] = 1 /\ Moves(o, "approved", "executed")

Reach(o) ==
  /\ phase[o] = "approved" /\ calls[o] = 0
  /\ calls' = [calls EXCEPT ![o] = 1]
  /\ UNCHANGED phase

Next == \E o \in Orders :
  Record(o) \/ Approve(o) \/ Reach(o) \/ Succeed(o) \/ Fail(o)

Spec == Init /\ [][Next]_promiseVars
=============================================================================
