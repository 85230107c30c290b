--------------------------- MODULE SafetyPosture ---------------------------
(***************************************************************************)
(* The switches that stop every live order: the machine-wide kill switch,  *)
(* the cross-site day halt and the human takeover.                         *)
(*                                                                         *)
(* Three modules hold them.  commandCentreRuntime.mjs owns the kill switch *)
(* (memory and command-centre-runtime.json).  safetySidecar.mjs holds the  *)
(* halt that gates 2 and 3 enforce, in memory only.  riskHaltStore.mjs     *)
(* keeps a second copy and command-centre-halt.json, and the two copies    *)
(* are joined by callbacks: a change made at the sidecar is written        *)
(* through to the store, a change made at the store is persisted, audited  *)
(* and only then seeds the sidecar.                                        *)
(*                                                                         *)
(* Every mutation is one synchronous turn of the event loop, so it is one  *)
(* action; but a turn can throw half way.  Its two failure points, the     *)
(* write of the JSON file and the append to the audit trail, are           *)
(* parameters of the action.  A restart rereads the files.                 *)
(***************************************************************************)
EXTENDS Naturals

CONSTANTS
  Sites,          \* catalogue site ids a kill can be scoped to
  MaxDay,         \* bound: the last UTC day of a behaviour
  MaxCrashes,     \* bound: restarts in a behaviour
  WriteOutcomes,  \* what writeFileSync may do: subset of {"ok", "kept", "torn"}
  AuditOutcomes,  \* what appendAudit may do: subset of BOOLEAN, TRUE = appended
  NoDay,          \* globalHalt = null
  Torn            \* the content of a file that JSON.parse rejects

VARIABLES
  day,          \* the current UTC day, dayKeyOf(Date.now())
  crashes,      \* restarts so far
  killed,       \* runtime store in memory: the scopes whose switch is ON
  killFile,     \* command-centre-runtime.json
  sidecar,      \* safetySidecar: globalHalt.dayKey and takeover
  store,        \* riskHaltStore: its own copy, the variable `halt`
  haltFile,     \* command-centre-halt.json
  \* What the callers were told, to state the properties with:
  killWanted,     \* scopes whose kill was answered ok and not since cleared
  takeoverWanted, \* a takeover was answered and no clear requested since
  trippedOn       \* the last day a breaker trip was answered for

postureVars == <<day, crashes, killed, killFile, sidecar, store, haltFile,
                 killWanted, takeoverWanted, trippedOn>>
wantedVars  == <<killWanted, takeoverWanted, trippedOn>>

-----------------------------------------------------------------------------
Scopes == {"global"} \cup Sites
Days   == 0 .. MaxDay
Halts  == [trip : Days \cup {NoDay}, takeover : BOOLEAN]
NoHalt == [trip |-> NoDay, takeover |-> FALSE]

ASSUME PostureAssumption ==
  /\ MaxDay \in Nat
  /\ MaxCrashes \in Nat
  /\ "global" \notin Sites
  /\ WriteOutcomes \subseteq {"ok", "kept", "torn"}
  /\ AuditOutcomes \subseteq BOOLEAN
  /\ NoDay \notin Days
  /\ \A switches \in SUBSET Scopes : switches # Torn
  /\ \A halt \in Halts : halt # Torn

\* The three changes a halt record undergoes.
Tripped(halt)   == [halt EXCEPT !.trip = day]
TakenOver(halt) == [halt EXCEPT !.takeover = TRUE]
Rearmed(halt)   == [halt EXCEPT !.takeover = FALSE]

\* writeFileSync truncates and then writes: it may succeed, fail before the
\* file is opened (the old content stays) or stop after the truncation.
Written(w, old, new) ==
  CASE w = "ok"   -> new
    [] w = "kept" -> old
    [] w = "torn" -> Torn

\* persist() and then audit(): the caller carries on only when both returned.
Committed(w, a) == w = "ok" /\ a

\* A slip the runs must notice: the kill is kept in memory only.
KillForgotten(file) == {}

\* A switch file that cannot be parsed boots with the global kill ON.
KillAtBoot(file) == IF file = Torn THEN {"global"} ELSE file

\* Two slips: only the trip is hydrated, or only the takeover.
HydrateTripOnly(file, today) ==
  IF file = Torn THEN [trip |-> today, takeover |-> FALSE]
                 ELSE [file EXCEPT !.takeover = FALSE]
HydrateTakeoverOnly(file, today) ==
  IF file = Torn THEN [trip |-> today, takeover |-> FALSE]
                 ELSE [file EXCEPT !.trip = NoDay]

\* A halt file that cannot be parsed boots as a trip of the boot day.
HaltAtBoot(file, today) ==
  IF file = Torn THEN [trip |-> today, takeover |-> FALSE] ELSE file

-----------------------------------------------------------------------------
anyKillActive == killed # {}

\* Gates 1, 2 and 3 of evaluateGate.
KillGate     == ~anyKillActive
DayHaltGate  == sidecar.trip # day
TakeoverGate == ~sidecar.takeover
PostureOpen  == KillGate /\ DayHaltGate /\ TakeoverGate

-----------------------------------------------------------------------------
PostureInit ==
  /\ day = 0
  /\ crashes = 0
  /\ killed = {} /\ killFile = {}
  /\ sidecar = NoHalt /\ store = NoHalt /\ haltFile = NoHalt
  /\ killWanted = {} /\ takeoverWanted = FALSE /\ trippedOn = NoDay

\* POST /api/command-centre/kill-switch: memory first, then file, then audit.
setKillSwitch(scope, kill, w, a) ==
  /\ killed' = IF kill THEN killed \cup {scope} ELSE killed \ {scope}
  /\ killFile' = Written(w, killFile, killed')
  /\ killWanted' = IF kill
                     THEN IF Committed(w, a) THEN killWanted \cup {scope}
                                             ELSE killWanted
                     ELSE killWanted \ {scope}
  /\ UNCHANGED <<day, crashes, sidecar, store, haltFile,
                 takeoverWanted, trippedOn>>

\* The store's own entry points: store, file, audit, and the sidecar is seeded
\* only when neither threw.
StoreMutation(next, w, a) ==
  /\ store' = next
  /\ haltFile' = Written(w, haltFile, next)
  /\ sidecar' = IF Committed(w, a) THEN next ELSE sidecar
  /\ UNCHANGED <<day, crashes, killed, killFile, killWanted>>

\* A slip: the trip is stamped with the day after.
tripBreakerTomorrow(w, a) ==
  /\ StoreMutation([store EXCEPT !.trip = day + 1], w, a)
  /\ trippedOn' = IF Committed(w, a) THEN day + 1 ELSE trippedOn
  /\ UNCHANGED takeoverWanted

\* The production trip: gate 16 of evaluateRiskGate.
tripBreaker(w, a) ==
  /\ StoreMutation(Tripped(store), w, a)
  /\ trippedOn' = IF Committed(w, a) THEN day ELSE trippedOn
  /\ UNCHANGED takeoverWanted

humanTakeoverPersist(w, a) ==
  /\ StoreMutation(TakenOver(store), w, a)
  /\ takeoverWanted' = (takeoverWanted \/ Committed(w, a))
  /\ UNCHANGED trippedOn

clearTakeoverPersist(w, a) ==
  /\ StoreMutation(Rearmed(store), w, a)
  /\ takeoverWanted' = FALSE
  /\ UNCHANGED trippedOn

\* The sidecar's entry points: the sidecar changes whatever happens to the
\* write-through that follows it.
SidecarMutation(nextSidecar, nextStore, w) ==
  /\ sidecar' = nextSidecar
  /\ store' = nextStore
  /\ haltFile' = Written(w, haltFile, nextStore)
  /\ UNCHANGED <<day, crashes, killed, killFile, killWanted>>

noteBreakerTrip(w, a) ==
  /\ SidecarMutation(Tripped(sidecar), Tripped(store), w)
  /\ trippedOn' = IF Committed(w, a) THEN day ELSE trippedOn
  /\ UNCHANGED takeoverWanted

humanTakeover(w, a) ==
  /\ SidecarMutation(TakenOver(sidecar), TakenOver(store), w)
  /\ takeoverWanted' = (takeoverWanted \/ Committed(w, a))
  /\ UNCHANGED trippedOn

clearTakeover(w) ==
  /\ SidecarMutation(Rearmed(sidecar), Rearmed(store), w)
  /\ takeoverWanted' = FALSE
  /\ UNCHANGED trippedOn

\* Midnight UTC.
NextDay ==
  /\ day < MaxDay
  /\ day' = day + 1
  /\ UNCHANGED <<crashes, killed, killFile, sidecar, store, haltFile,
                 killWanted, takeoverWanted, trippedOn>>

\* The process dies and starts again: commandCentreRuntime boot(), then
\* riskHaltStore hydrate(), both from the files alone.
Restart ==
  /\ crashes < MaxCrashes
  /\ crashes' = crashes + 1
  /\ killed' = KillAtBoot(killFile)
  /\ store' = HaltAtBoot(haltFile, day)
  /\ sidecar' = store'
  /\ UNCHANGED <<day, killFile, haltFile, killWanted, takeoverWanted, trippedOn>>

HaltMutation ==
  \E w \in WriteOutcomes, a \in AuditOutcomes :
    \/ tripBreaker(w, a)
    \/ humanTakeoverPersist(w, a)
    \/ clearTakeoverPersist(w, a)
    \/ noteBreakerTrip(w, a)
    \/ humanTakeover(w, a)
    \/ clearTakeover(w)

KillMutation ==
  \E scope \in Scopes, kill \in BOOLEAN, w \in WriteOutcomes, a \in AuditOutcomes :
    setKillSwitch(scope, kill, w, a)

PostureNext == KillMutation \/ HaltMutation \/ NextDay \/ Restart

PostureSpec == PostureInit /\ [][PostureNext]_postureVars

-----------------------------------------------------------------------------
\* Every variable has the shape the code gives it.
PostureTypeOK ==
  /\ day \in Days
  /\ crashes \in 0 .. MaxCrashes
  /\ killed \in SUBSET Scopes
  /\ killFile = Torn \/ killFile \in SUBSET Scopes
  /\ sidecar \in Halts
  /\ store \in Halts
  /\ haltFile = Torn \/ haltFile \in Halts
  /\ killWanted \in SUBSET Scopes
  /\ takeoverWanted \in BOOLEAN
  /\ trippedOn \in Days \cup {NoDay}

\* A breaker trip that was answered keeps gate 2 closed for the rest of its
\* UTC day: through restarts, failed and half-written files, later mutations
\* of the takeover and the store/sidecar copies disagreeing
\* (riskHaltStore.tripBreaker, hydrate; safetySidecar gate 2).
TripStands == trippedOn = day => ~DayHaltGate

\* A kill that was answered ok stays in force until somebody asks to clear
\* that same switch, restarts included (setKillSwitch, boot).
KillStands == killWanted \subseteq killed

\* A takeover that was answered stays in force until somebody asks for the
\* clear: "deny-all until clear/rearm" (safetySidecar.humanTakeover).
TakeoverStands == takeoverWanted => ~TakeoverGate
=============================================================================
