------------------------ MODULE SafetyPostureProofs ------------------------
(***************************************************************************)
(* The switches, for every set of sites, every number of days and restarts, *)
(* and every mix of failing writes and appends.  A trip survives whatever   *)
(* happens to the files; a kill and a takeover survive as long as no file   *)
(* is left half written.                                                    *)
(***************************************************************************)
EXTENDS SafetyPosture, TLAPS

\* What a write leaves behind is the old content, the new one, or a torn file.
LEMMA WrittenCases ==
  ASSUME NEW w \in WriteOutcomes, NEW old, NEW new
  PROVE  /\ Written(w, old, new) \in {old, new, Torn}
         /\ "torn" \notin WriteOutcomes => Written(w, old, new) \in {old, new}
         /\ w = "ok" => Written(w, old, new) = new
  BY PostureAssumption DEF Written

-----------------------------------------------------------------------------
LEMMA PostureTypeInit == PostureInit => PostureTypeOK
<1> SUFFICES ASSUME PostureInit PROVE PostureTypeOK
  OBVIOUS
<1>1. NoHalt \in Halts
  BY DEF NoHalt, Halts
<1>2. 0 \in Days /\ 0 \in 0 .. MaxCrashes
  BY PostureAssumption DEF Days
<1> QED
  BY <1>1, <1>2 DEF PostureInit, PostureTypeOK

\* The three mutations give a halt record for a halt record.
LEMMA HaltMoves ==
  ASSUME PostureTypeOK, NEW halt \in Halts
  PROVE  Tripped(halt) \in Halts /\ TakenOver(halt) \in Halts /\ Rearmed(halt) \in Halts
<1>1. day \in Days \cup {NoDay}
  BY DEF PostureTypeOK
<1> QED
  BY <1>1 DEF Halts, Tripped, TakenOver, Rearmed

LEMMA PostureTypeStep == PostureTypeOK /\ [PostureNext]_postureVars => PostureTypeOK'
<1> SUFFICES ASSUME PostureTypeOK, [PostureNext]_postureVars
             PROVE  PostureTypeOK'
  OBVIOUS
<1> USE PostureAssumption DEF PostureTypeOK
<1> day \in Days /\ day \in Days \cup {NoDay}
  OBVIOUS
<1>1. CASE KillMutation
  <2>1. PICK scope \in Scopes, kill \in BOOLEAN, w \in WriteOutcomes,
             a \in AuditOutcomes : setKillSwitch(scope, kill, w, a)
    BY <1>1 DEF KillMutation
  <2>2. killed' \in SUBSET Scopes
    BY <2>1 DEF setKillSwitch
  <2>3. killFile' = Torn \/ killFile' \in SUBSET Scopes
    BY <2>1, <2>2, WrittenCases DEF setKillSwitch
  <2>4. killWanted' \in SUBSET Scopes
    BY <2>1 DEF setKillSwitch
  <2> QED
    BY <2>1, <2>2, <2>3, <2>4 DEF setKillSwitch
<1>2. CASE HaltMutation
  <2>1. PICK w \in WriteOutcomes, a \in AuditOutcomes :
             \/ tripBreaker(w, a) \/ humanTakeoverPersist(w, a)
             \/ clearTakeoverPersist(w, a) \/ noteBreakerTrip(w, a)
             \/ humanTakeover(w, a) \/ clearTakeover(w)
    BY <1>2 DEF HaltMutation
  <2>2. store' \in {Tripped(store), TakenOver(store), Rearmed(store)}
    BY <2>1
       DEF tripBreaker, humanTakeoverPersist, clearTakeoverPersist, StoreMutation,
           noteBreakerTrip, humanTakeover, clearTakeover, SidecarMutation
  <2>3. store' \in Halts
    BY <2>2, HaltMoves
  <2>a. sidecar' \in {sidecar, store', Tripped(sidecar), TakenOver(sidecar),
                      Rearmed(sidecar)}
    BY <2>1
       DEF tripBreaker, humanTakeoverPersist, clearTakeoverPersist, StoreMutation,
           noteBreakerTrip, humanTakeover, clearTakeover, SidecarMutation
  <2>b. sidecar' \in Halts
    BY <2>3, <2>a, HaltMoves
  <2>4. haltFile' = Written(w, haltFile, store')
    BY <2>1
       DEF tripBreaker, humanTakeoverPersist, clearTakeoverPersist, StoreMutation,
           noteBreakerTrip, humanTakeover, clearTakeover, SidecarMutation
  <2>5. haltFile' = Torn \/ haltFile' \in Halts
    BY <2>3, <2>4, WrittenCases
  <2>6. takeoverWanted' \in BOOLEAN /\ trippedOn' \in Days \cup {NoDay}
    BY <2>1
       DEF tripBreaker, humanTakeoverPersist, clearTakeoverPersist,
           noteBreakerTrip, humanTakeover, clearTakeover, Committed
  <2>7. UNCHANGED <<day, crashes, killed, killFile, killWanted>>
    BY <2>1
       DEF tripBreaker, humanTakeoverPersist, clearTakeoverPersist, StoreMutation,
           noteBreakerTrip, humanTakeover, clearTakeover, SidecarMutation
  <2> QED
    BY <2>3, <2>b, <2>5, <2>6, <2>7
<1>3. CASE NextDay
  <2>1. day + 1 \in Days
    BY <1>3 DEF NextDay, Days
  <2> QED
    BY <1>3, <2>1 DEF NextDay
<1>4. CASE Restart
  <2>1. killed' \in SUBSET Scopes
    BY <1>4 DEF Restart, KillAtBoot, Scopes
  <2>2. store' \in Halts
    BY <1>4 DEF Restart, HaltAtBoot, Halts
  <2>3. crashes' \in 0 .. MaxCrashes
    BY <1>4 DEF Restart
  <2> QED
    BY <1>4, <2>1, <2>2, <2>3 DEF Restart
<1>5. CASE UNCHANGED postureVars
  BY <1>5 DEF postureVars
<1> QED
  BY <1>1, <1>2, <1>3, <1>4, <1>5 DEF PostureNext

\* The switches always have the shape the code gives them.
THEOREM PostureTypeCorrect == PostureSpec => []PostureTypeOK
<1>1. PostureInit => PostureTypeOK
  BY PostureTypeInit
<1>2. PostureTypeOK /\ [PostureNext]_postureVars => PostureTypeOK'
  BY PostureTypeStep
<1> QED
  BY <1>1, <1>2, PTL DEF PostureSpec

-----------------------------------------------------------------------------
(* A trip that was answered today is in all three copies: the sidecar's, the *)
(* store's, and the file's unless the file is torn, in which case the boot   *)
(* trips today anyway.  The day of the last answered trip is never ahead of  *)
(* the clock, so midnight cannot make an old trip look like today's.         *)
TripInv ==
  /\ trippedOn # NoDay => trippedOn <= day
  /\ trippedOn = day => /\ sidecar.trip = day
                        /\ store.trip = day
                        /\ haltFile = Torn \/ haltFile.trip = day

LEMMA TripInvStep ==
  ASSUME PostureTypeOK, TripInv, [PostureNext]_postureVars
  PROVE  TripInv'
<1> USE PostureAssumption DEF PostureTypeOK, TripInv
<1> /\ day \in Nat /\ day \in Days
    /\ trippedOn # NoDay => trippedOn \in Nat
    /\ day # NoDay
  BY DEF Days
<1>1. CASE KillMutation
  BY <1>1 DEF KillMutation, setKillSwitch
<1>2. CASE HaltMutation
  <2>1. PICK w \in WriteOutcomes, a \in AuditOutcomes :
             \/ tripBreaker(w, a) \/ humanTakeoverPersist(w, a)
             \/ clearTakeoverPersist(w, a) \/ noteBreakerTrip(w, a)
             \/ humanTakeover(w, a) \/ clearTakeover(w)
    BY <1>2 DEF HaltMutation
  <2>2. haltFile' \in {haltFile, store', Torn} /\ day' = day
    BY <2>1, WrittenCases
       DEF tripBreaker, humanTakeoverPersist, clearTakeoverPersist, StoreMutation,
           noteBreakerTrip, humanTakeover, clearTakeover, SidecarMutation
  <2>3. CASE tripBreaker(w, a) \/ noteBreakerTrip(w, a)
    <3>0. /\ store' = Tripped(store)
          /\ sidecar' \in {sidecar, store', Tripped(sidecar)}
          /\ trippedOn' = day => \/ trippedOn = day
                                 \/ sidecar' \in {store', Tripped(sidecar)}
      <4>1. CASE tripBreaker(w, a)
        BY <4>1 DEF tripBreaker, StoreMutation
      <4>2. CASE noteBreakerTrip(w, a)
        BY <4>2 DEF noteBreakerTrip, SidecarMutation
      <4> QED
        BY <2>3, <4>1, <4>2
    <3>1. store'.trip = day
      BY <3>0 DEF Halts, Tripped, TakenOver, Rearmed
    <3>2. trippedOn' = day => sidecar'.trip = day
      BY <3>0, <3>1 DEF Halts, Tripped, TakenOver, Rearmed
    <3>3. trippedOn' = day => haltFile' = Torn \/ haltFile'.trip = day
      <4>1. CASE Committed(w, a)
        BY <2>3, <3>1, <4>1, WrittenCases
           DEF tripBreaker, noteBreakerTrip, StoreMutation, SidecarMutation, Committed
      <4>2. CASE ~Committed(w, a)
        BY <2>2, <2>3, <3>1, <4>2 DEF tripBreaker, noteBreakerTrip
      <4> QED
        BY <4>1, <4>2
    <3>4. trippedOn' \in {trippedOn, day}
      BY <2>3 DEF tripBreaker, noteBreakerTrip
    <3> QED
      BY <2>2, <3>1, <3>2, <3>3, <3>4
  <2>4. CASE \/ humanTakeoverPersist(w, a) \/ clearTakeoverPersist(w, a)
             \/ humanTakeover(w, a) \/ clearTakeover(w)
    <3>1. trippedOn' = trippedOn /\ store'.trip = store.trip
      BY <2>4
         DEF Halts, Tripped, TakenOver, Rearmed,
             humanTakeoverPersist, clearTakeoverPersist, humanTakeover,
             clearTakeover, StoreMutation, SidecarMutation
    <3>2. sidecar'.trip \in {sidecar.trip, store.trip}
      BY <2>4
         DEF Halts, Tripped, TakenOver, Rearmed,
             humanTakeoverPersist, clearTakeoverPersist, humanTakeover,
             clearTakeover, StoreMutation, SidecarMutation
    <3> QED
      BY <2>2, <3>1, <3>2
  <2> QED
    BY <2>1, <2>3, <2>4
<1>3. CASE NextDay
  <2>1. day' = day + 1 /\ day' \in Days
    BY <1>3 DEF NextDay, Days
  <2>2. trippedOn' # day'
    BY <1>3, <2>1 DEF NextDay
  <2> QED
    BY <1>3, <2>1, <2>2 DEF NextDay
<1>4. CASE Restart
  <2>1. /\ UNCHANGED <<day, haltFile, trippedOn>>
        /\ store' = HaltAtBoot(haltFile, day) /\ sidecar' = store'
    BY <1>4 DEF Restart
  <2>2. HaltAtBoot(Torn, day).trip = day
    BY DEF HaltAtBoot
  <2>3. haltFile # Torn => HaltAtBoot(haltFile, day) = haltFile
    BY DEF HaltAtBoot
  <2> QED
    BY <2>1, <2>2, <2>3
<1>5. CASE UNCHANGED postureVars
  BY <1>5 DEF postureVars
<1> QED
  BY <1>1, <1>2, <1>3, <1>4, <1>5 DEF PostureNext

\* An answered breaker trip closes gate 2 for the rest of its day, whatever the
\* files, the appends and the restarts do (riskHaltStore, safetySidecar).
THEOREM TripAlwaysStands == PostureSpec => []TripStands
<1>1. PostureInit => TripInv
  BY PostureAssumption DEF PostureInit, TripInv, Days
<1>2. PostureTypeOK /\ TripInv /\ [PostureNext]_postureVars => TripInv'
  BY TripInvStep
<1>3. TripInv => TripStands
  BY DEF TripInv, TripStands, DayHaltGate
<1> QED
  BY <1>1, <1>2, <1>3, PostureTypeCorrect, PTL DEF PostureSpec

-----------------------------------------------------------------------------
(* With whole files, the file never lags behind an answered kill or takeover. *)
(* A kill that failed half way may be in memory and not in the file, and a     *)
(* clear that failed half way the other way round; neither was answered.       *)
WantedInv ==
  /\ killWanted \subseteq killed
  /\ killFile # Torn /\ killWanted \subseteq killFile
  /\ haltFile # Torn
  /\ takeoverWanted => sidecar.takeover /\ store.takeover /\ haltFile.takeover

LEMMA WantedInvStep ==
  ASSUME "torn" \notin WriteOutcomes,
         PostureTypeOK, WantedInv, [PostureNext]_postureVars
  PROVE  WantedInv'
<1> USE DEF WantedInv
<1> Torn \notin SUBSET Scopes /\ Torn \notin Halts
  BY PostureAssumption
<1>1. CASE KillMutation
  <2>1. PICK scope \in Scopes, kill \in BOOLEAN, w \in WriteOutcomes,
             a \in AuditOutcomes : setKillSwitch(scope, kill, w, a)
    BY <1>1 DEF KillMutation
  <2>2. killed' \in SUBSET Scopes
    BY <2>1 DEF setKillSwitch, PostureTypeOK
  <2>3. killFile' = Written(w, killFile, killed') /\ killFile' \in {killFile, killed'}
    BY <2>1, WrittenCases DEF setKillSwitch
  <2>4. killFile' # Torn
    BY <2>2, <2>3
  <2>5. killWanted' \subseteq killed'
    BY <2>1 DEF setKillSwitch
  <2>6. killWanted' \subseteq killFile'
    <3>1. CASE kill /\ Committed(w, a)
      BY <2>1, <2>3, <2>5, <3>1, WrittenCases DEF setKillSwitch, Committed
    <3>2. CASE ~(kill /\ Committed(w, a))
      BY <2>1, <2>3, <2>5, <3>2 DEF setKillSwitch
    <3> QED
      BY <3>1, <3>2
  <2> QED
    BY <2>1, <2>4, <2>5, <2>6 DEF setKillSwitch
<1>2. CASE HaltMutation
  <2>1. PICK w \in WriteOutcomes, a \in AuditOutcomes :
             \/ tripBreaker(w, a) \/ humanTakeoverPersist(w, a)
             \/ clearTakeoverPersist(w, a) \/ noteBreakerTrip(w, a)
             \/ humanTakeover(w, a) \/ clearTakeover(w)
    BY <1>2 DEF HaltMutation
  <2>2. /\ UNCHANGED <<killed, killFile, killWanted>>
        /\ haltFile' = Written(w, haltFile, store')
    BY <2>1
       DEF tripBreaker, humanTakeoverPersist, clearTakeoverPersist, StoreMutation,
           noteBreakerTrip, humanTakeover, clearTakeover, SidecarMutation
  <2>3. haltFile' \in {haltFile, store'}
    BY <2>2, WrittenCases
  <2>4. store' \in Halts /\ haltFile' # Torn
    BY <2>3, PostureTypeStep DEF PostureTypeOK
  <2>5. CASE tripBreaker(w, a) \/ noteBreakerTrip(w, a)
    <3>1. /\ takeoverWanted' = takeoverWanted
          /\ store'.takeover = store.takeover
          /\ sidecar'.takeover \in {sidecar.takeover, store.takeover}
      BY <2>5
         DEF PostureTypeOK, Halts, Tripped, tripBreaker, noteBreakerTrip,
             StoreMutation, SidecarMutation
    <3> QED
      BY <2>2, <2>3, <2>4, <3>1 DEF PostureTypeOK, Halts
  <2>6. CASE humanTakeoverPersist(w, a) \/ humanTakeover(w, a)
    <3>1. store'.takeover = TRUE
      BY <2>6
         DEF PostureTypeOK, Halts, TakenOver, humanTakeoverPersist, humanTakeover,
             StoreMutation, SidecarMutation
    <3>2. takeoverWanted' => sidecar'.takeover = TRUE
      BY <2>6
         DEF PostureTypeOK, Halts, TakenOver, humanTakeoverPersist, humanTakeover,
             StoreMutation, SidecarMutation
    <3>3. takeoverWanted' => haltFile'.takeover
      <4>1. CASE Committed(w, a)
        BY <2>2, <3>1, <4>1, WrittenCases DEF Committed
      <4>2. CASE ~Committed(w, a)
        BY <2>3, <2>6, <3>1, <4>2 DEF humanTakeoverPersist, humanTakeover
      <4> QED
        BY <4>1, <4>2
    <3> QED
      BY <2>2, <2>4, <3>1, <3>2, <3>3
  <2>7. CASE clearTakeoverPersist(w, a) \/ clearTakeover(w)
    <3>1. takeoverWanted' = FALSE
      BY <2>7 DEF clearTakeoverPersist, clearTakeover
    <3> QED
      BY <2>2, <2>4, <3>1
  <2> QED
    BY <2>1, <2>5, <2>6, <2>7
<1>3. CASE NextDay
  BY <1>3 DEF NextDay
<1>4. CASE Restart
  <2>1. killed' = killFile /\ store' = haltFile /\ sidecar' = haltFile
    BY <1>4 DEF Restart, KillAtBoot, HaltAtBoot
  <2> QED
    BY <1>4, <2>1 DEF Restart
<1>5. CASE UNCHANGED postureVars
  BY <1>5 DEF postureVars
<1> QED
  BY <1>1, <1>2, <1>3, <1>4, <1>5 DEF PostureNext

LEMMA WantedInvariant ==
  ASSUME "torn" \notin WriteOutcomes
  PROVE  PostureSpec => []WantedInv
<1>1. PostureInit => WantedInv
  <2>1. Torn # {} /\ Torn # NoHalt
    BY PostureAssumption DEF NoHalt, Halts
  <2> QED
    BY <2>1 DEF PostureInit, WantedInv
<1>2. PostureTypeOK /\ WantedInv /\ [PostureNext]_postureVars => WantedInv'
  BY WantedInvStep
<1> QED
  BY <1>1, <1>2, PostureTypeCorrect, PTL DEF PostureSpec

\* As long as no file is left half written, an answered kill stays in force
\* until it is cleared (commandCentreRuntime setKillSwitch and boot).
THEOREM KillStandsWhole ==
  ASSUME "torn" \notin WriteOutcomes
  PROVE  PostureSpec => []KillStands
<1>1. WantedInv => KillStands
  BY DEF WantedInv, KillStands
<1> QED
  BY <1>1, WantedInvariant, PTL

\* Likewise an answered takeover (riskHaltStore, safetySidecar gate 3).
THEOREM TakeoverStandsWhole ==
  ASSUME "torn" \notin WriteOutcomes
  PROVE  PostureSpec => []TakeoverStands
<1>1. WantedInv => TakeoverStands
  BY DEF WantedInv, TakeoverStands, TakeoverGate
<1> QED
  BY <1>1, WantedInvariant, PTL
=============================================================================
