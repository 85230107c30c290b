-------------------------- MODULE RiskLatchProofs --------------------------
(***************************************************************************)
(* The aggregate risk store, for every set of venues, every equity and     *)
(* every threshold: the peak never sinks below a written total, and a      *)
(* tripped latch stands until the peak it fell from is seen again.         *)
(***************************************************************************)
EXTENDS RiskLatch, TLAPS

-----------------------------------------------------------------------------
(* Types.                                                                     *)

\* On venues that are observable the total is a number.
LEMMA TotalIs == RiskTypeOK /\ Fed => Total \in Nat
<1> SUFFICES ASSUME RiskTypeOK, Fed PROVE Total \in Nat
  OBVIOUS
<1>1. seen \in [Venues -> Usd \cup {Absent, Unusable}] /\ Present \in SUBSET Venues
  BY DEF RiskTypeOK, Present
<1>2. \A v \in Present : seen[v] \in Usd
  BY DEF Fed
<1> QED
  BY <1>1, <1>2, RiskAssumption DEF Total

\* What a refresh puts in the store.
LEMMA AggregateIs ==
  ASSUME RiskTypeOK, Fed
  PROVE  /\ Aggregate \in Aggregates
         /\ Aggregate.peak = IF Total > LastPeak THEN Total ELSE LastPeak
         /\ Aggregate.halted = (WasHalted /\ Total < Aggregate.peak)
         /\ Aggregate.venues = Present
         /\ [Aggregate EXCEPT !.halted = TRUE] \in Aggregates
         /\ [Aggregate EXCEPT !.halted = TRUE].peak = Aggregate.peak
         /\ [Aggregate EXCEPT !.halted = TRUE].halted = TRUE
         /\ [Aggregate EXCEPT !.halted = TRUE].venues = Present
<1>1. Total \in Nat
  BY TotalIs
<1>2. LastPeak \in Nat
  BY DEF LastPeak, RiskTypeOK, Aggregates
<1>3. Present \in SUBSET Venues
  BY DEF Present
<1>4. WasHalted \in BOOLEAN
  BY DEF WasHalted, RiskTypeOK, Aggregates
<1> QED
  BY <1>1, <1>2, <1>3, <1>4 DEF Aggregate, Aggregates

\* The file after a write of s.
LEMMA PersistedIs ==
  ASSUME NEW s, NEW w \in WriteOutcomes
  PROVE  /\ Persisted(s, w) \in {s, file, Torn}
         /\ w = "ok" => Persisted(s, w) = s
         /\ w # "ok" => Persisted(s, w) \in {file, Torn}
  BY RiskAssumption DEF Persisted

\* What a trip leaves in the store and in the file.
LEMMA HaltsIs ==
  ASSUME RiskTypeOK, NEW w \in WriteOutcomes, Halts(w)
  PROVE  /\ store' \in Aggregates /\ store'.halted /\ store'.peak = Aggregate.peak
         /\ store'.venues = Present
         /\ file' \in {store', Aggregate, Torn}
         /\ w = "ok" => file' = store'
<1>1. store' = [Aggregate EXCEPT !.halted = TRUE] /\ Fed
  BY DEF Halts
<1>2. file' = CASE w = "ok" -> store' [] w = "kept" -> Aggregate [] w = "torn" -> Torn
  BY DEF Halts
<1> QED
  BY <1>1, <1>2, AggregateIs, RiskAssumption

LEMMA RiskTypeInit == Init => RiskTypeOK
<1> SUFFICES ASSUME Init PROVE RiskTypeOK
  OBVIOUS
<1>1. seen \in [Venues -> Usd \cup {Absent, Unusable}]
  BY DEF Init
<1> QED
  BY <1>1 DEF Init, RiskTypeOK

LEMMA RiskTypeStep == RiskTypeOK /\ [Next]_vars => RiskTypeOK'
<1> SUFFICES ASSUME RiskTypeOK, [Next]_vars PROVE RiskTypeOK'
  OBVIOUS
<1>1. ASSUME NEW v \in Venues, NEW usd \in Usd \cup {Absent, Unusable}, VenueObserved(v, usd)
      PROVE  RiskTypeOK'
  BY <1>1 DEF VenueObserved, RiskTypeOK
<1>2. ASSUME NEW w \in WriteOutcomes, Refresh(w) PROVE RiskTypeOK'
  <2>1. store' \in Aggregates /\ file' \in {store', file, Torn}
    BY <1>2, AggregateIs, PersistedIs DEF Refresh
  <2>2. trip' \in Nat /\ high' \in Nat
    BY <1>2, TotalIs DEF Refresh, Recovered, NewHigh, RiskTypeOK
  <2> QED
    BY <1>2, <2>1, <2>2 DEF Refresh, RiskTypeOK
<1>3. ASSUME NEW w \in WriteOutcomes, Halts(w) PROVE RiskTypeOK'
  <2>1. /\ store' \in Aggregates /\ file' \in {store', Aggregate, Torn}
        /\ Aggregate \in Aggregates /\ Aggregate.peak \in Nat
    BY <1>3, HaltsIs, AggregateIs DEF Halts, Aggregates
  <2>2. Total \in Nat
    BY <1>3, TotalIs DEF Halts
  <2> QED
    BY <1>3, <2>1, <2>2 DEF Halts, NewHigh, RiskTypeOK
<1>4. CASE Restart
  BY <1>4 DEF Restart, RiskTypeOK
<1>5. CASE UNCHANGED vars
  BY <1>5 DEF vars, RiskTypeOK
<1> QED
  BY <1>1, <1>2, <1>3, <1>4, <1>5, RiskAssumption DEF Next, OpenAdmitted, Venues


\* The stores keep their types.
THEOREM RiskTypeCorrect == Spec => []RiskTypeOK
  BY RiskTypeInit, RiskTypeStep, PTL DEF Spec

-----------------------------------------------------------------------------
(* The peak.  A process that runs without a store has written nothing yet.    *)
PeakInv ==
  /\ PeakStands
  /\ healthy /\ store = NoStore => high = 0
  /\ file = NoStore => high = 0

LEMMA PeakStep == RiskTypeOK /\ PeakInv /\ [Next]_vars => PeakInv'
<1> SUFFICES ASSUME RiskTypeOK, PeakInv, [Next]_vars PROVE PeakInv'
  OBVIOUS
<1>1. ASSUME NEW v \in Venues, NEW usd, VenueObserved(v, usd) PROVE PeakInv'
  BY <1>1 DEF VenueObserved, PeakInv, PeakStands
<1>2. ASSUME healthy, Fed
      PROVE  /\ Aggregate.peak \in Nat /\ NewHigh \in Nat
             /\ Aggregate.peak >= high /\ Aggregate.peak >= NewHigh
  <2>1. Total \in Nat /\ LastPeak \in Nat /\ high \in Nat
    BY <1>2, TotalIs DEF RiskTypeOK, LastPeak, Aggregates
  <2>2. LastPeak >= high
    <3>1. CASE store = NoStore
      BY <1>2, <2>1, <3>1 DEF PeakInv, LastPeak
    <3>2. CASE store # NoStore
      BY <3>2 DEF PeakInv, PeakStands, LastPeak
    <3> QED
      BY <3>1, <3>2
  <2>3. Aggregate.peak = IF Total > LastPeak THEN Total ELSE LastPeak
    BY <1>2, AggregateIs
  <2> QED
    BY <2>1, <2>2, <2>3 DEF NewHigh
<1>3. ASSUME NEW w \in WriteOutcomes, Refresh(w) PROVE PeakInv'
  <2>1. /\ Aggregate.peak \in Nat /\ Aggregate.peak >= high /\ Aggregate.peak >= NewHigh
        /\ Aggregate \in Aggregates /\ NewHigh \in Nat
    BY <1>2, <1>3, AggregateIs DEF Refresh
  <2>2. /\ store' = Aggregate /\ file' = Persisted(Aggregate, w)
        /\ high' = IF w = "ok" THEN NewHigh ELSE high
    BY <1>3 DEF Refresh
  <2>3. w = "ok" => file' = Aggregate
    BY <2>2, PersistedIs
  <2>4. w # "ok" => file' \in {file, Torn} /\ high' = high
    BY <2>2, PersistedIs
  <2>5. PeakStands'
    BY <2>1, <2>2, <2>3, <2>4 DEF PeakInv, PeakStands
  <2>6. store' # NoStore /\ Torn # NoStore
    BY <2>1, <2>2, RiskAssumption
  <2>7. file' = NoStore => high' = 0
    BY <2>2, <2>3, <2>4, <2>6 DEF PeakInv
  <2> QED
    BY <2>5, <2>6, <2>7 DEF PeakInv
<1>4. ASSUME NEW w \in WriteOutcomes, Halts(w) PROVE PeakInv'
  <2>1. /\ Aggregate.peak \in Nat /\ Aggregate.peak >= NewHigh /\ Aggregate \in Aggregates
        /\ high' = NewHigh
    BY <1>2, <1>4, AggregateIs DEF Halts
  <2>2. /\ store' \in Aggregates /\ store'.peak = Aggregate.peak
        /\ file' \in {store', Aggregate, Torn}
    BY <1>4, HaltsIs
  <2>3. store' # NoStore /\ file' # NoStore
    BY <2>1, <2>2, RiskAssumption
  <2>4. PeakStands'
    BY <2>1, <2>2 DEF PeakStands
  <2> QED
    BY <2>3, <2>4 DEF PeakInv
<1>5. CASE Restart
  <2>1. /\ file' = file /\ high' = high /\ healthy' = (file # Torn)
        /\ store' = IF file = Torn THEN NoStore ELSE file
    BY <1>5 DEF Restart
  <2> QED
    BY <2>1 DEF PeakInv, PeakStands
<1>6. CASE UNCHANGED vars
  BY <1>6 DEF vars, PeakInv, PeakStands
<1> QED
  BY <1>1, <1>3, <1>4, <1>5, <1>6, RiskAssumption DEF Next, OpenAdmitted, Venues

\* The peak is never below a total that was written.
THEOREM RiskPeakStands == Spec => []PeakStands
<1>1. Init => PeakInv
  BY DEF Init, PeakInv, PeakStands
<1>2. PeakInv => PeakStands
  BY DEF PeakInv
<1> QED
  BY <1>1, <1>2, PeakStep, RiskTypeCorrect, PTL DEF Spec

-----------------------------------------------------------------------------
(* The latch.  While a trip stands, the store is halted with a peak at or     *)
(* above it; a trip that was written stands in the file as well.              *)
Latched(s) == s.halted /\ s.peak >= trip

LatchInv ==
  /\ trip # 0 /\ healthy => store # NoStore /\ Latched(store)
  /\ trip # 0 /\ kept => file = Torn \/ (file # NoStore /\ Latched(file))

\* A refresh releases the latch only together with the trip.
LEMMA RefreshLatch ==
  ASSUME RiskTypeOK, LatchInv, healthy, Fed, Recovered # 0
  PROVE  Aggregate.halted /\ Aggregate.peak >= Recovered /\ Recovered = trip /\ trip # 0
<1>1. Total \in Nat /\ trip \in Nat
  BY TotalIs DEF RiskTypeOK
<1>2. Recovered = trip /\ trip # 0 /\ Total < trip
  BY <1>1 DEF Recovered
<1>3. store # NoStore /\ store.halted /\ store.peak >= trip /\ store.peak \in Nat
  BY <1>2 DEF LatchInv, Latched, RiskTypeOK, Aggregates
<1>4. WasHalted /\ LastPeak = store.peak
  BY <1>3 DEF WasHalted, LastPeak
<1>5. Aggregate.peak = LastPeak
  BY <1>1, <1>2, <1>3, <1>4, AggregateIs
<1>6. Total < Aggregate.peak
  BY <1>1, <1>2, <1>3, <1>4, <1>5
<1>7. Aggregate.halted = (WasHalted /\ Total < Aggregate.peak)
  BY AggregateIs
<1> QED
  BY <1>2, <1>3, <1>4, <1>5, <1>6, <1>7

LEMMA LatchStep == RiskTypeOK /\ LatchInv /\ [Next]_vars => LatchInv'
<1> SUFFICES ASSUME RiskTypeOK, LatchInv, [Next]_vars PROVE LatchInv'
  OBVIOUS
<1>1. ASSUME NEW v \in Venues, NEW usd, VenueObserved(v, usd) PROVE LatchInv'
  BY <1>1 DEF VenueObserved, LatchInv, Latched
<1>2. ASSUME NEW w \in WriteOutcomes, Refresh(w) PROVE LatchInv'
  <2>1. /\ healthy /\ Fed /\ trip' = Recovered /\ kept' = kept
        /\ store' = Aggregate /\ file' = Persisted(Aggregate, w)
    BY <1>2 DEF Refresh
  <2>2. Aggregate \in Aggregates
    BY <2>1, AggregateIs
  <2>3. trip' # 0 => Latched(store)' /\ trip' = trip
    BY <2>1, RefreshLatch DEF Latched
  <2>4. file' \in {store', file, Torn}
    BY <2>1, PersistedIs
  <2>5. store' # NoStore
    BY <2>1, <2>2, RiskAssumption
  <2> QED
    BY <2>1, <2>3, <2>4, <2>5 DEF LatchInv, Latched
<1>3. ASSUME NEW w \in WriteOutcomes, Halts(w) PROVE LatchInv'
  <2>1. /\ store' \in Aggregates /\ store'.halted /\ store'.peak = Aggregate.peak
        /\ w = "ok" => file' = store'
    BY <1>3, HaltsIs
  <2>2. trip' = Aggregate.peak /\ kept' = (w = "ok") /\ healthy' = healthy
    BY <1>3 DEF Halts
  <2>3. store' # NoStore /\ store'.peak \in Nat
    BY <2>1, RiskAssumption DEF Aggregates
  <2>4. store'.peak >= trip'
    BY <2>1, <2>2, <2>3
  <2> QED
    BY <2>1, <2>2, <2>3, <2>4 DEF LatchInv, Latched
<1>4. CASE Restart
  <2>1. /\ file' = file /\ kept' = kept /\ trip' = (IF kept THEN trip ELSE 0)
        /\ healthy' = (file # Torn)
        /\ store' = IF file = Torn THEN NoStore ELSE file
    BY <1>4 DEF Restart
  <2> QED
    BY <2>1 DEF LatchInv, Latched
<1>5. CASE UNCHANGED vars
  BY <1>5 DEF vars, LatchInv, Latched
<1> QED
  BY <1>1, <1>2, <1>3, <1>4, <1>5, RiskAssumption DEF Next, OpenAdmitted, Venues

\* Once a click was denied at the hard stop no open passes before recovery.
THEOREM RiskLatchStands == Spec => LatchStands
<1>1. Init => LatchInv
  BY DEF Init, LatchInv
<1>2. RiskTypeOK /\ LatchInv /\ [Next]_vars =>
        [\A e \in Exposures : OpenAdmitted(e) => trip' = 0]_vars
  <2> SUFFICES ASSUME RiskTypeOK, LatchInv, NEW e \in Exposures, OpenAdmitted(e), trip' # 0
               PROVE  FALSE
    OBVIOUS
  <2>1. healthy /\ Fed /\ trip' = Recovered /\ ~Aggregate.halted
    BY DEF OpenAdmitted, OpenPasses, Refresh
  <2> QED
    BY <2>1, RefreshLatch
<1> QED
  BY <1>1, <1>2, LatchStep, RiskTypeCorrect, PTL DEF Spec, LatchStands

\* No total leaves out an exchange the process has counted.
THEOREM RiskNeverPartial == Spec => NeverPartial
<1>1. RiskTypeOK /\ [Next]_vars =>
        [(store # NoStore /\ store' # store /\ ~Restart) => Covered \subseteq store'.venues]_vars
  <2> SUFFICES ASSUME RiskTypeOK, Next, store # NoStore, store' # store, ~Restart
               PROVE  Covered \subseteq store'.venues
    OBVIOUS
  <2>1. ASSUME NEW w \in WriteOutcomes, Refresh(w) PROVE Covered \subseteq store'.venues
    <3>1. store' = Aggregate /\ Fed
      BY <2>1 DEF Refresh
    <3> QED
      BY <3>1, AggregateIs DEF Fed
  <2>2. ASSUME NEW w \in WriteOutcomes, Halts(w) PROVE Covered \subseteq store'.venues
    BY <2>2, HaltsIs DEF Halts, Fed
  <2> QED
    BY <2>1, <2>2, RiskAssumption DEF Next, OpenAdmitted, VenueObserved
<1> QED
  BY <1>1, RiskTypeCorrect, PTL DEF Spec, NeverPartial
=============================================================================
