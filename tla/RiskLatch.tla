----------------------------- MODULE RiskLatch -----------------------------
(***************************************************************************)
(* The aggregate risk store (riskState.mjs) and the drawdown gates 17 and  *)
(* 18 (riskGates.mjs).  Every click and every overview request refreshes   *)
(* the aggregate from the venues' equity files: the sum of the covered     *)
(* venues, its running peak, and the drawdown latch.  A click that reaches *)
(* gate 18 with a drawdown at the hard stop sets the latch; a refresh that *)
(* sees the peak again releases it.  The refresh and the gates of a click  *)
(* run without I/O between them, so a click is one step.                   *)
(*                                                                         *)
(* Left out: the day loss (gate 16), which EquityBaseline and OrderRail    *)
(* model, and the heat (gate 19).  A gate other than 17 and 18 that denies *)
(* leaves the refresh alone.                                               *)
(***************************************************************************)
EXTENDS Integers, FiniteSets

CONSTANTS
  Spots,          \* exchanges with a record in ccxt-equity.json
  Perps,          \* the perps wallet, with ccxt-perps-risk.json
  Usd,            \* equities a venue may have
  SumOf(_, _),    \* the sum of f[v] for v in S, rounded to cents
  StepPct,        \* PICC_RISK_MDD_STEP_TRIP_PCT
  HardPct,        \* PICC_RISK_MDD_HARD_STOP_PCT
  Exposures,      \* exposureUsd of an open
  StepCeiling,    \* the per-position cap times PICC_RISK_MDD_SIZE_STEP_FACTOR
  WriteOutcomes,  \* what writeFileSync may do: "ok", "kept" or "torn"
  NoStore,        \* nothing observed yet, or no file
  Torn            \* a file that was cut off

Venues   == Spots \cup {Perps}
Absent   == -1    \* no record of the exchange
Unusable == -2    \* stale, unreadable or invalid

Aggregates == [usd : Nat, peak : Nat, halted : BOOLEAN, venues : SUBSET Venues]

ASSUME RiskAssumption ==
  /\ IsFiniteSet(Spots) /\ Perps \notin Spots
  /\ Usd \subseteq Nat \ {0}
  /\ \A f \in [Venues -> Usd \cup {Absent, Unusable}], S \in SUBSET Venues :
       (\A v \in S : f[v] \in Usd) => SumOf(f, S) \in Nat
  /\ StepPct \in Nat /\ HardPct \in Nat
  /\ "ok" \in WriteOutcomes /\ WriteOutcomes \subseteq {"ok", "kept", "torn"}
  /\ NoStore \notin Aggregates /\ Torn \notin Aggregates /\ NoStore # Torn

VARIABLES
  seen,     \* the venues' own records, as the refresh reads them
  store,    \* the aggregate, in memory
  file,     \* ccxt-risk-aggregate.json
  healthy,  \* aggregateStoreHealth.ok, decided at boot
  trip,     \* history: the peak of the last trip nothing has recovered from
  kept,     \* history: that trip's write returned
  high      \* history: the highest total whose write returned

vars == <<seen, store, file, healthy, trip, kept, high>>

Init ==
  /\ seen \in [Venues -> Usd \cup {Absent}]
  /\ store = NoStore /\ file = NoStore /\ healthy = TRUE
  /\ trip = 0 /\ kept = FALSE /\ high = 0

-----------------------------------------------------------------------------
\* The venues' files change under the aggregate: an observation is stored, a
\* record grows stale or unreadable, an equity store that booted from an
\* unreadable file is written back without an exchange.
VenueObserved(v, usd) ==
  /\ seen' = [seen EXCEPT ![v] = usd]
  /\ UNCHANGED <<store, file, healthy, trip, kept, high>>

-----------------------------------------------------------------------------
Present == {v \in Venues : seen[v] # Absent}
Covered == IF store = NoStore THEN {} ELSE store.venues

\* A slip: an exchange that was part of the last aggregate may be missing.
FedByFile ==
  /\ seen[Perps] \in Usd
  /\ Present \cap Spots # {}
  /\ \A v \in Present : seen[v] \in Usd

\* readSpotVenues and readPerpsVenue: every present or covered venue must be
\* observable, the perps wallet and one exchange at least.
Fed ==
  /\ seen[Perps] \in Usd
  /\ Present \cap Spots # {}
  /\ Covered \subseteq Present
  /\ \A v \in Present : seen[v] \in Usd

Total == SumOf(seen, Present)

LastPeak == IF store = NoStore THEN 0 ELSE store.peak
WasHalted == store # NoStore /\ store.halted

\* A slip: the latch is released as soon as the drawdown is out of the zone.
AggregateReleasedEarly ==
  LET peak == IF Total > LastPeak THEN Total ELSE LastPeak
  IN  [usd |-> Total, peak |-> peak,
       halted |-> WasHalted /\ (peak - Total) * 100 >= HardPct * peak,
       venues |-> Present]

\* A slip: the peak is taken from the last total.
AggregateLastTotal ==
  LET last == IF store = NoStore THEN 0 ELSE store.usd
      peak == IF Total > last THEN Total ELSE last
  IN  [usd |-> Total, peak |-> peak, halted |-> WasHalted /\ Total < peak,
       venues |-> Present]

\* refreshAggregateRisk on observable venues: the one-way peak, and a latch
\* that stands below it.
Aggregate ==
  LET peak == IF Total > LastPeak THEN Total ELSE LastPeak
  IN  [usd |-> Total, peak |-> peak, halted |-> WasHalted /\ Total < peak,
       venues |-> Present]

\* persist: `w` is what the write does with the store `s`.
Persisted(s, w) == CASE w = "ok" -> s [] w = "kept" -> file [] w = "torn" -> Torn

Recovered == IF Total >= trip THEN 0 ELSE trip
NewHigh   == IF Total > high THEN Total ELSE high

\* A refresh, by a click another gate denies or by the overview.  On a store
\* that did not boot, or venues that are not observable, it changes nothing.
Refresh(w) ==
  /\ healthy /\ Fed
  /\ store' = Aggregate
  /\ file' = Persisted(Aggregate, w)
  /\ trip' = Recovered
  /\ kept' = kept
  /\ high' = IF w = "ok" THEN NewHigh ELSE high
  /\ UNCHANGED <<seen, healthy>>

-----------------------------------------------------------------------------
\* drawdownFromPeakPct in hundredths of a percent, rounded half up.
Drawdown(a) == (20000 * (a.peak - a.usd) + a.peak) \div (2 * a.peak)

AtHardStop(a) == Drawdown(a) >= 100 * HardPct
InStepZone(a) == Drawdown(a) >= 100 * StepPct /\ ~AtHardStop(a)

\* Gate 18 on a click whose refresh was written: haltForDrawdown sets the
\* latch and writes again; an error of that write is swallowed.
Halts(w) ==
  /\ healthy /\ Fed /\ AtHardStop(Aggregate) /\ ~Aggregate.halted
  /\ store' = [Aggregate EXCEPT !.halted = TRUE]
  /\ file' = CASE w = "ok" -> store' [] w = "kept" -> Aggregate [] w = "torn" -> Torn
  /\ trip' = Aggregate.peak /\ kept' = (w = "ok")
  /\ high' = NewHigh
  /\ UNCHANGED <<seen, healthy>>

\* An open passes gates 17 and 18.
OpenPasses(exposure) ==
  /\ ~Aggregate.halted /\ ~AtHardStop(Aggregate)
  /\ InStepZone(Aggregate) => exposure <= StepCeiling

OpenAdmitted(exposure) == Refresh("ok") /\ OpenPasses(exposure)

-----------------------------------------------------------------------------
\* A slip: a file that does not parse is taken for the store.
RestartBlind ==
  /\ healthy' = TRUE /\ store' = file
  /\ UNCHANGED <<seen, file, trip, kept, high>>

\* The process dies and a new one boots; a trip whose write failed is gone.
Restart ==
  /\ healthy' = (file # Torn)
  /\ store' = IF file = Torn THEN NoStore ELSE file
  /\ trip' = IF kept THEN trip ELSE 0
  /\ UNCHANGED <<seen, file, kept, high>>

Next ==
  \/ \E v \in Venues, usd \in Usd \cup {Unusable} : VenueObserved(v, usd)
  \/ \E s \in Spots : VenueObserved(s, Absent)
  \/ \E w \in WriteOutcomes : Refresh(w) \/ Halts(w)
  \/ \E exposure \in Exposures : OpenAdmitted(exposure)
  \/ Restart

Spec == Init /\ [][Next]_vars

-----------------------------------------------------------------------------
\* The stores, with the peak at or above the equity.
RiskTypeOK ==
  /\ seen \in [Venues -> Usd \cup {Absent, Unusable}]
  /\ store \in Aggregates \cup {NoStore}
  /\ file \in Aggregates \cup {NoStore, Torn}
  /\ healthy \in BOOLEAN /\ kept \in BOOLEAN
  /\ trip \in Nat /\ high \in Nat

\* Once a click was denied at the hard stop, no open is let through until the
\* equity has been back at the peak it fell from, across restarts and days:
\* "it clears only when aggregate equity >= runningPeakUsd" (WS2 spec R2.5).
LatchStands == [][\A e \in Exposures : OpenAdmitted(e) => trip' = 0]_vars

\* The peak that drawdowns are measured from is never below a total that was
\* written, whatever grew stale or restarted: "a one-way ratchet" (R2.2).
PeakStands ==
  /\ store # NoStore => store.peak >= high
  /\ file \notin {NoStore, Torn} => file.peak >= high

\* An exchange that the process has counted is counted by every later total:
\* a vanished record never passes for a loss, a recovery or a smaller book.
NeverPartial ==
  [][(store # NoStore /\ store' # store /\ ~Restart) => Covered \subseteq store'.venues]_vars
=============================================================================
