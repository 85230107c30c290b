-------------------------- MODULE VenueLifecycle ---------------------------
(***************************************************************************)
(* The CCXT order lifecycle (venues/ccxtVenueLifecycle.mjs) behind its     *)
(* three rails (venues/ccxtLifecycleRails.mjs): walks of runVenueLifecycle *)
(* that overlap on one symbol per venue, share the book of observed fills  *)
(* and lose it when the process dies.  Between two answers of a venue a    *)
(* walk meets no I/O, so it proposes a leg, passes or fails its rails and  *)
(* sends the request in one step.                                          *)
(*                                                                         *)
(* A walk resubmits the payload of the anchor it has just written, so its  *)
(* consent rail always passes and the anchors are not state here; what a   *)
(* close was consented over is the walk's `position`.  Prices are left     *)
(* out: a fill has a venue-reported average or it has none.                *)
(***************************************************************************)
EXTENDS Integers, FiniteSets, FiniteSetsExt

CONSTANTS
  Venues,       \* lifecycle venues, one symbol each
  Walks,        \* calls of runVenueLifecycle
  Sides,        \* sides a caller may ask for
  Sizes,        \* amounts a caller may ask for
  LegSets,      \* the `legs` a caller may ask for
  StrikeLimit,  \* THREE_STRIKE_LIMIT
  MaxStrikes,   \* bound on recorded strikes
  MaxDay        \* bound on the days that pass

ASSUME LifecycleAssumption ==
  /\ IsFiniteSet(Walks)
  /\ Sides \subseteq {"buy", "sell"} /\ Sizes \subseteq Nat \ {0}
  /\ LegSets \subseteq SUBSET {"place", "amend", "cancel", "close"}
  /\ StrikeLimit \in Nat \ {0} /\ MaxStrikes \in Nat /\ MaxDay \in Nat

VARIABLES
  unlocked,   \* the ceremony store unlocks ccxt-crypto
  enabled,    \* PICC_CCXT_VENUE_ENABLED_*
  strikes,    \* recorded strikes against the key
  lastStrike, \* the day of the most recent strike
  day,        \* the clock, in lengths of the key lock
  book,       \* `positions`: the signed size per venue
  walk,       \* the walks
  order,      \* the venue's record of each walk's entry order
  exit        \* the venue's record of each walk's exit order

vars == <<unlocked, enabled, strikes, lastStrike, day, book, walk, order, exit>>
gates == <<unlocked, enabled, strikes, lastStrike, day>>

Legs    == <<"place", "amend", "cancel", "close">>
Adding  == {"place", "amend"}
Resting(size) == [size |-> size, filled |-> 0, open |-> TRUE]
NoOrder == [size |-> 0, filled |-> 0, open |-> FALSE]
NoExit  == [side |-> "none", amount |-> 0]
Done    == {"stopped", "completed", "rejected", "dead"}
Calling == {"place", "verify", "amend", "cancel", "close"}

Idle(v) == [pc |-> "idle", venue |-> v, side |-> "buy", size |-> 0, legs |-> {}, now |-> 0,
            fired |-> FALSE, placed |-> FALSE, position |-> 0, exitPriced |-> FALSE,
            sent |-> NoExit]

Init ==
  /\ unlocked \in BOOLEAN /\ enabled \in [Venues -> BOOLEAN]
  /\ strikes = 0 /\ lastStrike = 0 /\ day = 0
  /\ book = [v \in Venues |-> 0]
  /\ walk \in [Walks -> {Idle(v) : v \in Venues}]
  /\ order = [w \in Walks |-> NoOrder]
  /\ exit = [w \in Walks |-> NoExit]

-----------------------------------------------------------------------------
Size(p) == IF p < 0 THEN -p ELSE p
Closing(p) == IF p > 0 THEN "sell" ELSE "buy"

\* foldFillIntoPositions: an opposite fill reduces to zero at most.
Folded(p, side, filled) ==
  CASE p > 0 /\ side = "sell" -> IF filled > p THEN 0 ELSE p - filled
    [] p < 0 /\ side = "buy"  -> IF filled > -p THEN 0 ELSE p + filled
    [] OTHER -> IF side = "buy" THEN p + filled ELSE p - filled

\* A slip: the lock starts with the strike after the limit.
LockedLate(k) == strikes > StrikeLimit /\ k.now <= lastStrike

\* readStrike at the walk's `now`: the lock runs from the latest strike.
Locked(k) == strikes >= StrikeLimit /\ k.now <= lastStrike

\* The rails of one leg: ceremony, and risk on what the caller observed when
\* the walk began.
RailsPass(k, leg) ==
  /\ unlocked /\ enabled[k.venue]
  /\ ~Locked(k)
  /\ leg \in Adding => ~k.fired

\* A leg's own refusals: an amend needs an order; a close needs a position when
\* the fill was read, a position now and an exit price.
Ready(k, leg, held) ==
  /\ leg = "amend" => k.placed
  /\ leg = "close" => k.position # 0 /\ held # 0 /\ k.exitPriced

\* A slip: a close is sent without the size of the position.
OnwardUnsized(k, n, held) ==
  LET left == {i \in (n + 1)..4 : Legs[i] \in k.legs}
      leg  == Legs[Min(left)]
  IN  CASE left = {} ->
             [k EXCEPT !.pc = IF n = 4 /\ k.placed THEN "completed" ELSE "stopped"]
        [] left # {} /\ Ready(k, leg, held) /\ RailsPass(k, leg) -> [k EXCEPT !.pc = leg]
        [] OTHER -> [k EXCEPT !.pc = "stopped"]

\* The walk after the leg number `n`, with the book at `held`: the next leg it
\* was asked for sends its request or ends it.
Onward(k, n, held) ==
  LET left == {i \in (n + 1)..4 : Legs[i] \in k.legs}
      leg  == Legs[Min(left)]
  IN  CASE left = {} ->
             [k EXCEPT !.pc = IF n = 4 /\ k.placed THEN "completed" ELSE "stopped"]
        [] left # {} /\ Ready(k, leg, held) /\ RailsPass(k, leg) ->
             [k EXCEPT !.pc = leg,
                       !.sent = IF leg # "close" THEN NoExit
                                ELSE [side |-> Closing(held), amount |-> Size(held)]]
        [] OTHER -> [k EXCEPT !.pc = "stopped"]

\* A walk is called for; `fired` is what its caller observed of the daily
\* drawdown.
Start(w, side, size, legs, fired) ==
  /\ walk[w].pc = "idle"
  /\ walk' = [walk EXCEPT ![w] =
       Onward([@ EXCEPT !.side = side, !.size = size, !.legs = legs,
                        !.now = day, !.fired = fired], 0, book[@.venue])]
  /\ UNCHANGED <<gates, book, order, exit>>

-----------------------------------------------------------------------------
Ended(w, pc) == walk' = [walk EXCEPT ![w].pc = pc]
Goes(w, k, n) == walk' = [walk EXCEPT ![w] = Onward(k, n, book[k.venue])]

\* createOrder of the entry is answered with an order.
PlaceAccepted(w) ==
  /\ walk[w].pc = "place"
  /\ order' = [order EXCEPT ![w] = Resting(walk[w].size)]
  /\ walk' = [walk EXCEPT ![w].pc = "verify", ![w].placed = TRUE]
  /\ UNCHANGED <<gates, book, exit>>

\* It is refused, or taken by the venue and answered with an error.
PlaceFailed(w, taken) ==
  /\ walk[w].pc = "place"
  /\ order' = IF taken THEN [order EXCEPT ![w] = Resting(walk[w].size)] ELSE order
  /\ Ended(w, "stopped")
  /\ UNCHANGED <<gates, book, exit>>

\* A slip: the amount of the order is folded, not what the venue filled.
ReadFillsOrdered(w, priced) == IF priced THEN order[w].size ELSE 0

\* What one read of the order yields for the book.
ReadFills(w, priced) == IF priced THEN order[w].filled ELSE 0

\* verifyFill is answered: with the order, with one that carries no average, or
\* not at all.  The fill is folded, the position looked up, the next leg begun.
\* The exit is priced by the caller or from the fill's average.
Verified(w, priced, exitPriced) ==
  LET k    == walk[w]
      held == Folded(book[k.venue], k.side, ReadFills(w, priced))
  IN  /\ k.pc = "verify" /\ (priced => exitPriced)
      /\ book' = [book EXCEPT ![k.venue] = held]
      /\ walk' = [walk EXCEPT ![w] =
           Onward([k EXCEPT !.position = held, !.exitPriced = exitPriced], 1, held)]
      /\ UNCHANGED <<gates, order, exit>>

\* editOrder is answered; the walk changes the price only.
Amended(w) ==
  /\ walk[w].pc = "amend" /\ order[w].open
  /\ Goes(w, walk[w], 2)
  /\ UNCHANGED <<gates, book, order, exit>>

\* cancelOrder is answered; without an entry of its own no open order matches.
Cancelled(w) ==
  /\ walk[w].pc = "cancel" /\ order[w].open
  /\ order' = [order EXCEPT ![w].open = FALSE]
  /\ Goes(w, walk[w], 3)
  /\ UNCHANGED <<gates, book, exit>>

\* An amend or a cancel fails; a cancel without credentials throws through the
\* walk.
LegFailed(w) ==
  /\ walk[w].pc \in {"amend", "cancel"}
  /\ \/ Ended(w, "stopped")
     \/ walk[w].pc = "cancel" /\ Ended(w, "rejected")
  /\ UNCHANGED <<gates, book, order, exit>>

\* The exit order is accepted.  The walk folds the position it read after its
\* entry, at the exit price it asked for.
CloseAccepted(w) ==
  LET k == walk[w]
  IN  /\ k.pc = "close"
      /\ exit' = [exit EXCEPT ![w] = k.sent]
      /\ book' = [book EXCEPT ![k.venue] = Folded(@, Closing(k.position), Size(k.position))]
      /\ Goes(w, k, 4)
      /\ UNCHANGED <<gates, order>>

\* A slip: the walk goes on when the close has failed.
CloseFailedUnseen(w, taken) ==
  /\ walk[w].pc = "close"
  /\ exit' = IF taken THEN [exit EXCEPT ![w] = walk[w].sent] ELSE exit
  /\ Goes(w, walk[w], 4)
  /\ UNCHANGED <<gates, book, order>>

\* It is refused, or taken by the venue and answered with an error.
CloseFailed(w, taken) ==
  /\ walk[w].pc = "close"
  /\ exit' = IF taken THEN [exit EXCEPT ![w] = walk[w].sent] ELSE exit
  /\ Ended(w, "stopped")
  /\ UNCHANGED <<gates, book, order>>

\* A slip: an amend or a cancel that fails is never answered.
AnswersOrHangs(w) ==
  \/ PlaceAccepted(w) \/ \E taken \in BOOLEAN : PlaceFailed(w, taken) \/ CloseFailed(w, taken)
  \/ \E priced, exitPriced \in BOOLEAN : Verified(w, priced, exitPriced)
  \/ Amended(w) \/ Cancelled(w) \/ CloseAccepted(w)

\* The venue answers the request the walk is waiting for.
Answers(w) ==
  \/ PlaceAccepted(w) \/ \E taken \in BOOLEAN : PlaceFailed(w, taken) \/ CloseFailed(w, taken)
  \/ \E priced, exitPriced \in BOOLEAN : Verified(w, priced, exitPriced)
  \/ Amended(w) \/ Cancelled(w) \/ LegFailed(w) \/ CloseAccepted(w)

-----------------------------------------------------------------------------
\* The venue fills part of an open entry.
Fills(w) ==
  /\ order[w].open /\ order[w].filled < order[w].size
  /\ order' = [order EXCEPT ![w].filled = @ + 1,
                            ![w].open = order[w].filled + 1 < order[w].size]
  /\ UNCHANGED <<gates, book, walk, exit>>

\* The ceremony unlocks the class, a strike is recorded, a day passes.
Unlock == ~unlocked /\ unlocked' = TRUE /\ UNCHANGED <<enabled, strikes, lastStrike, day>>

Strike ==
  /\ strikes < MaxStrikes
  /\ strikes' = strikes + 1 /\ lastStrike' = day
  /\ UNCHANGED <<unlocked, enabled, day>>

NextDay == day < MaxDay /\ day' = day + 1 /\ UNCHANGED <<unlocked, enabled, strikes, lastStrike>>

GatesMove == (Unlock \/ Strike \/ NextDay) /\ UNCHANGED <<book, walk, order, exit>>

\* The process dies: the book and the strikes are in memory, the environment
\* is read again, an unreadable ceremony file boots locked.
Restart ==
  /\ unlocked' \in {unlocked, FALSE} /\ enabled' \in [Venues -> BOOLEAN]
  /\ strikes' = 0 /\ lastStrike' = 0
  /\ book' = [v \in Venues |-> 0]
  /\ walk' = [w \in Walks |->
       IF walk[w].pc \in Calling THEN [walk[w] EXCEPT !.pc = "dead"] ELSE walk[w]]
  /\ UNCHANGED <<day, order, exit>>

Next ==
  \/ \E w \in Walks, side \in Sides, size \in Sizes, legs \in LegSets, fired \in BOOLEAN :
       Start(w, side, size, legs, fired)
  \/ \E w \in Walks : Answers(w) \/ Fills(w)
  \/ GatesMove
  \/ Restart

Spec == Init /\ [][Next]_vars

\* Every ccxt instance has a request timeout, so each request is answered.
FairSpec == Spec /\ \A w \in Walks : WF_vars(Answers(w))

-----------------------------------------------------------------------------
\* The walks and the records of the venue.
LifecycleTypeOK ==
  /\ unlocked \in BOOLEAN /\ enabled \in [Venues -> BOOLEAN]
  /\ strikes \in 0..MaxStrikes /\ lastStrike \in 0..day /\ day \in 0..MaxDay
  /\ book \in [Venues -> Int]
  /\ \A w \in Walks :
       /\ walk[w].pc \in {"idle"} \cup Calling \cup Done
       /\ walk[w].venue \in Venues /\ walk[w].now \in 0..day
       /\ (walk[w].pc = "close") = (walk[w].sent # NoExit /\ walk[w].pc \notin Done)
       /\ order[w].filled \in 0..order[w].size
       /\ exit[w].side \in {"buy", "sell", "none"} /\ exit[w].amount \in Nat

\* What a venue has filled of the entries on one side.
FilledOn(v, side) ==
  MapThenSumSet(LAMBDA w : IF walk[w].venue = v /\ walk[w].side = side
                           THEN order[w].filled ELSE 0, Walks)

\* Until an exit is answered, the book of a venue is no longer than what it
\* bought and no shorter than what it sold, and no exit goes out for more: however
\* walks overlap, no fill is folded twice and none is guessed from an order ("not
\* inventing numbers").
BookWithinFills ==
  \A v \in Venues :
    (\A w \in Walks : walk[w].venue = v => exit[w] = NoExit) =>
      /\ book[v] \in -FilledOn(v, "sell") .. FilledOn(v, "buy")
      /\ \A w \in Walks : walk[w].venue = v =>
           /\ walk[w].sent.side = "sell" => walk[w].sent.amount <= FilledOn(v, "buy")
           /\ walk[w].sent.side = "buy" => walk[w].sent.amount <= FilledOn(v, "sell")

\* While the class is locked, the venue switched off or the key locked by its
\* strikes, no walk sends another request, those that were let in included.
Barred(v) == ~unlocked \/ ~enabled[v] \/ (strikes >= StrikeLimit /\ day = lastStrike)
BarredSendsNothing ==
  [][\A w \in Walks :
       walk'[w].pc # walk[w].pc /\ walk'[w].pc \in Calling \ {"verify"} => ~Barred(walk[w].venue)]_vars

\* A walk that reports `completed` has an entry and an exit that the venue
\* accepted, and the venue filled something to exit from.
CompletedIsReal ==
  \A w \in Walks :
    walk[w].pc = "completed" =>
      /\ order[w] # NoOrder /\ exit[w] # NoExit
      /\ \E side \in {"buy", "sell"} : FilledOn(walk[w].venue, side) > 0

\* Every walk ends, whatever the venue answers, unless the process dies first.
WalkEnds == \A w \in Walks : walk[w].pc \in Calling ~> walk[w].pc \in Done
=============================================================================
