------------------------ MODULE VenueLifecycleProofs ------------------------
(***************************************************************************)
(* The CCXT lifecycle, for every number of venues, walks, sizes and days:  *)
(* its state keeps its shape, no request leaves a walk while the class,    *)
(* the venue or the key is locked, what a walk reports as completed        *)
(* happened, the book never exceeds the fills that are behind it, and a    *)
(* walk sends its entry and its exit once, the exit for what it read when  *)
(* it has its venue for itself.                                            *)
(***************************************************************************)
EXTENDS VenueLifecycle, FiniteSetTheorems, WellFoundedInduction, TLAPS

LegNames == {"place", "amend", "cancel", "close"}
Exits    == [side : {"buy", "sell", "none"}, amount : Nat]

WalkRecs == [pc : {"idle"} \cup Calling \cup Done, venue : Venues,
             side : {"buy", "sell"}, size : Nat, legs : SUBSET LegNames, now : Nat,
             fired : BOOLEAN, placed : BOOLEAN, position : Int, exitPriced : BOOLEAN,
             sent : Exits]

\* What a walk holds to send is there exactly while the exit is out, and a walk
\* was called for at a moment that has passed.
WalkInv(k) ==
  /\ (k.pc = "close") = (k.sent # NoExit /\ k.pc \notin Done)
  /\ k.now <= day

Shapes ==
  /\ unlocked \in BOOLEAN /\ enabled \in [Venues -> BOOLEAN]
  /\ strikes \in 0..MaxStrikes /\ lastStrike \in 0..day /\ day \in 0..MaxDay
  /\ book \in [Venues -> Int]
  /\ walk \in [Walks -> WalkRecs]
  /\ order \in [Walks -> [size : Nat, filled : Nat, open : BOOLEAN]]
  /\ exit \in [Walks -> Exits]

LifecycleInv ==
  /\ Shapes
  /\ \A w \in Walks : WalkInv(walk[w]) /\ order[w].filled <= order[w].size

-----------------------------------------------------------------------------
LEMMA ExitShapes ==
  ASSUME NEW held \in Int
  PROVE  /\ [side |-> Closing(held), amount |-> Size(held)] \in Exits
         /\ [side |-> Closing(held), amount |-> Size(held)] # NoExit
         /\ NoExit \in Exits
  BY DEF Closing, Size, Exits, NoExit

LEMMA FoldedType ==
  ASSUME NEW p \in Int, NEW side, NEW filled \in Int
  PROVE  Folded(p, side, filled) \in Int
  BY DEF Folded

\* The leg a walk goes on to is one of the four.
LEMMA NextLeg ==
  ASSUME NEW n \in 0..4, NEW legs
  PROVE  LET left == {i \in (n + 1)..4 : Legs[i] \in legs}
         IN  left # {} => Legs[Min(left)] \in LegNames
<1> DEFINE left == {i \in (n + 1)..4 : Legs[i] \in legs}
<1> SUFFICES ASSUME left # {} PROVE Legs[Min(left)] \in LegNames
  OBVIOUS
<1>1. \E x \in left : \A y \in left : x <= y
  <2>1. left \subseteq {1, 2, 3, 4}
    OBVIOUS
  <2> HIDE DEF left
  <2>2. \E x \in {1, 2, 3, 4} : x \in left
    BY <2>1
  <2>3. CASE 1 \in left
    BY <2>1, <2>3
  <2>4. CASE 1 \notin left /\ 2 \in left
    BY <2>1, <2>4
  <2>5. CASE 1 \notin left /\ 2 \notin left /\ 3 \in left
    BY <2>1, <2>5
  <2>6. CASE left = {4}
    BY <2>6
  <2> QED
    BY <2>1, <2>2, <2>3, <2>4, <2>5, <2>6
<1>2. Min(left) \in left
  BY <1>1 DEF Min
<1>3. Min(left) \in {1, 2, 3, 4}
  BY <1>2
<1> QED
  BY <1>3 DEF Legs, LegNames

\* Going on keeps a walk's shape, and a walk that goes on to a leg has passed
\* its rails in that turn.
LEMMA OnwardStep ==
  ASSUME NEW k \in WalkRecs, NEW n \in 0..4, NEW held \in Int
  PROVE  LET r == Onward(k, n, held)
         IN  /\ r \in WalkRecs /\ r.now = k.now /\ r.venue = k.venue
             /\ (r.pc = "close") = (r.sent # NoExit /\ r.pc \notin Done)
             /\ r.pc \in LegNames \cup Done
             /\ r.pc \in LegNames => RailsPass(k, r.pc)
<1> DEFINE left == {i \in (n + 1)..4 : Legs[i] \in k.legs}
           leg == Legs[Min(left)]
           sent == IF leg # "close" THEN NoExit
                   ELSE [side |-> Closing(held), amount |-> Size(held)]
           r == Onward(k, n, held)
<1>1. left # {} => leg \in LegNames
  BY NextLeg
<1>2. sent \in Exits /\ (leg = "close" <=> sent # NoExit)
  BY ExitShapes
<1>3. \/ \E s \in {"completed", "stopped"} : r = [k EXCEPT !.pc = s]
      \/ left # {} /\ RailsPass(k, leg) /\ r = [k EXCEPT !.pc = leg, !.sent = sent]
  BY DEF Onward
<1> HIDE DEF left, leg, sent, r
<1>4. CASE \E s \in {"completed", "stopped"} : r = [k EXCEPT !.pc = s]
  <2>1. PICK s \in {"completed", "stopped"} : r = [k EXCEPT !.pc = s]
    BY <1>4
  <2> QED
    BY <2>1 DEF WalkRecs, Done, LegNames, r
<1>5. CASE left # {} /\ RailsPass(k, leg) /\ r = [k EXCEPT !.pc = leg, !.sent = sent]
  <2>1. leg \in LegNames /\ leg \in Calling /\ leg \notin Done
    BY <1>1, <1>5 DEF LegNames, Calling, Done
  <2>2. r \in WalkRecs /\ r.pc = leg /\ r.sent = sent /\ r.now = k.now /\ r.venue = k.venue
    BY <1>2, <1>5, <2>1 DEF WalkRecs
  <2> QED
    BY <1>2, <1>5, <2>1, <2>2 DEF r
<1> QED
  BY <1>3, <1>4, <1>5

LEMMA LifecycleInit == Init => LifecycleInv
<1> SUFFICES ASSUME Init PROVE LifecycleInv
  OBVIOUS
<1>1. ASSUME NEW v \in Venues
      PROVE  Idle(v) \in WalkRecs /\ Idle(v).now = 0 /\ Idle(v).pc = "idle"
             /\ Idle(v).sent = NoExit
  BY DEF Idle, WalkRecs, NoExit, Exits
<1>2. walk \in [Walks -> WalkRecs] /\ \A w \in Walks : WalkInv(walk[w])
  BY <1>1 DEF Init, WalkInv
<1>3. /\ order \in [Walks -> [size : Nat, filled : Nat, open : BOOLEAN]]
      /\ \A w \in Walks : order[w].filled <= order[w].size
  BY DEF Init, NoOrder
<1>4. /\ book \in [Venues -> Int] /\ exit \in [Walks -> Exits]
  BY DEF Init, NoExit, Exits
<1>5. strikes \in 0..MaxStrikes /\ lastStrike \in 0..day /\ day \in 0..MaxDay
  BY LifecycleAssumption DEF Init
<1> QED
  BY <1>2, <1>3, <1>4, <1>5 DEF Init, LifecycleInv, Shapes

\* A step that replaces one walk by what its shape and its invariant allow.
LEMMA OneWalk ==
  ASSUME LifecycleInv, UNCHANGED gates, NEW w \in Walks, NEW r \in WalkRecs,
         walk' = [walk EXCEPT ![w] = r],
         r.now <= day, (r.pc = "close") = (r.sent # NoExit /\ r.pc \notin Done),
         book' \in [Venues -> Int],
         order' \in [Walks -> [size : Nat, filled : Nat, open : BOOLEAN]],
         \A x \in Walks : order'[x].filled <= order'[x].size,
         exit' \in [Walks -> Exits]
  PROVE  LifecycleInv'
<1>1. Shapes'
  BY DEF LifecycleInv, Shapes, gates
<1>2. \A x \in Walks : WalkInv(walk[x])'
  BY DEF LifecycleInv, Shapes, gates, WalkInv
<1> QED
  BY <1>1, <1>2 DEF LifecycleInv

\* The new size of a walk's order.
LEMMA RestingType ==
  ASSUME LifecycleInv, NEW w \in Walks
  PROVE  LET o == [order EXCEPT ![w] = Resting(walk[w].size)]
         IN  /\ o \in [Walks -> [size : Nat, filled : Nat, open : BOOLEAN]]
             /\ \A x \in Walks : o[x].filled <= o[x].size
  BY DEF LifecycleInv, Shapes, WalkRecs, Resting

\* A walk that only changes where it is.
LEMMA EndedWalk ==
  ASSUME NEW k \in WalkRecs, WalkInv(k), NEW s \in Done
  PROVE  LET r == [k EXCEPT !.pc = s]
         IN  /\ r \in WalkRecs /\ r.now <= day
             /\ (r.pc = "close") = (r.sent # NoExit /\ r.pc \notin Done)
  BY DEF WalkRecs, WalkInv, Done

-----------------------------------------------------------------------------
\* What BarredSendsNothing says of one step.
Sends ==
  \A w \in Walks :
    walk'[w].pc # walk[w].pc /\ walk'[w].pc \in Calling \ {"verify"} =>
      ~Barred(walk[w].venue)

\* Walk w goes on, as k, after the leg number n.
GoesFrom(w, k, n, held) == walk' = [walk EXCEPT ![w] = Onward(k, n, held)]

\* A walk that goes on does so with the gates of this turn.
LEMMA GoesOn ==
  ASSUME LifecycleInv, UNCHANGED gates, NEW w \in Walks,
         NEW k \in WalkRecs, k.now <= day, k.venue = walk[w].venue,
         NEW n \in 0..4, NEW held \in Int,
         GoesFrom(w, k, n, held),
         book' \in [Venues -> Int],
         order' \in [Walks -> [size : Nat, filled : Nat, open : BOOLEAN]],
         \A x \in Walks : order'[x].filled <= order'[x].size,
         exit' \in [Walks -> Exits]
  PROVE  LifecycleInv' /\ Sends
<1> DEFINE r == Onward(k, n, held)
<1>1. /\ r \in WalkRecs /\ r.now = k.now /\ r.venue = k.venue
      /\ (r.pc = "close") = (r.sent # NoExit /\ r.pc \notin Done)
      /\ r.pc \in LegNames => RailsPass(k, r.pc)
  BY OnwardStep
<1> HIDE DEF r
<1>0. walk' = [walk EXCEPT ![w] = r]
  BY DEF r, GoesFrom
<1>2. LifecycleInv'
  BY <1>0, <1>1, OneWalk
<1>3. \A x \in Walks : x # w => walk'[x] = walk[x]
  BY <1>0 DEF LifecycleInv, Shapes
<1>4. walk'[w] = r
  BY <1>0 DEF LifecycleInv, Shapes
<1>5. r.pc \in LegNames => ~Barred(walk[w].venue)
  <2>1. r.pc \in LegNames => unlocked /\ enabled[k.venue] /\ ~Locked(k)
    BY <1>1 DEF RailsPass
  <2>2. strikes >= StrikeLimit /\ day = lastStrike => Locked(k)
    BY DEF Locked
  <2> QED
    BY <2>1, <2>2 DEF Barred
<1>6. Calling \ {"verify"} = LegNames
  BY DEF Calling, LegNames
<1> QED
  BY <1>2, <1>3, <1>4, <1>5, <1>6 DEF Sends

\* A walk that ends sends nothing.
LEMMA EndsNow ==
  ASSUME LifecycleInv, UNCHANGED gates, NEW w \in Walks, NEW s \in Done,
         Ended(w, s), book' = book,
         order' \in [Walks -> [size : Nat, filled : Nat, open : BOOLEAN]],
         \A x \in Walks : order'[x].filled <= order'[x].size,
         exit' \in [Walks -> Exits]
  PROVE  LifecycleInv' /\ Sends
<1> DEFINE r == [walk[w] EXCEPT !.pc = s]
<1>1. walk[w] \in WalkRecs /\ WalkInv(walk[w])
  BY DEF LifecycleInv, Shapes
<1>2. /\ r \in WalkRecs /\ r.now <= day /\ r.pc = s
      /\ (r.pc = "close") = (r.sent # NoExit /\ r.pc \notin Done)
  BY <1>1, EndedWalk DEF WalkRecs
<1>3. walk' = [walk EXCEPT ![w] = r]
  BY DEF Ended
<1> HIDE DEF r
<1>4. book' \in [Venues -> Int]
  BY DEF LifecycleInv, Shapes
<1>5. LifecycleInv'
  BY <1>2, <1>3, <1>4, OneWalk
<1>6. Sends
  BY <1>2, <1>3 DEF Sends, LifecycleInv, Shapes, Calling, Done
<1> QED
  BY <1>5, <1>6

LEMMA AnswersStep ==
  ASSUME LifecycleInv, NEW w \in Walks, Answers(w)
  PROVE  LifecycleInv' /\ Sends
<1> DEFINE k == walk[w]
<1>0. /\ k \in WalkRecs /\ WalkInv(k)
      /\ book \in [Venues -> Int] /\ book[k.venue] \in Int
      /\ order \in [Walks -> [size : Nat, filled : Nat, open : BOOLEAN]]
      /\ \A x \in Walks : order[x].filled <= order[x].size
      /\ exit \in [Walks -> Exits]
  BY DEF LifecycleInv, Shapes, WalkRecs
<1>s. k.sent \in Exits /\ k.position \in Int /\ k.now <= day /\ k.venue \in Venues
  BY <1>0 DEF WalkRecs, WalkInv
<1>t. [exit EXCEPT ![w] = k.sent] \in [Walks -> Exits]
  BY <1>0, <1>s
<1>1. CASE PlaceAccepted(w)
  <2> DEFINE r == [k EXCEPT !.pc = "verify", !.placed = TRUE]
  <2>1. /\ r \in WalkRecs /\ r.now <= day /\ r.pc = "verify" /\ r.venue = k.venue
        /\ (r.pc = "close") = (r.sent # NoExit /\ r.pc \notin Done)
    BY <1>0, <1>1 DEF PlaceAccepted, WalkRecs, WalkInv, Calling, Done
  <2>2. walk' = [walk EXCEPT ![w] = r]
    BY <1>1 DEF PlaceAccepted, LifecycleInv, Shapes
  <2> HIDE DEF r
  <2>3. UNCHANGED gates /\ book' = book /\ exit' = exit
        /\ order' = [order EXCEPT ![w] = Resting(walk[w].size)]
    BY <1>1 DEF PlaceAccepted
  <2>4. LifecycleInv'
    BY <1>0, <2>1, <2>2, <2>3, OneWalk, RestingType
  <2>5. Sends
    BY <2>1, <2>2 DEF Sends, LifecycleInv, Shapes
  <2> QED
    BY <2>4, <2>5
<1>2. ASSUME NEW taken \in BOOLEAN, PlaceFailed(w, taken)
      PROVE  LifecycleInv' /\ Sends
  <2>1. /\ UNCHANGED gates /\ book' = book /\ exit' = exit /\ Ended(w, "stopped")
        /\ order' \in {order, [order EXCEPT ![w] = Resting(walk[w].size)]}
    BY <1>2 DEF PlaceFailed
  <2>2. /\ order' \in [Walks -> [size : Nat, filled : Nat, open : BOOLEAN]]
        /\ \A x \in Walks : order'[x].filled <= order'[x].size
    BY <1>0, <2>1, RestingType
  <2>3. "stopped" \in Done
    BY DEF Done
  <2> QED
    BY <1>0, <2>1, <2>2, <2>3, EndsNow
<1>3. ASSUME NEW taken \in BOOLEAN, CloseFailed(w, taken)
      PROVE  LifecycleInv' /\ Sends
  <2>1. /\ UNCHANGED gates /\ book' = book /\ order' = order /\ Ended(w, "stopped")
        /\ exit' \in {exit, [exit EXCEPT ![w] = k.sent]}
    BY <1>3 DEF CloseFailed
  <2>2. "stopped" \in Done
    BY DEF Done
  <2> QED
    BY <1>0, <1>t, <2>1, <2>2, EndsNow
<1>4. ASSUME NEW priced \in BOOLEAN, NEW exitPriced \in BOOLEAN,
             Verified(w, priced, exitPriced)
      PROVE  LifecycleInv' /\ Sends
  <2> DEFINE held == Folded(book[k.venue], k.side, ReadFills(w, priced))
             q == [k EXCEPT !.position = held, !.exitPriced = exitPriced]
  <2>1. held \in Int
    BY <1>0, FoldedType DEF ReadFills
  <2>2. q \in WalkRecs /\ q.now <= day /\ q.venue = walk[w].venue
    BY <1>0, <1>s, <2>1 DEF WalkRecs
  <2>3. /\ GoesFrom(w, q, 1, held) /\ 1 \in 0..4
        /\ book' = [book EXCEPT ![k.venue] = held]
        /\ UNCHANGED gates /\ order' = order /\ exit' = exit
    BY <1>4 DEF Verified, GoesFrom
  <2>4. book' \in [Venues -> Int]
    BY <1>0, <2>1, <2>3
  <2> HIDE DEF held, q
  <2> QED
    BY <1>0, <2>1, <2>2, <2>3, <2>4, GoesOn
<1>5. CASE Amended(w)
  <2>1. /\ UNCHANGED gates /\ book' = book /\ order' = order /\ exit' = exit
        /\ GoesFrom(w, k, 2, book[k.venue]) /\ 2 \in 0..4
    BY <1>5 DEF Amended, Goes, GoesFrom
  <2> QED
    BY <1>0, <1>s, <2>1, GoesOn
<1>6. CASE Cancelled(w)
  <2>1. /\ order' = [order EXCEPT ![w].open = FALSE]
        /\ UNCHANGED gates /\ book' = book /\ exit' = exit
        /\ GoesFrom(w, k, 3, book[k.venue]) /\ 3 \in 0..4
    BY <1>6 DEF Cancelled, Goes, GoesFrom
  <2>2. /\ order' \in [Walks -> [size : Nat, filled : Nat, open : BOOLEAN]]
        /\ \A x \in Walks : order'[x].filled <= order'[x].size
    BY <1>0, <2>1
  <2> QED
    BY <1>0, <1>s, <2>1, <2>2, GoesOn
<1>7. CASE LegFailed(w)
  BY <1>0, <1>7, EndsNow DEF LegFailed, Done
<1>8. CASE CloseAccepted(w)
  <2>1. /\ exit' = [exit EXCEPT ![w] = k.sent]
        /\ book' = [book EXCEPT ![k.venue] = Folded(@, Closing(k.position), Size(k.position))]
        /\ GoesFrom(w, k, 4, book[k.venue]) /\ 4 \in 0..4
        /\ UNCHANGED gates /\ order' = order
    BY <1>8 DEF CloseAccepted, Goes, GoesFrom
  <2>2. Folded(book[k.venue], Closing(k.position), Size(k.position)) \in Int
    BY <1>0, <1>s, FoldedType DEF Size
  <2>3. book' \in [Venues -> Int]
    BY <1>0, <2>1, <2>2
  <2> QED
    BY <1>0, <1>s, <1>t, <2>1, <2>3, GoesOn
<1> QED
  BY <1>1, <1>2, <1>3, <1>4, <1>5, <1>6, <1>7, <1>8 DEF Answers

LEMMA StartStep ==
  ASSUME LifecycleInv, NEW w \in Walks, NEW side \in Sides, NEW size \in Sizes,
         NEW legs \in LegSets, NEW fired \in BOOLEAN, Start(w, side, size, legs, fired)
  PROVE  LifecycleInv' /\ Sends
<1> DEFINE q == [walk[w] EXCEPT !.side = side, !.size = size, !.legs = legs,
                                !.now = day, !.fired = fired]
<1>1. walk[w] \in WalkRecs /\ day \in Nat
  BY DEF LifecycleInv, Shapes
<1>2. side \in {"buy", "sell"} /\ size \in Nat /\ legs \in SUBSET LegNames
  BY LifecycleAssumption DEF LegNames
<1>3. q \in WalkRecs /\ q.now <= day /\ q.venue = walk[w].venue
  <2> DEFINE k == walk[w]
  <2>1. q = [k EXCEPT !.side = side, !.size = size, !.legs = legs,
                      !.now = day, !.fired = fired]
    OBVIOUS
  <2> HIDE DEF k, q
  <2>2. k \in WalkRecs
    BY <1>1 DEF k
  <2>3. q \in WalkRecs
    BY <1>1, <1>2, <2>1, <2>2 DEF WalkRecs
  <2>4. q.now = day /\ q.venue = k.venue
    BY <2>1, <2>2 DEF WalkRecs
  <2> QED
    BY <1>1, <2>3, <2>4 DEF k
<1>4. GoesFrom(w, q, 0, book[walk[w].venue]) /\ 0 \in 0..4
  BY <1>1 DEF Start, GoesFrom, WalkRecs, LifecycleInv, Shapes
<1>5. UNCHANGED gates /\ book' = book /\ order' = order /\ exit' = exit
  BY DEF Start
<1>6. /\ book \in [Venues -> Int] /\ book[walk[w].venue] \in Int
      /\ order \in [Walks -> [size : Nat, filled : Nat, open : BOOLEAN]]
      /\ \A x \in Walks : order[x].filled <= order[x].size
      /\ exit \in [Walks -> Exits]
  BY <1>1 DEF LifecycleInv, Shapes, WalkRecs
<1> HIDE DEF q
<1> QED
  BY <1>3, <1>4, <1>5, <1>6, GoesOn

\* The venue's fills, the gates and the clock move no walk.
LEMMA BesideStep ==
  ASSUME LifecycleInv, GatesMove \/ \E w \in Walks : Fills(w)
  PROVE  LifecycleInv' /\ Sends
<1>1. walk' = walk
  BY DEF GatesMove, Fills
<1>2. Sends
  BY <1>1 DEF Sends
<1>3. ASSUME NEW w \in Walks, Fills(w)
      PROVE  LifecycleInv'
  <2> DEFINE r == [order[w] EXCEPT !.filled = @ + 1,
                                   !.open = order[w].filled + 1 < order[w].size]
  <2>0. /\ order \in [Walks -> [size : Nat, filled : Nat, open : BOOLEAN]]
        /\ \A x \in Walks : order[x].filled <= order[x].size
    BY DEF LifecycleInv, Shapes
  <2>1. /\ r \in [size : Nat, filled : Nat, open : BOOLEAN]
        /\ r.filled <= r.size
    BY <1>3, <2>0 DEF Fills
  <2>a. order' = [order EXCEPT ![w] = r]
    BY <1>3, <2>0 DEF Fills
  <2> HIDE DEF r
  <2>2. /\ order' \in [Walks -> [size : Nat, filled : Nat, open : BOOLEAN]]
        /\ \A x \in Walks : order'[x].filled <= order'[x].size
    BY <2>0, <2>1, <2>a
  <2> QED
    BY <1>3, <2>2 DEF Fills, LifecycleInv, Shapes, gates, WalkInv
<1>4. CASE GatesMove
  <2>1. /\ UNCHANGED <<enabled, book, walk, order, exit>>
        /\ unlocked' \in BOOLEAN
        /\ strikes' \in 0..MaxStrikes /\ lastStrike' \in 0..day'
        /\ day' \in 0..MaxDay /\ day <= day'
    <3>1. CASE Unlock
      BY <1>4, <3>1 DEF GatesMove, Unlock, LifecycleInv, Shapes
    <3>2. CASE Strike
      BY <1>4, <3>2, LifecycleAssumption DEF GatesMove, Strike, LifecycleInv, Shapes
    <3>3. CASE NextDay
      BY <1>4, <3>3, LifecycleAssumption DEF GatesMove, NextDay, LifecycleInv, Shapes
    <3> QED
      BY <1>4, <3>1, <3>2, <3>3 DEF GatesMove
  <2>2. Shapes'
    BY <2>1 DEF LifecycleInv, Shapes
  <2>3. \A w \in Walks : WalkInv(walk[w])'
    BY <2>1 DEF LifecycleInv, Shapes, WalkInv, WalkRecs
  <2> QED
    BY <1>2, <2>1, <2>2, <2>3 DEF LifecycleInv
<1> QED
  BY <1>2, <1>3, <1>4

LEMMA RestartStep ==
  ASSUME LifecycleInv, Restart
  PROVE  LifecycleInv' /\ Sends
<1>1. ASSUME NEW w \in Walks
      PROVE  /\ walk'[w] \in WalkRecs /\ WalkInv(walk[w])'
             /\ walk'[w].pc # walk[w].pc => walk'[w].pc = "dead"
  <2>1. walk[w] \in WalkRecs /\ WalkInv(walk[w]) /\ day' = day
    BY DEF LifecycleInv, Shapes, Restart
  <2>2. walk'[w] \in {walk[w], [walk[w] EXCEPT !.pc = "dead"]}
    BY DEF Restart
  <2> QED
    BY <2>1, <2>2 DEF WalkRecs, WalkInv, Done
<1>2. walk' \in [Walks -> WalkRecs]
  BY <1>1 DEF Restart
<1>3. Shapes'
  <2>1. /\ unlocked' \in BOOLEAN /\ enabled' \in [Venues -> BOOLEAN]
        /\ book' \in [Venues -> Int]
    <3>1. unlocked' \in {unlocked, FALSE} /\ unlocked \in BOOLEAN
      BY DEF Restart, LifecycleInv, Shapes
    <3>2. unlocked' \in BOOLEAN
      BY <3>1
    <3>3. enabled' \in [Venues -> BOOLEAN] /\ book' \in [Venues -> Int]
      BY DEF Restart
    <3> QED
      BY <3>2, <3>3
  <2>2. strikes' \in 0..MaxStrikes /\ lastStrike' \in 0..day' /\ day' \in 0..MaxDay
    BY LifecycleAssumption DEF Restart, LifecycleInv, Shapes
  <2>3. UNCHANGED <<order, exit>>
    BY DEF Restart
  <2> QED
    BY <1>2, <2>1, <2>2, <2>3 DEF LifecycleInv, Shapes
<1>4. Sends
  BY <1>1 DEF Sends, Calling
<1> QED
  BY <1>1, <1>3, <1>4 DEF LifecycleInv, Restart

LEMMA LifecycleStep ==
  ASSUME LifecycleInv, [Next]_vars
  PROVE  LifecycleInv' /\ Sends
<1>1. CASE UNCHANGED vars
  BY <1>1 DEF vars, LifecycleInv, Shapes, WalkInv, Sends
<1> QED
  BY <1>1, StartStep, AnswersStep, BesideStep, RestartStep DEF Next

LEMMA LifecycleInvariant == Spec => []LifecycleInv
<1>1. LifecycleInv /\ [Next]_vars => LifecycleInv'
  BY LifecycleStep
<1> QED
  BY <1>1, LifecycleInit, PTL DEF Spec

\* The walks, the book and the venue's records always have the shape the code
\* gives them, and what a walk will send is fixed while its exit is out.
THEOREM LifecycleTypeCorrect == Spec => []LifecycleTypeOK
<1>1. LifecycleInv => LifecycleTypeOK
  <2> SUFFICES ASSUME LifecycleInv PROVE LifecycleTypeOK
    OBVIOUS
  <2>1. ASSUME NEW w \in Walks
        PROVE  /\ walk[w].pc \in {"idle"} \cup Calling \cup Done
               /\ walk[w].venue \in Venues /\ walk[w].now \in 0..day
               /\ (walk[w].pc = "close") = (walk[w].sent # NoExit /\ walk[w].pc \notin Done)
    BY DEF LifecycleInv, Shapes, WalkRecs, WalkInv
  <2>2. ASSUME NEW w \in Walks
        PROVE  /\ order[w].filled \in 0..order[w].size
               /\ exit[w].side \in {"buy", "sell", "none"} /\ exit[w].amount \in Nat
    BY DEF LifecycleInv, Shapes, Exits
  <2> QED
    BY <2>1, <2>2 DEF LifecycleTypeOK, LifecycleInv, Shapes
<1> QED
  BY <1>1, LifecycleInvariant, PTL

\* No request leaves a walk while its class is locked, its venue switched off or
\* the key locked by its strikes: each leg reads its rails in the turn that sends
\* it (ccxtLifecycleRails.mjs, runVenueLifecycle).
THEOREM LifecycleBarredSendsNothing == Spec => BarredSendsNothing
<1>1. LifecycleInv /\ [Next]_vars =>
        [\A w \in Walks :
           walk'[w].pc # walk[w].pc /\ walk'[w].pc \in Calling \ {"verify"} =>
             ~Barred(walk[w].venue)]_vars
  BY LifecycleStep DEF Sends
<1> QED
  BY <1>1, LifecycleInvariant, PTL DEF Spec, BarredSendsNothing

-----------------------------------------------------------------------------
(* Sums over a finite set.  Facts about a recursive definition are proved by    *)
(* the least number, or the least subset, for which they fail.                  *)

\* The element a sum takes out of a set.
Some(s) == CHOOSE x \in s : TRUE

\* The right-hand side of the sum's recursive definition, and the sum of the
\* numbers f[x] over S that it defines.
SumStep(f, g, s) ==
  IF s = {} THEN 0 ELSE f[Some(s)] + g[s \ {Some(s)}]

Sum(f, S) ==
  LET g == CHOOSE g : g = [s \in SUBSET S |-> SumStep(f, g, s)] IN g[S]

\* g gives the sums over the subsets of S.
IsSum(g, f, S) == \A s \in SUBSET S : g[s] = SumStep(f, g, s)

\* A set of numbers that is not empty has a least one.
LEMMA LeastNat ==
  ASSUME NEW T, T \subseteq Nat, T # {}
  PROVE  \E n \in T : \A m \in T : n <= m
<1>1. PICK n \in T : \A m \in T : <<m, n>> \notin OpToRel(<, Nat)
  BY WFMin, NatLessThanWellFounded
<1>2. \A m \in T : ~(m < n)
  BY <1>1 DEF OpToRel
<1> QED
  BY <1>2

\* A family of finite sets that is not empty has one with the fewest elements.
LEMMA LeastSet ==
  ASSUME NEW S, IsFiniteSet(S), NEW T, T \subseteq SUBSET S, T # {}
  PROVE  \E s \in T : \A x \in s : s \ {x} \notin T
<1> DEFINE N == {Cardinality(s) : s \in T}
<1>1. \A s \in T : IsFiniteSet(s) /\ Cardinality(s) \in Nat
  BY FS_Subset, FS_CardinalityType
<1>2. PICK n \in N : \A m \in N : n <= m
  <2>1. N \subseteq Nat /\ N # {}
    BY <1>1
  <2> HIDE DEF N
  <2> QED
    BY <2>1, LeastNat
<1>3. PICK s \in T : n = Cardinality(s)
  BY <1>2
<1>4. ASSUME NEW x \in s, s \ {x} \in T
      PROVE  FALSE
  <2>1. Cardinality(s \ {x}) = Cardinality(s) - 1
    BY <1>1, <1>3, FS_RemoveElement
  <2>2. Cardinality(s) <= Cardinality(s \ {x})
    BY <1>2, <1>3, <1>4
  <2> QED
    BY <1>1, <1>3, <2>1, <2>2
<1> QED
  BY <1>3, <1>4

\* The definition defines a function, on the subsets of every size.
LEMMA SumExists ==
  ASSUME NEW S, IsFiniteSet(S), NEW f
  PROVE  \E g : g = [s \in SUBSET S |-> SumStep(f, g, s)]
<1> DEFINE Sub(n) == {s \in SUBSET S : Cardinality(s) <= n}
           T == {n \in Nat : ~ \E g : g = [s \in Sub(n) |-> SumStep(f, g, s)]}
<1>1. \A s \in SUBSET S : IsFiniteSet(s) /\ Cardinality(s) \in Nat
  BY FS_Subset, FS_CardinalityType
<1>2. ASSUME NEW s \in SUBSET S, s # {}
      PROVE  /\ Some(s) \in s
             /\ s \ {Some(s)} \in SUBSET S
             /\ Cardinality(s \ {Some(s)}) = Cardinality(s) - 1
  BY <1>1, <1>2, FS_RemoveElement DEF Some
<1>3. \A s \in SUBSET S : Cardinality(s) = 0 => s = {}
  BY <1>1, FS_EmptySet
<1>4. ASSUME T # {} PROVE FALSE
  <2>1. PICK n \in T : \A m \in T : n <= m
    <3> T \subseteq Nat
      OBVIOUS
    <3> HIDE DEF T
    <3> QED
      BY <1>4, LeastNat
  <2>2. CASE n = 0
    <3> DEFINE g == [s \in Sub(0) |-> 0]
    <3>1. \A s \in Sub(0) : s = {}
      BY <1>1, <1>3
    <3>2. g = [s \in Sub(0) |-> SumStep(f, g, s)]
      BY <3>1 DEF SumStep
    <3> QED
      BY <2>1, <2>2, <3>2
  <2>3. CASE n # 0
    <3>1. n - 1 \in Nat /\ n - 1 \notin T
      <4>1. n \in Nat
        BY <2>1
      <4> HIDE DEF T
      <4> QED
        BY <2>1, <2>3, <4>1
    <3>2. PICK h : h = [s \in Sub(n - 1) |-> SumStep(f, h, s)]
      BY <3>1
    <3> DEFINE g == [s \in Sub(n) |-> IF s \in Sub(n - 1) THEN h[s] ELSE SumStep(f, h, s)]
    <3>3. \A s \in Sub(n) : g[s] = SumStep(f, h, s)
      BY <3>2
    <3>4. \A s \in Sub(n - 1) : s \in Sub(n) /\ g[s] = h[s]
      BY <1>1, <3>1
    <3> HIDE DEF g
    <3>5. \A s \in Sub(n) : SumStep(f, g, s) = SumStep(f, h, s)
      <4> SUFFICES ASSUME NEW s \in Sub(n)
                   PROVE  SumStep(f, g, s) = SumStep(f, h, s)
        OBVIOUS
      <4>1. CASE s = {}
        BY <4>1 DEF SumStep
      <4>2. CASE s # {}
        <5>1. s \ {Some(s)} \in Sub(n - 1)
          BY <1>1, <1>2, <4>2
        <5>2. g[s \ {Some(s)}] = h[s \ {Some(s)}]
          BY <3>4, <5>1
        <5> QED
          BY <4>2, <5>2 DEF SumStep
      <4> QED
        BY <4>1, <4>2
    <3>6. g = [s \in Sub(n) |-> SumStep(f, g, s)]
      BY <3>3, <3>5 DEF g
    <3> QED
      BY <2>1, <3>6
  <2> QED
    BY <2>2, <2>3
<1>5. Cardinality(S) \in Nat /\ Sub(Cardinality(S)) = SUBSET S
  BY <1>1, FS_Subset
<1>6. PICK g : g = [s \in Sub(Cardinality(S)) |-> SumStep(f, g, s)]
  BY <1>4, <1>5
<1> QED
  BY <1>5, <1>6

\* The recursive definition of a sum is an equation.
LEMMA SumDef ==
  ASSUME NEW S, IsFiniteSet(S), NEW f
  PROVE  \E g : Sum(f, S) = g[S] /\ IsSum(g, f, S)
<1> DEFINE g == CHOOSE g : g = [s \in SUBSET S |-> SumStep(f, g, s)]
<1>1. g = [s \in SUBSET S |-> SumStep(f, g, s)]
  BY SumExists
<1>2. Sum(f, S) = g[S]
  BY DEF Sum
<1>3. IsSum(g, f, S)
  BY <1>1 DEF IsSum
<1> HIDE DEF g
<1> QED
  BY <1>2, <1>3

\* A sum of nothing is zero.
LEMMA SumOfNone ==
  ASSUME NEW S, NEW f, NEW g, IsSum(g, f, S)
  PROVE  g[{}] = 0
<1>1. {} \in SUBSET S
  OBVIOUS
<1> QED
  BY <1>1 DEF IsSum, SumStep

\* Sums that misbehave, if there are any, include one that takes an element out
\* of a set whose remainder behaves.
LEMMA LeastSum ==
  ASSUME NEW S, IsFiniteSet(S), NEW T, T \subseteq SUBSET S, T # {}, {} \notin T
  PROVE  \E s \in T : \E x \in S :
           /\ x \in s /\ s \ {x} \in SUBSET S /\ s \ {x} \notin T
           /\ \A f, g : IsSum(g, f, S) => g[s] = f[x] + g[s \ {x}]
<1>1. PICK s \in T : \A x \in s : s \ {x} \notin T
  BY LeastSet
<1>2. s \in SUBSET S /\ s # {}
  BY <1>1
<1>3. Some(s) \in s /\ Some(s) \in S /\ s \ {Some(s)} \in SUBSET S
  BY <1>2 DEF Some
<1>4. ASSUME NEW f, NEW g, IsSum(g, f, S)
      PROVE  g[s] = f[Some(s)] + g[s \ {Some(s)}]
  BY <1>2, <1>4 DEF IsSum, SumStep
<1> QED
  BY <1>1, <1>3, <1>4

\* A function of sums over the subsets of S gives the one sum over S.
LEMMA SumIsOne ==
  ASSUME NEW S, IsFiniteSet(S), NEW f, NEW g, IsSum(g, f, S)
  PROVE  Sum(f, S) = g[S]
<1>1. PICK h : Sum(f, S) = h[S] /\ IsSum(h, f, S)
  BY SumDef
<1>2. g[{}] = 0 /\ h[{}] = 0
  BY <1>1, SumOfNone
<1> DEFINE T == {s \in SUBSET S : g[s] # h[s]}
<1>3. ASSUME T # {} PROVE FALSE
  <2>1. T \subseteq SUBSET S /\ {} \notin T
    BY <1>2
  <2>2. (\A s \in SUBSET S : s \notin T => g[s] = h[s]) /\ \A s \in T : g[s] # h[s]
    OBVIOUS
  <2> HIDE DEF T
  <2>3. PICK s \in T : \E x \in S :
          /\ x \in s /\ s \ {x} \in SUBSET S /\ s \ {x} \notin T
          /\ \A d, c : IsSum(c, d, S) => c[s] = d[x] + c[s \ {x}]
    BY <1>3, <2>1, LeastSum
  <2>4. PICK x \in S :
          /\ s \ {x} \in SUBSET S /\ s \ {x} \notin T
          /\ g[s] = f[x] + g[s \ {x}] /\ h[s] = f[x] + h[s \ {x}]
    BY <1>1, <2>3
  <2> QED
    BY <2>2, <2>4
<1> QED
  BY <1>1, <1>3

\* A sum of numbers is a number.
LEMMA SumType ==
  ASSUME NEW S, IsFiniteSet(S), NEW f \in [S -> Nat]
  PROVE  Sum(f, S) \in Nat
<1>1. PICK g : Sum(f, S) = g[S] /\ IsSum(g, f, S)
  BY SumDef
<1>0. g[{}] = 0
  BY <1>1, SumOfNone
<1> DEFINE T == {s \in SUBSET S : g[s] \notin Nat}
<1>2. ASSUME T # {} PROVE FALSE
  <2>1. T \subseteq SUBSET S /\ {} \notin T
    BY <1>0
  <2>2. \A s \in SUBSET S : s \notin T => g[s] \in Nat
    OBVIOUS
  <2>0. \A s \in T : g[s] \notin Nat
    OBVIOUS
  <2> HIDE DEF T
  <2>3. \E s \in T : \E x \in S :
          /\ x \in s /\ s \ {x} \in SUBSET S /\ s \ {x} \notin T
          /\ \A d, c : IsSum(c, d, S) => c[s] = d[x] + c[s \ {x}]
    BY <1>2, <2>1, LeastSum
  <2>4. PICK s \in T, x \in S : /\ x \in s /\ s \ {x} \in SUBSET S /\ s \ {x} \notin T
                                /\ g[s] = f[x] + g[s \ {x}]
    BY <1>1, <2>3
  <2> QED
    BY <2>0, <2>2, <2>4
<1> QED
  BY <1>1, <1>2

\* Summing no less gives no less.
LEMMA SumGrows ==
  ASSUME NEW S, IsFiniteSet(S), NEW f \in [S -> Nat], NEW e \in [S -> Nat],
         \A x \in S : f[x] <= e[x]
  PROVE  Sum(f, S) <= Sum(e, S)
<1>1. PICK g : Sum(f, S) = g[S] /\ IsSum(g, f, S)
  BY SumDef
<1>2. PICK h : Sum(e, S) = h[S] /\ IsSum(h, e, S)
  BY SumDef
<1>0. g[{}] = 0 /\ h[{}] = 0
  BY <1>1, <1>2, SumOfNone
<1> DEFINE Good(s) == g[s] \in Nat /\ h[s] \in Nat /\ g[s] <= h[s]
           T == {s \in SUBSET S : ~Good(s)}
<1>3. ASSUME T # {} PROVE FALSE
  <2>1. T \subseteq SUBSET S /\ {} \notin T
    BY <1>0
  <2>2. (\A s \in SUBSET S : s \notin T => Good(s)) /\ \A s \in T : ~Good(s)
    OBVIOUS
  <2> HIDE DEF T
  <2>3. \E s \in T : \E x \in S :
          /\ x \in s /\ s \ {x} \in SUBSET S /\ s \ {x} \notin T
          /\ \A d, c : IsSum(c, d, S) => c[s] = d[x] + c[s \ {x}]
    BY <1>3, <2>1, LeastSum
  <2>4. PICK s \in T, x \in S :
          /\ x \in s /\ s \ {x} \in SUBSET S /\ s \ {x} \notin T
          /\ g[s] = f[x] + g[s \ {x}] /\ h[s] = e[x] + h[s \ {x}]
    BY <1>1, <1>2, <2>3
  <2>5. Good(s \ {x}) /\ f[x] \in Nat /\ e[x] \in Nat /\ f[x] <= e[x]
    BY <2>2, <2>4
  <2> QED
    BY <2>2, <2>4, <2>5
<1> QED
  BY <1>1, <1>2, <1>3

\* Adding to one term adds to the sum.
LEMMA SumAdds ==
  ASSUME NEW S, IsFiniteSet(S), NEW f \in [S -> Nat], NEW e \in [S -> Nat],
         NEW w \in S, \A x \in S : x # w => e[x] = f[x]
  PROVE  Sum(e, S) + f[w] = Sum(f, S) + e[w]
<1>1. PICK g : Sum(f, S) = g[S] /\ IsSum(g, f, S)
  BY SumDef
<1>2. PICK h : Sum(e, S) = h[S] /\ IsSum(h, e, S)
  BY SumDef
<1>0. g[{}] = 0 /\ h[{}] = 0
  BY <1>1, <1>2, SumOfNone
<1> DEFINE Good(s) == /\ g[s] \in Nat /\ h[s] \in Nat
                      /\ w \in s => h[s] + f[w] = g[s] + e[w]
                      /\ w \notin s => h[s] = g[s]
           T == {s \in SUBSET S : ~Good(s)}
<1>3. ASSUME T # {} PROVE FALSE
  <2>1. T \subseteq SUBSET S /\ {} \notin T
    BY <1>0
  <2>2. (\A s \in SUBSET S : s \notin T => Good(s)) /\ \A s \in T : ~Good(s)
    OBVIOUS
  <2> HIDE DEF T
  <2>3. \E s \in T : \E x \in S :
          /\ x \in s /\ s \ {x} \in SUBSET S /\ s \ {x} \notin T
          /\ \A d, c : IsSum(c, d, S) => c[s] = d[x] + c[s \ {x}]
    BY <1>3, <2>1, LeastSum
  <2>a. PICK s \in T : \E x \in S :
          /\ x \in s /\ s \ {x} \in SUBSET S /\ s \ {x} \notin T
          /\ \A d, c : IsSum(c, d, S) => c[s] = d[x] + c[s \ {x}]
    BY <2>3
  <2>b. PICK x \in S :
          /\ x \in s /\ s \ {x} \in SUBSET S /\ s \ {x} \notin T
          /\ \A d, c : IsSum(c, d, S) => c[s] = d[x] + c[s \ {x}]
    BY <2>a
  <2>4. /\ x \in s /\ s \ {x} \in SUBSET S /\ s \ {x} \notin T
        /\ g[s] = f[x] + g[s \ {x}] /\ h[s] = e[x] + h[s \ {x}]
    BY <1>1, <1>2, <2>b
  <2>5. /\ Good(s \ {x}) /\ f[x] \in Nat /\ e[x] \in Nat
        /\ f[w] \in Nat /\ e[w] \in Nat
    BY <2>2, <2>4
  <2>6. CASE x = w
    <3>1. w \in s /\ w \notin s \ {x}
      BY <2>4, <2>6
    <3>2. Good(s)
      BY <2>4, <2>5, <2>6, <3>1
    <3> QED
      BY <2>2, <2>4, <3>2
  <2>7. CASE x # w
    <3>1. e[x] = f[x] /\ (w \in s <=> w \in s \ {x})
      BY <2>4, <2>7
    <3>2. Good(s)
      BY <2>4, <2>5, <3>1
    <3> QED
      BY <2>2, <2>4, <3>2
  <2> QED
    BY <2>6, <2>7
<1> QED
  BY <1>1, <1>2, <1>3

\* A sum is no less than each of its terms.
LEMMA SumAtLeast ==
  ASSUME NEW S, IsFiniteSet(S), NEW f \in [S -> Nat], NEW w \in S
  PROVE  f[w] <= Sum(f, S)
<1> DEFINE e == [f EXCEPT ![w] = 0]
<1>1. e \in [S -> Nat] /\ e[w] = 0 /\ \A x \in S : x # w => f[x] = e[x]
  OBVIOUS
<1> HIDE DEF e
<1>2. Sum(f, S) + e[w] = Sum(e, S) + f[w]
  BY <1>1, SumAdds
<1>3. Sum(e, S) \in Nat /\ Sum(f, S) \in Nat /\ f[w] \in Nat
  BY <1>1, SumType
<1> QED
  BY <1>1, <1>2, <1>3


-----------------------------------------------------------------------------
(* What the venues have filled, as a sum over the walks.                        *)

\* What each walk's entry adds to the fills of one side on a venue.
Filling(wk, od, v, side) ==
  [w \in Walks |-> IF wk[w].venue = v /\ wk[w].side = side THEN od[w].filled ELSE 0]

\* The fold over the walks is that sum.
LEMMA FoldIsSum ==
  ASSUME NEW wk, NEW od, NEW v, NEW side
  PROVE  MapThenSumSet(LAMBDA w : IF wk[w].venue = v /\ wk[w].side = side
                                  THEN od[w].filled ELSE 0, Walks)
           = Sum(Filling(wk, od, v, side), Walks)
<1> DEFINE f == Filling(wk, od, v, side)
           Step(h, s) == IF s = {} THEN 0
                         ELSE LET x == CHOOSE x \in s : TRUE
                              IN  (IF wk[x].venue = v /\ wk[x].side = side THEN od[x].filled ELSE 0)
                                  + h[s \ {x}]
           h == CHOOSE h : h = [s \in SUBSET Walks |-> Step(h, s)]
<1>1. MapThenSumSet(LAMBDA w : IF wk[w].venue = v /\ wk[w].side = side
                               THEN od[w].filled ELSE 0, Walks) = h[Walks]
  BY DEF MapThenSumSet, MapThenFoldSet
<1>2. ASSUME NEW g, NEW s \in SUBSET Walks
      PROVE  Step(g, s) = SumStep(f, g, s)
  <2>1. CASE s = {}
    BY <2>1 DEF SumStep
  <2>2. CASE s # {}
    <3>1. (CHOOSE x \in s : TRUE) \in Walks
      BY <2>2
    <3> QED
      BY <2>2, <3>1 DEF SumStep, Some, Filling
  <2> QED
    BY <2>1, <2>2
<1> HIDE DEF Step, f
<1>3. PICK g : g = [s \in SUBSET Walks |-> SumStep(f, g, s)]
  <2>1. \A c : \E g : g = [s \in SUBSET Walks |-> SumStep(c, g, s)]
    BY SumExists, LifecycleAssumption
  <2> QED
    BY <2>1
<1>4. g = [s \in SUBSET Walks |-> Step(g, s)]
  BY <1>2, <1>3
<1>5. h = [s \in SUBSET Walks |-> Step(h, s)]
  BY <1>4
<1> HIDE DEF h
<1>6. IsSum(h, f, Walks)
  BY <1>2, <1>5 DEF IsSum
<1>7. Sum(f, Walks) = h[Walks]
  BY <1>6, SumIsOne, LifecycleAssumption
<1> QED
  BY <1>1, <1>7 DEF f

\* The fills of the orders whose walk has been told of them, or has ended.
Unread == {"idle", "place", "verify"}
Folding(wk, od, v, side) ==
  [w \in Walks |->
     IF wk[w].venue = v /\ wk[w].side = side /\ wk[w].pc \notin Unread
     THEN od[w].filled ELSE 0]

\* What a venue has filled on one side, and what of it the walks were told.
Filled(wk, od, v, side) == Sum(Filling(wk, od, v, side), Walks)
Told(wk, od, v, side)   == Sum(Folding(wk, od, v, side), Walks)

LEMMA FilledIsSum ==
  ASSUME NEW v, NEW side
  PROVE  FilledOn(v, side) = Filled(walk, order, v, side)
  BY FoldIsSum DEF FilledOn, Filled, MapThenSumSet, MapThenFoldSet

\* The terms of both sums are numbers, and what was folded was filled.
LEMMA SumsOfFills ==
  ASSUME NEW wk, NEW od, \A w \in Walks : od[w].filled \in Nat, NEW v, NEW side
  PROVE  /\ Filling(wk, od, v, side) \in [Walks -> Nat] /\ Folding(wk, od, v, side) \in [Walks -> Nat]
         /\ Filled(wk, od, v, side) \in Nat /\ Told(wk, od, v, side) \in Nat
         /\ Told(wk, od, v, side) <= Filled(wk, od, v, side)
<1>1. Filling(wk, od, v, side) \in [Walks -> Nat] /\ Folding(wk, od, v, side) \in [Walks -> Nat]
  BY DEF Filling, Folding
<1>2. \A w \in Walks : Folding(wk, od, v, side)[w] <= Filling(wk, od, v, side)[w]
  BY DEF Filling, Folding
<1> QED
  BY <1>1, <1>2, SumType, SumGrows, LifecycleAssumption DEF Filled, Told

LEMMA FillsType ==
  ASSUME LifecycleInv, NEW v, NEW side
  PROVE  /\ Filled(walk, order, v, side) \in Nat /\ Told(walk, order, v, side) \in Nat
         /\ Told(walk, order, v, side) <= Filled(walk, order, v, side)
<1>1. \A w \in Walks : order[w].filled \in Nat
  BY DEF LifecycleInv, Shapes
<1> QED
  BY <1>1, SumsOfFills

\* The same of the next state.
LEMMA FillsTypeNext ==
  ASSUME LifecycleInv', NEW v, NEW side
  PROVE  /\ Filled(walk', order', v, side) \in Nat /\ Told(walk', order', v, side) \in Nat
         /\ Told(walk', order', v, side) <= Filled(walk', order', v, side)
<1>1. \A w \in Walks : order'[w].filled \in Nat
  BY DEF LifecycleInv, Shapes
<1> QED
  BY <1>1, SumsOfFills

\* The fill of one order is among the fills of its side on its venue.
LEMMA FillAmongFills ==
  ASSUME LifecycleInv, NEW w \in Walks
  PROVE  order[w].filled <= Filled(walk, order, walk[w].venue, walk[w].side)
<1> DEFINE f == Filling(walk, order, walk[w].venue, walk[w].side)
<1>1. \A x \in Walks : order[x].filled \in Nat
  BY DEF LifecycleInv, Shapes
<1>2. f \in [Walks -> Nat] /\ f[w] = order[w].filled
  BY <1>1, SumsOfFills DEF Filling
<1>3. Filled(walk, order, walk[w].venue, walk[w].side) = Sum(f, Walks)
  BY DEF Filled
<1> HIDE DEF f
<1> QED
  BY <1>2, <1>3, SumAtLeast, LifecycleAssumption

\* A step in which no order loses a fill, no walk changes its venue, nor its side
\* once it has a fill, and a walk that has gone past its entry stays past it.
Grows ==
  \A w \in Walks :
    /\ walk'[w].venue = walk[w].venue
    /\ walk'[w].side = walk[w].side \/ order[w].filled = 0
    /\ order[w].filled <= order'[w].filled
    /\ walk[w].pc \notin Unread => walk'[w].pc \notin Unread

LEMMA FillsGrow ==
  ASSUME LifecycleInv, LifecycleInv', Grows, NEW v, NEW side
  PROVE  /\ Filled(walk, order, v, side) <= Filled(walk', order', v, side)
         /\ Told(walk, order, v, side) <= Told(walk', order', v, side)
<1>1. \A w \in Walks : order[w].filled \in Nat /\ order'[w].filled \in Nat
  BY DEF LifecycleInv, Shapes
<1>2. /\ Filling(walk, order, v, side) \in [Walks -> Nat] /\ Folding(walk, order, v, side) \in [Walks -> Nat]
      /\ Filling(walk', order', v, side) \in [Walks -> Nat] /\ Folding(walk', order', v, side) \in [Walks -> Nat]
  BY <1>1, SumsOfFills
<1>3. \A w \in Walks : /\ Filling(walk, order, v, side)[w] <= Filling(walk', order', v, side)[w]
                       /\ Folding(walk, order, v, side)[w] <= Folding(walk', order', v, side)[w]
  BY <1>1 DEF Grows, Filling, Folding
<1>4. Filled(walk, order, v, side) <= Filled(walk', order', v, side)
  BY <1>2, <1>3, SumGrows, LifecycleAssumption DEF Filled
<1>5. Told(walk, order, v, side) <= Told(walk', order', v, side)
  BY <1>2, <1>3, SumGrows, LifecycleAssumption DEF Told
<1> QED
  BY <1>4, <1>5

\* A walk that reads its fill brings it, once, into what was told of its side.
LEMMA ReadIsTold ==
  ASSUME LifecycleInv, NEW w \in Walks, NEW r, walk' = [walk EXCEPT ![w] = r],
         order' = order, walk[w].pc = "verify", r.pc \notin Unread,
         r.venue = walk[w].venue, r.side = walk[w].side
  PROVE  Told(walk', order', r.venue, r.side)
           = Told(walk, order, r.venue, r.side) + order[w].filled
<1> DEFINE v == r.venue
           f == Folding(walk, order, v, r.side)
           e == Folding(walk', order, v, r.side)
<1>1. \A x \in Walks : order[x].filled \in Nat
  BY DEF LifecycleInv, Shapes
<1>2. f \in [Walks -> Nat] /\ e \in [Walks -> Nat] /\ Sum(f, Walks) \in Nat /\ Sum(e, Walks) \in Nat
  BY <1>1, SumsOfFills DEF Told
<1>3. f[w] = 0 /\ e[w] = order[w].filled /\ \A x \in Walks : x # w => e[x] = f[x]
  BY DEF Folding, Unread, LifecycleInv, Shapes
<1>4. /\ Told(walk, order, v, r.side) = Sum(f, Walks)
      /\ Told(walk', order', v, r.side) = Sum(e, Walks)
  BY DEF Told
<1> HIDE DEF f, e
<1>5. Sum(e, Walks) + f[w] = Sum(f, Walks) + e[w]
  BY <1>2, <1>3, SumAdds, LifecycleAssumption
<1> QED
  BY <1>1, <1>2, <1>3, <1>4, <1>5

-----------------------------------------------------------------------------
\* Before its entry is answered a walk has no open order and no fill; a walk asked for a size, and
\* its entry has one; a walk that closes, or has completed, read a position; one
\* that has completed has an entry and an exit.
WalkBehind(k, o, x) ==
  /\ k.pc \in {"idle", "place"} => o.filled = 0 /\ ~o.open
  /\ k.pc # "idle" => k.size > 0
  /\ k.placed => o.size > 0
  /\ k.pc \in {"close", "completed"} => k.position # 0
  /\ k.pc = "completed" => k.placed /\ x # NoExit

\* Something was filled on a venue; a size of the book is within what the walks
\* were told of its fills; an exit asks for no more than was filled.
SomeFilled(wk, od, v) == \E side \in {"buy", "sell"} : Filled(wk, od, v, side) > 0
BookWithin(p, wk, od, v) == p \in -Told(wk, od, v, "sell") .. Told(wk, od, v, "buy")
SentWithin(x, wk, od, v) ==
  /\ x.side = "sell" => x.amount <= Filled(wk, od, v, "buy")
  /\ x.side = "buy" => x.amount <= Filled(wk, od, v, "sell")

\* What is in the book, or was read as a position, has fills behind it.
FillsBehind ==
  /\ \A w \in Walks :
       /\ WalkBehind(walk[w], order[w], exit[w])
       /\ walk[w].position # 0 => SomeFilled(walk, order, walk[w].venue)
  /\ \A v \in Venues : book[v] # 0 => SomeFilled(walk, order, v)

\* A venue without an exit has in its book no more than the fills the walks were
\* told of, and no walk holds more to send.
ExitFree(v) == \A w \in Walks : walk[w].venue = v => exit[w] = NoExit
FillsBound ==
  \A v \in Venues : ExitFree(v) =>
    /\ BookWithin(book[v], walk, order, v)
    /\ \A w \in Walks : walk[w].venue = v => SentWithin(walk[w].sent, walk, order, v)

BookInv == LifecycleInv /\ FillsBehind /\ FillsBound

\* The exit for a position.
ExitFor(p) == [side |-> Closing(p), amount |-> Size(p)]

\* Fills that grow keep what they bound.
LEMMA BoundsGrow ==
  ASSUME LifecycleInv, LifecycleInv', Grows, NEW v
  PROVE  /\ SomeFilled(walk, order, v) => SomeFilled(walk', order', v)
         /\ \A p \in Int : BookWithin(p, walk, order, v) => BookWithin(p, walk', order', v)
         /\ \A x \in Exits : SentWithin(x, walk, order, v) => SentWithin(x, walk', order', v)
<1>1. \A side : /\ Filled(walk, order, v, side) <= Filled(walk', order', v, side)
                /\ Told(walk, order, v, side) <= Told(walk', order', v, side)
                /\ Filled(walk, order, v, side) \in Nat
                /\ Filled(walk', order', v, side) \in Nat
                /\ Told(walk, order, v, side) \in Nat
                /\ Told(walk', order', v, side) \in Nat
  BY FillsGrow, FillsType, FillsTypeNext
<1>2. SomeFilled(walk, order, v) => SomeFilled(walk', order', v)
  BY <1>1 DEF SomeFilled
<1>3. \A p \in Int : BookWithin(p, walk, order, v) => BookWithin(p, walk', order', v)
  BY <1>1 DEF BookWithin
<1>4. \A x \in Exits : SentWithin(x, walk, order, v) => SentWithin(x, walk', order', v)
  BY <1>1 DEF SentWithin, Exits
<1> QED
  BY <1>2, <1>3, <1>4

\* An exit for a position that is within the fills is within them.
LEMMA HeldWithin ==
  ASSUME LifecycleInv', NEW v, NEW held \in Int, BookWithin(held, walk', order', v)
  PROVE  /\ SentWithin(ExitFor(held), walk', order', v)
         /\ SentWithin(NoExit, walk', order', v)
<1>1. \A side : /\ Filled(walk', order', v, side) \in Nat
                /\ Told(walk', order', v, side) \in Nat
                /\ Told(walk', order', v, side) <= Filled(walk', order', v, side)
  BY FillsTypeNext
<1> QED
  BY <1>1 DEF BookWithin, SentWithin, ExitFor, Closing, Size, NoExit

\* Folding a fill moves the book by no more than the fill, towards its side.
LEMMA FoldedWithin ==
  ASSUME NEW s \in Nat, NEW b \in Nat, NEW p \in -s .. b, NEW x \in Nat
  PROVE  /\ Folded(p, "buy", x) \in -s .. b + x
         /\ Folded(p, "sell", x) \in -(s + x) .. b
         /\ \A side : Folded(p, side, x) # 0 => p # 0 \/ x # 0
  BY DEF Folded

\* A walk goes on to a leg after the one it comes from, or ends; it completes
\* after the last leg with an entry; what it sends is the book's position.
LEMMA OnwardGoes ==
  ASSUME NEW k \in WalkRecs, NEW n \in 0..4, NEW held \in Int
  PROVE  LET r == Onward(k, n, held)
         IN  /\ r.side = k.side /\ r.size = k.size /\ r.placed = k.placed
             /\ r.position = k.position /\ r.venue = k.venue
             /\ r.pc \notin {"idle", "verify"}
             /\ n >= 1 => r.pc # "place"
             /\ r.pc = "completed" => n = 4 /\ k.placed
             /\ r.pc = "close" => k.position # 0 /\ r.sent = ExitFor(held)
             /\ r.sent \in {k.sent, NoExit, ExitFor(held)}
<1> DEFINE left == {i \in (n + 1)..4 : Legs[i] \in k.legs}
           leg == Legs[Min(left)]
           sent == IF leg # "close" THEN NoExit ELSE ExitFor(held)
           r == Onward(k, n, held)
<1>1. left # {} => leg \in LegNames
  BY NextLeg
<1>2. left # {} /\ n >= 1 => leg # "place"
  <2> SUFFICES ASSUME left # {}, n >= 1 PROVE leg # "place"
    OBVIOUS
  <2>1. \E x \in left : \A y \in left : x <= y
    BY LeastNat
  <2>2. Min(left) \in left
    BY <2>1 DEF Min
  <2>3. Min(left) \in {2, 3, 4}
    BY <2>2
  <2> QED
    BY <2>3 DEF Legs
<1>3. sent \in {NoExit, ExitFor(held)} /\ (leg = "close" => sent = ExitFor(held))
  OBVIOUS
<1>4. \/ r = [k EXCEPT !.pc = "completed"] /\ n = 4 /\ k.placed
      \/ r = [k EXCEPT !.pc = "stopped"]
      \/ /\ left # {} /\ (leg = "close" => k.position # 0)
         /\ r = [k EXCEPT !.pc = leg, !.sent = sent]
  BY DEF Onward, Ready, ExitFor
<1> HIDE DEF left, leg, sent, r
<1>5. CASE r = [k EXCEPT !.pc = "completed"] /\ n = 4 /\ k.placed
  BY <1>5 DEF WalkRecs, r
<1>6. CASE r = [k EXCEPT !.pc = "stopped"]
  BY <1>6 DEF WalkRecs, r
<1>7. CASE /\ left # {} /\ (leg = "close" => k.position # 0)
           /\ r = [k EXCEPT !.pc = leg, !.sent = sent]
  <2>1. leg \in LegNames /\ (n >= 1 => leg # "place")
    BY <1>1, <1>2, <1>7
  <2>2. /\ r.pc = leg /\ r.sent = sent /\ r.side = k.side /\ r.size = k.size
        /\ r.placed = k.placed /\ r.position = k.position /\ r.venue = k.venue
    BY <1>7 DEF WalkRecs
  <2> QED
    BY <1>3, <1>7, <2>1, <2>2 DEF LegNames, r
<1> QED
  BY <1>4, <1>5, <1>6, <1>7

\* One walk's record, its orders at the venue and the book of its venue change.
MovesTo(w, r, o, e, b) ==
  /\ walk' = [walk EXCEPT ![w] = r]
  /\ order' = [order EXCEPT ![w] = o]
  /\ exit' = [exit EXCEPT ![w] = e]
  /\ book' = [book EXCEPT ![walk[w].venue] = b]

LEMMA MoveGrows ==
  ASSUME LifecycleInv, NEW w \in Walks, NEW r, NEW o, NEW e, NEW b,
         MovesTo(w, r, o, e, b),
         r.venue = walk[w].venue, r.side = walk[w].side \/ order[w].filled = 0,
         order[w].filled <= o.filled,
         walk[w].pc \notin Unread => r.pc \notin Unread
  PROVE  /\ Grows
         /\ walk'[w] = r /\ order'[w] = o /\ exit'[w] = e /\ book'[walk[w].venue] = b
         /\ \A x \in Walks : x # w =>
              walk'[x] = walk[x] /\ order'[x] = order[x] /\ exit'[x] = exit[x]
         /\ \A v \in Venues : v # walk[w].venue => book'[v] = book[v]
<1>1. /\ walk \in [Walks -> WalkRecs] /\ walk[w].venue \in Venues
      /\ order \in [Walks -> [size : Nat, filled : Nat, open : BOOLEAN]]
      /\ exit \in [Walks -> Exits] /\ book \in [Venues -> Int]
  BY DEF LifecycleInv, Shapes, WalkRecs
<1>2. /\ walk'[w] = r /\ order'[w] = o /\ exit'[w] = e /\ book'[walk[w].venue] = b
      /\ \A x \in Walks : x # w =>
           walk'[x] = walk[x] /\ order'[x] = order[x] /\ exit'[x] = exit[x]
      /\ \A v \in Venues : v # walk[w].venue => book'[v] = book[v]
  BY <1>1 DEF MovesTo
<1>3. Grows
  BY <1>1, <1>2 DEF Grows
<1> QED
  BY <1>2, <1>3

\* What a move of one walk must bring along for the book to keep its fills.
LEMMA MoveKeepsFills ==
  ASSUME BookInv, LifecycleInv', NEW w \in Walks, NEW r, NEW o, NEW e, NEW b,
         MovesTo(w, r, o, e, b),
         r.venue = walk[w].venue, r.side = walk[w].side \/ order[w].filled = 0,
         order[w].filled <= o.filled,
         walk[w].pc \notin Unread => r.pc \notin Unread,
         WalkBehind(r, o, e),
         r.position # 0 \/ b # 0 => SomeFilled(walk, order, walk[w].venue)
  PROVE  FillsBehind'
<1>1. /\ Grows
      /\ walk'[w] = r /\ order'[w] = o /\ exit'[w] = e /\ book'[walk[w].venue] = b
      /\ \A x \in Walks : x # w =>
           walk'[x] = walk[x] /\ order'[x] = order[x] /\ exit'[x] = exit[x]
      /\ \A v \in Venues : v # walk[w].venue => book'[v] = book[v]
  BY MoveGrows DEF BookInv
<1>2. \A v : SomeFilled(walk, order, v) => SomeFilled(walk', order', v)
  BY <1>1, BoundsGrow DEF BookInv
<1>3. ASSUME NEW x \in Walks
      PROVE  /\ WalkBehind(walk'[x], order'[x], exit'[x])
             /\ walk'[x].position # 0 => SomeFilled(walk', order', walk'[x].venue)
  <2>1. CASE x = w
    BY <1>1, <1>2, <2>1
  <2>2. CASE x # w
    BY <1>1, <1>2, <2>2 DEF BookInv, FillsBehind
  <2> QED
    BY <2>1, <2>2
<1>4. ASSUME NEW v \in Venues, book'[v] # 0
      PROVE  SomeFilled(walk', order', v)
  <2>1. CASE v = walk[w].venue
    BY <1>1, <1>2, <1>4, <2>1
  <2>2. CASE v # walk[w].venue
    BY <1>1, <1>2, <1>4, <2>2 DEF BookInv, FillsBehind
  <2> QED
    BY <2>1, <2>2
<1> QED
  BY <1>3, <1>4 DEF FillsBehind, WalkBehind

\* What it must bring along for the fills to bound the book: an exit that is known
\* stays known, and as long as its venue has none, the book and what the walk holds
\* to send stay within the fills.
LEMMA MoveKeepsBound ==
  ASSUME BookInv, LifecycleInv', NEW w \in Walks, NEW r, NEW o, NEW e, NEW b,
         MovesTo(w, r, o, e, b),
         r.venue = walk[w].venue, r.side = walk[w].side \/ order[w].filled = 0,
         order[w].filled <= o.filled,
         walk[w].pc \notin Unread => r.pc \notin Unread,
         exit[w] # NoExit => e # NoExit,
         ExitFree(walk[w].venue) /\ e = NoExit =>
           /\ BookWithin(b, walk', order', walk[w].venue)
           /\ SentWithin(r.sent, walk', order', walk[w].venue)
  PROVE  FillsBound'
<1>1. /\ Grows
      /\ walk'[w] = r /\ order'[w] = o /\ exit'[w] = e /\ book'[walk[w].venue] = b
      /\ \A x \in Walks : x # w =>
           walk'[x] = walk[x] /\ order'[x] = order[x] /\ exit'[x] = exit[x]
      /\ \A v \in Venues : v # walk[w].venue => book'[v] = book[v]
  BY MoveGrows DEF BookInv
<1>2. ASSUME NEW v \in Venues, \A x \in Walks : walk'[x].venue = v => exit'[x] = NoExit
      PROVE  /\ BookWithin(book'[v], walk', order', v)
             /\ \A x \in Walks : walk'[x].venue = v =>
                  SentWithin(walk'[x].sent, walk', order', v)
  <2>1. ExitFree(v)
    BY <1>1, <1>2 DEF ExitFree
  <2>2. /\ BookWithin(book[v], walk, order, v)
        /\ \A x \in Walks : walk[x].venue = v => SentWithin(walk[x].sent, walk, order, v)
    BY <2>1 DEF BookInv, FillsBound
  <2>3. book[v] \in Int /\ \A x \in Walks : walk[x].sent \in Exits
    BY DEF BookInv, LifecycleInv, Shapes, WalkRecs
  <2>4. /\ BookWithin(book[v], walk', order', v)
        /\ \A x \in Walks : walk[x].venue = v => SentWithin(walk[x].sent, walk', order', v)
    BY <1>1, <2>2, <2>3, BoundsGrow DEF BookInv
  <2>5. v = walk[w].venue => e = NoExit
    BY <1>1, <1>2
  <2>6. BookWithin(book'[v], walk', order', v)
    BY <1>1, <2>1, <2>4, <2>5
  <2>7. ASSUME NEW x \in Walks, walk'[x].venue = v
        PROVE  SentWithin(walk'[x].sent, walk', order', v)
    <3>1. CASE x = w
      BY <1>1, <2>1, <2>5, <2>7, <3>1
    <3>2. CASE x # w
      BY <1>1, <2>4, <2>7, <3>2
    <3> QED
      BY <3>1, <3>2
  <2> QED
    BY <2>6, <2>7
<1> QED
  BY <1>2 DEF FillsBound, ExitFree, BookWithin, SentWithin

\* A walk that goes on after the leg number n keeps both.
LEMMA GoneOn ==
  ASSUME BookInv, LifecycleInv', NEW w \in Walks, NEW q \in WalkRecs,
         NEW n \in 0..4, NEW held \in Int, NEW o, NEW e, NEW b,
         MovesTo(w, Onward(q, n, held), o, e, b),
         q.venue = walk[w].venue, q.side = walk[w].side \/ order[w].filled = 0,
         q.size > 0, q.placed => o.size > 0,
         order[w].filled <= o.filled,
         n = 0 => walk[w].pc = "idle" /\ o.filled = 0 /\ ~o.open,
         n = 4 => q.position # 0 /\ e # NoExit,
         q.position # 0 \/ b # 0 => SomeFilled(walk, order, walk[w].venue),
         exit[w] # NoExit => e # NoExit,
         ExitFree(walk[w].venue) /\ e = NoExit =>
           /\ BookWithin(b, walk', order', walk[w].venue)
           /\ BookWithin(held, walk', order', walk[w].venue)
           /\ SentWithin(q.sent, walk', order', walk[w].venue)
  PROVE  BookInv'
<1> DEFINE r == Onward(q, n, held)
<1>1. /\ r.side = q.side /\ r.size = q.size /\ r.placed = q.placed
      /\ r.position = q.position /\ r.venue = q.venue
      /\ r.pc \notin {"idle", "verify"}
      /\ n >= 1 => r.pc # "place"
      /\ r.pc = "completed" => n = 4 /\ q.placed
      /\ r.pc = "close" => q.position # 0
      /\ r.sent \in {q.sent, NoExit, ExitFor(held)}
  BY OnwardGoes
<1>2. MovesTo(w, r, o, e, b)
  OBVIOUS
<1> HIDE DEF r
<1>3. r.pc = "place" => n = 0
  BY <1>1
<1>4. walk[w].pc \notin Unread => r.pc \notin Unread
  BY <1>1, <1>3 DEF Unread
<1>5. WalkBehind(r, o, e)
  BY <1>1, <1>3 DEF WalkBehind
<1>6. FillsBehind'
  BY <1>1, <1>2, <1>4, <1>5, MoveKeepsFills
<1>7. ExitFree(walk[w].venue) /\ e = NoExit =>
        SentWithin(r.sent, walk', order', walk[w].venue)
  BY <1>1, HeldWithin
<1>8. FillsBound'
  BY <1>1, <1>2, <1>4, <1>7, MoveKeepsBound
<1> QED
  BY <1>6, <1>8 DEF BookInv

\* A walk that waits or ends where it is keeps both.
LEMMA Stayed ==
  ASSUME BookInv, LifecycleInv', NEW w \in Walks, NEW r, NEW o, NEW e,
         MovesTo(w, r, o, e, book[walk[w].venue]),
         r.venue = walk[w].venue, r.side = walk[w].side, r.sent = walk[w].sent,
         r.position = walk[w].position,
         order[w].filled <= o.filled,
         walk[w].pc \notin Unread => r.pc \notin Unread,
         WalkBehind(r, o, e), exit[w] # NoExit => e # NoExit
  PROVE  BookInv'
<1> DEFINE v == walk[w].venue
           b == book[v]
<1>1. v \in Venues /\ b \in Int /\ r.sent \in Exits
  BY DEF BookInv, LifecycleInv, Shapes, WalkRecs
<1>2. r.position # 0 \/ b # 0 => SomeFilled(walk, order, v)
  BY <1>1 DEF BookInv, FillsBehind
<1>3. FillsBehind'
  BY <1>2, MoveKeepsFills
<1>4. Grows
  BY MoveGrows DEF BookInv
<1>5. ExitFree(v) => BookWithin(b, walk, order, v) /\ SentWithin(r.sent, walk, order, v)
  BY <1>1 DEF BookInv, FillsBound
<1>6. ExitFree(v) => BookWithin(b, walk', order', v) /\ SentWithin(r.sent, walk', order', v)
  BY <1>1, <1>4, <1>5, BoundsGrow DEF BookInv
<1>7. FillsBound'
  BY <1>6, MoveKeepsBound
<1> QED
  BY <1>3, <1>7 DEF BookInv

\* A walk that goes on while the book of its venue stays as it is.
LEMMA GoneOnFromBook ==
  ASSUME BookInv, LifecycleInv', NEW w \in Walks, NEW q \in WalkRecs,
         NEW n \in 0..3, NEW o,
         MovesTo(w, Onward(q, n, book[walk[w].venue]), o, exit[w], book[walk[w].venue]),
         q.venue = walk[w].venue, q.side = walk[w].side \/ order[w].filled = 0,
         q.sent = walk[w].sent, q.position = walk[w].position,
         q.size > 0, q.placed => o.size > 0, order[w].filled <= o.filled,
         n = 0 => walk[w].pc = "idle" /\ o.filled = 0 /\ ~o.open
  PROVE  BookInv'
<1> DEFINE v == walk[w].venue
           b == book[v]
           r == Onward(q, n, b)
<1>1. v \in Venues /\ b \in Int /\ q.sent \in Exits
  BY DEF BookInv, LifecycleInv, Shapes, WalkRecs
<1>2. q.position # 0 \/ b # 0 => SomeFilled(walk, order, v)
  BY <1>1 DEF BookInv, FillsBehind
<1>3. r.venue = v /\ r.side = q.side /\ (walk[w].pc \notin Unread => r.pc \notin Unread)
  <2>1. /\ r.venue = q.venue /\ r.side = q.side /\ r.pc \notin {"idle", "verify"}
        /\ n >= 1 => r.pc # "place"
    BY <1>1, OnwardGoes
  <2>2. walk[w].pc \notin Unread => n >= 1
    BY DEF Unread
  <2> HIDE DEF r
  <2> QED
    BY <2>1, <2>2 DEF Unread
<1>4. Grows
  <2> HIDE DEF r
  <2> QED
    BY <1>3, MoveGrows DEF BookInv, r
<1>5. ExitFree(v) => BookWithin(b, walk, order, v) /\ SentWithin(q.sent, walk, order, v)
  BY <1>1 DEF BookInv, FillsBound
<1>6. ExitFree(v) => BookWithin(b, walk', order', v) /\ SentWithin(q.sent, walk', order', v)
  BY <1>1, <1>4, <1>5, BoundsGrow DEF BookInv
<1> HIDE DEF r
<1> QED
  BY <1>1, <1>2, <1>6, GoneOn

LEMMA StartKeeps ==
  ASSUME BookInv, LifecycleInv', NEW w \in Walks, NEW side \in Sides, NEW size \in Sizes,
         NEW legs \in LegSets, NEW fired \in BOOLEAN, Start(w, side, size, legs, fired)
  PROVE  BookInv'
<1> DEFINE k == walk[w]
           q == [k EXCEPT !.side = side, !.size = size, !.legs = legs,
                          !.now = day, !.fired = fired]
<1>1. /\ k \in WalkRecs /\ day \in Nat
      /\ order \in [Walks -> [size : Nat, filled : Nat, open : BOOLEAN]]
      /\ exit \in [Walks -> Exits] /\ book \in [Venues -> Int]
      /\ WalkBehind(k, order[w], exit[w])
  BY DEF BookInv, LifecycleInv, Shapes, FillsBehind
<1>2. side \in {"buy", "sell"} /\ size \in Nat /\ size > 0 /\ legs \in SUBSET LegNames
  BY LifecycleAssumption DEF LegNames
<1>3. /\ k.pc = "idle"
      /\ walk' = [walk EXCEPT ![w] = Onward(q, 0, book[k.venue])]
      /\ UNCHANGED <<order, exit, book>>
  BY DEF Start
<1> HIDE DEF k
<1>4. q \in WalkRecs
  BY <1>1, <1>2 DEF WalkRecs
<1>5. /\ q.venue = k.venue /\ q.sent = k.sent /\ q.position = k.position
      /\ q.size = size /\ q.side = side /\ q.placed = k.placed
  BY <1>1 DEF WalkRecs
<1> HIDE DEF q
<1>6. order[w].filled = 0 /\ ~order[w].open /\ (q.placed => order[w].size > 0)
  BY <1>1, <1>3, <1>5 DEF WalkBehind
<1>7. MovesTo(w, Onward(q, 0, book[walk[w].venue]), order[w], exit[w], book[walk[w].venue])
  BY <1>1, <1>3 DEF MovesTo, k
<1>9. /\ q.venue = walk[w].venue /\ q.sent = walk[w].sent
      /\ q.position = walk[w].position /\ walk[w].pc = "idle"
      /\ q.size > 0 /\ order[w].filled <= order[w].filled
  BY <1>2, <1>3, <1>5, <1>6 DEF k
<1>10. 0 \in 0..3
  OBVIOUS
<1> QED
  BY <1>4, <1>6, <1>7, <1>9, <1>10, GoneOnFromBook

LEMMA AnswersKeep ==
  ASSUME BookInv, LifecycleInv', NEW w \in Walks, Answers(w)
  PROVE  BookInv'
<1> DEFINE k == walk[w]
           v == k.venue
<1>0. /\ k \in WalkRecs /\ v \in Venues /\ k.size \in Nat /\ k.position \in Int
      /\ book \in [Venues -> Int] /\ book[v] \in Int
      /\ order \in [Walks -> [size : Nat, filled : Nat, open : BOOLEAN]]
      /\ order[w] \in [size : Nat, filled : Nat, open : BOOLEAN]
      /\ exit \in [Walks -> Exits] /\ walk \in [Walks -> WalkRecs]
      /\ WalkInv(k) /\ WalkBehind(k, order[w], exit[w])
      /\ k.position # 0 => SomeFilled(walk, order, v)
      /\ book[v] # 0 => SomeFilled(walk, order, v)
  BY DEF BookInv, LifecycleInv, Shapes, FillsBehind, WalkRecs
<1>o. LifecycleInv
  BY DEF BookInv
<1>1. CASE PlaceAccepted(w)
  <2> DEFINE r == [k EXCEPT !.pc = "verify", !.placed = TRUE]
             o == Resting(k.size)
  <2>1. /\ MovesTo(w, r, o, exit[w], book[v]) /\ k.pc = "place"
    BY <1>0, <1>1 DEF PlaceAccepted, MovesTo
  <2>2. /\ r.pc = "verify" /\ r.venue = k.venue /\ r.side = k.side /\ r.sent = k.sent
        /\ r.position = k.position /\ r.size = k.size
    BY <1>0 DEF WalkRecs
  <2>3. o.filled = 0 /\ o.size = k.size
    BY DEF Resting
  <2> HIDE DEF r, o
  <2>4. order[w].filled = 0 /\ k.size > 0
    BY <1>0, <2>1 DEF WalkBehind
  <2>5. WalkBehind(r, o, exit[w])
    BY <2>2, <2>3, <2>4 DEF WalkBehind
  <2> QED
    BY <2>1, <2>2, <2>3, <2>4, <2>5, Stayed DEF Unread
<1>2. ASSUME NEW taken \in BOOLEAN, PlaceFailed(w, taken)
      PROVE  BookInv'
  <2> DEFINE r == [k EXCEPT !.pc = "stopped"]
             o == IF taken THEN Resting(k.size) ELSE order[w]
  <2>1. MovesTo(w, r, o, exit[w], book[v]) /\ k.pc = "place"
    BY <1>0, <1>2 DEF PlaceFailed, Ended, MovesTo
  <2>2. /\ r.pc = "stopped" /\ r.venue = k.venue /\ r.side = k.side /\ r.sent = k.sent
        /\ r.position = k.position /\ r.size = k.size /\ r.placed = k.placed
    BY <1>0 DEF WalkRecs
  <2>3. order[w].filled = 0 /\ k.size > 0 /\ (k.placed => order[w].size > 0)
    BY <1>0, <2>1 DEF WalkBehind
  <2>4. o.filled = 0 /\ (k.placed => o.size > 0)
    BY <2>3 DEF Resting
  <2> HIDE DEF r, o
  <2>5. WalkBehind(r, o, exit[w])
    BY <2>2, <2>3, <2>4 DEF WalkBehind
  <2> QED
    BY <2>1, <2>2, <2>3, <2>4, <2>5, Stayed DEF Unread
<1>3. ASSUME NEW taken \in BOOLEAN, CloseFailed(w, taken)
      PROVE  BookInv'
  <2> DEFINE r == [k EXCEPT !.pc = "stopped"]
             e == IF taken THEN k.sent ELSE exit[w]
  <2>1. MovesTo(w, r, order[w], e, book[v]) /\ k.pc = "close"
    BY <1>0, <1>3 DEF CloseFailed, Ended, MovesTo
  <2>2. /\ r.pc = "stopped" /\ r.venue = k.venue /\ r.side = k.side /\ r.sent = k.sent
        /\ r.position = k.position /\ r.size = k.size /\ r.placed = k.placed
    BY <1>0 DEF WalkRecs
  <2>3. exit[w] # NoExit => e # NoExit
    BY <1>0, <2>1 DEF WalkInv
  <2> HIDE DEF r, e
  <2>4. WalkBehind(r, order[w], e)
    BY <1>0, <2>1, <2>2 DEF WalkBehind
  <2> QED
    BY <1>0, <2>1, <2>2, <2>3, <2>4, Stayed DEF Unread
<1>4. ASSUME NEW priced \in BOOLEAN, NEW exitPriced \in BOOLEAN,
             Verified(w, priced, exitPriced)
      PROVE  BookInv'
  <2> DEFINE held == Folded(book[v], k.side, ReadFills(w, priced))
             q == [k EXCEPT !.position = held, !.exitPriced = exitPriced]
             r == Onward(q, 1, held)
  <2>1. /\ k.pc = "verify" /\ book' = [book EXCEPT ![v] = held]
        /\ walk' = [walk EXCEPT ![w] = r] /\ order' = order /\ exit' = exit
    BY <1>4 DEF Verified
  <2>2. held \in Int
    BY <1>0, FoldedType DEF ReadFills
  <2>3. held # 0 => book[v] # 0 \/ order[w].filled > 0
    BY <1>0 DEF Folded, ReadFills
  <2>4. MovesTo(w, r, order[w], exit[w], held)
    BY <1>0, <2>1 DEF MovesTo
  <2>h. held = Folded(book[v], k.side, ReadFills(w, priced))
    OBVIOUS
  <2> HIDE DEF held
  <2>5. /\ q \in WalkRecs /\ q.venue = v /\ q.size = k.size /\ q.placed = k.placed
        /\ q.position = held /\ q.side = k.side /\ q.sent = k.sent /\ k.sent \in Exits
    BY <1>0, <1>4, <2>2 DEF WalkRecs
  <2> HIDE DEF q
  <2>6. order[w].filled <= Filled(walk, order, v, k.side) /\ k.side \in {"buy", "sell"}
        /\ Filled(walk, order, v, k.side) \in Nat
    BY <1>0, <1>o, FillAmongFills, FillsType DEF WalkRecs
  <2>7. held # 0 => SomeFilled(walk, order, v)
    BY <1>0, <2>3, <2>6 DEF SomeFilled
  <2>8. k.size > 0 /\ (k.placed => order[w].size > 0)
    BY <1>0, <2>1 DEF WalkBehind
  <2>9. r.venue = v /\ r.side = k.side /\ r.pc \notin Unread
    BY <2>2, <2>5, OnwardGoes DEF Unread
  <2>10. Told(walk', order', v, k.side) = Told(walk, order, v, k.side) + order[w].filled
    <3> HIDE DEF r
    <3> QED
      BY <1>o, <2>1, <2>9, ReadIsTold
  <2>11. Grows
    <3> HIDE DEF r
    <3> QED
      BY <1>0, <1>o, <2>4, <2>9, MoveGrows
  <2>12. ASSUME ExitFree(v)
         PROVE  /\ BookWithin(held, walk', order', v)
                /\ SentWithin(q.sent, walk', order', v)
    <3>1. BookWithin(book[v], walk, order, v) /\ SentWithin(k.sent, walk, order, v)
      BY <1>0, <2>12 DEF BookInv, FillsBound
    <3>2. SentWithin(k.sent, walk', order', v)
      BY <1>o, <2>5, <2>11, <3>1, BoundsGrow
    <3>3. \A side : /\ Told(walk, order, v, side) \in Nat
                    /\ Told(walk', order', v, side) \in Nat
                    /\ Told(walk, order, v, side) <= Told(walk', order', v, side)
      BY <1>o, <2>11, FillsGrow, FillsType, FillsTypeNext
    <3> DEFINE b == Told(walk, order, v, "buy")
               s == Told(walk, order, v, "sell")
               x == ReadFills(w, priced)
    <3>4. /\ x \in Nat /\ x <= order[w].filled /\ order[w].filled \in Nat
          /\ b \in Nat /\ s \in Nat /\ book[v] \in -s .. b
      BY <1>0, <3>1, <3>3 DEF ReadFills, BookWithin
    <3> HIDE DEF b, s, x
    <3>5. /\ Folded(book[v], "buy", x) \in -s .. b + x
          /\ Folded(book[v], "sell", x) \in -(s + x) .. b
      BY <3>4, FoldedWithin
    <3>6. CASE k.side = "buy"
      <4>1. held \in -s .. b + x
        BY <2>h, <3>5, <3>6 DEF x
      <4>2. /\ Told(walk', order', v, "buy") = b + order[w].filled
            /\ s <= Told(walk', order', v, "sell")
        BY <2>10, <3>3, <3>6 DEF b, s
      <4> QED
        BY <2>2, <2>5, <3>2, <3>3, <3>4, <4>1, <4>2 DEF BookWithin
    <3>7. CASE k.side = "sell"
      <4>1. held \in -(s + x) .. b
        BY <2>h, <3>5, <3>7 DEF x
      <4>2. /\ Told(walk', order', v, "sell") = s + order[w].filled
            /\ b <= Told(walk', order', v, "buy")
        BY <2>10, <3>3, <3>7 DEF b, s
      <4> QED
        BY <2>2, <2>5, <3>2, <3>3, <3>4, <4>1, <4>2 DEF BookWithin
    <3> QED
      BY <2>6, <3>6, <3>7
  <2> QED
    BY <1>0, <2>2, <2>4, <2>5, <2>7, <2>8, <2>12, GoneOn
<1>5. CASE Amended(w)
  <2>1. /\ k.pc = "amend"
        /\ MovesTo(w, Onward(k, 2, book[v]), order[w], exit[w], book[v])
    BY <1>0, <1>5 DEF Amended, Goes, MovesTo
  <2>2. k.size > 0 /\ (k.placed => order[w].size > 0)
    BY <1>0, <2>1 DEF WalkBehind
  <2> QED
    BY <1>0, <2>1, <2>2, GoneOnFromBook
<1>6. CASE Cancelled(w)
  <2> DEFINE o == [order[w] EXCEPT !.open = FALSE]
  <2>1. /\ k.pc = "cancel"
        /\ MovesTo(w, Onward(k, 3, book[v]), o, exit[w], book[v])
    BY <1>0, <1>6 DEF Cancelled, Goes, MovesTo
  <2>2. o.filled = order[w].filled /\ o.size = order[w].size
    BY <1>0
  <2> HIDE DEF o
  <2>3. k.size > 0 /\ (k.placed => order[w].size > 0)
    BY <1>0, <2>1 DEF WalkBehind
  <2> QED
    BY <1>0, <2>1, <2>2, <2>3, GoneOnFromBook
<1>7. CASE LegFailed(w)
  <2>1. PICK s \in {"stopped", "rejected"} :
          /\ k.pc \in {"amend", "cancel"}
          /\ MovesTo(w, [k EXCEPT !.pc = s], order[w], exit[w], book[v])
    BY <1>0, <1>7 DEF LegFailed, Ended, MovesTo
  <2> DEFINE r == [k EXCEPT !.pc = s]
  <2>2. /\ r.pc = s /\ r.venue = k.venue /\ r.side = k.side /\ r.sent = k.sent
        /\ r.position = k.position /\ r.size = k.size /\ r.placed = k.placed
    BY <1>0 DEF WalkRecs
  <2>3. MovesTo(w, r, order[w], exit[w], book[v])
    BY <2>1
  <2> HIDE DEF r
  <2>4. WalkBehind(r, order[w], exit[w])
    BY <1>0, <2>1, <2>2 DEF WalkBehind
  <2> QED
    BY <1>0, <2>1, <2>2, <2>3, <2>4, Stayed DEF Unread
<1>8. CASE CloseAccepted(w)
  <2> DEFINE b == Folded(book[v], Closing(k.position), Size(k.position))
  <2>1. /\ k.pc = "close"
        /\ MovesTo(w, Onward(k, 4, book[v]), order[w], k.sent, b)
    BY <1>0, <1>8 DEF CloseAccepted, Goes, MovesTo
  <2>2. k.sent # NoExit
    BY <1>0, <2>1 DEF WalkInv
  <2>3. k.position # 0 /\ k.size > 0 /\ (k.placed => order[w].size > 0)
    BY <1>0, <2>1 DEF WalkBehind
  <2> HIDE DEF b
  <2> QED
    BY <1>0, <2>1, <2>2, <2>3, GoneOn
<1> QED
  BY <1>1, <1>2, <1>3, <1>4, <1>5, <1>6, <1>7, <1>8 DEF Answers

LEMMA FillsKeep ==
  ASSUME BookInv, LifecycleInv', NEW w \in Walks, Fills(w)
  PROVE  BookInv'
<1> DEFINE k == walk[w]
           o == [order[w] EXCEPT !.filled = @ + 1,
                                 !.open = order[w].filled + 1 < order[w].size]
<1>1. /\ k \in WalkRecs /\ k.venue \in Venues /\ walk \in [Walks -> WalkRecs]
      /\ order \in [Walks -> [size : Nat, filled : Nat, open : BOOLEAN]]
      /\ order[w] \in [size : Nat, filled : Nat, open : BOOLEAN]
      /\ exit \in [Walks -> Exits] /\ book \in [Venues -> Int]
      /\ WalkBehind(k, order[w], exit[w])
  BY DEF BookInv, LifecycleInv, Shapes, FillsBehind, WalkRecs
<1>2. order[w].open /\ MovesTo(w, k, o, exit[w], book[k.venue])
  BY <1>1 DEF Fills, MovesTo
<1>3. o.filled = order[w].filled + 1 /\ o.size = order[w].size
  BY <1>1
<1> HIDE DEF o
<1>4. WalkBehind(k, o, exit[w])
  BY <1>1, <1>2, <1>3 DEF WalkBehind
<1>5. order[w].filled <= o.filled
  BY <1>1, <1>3
<1> QED
  BY <1>2, <1>4, <1>5, Stayed

\* The gates and the clock are beside the book.
LEMMA GatesKeep ==
  ASSUME BookInv, LifecycleInv', UNCHANGED <<book, walk, order, exit>>
  PROVE  BookInv'
<1>1. FillsBehind'
  BY DEF BookInv, FillsBehind, SomeFilled
<1>2. FillsBound'
  BY DEF BookInv, FillsBound, ExitFree, BookWithin, SentWithin
<1> QED
  BY <1>1, <1>2 DEF BookInv

\* A death empties the book and ends every walk that waits.
LEMMA RestartKeeps ==
  ASSUME BookInv, LifecycleInv', Restart
  PROVE  BookInv'
<1>1. /\ walk \in [Walks -> WalkRecs] /\ \A w \in Walks : order[w].filled \in Nat
      /\ UNCHANGED <<order, exit>> /\ \A v \in Venues : book'[v] = 0
  BY DEF BookInv, LifecycleInv, Shapes, Restart
<1>2. ASSUME NEW w \in Walks
      PROVE  /\ walk'[w].pc \in {walk[w].pc, "dead"}
             /\ walk'[w].venue = walk[w].venue /\ walk'[w].side = walk[w].side
             /\ walk'[w].size = walk[w].size /\ walk'[w].placed = walk[w].placed
             /\ walk'[w].position = walk[w].position /\ walk'[w].sent = walk[w].sent
             /\ walk'[w].pc = "dead" => walk[w].pc \in Calling \cup {"dead"}
  <2> DEFINE k == walk[w]
  <2>1. walk'[w] = IF k.pc \in Calling THEN [k EXCEPT !.pc = "dead"] ELSE k
    BY DEF Restart
  <2>2. k \in WalkRecs
    BY <1>1
  <2> HIDE DEF k
  <2>3. CASE k.pc \in Calling
    BY <2>1, <2>2, <2>3 DEF WalkRecs, k
  <2>4. CASE k.pc \notin Calling
    BY <2>1, <2>4 DEF k
  <2> QED
    BY <2>3, <2>4
<1>3. Grows
  BY <1>1, <1>2 DEF Grows, Unread
<1>4. \A v : SomeFilled(walk, order, v) => SomeFilled(walk', order', v)
  BY <1>3, BoundsGrow DEF BookInv
<1>5. ASSUME NEW w \in Walks
      PROVE  /\ WalkBehind(walk'[w], order'[w], exit'[w])
             /\ walk'[w].position # 0 => SomeFilled(walk', order', walk'[w].venue)
  <2>1. /\ WalkBehind(walk[w], order[w], exit[w])
        /\ walk[w].position # 0 => SomeFilled(walk, order, walk[w].venue)
    BY DEF BookInv, FillsBehind
  <2>2. WalkBehind(walk'[w], order'[w], exit'[w])
    BY <1>1, <1>2, <2>1 DEF WalkBehind, Calling
  <2>3. walk'[w].position # 0 => SomeFilled(walk', order', walk'[w].venue)
    BY <1>2, <1>4, <2>1
  <2> QED
    BY <2>2, <2>3
<1>6. FillsBehind'
  BY <1>1, <1>5 DEF FillsBehind, WalkBehind, SomeFilled
<1>7. ASSUME NEW v \in Venues, \A w \in Walks : walk'[w].venue = v => exit'[w] = NoExit
      PROVE  /\ BookWithin(book'[v], walk', order', v)
             /\ \A w \in Walks : walk'[w].venue = v =>
                  SentWithin(walk'[w].sent, walk', order', v)
  <2>1. ExitFree(v)
    BY <1>1, <1>2, <1>7 DEF ExitFree
  <2>2. \A w \in Walks : walk[w].venue = v => SentWithin(walk[w].sent, walk, order, v)
    BY <2>1 DEF BookInv, FillsBound
  <2>3. \A w \in Walks : walk[w].sent \in Exits
    BY <1>1 DEF WalkRecs
  <2>4. \A w \in Walks : walk'[w].venue = v => SentWithin(walk'[w].sent, walk', order', v)
    BY <1>2, <1>3, <2>2, <2>3, BoundsGrow DEF BookInv
  <2>5. \A side : Told(walk', order', v, side) \in Nat
    BY FillsTypeNext
  <2>6. BookWithin(book'[v], walk', order', v)
    BY <1>1, <2>5 DEF BookWithin
  <2> QED
    BY <2>4, <2>6
<1>8. FillsBound'
  BY <1>7 DEF FillsBound, ExitFree, BookWithin, SentWithin
<1> QED
  BY <1>6, <1>8 DEF BookInv

LEMMA BookInit == Init => BookInv
<1> SUFFICES ASSUME Init PROVE BookInv
  OBVIOUS
<1>1. ASSUME NEW w \in Walks
      PROVE  /\ walk[w].pc = "idle" /\ ~walk[w].placed
             /\ walk[w].position = 0 /\ walk[w].sent = NoExit
             /\ order[w].filled = 0 /\ ~order[w].open
  BY DEF Init, Idle, NoOrder
<1>2. LifecycleInv
  BY LifecycleInit
<1>3. \A v \in Venues : book[v] = 0
  BY DEF Init
<1>4. FillsBehind
  BY <1>1, <1>3 DEF FillsBehind, WalkBehind
<1>5. FillsBound
  <2>1. \A v, side : Told(walk, order, v, side) \in Nat
    BY <1>2, FillsType
  <2>2. \A v \in Venues : BookWithin(book[v], walk, order, v)
    BY <1>3, <2>1 DEF BookWithin
  <2>3. \A v \in Venues, w \in Walks : SentWithin(walk[w].sent, walk, order, v)
    BY <1>1 DEF NoExit, SentWithin
  <2> QED
    BY <2>2, <2>3 DEF FillsBound
<1> QED
  BY <1>2, <1>4, <1>5 DEF BookInv

LEMMA BookStep == BookInv /\ [Next]_vars => BookInv'
<1> SUFFICES ASSUME BookInv, [Next]_vars PROVE BookInv'
  OBVIOUS
<1>1. LifecycleInv'
  BY LifecycleStep DEF BookInv
<1>2. CASE UNCHANGED vars
  BY <1>1, <1>2, GatesKeep DEF vars
<1>3. CASE GatesMove
  BY <1>1, <1>3, GatesKeep DEF GatesMove
<1>4. CASE Restart
  BY <1>1, <1>4, RestartKeeps
<1>5. ASSUME NEW w \in Walks, Answers(w) \/ Fills(w) PROVE BookInv'
  BY <1>1, <1>5, AnswersKeep, FillsKeep
<1>6. ASSUME NEW w \in Walks, NEW side \in Sides, NEW size \in Sizes,
             NEW legs \in LegSets, NEW fired \in BOOLEAN,
             Start(w, side, size, legs, fired)
      PROVE  BookInv'
  BY <1>1, <1>6, StartKeeps
<1> QED
  BY <1>2, <1>3, <1>4, <1>5, <1>6 DEF Next

LEMMA BookInvariant == Spec => []BookInv
  BY BookInit, BookStep, PTL DEF Spec

\* A walk that reports `completed` has an entry and an exit the venue accepted,
\* and the venue filled something (runVenueLifecycle: the close leg is reached
\* with a position that was read, and a position is read only from fills).
THEOREM CompletedWasReal == Spec => []CompletedIsReal
<1>1. BookInv => CompletedIsReal
  <2> SUFFICES ASSUME BookInv, NEW w \in Walks, walk[w].pc = "completed"
               PROVE  /\ order[w] # NoOrder /\ exit[w] # NoExit
                      /\ \E side \in {"buy", "sell"} : FilledOn(walk[w].venue, side) > 0
    BY DEF CompletedIsReal
  <2>1. /\ WalkBehind(walk[w], order[w], exit[w])
        /\ walk[w].position # 0 => SomeFilled(walk, order, walk[w].venue)
    BY DEF BookInv, FillsBehind
  <2>2. order[w].size > 0 /\ exit[w] # NoExit /\ walk[w].position # 0
    BY <2>1 DEF WalkBehind
  <2>3. order[w] # NoOrder
    BY <2>2 DEF NoOrder
  <2>4. \E side \in {"buy", "sell"} : FilledOn(walk[w].venue, side) > 0
    BY <2>1, <2>2, FilledIsSum DEF SomeFilled
  <2> QED
    BY <2>2, <2>3, <2>4
<1> QED
  BY <1>1, BookInvariant, PTL

\* Until a venue has an exit its book is no longer than what was bought there and
\* no shorter than what was sold, and no walk sends more than that: however many
\* walks overlap, on either side, no fill is folded twice and none is guessed
\* (foldFillIntoPositions, verifyFill).
THEOREM BookStaysWithinFills == Spec => []BookWithinFills
<1>1. BookInv => BookWithinFills
  <2> SUFFICES ASSUME BookInv, NEW v \in Venues, ExitFree(v)
               PROVE  /\ book[v] \in -FilledOn(v, "sell") .. FilledOn(v, "buy")
                      /\ \A w \in Walks : walk[w].venue = v =>
                           /\ walk[w].sent.side = "sell" =>
                                walk[w].sent.amount <= FilledOn(v, "buy")
                           /\ walk[w].sent.side = "buy" =>
                                walk[w].sent.amount <= FilledOn(v, "sell")
    BY DEF BookWithinFills, ExitFree
  <2>1. /\ BookWithin(book[v], walk, order, v) /\ book[v] \in Int
        /\ \A w \in Walks : walk[w].venue = v => SentWithin(walk[w].sent, walk, order, v)
    BY DEF BookInv, FillsBound, LifecycleInv, Shapes
  <2>2. \A side : /\ Told(walk, order, v, side) \in Nat
                  /\ Filled(walk, order, v, side) \in Nat
                  /\ Told(walk, order, v, side) <= Filled(walk, order, v, side)
    BY FillsType DEF BookInv
  <2>3. book[v] \in -Filled(walk, order, v, "sell") .. Filled(walk, order, v, "buy")
    BY <2>1, <2>2 DEF BookWithin
  <2> QED
    BY <2>1, <2>3, FilledIsSum DEF SentWithin
<1> QED
  BY <1>1, BookInvariant, PTL

-----------------------------------------------------------------------------
(* What a walk sends, and when.                                                 *)

\* What one turn of walk w makes of its record k: it never comes back to its
\* entry, changes its exit only in a turn that ends it, and while the book is the
\* position it read, it holds an exit for that position only.
Turn(k, r, o, e, b, w) ==
  /\ r.venue = k.venue
  /\ k.pc \notin Done /\ r.pc # "idle"
  /\ r.pc = "place" => k.pc = "idle"
  /\ o.size = order[w].size \/ k.pc = "place"
  /\ e = exit[w] \/ r.pc \in Done
  /\ r.pc \notin Done /\ book[k.venue] = k.position =>
       b = r.position /\ (r.pc = "close" => r.sent = ExitFor(r.position))

\* A turn that goes on.
LEMMA OnwardTurn ==
  ASSUME LifecycleInv, NEW w \in Walks, NEW q \in WalkRecs, NEW n \in 0..4,
         NEW held \in Int, NEW o, NEW e, NEW b,
         q.venue = walk[w].venue, walk[w].pc \notin Done,
         n = 0 => walk[w].pc = "idle",
         o.size = order[w].size,
         e = exit[w] \/ Onward(q, n, held).pc \in Done,
         Onward(q, n, held).pc \notin Done /\ book[walk[w].venue] = walk[w].position =>
           b = q.position /\ held = q.position
  PROVE  Turn(walk[w], Onward(q, n, held), o, e, b, w)
<1> DEFINE r == Onward(q, n, held)
<1>1. /\ r.position = q.position /\ r.venue = q.venue
      /\ r.pc \notin {"idle", "verify"}
      /\ n >= 1 => r.pc # "place"
      /\ r.pc = "close" => q.position # 0 /\ r.sent = ExitFor(held)
  BY OnwardGoes
<1> HIDE DEF r
<1>2. r.pc = "place" => n = 0
  BY <1>1
<1> QED
  BY <1>1, <1>2 DEF Turn, r

LEMMA AnswersTurn ==
  ASSUME LifecycleInv, NEW w \in Walks, Answers(w)
  PROVE  \E r, o, e, b : MovesTo(w, r, o, e, b) /\ Turn(walk[w], r, o, e, b, w)
<1> DEFINE k == walk[w]
           v == k.venue
<1>0. /\ k \in WalkRecs /\ v \in Venues /\ k.position \in Int
      /\ book \in [Venues -> Int] /\ book[v] \in Int
      /\ order \in [Walks -> [size : Nat, filled : Nat, open : BOOLEAN]]
      /\ order[w] \in [size : Nat, filled : Nat, open : BOOLEAN]
      /\ exit \in [Walks -> Exits] /\ walk \in [Walks -> WalkRecs]
  BY DEF LifecycleInv, Shapes, WalkRecs
<1>1. CASE PlaceAccepted(w)
  <2> DEFINE r == [k EXCEPT !.pc = "verify", !.placed = TRUE]
  <2>1. MovesTo(w, r, Resting(k.size), exit[w], book[v]) /\ k.pc = "place"
    BY <1>0, <1>1 DEF PlaceAccepted, MovesTo
  <2>2. r.pc = "verify" /\ r.venue = k.venue /\ r.position = k.position
    BY <1>0 DEF WalkRecs
  <2> HIDE DEF r
  <2>3. Turn(k, r, Resting(k.size), exit[w], book[v], w)
    BY <2>1, <2>2 DEF Turn, Done
  <2> QED
    BY <2>1, <2>3
<1>2. ASSUME NEW taken \in BOOLEAN, PlaceFailed(w, taken)
      PROVE  \E r, o, e, b : MovesTo(w, r, o, e, b) /\ Turn(k, r, o, e, b, w)
  <2> DEFINE r == [k EXCEPT !.pc = "stopped"]
             o == IF taken THEN Resting(k.size) ELSE order[w]
  <2>1. MovesTo(w, r, o, exit[w], book[v]) /\ k.pc = "place"
    BY <1>0, <1>2 DEF PlaceFailed, Ended, MovesTo
  <2>2. r.pc = "stopped" /\ r.venue = k.venue
    BY <1>0 DEF WalkRecs
  <2> HIDE DEF r, o
  <2>3. Turn(k, r, o, exit[w], book[v], w)
    BY <2>1, <2>2 DEF Turn, Done
  <2> QED
    BY <2>1, <2>3
<1>3. ASSUME NEW taken \in BOOLEAN, CloseFailed(w, taken)
      PROVE  \E r, o, e, b : MovesTo(w, r, o, e, b) /\ Turn(k, r, o, e, b, w)
  <2> DEFINE r == [k EXCEPT !.pc = "stopped"]
             e == IF taken THEN k.sent ELSE exit[w]
  <2>1. MovesTo(w, r, order[w], e, book[v]) /\ k.pc = "close"
    BY <1>0, <1>3 DEF CloseFailed, Ended, MovesTo
  <2>2. r.pc = "stopped" /\ r.venue = k.venue
    BY <1>0 DEF WalkRecs
  <2> HIDE DEF r, e
  <2>3. Turn(k, r, order[w], e, book[v], w)
    BY <2>1, <2>2 DEF Turn, Done
  <2> QED
    BY <2>1, <2>3
<1>4. ASSUME NEW priced \in BOOLEAN, NEW exitPriced \in BOOLEAN,
             Verified(w, priced, exitPriced)
      PROVE  \E r, o, e, b : MovesTo(w, r, o, e, b) /\ Turn(k, r, o, e, b, w)
  <2> DEFINE held == Folded(book[v], k.side, ReadFills(w, priced))
             q == [k EXCEPT !.position = held, !.exitPriced = exitPriced]
             r == Onward(q, 1, held)
  <2>1. /\ k.pc = "verify" /\ book' = [book EXCEPT ![v] = held]
        /\ walk' = [walk EXCEPT ![w] = r] /\ order' = order /\ exit' = exit
    BY <1>4 DEF Verified
  <2>2. held \in Int
    BY <1>0, FoldedType DEF ReadFills
  <2>3. MovesTo(w, r, order[w], exit[w], held)
    BY <1>0, <2>1 DEF MovesTo
  <2> HIDE DEF held
  <2>4. q \in WalkRecs /\ q.venue = v /\ q.position = held
    BY <1>0, <1>4, <2>2 DEF WalkRecs
  <2> HIDE DEF q
  <2>5. Turn(k, r, order[w], exit[w], held, w)
    BY <2>1, <2>2, <2>4, OnwardTurn DEF Done
  <2> QED
    BY <2>3, <2>5
<1>5. CASE Amended(w)
  <2>1. /\ k.pc = "amend"
        /\ MovesTo(w, Onward(k, 2, book[v]), order[w], exit[w], book[v])
    BY <1>0, <1>5 DEF Amended, Goes, MovesTo
  <2>2. 2 \in 0..4 /\ k.pc \notin Done
    BY <2>1 DEF Done
  <2>3. \A q \in WalkRecs :
          q.venue = k.venue /\ q.position = k.position =>
            Turn(k, Onward(q, 2, book[v]), order[w], exit[w], book[v], w)
    BY <1>0, <2>2, OnwardTurn
  <2>4. Turn(k, Onward(k, 2, book[v]), order[w], exit[w], book[v], w)
    BY <1>0, <2>3
  <2> QED
    BY <2>1, <2>4
<1>6. CASE Cancelled(w)
  <2> DEFINE o == [order[w] EXCEPT !.open = FALSE]
  <2>1. /\ k.pc = "cancel"
        /\ MovesTo(w, Onward(k, 3, book[v]), o, exit[w], book[v])
    BY <1>0, <1>6 DEF Cancelled, Goes, MovesTo
  <2>2. o.size = order[w].size
    BY <1>0
  <2> HIDE DEF o
  <2>3. Turn(k, Onward(k, 3, book[v]), o, exit[w], book[v], w)
    <3>1. 3 \in 0..4 /\ k.pc \notin Done
      BY <2>1 DEF Done
    <3>2. \A q \in WalkRecs :
            q.venue = k.venue /\ q.position = k.position =>
              Turn(k, Onward(q, 3, book[v]), o, exit[w], book[v], w)
      BY <1>0, <2>2, <3>1, OnwardTurn
    <3> QED
      BY <1>0, <3>2
  <2> QED
    BY <2>1, <2>3
<1>7. CASE LegFailed(w)
  <2>1. PICK s \in {"stopped", "rejected"} :
          /\ k.pc \in {"amend", "cancel"}
          /\ MovesTo(w, [k EXCEPT !.pc = s], order[w], exit[w], book[v])
    BY <1>0, <1>7 DEF LegFailed, Ended, MovesTo
  <2> DEFINE r == [k EXCEPT !.pc = s]
  <2>2. MovesTo(w, r, order[w], exit[w], book[v]) /\ r.pc = s /\ r.venue = k.venue
    BY <1>0, <2>1 DEF WalkRecs
  <2> HIDE DEF r
  <2>3. Turn(k, r, order[w], exit[w], book[v], w)
    BY <2>1, <2>2 DEF Turn, Done
  <2> QED
    BY <2>2, <2>3
<1>8. CASE CloseAccepted(w)
  <2> DEFINE b == Folded(book[v], Closing(k.position), Size(k.position))
             r == Onward(k, 4, book[v])
  <2>1. k.pc = "close" /\ MovesTo(w, r, order[w], k.sent, b)
    BY <1>0, <1>8 DEF CloseAccepted, Goes, MovesTo
  <2>2. r.pc \in {"completed", "stopped"}
    BY <1>0 DEF Onward, WalkRecs
  <2>3. r.pc \in Done
    BY <2>2 DEF Done
  <2> HIDE DEF b
  <2>4. 4 \in 0..4 /\ k.pc \notin Done
    BY <2>1 DEF Done
  <2>5. Turn(k, r, order[w], k.sent, b, w)
    BY <1>0, <2>3, <2>4, OnwardTurn
  <2> QED
    BY <2>1, <2>5
<1> QED
  BY <1>1, <1>2, <1>3, <1>4, <1>5, <1>6, <1>7, <1>8 DEF Answers

LEMMA StartTurn ==
  ASSUME LifecycleInv, NEW w \in Walks, NEW side \in Sides, NEW size \in Sizes,
         NEW legs \in LegSets, NEW fired \in BOOLEAN, Start(w, side, size, legs, fired)
  PROVE  \E r, o, e, b : MovesTo(w, r, o, e, b) /\ Turn(walk[w], r, o, e, b, w)
<1> DEFINE k == walk[w]
           q == [k EXCEPT !.side = side, !.size = size, !.legs = legs,
                          !.now = day, !.fired = fired]
           v == k.venue
<1>1. /\ k \in WalkRecs /\ day \in Nat /\ v \in Venues
      /\ order \in [Walks -> [size : Nat, filled : Nat, open : BOOLEAN]]
      /\ exit \in [Walks -> Exits] /\ book \in [Venues -> Int] /\ book[v] \in Int
  BY DEF LifecycleInv, Shapes, WalkRecs
<1>2. side \in {"buy", "sell"} /\ size \in Nat /\ legs \in SUBSET LegNames
  BY LifecycleAssumption DEF LegNames
<1>3. /\ k.pc = "idle"
      /\ walk' = [walk EXCEPT ![w] = Onward(q, 0, book[v])]
      /\ UNCHANGED <<order, exit, book>>
  BY DEF Start
<1>4. MovesTo(w, Onward(q, 0, book[v]), order[w], exit[w], book[v])
  BY <1>1, <1>3 DEF MovesTo
<1>5. k.venue = v
  OBVIOUS
<1> HIDE DEF k
<1>6. q \in WalkRecs
  BY <1>1, <1>2 DEF WalkRecs
<1>7. q.venue = k.venue /\ q.position = k.position
  BY <1>1 DEF WalkRecs
<1> HIDE DEF q
<1>8. /\ 0 \in 0..4 /\ walk[w].pc = "idle" /\ walk[w].pc \notin Done
      /\ q.venue = walk[w].venue /\ v = walk[w].venue
      /\ q.position = walk[w].position /\ book[v] \in Int
  BY <1>1, <1>3, <1>7 DEF Done, k
<1> HIDE DEF v
<1>9. Turn(walk[w], Onward(q, 0, book[v]), order[w], exit[w], book[v], w)
  BY <1>6, <1>8, OnwardTurn
<1> QED
  BY <1>4, <1>9 DEF k

\* The orders a walk has sent, and what a walk that runs alone knows of the book.
OrdersSent ==
  \A w \in Walks :
    /\ walk[w].pc \in {"idle", "place"} => order[w].size = 0
    /\ exit[w] # NoExit => walk[w].pc \in Done
    /\ walk[w].pc = "idle" => walk[w].position = 0

AloneOn(w) ==
  \A x \in Walks : x # w /\ walk[x].venue = walk[w].venue => walk[x].pc = "idle"

AloneKnows ==
  \A w \in Walks :
    AloneOn(w) /\ walk[w].pc \notin Done =>
      /\ book[walk[w].venue] = walk[w].position
      /\ walk[w].pc = "close" => walk[w].sent = ExitFor(walk[w].position)

SendInv == LifecycleInv /\ OrdersSent /\ AloneKnows

\* An entry once accepted and an exit once accepted stay what they are.
SendsOnce ==
  [][\A w \in Walks :
       /\ order[w].size > 0 => order'[w].size = order[w].size
       /\ exit[w] # NoExit => exit'[w] = exit[w]]_vars

LEMMA SendInit == Init => SendInv
<1> SUFFICES ASSUME Init PROVE SendInv
  OBVIOUS
<1>1. LifecycleInv
  BY LifecycleInit
<1>2. ASSUME NEW w \in Walks
      PROVE  /\ walk[w].pc = "idle" /\ walk[w].position = 0
             /\ order[w].size = 0 /\ exit[w] = NoExit
             /\ walk[w].venue \in Venues /\ book[walk[w].venue] = 0
  BY DEF Init, Idle, NoOrder
<1>3. OrdersSent
  BY <1>2 DEF OrdersSent
<1>4. AloneKnows
  BY <1>2 DEF AloneKnows
<1> QED
  BY <1>1, <1>3, <1>4 DEF SendInv

\* A turn of one walk keeps both, and sends nothing a second time.
LEMMA TurnKeeps ==
  ASSUME SendInv, LifecycleInv', NEW w \in Walks, NEW r, NEW o, NEW e, NEW b,
         MovesTo(w, r, o, e, b), Turn(walk[w], r, o, e, b, w)
  PROVE  /\ SendInv'
         /\ \A x \in Walks : /\ order[x].size > 0 => order'[x].size = order[x].size
                             /\ exit[x] # NoExit => exit'[x] = exit[x]
<1> DEFINE k == walk[w]
           v == k.venue
<1>1. /\ walk \in [Walks -> WalkRecs] /\ v \in Venues /\ book \in [Venues -> Int]
      /\ order \in [Walks -> [size : Nat, filled : Nat, open : BOOLEAN]]
      /\ exit \in [Walks -> Exits]
  BY DEF SendInv, LifecycleInv, Shapes, WalkRecs
<1>2. /\ walk'[w] = r /\ order'[w] = o /\ exit'[w] = e /\ book'[v] = b
      /\ \A u \in Venues : u # v => book'[u] = book[u]
  BY <1>1 DEF MovesTo
<1>3. \A x \in Walks : x # w =>
        walk'[x] = walk[x] /\ order'[x] = order[x] /\ exit'[x] = exit[x]
  BY <1>1 DEF MovesTo
<1>4. /\ r.venue = v /\ k.pc \notin Done /\ r.pc # "idle"
      /\ r.pc = "place" => k.pc = "idle"
      /\ o.size = order[w].size \/ k.pc = "place"
      /\ e = exit[w] \/ r.pc \in Done
      /\ r.pc \notin Done /\ book[v] = k.position =>
           b = r.position /\ (r.pc = "close" => r.sent = ExitFor(r.position))
  BY DEF Turn
<1>5. /\ k.pc \in {"idle", "place"} => order[w].size = 0
      /\ exit[w] # NoExit => k.pc \in Done
  BY DEF SendInv, OrdersSent
<1>6. OrdersSent'
  <2> SUFFICES ASSUME NEW x \in Walks
               PROVE  /\ walk'[x].pc \in {"idle", "place"} => order'[x].size = 0
                      /\ exit'[x] # NoExit => walk'[x].pc \in Done
                      /\ walk'[x].pc = "idle" => walk'[x].position = 0
    BY DEF OrdersSent
  <2>1. CASE x = w
    BY <1>2, <1>4, <1>5, <2>1
  <2>2. CASE x # w
    BY <1>3, <2>2 DEF SendInv, OrdersSent
  <2> QED
    BY <2>1, <2>2
<1>7. AloneKnows'
  <2> SUFFICES ASSUME NEW x \in Walks, walk'[x].pc \notin Done,
                      \A y \in Walks : y # x /\ walk'[y].venue = walk'[x].venue
                                         => walk'[y].pc = "idle"
               PROVE  /\ book'[walk'[x].venue] = walk'[x].position
                      /\ walk'[x].pc = "close" => walk'[x].sent = ExitFor(walk'[x].position)
    BY DEF AloneKnows, AloneOn, ExitFor, Closing, Size
  <2>1. CASE x = w
    <3>1. AloneOn(w)
      BY <1>2, <1>3, <1>4, <2>1 DEF AloneOn
    <3>2. book[v] = k.position
      BY <1>4, <3>1 DEF SendInv, AloneKnows
    <3> QED
      BY <1>2, <1>4, <2>1, <3>2
  <2>2. CASE x # w
    <3>1. walk'[x] = walk[x] /\ walk[x].venue \in Venues /\ walk[x].venue # v
      BY <1>1, <1>2, <1>3, <1>4, <2>2 DEF WalkRecs
    <3>2. AloneOn(x)
      <4> SUFFICES ASSUME NEW y \in Walks, y # x, walk[y].venue = walk[x].venue
                   PROVE  walk[y].pc = "idle"
        BY DEF AloneOn
      <4>1. y # w
        BY <3>1
      <4> QED
        BY <1>3, <3>1, <4>1
    <3>3. /\ book[walk[x].venue] = walk[x].position
          /\ walk[x].pc = "close" => walk[x].sent = ExitFor(walk[x].position)
      BY <3>1, <3>2 DEF SendInv, AloneKnows
    <3> QED
      BY <1>2, <3>1, <3>3
  <2> QED
    BY <2>1, <2>2
<1>8. \A x \in Walks : /\ order[x].size > 0 => order'[x].size = order[x].size
                       /\ exit[x] # NoExit => exit'[x] = exit[x]
  <2> SUFFICES ASSUME NEW x \in Walks
               PROVE  /\ order[x].size > 0 => order'[x].size = order[x].size
                      /\ exit[x] # NoExit => exit'[x] = exit[x]
    OBVIOUS
  <2>1. CASE x = w
    BY <1>2, <1>4, <1>5, <2>1
  <2>2. CASE x # w
    BY <1>3, <2>2
  <2> QED
    BY <2>1, <2>2
<1> QED
  BY <1>6, <1>7, <1>8 DEF SendInv

\* A fill, the gates and the clock leave what was sent and what a walk knows.
LEMMA BesideKeeps ==
  ASSUME SendInv, LifecycleInv', UNCHANGED <<walk, book, exit>>,
         \A w \in Walks : order'[w].size = order[w].size
  PROVE  SendInv'
<1>1. OrdersSent'
  BY DEF SendInv, OrdersSent
<1>2. AloneKnows'
  BY DEF SendInv, AloneKnows, AloneOn, ExitFor, Closing, Size
<1> QED
  BY <1>1, <1>2 DEF SendInv

LEMMA RestartKeepsSent ==
  ASSUME SendInv, LifecycleInv', Restart
  PROVE  SendInv'
<1>1. /\ walk \in [Walks -> WalkRecs] /\ UNCHANGED <<order, exit>>
      /\ \A v \in Venues : book'[v] = 0
  BY DEF SendInv, LifecycleInv, Shapes, Restart
<1>2. ASSUME NEW w \in Walks
      PROVE  \/ walk'[w].pc = "dead"
             \/ walk'[w] = walk[w] /\ walk[w].pc \in {"idle"} \cup Done
  <2> DEFINE k == walk[w]
  <2>1. walk'[w] = IF k.pc \in Calling THEN [k EXCEPT !.pc = "dead"] ELSE k
    BY DEF Restart
  <2>2. k \in WalkRecs
    BY <1>1
  <2> HIDE DEF k
  <2>3. CASE k.pc \in Calling
    BY <2>1, <2>2, <2>3 DEF WalkRecs
  <2>4. CASE k.pc \notin Calling
    <3>1. k.pc \in {"idle"} \cup Done
      BY <2>2, <2>4 DEF WalkRecs
    <3> QED
      BY <2>1, <2>4, <3>1 DEF k
  <2> QED
    BY <2>3, <2>4
<1>3. \A w \in Walks : walk[w].venue \in Venues /\ walk'[w].venue \in Venues
  BY <1>1 DEF LifecycleInv, Shapes, WalkRecs
<1>4. OrdersSent'
  BY <1>1, <1>2 DEF SendInv, OrdersSent, Done
<1>5. AloneKnows'
  <2> SUFFICES ASSUME NEW w \in Walks, walk'[w].pc \notin Done
               PROVE  /\ book'[walk'[w].venue] = walk'[w].position
                      /\ walk'[w].pc # "close"
    BY DEF AloneKnows, AloneOn
  <2>1. walk'[w] = walk[w] /\ walk[w].pc = "idle"
    BY <1>2 DEF Done
  <2> QED
    BY <1>1, <1>3, <2>1 DEF SendInv, OrdersSent
<1> QED
  BY <1>4, <1>5 DEF SendInv

LEMMA SendStep ==
  SendInv /\ [Next]_vars =>
    /\ SendInv'
    /\ \A w \in Walks : /\ order[w].size > 0 => order'[w].size = order[w].size
                        /\ exit[w] # NoExit => exit'[w] = exit[w]
<1> DEFINE Kept == \A w \in Walks :
                     /\ order[w].size > 0 => order'[w].size = order[w].size
                     /\ exit[w] # NoExit => exit'[w] = exit[w]
<1> SUFFICES ASSUME SendInv, [Next]_vars PROVE SendInv' /\ Kept
  OBVIOUS
<1>1. LifecycleInv'
  BY LifecycleStep DEF SendInv
<1>2. CASE UNCHANGED vars
  BY <1>1, <1>2, BesideKeeps DEF vars
<1>3. CASE GatesMove
  BY <1>1, <1>3, BesideKeeps DEF GatesMove
<1>4. CASE Restart
  <2>1. SendInv'
    BY <1>1, <1>4, RestartKeepsSent
  <2>2. UNCHANGED <<order, exit>>
    BY <1>4 DEF Restart
  <2> QED
    BY <2>1, <2>2
<1>5. ASSUME NEW w \in Walks, Fills(w) PROVE SendInv' /\ Kept
  <2>1. UNCHANGED <<walk, book, exit>>
    BY <1>5 DEF Fills
  <2>2. \A x \in Walks : order'[x].size = order[x].size
    BY <1>5 DEF Fills, SendInv, LifecycleInv, Shapes
  <2>3. SendInv'
    BY <1>1, <2>1, <2>2, BesideKeeps
  <2> QED
    BY <2>1, <2>2, <2>3
<1>6. ASSUME NEW w \in Walks, Answers(w) PROVE SendInv' /\ Kept
  <2>1. PICK r, o, e, b : MovesTo(w, r, o, e, b) /\ Turn(walk[w], r, o, e, b, w)
    BY <1>6, AnswersTurn DEF SendInv
  <2> QED
    BY <1>1, <2>1, TurnKeeps
<1>7. ASSUME NEW w \in Walks, NEW side \in Sides, NEW size \in Sizes,
             NEW legs \in LegSets, NEW fired \in BOOLEAN,
             Start(w, side, size, legs, fired)
      PROVE  SendInv' /\ Kept
  <2>1. PICK r, o, e, b : MovesTo(w, r, o, e, b) /\ Turn(walk[w], r, o, e, b, w)
    BY <1>7, StartTurn DEF SendInv
  <2> QED
    BY <1>1, <2>1, TurnKeeps
<1> QED
  BY <1>2, <1>3, <1>4, <1>5, <1>6, <1>7 DEF Next

LEMMA SendInvariant == Spec => []SendInv
<1>1. SendInv /\ [Next]_vars => SendInv'
  BY SendStep
<1> QED
  BY <1>1, SendInit, PTL DEF Spec

\* A walk sends its entry once and its exit once: nothing it does later, and no
\* restart, sends either again, and a failed answer ends the walk
\* (runVenueLifecycle, one call per leg and no retry).
THEOREM WalkSendsOnce == Spec => SendsOnce
<1>1. SendInv /\ [Next]_vars =>
        [\A w \in Walks : /\ order[w].size > 0 => order'[w].size = order[w].size
                          /\ exit[w] # NoExit => exit'[w] = exit[w]]_vars
  BY SendStep
<1> QED
  BY <1>1, SendInvariant, PTL DEF Spec, SendsOnce

AloneSendsWhatItRead ==
  \A w \in Walks :
    AloneOn(w) /\ walk[w].pc = "close" =>
      walk[w].sent = ExitFor(walk[w].position)

\* A walk with no other walk on its venue closes what it read: the exit it sends
\* is the one for the position it verified.  Where a walk sends another size than
\* its consent was anchored over, a second walk moved the book between its verify
\* and its close (closePosition takes the side and the size from the book).
THEOREM AloneWalkClosesWhatItRead == Spec => []AloneSendsWhatItRead
<1>1. SendInv => AloneSendsWhatItRead
  BY DEF SendInv, AloneKnows, AloneSendsWhatItRead, Done
<1> QED
  BY <1>1, SendInvariant, PTL
=============================================================================
