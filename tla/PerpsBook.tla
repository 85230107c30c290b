----------------------------- MODULE PerpsBook -----------------------------
(***************************************************************************)
(* The book of open perpetual positions (livePositionManager.mjs): an      *)
(* array in memory, written whole to a file after every change.  It is     *)
(* changed by a verified fill (trackOpen, recordClose) and by comparing it *)
(* with the venue's own view (reconcileWithVenue), which drops what the    *)
(* venue no longer shows and adopts what only the venue shows.             *)
(*                                                                         *)
(* A pair is a (symbol, side).  A position tracked from a fill carries the *)
(* venue's order id; an adopted one carries "venue:<symbol>:<side>", which *)
(* is the pair itself.  Prices, fees, funding and P&L are left out: a      *)
(* close returns them and nothing stores them.                             *)
(***************************************************************************)
EXTENDS Naturals, FiniteSets

CONSTANTS
  Pairs,          \* (symbol, side) of a position
  OrderIds,       \* the ids the venue gives to orders, in this order
  MaxSize,        \* bound: the largest position, in contracts
  WriteOutcomes,  \* what writeFileSync may do: "ok", "kept" or "torn"
  Torn            \* a positions file that was cut off

ASSUME BookAssumption ==
  /\ MaxSize \in Nat /\ OrderIds \subseteq Nat
  /\ WriteOutcomes \subseteq {"ok", "kept", "torn"}
  /\ Pairs \cap OrderIds = {}

VARIABLES
  book,     \* positionsStore: the open positions by id, in memory
  file,     \* ccxt-perps-positions.json
  healthy,  \* positionsStoreHealth.ok, decided at boot
  latched   \* reconciledOnBoot

bookVars == <<book, file, healthy, latched>>

Ids       == OrderIds \cup Pairs
Positions == [pair : Pairs, size : 1..MaxSize]
Books     == UNION {[S -> Positions] : S \in SUBSET Ids}
Views     == [Pairs -> 0..MaxSize]      \* what positionView answers, by pair
NoBook    == [id \in {} |-> 0]

Without(b, S)  == [id \in DOMAIN b \ S |-> b[id]]
With(b, id, r) == [i \in DOMAIN b \cup {id} |-> IF i = id THEN r ELSE b[i]]
PairsOf(b)     == {b[id].pair : id \in DOMAIN b}

BookInit == book = NoBook /\ file = NoBook /\ healthy = TRUE /\ latched = FALSE

-----------------------------------------------------------------------------
\* persistPositions after the array has changed: `w` is what the write does.
Persist(w) ==
  file' = CASE w = "ok" -> book' [] w = "kept" -> file [] w = "torn" -> Torn

\* trackOpen: an unhealthy store and an id that is still open are refused.
CanTrack(id) == healthy /\ id \notin DOMAIN book

trackOpen(id, pair, size, w) ==
  /\ CanTrack(id)
  /\ book' = With(book, id, [pair |-> pair, size |-> size])
  /\ Persist(w)
  /\ UNCHANGED <<healthy, latched>>

\* A slip: every record of the pair leaves with the one that was closed.
recordCloseOfPair(id, w) ==
  /\ healthy /\ id \in DOMAIN book
  /\ book' = Without(book, {i \in DOMAIN book : book[i].pair = book[id].pair})
  /\ Persist(w)
  /\ UNCHANGED <<healthy, latched>>

\* recordClose: the whole position leaves the book, whatever the fill's size.
CanClose(id) == healthy /\ id \in DOMAIN book

recordClose(id, w) ==
  /\ CanClose(id)
  /\ book' = Without(book, {id})
  /\ Persist(w)
  /\ UNCHANGED <<healthy, latched>>

\* A slip: what the venue no longer shows stays in the book.
ReconcileAdoptsOnly(view, adopted) ==
  [id \in DOMAIN book \cup adopted |->
     IF id \in adopted THEN [pair |-> id, size |-> view[id]] ELSE book[id]]

\* reconcileWithVenue on an answered view: records of a pair the venue shows
\* stay as they are (sizes too, and all of them when a pair has several), the
\* others go, and those of the unknown pairs are adopted whose row has a positive
\* entry price.
Unknown(view) == {p \in Pairs : view[p] > 0} \ PairsOf(book)

Reconciled(view, adopted) ==
  LET stay == {id \in DOMAIN book : view[book[id].pair] > 0}
  IN  [id \in stay \cup adopted |->
         IF id \in adopted THEN [pair |-> id, size |-> view[id]] ELSE book[id]]

\* `boot` is bootReconcile, which latches only when nothing threw.
reconcileWithVenue(view, adopted, boot, w) ==
  /\ healthy
  /\ adopted \subseteq Unknown(view)
  /\ book' = Reconciled(view, adopted)
  /\ Persist(w)
  /\ latched' = (latched \/ (boot /\ w = "ok"))
  /\ UNCHANGED healthy

\* A slip: a file that does not parse is taken for the book.
RebootBlind ==
  /\ healthy' = TRUE /\ book' = file /\ latched' = FALSE
  /\ UNCHANGED file

\* A new process: bootPositions reads the file once.
Reboot ==
  /\ healthy' = (file # Torn)
  /\ book' = IF file = Torn THEN NoBook ELSE file
  /\ latched' = FALSE
  /\ UNCHANGED file
=============================================================================
