-------------------------- MODULE PerpsRailProofs --------------------------
(***************************************************************************)
(* The perps rail, for every number of proposals, clicks, readers, pairs   *)
(* and orders: an order leaves at most once for a key, a listed close has  *)
(* an outcome, no position is larger than the fill it is named after or of *)
(* a pair nobody recorded, none leaves without evidence, and a true look   *)
(* at the venue repairs the book.                                          *)
(***************************************************************************)
EXTENDS PerpsRail, TLAPS

-----------------------------------------------------------------------------
(* The operators on books.                                                   *)

\* What it is to be a book.
LEMMA BookIs ==
  /\ \A S \in SUBSET Ids : \A b \in [S -> Positions] : b \in Books
  /\ \A b \in Books : /\ DOMAIN b \subseteq Ids
                      /\ b \in [DOMAIN b -> Positions]
                      /\ \A id \in DOMAIN b : b[id] \in Positions
  BY DEF Books

LEMMA EmptyBook == NoBook \in Books /\ DOMAIN NoBook = {}
<1>1. NoBook \in [{} -> Positions] /\ {} \in SUBSET Ids /\ DOMAIN NoBook = {}
  BY DEF NoBook
<1> QED
  BY <1>1, BookIs

\* A book with one more position.
LEMMA WithIs ==
  ASSUME NEW b \in Books, NEW id \in Ids, NEW r \in Positions
  PROVE  /\ With(b, id, r) \in Books
         /\ DOMAIN With(b, id, r) = DOMAIN b \cup {id}
         /\ \A i \in DOMAIN b \cup {id} :
              With(b, id, r)[i] = IF i = id THEN r ELSE b[i]
<1>1. DOMAIN b \cup {id} \in SUBSET Ids /\ \A i \in DOMAIN b : b[i] \in Positions
  BY BookIs
<1>2. With(b, id, r) \in [DOMAIN b \cup {id} -> Positions]
  BY <1>1 DEF With
<1> QED
  BY <1>1, <1>2, BookIs DEF With

\* A book without some of its positions.
LEMMA WithoutIs ==
  ASSUME NEW b \in Books, NEW S
  PROVE  /\ Without(b, S) \in Books
         /\ DOMAIN Without(b, S) = DOMAIN b \ S
         /\ \A i \in DOMAIN b \ S : Without(b, S)[i] = b[i]
<1>1. DOMAIN b \ S \in SUBSET Ids /\ \A i \in DOMAIN b : b[i] \in Positions
  BY BookIs
<1>2. Without(b, S) \in [DOMAIN b \ S -> Positions]
  BY <1>1 DEF Without
<1> QED
  BY <1>1, <1>2, BookIs DEF Without

\* A book compared with a view that adopts what `adopted` names.
Stay(b, look) == {id \in DOMAIN b : look[b[id].pair] > 0}

LEMMA ReconciledIs ==
  ASSUME book \in Books, NEW look \in Views, NEW adopted, adopted \subseteq Unknown(look)
  PROVE  /\ Reconciled(look, adopted) \in Books
         /\ DOMAIN Reconciled(look, adopted) = Stay(book, look) \cup adopted
<1>1. DOMAIN book \subseteq Ids /\ \A id \in DOMAIN book : book[id] \in Positions
  BY BookIs
<1>2. \A id \in adopted : id \in Pairs /\ [pair |-> id, size |-> look[id]] \in Positions
  <2> SUFFICES ASSUME NEW id \in adopted
               PROVE  id \in Pairs /\ [pair |-> id, size |-> look[id]] \in Positions
    OBVIOUS
  <2>1. id \in Pairs /\ look[id] > 0 /\ look[id] \in 0..MaxSize
    BY DEF Unknown, Views
  <2>2. look[id] \in 1..MaxSize
    BY <2>1, BookAssumption
  <2> QED
    BY <2>1, <2>2 DEF Positions
<1>3. Reconciled(look, adopted)
        = [id \in Stay(book, look) \cup adopted |->
             IF id \in adopted THEN [pair |-> id, size |-> look[id]] ELSE book[id]]
  BY DEF Reconciled, Stay
<1>4. Stay(book, look) \subseteq DOMAIN book
  BY DEF Stay
<1>5. Stay(book, look) \cup adopted \in SUBSET Ids
  BY <1>1, <1>2, <1>4 DEF Ids
<1>6. Reconciled(look, adopted) \in [Stay(book, look) \cup adopted -> Positions]
  BY <1>1, <1>2, <1>3, <1>4
<1> QED
  BY <1>3, <1>5, <1>6, BookIs

\* What it leaves of the book and what it brings.
LEMMA BookReconciled ==
  ASSUME NEW look, NEW adopted, book' = Reconciled(look, adopted)
  PROVE  /\ DOMAIN book' = Stay(book, look) \cup adopted
         /\ \A id \in adopted : book'[id] = [pair |-> id, size |-> look[id]]
         /\ \A id \in Stay(book, look) \ adopted : book'[id] = book[id]
<1>1. book' = [id \in Stay(book, look) \cup adopted |->
                 IF id \in adopted THEN [pair |-> id, size |-> look[id]] ELSE book[id]]
  BY DEF Reconciled, Stay
<1> QED
  BY <1>1

-----------------------------------------------------------------------------
(* Types.  A click's job decides what its key is, a click that closes keeps   *)
(* the position it read, and a click that holds a view is looking.            *)
GoalsFit ==
  \A c \in Clicks :
    /\ pc[c] # "idle" =>
         /\ goal[c] \in Goals
         /\ goal[c].job \in {"propose", "execute"} => goal[c].key \in Proposals
         /\ goal[c].job = "close" => goal[c].key \in Ids /\ replay[c] \in Positions
    /\ view[c] # NoView => pc[c] = "looking"

LEMMA NoneIsNone ==
  /\ NoOrder \notin Orders
  /\ NoPos \notin Positions
  /\ NoRead \notin Readings
  BY DEF NoOrder, Orders, NoPos, Positions, NoRead, Readings

\* What every step writes to the trail is an entry of it.
LEMMA EntryIs ==
  ASSUME NEW kind \in Kinds, NEW key \in Keys
  PROVE  Entry(kind, key) \in [kind : Kinds, key : Keys]
  BY DEF Entry

\* What an attempt appends when it ends.
LEMMA OutcomesAre ==
  ASSUME NEW ended \in {"executed", "failed"}, NEW kinds \in Outcomes(ended)
  PROVE  kinds \in {{}, {"executed"}, {"failed"}}
  BY DEF Outcomes

\* Nothing leaves the trail, and what an attempt that ends adds to it.
LEMMA FinishIs ==
  ASSUME NEW c \in Clicks, NEW ended \in {"executed", "failed"}, Finish(c, ended)
  PROVE  \E kinds \in {{}, {"executed"}, {"failed"}}, anchor \in {{}, {"created"}} :
           /\ anchor # {} => kinds # {} /\ goal[c].job = "close"
           /\ trail' = trail \cup {Entry(k, goal[c].key) : k \in kinds \cup anchor}
<1>1. PICK kinds \in Outcomes(ended), anchor \in {{}, {"created"}} :
        /\ anchor # {} => kinds # {} /\ goal[c].job = "close"
        /\ trail' = trail \cup {Entry(k, goal[c].key) : k \in kinds \cup anchor}
  BY DEF Finish
<1>2. kinds \in {{}, {"executed"}, {"failed"}}
  BY OutcomesAre
<1> QED
  BY <1>1, <1>2

LEMMA TypeInit == Init => PerpsTypeOK /\ GoalsFit
<1> SUFFICES ASSUME Init PROVE PerpsTypeOK /\ GoalsFit
  OBVIOUS
<1>1. book \in Books /\ file \in Books /\ healthy \in BOOLEAN /\ latched \in BOOLEAN
  BY EmptyBook DEF Init, BookInit
<1>2. net \in [Pairs -> 0..MaxSize] /\ sent \in [Keys -> Nat]
  BY BookAssumption DEF Init
<1>3. /\ pc \in [Clicks -> {"idle", "looking", "deciding", "admitted", "sent"}]
      /\ goal \in [Clicks -> Goals \cup {NoGoal}]
      /\ replay \in [Clicks -> Positions \cup {NoPos}]
      /\ view \in [Readers -> Views \cup {NoView}]
      /\ reading \in [Others -> Readings \cup {NoRead}]
      /\ orders \in [OrderIds -> Orders \cup {NoOrder}]
  BY DEF Init
<1>4. /\ trail = {} /\ keys = {} /\ wire = {}
      /\ \A c \in Clicks : pc[c] = "idle" /\ view[c] = NoView
  BY DEF Init, Readers
<1> QED
  BY <1>1, <1>2, <1>3, <1>4 DEF PerpsTypeOK, GoalsFit

-----------------------------------------------------------------------------
(* The three ways the book changes: a fill that was read is booked, an        *)
(* answered view is applied, or the process restarts.                         *)
FillBooked(v, w) ==
  /\ reading[v] # NoRead /\ BooksFill(reading[v], w)
  /\ reading' = [reading EXCEPT ![v] = NoRead]
  /\ UNCHANGED venueVars

LEMMA BookSteps ==
  ASSUME [Next]_vars
  PROVE  \/ UNCHANGED bookVars
         \/ \E v \in Others, w \in WriteOutcomes : FillBooked(v, w)
         \/ \E r \in Readers : \E adopted \in SUBSET Unknown(view[r]), w \in WriteOutcomes :
              Applies(r, adopted, w)
         \/ Restart
<1>1. ASSUME NEW c \in Clicks, ClickTurn(c)
      PROVE  UNCHANGED bookVars
  <2>1. ASSUME NEW g \in Goals, Begin(c, g) PROVE UNCHANGED bookVars
    BY <2>1 DEF Begin
  <2>2. CASE LooksInVain(c) \/ Refuse(c) \/ Record(c) \/ Admit(c) \/ AdmitUnrecorded(c)
    BY <2>2 DEF LooksInVain, Refuse, Record, Admit, AdmitUnrecorded
  <2>3. CASE NotSent(c) \/ Send(c) \/ Settle(c)
    BY <2>3 DEF NotSent, Send, Settle, Finish
  <2> QED
    BY <1>1, <2>1, <2>2, <2>3 DEF ClickTurn
<1>2. ASSUME NEW r \in Readers, Looks(r) PROVE UNCHANGED bookVars
  BY <1>2 DEF Looks
<1>3. ASSUME NEW v \in Others, VerifyApplies(v)
      PROVE  UNCHANGED bookVars \/ \E w \in WriteOutcomes : FillBooked(v, w)
  BY <1>3 DEF VerifyApplies, FillBooked
<1>4. ASSUME NEW v \in Others, NEW key \in Keys, NEW o \in OrderIds, VerifyReads(v, key, o)
      PROVE  UNCHANGED bookVars
  BY <1>4 DEF VerifyReads
<1>5. ASSUME Venue PROVE UNCHANGED bookVars
  BY <1>5 DEF Venue, VenueTakes, Fills, HumanPlaces, Vanishes
<1>6. ASSUME UNCHANGED vars PROVE UNCHANGED bookVars
  BY <1>6 DEF vars
<1> QED
  BY <1>1, <1>2, <1>3, <1>4, <1>5, <1>6 DEF Next

LEMMA PersistIs ==
  ASSUME NEW w \in WriteOutcomes, Persist(w)
  PROVE  file' \in {book', file, Torn}
  BY BookAssumption DEF Persist

\* Booking a fill that was read.
LEMMA BooksFillIs ==
  ASSUME PerpsTypeOK, NEW r \in Readings, NEW w \in WriteOutcomes, BooksFill(r, w)
  PROVE  /\ \/ /\ r.key \in Proposals /\ r.id \notin DOMAIN book
               /\ [pair |-> PairOf[r.key], size |-> r.filled] \in Positions
               /\ book' = With(book, r.id, [pair |-> PairOf[r.key], size |-> r.filled])
            \/ r.key \in Ids /\ book' = Without(book, {r.key})
         /\ file' \in {book', file, Torn}
         /\ UNCHANGED <<healthy, latched>>
<1>0. r.key \in Keys /\ r.id \in OrderIds /\ r.filled \in 1..MaxSize
  BY DEF Readings
<1>1. CASE r.key \in Proposals
  <2>1. trackOpen(r.id, PairOf[r.key], r.filled, w)
    BY <1>1 DEF BooksFill
  <2>2. PairOf[r.key] \in Pairs
    BY <1>1, PerpsAssumption
  <2>3. [pair |-> PairOf[r.key], size |-> r.filled] \in Positions
    BY <1>0, <2>2 DEF Positions
  <2> QED
    BY <1>1, <2>1, <2>3, PersistIs DEF trackOpen, CanTrack
<1>2. CASE r.key \notin Proposals
  <2>1. recordClose(r.key, w) /\ r.key \in Ids
    BY <1>0, <1>2 DEF BooksFill, Keys
  <2> QED
    BY <2>1, PersistIs DEF recordClose
<1> QED
  BY <1>1, <1>2

LEMMA BookType ==
  ASSUME PerpsTypeOK, [Next]_vars
  PROVE  /\ book' \in Books /\ file' \in Books \cup {Torn}
         /\ healthy' \in BOOLEAN /\ latched' \in BOOLEAN
<1>0. /\ book \in Books /\ file \in Books \cup {Torn}
      /\ healthy \in BOOLEAN /\ latched \in BOOLEAN
      /\ view \in [Readers -> Views \cup {NoView}]
      /\ reading \in [Others -> Readings \cup {NoRead}]
  BY DEF PerpsTypeOK
<1>1. CASE UNCHANGED bookVars
  BY <1>0, <1>1 DEF bookVars
<1>2. ASSUME NEW v \in Others, NEW w \in WriteOutcomes, FillBooked(v, w)
      PROVE  book' \in Books /\ file' \in {book', file, Torn} /\ UNCHANGED <<healthy, latched>>
  <2>1. reading[v] \in Readings /\ BooksFill(reading[v], w)
    BY <1>0, <1>2 DEF FillBooked
  <2>2. reading[v].id \in Ids
    BY <2>1 DEF Readings, Ids
  <2>3. /\ \/ \E r \in Positions : book' = With(book, reading[v].id, r)
           \/ \E S \in SUBSET Ids : book' = Without(book, S)
        /\ file' \in {book', file, Torn} /\ UNCHANGED <<healthy, latched>>
    BY <2>1, BooksFillIs
  <2>4. \A r \in Positions : With(book, reading[v].id, r) \in Books
    BY <1>0, <2>2, WithIs
  <2>5. \A S \in SUBSET Ids : Without(book, S) \in Books
    BY <1>0, WithoutIs
  <2>6. book' \in Books
    BY <2>3, <2>4, <2>5
  <2> QED
    BY <2>3, <2>6
<1>3. ASSUME NEW r \in Readers, NEW adopted, NEW w \in WriteOutcomes, Applies(r, adopted, w)
      PROVE  /\ book' \in Books /\ file' \in {book', file, Torn}
             /\ healthy' \in BOOLEAN /\ latched' \in BOOLEAN
  <2>1. view[r] \in Views /\ reconcileWithVenue(view[r], adopted, r \in Clicks, w)
    BY <1>0, <1>3 DEF Applies
  <2> QED
    BY <1>0, <2>1, ReconciledIs, PersistIs DEF reconcileWithVenue
<1>4. CASE Restart
  BY <1>0, <1>4, EmptyBook DEF Restart, Reboot
<1> QED
  BY <1>0, <1>1, <1>2, <1>3, <1>4, BookSteps

\* The part of the state that is not the book.
RailTypeOK ==
  /\ trail \subseteq [kind : Kinds, key : Keys]
  /\ keys \subseteq Keys
  /\ pc \in [Clicks -> {"idle", "looking", "deciding", "admitted", "sent"}]
  /\ goal \in [Clicks -> Goals \cup {NoGoal}]
  /\ replay \in [Clicks -> Positions \cup {NoPos}]
  /\ view \in [Readers -> Views \cup {NoView}]
  /\ reading \in [Others -> Readings \cup {NoRead}]
  /\ wire \subseteq Calls
  /\ sent \in [Keys -> Nat]
  /\ orders \in [OrderIds -> Orders \cup {NoOrder}]
  /\ net \in [Pairs -> 0..MaxSize]

LEMMA GoalKey ==
  ASSUME GoalsFit, NEW c \in Clicks, pc[c] # "idle"
  PROVE  goal[c] \in Goals /\ goal[c].key \in Keys /\ goal[c].job \in Jobs
  BY DEF GoalsFit, Goals

\* A click that ends, whatever it wrote.
LEMMA DoneType ==
  ASSUME RailTypeOK, GoalsFit, NEW c \in Clicks, Done(c), pc[c] # "looking",
         UNCHANGED view
  PROVE  /\ pc' \in [Clicks -> {"idle", "looking", "deciding", "admitted", "sent"}]
         /\ goal' \in [Clicks -> Goals \cup {NoGoal}]
         /\ replay' \in [Clicks -> Positions \cup {NoPos}]
         /\ GoalsFit'
<1>1. \A d \in Clicks \ {c} : pc'[d] = pc[d] /\ goal'[d] = goal[d] /\ replay'[d] = replay[d]
  BY DEF Done, RailTypeOK
<1>2. pc'[c] = "idle" /\ view'[c] = NoView
  BY DEF Done, RailTypeOK, GoalsFit
<1> QED
  BY <1>1, <1>2 DEF Done, RailTypeOK, GoalsFit

LEMMA FinishType ==
  ASSUME RailTypeOK, GoalsFit, NEW c \in Clicks, pc[c] \in {"admitted", "sent"},
         NEW ended \in {"executed", "failed"}, Finish(c, ended)
  PROVE  RailTypeOK' /\ GoalsFit'
<1>1. PICK kinds \in {{}, {"executed"}, {"failed"}}, anchor \in {{}, {"created"}} :
        trail' = trail \cup {Entry(k, goal[c].key) : k \in kinds \cup anchor}
  BY FinishIs
<1>2. \A k \in kinds \cup anchor : Entry(k, goal[c].key) \in [kind : Kinds, key : Keys]
  BY GoalKey, EntryIs DEF Kinds
<1>3. trail' \subseteq [kind : Kinds, key : Keys]
  BY <1>1, <1>2 DEF RailTypeOK
<1>4. /\ Done(c)
      /\ UNCHANGED <<keys, view, reading, wire, sent, bookVars, venueVars>>
  BY DEF Finish
<1> QED
  BY <1>3, <1>4, DoneType DEF RailTypeOK, venueVars

LEMMA ClickType ==
  ASSUME PerpsTypeOK, GoalsFit, NEW c \in Clicks, ClickTurn(c)
  PROVE  RailTypeOK' /\ GoalsFit'
<1>0. RailTypeOK /\ book \in Books
  BY DEF PerpsTypeOK, RailTypeOK
<1>1. ASSUME NEW g \in Goals, Begin(c, g) PROVE RailTypeOK' /\ GoalsFit'
  <2>1. /\ g.job \in Jobs /\ g.key \in Keys
        /\ g.job \in {"propose", "execute"} => g.key \in Proposals
        /\ g.job = "close" => g.key \in DOMAIN book
    BY <1>1 DEF Begin, Startable, Goals, Jobs
  <2>2. g.job = "close" => g.key \in Ids /\ book[g.key] \in Positions
    BY <1>0, <2>1, BookIs
  <2>3. replay' = [replay EXCEPT ![c] = IF g.job = "close" THEN book[g.key] ELSE NoPos]
    BY <1>1 DEF Begin
  <2>4. replay' \in [Clicks -> Positions \cup {NoPos}]
    BY <1>0, <2>2, <2>3 DEF RailTypeOK
  <2>5. /\ goal' = [goal EXCEPT ![c] = g]
        /\ pc' = [pc EXCEPT ![c] = IF latched \/ ~healthy THEN "deciding" ELSE "looking"]
        /\ UNCHANGED <<trail, keys, view, reading, wire, sent, venueVars>>
    BY <1>1 DEF Begin
  <2>6. RailTypeOK'
    BY <1>0, <2>4, <2>5 DEF RailTypeOK, venueVars
  <2>7. \A d \in Clicks \ {c} : pc'[d] = pc[d] /\ goal'[d] = goal[d] /\ replay'[d] = replay[d]
    BY <1>0, <2>3, <2>5 DEF RailTypeOK
  <2>8. /\ goal'[c] = g /\ (g.job = "close" => replay'[c] = book[g.key])
        /\ view'[c] = NoView
    BY <1>0, <1>1, <2>3, <2>5 DEF RailTypeOK, GoalsFit, Begin
  <2>9. GoalsFit'
    BY <2>1, <2>2, <2>5, <2>7, <2>8 DEF GoalsFit
  <2> QED
    BY <2>6, <2>9
<1>2. CASE LooksInVain(c)
  <2>1. pc[c] = "looking" /\ pc' = [pc EXCEPT ![c] = "deciding"] /\ view[c] = NoView
    BY <1>2 DEF LooksInVain
  <2> QED
    BY <1>0, <1>2, <2>1 DEF LooksInVain, RailTypeOK, GoalsFit, venueVars
<1>3. CASE Refuse(c)
  BY <1>0, <1>3, DoneType DEF Refuse, RailTypeOK, venueVars
<1>4. CASE Record(c)
  <2>1. Entry("created", goal[c].key) \in [kind : Kinds, key : Keys]
    BY <1>4, GoalKey, EntryIs DEF Record, Kinds
  <2> QED
    BY <1>0, <1>4, <2>1, DoneType DEF Record, RailTypeOK, venueVars
<1>5. CASE Admit(c)
  <2>1. goal[c].key \in Keys /\ pc[c] # "idle" /\ view[c] = NoView
    BY <1>5, GoalKey DEF Admit, GatesPass, GoalsFit
  <2>2. Entry("allow", goal[c].key) \in [kind : Kinds, key : Keys]
    BY <2>1, EntryIs DEF Kinds
  <2>3. /\ trail' = trail \cup {Entry("allow", goal[c].key)}
        /\ keys' = keys \cup {goal[c].key}
        /\ pc' = [pc EXCEPT ![c] = "admitted"]
        /\ UNCHANGED <<goal, replay, view, reading, wire, sent, venueVars>>
    BY <1>5 DEF Admit, GatesPass
  <2>4. RailTypeOK'
    BY <1>0, <2>1, <2>2, <2>3 DEF RailTypeOK, venueVars
  <2>5. GoalsFit'
    BY <1>0, <2>1, <2>3 DEF RailTypeOK, GoalsFit
  <2> QED
    BY <2>4, <2>5
<1>6. CASE AdmitUnrecorded(c)
  <2>1. goal[c].key \in Keys
    BY <1>6, GoalKey DEF AdmitUnrecorded, GatesPass
  <2> QED
    BY <1>0, <1>6, <2>1, DoneType DEF AdmitUnrecorded, GatesPass, RailTypeOK, venueVars
<1>7. CASE NotSent(c)
  BY <1>0, <1>7, FinishType DEF NotSent
<1>8. CASE Send(c)
  <2>1. /\ goal[c].key \in Keys /\ pc[c] # "idle" /\ goal[c].job \in Jobs
        /\ goal[c].job = "close" => replay[c] \in Positions
        /\ goal[c].job # "close" => goal[c].key \in Proposals
        /\ view[c] = NoView
    BY <1>8, GoalKey DEF Send, GoalsFit, Jobs
  <2>2. goal[c].job = "close" => CallOf(c) \in Calls
    BY <2>1 DEF CallOf, Calls, Positions
  <2>3. goal[c].job # "close" => CallOf(c) \in Calls
    BY <2>1, PerpsAssumption DEF CallOf, Calls
  <2>4. CallOf(c) \in Calls
    BY <2>2, <2>3
  <2>5. /\ wire' = wire \cup {CallOf(c)}
        /\ sent' = [sent EXCEPT ![goal[c].key] = @ + 1]
        /\ pc' = [pc EXCEPT ![c] = "sent"]
        /\ UNCHANGED <<trail, keys, goal, replay, view, reading, venueVars>>
    BY <1>8 DEF Send
  <2>6. RailTypeOK'
    BY <1>0, <2>1, <2>4, <2>5 DEF RailTypeOK, venueVars
  <2>7. GoalsFit'
    BY <1>0, <2>1, <2>5 DEF RailTypeOK, GoalsFit
  <2> QED
    BY <2>6, <2>7
<1>9. CASE Settle(c)
  BY <1>0, <1>9, FinishType DEF Settle
<1> QED
  BY <1>1, <1>2, <1>3, <1>4, <1>5, <1>6, <1>7, <1>8, <1>9 DEF ClickTurn

\* Orders are placed empty and fill one contract at a time.
OrdersGrow ==
  \A o \in OrderIds : orders[o] # NoOrder =>
    /\ orders'[o] # NoOrder
    /\ orders'[o].pair = orders[o].pair
    /\ orders'[o].filled >= orders[o].filled

LEMMA PlacedIs ==
  ASSUME RailTypeOK, NEW o \in OrderIds, Fresh(o), NEW r \in Orders,
         orders' = [orders EXCEPT ![o] = r]
  PROVE  orders' \in [OrderIds -> Orders \cup {NoOrder}] /\ OrdersGrow
<1>1. orders[o] = NoOrder /\ orders \in [OrderIds -> Orders \cup {NoOrder}]
  BY DEF Fresh, RailTypeOK
<1>2. \A i \in OrderIds : orders[i] # NoOrder => orders[i] \in Orders /\ orders'[i] = orders[i]
  BY <1>1
<1>3. \A i \in Orders : i.filled >= i.filled
  BY BookAssumption DEF Orders
<1> QED
  BY <1>1, <1>2, <1>3 DEF OrdersGrow

LEMMA FillsIs ==
  ASSUME RailTypeOK, NEW o \in OrderIds, Fills(o)
  PROVE  /\ RailTypeOK' /\ OrdersGrow
         /\ orders'[o] # NoOrder /\ orders'[o].filled > 0
         /\ orders'[o].pair = orders[o].pair
         /\ \A p \in Pairs : net'[p] > 0 => net[p] > 0 \/ p = orders[o].pair
<1>1. /\ orders[o] \in Orders /\ orders[o].filled < orders[o].amount
      /\ orders' = [orders EXCEPT ![o].filled = @ + 1]
      /\ UNCHANGED railVars
  BY DEF Fills, RailTypeOK
<1>2. /\ orders[o].pair \in Pairs /\ orders[o].filled \in 0..MaxSize
      /\ orders[o].amount \in 1..MaxSize /\ MaxSize \in Nat
  BY <1>1, BookAssumption DEF Orders
<1> DEFINE q == orders[o].pair
           f == [orders[o] EXCEPT !.filled = @ + 1]
<1>3. f \in Orders /\ f.filled = orders[o].filled + 1 /\ f.pair = q
  BY <1>1, <1>2 DEF Orders
<1>4. orders' = [orders EXCEPT ![o] = f]
  BY <1>1
<1>5. orders' \in [OrderIds -> Orders \cup {NoOrder}] /\ orders'[o] = f
  BY <1>3, <1>4 DEF RailTypeOK
<1>6. \A i \in OrderIds \ {o} : orders'[i] = orders[i]
  BY <1>4 DEF RailTypeOK
<1>7. \A i \in Orders : i.filled >= i.filled
  BY BookAssumption DEF Orders
<1>8. f # NoOrder
  BY <1>3, NoneIsNone
<1>9. OrdersGrow
  <2> SUFFICES ASSUME NEW i \in OrderIds, orders[i] # NoOrder
               PROVE  /\ orders'[i] # NoOrder
                      /\ orders'[i].pair = orders[i].pair
                      /\ orders'[i].filled >= orders[i].filled
    BY DEF OrdersGrow
  <2>0. orders'[o].filled = orders[o].filled + 1 /\ orders'[o].pair = orders[o].pair
    BY <1>3, <1>5
  <2>1. CASE i = o
    <3>1. orders'[o].filled >= orders[o].filled
      BY <1>2, <2>0
    <3> QED
      BY <1>5, <1>8, <2>0, <2>1, <3>1
  <2>2. CASE i # o
    BY <1>6, <1>7, <2>2 DEF RailTypeOK
  <2> QED
    BY <2>1, <2>2
<1>10. /\ IF orders[o].opens THEN net[q] < MaxSize ELSE net[q] > 0
       /\ net' = [net EXCEPT ![q] = IF orders[o].opens THEN @ + 1 ELSE @ - 1]
  BY DEF Fills
<1>11. net \in [Pairs -> 0..MaxSize] /\ net[q] \in 0..MaxSize
  BY <1>2 DEF RailTypeOK
<1>12. (IF orders[o].opens THEN net[q] + 1 ELSE net[q] - 1) \in 0..MaxSize
  BY <1>2, <1>10, <1>11
<1>13. net' \in [Pairs -> 0..MaxSize]
  BY <1>10, <1>11, <1>12
<1>14. RailTypeOK'
  BY <1>1, <1>5, <1>13 DEF RailTypeOK, railVars
<1>15. \A p \in Pairs : p # q => net'[p] = net[p]
  BY <1>10, <1>11
<1> QED
  BY <1>2, <1>3, <1>5, <1>8, <1>9, <1>14, <1>15

LEMMA VenueType ==
  ASSUME PerpsTypeOK, GoalsFit, Venue
  PROVE  RailTypeOK' /\ GoalsFit' /\ OrdersGrow
<1>0. RailTypeOK
  BY DEF PerpsTypeOK, RailTypeOK
<1>1. ASSUME NEW call \in wire, NEW o \in OrderIds, VenueTakes(call, o)
      PROVE  RailTypeOK' /\ GoalsFit' /\ OrdersGrow
  <2>1. call \in Calls /\ 0 \in 0..MaxSize
    BY <1>0, BookAssumption DEF RailTypeOK
  <2>2. [pair |-> call.pair, opens |-> call.opens, amount |-> call.amount, filled |-> 0]
          \in Orders
    BY <2>1 DEF Calls, Orders
  <2>3. /\ Fresh(o) /\ wire' = wire \ {call}
        /\ orders' = [orders EXCEPT ![o] = [pair |-> call.pair, opens |-> call.opens,
                                            amount |-> call.amount, filled |-> 0]]
        /\ UNCHANGED <<trail, keys, pc, goal, replay, view, reading, sent, net>>
    BY <1>1 DEF VenueTakes
  <2>4. orders' \in [OrderIds -> Orders \cup {NoOrder}] /\ OrdersGrow
    BY <1>0, <2>2, <2>3, PlacedIs
  <2> QED
    BY <1>0, <2>3, <2>4 DEF RailTypeOK, GoalsFit
<1>2. ASSUME NEW o \in OrderIds, Fills(o)
      PROVE  RailTypeOK' /\ GoalsFit' /\ OrdersGrow
  <2>1. UNCHANGED <<pc, goal, replay, view>>
    BY <1>2 DEF Fills, railVars
  <2> QED
    BY <1>0, <1>2, <2>1, FillsIs DEF GoalsFit
<1>3. ASSUME NEW o \in OrderIds, NEW p \in Pairs, NEW opens \in BOOLEAN,
             HumanPlaces(o, p, opens)
      PROVE  RailTypeOK' /\ GoalsFit' /\ OrdersGrow
  <2>1. Lot \in 1..MaxSize /\ 0 \in 0..MaxSize
    BY PerpsAssumption, BookAssumption
  <2>2. [pair |-> p, opens |-> opens, amount |-> Lot, filled |-> 0] \in Orders
    BY <2>1 DEF Orders
  <2>3. /\ Fresh(o)
        /\ orders' = [orders EXCEPT ![o] = [pair |-> p, opens |-> opens,
                                            amount |-> Lot, filled |-> 0]]
        /\ UNCHANGED <<railVars, net>>
    BY <1>3 DEF HumanPlaces
  <2>4. orders' \in [OrderIds -> Orders \cup {NoOrder}] /\ OrdersGrow
    BY <1>0, <2>2, <2>3, PlacedIs
  <2> QED
    BY <1>0, <2>3, <2>4 DEF RailTypeOK, GoalsFit, railVars
<1>4. ASSUME NEW p \in Pairs, Vanishes(p)
      PROVE  RailTypeOK' /\ GoalsFit' /\ OrdersGrow
  <2>1. net' = [net EXCEPT ![p] = 0] /\ UNCHANGED <<railVars, orders>> /\ 0 \in 0..MaxSize
    BY <1>4, BookAssumption DEF Vanishes
  <2>2. RailTypeOK' /\ GoalsFit'
    BY <1>0, <2>1 DEF RailTypeOK, GoalsFit, railVars
  <2>3. \A i \in Orders : i.filled >= i.filled
    BY BookAssumption DEF Orders
  <2>4. OrdersGrow
    BY <1>0, <2>1, <2>3 DEF OrdersGrow, RailTypeOK
  <2> QED
    BY <2>2, <2>4
<1> QED
  BY <1>1, <1>2, <1>3, <1>4 DEF Venue

\* The answer of a look shows no more than the venue holds.
LEMMA LooksIs ==
  ASSUME RailTypeOK, NEW r, Looks(r)
  PROVE  \E look \in Views : /\ view' = [view EXCEPT ![r] = look]
                            /\ \A p \in Pairs : look[p] > 0 => net[p] > 0
<1>1. PICK hidden \in SUBSET {p \in Pairs : net[p] > 0} :
        view' = [view EXCEPT ![r] = [p \in Pairs |-> IF p \in hidden THEN 0 ELSE net[p]]]
  BY DEF Looks
<1> DEFINE look == [p \in Pairs |-> IF p \in hidden THEN 0 ELSE net[p]]
<1>2. 0 \in 0..MaxSize /\ ~(0 > 0)
  BY BookAssumption
<1>3. look \in Views
  BY <1>2 DEF RailTypeOK, Views
<1>4. \A p \in Pairs : look[p] > 0 => net[p] > 0
  BY <1>2
<1>5. view' = [view EXCEPT ![r] = look]
  BY <1>1
<1> QED
  BY <1>3, <1>4, <1>5

LEMMA ReaderType ==
  ASSUME RailTypeOK, GoalsFit, NEW r \in Readers,
         Looks(r) \/ \E adopted, w : Applies(r, adopted, w)
  PROVE  RailTypeOK' /\ GoalsFit' /\ UNCHANGED orders
<1>1. CASE Looks(r)
  <2>1. PICK look \in Views : view' = [view EXCEPT ![r] = look]
    BY <1>1, LooksIs
  <2>2. UNCHANGED <<trail, keys, pc, goal, replay, reading, wire, sent, venueVars>>
    BY <1>1 DEF Looks
  <2>3. r \in Clicks => pc[r] = "looking"
    BY <1>1 DEF Looks
  <2> QED
    BY <2>1, <2>2, <2>3 DEF RailTypeOK, GoalsFit, venueVars
<1>2. ASSUME NEW adopted, NEW w, Applies(r, adopted, w)
      PROVE  RailTypeOK' /\ GoalsFit' /\ UNCHANGED orders
  <2>1. /\ view' = [view EXCEPT ![r] = NoView]
        /\ pc' = IF r \in Clicks THEN [pc EXCEPT ![r] = "deciding"] ELSE pc
        /\ view[r] # NoView
        /\ UNCHANGED <<trail, keys, goal, replay, reading, wire, sent, venueVars>>
    BY <1>2 DEF Applies
  <2>2. RailTypeOK'
    BY <2>1 DEF RailTypeOK, venueVars
  <2> QED
    BY <2>1, <2>2 DEF RailTypeOK, GoalsFit, Readers, venueVars
<1> QED
  BY <1>1, <1>2

LEMMA VerifyType ==
  ASSUME RailTypeOK, GoalsFit, NEW v \in Others,
         VerifyApplies(v) \/ \E key \in Keys, o \in OrderIds : VerifyReads(v, key, o)
  PROVE  RailTypeOK' /\ GoalsFit' /\ UNCHANGED orders
<1>1. CASE VerifyApplies(v)
  <2>1. /\ reading' = [reading EXCEPT ![v] = NoRead]
        /\ UNCHANGED <<trail, keys, pc, goal, replay, view, wire, sent, venueVars>>
    BY <1>1 DEF VerifyApplies
  <2> QED
    BY <2>1 DEF RailTypeOK, GoalsFit, venueVars
<1>2. ASSUME NEW key \in Keys, NEW o \in OrderIds, VerifyReads(v, key, o)
      PROVE  RailTypeOK' /\ GoalsFit' /\ UNCHANGED orders
  <2>1. /\ orders[o] \in Orders /\ orders[o].filled > 0
        /\ reading' = [reading EXCEPT ![v] = [key |-> key, id |-> o,
                                              filled |-> orders[o].filled]]
        /\ UNCHANGED <<trail, keys, pc, goal, replay, view, wire, sent, venueVars>>
    BY <1>2 DEF VerifyReads, RailTypeOK
  <2>2. orders[o].filled \in 1..MaxSize
    BY <2>1, BookAssumption DEF Orders
  <2>3. [key |-> key, id |-> o, filled |-> orders[o].filled] \in Readings
    BY <2>2 DEF Readings
  <2> QED
    BY <2>1, <2>3 DEF RailTypeOK, GoalsFit, venueVars
<1> QED
  BY <1>1, <1>2

LEMMA RailStep ==
  ASSUME PerpsTypeOK, GoalsFit, [Next]_vars
  PROVE  RailTypeOK' /\ GoalsFit' /\ OrdersGrow
<1>0. RailTypeOK
  BY DEF PerpsTypeOK, RailTypeOK
<1>1. UNCHANGED orders => OrdersGrow
  <2>1. \A i \in Orders : i.filled >= i.filled
    BY BookAssumption DEF Orders
  <2> QED
    BY <1>0, <2>1 DEF OrdersGrow, RailTypeOK
<1>2. ASSUME NEW c \in Clicks, ClickTurn(c)
      PROVE  RailTypeOK' /\ GoalsFit' /\ OrdersGrow
  <2>1. ASSUME NEW g \in Goals, Begin(c, g) PROVE UNCHANGED orders
    BY <2>1 DEF Begin, venueVars
  <2>2. CASE LooksInVain(c) \/ Refuse(c) \/ Record(c) \/ Admit(c) \/ AdmitUnrecorded(c)
    BY <2>2, <1>1, <1>2, ClickType
       DEF LooksInVain, Refuse, Record, Admit, AdmitUnrecorded, venueVars
  <2>3. CASE NotSent(c) \/ Send(c) \/ Settle(c)
    BY <2>3, <1>1, <1>2, ClickType DEF NotSent, Send, Settle, Finish, venueVars
  <2> QED
    BY <1>1, <1>2, <2>1, <2>2, <2>3, ClickType DEF ClickTurn
<1>3. ASSUME NEW r \in Readers, Looks(r) \/ \E adopted, w : Applies(r, adopted, w)
      PROVE  RailTypeOK' /\ GoalsFit' /\ OrdersGrow
  BY <1>0, <1>1, <1>3, ReaderType
<1>4. ASSUME NEW v \in Others,
             VerifyApplies(v) \/ \E key \in Keys, o \in OrderIds : VerifyReads(v, key, o)
      PROVE  RailTypeOK' /\ GoalsFit' /\ OrdersGrow
  BY <1>0, <1>1, <1>4, VerifyType
<1>5. ASSUME Venue PROVE RailTypeOK' /\ GoalsFit' /\ OrdersGrow
  BY <1>5, VenueType
<1>6. ASSUME Restart PROVE RailTypeOK' /\ GoalsFit' /\ OrdersGrow
  <2>1. /\ keys' = {} /\ UNCHANGED <<trail, wire, sent, venueVars>>
        /\ pc' = [c \in Clicks |-> "idle"]
        /\ goal' = [c \in Clicks |-> NoGoal]
        /\ replay' = [c \in Clicks |-> NoPos]
        /\ view' = [r \in Readers |-> NoView]
        /\ reading' = [v \in Others |-> NoRead]
    BY <1>6 DEF Restart
  <2> QED
    BY <1>0, <1>1, <2>1 DEF RailTypeOK, GoalsFit, Readers, venueVars
<1>7. ASSUME UNCHANGED vars PROVE RailTypeOK' /\ GoalsFit' /\ OrdersGrow
  BY <1>0, <1>1, <1>7 DEF RailTypeOK, GoalsFit, vars, railVars, venueVars
<1> QED
  BY <1>2, <1>3, <1>4, <1>5, <1>6, <1>7 DEF Next

LEMMA TypeStep ==
  ASSUME PerpsTypeOK, GoalsFit, [Next]_vars
  PROVE  PerpsTypeOK' /\ GoalsFit'
  BY BookType, RailStep DEF PerpsTypeOK, RailTypeOK

\* Every variable of the rail, the book and the venue keeps its type.
THEOREM PerpsTypeCorrect == Spec => [](PerpsTypeOK /\ GoalsFit)
<1>1. PerpsTypeOK /\ GoalsFit /\ [Next]_vars => (PerpsTypeOK /\ GoalsFit)'
  BY TypeStep
<1> QED
  BY <1>1, TypeInit, PTL DEF Spec

-----------------------------------------------------------------------------
(* At most one createOrder for a key.  A call needs the allow in the trail,   *)
(* and no second allow is written for a key that has one.                     *)
CallsRecorded == \A key \in Keys : sent[key] # 0 => sent[key] = 1 /\ Has("allow", key)

AdmittedFirst ==
  \A c \in Clicks : pc[c] = "admitted" =>
    Has("allow", goal[c].key) /\ sent[goal[c].key] = 0

AdmittedApart ==
  \A c, d \in Clicks :
    c # d /\ pc[c] = "admitted" /\ pc[d] = "admitted" => goal[c].key # goal[d].key

SendInv == CallsRecorded /\ AdmittedFirst /\ AdmittedApart

\* Every step but the admission and the sending of an attempt is quiet here.
Quiet ==
  /\ UNCHANGED sent /\ trail \subseteq trail'
  /\ \A c \in Clicks : pc'[c] = "admitted" => pc[c] = "admitted" /\ goal'[c] = goal[c]

LEMMA DoneQuiet ==
  ASSUME RailTypeOK, NEW c \in Clicks, Done(c), UNCHANGED sent, trail \subseteq trail'
  PROVE  Quiet
  BY DEF Done, Quiet, RailTypeOK

LEMMA ClickQuiet ==
  ASSUME RailTypeOK, NEW c \in Clicks, ClickTurn(c), ~Admit(c), ~Send(c)
  PROVE  Quiet
<1>1. ASSUME NEW g \in Goals, Begin(c, g) PROVE Quiet
  <2>1. /\ pc[c] = "idle" /\ UNCHANGED <<trail, sent>>
        /\ goal' = [goal EXCEPT ![c] = g]
        /\ pc' = [pc EXCEPT ![c] = IF latched \/ ~healthy THEN "deciding" ELSE "looking"]
    BY <1>1 DEF Begin
  <2> QED
    BY <2>1 DEF Quiet, RailTypeOK
<1>2. CASE LooksInVain(c)
  BY <1>2 DEF LooksInVain, Quiet, RailTypeOK
<1>3. CASE Refuse(c)
  BY <1>3, DoneQuiet DEF Refuse
<1>4. CASE Record(c)
  BY <1>4, DoneQuiet DEF Record
<1>5. CASE AdmitUnrecorded(c)
  BY <1>5, DoneQuiet DEF AdmitUnrecorded
<1>6. ASSUME NEW ended \in {"executed", "failed"}, Finish(c, ended) PROVE Quiet
  <2>1. trail \subseteq trail'
    BY <1>6, FinishIs
  <2> QED
    BY <1>6, <2>1, DoneQuiet DEF Finish
<1> QED
  BY <1>1, <1>2, <1>3, <1>4, <1>5, <1>6 DEF ClickTurn, NotSent, Settle

LEMMA OtherQuiet ==
  ASSUME RailTypeOK, [Next]_vars, ~ \E c \in Clicks : ClickTurn(c)
  PROVE  Quiet /\ trail' = trail
<1>1. ASSUME NEW r \in Readers, Looks(r) PROVE Quiet /\ trail' = trail
  BY <1>1 DEF Looks, Quiet
<1>2. ASSUME NEW r \in Readers, NEW adopted, NEW w, Applies(r, adopted, w)
      PROVE  Quiet /\ trail' = trail
  <2>1. /\ pc' = IF r \in Clicks THEN [pc EXCEPT ![r] = "deciding"] ELSE pc
        /\ UNCHANGED <<trail, goal, sent>>
    BY <1>2 DEF Applies
  <2> QED
    BY <2>1 DEF Quiet, RailTypeOK
<1>3. ASSUME NEW v \in Others,
             VerifyApplies(v) \/ \E key \in Keys, o \in OrderIds : VerifyReads(v, key, o)
      PROVE  Quiet /\ trail' = trail
  BY <1>3 DEF VerifyApplies, VerifyReads, Quiet
<1>4. ASSUME Venue PROVE Quiet /\ trail' = trail
  BY <1>4 DEF Venue, VenueTakes, Fills, HumanPlaces, Vanishes, Quiet, railVars
<1>5. ASSUME Restart PROVE Quiet /\ trail' = trail
  BY <1>5 DEF Restart, Quiet
<1>6. ASSUME UNCHANGED vars PROVE Quiet /\ trail' = trail
  BY <1>6 DEF vars, railVars, Quiet
<1> QED
  BY <1>1, <1>2, <1>3, <1>4, <1>5, <1>6 DEF Next

\* The trail is only appended to.
LEMMA TrailGrows ==
  ASSUME RailTypeOK, [Next]_vars
  PROVE  trail \subseteq trail'
<1>1. ASSUME NEW c \in Clicks, Admit(c) \/ Send(c) PROVE trail \subseteq trail'
  BY <1>1 DEF Admit, Send
<1>2. ASSUME NEW c \in Clicks, ClickTurn(c), ~Admit(c), ~Send(c) PROVE trail \subseteq trail'
  BY <1>2, ClickQuiet DEF Quiet
<1>3. CASE ~ \E c \in Clicks : ClickTurn(c)
  BY <1>3, OtherQuiet
<1> QED
  BY <1>1, <1>2, <1>3

LEMMA SendInit == Init => SendInv
<1> SUFFICES ASSUME Init PROVE SendInv
  OBVIOUS
<1>1. sent = [k \in Keys |-> 0] /\ pc = [c \in Clicks |-> "idle"]
  BY DEF Init
<1> QED
  BY <1>1 DEF SendInv, CallsRecorded, AdmittedFirst, AdmittedApart

LEMMA SendQuiet ==
  ASSUME SendInv, Quiet PROVE SendInv'
<1>1. \A key \in Keys : Has("allow", key) => Has("allow", key)'
  BY DEF Quiet, Has
<1>2. \A c \in Clicks :
        pc'[c] = "admitted" /\ Has("allow", goal[c].key) => Has("allow", goal[c].key)'
  BY DEF Quiet, Has, Entry
<1>3. CallsRecorded'
  BY <1>1 DEF SendInv, CallsRecorded, Quiet
<1>4. AdmittedFirst'
  BY <1>2 DEF SendInv, AdmittedFirst, Quiet, Has, Entry
<1>5. AdmittedApart'
  BY DEF SendInv, AdmittedApart, Quiet
<1> QED
  BY <1>3, <1>4, <1>5 DEF SendInv

LEMMA SendStep ==
  ASSUME PerpsTypeOK, GoalsFit, SendInv, [Next]_vars
  PROVE  SendInv'
<1>0. RailTypeOK
  BY DEF PerpsTypeOK, RailTypeOK
<1>1. ASSUME NEW c \in Clicks, Admit(c) PROVE SendInv'
  <2>1. /\ ~Has("allow", goal[c].key)
        /\ trail' = trail \cup {Entry("allow", goal[c].key)}
        /\ pc' = [pc EXCEPT ![c] = "admitted"]
        /\ UNCHANGED <<goal, sent>>
        /\ pc[c] = "deciding"
    BY <1>1 DEF Admit, GatesPass, Seen
  <2>2. goal[c].key \in Keys
    BY <2>1, GoalKey
  <2>3. sent[goal[c].key] = 0
    BY <2>1, <2>2 DEF SendInv, CallsRecorded
  <2>4. \A key : Has("allow", key) => Has("allow", key)'
    BY <2>1 DEF Has
  <2>5. Has("allow", goal[c].key)'
    BY <2>1 DEF Has
  <2>6. \A d \in Clicks : d # c => pc'[d] = pc[d]
    BY <1>0, <2>1 DEF RailTypeOK
  <2>7. \A d \in Clicks : d # c /\ pc[d] = "admitted" => goal[d].key # goal[c].key
    BY <2>1 DEF SendInv, AdmittedFirst
  <2>8. CallsRecorded'
    BY <2>1, <2>4 DEF SendInv, CallsRecorded
  <2>9. AdmittedFirst'
    BY <2>1, <2>3, <2>4, <2>5, <2>6 DEF SendInv, AdmittedFirst
  <2>10. AdmittedApart'
    BY <2>1, <2>6, <2>7 DEF SendInv, AdmittedApart
  <2> QED
    BY <2>8, <2>9, <2>10 DEF SendInv
<1>2. ASSUME NEW c \in Clicks, Send(c) PROVE SendInv'
  <2>1. /\ pc[c] = "admitted"
        /\ sent' = [sent EXCEPT ![goal[c].key] = @ + 1]
        /\ pc' = [pc EXCEPT ![c] = "sent"]
        /\ UNCHANGED <<goal, trail>>
    BY <1>2 DEF Send
  <2>2. goal[c].key \in Keys
    BY <2>1, GoalKey
  <2>3. Has("allow", goal[c].key) /\ sent[goal[c].key] = 0
    BY <2>1 DEF SendInv, AdmittedFirst
  <2>4. /\ sent'[goal[c].key] = 1
        /\ \A key \in Keys : key # goal[c].key => sent'[key] = sent[key]
    BY <1>0, <2>1, <2>2, <2>3 DEF RailTypeOK
  <2>5. pc'[c] = "sent" /\ \A d \in Clicks : d # c => pc'[d] = pc[d]
    BY <1>0, <2>1 DEF RailTypeOK
  <2>6. \A d \in Clicks : pc'[d] = "admitted" =>
          d # c /\ pc[d] = "admitted" /\ goal[d].key # goal[c].key /\ goal[d].key \in Keys
    BY <2>1, <2>5, GoalKey DEF SendInv, AdmittedApart
  <2>7. CallsRecorded'
    BY <2>1, <2>3, <2>4 DEF SendInv, CallsRecorded, Has
  <2>8. AdmittedFirst'
    BY <2>1, <2>4, <2>6 DEF SendInv, AdmittedFirst, Has
  <2>9. AdmittedApart'
    BY <2>1, <2>6 DEF SendInv, AdmittedApart
  <2> QED
    BY <2>7, <2>8, <2>9 DEF SendInv
<1>3. ASSUME NEW c \in Clicks, ClickTurn(c), ~Admit(c), ~Send(c) PROVE SendInv'
  BY <1>0, <1>3, ClickQuiet, SendQuiet
<1>4. CASE ~ \E c \in Clicks : ClickTurn(c)
  BY <1>0, <1>4, OtherQuiet, SendQuiet
<1> QED
  BY <1>1, <1>2, <1>3, <1>4

\* The venue is called at most once for a proposal and for a position id.
THEOREM PerpsSubmittedOnce == Spec => []SubmittedOnce
<1>1. SendInv => SubmittedOnce
  <2> SUFFICES ASSUME SendInv, NEW key \in Keys, ~(sent[key] <= 1) PROVE FALSE
    BY DEF SubmittedOnce
  <2>1. CASE sent[key] = 0
    BY <2>1
  <2>2. CASE sent[key] # 0
    BY <2>2 DEF SendInv, CallsRecorded
  <2> QED
    BY <2>1, <2>2
<1>2. PerpsTypeOK /\ GoalsFit /\ SendInv /\ [Next]_vars => SendInv'
  BY SendStep
<1> QED
  BY <1>1, <1>2, SendInit, PerpsTypeCorrect, PTL DEF Spec

-----------------------------------------------------------------------------
(* The anchor of a close is appended only next to an outcome, by Finish; the  *)
(* other thing that appends proposal:created works on a proposal.             *)
AnchorSound(t) ==
  \A id \in Ids : Entry("created", id) \in t =>
    Entry("executed", id) \in t \/ Entry("failed", id) \in t

LEMMA AnchorFinish ==
  ASSUME AnchorSound(trail), NEW c \in Clicks, NEW ended \in {"executed", "failed"},
         Finish(c, ended)
  PROVE  AnchorSound(trail')
<1>1. PICK kinds \in {{}, {"executed"}, {"failed"}}, anchor \in {{}, {"created"}} :
        /\ anchor # {} => kinds # {} /\ goal[c].job = "close"
        /\ trail' = trail \cup {Entry(k, goal[c].key) : k \in kinds \cup anchor}
  BY FinishIs
<1> SUFFICES ASSUME NEW id \in Ids, Entry("created", id) \in trail',
                    Entry("created", id) \notin trail
             PROVE  Entry("executed", id) \in trail' \/ Entry("failed", id) \in trail'
  BY <1>1 DEF AnchorSound
<1>2. PICK k \in kinds \cup anchor : Entry("created", id) = Entry(k, goal[c].key)
  BY <1>1
<1>3. k = "created" /\ id = goal[c].key
  BY <1>2 DEF Entry
<1>4. anchor # {} /\ kinds # {}
  BY <1>1, <1>2, <1>3
<1>5. \E j \in kinds : j \in {"executed", "failed"} /\ Entry(j, id) \in trail'
  BY <1>1, <1>3, <1>4
<1> QED
  BY <1>5

LEMMA AnchorStep ==
  ASSUME PerpsTypeOK, GoalsFit, AnchorSound(trail), [Next]_vars
  PROVE  AnchorSound(trail')
<1>0. RailTypeOK
  BY DEF PerpsTypeOK, RailTypeOK
<1>1. ASSUME NEW c \in Clicks, Record(c) PROVE AnchorSound(trail')
  <2>1. trail' = trail \cup {Entry("created", goal[c].key)} /\ goal[c].key \notin Ids
    BY <1>1, PerpsAssumption DEF Record, GoalsFit
  <2> QED
    BY <2>1 DEF AnchorSound, Entry
<1>2. ASSUME NEW c \in Clicks, Admit(c) PROVE AnchorSound(trail')
  BY <1>2 DEF Admit, AnchorSound, Entry
<1>3. ASSUME NEW c \in Clicks, NEW ended \in {"executed", "failed"}, Finish(c, ended)
      PROVE  AnchorSound(trail')
  BY <1>3, AnchorFinish
<1>4. ASSUME NEW c \in Clicks, NEW g \in Goals, Begin(c, g) PROVE AnchorSound(trail')
  BY <1>4 DEF Begin
<1>5. ASSUME NEW c \in Clicks,
             LooksInVain(c) \/ Refuse(c) \/ AdmitUnrecorded(c) \/ Send(c)
      PROVE  AnchorSound(trail')
  BY <1>5 DEF LooksInVain, Refuse, AdmitUnrecorded, Send
<1>6. ASSUME NEW c \in Clicks, ClickTurn(c) PROVE AnchorSound(trail')
  BY <1>1, <1>2, <1>3, <1>4, <1>5, <1>6 DEF ClickTurn, NotSent, Settle
<1>7. CASE ~ \E c \in Clicks : ClickTurn(c)
  BY <1>0, <1>7, OtherQuiet
<1> QED
  BY <1>6, <1>7

\* The list shows no close whose attempt has no outcome.
THEOREM PerpsAnchorAfterOutcome == Spec => []AnchorAfterOutcome
<1>1. Init => AnchorSound(trail)
  BY DEF Init, AnchorSound
<1>2. PerpsTypeOK /\ GoalsFit /\ AnchorSound(trail) /\ [Next]_vars => AnchorSound(trail)'
  BY AnchorStep DEF AnchorSound
<1>3. AnchorSound(trail) => AnchorAfterOutcome
  BY DEF AnchorSound, AnchorAfterOutcome, Has
<1> QED
  BY <1>1, <1>2, <1>3, PerpsTypeCorrect, PTL DEF Spec

-----------------------------------------------------------------------------
(* Where a position may come from.  Orders only grow, so a fill once seen is  *)
(* there for good: the venue's positions, the views that requests hold and    *)
(* the reads they booked are all covered by an order that filled.             *)
Filled(p) ==
  \E o \in OrderIds : orders[o] # NoOrder /\ orders[o].pair = p /\ orders[o].filled > 0

NetFilled == \A p \in Pairs : net[p] > 0 => Filled(p)

ViewsFilled ==
  \A r \in Readers : view[r] # NoView => \A p \in Pairs : view[r][p] > 0 => Filled(p)

ReadsFilled ==
  \A v \in Others : reading[v] # NoRead =>
    LET o == reading[v].id IN
    /\ orders[o] # NoOrder /\ reading[v].filled <= orders[o].filled
    /\ Entry("created", reading[v].key) \in trail

\* A tracked position is backed by the order it is named after and by a
\* proposal that the trail t records; an adopted one is of the pair that is its
\* id, in which some order filled.
Tracked(r, order, t) ==
  /\ order # NoOrder /\ r.size <= order.filled
  /\ \E p \in Proposals : Entry("created", p) \in t /\ r.pair = PairOf[p]

Adopted(r, id, os) ==
  /\ r.pair = id
  /\ \E o \in OrderIds : os[o] # NoOrder /\ os[o].pair = id /\ os[o].filled > 0

Sound(b, os, t) ==
  \A id \in DOMAIN b :
    IF id \in OrderIds THEN Tracked(b[id], os[id], t) ELSE Adopted(b[id], id, os)

SourceInv ==
  /\ NetFilled /\ ViewsFilled /\ ReadsFilled
  /\ Sound(book, orders, trail)
  /\ file # Torn => Sound(file, orders, trail)

LEMMA FilledGrows ==
  ASSUME RailTypeOK, RailTypeOK', OrdersGrow, NEW p \in Pairs, Filled(p)
  PROVE  Filled(p)'
<1>1. PICK o \in OrderIds :
        orders[o] # NoOrder /\ orders[o].pair = p /\ orders[o].filled > 0
  BY DEF Filled
<1>2. orders[o].filled \in Nat
  BY <1>1, BookAssumption DEF RailTypeOK, Orders
<1>3. orders'[o] # NoOrder /\ orders'[o].pair = p /\ orders'[o].filled >= orders[o].filled
  BY <1>1 DEF OrdersGrow
<1>4. orders'[o].filled \in Nat
  BY <1>3, BookAssumption DEF RailTypeOK, Orders
<1>5. orders'[o].filled > 0
  BY <1>1, <1>2, <1>3, <1>4
<1> QED
  BY <1>3, <1>5 DEF Filled

\* A book that was sound before the orders and the trail grew is sound after.
LEMMA SoundGrows ==
  ASSUME RailTypeOK, RailTypeOK', OrdersGrow, trail \subseteq trail',
         NEW b \in Books, Sound(b, orders, trail)
  PROVE  Sound(b, orders', trail')
<1> SUFFICES ASSUME NEW id \in DOMAIN b
             PROVE  IF id \in OrderIds THEN Tracked(b[id], orders'[id], trail')
                                       ELSE Adopted(b[id], id, orders')
  BY DEF Sound
<1>1. id \in Ids /\ b[id] \in Positions
  BY BookIs
<1>2. ASSUME id \in OrderIds PROVE Tracked(b[id], orders'[id], trail')
  <2>1. Tracked(b[id], orders[id], trail)
    BY <1>2 DEF Sound
  <2>2. /\ orders[id] # NoOrder /\ orders'[id] # NoOrder
        /\ orders'[id].filled >= orders[id].filled /\ b[id].size <= orders[id].filled
    BY <1>2, <2>1 DEF OrdersGrow, Tracked
  <2>3. b[id].size \in Nat /\ orders[id].filled \in Nat /\ orders'[id].filled \in Nat
    BY <1>1, <1>2, <2>2, BookAssumption DEF RailTypeOK, Orders, Positions
  <2>4. b[id].size <= orders'[id].filled
    BY <2>2, <2>3
  <2> QED
    BY <2>1, <2>2, <2>4 DEF Tracked
<1>3. ASSUME id \notin OrderIds PROVE Adopted(b[id], id, orders')
  <2>1. id \in Pairs /\ b[id].pair = id /\ Filled(id)
    BY <1>1, <1>3 DEF Ids, Sound, Adopted, Filled
  <2> QED
    BY <2>1, FilledGrows DEF Filled, Adopted
<1> QED
  BY <1>2, <1>3

\* What a request holds stays covered when it is kept while orders grow.
LEMMA SourcesGrow ==
  ASSUME PerpsTypeOK, RailTypeOK', OrdersGrow, trail \subseteq trail', SourceInv,
         \A p \in Pairs : net'[p] > 0 => net[p] > 0 \/ Filled(p)',
         \A r \in Readers : \/ view'[r] \in {view[r], NoView}
                           \/ \A p \in Pairs : view'[r][p] > 0 => net[p] > 0,
         \A v \in Others : reading'[v] \in {reading[v], NoRead}
  PROVE  NetFilled' /\ ViewsFilled' /\ ReadsFilled'
<1>0. RailTypeOK
  BY DEF PerpsTypeOK, RailTypeOK
<1>1. \A p \in Pairs : Filled(p) => Filled(p)'
  BY <1>0, FilledGrows
<1>2. NetFilled'
  BY <1>1 DEF SourceInv, NetFilled
<1>3. ViewsFilled'
  BY <1>1 DEF SourceInv, NetFilled, ViewsFilled
<1>4. ReadsFilled'
  <2> SUFFICES ASSUME NEW v \in Others, reading'[v] # NoRead
               PROVE  LET o == reading[v].id IN
                      /\ orders'[o] # NoOrder /\ reading[v].filled <= orders'[o].filled
                      /\ Entry("created", reading[v].key) \in trail'
    BY DEF ReadsFilled, Entry
  <2> DEFINE o == reading[v].id
  <2>1. reading[v] \in Readings /\ o \in OrderIds /\ reading[v].filled \in Nat
    BY <1>0, BookAssumption DEF RailTypeOK, Readings
  <2>2. /\ orders[o] # NoOrder /\ reading[v].filled <= orders[o].filled
        /\ Entry("created", reading[v].key) \in trail'
    BY <2>1, NoneIsNone DEF SourceInv, ReadsFilled
  <2>3. orders'[o] # NoOrder /\ orders'[o].filled >= orders[o].filled
    BY <2>1, <2>2 DEF OrdersGrow
  <2>a. orders[o] \in Orders /\ orders'[o] \in Orders
    BY <1>0, <2>1, <2>2, <2>3 DEF RailTypeOK
  <2>4. orders[o].filled \in Nat /\ orders'[o].filled \in Nat
    BY <2>a, BookAssumption DEF Orders
  <2>5. reading[v].filled <= orders'[o].filled
    BY <2>1, <2>2, <2>3, <2>4
  <2> QED
    BY <2>2, <2>3, <2>5
<1> QED
  BY <1>2, <1>3, <1>4

LEMMA SourcesStep ==
  ASSUME PerpsTypeOK, GoalsFit, SourceInv, [Next]_vars
  PROVE  NetFilled' /\ ViewsFilled' /\ ReadsFilled'
<1>0. RailTypeOK /\ RailTypeOK' /\ OrdersGrow /\ trail \subseteq trail'
  BY RailStep, TrailGrows DEF PerpsTypeOK, RailTypeOK
<1>1. ASSUME NEW c \in Clicks, ClickTurn(c)
      PROVE  NetFilled' /\ ViewsFilled' /\ ReadsFilled'
  <2>1. ASSUME NEW g \in Goals, Begin(c, g) PROVE UNCHANGED <<view, reading, net>>
    BY <2>1 DEF Begin, venueVars
  <2>2. CASE LooksInVain(c) \/ Refuse(c) \/ Record(c) \/ Admit(c) \/ AdmitUnrecorded(c)
    <3>1. UNCHANGED <<view, reading, net>>
      BY <2>2 DEF LooksInVain, Refuse, Record, Admit, AdmitUnrecorded, venueVars
    <3> QED
      BY <1>0, <3>1, SourcesGrow
  <2>3. CASE NotSent(c) \/ Send(c) \/ Settle(c)
    <3>1. UNCHANGED <<view, reading, net>>
      BY <2>3 DEF NotSent, Send, Settle, Finish, venueVars
    <3> QED
      BY <1>0, <3>1, SourcesGrow
  <2>4. UNCHANGED <<view, reading, net>> => NetFilled' /\ ViewsFilled' /\ ReadsFilled'
    BY <1>0, SourcesGrow
  <2> QED
    BY <1>1, <2>1, <2>2, <2>3, <2>4 DEF ClickTurn
<1>2. ASSUME NEW r \in Readers, Looks(r)
      PROVE  NetFilled' /\ ViewsFilled' /\ ReadsFilled'
  <2>1. PICK look \in Views : /\ view' = [view EXCEPT ![r] = look]
                             /\ \A p \in Pairs : look[p] > 0 => net[p] > 0
    BY <1>0, <1>2, LooksIs
  <2>2. \A q \in Readers : \/ view'[q] \in {view[q], NoView}
                          \/ \A p \in Pairs : view'[q][p] > 0 => net[p] > 0
    BY <1>0, <2>1 DEF RailTypeOK
  <2>3. UNCHANGED <<reading, net>>
    BY <1>2 DEF Looks, venueVars
  <2> QED
    BY <1>0, <2>2, <2>3, SourcesGrow
<1>3. ASSUME NEW r \in Readers, NEW adopted, NEW w, Applies(r, adopted, w)
      PROVE  NetFilled' /\ ViewsFilled' /\ ReadsFilled'
  <2>1. view' = [view EXCEPT ![r] = NoView] /\ UNCHANGED <<reading, net>>
    BY <1>3 DEF Applies, venueVars
  <2>2. \A q \in Readers : view'[q] \in {view[q], NoView}
    BY <1>0, <2>1 DEF RailTypeOK
  <2> QED
    BY <1>0, <2>1, <2>2, SourcesGrow
<1>4. ASSUME NEW v \in Others, VerifyApplies(v)
      PROVE  NetFilled' /\ ViewsFilled' /\ ReadsFilled'
  <2>1. reading' = [reading EXCEPT ![v] = NoRead] /\ UNCHANGED <<view, net>>
    BY <1>4 DEF VerifyApplies, venueVars
  <2>2. \A u \in Others : reading'[u] \in {reading[u], NoRead}
    BY <1>0, <2>1 DEF RailTypeOK
  <2> QED
    BY <1>0, <2>1, <2>2, SourcesGrow
<1>5. ASSUME NEW v \in Others, NEW key \in Keys, NEW o \in OrderIds, VerifyReads(v, key, o)
      PROVE  NetFilled' /\ ViewsFilled' /\ ReadsFilled'
  <2>1. /\ orders[o] \in Orders /\ orders[o] # NoOrder /\ Entry("created", key) \in trail
        /\ reading' = [reading EXCEPT ![v] = [key |-> key, id |-> o,
                                              filled |-> orders[o].filled]]
        /\ UNCHANGED <<trail, view, orders, net>>
    BY <1>0, <1>5 DEF VerifyReads, RailTypeOK, Has, venueVars
  <2>2. NetFilled' /\ ViewsFilled'
    BY <2>1 DEF SourceInv, NetFilled, ViewsFilled, Filled
  <2>3. orders[o].filled <= orders[o].filled
    BY <2>1, BookAssumption DEF Orders
  <2>5. /\ \A u \in Others \ {v} : reading'[u] = reading[u]
        /\ reading'[v] = [key |-> key, id |-> o, filled |-> orders[o].filled]
    BY <1>0, <2>1 DEF RailTypeOK
  <2>6. ReadsFilled'
    BY <2>1, <2>3, <2>5 DEF SourceInv, ReadsFilled, Entry
  <2> QED
    BY <2>2, <2>6
<1>6. ASSUME Venue PROVE NetFilled' /\ ViewsFilled' /\ ReadsFilled'
  <2>1. UNCHANGED <<view, reading>>
    BY <1>6 DEF Venue, VenueTakes, Fills, HumanPlaces, Vanishes, railVars
  <2>2. \A p \in Pairs : net'[p] > 0 => net[p] > 0 \/ Filled(p)'
    <3>1. ASSUME NEW call \in wire, NEW o \in OrderIds, VenueTakes(call, o)
          PROVE  net' = net
      BY <3>1 DEF VenueTakes
    <3>2. ASSUME NEW o \in OrderIds, NEW p \in Pairs, NEW opens \in BOOLEAN,
                 HumanPlaces(o, p, opens)
          PROVE  net' = net
      BY <3>2 DEF HumanPlaces
    <3>3. ASSUME NEW o \in OrderIds, Fills(o), NEW p \in Pairs, net'[p] > 0
          PROVE  net[p] > 0 \/ Filled(p)'
      BY <1>0, <3>3, FillsIs DEF Filled
    <3>4. ASSUME NEW q \in Pairs, Vanishes(q), NEW p \in Pairs, net'[p] > 0
          PROVE  net[p] > 0
      BY <1>0, <3>4 DEF Vanishes, RailTypeOK
    <3> QED
      BY <1>6, <3>1, <3>2, <3>3, <3>4 DEF Venue
  <2> QED
    BY <1>0, <2>1, <2>2, SourcesGrow
<1>7. ASSUME Restart PROVE NetFilled' /\ ViewsFilled' /\ ReadsFilled'
  <2>1. /\ view' = [r \in Readers |-> NoView] /\ reading' = [v \in Others |-> NoRead]
        /\ UNCHANGED net
    BY <1>7 DEF Restart, venueVars
  <2> QED
    BY <1>0, <2>1, SourcesGrow
<1>8. ASSUME UNCHANGED vars PROVE NetFilled' /\ ViewsFilled' /\ ReadsFilled'
  BY <1>0, <1>8, SourcesGrow DEF vars, railVars, venueVars
<1> QED
  BY <1>1, <1>2, <1>3, <1>4, <1>5, <1>6, <1>7, <1>8 DEF Next

\* Booking a read keeps the book sound: an open takes what its order filled,
\* a close only removes.
LEMMA BooksSound ==
  ASSUME PerpsTypeOK, SourceInv, NEW v \in Others, NEW w \in WriteOutcomes, FillBooked(v, w)
  PROVE  Sound(book', orders, trail) /\ UNCHANGED orders /\ file' \in {book', file, Torn}
<1>0. /\ reading[v] \in Readings /\ BooksFill(reading[v], w) /\ UNCHANGED orders
      /\ book \in Books /\ reading[v] # NoRead
  BY DEF FillBooked, PerpsTypeOK, venueVars
<1> DEFINE o == reading[v].id
           key == reading[v].key
           new == [pair |-> PairOf[key], size |-> reading[v].filled]
<1>1. o \in OrderIds /\ o \in Ids
  BY <1>0 DEF Readings, Ids
<1>2. Sound(book, orders, trail)
  BY DEF SourceInv
<1>3. /\ orders[o] # NoOrder /\ reading[v].filled <= orders[o].filled
      /\ Entry("created", key) \in trail
  BY <1>0 DEF SourceInv, ReadsFilled
<1>4. /\ \/ key \in Proposals /\ new \in Positions /\ book' = With(book, o, new)
         \/ book' = Without(book, {key})
      /\ file' \in {book', file, Torn}
  BY <1>0, BooksFillIs
<1>5. ASSUME key \in Proposals, new \in Positions, book' = With(book, o, new)
      PROVE  Sound(book', orders, trail)
  <2>1. new.pair = PairOf[key] /\ new.size = reading[v].filled
    OBVIOUS
  <2>a. Tracked(new, orders[o], trail)
    BY <1>3, <1>5, <2>1 DEF Tracked
  <2> HIDE DEF o, key, new
  <2>2. /\ DOMAIN With(book, o, new) = DOMAIN book \cup {o}
        /\ \A i \in DOMAIN book \cup {o} :
             With(book, o, new)[i] = IF i = o THEN new ELSE book[i]
    BY DEF With
  <2>3. /\ DOMAIN book' = DOMAIN book \cup {o} /\ book'[o] = new
        /\ \A i \in DOMAIN book : i # o => book'[i] = book[i]
    BY <1>5, <2>2
  <2> QED
    BY <1>1, <1>2, <2>a, <2>3 DEF Sound
<1>6. ASSUME book' = Without(book, {key}) PROVE Sound(book', orders, trail)
  <2> HIDE DEF o, key, new
  <2>0. /\ DOMAIN Without(book, {key}) = DOMAIN book \ {key}
        /\ \A i \in DOMAIN book \ {key} : Without(book, {key})[i] = book[i]
    BY DEF Without
  <2>1. /\ DOMAIN book' = DOMAIN book \ {key}
        /\ \A i \in DOMAIN book' : book'[i] = book[i]
    BY <1>6, <2>0
  <2> QED
    BY <1>2, <2>1 DEF Sound
<1> QED
  BY <1>0, <1>4, <1>5, <1>6

\* So does a view: what it adopts was filled before the view was read.
LEMMA AppliesSound ==
  ASSUME PerpsTypeOK, SourceInv, NEW r \in Readers, NEW adopted, NEW w \in WriteOutcomes,
         Applies(r, adopted, w)
  PROVE  Sound(book', orders, trail) /\ UNCHANGED orders /\ file' \in {book', file, Torn}
<1> DEFINE look == view[r]
<1>0. /\ look \in Views /\ look # NoView /\ book \in Books /\ UNCHANGED orders
      /\ adopted \subseteq Unknown(look)
      /\ book' = Reconciled(look, adopted) /\ Persist(w)
  BY DEF Applies, PerpsTypeOK, reconcileWithVenue, venueVars
<1>1. /\ DOMAIN book' = Stay(book, look) \cup adopted
      /\ \A id \in adopted : book'[id] = [pair |-> id, size |-> look[id]]
      /\ \A id \in Stay(book, look) \ adopted : book'[id] = book[id]
  BY <1>0, BookReconciled
<1>2. /\ Stay(book, look) \subseteq DOMAIN book
      /\ \A id \in adopted : id \in Pairs /\ look[id] > 0 /\ id \notin OrderIds
  BY <1>0, BookAssumption DEF Stay, Unknown
<1>3. Sound(book, orders, trail)
  BY DEF SourceInv
<1>4. \A p \in Pairs : look[p] > 0 => Filled(p)
  BY <1>0 DEF SourceInv, ViewsFilled
<1>5. \A id \in adopted : Filled(id)
  BY <1>2, <1>4
<1>6. \A id \in adopted : book'[id].pair = id
  BY <1>1
<1>7. Sound(book', orders, trail)
  <2> HIDE DEF look
  <2> SUFFICES ASSUME NEW id \in DOMAIN book'
               PROVE  IF id \in OrderIds THEN Tracked(book'[id], orders[id], trail)
                                         ELSE Adopted(book'[id], id, orders)
    BY DEF Sound
  <2>1. CASE id \in adopted
    BY <1>2, <1>5, <1>6, <2>1 DEF Adopted, Filled
  <2>2. CASE id \notin adopted
    BY <1>1, <1>2, <1>3, <2>2 DEF Sound
  <2> QED
    BY <2>1, <2>2
<1> QED
  BY <1>0, <1>7, PersistIs

LEMMA SourceInit == Init => SourceInv
<1> SUFFICES ASSUME Init PROVE SourceInv
  OBVIOUS
<1>1. /\ net = [p \in Pairs |-> 0] /\ view = [r \in Readers |-> NoView]
      /\ reading = [v \in Others |-> NoRead]
      /\ book = NoBook /\ file = NoBook
  BY DEF Init, BookInit
<1>2. Sound(NoBook, orders, trail)
  BY EmptyBook DEF Sound
<1> QED
  BY <1>1, <1>2 DEF SourceInv, NetFilled, ViewsFilled, ReadsFilled

LEMMA SoundTrail ==
  ASSUME trail \subseteq trail', UNCHANGED orders, Sound(book', orders, trail)
  PROVE  Sound(book', orders', trail')
  BY DEF Sound, Tracked, Adopted, Entry

LEMMA SourceStep ==
  ASSUME PerpsTypeOK, GoalsFit, SourceInv, [Next]_vars
  PROVE  SourceInv'
<1>0. /\ RailTypeOK /\ RailTypeOK' /\ OrdersGrow /\ trail \subseteq trail'
      /\ book \in Books /\ file \in Books \cup {Torn}
  BY RailStep, TrailGrows DEF PerpsTypeOK, RailTypeOK
<1>1. Sound(book, orders', trail')
  BY <1>0, SoundGrows DEF SourceInv
<1>2. file # Torn => Sound(file, orders', trail')
  BY <1>0, SoundGrows DEF SourceInv
<1>3. \/ UNCHANGED bookVars
      \/ Sound(book', orders', trail') /\ file' \in {book', file, Torn}
      \/ Restart
  <2>1. ASSUME NEW v \in Others, NEW w \in WriteOutcomes, FillBooked(v, w)
        PROVE  Sound(book', orders', trail') /\ file' \in {book', file, Torn}
    BY <1>0, <2>1, BooksSound, SoundTrail
  <2>2. ASSUME NEW r \in Readers, NEW adopted, NEW w \in WriteOutcomes, Applies(r, adopted, w)
        PROVE  Sound(book', orders', trail') /\ file' \in {book', file, Torn}
    BY <1>0, <2>2, AppliesSound, SoundTrail
  <2> QED
    BY <2>1, <2>2, BookSteps
<1>4. Sound(book', orders', trail') /\ (file' # Torn => Sound(file', orders', trail'))
  <2>1. CASE UNCHANGED bookVars
    BY <1>1, <1>2, <2>1 DEF bookVars
  <2>2. CASE Sound(book', orders', trail') /\ file' \in {book', file, Torn}
    BY <1>2, <2>2
  <2>3. CASE Restart
    <3>1. file' = file /\ book' = IF file = Torn THEN NoBook ELSE file
      BY <2>3 DEF Restart, Reboot
    <3>2. Sound(NoBook, orders', trail')
      BY EmptyBook DEF Sound
    <3> QED
      BY <1>2, <3>1, <3>2
  <2> QED
    BY <1>3, <2>1, <2>2, <2>3
<1> QED
  BY <1>4, SourcesStep DEF SourceInv

\* No position, in memory or in the file, is invented: it is no larger than the
\* fill it is named after and of a recorded proposal's pair, or its pair filled.
THEOREM PerpsNothingInvented == Spec => []NothingInvented
<1>1. PerpsTypeOK /\ GoalsFit /\ SourceInv /\ [Next]_vars => SourceInv'
  BY SourceStep
<1>2. SourceInv => NothingInvented
  BY DEF SourceInv, NothingInvented, Sound, Tracked, Adopted, Backed, Has
<1> QED
  BY <1>1, <1>2, SourceInit, PerpsTypeCorrect, PTL DEF Spec

-----------------------------------------------------------------------------
(* What a view does to the book, and what takes a position out of it.         *)

\* Adopted ids are new ones: a record that has a pair for its id is of that pair.
LEMMA UnknownApart ==
  ASSUME book \in Books, Sound(book, orders, trail), NEW look
  PROVE  Unknown(look) \cap DOMAIN book = {}
<1> SUFFICES ASSUME NEW id \in Unknown(look), id \in DOMAIN book PROVE FALSE
  OBVIOUS
<1>1. id \in Pairs /\ id \notin OrderIds /\ id \notin PairsOf(book)
  BY BookAssumption DEF Unknown
<1>2. book[id].pair = id
  BY <1>1 DEF Sound, Adopted
<1> QED
  BY <1>1, <1>2 DEF PairsOf

\* A view that is whole, priced and still true when it is applied leaves the
\* venue's pairs; no view brings a second record of a pair.
LEMMA TrueLook ==
  ASSUME PerpsTypeOK, SourceInv, NEW r \in Readers, NEW w \in WriteOutcomes,
         NEW new, new \subseteq Unknown(net), Unknown(net) \subseteq new,
         Applies(r, new, w), view[r] = net
  PROVE  PairsOf(book') = {p \in Pairs : net[p] > 0}
<1> DEFINE look == view[r]
<1>0. /\ look \in Views /\ book \in Books /\ book' = Reconciled(look, new)
      /\ Sound(book, orders, trail)
  BY DEF Applies, PerpsTypeOK, reconcileWithVenue, SourceInv, Views
<1> HIDE DEF look
<1>a. look = net
  BY DEF look
<1>1. /\ DOMAIN book' = Stay(book, look) \cup new
      /\ \A id \in new : book'[id] = [pair |-> id, size |-> look[id]]
      /\ \A id \in Stay(book, look) \ new : book'[id] = book[id]
  BY <1>0, BookReconciled
<1>2. \A id \in DOMAIN book : id \in Ids /\ book[id].pair \in Pairs
  BY <1>0, BookIs DEF Positions
<1>3. new \cap DOMAIN book = {}
  BY <1>0, <1>a, UnknownApart
<1>4. \A id \in new : id \in Pairs /\ look[id] > 0 /\ book'[id].pair = id
  <2>1. \A id \in new : id \in Pairs /\ look[id] > 0
    BY <1>a DEF Unknown
  <2> QED
    BY <1>1, <2>1
<1>5. \A id \in DOMAIN book' : book'[id].pair \in Pairs /\ look[book'[id].pair] > 0
  BY <1>1, <1>2, <1>4 DEF Stay
<1>6. ASSUME NEW p \in Pairs, look[p] > 0
      PROVE  \E id \in DOMAIN book' : book'[id].pair = p
  <2>1. CASE p \in PairsOf(book)
    <3>1. PICK id \in DOMAIN book : book[id].pair = p
      BY <2>1 DEF PairsOf
    <3>2. id \in Stay(book, look) \ new
      BY <1>3, <1>6, <3>1 DEF Stay
    <3> QED
      BY <1>1, <3>1, <3>2
  <2>2. CASE p \notin PairsOf(book)
    <3>1. p \in new
      BY <1>a, <1>6, <2>2 DEF Unknown
    <3> QED
      BY <1>1, <1>4, <3>1
  <2> QED
    BY <2>1, <2>2
<1> QED
  BY <1>a, <1>5, <1>6 DEF PairsOf

LEMMA NoSecondRecord ==
  ASSUME PerpsTypeOK, SourceInv, NEW r \in Readers, NEW adopted, NEW w,
         Applies(r, adopted, w),
         NEW id \in DOMAIN book' \ DOMAIN book, NEW i \in DOMAIN book',
         book'[i].pair = book'[id].pair
  PROVE  i = id
<1> DEFINE look == view[r]
<1>0. /\ look \in Views /\ book \in Books /\ adopted \subseteq Unknown(look)
      /\ book' = Reconciled(look, adopted)
  BY DEF Applies, PerpsTypeOK, reconcileWithVenue
<1> HIDE DEF look
<1>1. /\ DOMAIN book' = Stay(book, look) \cup adopted
      /\ \A j \in adopted : book'[j] = [pair |-> j, size |-> look[j]]
      /\ \A j \in Stay(book, look) \ adopted : book'[j] = book[j]
  BY <1>0, BookReconciled
<1>2. id \in adopted /\ id \notin PairsOf(book)
  BY <1>0, <1>1 DEF Stay, Unknown
<1>3. \A j \in adopted : book'[j].pair = j
  BY <1>1
<1>4. CASE i \in adopted
  BY <1>2, <1>3, <1>4
<1>5. CASE i \notin adopted
  <2>1. i \in DOMAIN book /\ book'[i] = book[i]
    BY <1>1, <1>5 DEF Stay
  <2> QED
    BY <1>2, <1>3, <2>1 DEF PairsOf
<1> QED
  BY <1>4, <1>5

\* The step that ends the hold of a view is its application or a restart.
LEMMA ViewEnds ==
  ASSUME PerpsTypeOK, [Next]_vars, NEW r \in Readers, view[r] # NoView, view'[r] = NoView
  PROVE  Restart \/ \E adopted, w : Applies(r, adopted, w)
<1>0. view \in [Readers -> Views \cup {NoView}]
  BY DEF PerpsTypeOK
<1>1. ASSUME NEW c \in Clicks, ClickTurn(c) PROVE UNCHANGED view
  <2>1. ASSUME NEW g \in Goals, Begin(c, g) PROVE UNCHANGED view
    BY <2>1 DEF Begin
  <2>2. CASE LooksInVain(c) \/ Refuse(c) \/ Record(c) \/ Admit(c) \/ AdmitUnrecorded(c)
    BY <2>2 DEF LooksInVain, Refuse, Record, Admit, AdmitUnrecorded
  <2>3. CASE NotSent(c) \/ Send(c) \/ Settle(c)
    BY <2>3 DEF NotSent, Send, Settle, Finish
  <2> QED
    BY <1>1, <2>1, <2>2, <2>3 DEF ClickTurn
<1>2. ASSUME NEW q \in Readers, Looks(q) PROVE view'[r] = view[r] \/ view'[r] \in Views
  <2>1. RailTypeOK
    BY DEF PerpsTypeOK, RailTypeOK
  <2>2. PICK look \in Views : view' = [view EXCEPT ![q] = look]
    BY <1>2, <2>1, LooksIs
  <2> QED
    BY <1>0, <2>2
<1>3. ASSUME NEW q \in Readers, NEW adopted, NEW w, Applies(q, adopted, w)
      PROVE  view'[r] = view[r] \/ \E a, x : Applies(r, a, x)
  <2>1. view' = [view EXCEPT ![q] = NoView]
    BY <1>3 DEF Applies
  <2>2. CASE q = r
    BY <1>3, <2>2
  <2>3. CASE q # r
    BY <1>0, <2>1, <2>3
  <2> QED
    BY <2>2, <2>3
<1>4. ASSUME NEW v \in Others,
             VerifyApplies(v) \/ \E key \in Keys, o \in OrderIds : VerifyReads(v, key, o)
      PROVE  UNCHANGED view
  BY <1>4 DEF VerifyApplies, VerifyReads
<1>5. ASSUME Venue PROVE UNCHANGED view
  BY <1>5 DEF Venue, VenueTakes, Fills, HumanPlaces, Vanishes, railVars
<1>6. ASSUME UNCHANGED vars PROVE UNCHANGED view
  BY <1>6 DEF vars, railVars
<1> QED
  BY <1>1, <1>2, <1>3, <1>4, <1>5, <1>6, PerpsAssumption DEF Next

\* A true and whole look repairs the book, and no look doubles a pair in it.
THEOREM PerpsLookAgrees == Spec => LookAgrees
<1> DEFINE Agrees(r) ==
             /\ \A w \in WriteOutcomes :
                  view[r] = net /\ Applies(r, Unknown(net), w)
                    => PairsOf(book') = {p \in Pairs : net[p] > 0}
             /\ \A id \in DOMAIN book' \ DOMAIN book, i \in DOMAIN book' :
                  book'[i].pair = book'[id].pair => i = id \/ Restart
<1>1. ASSUME PerpsTypeOK, SourceInv, [Next]_vars,
             NEW r \in Readers, view[r] # NoView, view'[r] = NoView
      PROVE  Agrees(r)
  <2>1. \A w \in WriteOutcomes :
          view[r] = net /\ Applies(r, Unknown(net), w)
            => PairsOf(book') = {p \in Pairs : net[p] > 0}
    BY <1>1, TrueLook
  <2>2. ASSUME NEW id \in DOMAIN book' \ DOMAIN book, NEW i \in DOMAIN book',
               book'[i].pair = book'[id].pair, ~Restart
        PROVE  i = id
    <3>1. PICK adopted, w : Applies(r, adopted, w)
      BY <1>1, <2>2, ViewEnds
    <3> QED
      BY <1>1, <2>2, <3>1, NoSecondRecord
  <2> QED
    BY <2>1, <2>2
<1>2. PerpsTypeOK /\ SourceInv /\ [Next]_vars =>
        [\A r \in Readers : view[r] # NoView /\ view'[r] = NoView => Agrees(r)]_vars
  BY <1>1
<1>3. PerpsTypeOK /\ GoalsFit /\ SourceInv /\ [Next]_vars => SourceInv'
  BY SourceStep
<1> QED
  BY <1>2, <1>3, SourceInit, PerpsTypeCorrect, PTL DEF Spec, LookAgrees

\* A position leaves the book only by a fill that was read, a view without its
\* pair, or a restart.
THEOREM PerpsLeavesOnEvidence == Spec => LeavesOnEvidence
<1> DEFINE Evidence(id) ==
             \/ Restart
             \/ \E v \in Others : /\ reading[v] # NoRead /\ reading'[v] = NoRead
                                  /\ reading[v].key = id /\ reading[v].filled > 0
             \/ \E r \in Readers : /\ view[r] # NoView /\ view'[r] = NoView
                                   /\ view[r][book[id].pair] = 0
<1>1. ASSUME PerpsTypeOK, [Next]_vars, NEW id \in DOMAIN book \ DOMAIN book'
      PROVE  Evidence(id)
  <2>0. book \in Books
    BY <1>1 DEF PerpsTypeOK
  <2>1. ~ UNCHANGED bookVars
    BY <1>1 DEF bookVars
  <2>2. ASSUME NEW v \in Others, NEW w \in WriteOutcomes, FillBooked(v, w)
        PROVE  Evidence(id)
    <3>1. /\ reading[v] \in Readings /\ reading[v] # NoRead /\ reading'[v] = NoRead
          /\ BooksFill(reading[v], w)
      BY <1>1, <2>2 DEF FillBooked, PerpsTypeOK
    <3>2. reading[v].filled > 0 /\ reading[v].id \in Ids
      BY <3>1 DEF BooksFill, Readings, Ids
    <3>3. \/ \E q \in Positions : book' = With(book, reading[v].id, q)
          \/ book' = Without(book, {reading[v].key})
      BY <1>1, <3>1, BooksFillIs
    <3>4. \A q \in Positions :
            DOMAIN With(book, reading[v].id, q) = DOMAIN book \cup {reading[v].id}
      BY DEF With
    <3>5. book' = Without(book, {reading[v].key})
      BY <1>1, <3>3, <3>4
    <3>6. DOMAIN book' = DOMAIN book \ {reading[v].key}
      BY <2>0, <3>5, WithoutIs
    <3>7. id = reading[v].key
      BY <1>1, <3>6
    <3> QED
      BY <3>1, <3>2, <3>7
  <2>3. ASSUME NEW r \in Readers, NEW adopted, NEW w, Applies(r, adopted, w)
        PROVE  Evidence(id)
    <3>1. /\ view[r] \in Views /\ view[r] # NoView /\ view'[r] = NoView
          /\ adopted \subseteq Unknown(view[r]) /\ book' = Reconciled(view[r], adopted)
      BY <1>1, <2>3 DEF Applies, PerpsTypeOK, reconcileWithVenue
    <3>2. DOMAIN book' = Stay(book, view[r]) \cup adopted
      BY <2>0, <3>1, ReconciledIs
    <3>3. ~(view[r][book[id].pair] > 0)
      BY <1>1, <3>2 DEF Stay
    <3>4. book[id].pair \in Pairs
      BY <1>1, <2>0, BookIs DEF Positions
    <3>5. view[r][book[id].pair] = 0
      BY <3>1, <3>3, <3>4, BookAssumption DEF Views
    <3> QED
      BY <3>1, <3>5
  <2> QED
    BY <1>1, <2>1, <2>2, <2>3, BookSteps
<1>2. PerpsTypeOK /\ [Next]_vars =>
        [\A id \in DOMAIN book \ DOMAIN book' : Evidence(id)]_vars
  BY <1>1
<1> QED
  BY <1>2, PerpsTypeCorrect, PTL DEF Spec, LeavesOnEvidence
=============================================================================
