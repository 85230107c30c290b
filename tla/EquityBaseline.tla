--------------------------- MODULE EquityBaseline ---------------------------
(***************************************************************************)
(* The day baseline behind the daily-loss gate (ccxtOrdering.mjs): each     *)
(* observation reads an exchange's wallet and folds the reading into the    *)
(* store {dayKey, equity, dayStartEquity}, under one lock per file.  The    *)
(* rails observe one exchange per request; the scheduled sweep observes     *)
(* every keyed exchange in turn.                                           *)
(*                                                                         *)
(* `now` is read before the lock is asked for: by a rail at the call, by    *)
(* the sweep once for the whole pass.  Waiters re-check the lock in the     *)
(* order they began to wait, so the lock is a queue.  A reading is its      *)
(* place in the order of all readings.                                     *)
(***************************************************************************)
EXTENDS Naturals, Sequences, SequencesExt

CONSTANTS
  Exchanges,        \* the keyed exchange ids
  SweepOrder,       \* ccxtKeyedExchangeIds(), in order
  Rails,            \* callers of observeCcxtEquity other than the sweep
  Sweep,            \* the scheduled job
  PersistOutcomes,  \* subset of BOOLEAN: FALSE = the write throws
  NoRecord,         \* no entry for an exchange
  MaxDay, MaxReadings, MaxCrashes   \* bounds

Days == 0 .. MaxDay
Readings == 1 .. MaxReadings
Records == [day : Days, equity : Readings, start : Readings]

ASSUME EquityAssumption ==
  /\ Exchanges # {} /\ SweepOrder \in Seq(Exchanges)
  /\ Sweep \notin Rails
  /\ PersistOutcomes \subseteq BOOLEAN
  /\ NoRecord \notin Records
  /\ MaxDay \in Nat /\ MaxReadings \in Nat /\ MaxCrashes \in Nat

VARIABLES
  day,       \* the current UTC day
  crashes,
  clock,     \* readings so far
  queue,     \* who holds the lock (first) and who waits for it, in order
  now,       \* per caller: `now` of its observation
  exchange,  \* per caller: what it observes
  reading,   \* per caller: the balance it has read, 0 before
  left,      \* the exchanges the running sweep has still to visit
  sweeping,  \* the job's entry in `running` of the scheduler
  store,     \* equityStore
  file,      \* the equity file
  answered,  \* per exchange and day: the baseline last answered, 0 for none
  setBack    \* history: a sweep has put an older day's record over today's

jobVars == <<queue, now, exchange, reading, left, sweeping>>
equityVars == <<day, crashes, clock, jobVars, store, file, answered, setBack>>

Callers == Rails \cup {Sweep}

-----------------------------------------------------------------------------
Busy(p) == p \in ToSet(queue)

\* A slip the runs must notice: the balance is fetched outside the lock.
AnyWaiter(p) == Busy(p)

Holds(p) == queue # <<>> /\ Head(queue) = p

\* A slip: the newest waiter is woken first.
ReleasedToLast(p) ==
  LET rest == SelectSeq(queue, LAMBDA q : q # p) IN
  IF rest = <<>> THEN <<>> ELSE <<Last(rest)>> \o Front(rest)

\* The holder leaves; the one that has waited longest is woken first.
Released(p) == Tail(queue)

\* Two slips: the baseline follows every reading; nobody seeds it.
RecordRolling(p)  == [day |-> now[p], equity |-> reading[p], start |-> reading[p]]
RecordUnseeded(p) ==
  LET prev == store[exchange[p]] IN
  [day    |-> now[p],
   equity |-> reading[p],
   start  |-> IF prev = NoRecord THEN 0 ELSE prev.start]

\* The day's first reading seeds its baseline.
Record(p) ==
  LET prev == store[exchange[p]] IN
  [day    |-> now[p],
   equity |-> reading[p],
   start  |-> IF prev = NoRecord \/ prev.day # now[p] THEN reading[p] ELSE prev.start]

bootEquity == file

-----------------------------------------------------------------------------
EquityInit ==
  /\ day = 0 /\ crashes = 0 /\ clock = 0
  /\ queue = <<>>
  /\ now = [p \in Callers |-> 0]
  /\ exchange = [p \in Callers |-> CHOOSE e \in Exchanges : TRUE]
  /\ reading = [p \in Callers |-> 0]
  /\ left = <<>> /\ sweeping = FALSE
  /\ store = [e \in Exchanges |-> NoRecord]
  /\ file = store
  /\ answered = [e \in Exchanges |-> [d \in Days |-> 0]]
  /\ setBack = [e \in Exchanges |-> FALSE]

\* withFileLock: the caller joins the queue in the turn that asks.
Enqueue(p, e) ==
  /\ ~Busy(p)
  /\ queue' = Append(queue, p)
  /\ exchange' = [exchange EXCEPT ![p] = e]
  /\ reading' = [reading EXCEPT ![p] = 0]

\* A rail's observeCcxtEquity.
observeCcxtEquity(p, e) ==
  /\ p \in Rails
  /\ Enqueue(p, e)
  /\ now' = [now EXCEPT ![p] = day]
  /\ UNCHANGED <<day, crashes, clock, left, sweeping, store, file, answered, setBack>>

\* runJob starts a pass unless one is running.
SweepStart ==
  /\ ~sweeping
  /\ sweeping' = TRUE
  /\ left' = SweepOrder
  /\ now' = [now EXCEPT ![Sweep] = day]
  /\ UNCHANGED <<day, crashes, clock, queue, exchange, reading, store, file, answered, setBack>>

\* An exchange observed at most a minute before the pass began is skipped, and
\* one observed after it began always is.
SweepSkips ==
  /\ sweeping /\ ~Busy(Sweep) /\ left # <<>>
  /\ store[Head(left)] # NoRecord
  /\ left' = Tail(left)
  /\ UNCHANGED <<day, crashes, clock, queue, now, exchange, reading, sweeping,
                 store, file, answered, setBack>>

SweepObserves ==
  /\ sweeping /\ left # <<>>
  /\ store[Head(left)] # NoRecord => store[Head(left)].day <= now[Sweep]
  /\ Enqueue(Sweep, Head(left))
  /\ left' = Tail(left)
  /\ UNCHANGED <<day, crashes, clock, now, sweeping, store, file, answered, setBack>>

SweepEnds ==
  /\ sweeping /\ ~Busy(Sweep) /\ left = <<>>
  /\ sweeping' = FALSE
  /\ UNCHANGED <<day, crashes, clock, queue, now, exchange, reading, left,
                 store, file, answered, setBack>>

\* The holder's fetchBalance answers and every asset is priced.
Reads(p) ==
  /\ Holds(p) /\ reading[p] = 0
  /\ clock < MaxReadings
  /\ clock' = clock + 1
  /\ reading' = [reading EXCEPT ![p] = clock']
  /\ UNCHANGED <<day, crashes, queue, now, exchange, left, sweeping, store, file,
                 answered, setBack>>

\* The wallet cannot be read or valued: nothing is stored, the lock is released.
CannotRead(p) ==
  /\ Holds(p) /\ reading[p] = 0
  /\ queue' = Released(p)
  /\ UNCHANGED <<day, crashes, clock, now, exchange, reading, left, sweeping, store,
                 file, answered, setBack>>

\* Only the sweep's `now` may be older than a record that was stored before it.
SetsBack(p) ==
  LET e == exchange[p] IN
  setBack' = [setBack EXCEPT ![e] =
    @ \/ (p = Sweep /\ store[e] # NoRecord /\ store[e].day > now[Sweep])]

\* The reading is folded into the store, persisted, and answered.
Commits(p) ==
  /\ Holds(p) /\ reading[p] # 0
  /\ TRUE \in PersistOutcomes
  /\ store' = [store EXCEPT ![exchange[p]] = Record(p)]
  /\ file' = store'
  /\ answered' = [answered EXCEPT ![exchange[p]][now[p]] = Record(p).start]
  /\ queue' = Released(p)
  /\ reading' = [reading EXCEPT ![p] = 0]
  /\ SetsBack(p)
  /\ UNCHANGED <<day, crashes, clock, now, exchange, left, sweeping>>

\* The persist throws: memory keeps the record, the caller gets the throw, the
\* lock is released in `finally`, and a sweep ends with it.
CommitThrows(p) ==
  /\ Holds(p) /\ reading[p] # 0
  /\ FALSE \in PersistOutcomes
  /\ store' = [store EXCEPT ![exchange[p]] = Record(p)]
  /\ queue' = Released(p)
  /\ reading' = [reading EXCEPT ![p] = 0]
  /\ sweeping' = (sweeping /\ p # Sweep)
  /\ left' = IF p = Sweep THEN <<>> ELSE left
  /\ SetsBack(p)
  /\ UNCHANGED <<day, crashes, clock, now, exchange, file, answered>>

NextDay ==
  /\ day < MaxDay
  /\ day' = day + 1
  /\ setBack' = [e \in Exchanges |-> FALSE]
  /\ UNCHANGED <<crashes, clock, jobVars, store, file, answered>>

\* The process dies and boots from the file.
Restart ==
  /\ crashes < MaxCrashes
  /\ crashes' = crashes + 1
  /\ queue' = <<>>
  /\ reading' = [p \in Callers |-> 0]
  /\ left' = <<>> /\ sweeping' = FALSE
  /\ store' = bootEquity
  /\ UNCHANGED <<day, clock, now, exchange, file, answered, setBack>>

HolderSteps(p) == Reads(p) \/ CannotRead(p) \/ Commits(p) \/ CommitThrows(p)
SweepSteps == SweepStart \/ SweepSkips \/ SweepObserves \/ SweepEnds

EquityNext ==
  \/ \E p \in Rails, e \in Exchanges : observeCcxtEquity(p, e)
  \/ SweepSteps
  \/ \E p \in Callers : HolderSteps(p)
  \/ NextDay
  \/ Restart

EquitySpec == EquityInit /\ [][EquityNext]_equityVars

\* Every venue call of the holder ends (15 s limit), and the turn after it runs.
EquityFairSpec ==
  EquitySpec /\ \A p \in Callers : WF_equityVars(HolderSteps(p))

-----------------------------------------------------------------------------
\* Every variable has the shape the code gives it.
EquityTypeOK ==
  /\ day \in Days /\ crashes \in 0 .. MaxCrashes /\ clock \in 0 .. MaxReadings
  /\ queue \in Seq(Callers) /\ IsInjective(queue)
  /\ now \in [Callers -> Days]
  /\ exchange \in [Callers -> Exchanges]
  /\ reading \in [Callers -> 0 .. MaxReadings]
  /\ left \in Seq(Exchanges) /\ sweeping \in BOOLEAN
  /\ store \in [Exchanges -> Records \cup {NoRecord}]
  /\ file \in [Exchanges -> Records \cup {NoRecord}]
  /\ answered \in [Exchanges -> [Days -> 0 .. MaxReadings]]
  /\ setBack \in [Exchanges -> BOOLEAN]

\* The loss of a day is measured from one baseline: once an observation of the
\* day has been answered with it, no later answer of that day has another one,
\* across failed persists and restarts (observeCcxtEquityLocked, bootEquity),
\* unless a sweep that began before midnight puts yesterday's record back.
\* "A restart does not silently reset today's loss window."
BaselineStands ==
  [][\A e \in Exchanges :
       answered[e][day] # 0 /\ ~setBack[e] =>
         answered'[e][day] = answered[e][day]]_equityVars

\* Overlapping observations serialize end to end: the store never goes back to
\* a reading older than the one it holds (withFileLock; "no lost update").
NoLostUpdate ==
  [][\A e \in Exchanges :
       crashes' = crashes /\ store[e] # NoRecord =>
         store'[e].equity >= store[e].equity]_equityVars

\* Whoever asks for the lock is served, however persists and reads fail.
EveryObservationEnds == \A p \in Callers : Busy(p) ~> ~Busy(p)
=============================================================================
