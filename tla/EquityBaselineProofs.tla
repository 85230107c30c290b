------------------------ MODULE EquityBaselineProofs -----------------------
(***************************************************************************)
(* The day baseline, for every set of exchanges and rails, every order of  *)
(* the sweep and every number of days, readings and restarts: the day's    *)
(* answered baseline stands and the store never goes back to an older      *)
(* reading.                                                                *)
(***************************************************************************)
EXTENDS EquityBaseline, TLAPS

-----------------------------------------------------------------------------
(* The lock is a queue: what joining at its end and leaving at its head do.  *)

\* A caller that is not in the queue joins behind everybody in it.
LEMMA JoinQueue ==
  ASSUME NEW S, NEW q \in Seq(S), NEW p \in S, p \notin ToSet(q), IsInjective(q)
  PROVE  /\ Append(q, p) \in Seq(S)
         /\ IsInjective(Append(q, p))
         /\ ToSet(Append(q, p)) = ToSet(q) \cup {p}
         /\ DOMAIN Append(q, p) = 1 .. Len(q) + 1
         /\ \A i \in DOMAIN q : i \in 1 .. Len(q) /\ Append(q, p)[i] = q[i]
         /\ Append(q, p)[Len(q) + 1] = p
         /\ q # <<>> => Append(q, p) # <<>> /\ Head(Append(q, p)) = Head(q)
<1> DEFINE r == Append(q, p)
<1>1. /\ r \in Seq(S) /\ DOMAIN r = 1 .. Len(q) + 1 /\ Len(q) \in Nat
      /\ DOMAIN q = 1 .. Len(q)
      /\ \A i \in 1 .. Len(q) : r[i] = q[i]
      /\ r[Len(q) + 1] = p
  OBVIOUS
<1>2. \A i \in 1 .. Len(q) + 1 : i \in 1 .. Len(q) \/ i = Len(q) + 1
  BY <1>1
<1>3. \A i \in 1 .. Len(q) : q[i] # p /\ i # Len(q) + 1 /\ i \in 1 .. Len(q) + 1
  BY <1>1 DEF ToSet
<1>4. IsInjective(r)
  <2> SUFFICES ASSUME NEW i \in 1 .. Len(q) + 1, NEW j \in 1 .. Len(q) + 1, r[i] = r[j]
               PROVE  i = j
    BY <1>1 DEF IsInjective
  <2>1. CASE i \in 1 .. Len(q) /\ j \in 1 .. Len(q)
    BY <1>1, <2>1 DEF IsInjective
  <2> QED
    BY <1>1, <1>2, <1>3, <2>1
<1>5. ToSet(r) = ToSet(q) \cup {p}
  BY <1>1, <1>2, <1>3 DEF ToSet
<1>6. q # <<>> => r # <<>> /\ Head(r) = Head(q)
  OBVIOUS
<1> QED
  BY <1>1, <1>4, <1>5, <1>6

\* The holder leaves; everybody else moves up by one place.
LEMMA LeaveQueue ==
  ASSUME NEW S, NEW q \in Seq(S), q # <<>>, IsInjective(q)
  PROVE  /\ Tail(q) \in Seq(S)
         /\ IsInjective(Tail(q))
         /\ ToSet(Tail(q)) = ToSet(q) \ {Head(q)}
         /\ \A i \in DOMAIN Tail(q) : i + 1 \in DOMAIN q /\ Tail(q)[i] = q[i + 1]
<1> DEFINE r == Tail(q)
<1>1. /\ r \in Seq(S) /\ Len(q) \in Nat /\ Len(q) >= 1
      /\ DOMAIN q = 1 .. Len(q) /\ DOMAIN r = 1 .. Len(q) - 1
      /\ \A i \in 1 .. Len(q) - 1 : r[i] = q[i + 1]
      /\ Head(q) = q[1]
  OBVIOUS
<1>2. \A i \in 1 .. Len(q) - 1 : i + 1 \in 1 .. Len(q) /\ i + 1 # 1
  BY <1>1
<1>3. \A i \in 1 .. Len(q) : i = 1 \/ (i - 1 \in 1 .. Len(q) - 1 /\ (i - 1) + 1 = i)
  BY <1>1
<1>4. IsInjective(r)
  <2> SUFFICES ASSUME NEW i \in 1 .. Len(q) - 1, NEW j \in 1 .. Len(q) - 1, r[i] = r[j]
               PROVE  i = j
    BY <1>1 DEF IsInjective
  <2>1. i + 1 = j + 1
    BY <1>1, <1>2 DEF IsInjective
  <2> QED
    BY <1>1, <2>1
<1>5. ToSet(r) = {r[i] : i \in 1 .. Len(q) - 1} /\ ToSet(q) = {q[i] : i \in 1 .. Len(q)}
  BY <1>1 DEF ToSet
<1>6. ASSUME NEW x \in ToSet(r)
      PROVE  x \in ToSet(q) \ {Head(q)}
  <2>1. PICK i \in 1 .. Len(q) - 1 : x = r[i]
    BY <1>5
  <2> QED
    BY <1>1, <1>2, <1>5, <2>1 DEF IsInjective
<1>7. ASSUME NEW x \in ToSet(q) \ {Head(q)}
      PROVE  x \in ToSet(r)
  <2>1. PICK i \in 1 .. Len(q) : x = q[i]
    BY <1>5
  <2> QED
    BY <1>1, <1>3, <1>5, <2>1
<1> QED
  BY <1>1, <1>2, <1>4, <1>6, <1>7

-----------------------------------------------------------------------------
(* What the order of the queue rests on: who may hold a reading, which reading  *)
(* is the newest, and how the days of those who wait are ordered.               *)

\* A reading is held between the two steps of the holder only.
OnlyHolderReads == \A p \in Callers : reading[p] # 0 => Holds(p)

\* Readings are counted, and the holder's is newer than any the store has.
ReadingsInOrder ==
  /\ \A p \in Callers : reading[p] <= clock
  /\ \A e \in Exchanges : store[e] # NoRecord => store[e].equity <= clock
  /\ \A e \in Exchanges : file[e] # NoRecord => file[e].equity <= clock
  /\ \A p \in Callers, e \in Exchanges :
       reading[p] # 0 /\ store[e] # NoRecord => store[e].equity < reading[p]

\* The sweep is in the queue only while a pass runs.
SweepQueued == Busy(Sweep) => sweeping

\* Nothing is dated after today.
DaysInOrder ==
  /\ \A p \in Callers : now[p] <= day
  /\ \A e \in Exchanges : store[e] # NoRecord => store[e].day <= day
  /\ \A e \in Exchanges : file[e] # NoRecord => file[e].day <= day
  /\ \A e \in Exchanges, d \in Days : answered[e][d] # 0 => d <= day

\* A waiting rail is dated no earlier than the records and than whoever waits
\* before it.
RailsInOrder ==
  \A i \in DOMAIN queue :
    queue[i] \in Rails =>
      /\ \A e \in Exchanges : store[e] # NoRecord => store[e].day <= now[queue[i]]
      /\ \A j \in 1 .. i : now[queue[j]] <= now[queue[i]]

\* Today's answered baseline is in memory and in the file.
AnswerKept ==
  \A e \in Exchanges :
    answered[e][day] # 0 /\ ~setBack[e] =>
      /\ store[e] # NoRecord /\ store[e].day = day /\ store[e].start = answered[e][day]
      /\ file[e] # NoRecord /\ file[e].day = day /\ file[e].start = answered[e][day]

EquityInv ==
  /\ EquityTypeOK /\ OnlyHolderReads /\ ReadingsInOrder /\ SweepQueued
  /\ DaysInOrder /\ RailsInOrder /\ AnswerKept

\* Nothing has been read, stored or answered.
LEMMA EquityInitInv == EquityInit => EquityInv
<1> SUFFICES ASSUME EquityInit PROVE EquityInv
  OBVIOUS
<1> USE EquityAssumption
<1>1. queue = <<>> /\ ToSet(queue) = {} /\ DOMAIN queue = {}
  BY DEF EquityInit, ToSet
<1>2. EquityTypeOK
  <2>1. queue \in Seq(Callers) /\ IsInjective(queue) /\ left \in Seq(Exchanges)
    BY <1>1 DEF EquityInit, IsInjective
  <2>2. exchange \in [Callers -> Exchanges]
    BY DEF EquityInit
  <2>3. store \in [Exchanges -> Records \cup {NoRecord}] /\ file = store
    BY DEF EquityInit
  <2>4. /\ day \in Days /\ crashes \in 0 .. MaxCrashes /\ clock \in 0 .. MaxReadings
        /\ now \in [Callers -> Days] /\ reading \in [Callers -> 0 .. MaxReadings]
    BY DEF EquityInit, Days
  <2>5. /\ answered \in [Exchanges -> [Days -> 0 .. MaxReadings]]
        /\ setBack \in [Exchanges -> BOOLEAN] /\ sweeping \in BOOLEAN
    <3>1. 0 \in 0 .. MaxReadings /\ FALSE \in BOOLEAN
      OBVIOUS
    <3>2. [d \in Days |-> 0] \in [Days -> 0 .. MaxReadings]
      BY <3>1
    <3> QED
      BY <3>1, <3>2, Zenon DEF EquityInit
  <2> QED
    BY <2>1, <2>2, <2>3, <2>4, <2>5 DEF EquityTypeOK
<1> QED
  BY <1>1, <1>2 DEF EquityInit, EquityInv, OnlyHolderReads, ReadingsInOrder, SweepQueued,
    Busy, DaysInOrder, RailsInOrder, AnswerKept, Days

\* The record a holder of a reading folds in is one.
LEMMA RecordIsRecord ==
  ASSUME EquityInv, NEW p \in Callers, reading[p] # 0
  PROVE  /\ Record(p) \in Records
         /\ Record(p).day = now[p] /\ Record(p).equity = reading[p]
         /\ LET prev == store[exchange[p]] IN
              Record(p).start =
                IF prev = NoRecord \/ prev.day # now[p] THEN reading[p] ELSE prev.start
<1>1. store[exchange[p]] # NoRecord => store[exchange[p]].start \in Readings
  BY DEF EquityInv, EquityTypeOK, Records
<1>2. reading[p] \in Readings /\ now[p] \in Days
  BY EquityAssumption DEF EquityInv, EquityTypeOK, Readings
<1> QED
  BY <1>1, <1>2 DEF Record, Records

-----------------------------------------------------------------------------
(* One lemma per kind of step.                                                *)

\* A caller joins the queue: a rail that reads the day now, or the sweep.
LEMMA JoinStep ==
  ASSUME EquityInv, NEW p \in Callers, NEW e \in Exchanges, Enqueue(p, e),
         p = Sweep => sweeping,
         now' = IF p = Sweep THEN now ELSE [now EXCEPT ![p] = day],
         left' \in Seq(Exchanges),
         UNCHANGED <<day, crashes, clock, sweeping, store, file, answered, setBack>>
  PROVE  EquityInv'
<1> USE DEF EquityInv
<1>1. /\ queue \in Seq(Callers) /\ IsInjective(queue) /\ p \notin ToSet(queue)
      /\ queue' = Append(queue, p)
  BY DEF EquityTypeOK, Enqueue, Busy
<1>2. /\ queue' \in Seq(Callers)
      /\ IsInjective(queue')
      /\ ToSet(queue') = ToSet(queue) \cup {p}
      /\ DOMAIN queue' = 1 .. Len(queue) + 1
      /\ \A i \in DOMAIN queue : i \in 1 .. Len(queue) /\ queue'[i] = queue[i]
      /\ queue'[Len(queue) + 1] = p
      /\ queue # <<>> => queue' # <<>> /\ Head(queue') = Head(queue)
  BY <1>1, JoinQueue
<1>3. /\ DOMAIN now = Callers /\ now' \in [Callers -> Days] /\ now[p] <= day
      /\ \A q \in Callers : q # p => now'[q] = now[q]
      /\ p # Sweep => now'[p] = day
      /\ \A q \in Callers : now'[q] \in {now[q], day}
  BY DEF EquityTypeOK, DaysInOrder
<1>4. /\ reading' \in [Callers -> 0 .. MaxReadings] /\ reading'[p] = 0
      /\ \A q \in Callers : q # p => reading'[q] = reading[q]
      /\ \A q \in Callers : reading'[q] \in {reading[q], 0}
      /\ exchange' \in [Callers -> Exchanges]
  BY EquityAssumption DEF EquityTypeOK, Enqueue
<1>5. EquityTypeOK'
  BY <1>2, <1>3, <1>4 DEF EquityTypeOK
<1>6. OnlyHolderReads'
  BY <1>2, <1>4 DEF OnlyHolderReads, Holds
<1>7. ReadingsInOrder'
  <2>1. \A q \in Callers : reading'[q] <= clock
    <3>1. clock \in Nat /\ \A q \in Callers : reading[q] <= clock
      BY EquityAssumption DEF ReadingsInOrder, EquityTypeOK
    <3> QED
      BY <1>4, <3>1
  <2> QED
    BY <1>4, <2>1 DEF ReadingsInOrder
<1>8. SweepQueued'
  BY <1>2 DEF SweepQueued, Busy
<1>9. DaysInOrder'
  <2>1. \A q \in Callers : now'[q] <= day
    BY <1>3 DEF DaysInOrder, EquityTypeOK, Days
  <2> QED
    BY <2>1 DEF DaysInOrder
<1>10. RailsInOrder'
  <2> SUFFICES ASSUME NEW i \in 1 .. Len(queue) + 1, queue'[i] \in Rails
               PROVE  /\ \A x \in Exchanges :
                           store[x] # NoRecord => store[x].day <= now'[queue'[i]]
                      /\ \A j \in 1 .. i : now'[queue'[j]] <= now'[queue'[i]]
    BY <1>2 DEF RailsInOrder
  <2>1. Len(queue) \in Nat /\ DOMAIN queue = 1 .. Len(queue)
        /\ \A j \in 1 .. Len(queue) : queue[j] \in ToSet(queue) /\ queue[j] \in Callers
    BY <1>1 DEF ToSet
  <2>2. \A j \in 1 .. Len(queue) : now'[queue'[j]] = now[queue[j]]
    BY <1>1, <1>2, <1>3, <2>1
  <2>3. CASE i \in 1 .. Len(queue)
    <3>1. 1 .. i \subseteq 1 .. Len(queue)
      BY <2>1, <2>3
    <3> QED
      BY <1>2, <2>1, <2>2, <2>3, <3>1 DEF RailsInOrder
  <2>4. CASE i = Len(queue) + 1
    <3>1. p \in Rails /\ p # Sweep /\ now'[queue'[i]] = day
      BY <1>2, <1>3, <2>4, EquityAssumption
    <3>2. \A x \in Exchanges : store[x] # NoRecord => store[x].day <= day
      BY DEF DaysInOrder
    <3>3. \A j \in 1 .. i : queue'[j] \in Callers
      BY <1>2, <2>4
    <3>4. \A q \in Callers : now'[q] <= day
      BY <1>9 DEF DaysInOrder
    <3> QED
      BY <3>1, <3>2, <3>3, <3>4
  <2> QED
    BY <2>1, <2>3, <2>4
<1>11. AnswerKept'
  BY DEF AnswerKept
<1> QED
  BY <1>5, <1>6, <1>7, <1>8, <1>9, <1>10, <1>11

\* What the holder of the lock may rely on, and what its leaving leaves.
LEMMA HolderFacts ==
  ASSUME EquityInv, NEW p \in Callers, Holds(p)
  PROVE  /\ Released(p) \in Seq(Callers) /\ IsInjective(Released(p))
         /\ ToSet(Released(p)) = ToSet(queue) \ {p}
         /\ \A i \in DOMAIN Released(p) :
              i \in Nat /\ i + 1 \in DOMAIN queue /\ Released(p)[i] = queue[i + 1]
         /\ queue[1] = p /\ p \in ToSet(queue)
         /\ \A q \in Callers : q # p => reading[q] = 0
<1>1. queue \in Seq(Callers) /\ IsInjective(queue) /\ queue # <<>> /\ Head(queue) = p
  BY DEF EquityInv, EquityTypeOK, Holds
<1>2. queue[1] = p /\ 1 \in DOMAIN queue
  BY <1>1
<1>3. /\ Tail(queue) \in Seq(Callers) /\ IsInjective(Tail(queue))
      /\ ToSet(Tail(queue)) = ToSet(queue) \ {p}
      /\ \A i \in DOMAIN Tail(queue) : i + 1 \in DOMAIN queue /\ Tail(queue)[i] = queue[i + 1]
  BY <1>1, LeaveQueue
<1>4. \A i \in DOMAIN Tail(queue) : i \in Nat
  BY <1>1
<1>5. p \in ToSet(queue)
  BY <1>2 DEF ToSet
<1>6. \A q \in Callers : reading[q] # 0 => q = p
  BY <1>1 DEF EquityInv, OnlyHolderReads, Holds
<1> QED
  BY <1>2, <1>3, <1>4, <1>5, <1>6 DEF Released

\* The rails that wait stay in order when the holder has dated a record and left.
LEMMA RailsAfterLeaving ==
  ASSUME EquityInv, NEW p \in Callers, Holds(p), queue' = Released(p), now' = now,
         \A e \in Exchanges : store'[e] # NoRecord =>
            \/ store[e] # NoRecord /\ store'[e].day = store[e].day
            \/ store'[e].day = now[p]
  PROVE  RailsInOrder'
<1> SUFFICES ASSUME NEW i \in DOMAIN queue', queue'[i] \in Rails
             PROVE  /\ \A e \in Exchanges :
                         store'[e] # NoRecord => store'[e].day <= now[queue'[i]]
                    /\ \A j \in 1 .. i : now[queue'[j]] <= now[queue'[i]]
  BY DEF RailsInOrder
<1>1. /\ \A k \in DOMAIN queue' : k \in Nat /\ k + 1 \in DOMAIN queue /\ queue'[k] = queue[k + 1]
      /\ queue[1] = p
  BY HolderFacts
<1>2. DOMAIN queue' = 1 .. Len(queue') /\ Len(queue') \in Nat
  BY HolderFacts
<1>3. /\ \A e \in Exchanges : store[e] # NoRecord => store[e].day <= now[queue[i + 1]]
      /\ \A j \in 1 .. i + 1 : now[queue[j]] <= now[queue[i + 1]]
  BY <1>1 DEF EquityInv, RailsInOrder
<1>4. now[p] <= now[queue'[i]]
  BY <1>1, <1>2, <1>3
<1>5. \A j \in 1 .. i : j \in DOMAIN queue' /\ j + 1 \in 1 .. i + 1
  BY <1>2
<1> QED
  BY <1>1, <1>3, <1>4, <1>5

\* The holder reads: its reading is newer than all there are.
LEMMA ReadsStep ==
  ASSUME EquityInv, NEW p \in Callers, Reads(p)
  PROVE  EquityInv'
<1> USE DEF EquityInv
<1>1. /\ clock \in Nat /\ clock' = clock + 1 /\ clock' \in 0 .. MaxReadings /\ clock' # 0
      /\ reading' \in [Callers -> 0 .. MaxReadings]
      /\ reading'[p] = clock' /\ \A q \in Callers : q # p => reading'[q] = reading[q]
  BY EquityAssumption DEF Reads, EquityTypeOK
<1>2. \A q \in Callers : q # p => reading[q] = 0
  BY HolderFacts DEF Reads
<1>3. EquityTypeOK'
  BY <1>1 DEF Reads, EquityTypeOK
<1>4. OnlyHolderReads'
  BY <1>1 DEF OnlyHolderReads, Holds, Reads
<1>5. ReadingsInOrder'
  <2>1. \A q \in Callers : reading'[q] <= clock' /\ (reading'[q] # 0 => q = p)
    BY <1>1, <1>2
  <2>2. \A e \in Exchanges :
          /\ store[e] # NoRecord => store[e].equity <= clock' /\ store[e].equity < clock'
          /\ file[e] # NoRecord => file[e].equity <= clock'
    <3> SUFFICES ASSUME NEW e \in Exchanges
                 PROVE  /\ store[e] # NoRecord => store[e].equity <= clock'
                                                  /\ store[e].equity < clock'
                        /\ file[e] # NoRecord => file[e].equity <= clock'
      OBVIOUS
    <3>1. /\ store[e] # NoRecord => store[e].equity \in Nat /\ store[e].equity <= clock
          /\ file[e] # NoRecord => file[e].equity \in Nat /\ file[e].equity <= clock
      <4>1. store[e] \in Records \cup {NoRecord} /\ file[e] \in Records \cup {NoRecord}
        BY DEF EquityTypeOK
      <4>2. \A r \in Records : r.equity \in Nat
        BY EquityAssumption DEF Records, Readings
      <4> QED
        BY <4>1, <4>2 DEF ReadingsInOrder
    <3>2. clock \in Nat /\ clock' \in Nat /\ clock < clock'
      BY <1>1
    <3> QED
      BY <3>1, <3>2
  <2> QED
    BY <1>1, <2>1, <2>2 DEF ReadingsInOrder, Reads
<1>6. SweepQueued' /\ DaysInOrder' /\ RailsInOrder' /\ AnswerKept'
  BY DEF Reads, SweepQueued, Busy, DaysInOrder, RailsInOrder, AnswerKept
<1> QED
  BY <1>3, <1>4, <1>5, <1>6

\* The holder leaves with nothing.
LEMMA CannotReadStep ==
  ASSUME EquityInv, NEW p \in Callers, CannotRead(p)
  PROVE  EquityInv'
<1> USE DEF EquityInv
<1>1. /\ queue' \in Seq(Callers) /\ IsInjective(queue') /\ ToSet(queue') = ToSet(queue) \ {p}
      /\ \A q \in Callers : reading[q] = 0
  BY HolderFacts DEF CannotRead
<1>2. EquityTypeOK'
  BY <1>1 DEF CannotRead, EquityTypeOK
<1>3. RailsInOrder'
  BY RailsAfterLeaving DEF CannotRead
<1>4. /\ OnlyHolderReads' /\ ReadingsInOrder' /\ SweepQueued' /\ DaysInOrder' /\ AnswerKept'
  BY <1>1 DEF CannotRead, OnlyHolderReads, ReadingsInOrder, SweepQueued, Busy, DaysInOrder,
    AnswerKept
<1> QED
  BY <1>2, <1>3, <1>4

\* The holder folds its reading into the store and leaves; either the store
\* reaches the file and the baseline is answered, or neither happens.
LEMMA FoldStep ==
  ASSUME EquityInv, NEW p \in Callers, Holds(p), reading[p] # 0,
         store' = [store EXCEPT ![exchange[p]] = Record(p)],
         queue' = Released(p), reading' = [reading EXCEPT ![p] = 0], SetsBack(p),
         left' \in Seq(Exchanges), sweeping' \in BOOLEAN, sweeping => sweeping' \/ p = Sweep,
         \/ /\ file' = store'
            /\ answered' = [answered EXCEPT ![exchange[p]][now[p]] = Record(p).start]
         \/ UNCHANGED <<file, answered>>,
         UNCHANGED <<day, crashes, clock, now, exchange>>
  PROVE  EquityInv'
<1> USE DEF EquityInv
<1> DEFINE x == exchange[p]
           prev == store[x]
<1>1. /\ x \in Exchanges /\ now[p] \in Days /\ reading[p] \in Readings /\ reading[p] <= clock
      /\ now[p] <= day /\ day \in Days
  BY EquityAssumption DEF EquityTypeOK, Readings, ReadingsInOrder, DaysInOrder
<1>2. /\ Record(p) \in Records /\ Record(p) # NoRecord
      /\ Record(p).day = now[p] /\ Record(p).equity = reading[p]
      /\ Record(p).start = IF prev = NoRecord \/ prev.day # now[p] THEN reading[p] ELSE prev.start
  BY RecordIsRecord, EquityAssumption
<1>3. /\ store' \in [Exchanges -> Records \cup {NoRecord}]
      /\ store'[x] = Record(p) /\ \A e \in Exchanges : e # x => store'[e] = store[e]
  BY <1>1, <1>2 DEF EquityTypeOK
<1>4. /\ queue' \in Seq(Callers) /\ IsInjective(queue') /\ ToSet(queue') = ToSet(queue) \ {p}
      /\ \A q \in Callers : q # p => reading[q] = 0
  BY HolderFacts
<1>5. reading' \in [Callers -> 0 .. MaxReadings] /\ \A q \in Callers : reading'[q] = 0
  BY <1>4, EquityAssumption DEF EquityTypeOK
<1>6. /\ answered' \in [Exchanges -> [Days -> 0 .. MaxReadings]]
      /\ \A e \in Exchanges, d \in Days :
           \/ answered'[e][d] = answered[e][d]
           \/ /\ e = x /\ d = now[p] /\ answered'[e][d] = Record(p).start
              /\ file' = store'
  <2>1. Record(p).start \in 0 .. MaxReadings
    BY <1>2 DEF Records, Readings
  <2>2. /\ answered \in [Exchanges -> [Days -> 0 .. MaxReadings]]
        /\ answered[x] \in [Days -> 0 .. MaxReadings]
    BY <1>1 DEF EquityTypeOK
  <2>3. CASE UNCHANGED <<file, answered>>
    BY <2>2, <2>3
  <2>4. CASE /\ file' = store'
             /\ answered' = [answered EXCEPT ![x][now[p]] = Record(p).start]
    <3> DEFINE row == [answered[x] EXCEPT ![now[p]] = Record(p).start]
    <3>1. row \in [Days -> 0 .. MaxReadings]
          /\ \A d \in Days : row[d] = IF d = now[p] THEN Record(p).start ELSE answered[x][d]
      BY <1>1, <2>1, <2>2
    <3>2. answered' = [answered EXCEPT ![x] = row]
      BY <2>4
    <3> HIDE DEF row
    <3>3. answered' \in [Exchanges -> [Days -> 0 .. MaxReadings]]
          /\ \A e \in Exchanges : answered'[e] = IF e = x THEN row ELSE answered[e]
      BY <2>2, <3>1, <3>2
    <3> QED
      BY <2>4, <3>1, <3>3
  <2> QED
    BY <2>3, <2>4
<1>7. /\ file' \in [Exchanges -> Records \cup {NoRecord}] /\ file' \in {file, store'}
  BY <1>3 DEF EquityTypeOK
<1>8. /\ setBack' \in [Exchanges -> BOOLEAN]
      /\ \A e \in Exchanges : setBack[e] => setBack'[e]
      /\ p = Sweep /\ prev # NoRecord /\ prev.day > now[p] => setBack'[x]
  BY <1>1 DEF SetsBack, EquityTypeOK
<1> HIDE DEF x, prev
<1>9. EquityTypeOK'
  BY <1>3, <1>4, <1>5, <1>6, <1>7, <1>8 DEF EquityTypeOK
<1>10. OnlyHolderReads'
  BY <1>5 DEF OnlyHolderReads
<1>11. ReadingsInOrder'
  <2>1. \A e \in Exchanges : store'[e] # NoRecord => store'[e].equity <= clock
    BY <1>1, <1>2, <1>3 DEF ReadingsInOrder
  <2>2. \A e \in Exchanges : file'[e] # NoRecord => file'[e].equity <= clock
    BY <1>7, <2>1 DEF ReadingsInOrder
  <2>3. \A q \in Callers : reading'[q] <= clock
    BY <1>5, EquityAssumption DEF EquityTypeOK
  <2> QED
    BY <1>5, <2>1, <2>2, <2>3 DEF ReadingsInOrder
<1>12. SweepQueued'
  BY <1>4 DEF SweepQueued, Busy
<1>13. DaysInOrder'
  <2>1. \A e \in Exchanges : store'[e] # NoRecord => store'[e].day <= day
    BY <1>1, <1>2, <1>3 DEF DaysInOrder
  <2>2. \A e \in Exchanges : file'[e] # NoRecord => file'[e].day <= day
    BY <1>7, <2>1 DEF DaysInOrder
  <2>3. \A e \in Exchanges, d \in Days : answered'[e][d] # 0 => d <= day
    BY <1>1, <1>6 DEF DaysInOrder
  <2> QED
    BY <2>1, <2>2, <2>3 DEF DaysInOrder
<1>14. RailsInOrder'
  BY <1>2, <1>3, RailsAfterLeaving
<1>15. AnswerKept'
  <2> SUFFICES ASSUME NEW e \in Exchanges, answered'[e][day] # 0, ~setBack'[e]
               PROVE  /\ store'[e] # NoRecord /\ store'[e].day = day
                      /\ store'[e].start = answered'[e][day]
                      /\ file'[e] # NoRecord /\ file'[e].day = day
                      /\ file'[e].start = answered'[e][day]
    BY DEF AnswerKept
  <2>1. CASE e = x /\ now[p] = day /\ answered'[e][day] = Record(p).start /\ file' = store'
    BY <1>2, <1>3, <2>1
  <2>2. CASE answered'[e][day] = answered[e][day]
    <3>1. /\ store[e] # NoRecord /\ store[e].day = day /\ store[e].start = answered[e][day]
          /\ file[e] # NoRecord /\ file[e].day = day /\ file[e].start = answered[e][day]
      BY <1>8, <2>2 DEF AnswerKept
    <3>2. store'[e] # NoRecord /\ store'[e].day = day /\ store'[e].start = answered[e][day]
      <4>1. CASE e # x
        BY <1>3, <3>1, <4>1
      <4>2. CASE e = x /\ now[p] = day
        BY <1>2, <1>3, <3>1, <4>2 DEF prev
      <4>3. CASE e = x /\ now[p] # day
        <5>1. prev.day > now[p] /\ prev # NoRecord
          BY <1>1, <3>1, <4>3, EquityAssumption DEF prev, Days
        <5>2. p # Sweep
          BY <1>8, <4>3, <5>1
        <5>3. p \in Rails /\ queue[1] = p /\ 1 \in DOMAIN queue
          <6>1. queue[1] = p /\ queue # <<>> /\ queue \in Seq(Callers)
            BY HolderFacts DEF Holds, EquityTypeOK
          <6> QED
            BY <5>2, <6>1 DEF Callers
        <5>4. prev.day <= now[p]
          BY <1>1, <5>1, <5>3 DEF RailsInOrder, prev
        <5> QED
          BY <1>1, <3>1, <4>3, <5>1, <5>4, EquityAssumption DEF prev, Days
      <4> QED
        BY <4>1, <4>2, <4>3
    <3> QED
      BY <1>7, <2>2, <3>1, <3>2
  <2> QED
    BY <1>1, <1>6, <2>1, <2>2
<1> QED
  BY <1>9, <1>10, <1>11, <1>12, <1>13, <1>14, <1>15

\* A pass begins: the sweep is not in the queue when its day is read.
LEMMA SweepStartStep ==
  ASSUME EquityInv, SweepStart
  PROVE  EquityInv'
<1> USE DEF EquityInv
<1>1. /\ now' \in [Callers -> Days] /\ \A q \in Callers : now'[q] \in {now[q], day}
      /\ \A q \in Callers : q # Sweep => now'[q] = now[q]
      /\ left' \in Seq(Exchanges)
  BY EquityAssumption DEF SweepStart, EquityTypeOK
<1>2. Sweep \notin ToSet(queue)
  BY DEF SweepQueued, Busy, SweepStart
<1>3. EquityTypeOK'
  BY <1>1 DEF SweepStart, EquityTypeOK
<1>4. DaysInOrder'
  <2>1. day <= day /\ \A q \in Callers : now[q] <= day
    BY EquityAssumption DEF DaysInOrder, EquityTypeOK, Days
  <2>2. \A q \in Callers : now'[q] <= day
    BY <1>1, <2>1
  <2> QED
    BY <2>2 DEF DaysInOrder, SweepStart
<1>5. RailsInOrder'
  <2>1. queue \in Seq(Callers)
    BY DEF EquityTypeOK
  <2>2. \A i \in DOMAIN queue : queue[i] \in ToSet(queue) /\ queue[i] \in Callers
    BY <2>1 DEF ToSet
  <2>3. \A i \in DOMAIN queue : now'[queue[i]] = now[queue[i]]
    BY <1>1, <1>2, <2>2
  <2>4. \A i \in DOMAIN queue : \A j \in 1 .. i : j \in DOMAIN queue
    BY <2>1
  <2> QED
    BY <2>3, <2>4 DEF RailsInOrder, SweepStart
<1>6. OnlyHolderReads' /\ ReadingsInOrder' /\ SweepQueued' /\ AnswerKept'
  BY DEF SweepStart, OnlyHolderReads, Holds, ReadingsInOrder, SweepQueued, Busy, AnswerKept
<1> QED
  BY <1>3, <1>4, <1>5, <1>6

\* Nothing has been answered for tomorrow.
LEMMA NextDayStep ==
  ASSUME EquityInv, NextDay
  PROVE  EquityInv'
<1> USE DEF EquityInv
<1>1. day \in Nat /\ day' = day + 1 /\ day' \in Days
  BY EquityAssumption DEF NextDay, EquityTypeOK, Days
<1>2. EquityTypeOK'
  BY <1>1 DEF NextDay, EquityTypeOK, jobVars
<1>3. DaysInOrder'
  <2>1. /\ \A q \in Callers : now[q] \in Nat /\ now[q] <= day
        /\ \A e \in Exchanges : store[e] # NoRecord => store[e].day \in Nat /\ store[e].day <= day
        /\ \A e \in Exchanges : file[e] # NoRecord => file[e].day \in Nat /\ file[e].day <= day
        /\ \A d \in Days : d \in Nat
    BY DEF EquityTypeOK, DaysInOrder, Records, Days
  <2>2. \A n \in Nat : n <= day => n <= day'
    BY <1>1
  <2> QED
    BY <2>1, <2>2 DEF DaysInOrder, NextDay, jobVars
<1>4. AnswerKept'
  <2>1. \A e \in Exchanges : answered[e][day'] = 0
    BY <1>1 DEF DaysInOrder
  <2> QED
    BY <2>1 DEF AnswerKept, NextDay
<1>5. OnlyHolderReads' /\ ReadingsInOrder' /\ SweepQueued' /\ RailsInOrder'
  BY DEF NextDay, jobVars, OnlyHolderReads, Holds, ReadingsInOrder, SweepQueued, Busy, RailsInOrder
<1> QED
  BY <1>2, <1>3, <1>4, <1>5

\* The process boots from the file, which has today's answered baselines.
LEMMA RestartStep ==
  ASSUME EquityInv, Restart
  PROVE  EquityInv'
<1> USE DEF EquityInv
<1>1. /\ queue' = <<>> /\ ToSet(queue') = {} /\ DOMAIN queue' = {} /\ IsInjective(queue')
      /\ \A q \in Callers : reading'[q] = 0
  BY DEF Restart, ToSet, IsInjective
<1>2. EquityTypeOK'
  <2>1. queue' = <<>> /\ left' = <<>> /\ sweeping' = FALSE
    BY DEF Restart
  <2>2. reading' \in [Callers -> 0 .. MaxReadings] /\ crashes' \in 0 .. MaxCrashes
    BY EquityAssumption DEF Restart, EquityTypeOK
  <2>3. queue' \in Seq(Callers) /\ left' \in Seq(Exchanges)
    BY <2>1
  <2>4. store' = file /\ UNCHANGED <<day, clock, now, exchange, file, answered, setBack>>
    BY DEF Restart, bootEquity
  <2> QED
    BY <1>1, <2>1, <2>2, <2>3, <2>4 DEF EquityTypeOK
<1>3. ReadingsInOrder'
  <2>1. \A q \in Callers : reading'[q] <= clock
    BY <1>1, EquityAssumption DEF EquityTypeOK
  <2> QED
    BY <1>1, <2>1 DEF ReadingsInOrder, Restart, bootEquity
<1>4. OnlyHolderReads' /\ SweepQueued' /\ DaysInOrder' /\ RailsInOrder' /\ AnswerKept'
  BY <1>1 DEF OnlyHolderReads, SweepQueued, Busy, DaysInOrder, RailsInOrder, AnswerKept,
    Restart, bootEquity
<1> QED
  BY <1>2, <1>3, <1>4

\* The steps of the sweep between its observations touch nothing of this.
LEMMA SweepMovesOn ==
  ASSUME EquityInv, left' \in Seq(Exchanges), sweeping' \in BOOLEAN,
         sweeping /\ ~sweeping' => ~Busy(Sweep),
         UNCHANGED <<day, crashes, clock, queue, now, exchange, reading, store, file,
                     answered, setBack>>
  PROVE  EquityInv'
<1>1. EquityTypeOK'
  BY DEF EquityInv, EquityTypeOK
<1>2. SweepQueued'
  BY DEF EquityInv, SweepQueued, Busy
<1> QED
  BY <1>1, <1>2 DEF EquityInv, OnlyHolderReads, Holds, ReadingsInOrder, DaysInOrder,
    RailsInOrder, AnswerKept

\* Every step of the callers, the sweep, the clock and the process keeps it.
LEMMA EquityStep == EquityInv /\ [EquityNext]_equityVars => EquityInv'
<1> SUFFICES ASSUME EquityInv, [EquityNext]_equityVars PROVE EquityInv'
  OBVIOUS
<1>0. left \in Seq(Exchanges) /\ sweeping \in BOOLEAN
  BY DEF EquityInv, EquityTypeOK
<1>1. ASSUME NEW p \in Rails, NEW e \in Exchanges, observeCcxtEquity(p, e)
      PROVE  EquityInv'
  <2>1. p \in Callers /\ p # Sweep
    BY EquityAssumption DEF Callers
  <2> QED
    BY <1>0, <1>1, <2>1, JoinStep DEF observeCcxtEquity
<1>2. CASE SweepStart
  BY <1>2, SweepStartStep
<1>3. CASE SweepSkips
  <2>1. left' \in Seq(Exchanges)
    BY <1>0, <1>3 DEF SweepSkips
  <2> QED
    BY <1>0, <1>3, <2>1, SweepMovesOn DEF SweepSkips
<1>4. CASE SweepObserves
  <2>1. Sweep \in Callers /\ Head(left) \in Exchanges /\ left' \in Seq(Exchanges)
    BY <1>0, <1>4 DEF SweepObserves, Callers
  <2> QED
    BY <1>4, <2>1, JoinStep DEF SweepObserves
<1>5. CASE SweepEnds
  BY <1>0, <1>5, SweepMovesOn DEF SweepEnds
<1>6. ASSUME NEW p \in Callers, Reads(p)
      PROVE  EquityInv'
  BY <1>6, ReadsStep
<1>7. ASSUME NEW p \in Callers, CannotRead(p)
      PROVE  EquityInv'
  BY <1>7, CannotReadStep
<1>8. ASSUME NEW p \in Callers, Commits(p)
      PROVE  EquityInv'
  BY <1>0, <1>8, FoldStep DEF Commits
<1>9. ASSUME NEW p \in Callers, CommitThrows(p)
      PROVE  EquityInv'
  <2>1. left' \in Seq(Exchanges) /\ sweeping' \in BOOLEAN /\ (sweeping => sweeping' \/ p = Sweep)
    BY <1>0, <1>9 DEF CommitThrows
  <2> QED
    BY <1>9, <2>1, FoldStep DEF CommitThrows
<1>10. CASE NextDay
  BY <1>10, NextDayStep
<1>11. CASE Restart
  BY <1>11, RestartStep
<1>12. CASE UNCHANGED equityVars
  BY <1>0, <1>12, SweepMovesOn DEF equityVars, jobVars
<1> QED
  BY <1>1, <1>2, <1>3, <1>4, <1>5, <1>6, <1>7, <1>8, <1>9, <1>10, <1>11, <1>12
    DEF EquityNext, SweepSteps, HolderSteps

\* Every reachable state satisfies the invariant.
LEMMA EquityInvAlways == EquitySpec => []EquityInv
  BY EquityInitInv, EquityStep, PTL DEF EquitySpec

\* Every variable has the shape the code gives it, in every reachable state; in
\* particular nobody waits twice for the lock.
THEOREM EquityTypeCorrect == EquitySpec => []EquityTypeOK
<1>1. EquityInv => EquityTypeOK
  BY DEF EquityInv
<1> QED
  BY <1>1, EquityInvAlways, PTL

-----------------------------------------------------------------------------
(* The two promises of the day baseline follow from what a commit may rely on.  *)

\* The store changes by a boot from the file or by a fold of the holder's reading.
LEMMA StoreChanges ==
  ASSUME EquityInv, [EquityNext]_equityVars
  PROVE  \/ store' = store
         \/ crashes' # crashes
         \/ \E p \in Callers : /\ Holds(p) /\ reading[p] # 0
                              /\ store' = [store EXCEPT ![exchange[p]] = Record(p)]
<1>1. CASE \E p \in Rails, e \in Exchanges : observeCcxtEquity(p, e)
  BY <1>1 DEF observeCcxtEquity
<1>2. CASE SweepSteps
  BY <1>2 DEF SweepSteps, SweepStart, SweepSkips, SweepObserves, SweepEnds
<1>3. CASE \E p \in Callers : Reads(p) \/ CannotRead(p)
  BY <1>3 DEF Reads, CannotRead
<1>4. CASE \E p \in Callers : Commits(p) \/ CommitThrows(p)
  BY <1>4 DEF Commits, CommitThrows
<1>5. CASE Restart
  <2>1. crashes \in Nat /\ crashes' = crashes + 1
    BY <1>5 DEF Restart, EquityInv, EquityTypeOK
  <2> QED
    BY <2>1
<1>6. CASE NextDay \/ UNCHANGED equityVars
  BY <1>6 DEF NextDay, equityVars
<1> QED
  BY <1>1, <1>2, <1>3, <1>4, <1>5, <1>6 DEF EquityNext, HolderSteps

\* For every set of exchanges and rails, the store never goes back to an older
\* reading while the process lives: reading and folding are one turn of the lock.
THEOREM NoUpdateLost == EquitySpec => NoLostUpdate
<1>1. ASSUME EquityInv, [EquityNext]_equityVars
      PROVE  \A e \in Exchanges :
               crashes' = crashes /\ store[e] # NoRecord => store'[e].equity >= store[e].equity
  <2> SUFFICES ASSUME NEW e \in Exchanges, crashes' = crashes, store[e] # NoRecord
               PROVE  store'[e].equity >= store[e].equity
    OBVIOUS
  <2>1. store[e].equity \in Nat
    BY <1>1 DEF EquityInv, EquityTypeOK, Records, Readings
  <2>2. CASE store' = store
    BY <2>1, <2>2
  <2>3. ASSUME NEW p \in Callers, Holds(p), reading[p] # 0,
               store' = [store EXCEPT ![exchange[p]] = Record(p)]
        PROVE  store'[e].equity >= store[e].equity
    <3>1. store[e].equity < reading[p] /\ reading[p] \in Nat
      BY <1>1, <2>3 DEF EquityInv, ReadingsInOrder, EquityTypeOK
    <3>2. Record(p).equity = reading[p]
      BY <1>1, <2>3, RecordIsRecord
    <3>3. store'[e] \in {store[e], Record(p)}
      BY <1>1, <2>3 DEF EquityInv, EquityTypeOK
    <3> QED
      BY <2>1, <3>1, <3>2, <3>3
  <2> QED
    BY <1>1, <2>2, <2>3, StoreChanges
<1> QED
  BY <1>1, EquityInvAlways, PTL DEF EquitySpec, NoLostUpdate

\* For every number of days and restarts, a day's answered baseline is answered
\* again until the day ends, unless a sweep that began the day before put
\* yesterday's record back: it is in memory and in the file.
THEOREM DayBaselineStands == EquitySpec => BaselineStands
<1>1. ASSUME EquityInv, [EquityNext]_equityVars
      PROVE  \A e \in Exchanges :
               answered[e][day] # 0 /\ ~setBack[e] => answered'[e][day] = answered[e][day]
  <2> SUFFICES ASSUME NEW e \in Exchanges, answered[e][day] # 0, ~setBack[e]
               PROVE  answered'[e][day] = answered[e][day]
    OBVIOUS
  <2>1. CASE answered' = answered
    BY <2>1
  <2>2. ASSUME NEW p \in Callers, Commits(p)
        PROVE  answered'[e][day] = answered[e][day]
    <3>1. store[e] # NoRecord /\ store[e].day = day /\ store[e].start = answered[e][day]
      BY <1>1 DEF EquityInv, AnswerKept
    <3>2. e = exchange[p] /\ now[p] = day => Record(p).start = answered[e][day]
      BY <1>1, <2>2, <3>1, RecordIsRecord DEF Commits
    <3>3. answered' = [answered EXCEPT ![exchange[p]][now[p]] = Record(p).start]
      BY <2>2 DEF Commits
    <3>4. answered \in [Exchanges -> [Days -> 0 .. MaxReadings]] /\ day \in Days
      BY <1>1 DEF EquityInv, EquityTypeOK
    <3> QED
      BY <3>2, <3>3, <3>4
  <2>3. CASE \E p \in Rails, x \in Exchanges : observeCcxtEquity(p, x)
    BY <2>1, <2>3 DEF observeCcxtEquity
  <2>4. CASE SweepSteps
    BY <2>1, <2>4 DEF SweepSteps, SweepStart, SweepSkips, SweepObserves, SweepEnds
  <2>5. CASE \E p \in Callers : Reads(p) \/ CannotRead(p) \/ CommitThrows(p)
    BY <2>1, <2>5 DEF Reads, CannotRead, CommitThrows
  <2>6. CASE NextDay \/ Restart \/ UNCHANGED equityVars
    BY <2>1, <2>6 DEF NextDay, Restart, equityVars
  <2> QED
    BY <1>1, <2>2, <2>3, <2>4, <2>5, <2>6 DEF EquityNext, HolderSteps
<1> QED
  BY <1>1, EquityInvAlways, PTL DEF EquitySpec, BaselineStands
=============================================================================
