-------------------------- MODULE LocalTableProofs --------------------------
(***************************************************************************)
(* A table of the local store, for every set of requests and users and     *)
(* every number of restarts: one request at a time changes it, it changes  *)
(* by whole operations (TablePromise), and an answered row stays.          *)
(***************************************************************************)
EXTENDS LocalTable, WellFoundedInduction, TLAPS

-----------------------------------------------------------------------------
(* What the three operations make of the rows.  Facts about a recursive         *)
(* definition are proved by the least number for which they fail.               *)

\* A set of numbers that is not empty has a least one.
LEMMA LeastNat ==
  ASSUME NEW T, T \subseteq Nat, T # {}
  PROVE  \E n \in T : \A m \in T : n <= m
<1>1. PICK n \in T : \A m \in T : <<m, n>> \notin OpToRel(<, Nat)
  BY WFMin, NatLessThanWellFounded
<1>2. \A m \in T : ~(m < n)
  BY <1>1 DEF OpToRel
<1> QED
  BY <1>2

\* What is called the least element of a set of numbers is one of them.
LEMMA MinIsIn ==
  ASSUME NEW T, T \subseteq Nat, T # {}
  PROVE  Min(T) \in T
  BY LeastNat DEF Min

\* An upsert has its row, and every id there was at the place where it was.
LEMMA UpsertedRows ==
  ASSUME NEW rs \in Seq(Promise!Rows), NEW row \in Promise!Rows
  PROVE  LET r == Promise!Upserted(rs, row) IN
         /\ r \in Seq(Promise!Rows)
         /\ \E i \in DOMAIN r : r[i].id = row.id
         /\ \A i \in DOMAIN rs : i \in DOMAIN r /\ r[i].id = rs[i].id
<1> DEFINE I == {i \in 1 .. Len(rs) : rs[i].id = row.id}
<1>1. I # {} => Min(I) \in I
  <2> I \subseteq Nat
    OBVIOUS
  <2> HIDE DEF I
  <2> QED
    BY MinIsIn
<1>2. DOMAIN rs = 1 .. Len(rs) /\ Len(rs) \in Nat
  OBVIOUS
<1>3. CASE I # {}
  <2>1. Promise!Upserted(rs, row) = [rs EXCEPT ![Min(I)] = row]
    BY <1>2, <1>3 DEF Promise!Upserted, Promise!ReplaceAt, Promise!SelectInSeq, Promise!Min, Min
  <2> DEFINE k == Min(I)
             r == [rs EXCEPT ![k] = row]
  <2>2. k \in DOMAIN rs /\ rs[k].id = row.id
    BY <1>1, <1>2, <1>3
  <2>3. Promise!Upserted(rs, row) = r
    BY <2>1
  <2> HIDE DEF k
  <2>4. /\ r \in Seq(Promise!Rows) /\ DOMAIN r = DOMAIN rs /\ r[k].id = row.id
        /\ \A i \in DOMAIN rs : r[i].id = rs[i].id
    BY <2>2
  <2> HIDE DEF r
  <2> QED
    BY <2>2, <2>3, <2>4
<1>4. CASE I = {}
  <2>1. Promise!Upserted(rs, row) = Append(rs, row)
    BY <1>2, <1>4 DEF Promise!Upserted
  <2>2. /\ Append(rs, row) \in Seq(Promise!Rows) /\ DOMAIN Append(rs, row) = 1 .. Len(rs) + 1
        /\ Append(rs, row)[Len(rs) + 1] = row
        /\ \A i \in 1 .. Len(rs) : Append(rs, row)[i] = rs[i]
    OBVIOUS
  <2>3. Len(rs) + 1 \in 1 .. Len(rs) + 1 /\ \A i \in 1 .. Len(rs) : i \in 1 .. Len(rs) + 1
    BY <1>2
  <2> DEFINE r == Append(rs, row)
  <2> HIDE DEF r
  <2>4. /\ r \in Seq(Promise!Rows) /\ DOMAIN r = 1 .. Len(rs) + 1
        /\ r[Len(rs) + 1].id = row.id
        /\ \A i \in 1 .. Len(rs) : r[i].id = rs[i].id
    BY <2>2 DEF r
  <2>5. /\ \E i \in DOMAIN r : r[i].id = row.id
        /\ \A i \in DOMAIN rs : i \in DOMAIN r /\ r[i].id = rs[i].id
    BY <1>2, <2>3, <2>4
  <2>6. Promise!Upserted(rs, row) = r
    BY <2>1 DEF r
  <2> QED
    BY <2>4, <2>5, <2>6
<1> QED
  BY <1>3, <1>4

\* The right-hand side of the definition of `kept` in a removal.
KeptStep(rs, id, kept, n) ==
  IF n = 0 THEN <<>>
  ELSE IF rs[n].id = id THEN kept[n - 1]
  ELSE Append(kept[n - 1], rs[n])

\* The definition defines a function, up to every row.
LEMMA KeptExists ==
  ASSUME NEW rs \in Seq(Promise!Rows), NEW id
  PROVE  \A N \in Nat :
           N <= Len(rs) => \E f : f = [n \in 0 .. N |-> KeptStep(rs, id, f, n)]
<1> DEFINE T == {N \in Nat : /\ N <= Len(rs)
                             /\ ~ \E f : f = [n \in 0 .. N |-> KeptStep(rs, id, f, n)]}
<1> SUFFICES ASSUME T # {} PROVE FALSE
  OBVIOUS
<1>1. PICK N \in T : \A m \in T : N <= m
  <2> T \subseteq Nat
    OBVIOUS
  <2> HIDE DEF T
  <2> QED
    BY LeastNat
<1>2. CASE N = 0
  <2> DEFINE f == [n \in 0 .. 0 |-> <<>>]
  <2>1. f = [n \in 0 .. 0 |-> KeptStep(rs, id, f, n)]
    BY DEF KeptStep
  <2> QED
    BY <1>2, <2>1
<1>3. CASE N # 0
  <2>1. N - 1 \in Nat /\ N - 1 \notin T /\ N - 1 <= Len(rs) /\ N \in Nat /\ Len(rs) \in Nat
    BY <1>1, <1>3
  <2>2. PICK f : f = [n \in 0 .. N - 1 |-> KeptStep(rs, id, f, n)]
    BY <2>1
  <2> DEFINE g == [n \in 0 .. N |-> IF n = N THEN KeptStep(rs, id, f, N) ELSE f[n]]
  <2>3. g = [n \in 0 .. N |-> KeptStep(rs, id, g, n)]
    <3> SUFFICES ASSUME NEW n \in 0 .. N PROVE g[n] = KeptStep(rs, id, g, n)
      OBVIOUS
    <3>1. n # 0 => n - 1 \in 0 .. N /\ n - 1 # N /\ g[n - 1] = f[n - 1]
      BY <2>1
    <3>2. KeptStep(rs, id, g, n) = KeptStep(rs, id, f, n)
      BY <3>1 DEF KeptStep
    <3>3. n # N => n \in 0 .. N - 1
      BY <2>1
    <3> HIDE DEF g
    <3>4. n # N => f[n] = KeptStep(rs, id, f, n)
      BY <2>2, <3>3
    <3> QED
      BY <3>2, <3>4 DEF g
  <2> QED
    BY <1>1, <2>3
<1> QED
  BY <1>2, <1>3

\* A removal is the last value of that function.
LEMMA RemovedIs ==
  ASSUME NEW rs \in Seq(Promise!Rows), NEW id
  PROVE  \E f : /\ f = [n \in 0 .. Len(rs) |-> KeptStep(rs, id, f, n)]
               /\ Promise!Removed(rs, id) = f[Len(rs)]
<1> DEFINE f == CHOOSE f : f = [n \in 0 .. Len(rs) |-> KeptStep(rs, id, f, n)]
<1>1. f = [n \in 0 .. Len(rs) |-> KeptStep(rs, id, f, n)]
  BY KeptExists
<1>2. Promise!Removed(rs, id) = f[Len(rs)]
  BY DEF Promise!Removed, KeptStep
<1> QED
  BY <1>1, <1>2

\* A removal keeps every row with another id.
LEMMA RemovedRows ==
  ASSUME NEW rs \in Seq(Promise!Rows), NEW id
  PROVE  LET r == Promise!Removed(rs, id) IN
         /\ r \in Seq(Promise!Rows)
         /\ \A i \in DOMAIN rs : rs[i].id # id => \E j \in DOMAIN r : r[j] = rs[i]
<1>1. PICK f : /\ f = [n \in 0 .. Len(rs) |-> KeptStep(rs, id, f, n)]
               /\ Promise!Removed(rs, id) = f[Len(rs)]
  BY RemovedIs
<1> DEFINE Good(n) == /\ f[n] \in Seq(Promise!Rows)
                      /\ \A i \in 1 .. n : rs[i].id # id => \E j \in DOMAIN f[n] : f[n][j] = rs[i]
           T == {n \in 0 .. Len(rs) : ~Good(n)}
<1>2. \A n \in 0 .. Len(rs) : f[n] = KeptStep(rs, id, f, n)
  BY <1>1
<1>3. ASSUME T # {} PROVE FALSE
  <2>1. PICK n \in T : \A m \in T : n <= m
    <3> T \subseteq Nat
      OBVIOUS
    <3> HIDE DEF T
    <3> QED
      BY <1>3, LeastNat
  <2>2. n # 0
    <3>1. 0 \in 0 .. Len(rs) => f[0] = <<>>
      BY <1>2 DEF KeptStep
    <3>2. <<>> \in Seq(Promise!Rows) /\ 1 .. 0 = {}
      OBVIOUS
    <3> QED
      BY <2>1, <3>1, <3>2
  <2>3. /\ n \in 1 .. Len(rs) /\ n - 1 \in 0 .. Len(rs) /\ n - 1 \notin T
        /\ \A i \in 1 .. n : i = n \/ i \in 1 .. n - 1
    <3>1. n \in 0 .. Len(rs) /\ Len(rs) \in Nat
      BY <2>1
    <3> HIDE DEF T
    <3>2. n \in 1 .. Len(rs) /\ n - 1 \in 0 .. Len(rs) /\ ~(n <= n - 1)
      BY <2>2, <3>1
    <3>3. n - 1 \notin T
      BY <2>1, <3>2
    <3>4. \A i \in 1 .. n : i = n \/ i \in 1 .. n - 1
      BY <3>1
    <3> QED
      BY <3>2, <3>3, <3>4
  <2>4. Good(n - 1)
    BY <2>3
  <2>5. CASE rs[n].id = id
    <3>1. f[n] = f[n - 1]
      BY <1>2, <2>1, <2>2, <2>5 DEF KeptStep
    <3> QED
      BY <2>1, <2>3, <2>4, <2>5, <3>1
  <2>6. CASE rs[n].id # id
    <3>1. f[n] = Append(f[n - 1], rs[n])
      BY <1>2, <2>1, <2>2, <2>6 DEF KeptStep
    <3>2. rs[n] \in Promise!Rows
      BY <2>3
    <3> DEFINE a == f[n - 1]
               r == f[n]
    <3>3. /\ r \in Seq(Promise!Rows) /\ r[Len(a) + 1] = rs[n] /\ Len(a) + 1 \in DOMAIN r
          /\ \A j \in DOMAIN a : j \in DOMAIN r /\ r[j] = a[j]
      BY <2>4, <3>1, <3>2
    <3>4. \A i \in 1 .. n - 1 : rs[i].id # id => \E j \in DOMAIN a : a[j] = rs[i]
      BY <2>4
    <3> HIDE DEF a, r
    <3>5. \A i \in 1 .. n : rs[i].id # id => \E j \in DOMAIN r : r[j] = rs[i]
      BY <2>3, <3>3, <3>4
    <3> QED
      BY <2>1, <3>3, <3>5 DEF r
  <2> QED
    BY <2>5, <2>6
<1>4. Good(Len(rs)) /\ DOMAIN rs = 1 .. Len(rs)
  <2>1. Len(rs) \in 0 .. Len(rs) /\ DOMAIN rs = 1 .. Len(rs)
    OBVIOUS
  <2> QED
    BY <1>3, <2>1
<1>5. Promise!Removed(rs, id) = f[Len(rs)]
  BY <1>1
<1> HIDE DEF T
<1> QED
  BY <1>4, <1>5
-----------------------------------------------------------------------------
(* The invariant: who is in the table's turn has all of its rows.              *)

\* What a request goes through.
Requests ==
  [pc   : {"idle", "looking", "waiting", "reading", "writing", "flushing", "answered", "dead"},
   kind : Kinds \cup {"none"},
   user : Owners,
   row  : [id : Tasks \cup {NoOne}, user : Owners],
   next : Seq(Promise!Rows)]

\* A request that has been made is of a kind and names a row.
RequestsTyped ==
  /\ task \in [Tasks -> Requests]
  /\ \A t \in Tasks : task[t].pc = "idle" => task[t].kind = "none"
  /\ \A t \in Tasks : task[t].pc # "idle" => task[t].kind \in Kinds /\ task[t].row \in Promise!Rows

\* What is about to be written is the change of all the rows there are now.
WritesWhole ==
  \A t \in Tasks : task[t].pc = "writing" => task[t].next = Changed(ReadRows, task[t])

\* The file is torn while it is filled, and otherwise only once it is damaged.
TornWhileFilled ==
  /\ \A t \in Tasks : task[t].pc = "flushing" => file = Torn
  /\ file = Torn /\ ~damaged => \E t \in Tasks : task[t].pc = "flushing"

HasRow(rs, id) == \E i \in DOMAIN rs : rs[i].id = id

\* What fills the file has the row of its request.
RowIsWritten ==
  \A t \in Tasks :
    task[t].pc = "flushing" /\ task[t].kind # "remove" => HasRow(task[t].next, task[t].row.id)

TableInv ==
  /\ TableTypeOK /\ RequestsTyped /\ WritesWhole /\ TornWhileFilled /\ RowIsWritten


\* A whole change of rows is rows, and has the row of its request.
LEMMA ChangedRows ==
  ASSUME NEW rs \in Seq(Promise!Rows), NEW k \in Requests, k.row \in Promise!Rows
  PROVE  /\ Changed(rs, k) \in Seq(Promise!Rows)
         /\ k.kind # "remove" => HasRow(Changed(rs, k), k.row.id)
         /\ \A id : HasRow(rs, id) =>
              HasRow(Changed(rs, k), id) \/ (k.kind = "remove" /\ k.row.id = id)
<1>1. CASE k.kind = "append"
  <2> DEFINE r == Append(rs, k.row)
  <2>1. Changed(rs, k) = r /\ Len(rs) \in Nat /\ DOMAIN rs = 1 .. Len(rs)
    BY <1>1 DEF Changed, Promise!Appended
  <2>2. /\ r \in Seq(Promise!Rows) /\ DOMAIN r = 1 .. Len(rs) + 1 /\ r[Len(rs) + 1] = k.row
        /\ \A i \in 1 .. Len(rs) : r[i] = rs[i] /\ i \in 1 .. Len(rs) + 1
    OBVIOUS
  <2>3. Len(rs) + 1 \in 1 .. Len(rs) + 1
    BY <2>1
  <2> HIDE DEF r
  <2> QED
    BY <1>1, <2>1, <2>2, <2>3 DEF HasRow
<1>2. CASE k.kind = "remove"
  <2> DEFINE r == Promise!Removed(rs, k.row.id)
  <2>1. Changed(rs, k) = r
    BY <1>2 DEF Changed
  <2>2. /\ r \in Seq(Promise!Rows)
        /\ \A i \in DOMAIN rs : rs[i].id # k.row.id => \E j \in DOMAIN r : r[j] = rs[i]
    BY RemovedRows
  <2> HIDE DEF r
  <2>3. ASSUME NEW id, HasRow(rs, id), id # k.row.id
        PROVE  HasRow(r, id)
    BY <2>2, <2>3 DEF HasRow
  <2> QED
    BY <1>2, <2>1, <2>2, <2>3
<1>3. CASE k.kind \notin {"append", "remove"}
  <2> DEFINE r == Promise!Upserted(rs, k.row)
  <2>1. Changed(rs, k) = r
    BY <1>3 DEF Changed
  <2>2. /\ r \in Seq(Promise!Rows) /\ \E i \in DOMAIN r : r[i].id = k.row.id
        /\ \A i \in DOMAIN rs : i \in DOMAIN r /\ r[i].id = rs[i].id
    BY UpsertedRows
  <2> HIDE DEF r
  <2> QED
    BY <2>1, <2>2 DEF HasRow
<1> QED
  BY <1>1, <1>2, <1>3

\* Nobody has asked for anything yet.
LEMMA TableInitInv == TableInit => TableInv /\ AnsweredStays
<1> SUFFICES ASSUME TableInit PROVE TableInv /\ AnsweredStays
  OBVIOUS
<1>1. /\ <<>> \in Seq(Promise!Rows) /\ \A t \in Tasks : task[t] = Idle
      /\ file = <<>> /\ lock = NoOne /\ damaged = FALSE /\ deaths = 0
  BY DEF TableInit
<1>2. Idle \in Requests /\ Idle.pc = "idle" /\ Idle.next = <<>> /\ Idle.kind = "none"
  BY <1>1 DEF Idle, NoRow, Requests, Owners
<1>3. task \in [Tasks -> Requests]
  BY <1>2 DEF TableInit
<1>4. TableTypeOK
  <2>1. 0 \in 0 .. MaxDeaths
    BY TableAssumption
  <2> QED
    BY <1>1, <1>2, <2>1 DEF TableTypeOK
<1>5. file # Torn
  BY <1>1, TableAssumption DEF Promise!Rows
<1> QED
  BY <1>1, <1>2, <1>3, <1>4, <1>5 DEF TableInv, RequestsTyped, WritesWhole, TornWhileFilled,
    RowIsWritten, AnsweredStays

\* The rows read are rows.
LEMMA ReadRowsAreRows == ASSUME TableTypeOK PROVE ReadRows \in Seq(Promise!Rows)
  BY DEF TableTypeOK, ReadRows

\* One request moves: what its step must keep for the invariant to be kept.
LEMMA RequestMoves ==
  ASSUME TableInv, NEW t \in Tasks, NEW k \in Requests, task' = [task EXCEPT ![t] = k],
         k.pc # "idle", k.kind \in Kinds, k.row \in Promise!Rows,
         file' \in Seq(Promise!Rows) \cup {Torn}, damaged' \in BOOLEAN, deaths' = deaths,
         k.pc \in {"reading", "writing", "flushing"} => lock' = t,
         \/ lock' = lock
         \/ lock' = t /\ lock = NoOne
         \/ lock' = NoOne /\ lock = t,
         file' = file \/ lock = t,
         k.pc = "writing" => k.next = Changed(ReadRows', k),
         k.pc = "flushing" => /\ file' = Torn
                              /\ k.kind # "remove" => HasRow(k.next, k.row.id),
         file' = Torn /\ ~damaged' =>
            k.pc = "flushing" \/ (file = Torn /\ ~damaged /\ task[t].pc # "flushing")
  PROVE  TableInv'
<1> USE DEF TableInv
<1>1. /\ task' \in [Tasks -> Requests] /\ task'[t] = k
      /\ \A u \in Tasks : u # t => task'[u] = task[u]
  BY DEF RequestsTyped
<1>2. /\ lock' \in Tasks \cup {NoOne} /\ k.next \in Seq(Promise!Rows)
      /\ deaths' \in 0 .. MaxDeaths
  BY DEF TableTypeOK, Requests
<1>3. \A u \in Tasks :
        u # t /\ task[u].pc \in {"reading", "writing", "flushing"} => lock = u /\ lock' = u /\ file' = file
  BY TableAssumption DEF TableTypeOK
<1>4. TableTypeOK'
  BY <1>1, <1>2, <1>3 DEF TableTypeOK
<1>5. RequestsTyped'
  BY <1>1 DEF RequestsTyped
<1>6. WritesWhole'
  <2> SUFFICES ASSUME NEW u \in Tasks, task'[u].pc = "writing"
               PROVE  task'[u].next = Changed(ReadRows', task'[u])
    BY DEF WritesWhole, Changed
  <2>1. CASE u = t
    BY <1>1, <2>1
  <2>2. CASE u # t
    <3>1. file' = file /\ task'[u] = task[u]
      BY <1>1, <1>3, <2>2
    <3>2. ReadRows' = ReadRows
      BY <3>1 DEF ReadRows
    <3> QED
      BY <3>1, <3>2 DEF WritesWhole
  <2> QED
    BY <2>1, <2>2
<1>7. TornWhileFilled'
  <2>1. \A u \in Tasks : task'[u].pc = "flushing" => file' = Torn
    BY <1>1, <1>3 DEF TornWhileFilled
  <2>2. file' = Torn /\ ~damaged' => \E u \in Tasks : task'[u].pc = "flushing"
    BY <1>1 DEF TornWhileFilled
  <2> QED
    BY <2>1, <2>2 DEF TornWhileFilled
<1>8. RowIsWritten'
  BY <1>1 DEF RowIsWritten, HasRow
<1> QED
  BY <1>4, <1>5, <1>6, <1>7, <1>8

\* Every step of the table is such a move, or the death of the process.
LEMMA TableStep == TableInv /\ [TableNext]_tvars => TableInv'
<1> SUFFICES ASSUME TableInv, [TableNext]_tvars PROVE TableInv'
  OBVIOUS
<1>1. /\ task \in [Tasks -> Requests] /\ damaged \in BOOLEAN
      /\ file \in Seq(Promise!Rows) \cup {Torn} /\ ReadRows \in Seq(Promise!Rows)
      /\ \A t \in Tasks : task[t].pc # "idle" => task[t].kind \in Kinds /\ task[t].row \in Promise!Rows
      /\ \A t \in Tasks : task[t].pc \in {"reading", "writing", "flushing"} => lock = t
  BY ReadRowsAreRows DEF TableInv, TableTypeOK, RequestsTyped
<1>2. ASSUME NEW t \in Tasks, NEW kind \in Kinds, NEW user \in Users, NEW id \in Tasks,
             NEW owner \in Owners, Call(t, kind, user, id, owner)
      PROVE  TableInv'
  <2> DEFINE pc == IF kind \in {"sync", "remove"} THEN "looking" ELSE "waiting"
             row == [id |-> id, user |-> owner]
             k == [task[t] EXCEPT !.pc = pc, !.kind = kind, !.user = user, !.row = row]
  <2>0. /\ pc \in {"looking", "waiting"} /\ row \in Promise!Rows
        /\ row \in [id : Tasks \cup {NoOne}, user : Owners] /\ user \in Owners
    BY DEF Promise!Rows, Owners
  <2>1. task' = [task EXCEPT ![t] = k]
    BY <1>2 DEF Call
  <2> HIDE DEF pc, row
  <2>2. /\ k \in Requests /\ k.pc \in {"looking", "waiting"} /\ k.kind \in Kinds
        /\ k.row \in Promise!Rows /\ task[t].pc = "idle"
    BY <1>1, <1>2, <2>0 DEF Requests, Call
  <2> HIDE DEF k
  <2>3. UNCHANGED <<file, lock, damaged, deaths>>
    BY <1>2 DEF Call
  <2>4. /\ file' \in Seq(Promise!Rows) \cup {Torn} /\ damaged' \in BOOLEAN
        /\ k.pc \notin {"idle", "reading", "writing", "flushing"}
        /\ file' = Torn /\ ~damaged' => file = Torn /\ ~damaged /\ task[t].pc # "flushing"
    BY <1>1, <2>2, <2>3
  <2> QED
    BY <2>1, <2>2, <2>3, <2>4, RequestMoves
<1>3. ASSUME NEW t \in Tasks, LookForOwn(t)
      PROVE  TableInv'
  <2> DEFINE mine == {i \in DOMAIN ReadRows : ReadRows[i].user = task[t].user}
             id == IF mine = {} THEN t ELSE ReadRows[Min(mine)].id
             row == [id |-> id, user |-> NoOne]
             k == [task[t] EXCEPT !.pc = "waiting", !.row = row]
  <2>1. id \in Tasks
    <3>1. mine \subseteq DOMAIN ReadRows /\ mine \subseteq Nat
      BY <1>1
    <3>2. mine # {} => Min(mine) \in DOMAIN ReadRows
      <4> HIDE DEF mine
      <4> QED
        BY <3>1, MinIsIn
    <3>3. \A i \in DOMAIN ReadRows : ReadRows[i].id \in Tasks
      <4>1. \A i \in DOMAIN ReadRows : ReadRows[i] \in Promise!Rows
        BY <1>1
      <4> QED
        BY <4>1 DEF Promise!Rows
    <3> QED
      BY <3>2, <3>3
  <2>2. task' = [task EXCEPT ![t] = k]
    BY <1>3 DEF LookForOwn
  <2> HIDE DEF id
  <2>4. row \in Promise!Rows /\ row \in [id : Tasks \cup {NoOne}, user : Owners]
    BY <2>1 DEF Promise!Rows, Owners
  <2> HIDE DEF row
  <2>3. k \in Requests /\ k.pc = "waiting" /\ k.kind \in Kinds /\ k.row \in Promise!Rows
        /\ task[t].pc = "looking"
    BY <1>1, <1>3, <2>4 DEF Requests, LookForOwn
  <2> HIDE DEF k
  <2> QED
    BY <1>1, <1>3, <2>2, <2>3, RequestMoves DEF LookForOwn
<1>4. ASSUME NEW t \in Tasks, LookForRow(t)
      PROVE  TableInv'
  <2>1. PICK pc \in {"waiting", "answered"} : Goes(t, pc)
    BY <1>4 DEF LookForRow
  <2> DEFINE k == [task[t] EXCEPT !.pc = pc]
  <2>2. task' = [task EXCEPT ![t] = k]
    BY <2>1 DEF Goes
  <2>3. k \in Requests /\ k.pc = pc /\ k.kind \in Kinds /\ k.row \in Promise!Rows
        /\ task[t].pc = "looking"
    BY <1>1, <1>4 DEF Requests, LookForRow
  <2> HIDE DEF k
  <2> QED
    BY <1>1, <1>4, <2>2, <2>3, RequestMoves DEF LookForRow
<1>5. ASSUME NEW t \in Tasks, Acquire(t)
      PROVE  TableInv'
  <2> DEFINE k == [task[t] EXCEPT !.pc = "reading"]
  <2>1. task' = [task EXCEPT ![t] = k]
    BY <1>5 DEF Acquire, Goes
  <2>2. k \in Requests /\ k.pc = "reading" /\ k.kind \in Kinds /\ k.row \in Promise!Rows
        /\ task[t].pc = "waiting"
    <3>1. task[t] \in Requests /\ task[t].pc = "waiting"
          /\ task[t].kind \in Kinds /\ task[t].row \in Promise!Rows
      BY <1>1, <1>5 DEF Acquire
    <3> QED
      BY <3>1 DEF Requests
  <2> HIDE DEF k
  <2>3. lock = NoOne /\ lock' = t /\ UNCHANGED <<file, damaged, deaths>>
    BY <1>5 DEF Acquire
  <2>4. /\ file' \in Seq(Promise!Rows) \cup {Torn} /\ damaged' \in BOOLEAN
        /\ k.pc \notin {"idle", "writing", "flushing"}
        /\ file' = Torn /\ ~damaged' => file = Torn /\ ~damaged /\ task[t].pc # "flushing"
    BY <1>1, <2>2, <2>3
  <2> QED
    BY <2>1, <2>2, <2>3, <2>4, RequestMoves
<1>6. ASSUME NEW t \in Tasks, Read(t)
      PROVE  TableInv'
  <2> DEFINE next == Changed(ReadRows, task[t])
             void == task[t].kind = "remove" /\ Len(next) = Len(ReadRows)
             k == [task[t] EXCEPT !.pc = IF void THEN "answered" ELSE "writing",
                                  !.next = IF void THEN <<>> ELSE next]
  <2>1. task' = [task EXCEPT ![t] = k] /\ task[t].pc = "reading" /\ lock = t
        /\ lock' = IF void THEN NoOne ELSE lock
    BY <1>1, <1>6 DEF Read
  <2>2. next \in Seq(Promise!Rows)
    BY <1>1, <2>1, ChangedRows
  <2>3. ReadRows' = ReadRows
    BY <1>6 DEF Read, ReadRows
  <2>4. /\ k \in Requests /\ k.kind = task[t].kind /\ k.row = task[t].row
        /\ \/ void /\ k.pc = "answered"
           \/ ~void /\ k.pc = "writing" /\ k.next = next
    <3>1. <<>> \in Seq(Promise!Rows)
      OBVIOUS
    <3> HIDE DEF next, void
    <3>2. CASE void
      BY <1>1, <3>1, <3>2 DEF Requests
    <3>3. CASE ~void
      BY <1>1, <2>2, <3>3 DEF Requests
    <3> QED
      BY <3>2, <3>3
  <2>5. Changed(ReadRows', k) = next
    BY <2>3, <2>4 DEF Changed
  <2>6. UNCHANGED <<file, damaged, deaths>> /\ task[t].kind \in Kinds /\ task[t].row \in Promise!Rows
    BY <1>1, <1>6, <2>1 DEF Read
  <2> HIDE DEF k, void, next
  <2>7. CASE void
    BY <1>1, <2>1, <2>4, <2>6, <2>7, RequestMoves
  <2>8. CASE ~void
    BY <1>1, <2>1, <2>4, <2>5, <2>6, <2>8, RequestMoves
  <2> QED
    BY <2>7, <2>8
<1>7. ASSUME NEW t \in Tasks, Truncate(t)
      PROVE  TableInv'
  <2> DEFINE k == [task[t] EXCEPT !.pc = "flushing"]
  <2>1. task' = [task EXCEPT ![t] = k]
    BY <1>7 DEF Truncate, Goes
  <2>2. /\ k \in Requests /\ k.pc = "flushing" /\ k.kind = task[t].kind /\ k.row = task[t].row
        /\ k.next = task[t].next /\ task[t].pc = "writing" /\ lock = t
    BY <1>1, <1>7 DEF Requests, Truncate
  <2>3. k.kind # "remove" => HasRow(k.next, k.row.id)
    BY <1>1, <2>2, ChangedRows DEF TableInv, WritesWhole
  <2> HIDE DEF k
  <2> QED
    BY <1>1, <1>7, <2>1, <2>2, <2>3, RequestMoves DEF Truncate
<1>8. ASSUME NEW t \in Tasks, Fill(t)
      PROVE  TableInv'
  <2> DEFINE k == [task[t] EXCEPT !.pc = "answered", !.next = <<>>]
  <2>0. <<>> \in Seq(Promise!Rows)
    OBVIOUS
  <2>1. task' = [task EXCEPT ![t] = k]
    BY <1>8 DEF Fill, Answers
  <2>2. /\ k \in Requests /\ k.pc = "answered" /\ k.kind = task[t].kind /\ k.row = task[t].row
        /\ task[t].pc = "flushing" /\ lock = t
    BY <1>1, <1>8, <2>0 DEF Requests, Fill
  <2>3. file' \in Seq(Promise!Rows) /\ file' # Torn
    <3>1. Torn \notin Seq(Promise!Rows)
      BY TableAssumption DEF Promise!Rows
    <3>2. file' \in Seq(Promise!Rows)
      BY <1>1, <1>8 DEF Fill, Requests
    <3> QED
      BY <3>1, <3>2
  <2> HIDE DEF k
  <2> QED
    BY <1>1, <1>8, <2>1, <2>2, <2>3, RequestMoves DEF Fill
<1>9. ASSUME NEW t \in Tasks, WriteFails(t)
      PROVE  TableInv'
  <2> DEFINE k == [task[t] EXCEPT !.pc = "answered", !.next = <<>>]
  <2>0. <<>> \in Seq(Promise!Rows)
    OBVIOUS
  <2>1. task' = [task EXCEPT ![t] = k]
    BY <1>9 DEF WriteFails, Answers
  <2>2. /\ k \in Requests /\ k.pc = "answered" /\ k.kind = task[t].kind /\ k.row = task[t].row
        /\ task[t].pc \in {"writing", "flushing"} /\ lock = t
    BY <1>1, <1>9, <2>0 DEF Requests, WriteFails
  <2> HIDE DEF k
  <2> QED
    BY <1>1, <1>9, <2>1, <2>2, RequestMoves DEF WriteFails
<1>10. CASE Die
  <2>1. \A t \in Tasks :
          /\ task'[t] \in Requests /\ task'[t].pc \in {"idle", "answered", "dead"}
          /\ task'[t].pc = "idle" <=> task[t].pc = "idle"
          /\ task'[t].kind = task[t].kind /\ task'[t].row = task[t].row
    <3> SUFFICES ASSUME NEW t \in Tasks
                 PROVE  /\ task'[t] \in Requests /\ task'[t].pc \in {"idle", "answered", "dead"}
                        /\ task'[t].pc = "idle" <=> task[t].pc = "idle"
                        /\ task'[t].kind = task[t].kind /\ task'[t].row = task[t].row
      OBVIOUS
    <3>1. <<>> \in Seq(Promise!Rows) /\ task[t] \in Requests
      BY <1>1
    <3>2. CASE task[t].pc \in {"idle", "answered"}
      BY <1>10, <3>1, <3>2 DEF Die
    <3>3. CASE task[t].pc \notin {"idle", "answered"}
      <4>1. task'[t] = [task[t] EXCEPT !.pc = "dead", !.next = <<>>]
        BY <1>10, <3>3 DEF Die
      <4> QED
        BY <3>1, <3>3, <4>1 DEF Requests
    <3> QED
      BY <3>2, <3>3
  <2>2. task' \in [Tasks -> Requests]
    BY <1>10, <2>1 DEF Die
  <2>3. TableTypeOK'
    <3>1. deaths' \in 0 .. MaxDeaths /\ damaged' \in BOOLEAN /\ lock' = NoOne /\ file' = file
      <4>1. /\ deaths < MaxDeaths /\ deaths' = deaths + 1 /\ lock' = NoOne /\ file' = file
            /\ damaged' = (damaged \/ file = Torn)
        BY <1>10 DEF Die
      <4>2. deaths \in 0 .. MaxDeaths /\ MaxDeaths \in Nat
        BY TableAssumption DEF TableInv, TableTypeOK
      <4>3. deaths' \in 0 .. MaxDeaths
        BY <4>1, <4>2
      <4> QED
        BY <1>1, <4>1, <4>3
    <3>2. \A t \in Tasks : task'[t].next \in Seq(Promise!Rows)
      BY <2>1 DEF Requests
    <3> QED
      BY <1>1, <2>1, <3>1, <3>2 DEF TableTypeOK
  <2>4. RequestsTyped'
    BY <1>1, <2>1, <2>2 DEF TableInv, RequestsTyped
  <2>5. WritesWhole' /\ TornWhileFilled' /\ RowIsWritten'
    BY <1>10, <2>1 DEF Die, WritesWhole, TornWhileFilled, RowIsWritten
  <2> QED
    BY <2>3, <2>4, <2>5 DEF TableInv
<1>11. CASE UNCHANGED tvars
  BY <1>11 DEF tvars, TableInv, TableTypeOK, RequestsTyped, WritesWhole, TornWhileFilled,
    RowIsWritten, ReadRows, Changed
<1> QED
  BY <1>2, <1>3, <1>4, <1>5, <1>6, <1>7, <1>8, <1>9, <1>10, <1>11 DEF TableNext, Turn

\* Every reachable state satisfies the invariant.
LEMMA TableInvAlways == TableSpec => []TableInv
  BY TableInitInv, TableStep, PTL DEF TableSpec

\* For every set of requests: one at a time reads, changes and writes the table.
THEOREM TableTypeCorrect == TableSpec => []TableTypeOK
<1>1. TableInv => TableTypeOK
  BY DEF TableInv
<1> QED
  BY <1>1, TableInvAlways, PTL

-----------------------------------------------------------------------------
(* The rows of the table, through a file that is torn while it is written.      *)

\* The one who fills the file has the rows; nobody filling, they are in the file.
LEMMA RowsAre ==
  ASSUME TableInv
  PROVE  /\ \A t \in Tasks : task[t].pc = "flushing" => TableRows = task[t].next
         /\ (\A t \in Tasks : task[t].pc # "flushing") => TableRows = ReadRows
<1>1. \A t, u \in Tasks : task[t].pc = "flushing" /\ task[u].pc = "flushing" => t = u
  BY DEF TableInv, TableTypeOK
<1> QED
  BY <1>1 DEF TableRows

\* The same of the state a step leads to.
LEMMA RowsWillBe ==
  ASSUME TableInv'
  PROVE  /\ \A t \in Tasks : task'[t].pc = "flushing" => TableRows' = task'[t].next
         /\ (\A t \in Tasks : task'[t].pc # "flushing") => TableRows' = ReadRows'
<1>1. \A t, u \in Tasks : task'[t].pc = "flushing" /\ task'[u].pc = "flushing" => t = u
  BY DEF TableInv, TableTypeOK
<1> QED
  BY <1>1 DEF TableRows

\* The rows are kept, lost as a whole, or changed as a whole for a request.
Kept == TableRows' = TableRows /\ damaged' = damaged
Lost == TableRows' \in {TableRows, <<>>} /\ damaged' = TRUE
Applied(t) ==
  /\ task[t].pc = "writing" /\ TableRows' = Changed(TableRows, task[t]) /\ damaged' = damaged

\* Where no request begins or ends to fill the file and the file is left alone,
\* so are the rows.
LEMMA RowsKept ==
  ASSUME TableInv, TableInv', file' = file,
         \A t \in Tasks : task[t].pc = "flushing" \/ task'[t].pc = "flushing" =>
                            task'[t].pc = task[t].pc /\ task'[t].next = task[t].next
  PROVE  TableRows' = TableRows
<1>1. ReadRows' = ReadRows
  BY DEF ReadRows
<1> QED
  BY <1>1, RowsAre, RowsWillBe

\* Whoever fills the file writes the rows the table has since it was truncated.
LEMMA FillKeeps ==
  ASSUME TableInv, TableInv', NEW t \in Tasks, Fill(t)
  PROVE  TableRows' = TableRows
<1>1. /\ task \in [Tasks -> Requests]
      /\ \A u \in Tasks : task[u].pc \in {"reading", "writing", "flushing"} => lock = u
  BY DEF TableInv, TableTypeOK, RequestsTyped
<1>2. /\ task[t].pc = "flushing" /\ task'[t].pc # "flushing"
      /\ file' = task[t].next /\ \A u \in Tasks : u # t => task'[u] = task[u]
  BY <1>1 DEF Fill, Answers, Requests
<1>3. \A u \in Tasks : task'[u].pc # "flushing"
  BY <1>1, <1>2
<1>4. file' # Torn
  <2>1. Torn \notin Seq(Promise!Rows)
    BY TableAssumption DEF Promise!Rows
  <2> QED
    BY <1>1, <1>2, <2>1 DEF Requests
<1> QED
  BY <1>2, <1>3, <1>4, RowsAre, RowsWillBe DEF ReadRows

\* A request's change of the rows takes place when it truncates the file.
LEMMA RowsStep ==
  ASSUME TableInv, TableInv', [TableNext]_tvars
  PROVE  Kept \/ Lost \/ \E t \in Tasks : Applied(t)
<1>1. /\ task \in [Tasks -> Requests] /\ damaged \in BOOLEAN
      /\ \A t \in Tasks : task[t].pc \in {"reading", "writing", "flushing"} => lock = t
      /\ \A t \in Tasks : task[t].pc = "flushing" => file = Torn
      /\ file = Torn /\ ~damaged => \E t \in Tasks : task[t].pc = "flushing"
      /\ \A t \in Tasks : task[t].pc = "writing" => task[t].next = Changed(ReadRows, task[t])
  BY DEF TableInv, TableTypeOK, RequestsTyped, TornWhileFilled, WritesWhole
<1>2. ASSUME NEW t \in Tasks, task[t].pc \notin {"writing", "flushing"},
             task'[t].pc # "flushing", UNCHANGED <<file, damaged>>,
             \A u \in Tasks : u # t => task'[u] = task[u]
      PROVE  Kept
  BY <1>2, RowsKept DEF Kept
<1>3. ASSUME NEW t \in Tasks, NEW kind \in Kinds, NEW user \in Users, NEW id \in Tasks,
             NEW owner \in Owners, Call(t, kind, user, id, owner)
      PROVE  Kept
  <2>1. task'[t].pc # "flushing" /\ \A u \in Tasks : u # t => task'[u] = task[u]
    BY <1>1, <1>3 DEF Call, Requests
  <2> QED
    BY <1>2, <1>3, <2>1 DEF Call
<1>4. ASSUME NEW t \in Tasks, LookForOwn(t) \/ LookForRow(t) \/ Acquire(t) \/ Read(t)
      PROVE  Kept
  <2>1. task'[t].pc # "flushing" /\ \A u \in Tasks : u # t => task'[u] = task[u]
    BY <1>1, <1>4 DEF LookForOwn, LookForRow, Acquire, Read, Goes, Requests
  <2> QED
    BY <1>2, <1>4, <2>1 DEF LookForOwn, LookForRow, Acquire, Read
<1>5. ASSUME NEW t \in Tasks, Truncate(t)
      PROVE  Applied(t)
  <2>1. /\ task'[t].pc = "flushing" /\ task'[t].next = task[t].next /\ task[t].pc = "writing"
        /\ damaged' = damaged
    BY <1>1, <1>5 DEF Truncate, Goes, Requests
  <2>2. \A u \in Tasks : task[u].pc # "flushing"
    BY <1>1, <2>1
  <2>3. TableRows = ReadRows /\ TableRows' = task[t].next
    BY <2>1, <2>2, RowsAre, RowsWillBe
  <2> QED
    BY <1>1, <2>1, <2>3 DEF Applied
<1>6. ASSUME NEW t \in Tasks, Fill(t)
      PROVE  Kept
  BY <1>6, FillKeeps DEF Fill, Kept
<1>7. ASSUME NEW t \in Tasks, WriteFails(t)
      PROVE  Lost
  <2>1. /\ task[t].pc \in {"writing", "flushing"} /\ task'[t].pc # "flushing" /\ damaged' = TRUE
        /\ file' = file /\ \A u \in Tasks : u # t => task'[u] = task[u]
    BY <1>1, <1>7 DEF WriteFails, Answers, Requests
  <2>2. CASE task[t].pc = "writing"
    BY <2>1, <2>2, RowsKept DEF Lost
  <2>3. CASE task[t].pc = "flushing"
    <3>1. \A u \in Tasks : task'[u].pc # "flushing"
      BY <1>1, <2>1, <2>3
    <3>2. TableRows' = <<>>
      BY <1>1, <2>1, <2>3, <3>1, RowsWillBe DEF ReadRows
    <3> QED
      BY <2>1, <3>2 DEF Lost
  <2> QED
    BY <2>1, <2>2, <2>3
<1>8. CASE Die
  <2>1. /\ \A t \in Tasks : task'[t].pc # "flushing"
        /\ file' = file /\ damaged' = (damaged \/ file = Torn)
    BY <1>1, <1>8 DEF Die, Requests
  <2>2. CASE file = Torn
    <3>1. TableRows' = <<>>
      BY <2>1, <2>2, RowsWillBe DEF ReadRows
    <3> QED
      BY <2>1, <2>2, <3>1 DEF Lost
  <2>3. CASE file # Torn
    BY <1>1, <2>1, <2>3, RowsKept DEF Kept
  <2> QED
    BY <2>2, <2>3
<1>9. CASE UNCHANGED tvars
  BY <1>9, RowsKept DEF tvars, Kept
<1> QED
  BY <1>3, <1>4, <1>5, <1>6, <1>7, <1>8, <1>9 DEF TableNext, Turn

\* For every set of requests, LocalTable implements TablePromise: the rows change
\* by whole operations on all there are, and are lost as a whole, once a write has
\* failed or was cut off.
THEOREM TableKeepsPromise == TableSpec => TableKept
<1>1. TableInit => Promise!TableInit
  <2> SUFFICES ASSUME TableInit PROVE Promise!TableInit
    OBVIOUS
  <2>1. TableInv /\ \A t \in Tasks : task[t].pc # "flushing"
    BY TableInitInv DEF TableInit, Idle
  <2> QED
    BY <2>1, RowsAre DEF TableInit, ReadRows, Promise!TableInit
<1>2. TableInv /\ TableInv' /\ [TableNext]_tvars
        => [Promise!TableNext]_<<TableRows, damaged>>
  <2> SUFFICES ASSUME TableInv, TableInv', [TableNext]_tvars
               PROVE  [Promise!TableNext]_<<TableRows, damaged>>
    OBVIOUS
  <2>1. CASE Kept
    BY <2>1 DEF Kept
  <2>2. CASE Lost
    BY <2>2 DEF Lost, Promise!TableNext
  <2>3. ASSUME NEW t \in Tasks, Applied(t)
        PROVE  Promise!TableNext
    <3>1. /\ task[t].row \in Promise!Rows /\ task[t].row.id \in Tasks
          /\ task[t].kind \in {"append", "remove"} \/ task[t].kind \notin {"append", "remove"}
      BY <2>3 DEF TableInv, RequestsTyped, Applied, Promise!Rows
    <3>2. \/ TableRows' = Promise!Appended(TableRows, task[t].row)
          \/ TableRows' = Promise!Upserted(TableRows, task[t].row)
          \/ TableRows' = Promise!Removed(TableRows, task[t].row.id)
      BY <2>3 DEF Applied, Changed
    <3> QED
      BY <2>3, <3>1, <3>2 DEF Applied, Promise!TableNext
  <2> QED
    BY <2>1, <2>2, <2>3, RowsStep
<1> QED
  BY <1>1, <1>2, TableInvAlways, PTL DEF TableSpec, TableKept, Promise!TableSpec

-----------------------------------------------------------------------------
(* An answered row stays: a request keeps its kind and its row, is answered when *)
(* its row has been written, and whole changes keep the rows they do not remove. *)

\* A request keeps its kind, and its row once it is not looking for it.
LEMMA RequestsKept ==
  ASSUME TableInv, [TableNext]_tvars, NEW t \in Tasks, task[t].pc # "idle"
  PROVE  /\ task'[t].kind = task[t].kind
         /\ task[t].pc # "looking" \/ task[t].kind = "remove" => task'[t].row = task[t].row
<1>1. task \in [Tasks -> Requests]
  BY DEF TableInv, RequestsTyped
<1>2. ASSUME NEW u \in Tasks, NEW kind \in Kinds, NEW user \in Users, NEW id \in Tasks,
             NEW owner \in Owners, Call(u, kind, user, id, owner)
      PROVE  task'[t] = task[t]
  BY <1>1, <1>2 DEF Call
<1>3. ASSUME NEW u \in Tasks, Turn(u), u # t
      PROVE  task'[t] = task[t]
  BY <1>1, <1>3 DEF Turn, LookForOwn, LookForRow, Acquire, Read, Truncate, Fill, WriteFails, Goes,
    Answers
<1>4. CASE LookForOwn(t)
  BY <1>1, <1>4 DEF LookForOwn, Requests
<1>5. CASE LookForRow(t) \/ Acquire(t) \/ Read(t) \/ Truncate(t) \/ Fill(t) \/ WriteFails(t)
  <2>1. ASSUME NEW pc, Goes(t, pc)
        PROVE  task'[t].kind = task[t].kind /\ task'[t].row = task[t].row
    BY <1>1, <2>1 DEF Goes, Requests
  <2>2. CASE LookForRow(t)
    BY <2>1, <2>2 DEF LookForRow
  <2>3. CASE Acquire(t) \/ Truncate(t)
    BY <2>1, <2>3 DEF Acquire, Truncate
  <2>4. ASSUME NEW pc, NEW next, task' = [task EXCEPT ![t].pc = pc, ![t].next = next]
        PROVE  task'[t].kind = task[t].kind /\ task'[t].row = task[t].row
    BY <1>1, <2>4 DEF Requests
  <2>5. CASE Read(t)
    BY <2>4, <2>5 DEF Read
  <2>6. CASE Fill(t) \/ WriteFails(t)
    <3>1. Answers(t)
      BY <2>6 DEF Fill, WriteFails
    <3> QED
      BY <2>4, <3>1 DEF Answers
  <2> QED
    BY <1>5, <2>2, <2>3, <2>5, <2>6
<1>6. CASE Die \/ UNCHANGED tvars
  <2>1. CASE Die
    <3>1. task[t] \in Requests
          /\ task'[t] \in {task[t], [task[t] EXCEPT !.pc = "dead", !.next = <<>>]}
      BY <1>1, <2>1 DEF Die
    <3> QED
      BY <3>1 DEF Requests
  <2> QED
    BY <1>6, <2>1 DEF tvars
<1>7. CASE \E u \in Tasks : Turn(u)
  BY <1>3, <1>4, <1>5, <1>7 DEF Turn
<1> QED
  BY <1>2, <1>6, <1>7 DEF TableNext

\* A request that leaves a row is answered when the row has been written.
LEMMA AnsweredWhenWritten ==
  ASSUME TableInv, [TableNext]_tvars, NEW t \in Tasks,
         task[t].pc # "answered", task'[t].pc = "answered", task'[t].kind # "remove", ~damaged'
  PROVE  Fill(t)
<1>1. task \in [Tasks -> Requests]
  BY DEF TableInv, RequestsTyped
<1>2. ASSUME NEW u \in Tasks, NEW kind \in Kinds, NEW user \in Users, NEW id \in Tasks,
             NEW owner \in Owners, Call(u, kind, user, id, owner)
      PROVE  FALSE
  <2>1. CASE u = t
    BY <1>1, <1>2, <2>1 DEF Call, Requests
  <2>2. CASE u # t
    BY <1>1, <1>2, <2>2 DEF Call
  <2> QED
    BY <2>1, <2>2
<1>3. ASSUME NEW u \in Tasks, Turn(u)
      PROVE  u = t
  BY <1>1, <1>3 DEF Turn, LookForOwn, LookForRow, Acquire, Read, Truncate, Fill, WriteFails, Goes,
    Answers
<1>4. ~LookForOwn(t) /\ ~LookForRow(t) /\ ~Acquire(t) /\ ~Truncate(t) /\ ~WriteFails(t)
  <2>1. ASSUME NEW pc, Goes(t, pc)
        PROVE  pc = "answered" /\ task'[t].kind = task[t].kind
    BY <1>1, <2>1 DEF Goes, Requests
  <2>2. ~LookForOwn(t)
    BY <1>1 DEF LookForOwn, Requests
  <2>3. ~LookForRow(t)
    BY <2>1 DEF LookForRow
  <2>4. ~Acquire(t) /\ ~Truncate(t)
    BY <2>1 DEF Acquire, Truncate
  <2>5. ~WriteFails(t)
    BY DEF WriteFails
  <2> QED
    BY <2>2, <2>3, <2>4, <2>5
<1>5. ~Read(t)
  BY <1>1 DEF Read, Requests
<1>6. ~Die /\ ~UNCHANGED tvars
  <2>1. ASSUME Die PROVE FALSE
    <3>1. task[t] \in Requests
          /\ task'[t] \in {task[t], [task[t] EXCEPT !.pc = "dead", !.next = <<>>]}
      BY <1>1, <2>1 DEF Die
    <3> QED
      BY <3>1 DEF Requests
  <2> QED
    BY <2>1 DEF tvars
<1> QED
  BY <1>2, <1>3, <1>4, <1>5, <1>6 DEF TableNext, Turn

\* Answered rows stay through every step.
LEMMA AnsweredStaysStep ==
  TableInv /\ TableInv' /\ AnsweredStays /\ [TableNext]_tvars => AnsweredStays'
<1> SUFFICES ASSUME TableInv, TableInv', AnsweredStays, [TableNext]_tvars,
                    NEW t \in Tasks, task'[t].pc = "answered", task'[t].kind # "remove", ~damaged'
             PROVE  \/ HasRow(TableRows', task'[t].row.id)
                    \/ \E u \in Tasks : task'[u].kind = "remove" /\ task'[u].row.id = task'[t].row.id
  BY DEF AnsweredStays, HasRow
<1>1. task[t].pc # "idle" /\ \A u \in Tasks : task[u].kind = "remove" => task[u].pc # "idle"
  <2>1. \A u \in Tasks : task[u].pc = "idle" => task[u].kind = "none"
    BY DEF TableInv, RequestsTyped
  <2>2. task[t].pc = "idle" => ~Fill(t)
    BY DEF Fill
  <2> QED
    BY <2>1, <2>2, AnsweredWhenWritten
<1>2. \A u \in Tasks :
        task[u].kind = "remove" => task'[u].kind = "remove" /\ task'[u].row = task[u].row
  BY <1>1, RequestsKept
<1>3. CASE Fill(t)
  <2>1. task[t].pc = "flushing" /\ damaged' = damaged
    BY <1>3 DEF Fill
  <2>2. task'[t].kind = task[t].kind /\ task'[t].row = task[t].row
    BY <1>1, <2>1, RequestsKept
  <2>3. HasRow(TableRows, task[t].row.id)
    BY <2>1, <2>2, RowsAre DEF TableInv, RowIsWritten
  <2>4. TableRows' = TableRows
    BY <1>3, FillKeeps
  <2> QED
    BY <2>2, <2>3, <2>4
<1>4. CASE ~Fill(t)
  <2>1. task[t].pc = "answered"
    BY <1>4, AnsweredWhenWritten
  <2>2. task'[t].kind = task[t].kind /\ task'[t].row = task[t].row
    BY <2>1, RequestsKept
  <2>3. ~Lost
    BY DEF Lost
  <2>4. damaged' = damaged
    BY <2>3, RowsStep DEF Kept, Applied
  <2>5. \/ HasRow(TableRows, task[t].row.id)
        \/ \E u \in Tasks : task[u].kind = "remove" /\ task[u].row.id = task[t].row.id
    BY <2>1, <2>2, <2>4 DEF AnsweredStays, HasRow
  <2>6. CASE \E u \in Tasks : task[u].kind = "remove" /\ task[u].row.id = task[t].row.id
    BY <1>2, <2>2, <2>6
  <2>7. CASE HasRow(TableRows, task[t].row.id) /\ Kept
    BY <2>2, <2>7 DEF Kept
  <2>8. ASSUME HasRow(TableRows, task[t].row.id), NEW u \in Tasks, Applied(u)
        PROVE  \/ HasRow(TableRows', task[t].row.id)
               \/ task[u].kind = "remove" /\ task[u].row.id = task[t].row.id
    <3>1. /\ task[u] \in Requests /\ task[u].row \in Promise!Rows
      BY <2>8 DEF TableInv, RequestsTyped, Applied
    <3>2. TableRows \in Seq(Promise!Rows)
      BY RowsAre, ReadRowsAreRows DEF TableInv, TableTypeOK
    <3> QED
      BY <2>8, <3>1, <3>2, ChangedRows DEF Applied
  <2> QED
    BY <1>2, <2>2, <2>3, <2>5, <2>6, <2>7, <2>8, RowsStep
<1> QED
  BY <1>3, <1>4

\* For every set of requests, a row whose request was answered is in the table
\* unless its removal was asked for, as long as no write failed or was cut off.
THEOREM AnsweredAlwaysStays == TableSpec => []AnsweredStays
  BY TableInitInv, AnsweredStaysStep, TableInvAlways, PTL DEF TableSpec

-----------------------------------------------------------------------------
(* What a subscription sync leaves: the row it writes has no owner, so no later *)
(* sync finds it.                                                               *)

\* Every row after an upsert is the row upserted or was there.
LEMMA UpsertedFrom ==
  ASSUME NEW rs \in Seq(Promise!Rows), NEW row \in Promise!Rows
  PROVE  LET r == Promise!Upserted(rs, row) IN
         \A i \in DOMAIN r : r[i] = row \/ \E j \in DOMAIN rs : r[i] = rs[j]
<1> DEFINE I == {i \in 1 .. Len(rs) : rs[i].id = row.id}
<1>1. I # {} => Min(I) \in I
  <2> I \subseteq Nat
    OBVIOUS
  <2> HIDE DEF I
  <2> QED
    BY MinIsIn
<1>2. DOMAIN rs = 1 .. Len(rs) /\ Len(rs) \in Nat
  OBVIOUS
<1>3. CASE I # {}
  <2>1. Promise!Upserted(rs, row) = [rs EXCEPT ![Min(I)] = row]
    BY <1>2, <1>3 DEF Promise!Upserted, Promise!ReplaceAt, Promise!SelectInSeq, Promise!Min, Min
  <2> HIDE DEF I
  <2> QED
    BY <2>1
<1>4. CASE I = {}
  <2>1. Promise!Upserted(rs, row) = Append(rs, row)
    BY <1>2, <1>4 DEF Promise!Upserted
  <2> QED
    BY <1>2, <2>1
<1> QED
  BY <1>3, <1>4

Ownerless(rs) == \A i \in DOMAIN rs : rs[i].user = NoOne

\* No row has an owner, in the file or about to be in it, and every request is a
\* sync made by a user.
OwnerInv ==
  /\ Ownerless(ReadRows)
  /\ \A t \in Tasks :
       /\ Ownerless(task[t].next)
       /\ task[t].pc # "idle" => task[t].user \in Users
       /\ task[t].pc \in {"waiting", "reading", "writing", "flushing"} => task[t].row.user = NoOne

\* One request moves and the file becomes its rows, is torn or stays.
LEMMA OwnerMoves ==
  ASSUME TableInv, OwnerInv, NEW t \in Tasks, NEW k, task' = [task EXCEPT ![t] = k],
         Ownerless(k.next), k.user \in Users,
         k.pc \in {"waiting", "reading", "writing", "flushing"} => k.row.user = NoOne,
         file' \in {file, Torn, task[t].next}
  PROVE  OwnerInv'
<1>1. /\ task'[t] = k /\ \A u \in Tasks : u # t => task'[u] = task[u]
  BY DEF TableInv, RequestsTyped
<1>2. \A i \in DOMAIN ReadRows' : ReadRows'[i].user = NoOne
  <2>1. ReadRows' \in {<<>>, ReadRows, task[t].next}
    BY DEF ReadRows
  <2>2. Ownerless(<<>>) /\ Ownerless(ReadRows) /\ Ownerless(task[t].next)
    BY DEF OwnerInv, Ownerless
  <2> QED
    BY <2>1, <2>2 DEF Ownerless
<1>3. \A u \in Tasks : Ownerless(task'[u].next)
  BY <1>1 DEF OwnerInv
<1>4. \A u \in Tasks :
        /\ task'[u].pc # "idle" => task'[u].user \in Users
        /\ task'[u].pc \in {"waiting", "reading", "writing", "flushing"} => task'[u].row.user = NoOne
  BY <1>1 DEF OwnerInv
<1> QED
  BY <1>2, <1>3, <1>4 DEF OwnerInv, Ownerless

\* Where there are only syncs, every step leaves the rows without an owner.
LEMMA OwnerStep ==
  ASSUME Kinds = {"sync"}, TableInv, OwnerInv, [TableNext]_tvars
  PROVE  OwnerInv'
<1>1. /\ task \in [Tasks -> Requests] /\ ReadRows \in Seq(Promise!Rows)
      /\ \A t \in Tasks : task[t].pc # "idle" => task[t].kind = "sync" /\ task[t].row \in Promise!Rows
  BY ReadRowsAreRows DEF TableInv, RequestsTyped
<1>2. /\ Ownerless(<<>>) /\ Ownerless(ReadRows)
      /\ \A t \in Tasks : Ownerless(task[t].next) /\ (task[t].pc # "idle" => task[t].user \in Users)
      /\ \A t \in Tasks : task[t].pc \in {"waiting", "reading", "writing", "flushing"}
                            => task[t].row.user = NoOne
  BY DEF OwnerInv, Ownerless
<1>3. ASSUME NEW t \in Tasks, NEW kind \in Kinds, NEW user \in Users, NEW id \in Tasks,
             NEW owner \in Owners, Call(t, kind, user, id, owner)
      PROVE  OwnerInv'
  <2> DEFINE row == [id |-> id, user |-> owner]
             k == [task[t] EXCEPT !.pc = "looking", !.kind = kind, !.user = user, !.row = row]
  <2>1. task' = [task EXCEPT ![t] = k] /\ file' = file
    BY <1>3 DEF Call
  <2> HIDE DEF row
  <2>2. k.pc = "looking" /\ k.user = user /\ k.next = task[t].next
    BY <1>1 DEF Requests
  <2> HIDE DEF k
  <2> QED
    BY <1>2, <2>1, <2>2, OwnerMoves
<1>4. ASSUME NEW t \in Tasks, LookForOwn(t)
      PROVE  OwnerInv'
  <2> DEFINE mine == {i \in DOMAIN ReadRows : ReadRows[i].user = task[t].user}
             row == [id |-> IF mine = {} THEN t ELSE ReadRows[Min(mine)].id, user |-> NoOne]
             k == [task[t] EXCEPT !.pc = "waiting", !.row = row]
  <2>1. task' = [task EXCEPT ![t] = k] /\ file' = file /\ task[t].pc = "looking"
    BY <1>4 DEF LookForOwn
  <2>2. row.user = NoOne
    OBVIOUS
  <2> HIDE DEF row
  <2>3. k.row = row /\ k.user = task[t].user /\ k.next = task[t].next
    BY <1>1 DEF Requests
  <2> HIDE DEF k
  <2> QED
    BY <1>2, <2>1, <2>2, <2>3, OwnerMoves
<1>5. ASSUME NEW t \in Tasks, NEW pc, Goes(t, pc), task[t].pc # "idle",
             task[t].pc = "looking" => pc = "answered",
             task[t].pc \in {"looking", "waiting", "reading", "writing", "flushing"},
             file' \in {file, Torn}
      PROVE  OwnerInv'
  <2> DEFINE k == [task[t] EXCEPT !.pc = pc]
  <2>1. task' = [task EXCEPT ![t] = k]
    BY <1>5 DEF Goes
  <2>2. k.pc = pc /\ k.row = task[t].row /\ k.user = task[t].user /\ k.next = task[t].next
    BY <1>1 DEF Requests
  <2> HIDE DEF k
  <2>3. k.pc \in {"waiting", "reading", "writing", "flushing"} => k.row.user = NoOne
    BY <1>2, <1>5, <2>2
  <2> QED
    BY <1>2, <1>5, <2>1, <2>2, <2>3, OwnerMoves
<1>6. ASSUME NEW t \in Tasks, LookForRow(t) \/ Acquire(t) \/ Truncate(t)
      PROVE  OwnerInv'
  <2>1. ~LookForRow(t)
    BY <1>1 DEF LookForRow
  <2>2. CASE Acquire(t)
    BY <1>5, <2>2 DEF Acquire
  <2>3. CASE Truncate(t)
    BY <1>5, <2>3 DEF Truncate
  <2> QED
    BY <1>6, <2>1, <2>2, <2>3
<1>7. ASSUME NEW t \in Tasks, Read(t)
      PROVE  OwnerInv'
  <2> DEFINE next == Changed(ReadRows, task[t])
             k == [task[t] EXCEPT !.pc = "writing", !.next = next]
  <2>1. task[t].pc = "reading" /\ file' = file /\ task[t].kind = "sync"
    BY <1>1, <1>7 DEF Read
  <2>2. next = Promise!Upserted(ReadRows, task[t].row)
    BY <2>1 DEF Changed
  <2>3. task' = [task EXCEPT ![t] = k]
    BY <1>7, <2>1 DEF Read
  <2> HIDE DEF next
  <2>4. \A i \in DOMAIN next : next[i] = task[t].row \/ \E j \in DOMAIN ReadRows : next[i] = ReadRows[j]
    BY <1>1, <2>1, <2>2, UpsertedFrom
  <2>5. Ownerless(next)
    BY <1>2, <2>1, <2>4 DEF Ownerless
  <2>6. k.next = next /\ k.row = task[t].row /\ k.user = task[t].user
    BY <1>1 DEF Requests
  <2> HIDE DEF k
  <2> QED
    BY <1>2, <2>1, <2>3, <2>5, <2>6, OwnerMoves
<1>8. ASSUME NEW t \in Tasks, Fill(t) \/ WriteFails(t)
      PROVE  OwnerInv'
  <2> DEFINE k == [task[t] EXCEPT !.pc = "answered", !.next = <<>>]
  <2>1. /\ task' = [task EXCEPT ![t] = k] /\ file' \in {file, task[t].next}
        /\ task[t].pc \in {"writing", "flushing"}
    BY <1>8 DEF Fill, WriteFails, Answers
  <2>2. k.pc = "answered" /\ k.user = task[t].user /\ k.next = <<>>
    BY <1>1 DEF Requests
  <2> HIDE DEF k
  <2> QED
    BY <1>2, <2>1, <2>2, OwnerMoves
<1>9. CASE Die
  <2>1. ReadRows' = ReadRows
    BY <1>9 DEF Die, ReadRows
  <2>2. ASSUME NEW t \in Tasks
        PROVE  /\ task'[t].pc \in {"idle", "answered", "dead"} /\ task'[t].user = task[t].user
               /\ task'[t].pc = "idle" <=> task[t].pc = "idle"
               /\ Ownerless(task'[t].next)
    <3>1. CASE task[t].pc \in {"idle", "answered"}
      BY <1>2, <1>9, <3>1 DEF Die
    <3>2. CASE task[t].pc \notin {"idle", "answered"}
      <4>1. task'[t] = [task[t] EXCEPT !.pc = "dead", !.next = <<>>]
        BY <1>9, <3>2 DEF Die
      <4>2. task'[t].pc = "dead" /\ task'[t].user = task[t].user /\ task'[t].next = <<>>
        BY <1>1, <4>1 DEF Requests
      <4> QED
        BY <1>2, <3>2, <4>2
    <3> QED
      BY <3>1, <3>2
  <2> QED
    BY <1>2, <2>1, <2>2 DEF OwnerInv, Ownerless
<1>10. CASE UNCHANGED tvars
  BY <1>10 DEF tvars, OwnerInv, Ownerless, ReadRows
<1> QED
  BY <1>3, <1>4, <1>6, <1>7, <1>8, <1>9, <1>10 DEF TableNext, Turn

\* A sync takes a new id: it finds no row of its user.
SyncInserts == [][\A t \in Tasks : LookForOwn(t) => task'[t].row.id = t]_tvars

\* For every set of requests and users, where the table is written by syncs alone:
\* no sync ever finds the row that an earlier sync of its user wrote, whether they
\* overlap or not, because upsertRow sets its user_id to null (billing.mjs:8-9,
\* localstore.mjs:122); each of them inserts a row.
THEOREM SyncsFindNothing ==
  ASSUME Kinds = {"sync"}
  PROVE  TableSpec => SyncInserts
<1>1. TableInit => OwnerInv
  <2> SUFFICES ASSUME TableInit PROVE OwnerInv
    OBVIOUS
  <2>1. /\ \A t \in Tasks : task[t] = Idle
        /\ file = <<>>
    BY DEF TableInit
  <2>2. Ownerless(<<>>) /\ ReadRows = <<>>
    BY <2>1 DEF Ownerless, ReadRows
  <2>3. Idle.pc = "idle" /\ Idle.next = <<>>
    BY DEF Idle
  <2> QED
    BY <2>1, <2>2, <2>3 DEF OwnerInv
<1>2. TableInv /\ OwnerInv /\ [TableNext]_tvars => OwnerInv'
  BY OwnerStep
<1>3. TableInv /\ OwnerInv /\ [TableNext]_tvars
        => [\A t \in Tasks : LookForOwn(t) => task'[t].row.id = t]_tvars
  <2> SUFFICES ASSUME TableInv, OwnerInv, NEW t \in Tasks, LookForOwn(t)
               PROVE  task'[t].row.id = t
    OBVIOUS
  <2> DEFINE mine == {i \in DOMAIN ReadRows : ReadRows[i].user = task[t].user}
             row == [id |-> IF mine = {} THEN t ELSE ReadRows[Min(mine)].id, user |-> NoOne]
  <2>1. task[t].pc = "looking" /\ task[t] \in Requests /\ task \in [Tasks -> Requests]
    BY DEF LookForOwn, TableInv, RequestsTyped
  <2>2. task[t].user # NoOne
    BY <2>1, TableAssumption DEF OwnerInv
  <2>3. mine = {}
    BY <2>2 DEF OwnerInv, Ownerless
  <2>4. row.id = t
    BY <2>3
  <2>5. task' = [task EXCEPT ![t].pc = "waiting", ![t].row = row]
    BY DEF LookForOwn
  <2> HIDE DEF row
  <2>6. task'[t].row = row
    BY <2>1, <2>5 DEF Requests
  <2> QED
    BY <2>4, <2>6
<1> QED
  BY <1>1, <1>2, <1>3, TableInvAlways, PTL DEF TableSpec, SyncInserts
=============================================================================
