---------------------------- MODULE LocalTable -----------------------------
(***************************************************************************)
(* One JSON table of services/localstore.mjs: requests append, upsert and  *)
(* remove rows under the table's lock, each with a read and a write of the *)
(* whole file; list requests and syncSubscription (services/billing.mjs)   *)
(* read it without the lock.  A write truncates the file and then fills    *)
(* it, may fail, and the process may die in between.                       *)
(***************************************************************************)
EXTENDS Integers, Sequences, FiniteSetsExt, SequencesExt

CONSTANTS
  Tasks,     \* requests; a task also names the random id its row may get
  Users,
  Kinds,     \* what requests do: "append", "upsert", "remove", "sync"
  Fails,     \* whether a write may fail: a set of BOOLEAN
  MaxDeaths, \* bound on restarts
  Torn,      \* a file whose text does not parse
  NoOne      \* a free lock; the owner of a row without a user_id

Owners == Users \cup {NoOne}

ASSUME TableAssumption ==
  /\ Kinds \subseteq {"append", "upsert", "remove", "sync"}
  /\ Fails \subseteq BOOLEAN /\ MaxDeaths \in Nat
  /\ NoOne \notin Tasks /\ NoOne \notin Users
  /\ Torn \notin Seq([id : Tasks, user : Owners])

VARIABLES
  file,     \* the table's file: a sequence of rows, or Torn
  lock,     \* the holder in `locks`
  task,     \* the requests
  damaged,  \* history: a write has failed or was cut off
  deaths

tvars == <<file, lock, task, damaged, deaths>>

NoRow == [id |-> NoOne, user |-> NoOne]
Idle  == [pc |-> "idle", kind |-> "none", user |-> NoOne, row |-> NoRow, next |-> <<>>]

TableInit ==
  /\ file = <<>> /\ lock = NoOne
  /\ task = [t \in Tasks |-> Idle]
  /\ damaged = FALSE /\ deaths = 0

\* readRows: what cannot be read or parsed is an empty table.
ReadRows == IF file = Torn THEN <<>> ELSE file

\* The rows of the table: those being written, once a write has begun.
TableRows ==
  IF \E t \in Tasks : task[t].pc = "flushing"
  THEN task[CHOOSE t \in Tasks : task[t].pc = "flushing"].next
  ELSE ReadRows

Promise == INSTANCE TablePromise WITH Ids <- Tasks, rows <- TableRows

Goes(t, pc) == task' = [task EXCEPT ![t].pc = pc]
Answers(t)  == task' = [task EXCEPT ![t].pc = "answered", ![t].next = <<>>]

-----------------------------------------------------------------------------
\* A user's request names a row, its own new one or that of another request.  The
\* body of an append is spread over its id and its user_id, so it may name any
\* owner or none; an upsert is the caller's; a sync names no row.
Call(t, kind, user, id, owner) ==
  /\ task[t].pc = "idle"
  /\ kind # "append" => owner = user
  /\ kind = "sync" => id = t
  /\ task' = [task EXCEPT ![t] =
       [@ EXCEPT !.pc = IF kind \in {"sync", "remove"} THEN "looking" ELSE "waiting",
                 !.kind = kind, !.user = user, !.row = [id |-> id, user |-> owner]]]
  /\ UNCHANGED <<file, lock, damaged, deaths>>

\* syncSubscription looks its user's row up, outside the lock.  The row it will
\* write has no owner: upsertRow is called without a userId and sets user_id to
\* null, so a later sync does not find it.
LookForOwn(t) ==
  LET mine == {i \in DOMAIN ReadRows : ReadRows[i].user = task[t].user}
  IN  /\ task[t].pc = "looking" /\ task[t].kind = "sync"
      /\ task' = [task EXCEPT ![t].pc = "waiting",
            ![t].row = [id |-> IF mine = {} THEN t ELSE ReadRows[Min(mine)].id,
                        user |-> NoOne]]
      /\ UNCHANGED <<file, lock, damaged, deaths>>

\* A removal is answered at once, outside the lock, when it sees no such row or
\* the first one is another user's; a row without an owner is anybody's.
LookForRow(t) ==
  LET named == {i \in DOMAIN ReadRows : ReadRows[i].id = task[t].row.id}
  IN  /\ task[t].pc = "looking" /\ task[t].kind = "remove"
      /\ Goes(t, IF named # {} /\ ReadRows[Min(named)].user \in {task[t].user, NoOne}
                 THEN "waiting" ELSE "answered")
      /\ UNCHANGED <<file, lock, damaged, deaths>>

\* A slip: nobody waits for the lock.
AcquireUnlocked(t) ==
  /\ task[t].pc = "waiting"
  /\ lock' = t
  /\ Goes(t, "reading")
  /\ UNCHANGED <<file, damaged, deaths>>

\* withLock: the table is free.
Acquire(t) ==
  /\ task[t].pc = "waiting" /\ lock = NoOne
  /\ lock' = t
  /\ Goes(t, "reading")
  /\ UNCHANGED <<file, damaged, deaths>>

Changed(rs, k) ==
  CASE k.kind = "append" -> Promise!Appended(rs, k.row)
    [] k.kind = "remove" -> Promise!Removed(rs, k.row.id)
    [] OTHER -> Promise!Upserted(rs, k.row)

\* The rows are read and changed; a removal that finds nothing is answered.
Read(t) ==
  LET next == Changed(ReadRows, task[t])
      void == task[t].kind = "remove" /\ Len(next) = Len(ReadRows)
  IN  /\ task[t].pc = "reading"
      /\ task' = [task EXCEPT ![t].pc = IF void THEN "answered" ELSE "writing",
                              ![t].next = IF void THEN <<>> ELSE next]
      /\ lock' = IF void THEN NoOne ELSE lock
      /\ UNCHANGED <<file, damaged, deaths>>

\* writeFile truncates the file ...
Truncate(t) ==
  /\ task[t].pc = "writing"
  /\ file' = Torn
  /\ Goes(t, "flushing")
  /\ UNCHANGED <<lock, damaged, deaths>>

\* ... and fills it; the request is answered and the lock released.
Fill(t) ==
  /\ task[t].pc = "flushing"
  /\ file' = task[t].next
  /\ lock' = NoOne
  /\ Answers(t)
  /\ UNCHANGED <<damaged, deaths>>

\* A slip: the lock is released on success only.
WriteFailsHeld(t) ==
  /\ TRUE \in Fails
  /\ task[t].pc \in {"writing", "flushing"}
  /\ damaged' = TRUE
  /\ Answers(t)
  /\ UNCHANGED <<file, lock, deaths>>

\* writeRows fails, before or after the truncation, and says so to the log
\* only: the request is answered as if the row were stored.
WriteFails(t) ==
  /\ TRUE \in Fails
  /\ task[t].pc \in {"writing", "flushing"}
  /\ damaged' = TRUE
  /\ lock' = NoOne
  /\ Answers(t)
  /\ UNCHANGED <<file, deaths>>

\* The process dies; requests under way are gone.  A death of an idle process
\* changes nothing here.
Die ==
  /\ deaths < MaxDeaths
  /\ \E t \in Tasks : task[t].pc \notin {"idle", "answered", "dead"}
  /\ deaths' = deaths + 1
  /\ damaged' = (damaged \/ file = Torn)
  /\ lock' = NoOne
  /\ task' = [t \in Tasks |->
       IF task[t].pc \in {"idle", "answered"} THEN task[t]
       ELSE [task[t] EXCEPT !.pc = "dead", !.next = <<>>]]
  /\ UNCHANGED file

Turn(t) ==
  LookForOwn(t) \/ LookForRow(t) \/ Acquire(t) \/ Read(t) \/ Truncate(t) \/ Fill(t) \/ WriteFails(t)

TableNext ==
  \/ \E t, id \in Tasks, kind \in Kinds, user \in Users, owner \in Owners :
       Call(t, kind, user, id, owner)
  \/ \E t \in Tasks : Turn(t)
  \/ Die

TableSpec == TableInit /\ [][TableNext]_tvars

\* File operations end and waiting requests are woken.
FairTable == TableSpec /\ \A t \in Tasks : WF_tvars(Turn(t))

-----------------------------------------------------------------------------
\* The table, its lock and its requests.
TableTypeOK ==
  /\ file \in Seq(Promise!Rows) \cup {Torn}
  /\ lock \in Tasks \cup {NoOne}
  /\ \A t \in Tasks : task[t].pc \in {"reading", "writing", "flushing"} => lock = t
  /\ \A t \in Tasks : task[t].next \in Seq(Promise!Rows)
  /\ damaged \in BOOLEAN /\ deaths \in 0..MaxDeaths

\* A table changes by whole operations applied to all of its rows ("prevents
\* concurrent JSON writes from clobbering data"), and is lost, as a whole, only
\* once a write has failed or was cut off.
TableKept == Promise!TableSpec

\* As long as no write failed or was cut off, the row of an answered request is
\* in the table unless somebody asked for its removal.
AnsweredStays ==
  \A t \in Tasks :
    task[t].pc = "answered" /\ task[t].kind # "remove" /\ ~damaged =>
      \/ \E i \in DOMAIN TableRows : TableRows[i].id = task[t].row.id
      \/ \E u \in Tasks : task[u].kind = "remove" /\ task[u].row.id = task[t].row.id

\* Every request is answered, through failing writes and under the lock, unless
\* the process dies.
EveryRequestAnswered ==
  \A t \in Tasks : task[t].pc # "idle" ~> task[t].pc \in {"answered", "dead"}
=============================================================================
