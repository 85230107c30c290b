\* Appends, upserts, removals and subscription syncs that overlap, writes that
\* fail, and one death of the process.
SPECIFICATION FairTable
CHECK_DEADLOCK FALSE
CONSTANTS
  Tasks = {t1, t2, t3}
  Users = {u1}
  Kinds = {"append", "upsert", "remove", "sync"}
  Fails = {TRUE}
  MaxDeaths = 1
  Torn = Torn
  NoOne = NoOne
INVARIANTS
  TableTypeOK
  AnsweredStays
PROPERTY
  TableKept
  EveryRequestAnswered
