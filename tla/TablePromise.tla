--------------------------- MODULE TablePromise ----------------------------
(***************************************************************************)
(* What a table of the local data store promises: it changes by one whole  *)
(* append, upsert or removal at a time, applied to all the rows there are; *)
(* it is lost, as a whole, only once a write has failed or was cut off.    *)
(***************************************************************************)
EXTENDS Integers, Sequences, SequencesExt

CONSTANTS
  Ids,    \* row ids
  Owners  \* owners of rows, and what stands for none

VARIABLES
  rows,
  damaged  \* a write has failed or was cut off

Rows == [id : Ids, user : Owners]

Appended(rs, row) == Append(rs, row)

Upserted(rs, row) ==
  IF \E i \in DOMAIN rs : rs[i].id = row.id
  THEN ReplaceAt(rs, SelectInSeq(rs, LAMBDA r : r.id = row.id), row)
  ELSE Append(rs, row)

\* rows.filter: row by row, those with another id are kept.
Removed(rs, id) ==
  LET kept[n \in 0 .. Len(rs)] ==
        IF n = 0 THEN <<>>
        ELSE IF rs[n].id = id THEN kept[n - 1]
        ELSE Append(kept[n - 1], rs[n])
  IN  kept[Len(rs)]

TableInit == rows = <<>> /\ damaged = FALSE

TableNext ==
  \/ /\ \/ \E row \in Rows : rows' \in {Appended(rows, row), Upserted(rows, row)}
        \/ \E id \in Ids : rows' = Removed(rows, id)
     /\ UNCHANGED damaged
  \/ rows' \in {rows, <<>>} /\ damaged' = TRUE

TableSpec == TableInit /\ [][TableNext]_<<rows, damaged>>
=============================================================================
