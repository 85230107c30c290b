--------------------------- MODULE MCLocalTable ----------------------------
(* Three requests of every kind on one table, by one user. *)
EXTENDS LocalTable
=============================================================================
