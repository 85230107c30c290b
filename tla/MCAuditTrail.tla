---------------------------- MODULE MCAuditTrail ----------------------------
(* Small instances of the audit trail. *)
EXTENDS AuditTrail

\* Hashes are only compared.
Symmetry == Permutations(Hashes)
=============================================================================
