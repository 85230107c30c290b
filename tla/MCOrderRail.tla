---------------------------- MODULE MCOrderRail ----------------------------
(* Small instances of the order rail. *)
EXTENDS OrderRail, TLC

\* Orders and clicks are interchangeable.
Symmetry == Permutations(Orders) \cup Permutations(Clicks)
=============================================================================
