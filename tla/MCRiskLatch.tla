---------------------------- MODULE MCRiskLatch ----------------------------
(* Two exchanges and the perps wallet; a peak of 300 falls through the step *)
(* zone and the hard stop in steps of one venue.                            *)
EXTENDS RiskLatch, FiniteSetsExt, TLC

MCUsd == {80, 100}
MCSumOf(f, S) == MapThenSumSet(LAMBDA v : f[v], S)
Symmetry == Permutations(Spots)
=============================================================================
