---------------------------- MODULE MCPerpsRail ----------------------------
(* Small instances of the perps rail: every proposal is for the first pair. *)
EXTENDS PerpsRail

CONSTANTS s1, s2

MCPairOf == [p \in Proposals |-> s1]

\* An order by hand is of the proposal's pair (carrier B) or of the other one.
MCHandMade == {<<2, s1, TRUE>>, <<2, s2, TRUE>>}
=============================================================================
