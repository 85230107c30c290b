-------------------------- MODULE MCEquityBaseline --------------------------
(* One exchange with long histories: two rails and the sweep. *)
EXTENDS EquityBaseline

CONSTANT e1

MCSweepOne == <<e1>>
=============================================================================
