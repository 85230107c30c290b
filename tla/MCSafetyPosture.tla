-------------------------- MODULE MCSafetyPosture --------------------------
(* The posture on its own: one site beside the global scope, two UTC days,  *)
(* two restarts, every order of mutations and every place a turn can throw. *)
EXTENDS SafetyPosture
=============================================================================
