------------------------- MODULE MCVenueLifecycle --------------------------
(* Walks on one venue that buy or sell, change, cancel and close. *)
EXTENDS VenueLifecycle

MCLegSets == {{"place", "amend", "cancel", "close"}}
=============================================================================
