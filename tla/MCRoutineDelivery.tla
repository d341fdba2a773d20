------------------------- MODULE MCRoutineDelivery -------------------------
(***************************************************************************)
(* Instances of RoutineDelivery for TLC.                                   *)
(***************************************************************************)
EXTENDS RoutineDelivery

=============================================================================
