------------------------- MODULE MCObservationRelay -------------------------
(* Instances of ObservationRelay for TLC. *)
EXTENDS ObservationRelay
=============================================================================
