------------------------ MODULE MCObserverEnrollment ------------------------
(* Instances of ObserverEnrollment for TLC. *)
EXTENDS ObserverEnrollment, TLC

Identities == Permutations(Keys) \cup Permutations(Commitments)
=============================================================================
