----------------------- MODULE MCChallengeController -----------------------
(* Instances of ChallengeController for TLC. *)
EXTENDS ChallengeController
=============================================================================
