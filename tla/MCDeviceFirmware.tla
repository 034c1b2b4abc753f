-------------------------- MODULE MCDeviceFirmware --------------------------
(* Instances of DeviceFirmware for TLC. *)
EXTENDS DeviceFirmware, TLC

NonceSymmetry == Permutations(Nonces)
=============================================================================
