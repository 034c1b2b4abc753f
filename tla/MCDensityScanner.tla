-------------------------- MODULE MCDensityScanner --------------------------
(***************************************************************************)
(* Four rules: two categories in conflict at one priority, two rules of    *)
(* one category that only confidence separates, and one of a higher        *)
(* priority that settles a conflict.                                       *)
(***************************************************************************)
EXTENDS DensityScanner, TLC

MCCategory   == <<"helium", "helium", "wifi", "ev">>
MCConfidence == <<0, 1, 0, 0>>
MCPriority   == <<1, 1, 1, 2>>

PeripheralSymmetry == Permutations(Peripherals)
=============================================================================
