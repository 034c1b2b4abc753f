------------------------- MODULE MCPathnodProgram -------------------------
(* Instances of PathnodProgram for TLC.                                     *)
EXTENDS DeviceEligibility

MCClassOf == [o \in Observers |-> 1]
MCMembersOf == [r \in Roots |-> Observers]

\* The confidence instance: the roots are alike, so the first one
\* published is always the same, and the ring turns over before anything is
\* evaluated, with one observation at most.
Focused ==
    /\ published # <<>> => published[1] = CHOOSE r \in Roots : TRUE
    /\ Len(published) > 1 => computed = {} /\ Cardinality(signed) <= 1 /\ now = 1
=============================================================================
