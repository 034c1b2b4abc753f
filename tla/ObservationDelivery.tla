------------------------ MODULE ObservationDelivery ------------------------
(* What the relay promises about validated observations: each one is         *)
(* reported confirmed only when its commitment is on chain, a report is      *)
(* never taken back, and every observation is eventually reported on.        *)
EXTENDS Naturals

CONSTANT Jobs

VARIABLES
    onChain,    \* jobs whose matching commitment is finalized
    outcome     \* "open", "confirmed" or "failed", by job

Outcomes == {"open", "confirmed", "failed"}

Init ==
    /\ onChain = {}
    /\ outcome = [j \in Jobs |-> "open"]

\* The cluster finalizes commitments, this relay's or another one's.
Finalize ==
    /\ onChain' \in SUBSET Jobs /\ onChain \subseteq onChain'
    /\ UNCHANGED outcome

Confirm(j) ==
    /\ outcome[j] = "open" /\ j \in onChain
    /\ outcome' = [outcome EXCEPT ![j] = "confirmed"]
    /\ UNCHANGED onChain

Fail(j) ==
    /\ outcome[j] = "open"
    /\ outcome' = [outcome EXCEPT ![j] = "failed"]
    /\ UNCHANGED onChain

Settle(j) == Confirm(j) \/ Fail(j)

Next == Finalize \/ \E j \in Jobs : Settle(j)

Safety == Init /\ [][Next]_<<onChain, outcome>>

Spec == Safety /\ \A j \in Jobs : WF_<<onChain, outcome>>(Settle(j))
=============================================================================
