---------------------------- MODULE MCPhoneFiles ----------------------------
(***************************************************************************)
(* The two files the phone recovers from, the outbox and the pending       *)
(* withdrawal.  They share no state (the withdrawal's App Attest assertion *)
(* is the outbox's AssertElsewhere), so one of them moves in each          *)
(* behaviour.                                                              *)
(***************************************************************************)
EXTENDS Integers, FiniteSets, TLC

CONSTANTS
    Nothing,                                                                   \* nil
    Hashes, Endpoints, Submitters, MaxPending, MaxReceived,                    \* ObservationOutbox
    MaxAssertions, MaxElsewhere,
    Screens, Lifetime, MaxTx, MaxHeight, MaxCredits                            \* PayoutRecovery

VARIABLES
    part,                                                                      \* the part of the app that moves
    file, models, wire, service, apple, elsewhere, overlapped,                 \* ObservationOutbox
    saved, op, txs, fate, chain, overlap, told                                 \* PayoutRecovery

outboxVars == <<file, models, wire, service, apple, elsewhere, overlapped>>
payoutVars == <<saved, op, txs, fate, chain, overlap, told>>
phoneVars == <<part, outboxVars, payoutVars>>

Outbox == INSTANCE ObservationOutbox WITH None <- Nothing, Screens <- Submitters
Payouts == INSTANCE PayoutRecovery WITH NoTx <- Nothing, file <- saved

ASSUME PhoneAssumption == Outbox!OutboxConstants /\ Payouts!PayoutConstants

PhoneInit ==
    /\ part \in {"outbox", "earnings"}
    /\ Outbox!Init /\ Payouts!Init
    /\ part = "outbox" => txs = <<>>

PhoneNext ==
    \/ part = "outbox" /\ Outbox!Next /\ UNCHANGED <<part, payoutVars>>
    \/ part = "earnings" /\ Payouts!Next /\ UNCHANGED <<part, outboxVars>>

PhoneSpec == PhoneInit /\ [][PhoneNext]_phoneVars

\* The instance for TLC: two screens are at work for one of the services, or one
\* screen for all of them.  Both parts have the same two screens.
Used(e) ==
    \/ service[e].counter > 0
    \/ \E s \in Submitters : models[s].endpoint = e
    \/ \E i \in DOMAIN file.pending : file.pending[i].endpoint = e
Bounded ==
    \/ \A e \in Endpoints : Used(e) => e = CHOOSE f \in Endpoints : TRUE
    \/ Cardinality({s \in Submitters : models[s] # Outbox!Idle} \cup {r.from : r \in wire}) <= 1

PhoneSymmetry == Permutations(Hashes) \cup Permutations(Screens)

\* Every file the outbox writes can be read again, and no assertion overtakes one
\* that waits unless two screens were at work or another one asserted
\* (ObservationOutbox).
OutboxConsistent == Outbox!OutboxConsistent

\* An observation leaves the queue only after its service has it (ObservationOutbox).
NothingDropped == Outbox!NothingDropped

\* Every signed withdrawal that can still pay is in the file, and what the
\* screen says of a saved withdrawal is true (PayoutRecovery).
WithdrawalTracked == Payouts!WithdrawalTracked
=============================================================================
