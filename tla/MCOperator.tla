----------------------------- MODULE MCOperator -----------------------------
(***************************************************************************)
(* What the operator runs against the cluster: the setup script, the       *)
(* service's publisher of observer roots and the gate 2 commands.  Each    *)
(* keeps its own journal and they share no state, so one of them moves in  *)
(* each behaviour.                                                         *)
(***************************************************************************)
EXTENDS RootPublication

CONSTANTS Before, After, Hashes, MaxSigned, MaxChanges

VARIABLES
    process,                                                             \* the one that moves
    dFolder, dState, dReport, dProc, dChain, dSource, dSigned, dFaults,  \* DemoBootstrap
    gLock, gJournal, gRows, gEvidence, gProc, gFate, gBooks, gShared, gLanded, gFaults   \* Gate2Replay

setupVars == <<dFolder, dState, dReport, dProc, dChain, dSource, dSigned, dFaults>>
gate2Vars == <<gLock, gJournal, gRows, gEvidence, gProc, gFate, gBooks, gShared, gLanded, gFaults>>
allVars == <<process, vars, setupVars, gate2Vars>>

MCBefore == <<"payments", "protocol">>
MCAfter == <<"root", "lookup_extend">>

Setup == INSTANCE DemoBootstrap WITH
    folder <- dFolder, state <- dState, report <- dReport, proc <- dProc, chain <- dChain, source <- dSource,
    signed <- dSigned, faults <- dFaults

Gate2 == INSTANCE Gate2Replay WITH
    lock <- gLock, journal <- gJournal, rows <- gRows, evidence <- gEvidence, proc <- gProc, fate <- gFate,
    books <- gBooks, shared <- gShared, landed <- gLanded, faults <- gFaults

ASSUME OperatorAssumption == Setup!BootstrapConstants /\ Gate2!Gate2Constants

OperatorInit ==
    /\ process \in {"roots", "setup", "gate2"}
    /\ Init /\ Setup!Init /\ Gate2!Init
    /\ process # "setup" => dFolder.manifest = 0

Roots(A) == process = "roots" /\ A /\ UNCHANGED <<process, setupVars, gate2Vars>>
Script(A) == process = "setup" /\ A /\ UNCHANGED <<process, vars, gate2Vars>>
Replay(A) == process = "gate2" /\ A /\ UNCHANGED <<process, vars, setupVars>>

OperatorNext == Roots(Next) \/ Script(Setup!Next) \/ Replay(Gate2!Next)

\* The fairness of the two modules, for the process that moves.
OperatorFairness ==
    /\ WF_allVars(Roots(Publish)) /\ WF_allVars(Roots(Network))
    /\ WF_allVars(Roots(DelayPasses)) /\ WF_allVars(Roots(RetryPasses))
    /\ WF_allVars(Script(Setup!Prepare)) /\ WF_allVars(Script(Setup!RemoveLock))
    /\ SF_allVars(Script(Setup!ImportEnrollment)) /\ SF_allVars(Script(Setup!Run))
    /\ WF_allVars(Script(Setup!Script)) /\ WF_allVars(Script(Setup!Cluster))

OperatorSpec == OperatorInit /\ [][OperatorNext]_allVars /\ OperatorFairness

\* One transaction is signed for each step, and complete means complete (DemoBootstrap).
SetupSound == Setup!SetupSound

\* A setup that loses no report completes or stops for an inspection (DemoBootstrap).
SetupResolved == process = "setup" => Setup!SetupResolved

\* A rejected duplicate was really rejected (Gate2Replay).
RejectionReal == Gate2!RejectionReal
=============================================================================
