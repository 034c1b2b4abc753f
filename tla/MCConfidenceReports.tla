----------------------- MODULE MCConfidenceReports -----------------------
(***************************************************************************)
(* Confidence reports: how they are published, and the score they carry,   *)
(* over the observations it is computed from.  The publication treats a    *)
(* score as a value, so one of the two moves in each behaviour.            *)
(***************************************************************************)
EXTENDS Integers, TLC

CONSTANTS
    NoReport, Transcripts, Depth, Directories, Validity, Historical, MaxCommands, MaxEvents, MaxAside,   \* ConfidencePublication
    Observers, Slots, TargetSlot, Threshold, DeployerWeight, Places, Profiles, Entropies                       \* ConfidenceScore

VARIABLES
    side,                                                                  \* the one that moves
    tree, history, confidence, policy, others, height, transaction, inputs, row, lock, computed, journal, command,
    commands,                                                              \* ConfidencePublication
    observed                                                               \* ConfidenceScore

reportVars == <<tree, history, confidence, policy, others, height, transaction, inputs, row, lock, computed, journal,
                command, commands>>

Reports == INSTANCE ConfidencePublication WITH leaves <- history, None <- NoReport
Scoring == INSTANCE ConfidenceScore WITH history <- observed

ASSUME ReportsAssumption == Reports!PublicationConstants /\ Scoring!ScoreConstants

ReportsInit ==
    /\ side \in {"publication", "score"}
    /\ Reports!Init /\ Scoring!Init

ReportsNext ==
    \/ side = "publication" /\ Reports!Next /\ UNCHANGED <<side, observed>>
    \/ side = "score" /\ Scoring!Next /\ UNCHANGED <<side, reportVars>>

ReportsSpec == ReportsInit /\ [][ReportsNext]_<<side, reportVars, observed>>

\* An observation of the target: sound, poor but in agreement, somewhere else,
\* and without a place.
MCProfiles ==
    {[class |-> 1, reenrolled |-> 0, age |-> 0, place |-> "a", accuracy |-> 10, evidence |-> "wifi"],
     [class |-> 3, reenrolled |-> 3, age |-> 5, place |-> "a", accuracy |-> 400, evidence |-> "present"],
     [class |-> 2, reenrolled |-> -1, age |-> 1, place |-> "b", accuracy |-> 10, evidence |-> "none"],
     [class |-> 1, reenrolled |-> 0, age |-> 3, place |-> "a", accuracy |-> 0, evidence |-> "wifi"]}

\* The instance for TLC: an event aside takes the place of two on the chain.
Paired == Reports!Aside > 0 => Reports!Events < MaxEvents

ReportsSymmetry == Permutations(Directories)

\* The frontier's root is the complete tree's, and reports list the epoch in
\* the order of the tree (ConfidencePublication).
TreeSound == Reports!TreeSound

\* Journals, the database row and the chain agree (ConfidencePublication).
JournalSound == Reports!JournalSound

\* Copies add nothing to a score but what they change of the group's behaviour
\* (ConfidenceScore).
ScoreSound == side = "score" => Scoring!ScoreSound
==========================================================================
