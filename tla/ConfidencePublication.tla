----------------------- MODULE ConfidencePublication -----------------------
(***************************************************************************)
(* The operator's confidence command (verifier/scripts/dev39-confidence.ts *)
(* with confidence-chain.ts and confidence-recovery.ts) for one device     *)
(* epoch: it reads the finalized observations, puts them in tree order,    *)
(* computes a report, journals a signed transaction before sending it, and *)
(* recovers that journal whenever it is run again.  Every run directory    *)
(* has a lock, a computed report and a journal of its own; they share the  *)
(* database and the chain, whose tree grows by module EpochTree.           *)
(*                                                                         *)
(* A command's step runs from one await to the next.  The score is a       *)
(* function of the report's scope and history, so a report stands for its  *)
(* hash.  A transaction takes effect when its block is finalized; until    *)
(* then the cluster may show it as processed and forget it again.          *)
(***************************************************************************)
EXTENDS EpochTree, FiniteSets, TLC

CONSTANTS
    Directories,    \* run directories
    None,           \* no file, no row, the zero commitment
    Validity,       \* block heights a blockhash lives
    Historical,     \* observations from before inputs were sealed
    MaxCommands, MaxEvents, MaxAside   \* bounds of the model

PublicationConstants ==
    /\ TreeConstants
    /\ None \notin Directories
    /\ Transcripts = 1 .. Cardinality(Transcripts)   \* numbered as they are finalized
    /\ Validity \in Nat \ {0} /\ Historical \in Nat /\ MaxCommands \in Nat /\ MaxEvents \in Nat /\ MaxAside \in Nat

VARIABLES
    confidence,     \* DeviceEpoch.confidence_commitment
    policy,         \* ProtocolConfig.policy_version
    others,         \* observations of other devices and epochs, which the score reads too
    height,         \* finalized block height, also the clock of the commands
    transaction,    \* what the cluster knows of each journal's transaction
    inputs,         \* confidence_inputs_v0: transcripts whose sealed input is stored
    row,            \* confidence_reports_v0
    lock,           \* run.lock
    computed,       \* computed.json
    journal,        \* publication.json
    command,        \* the command running in each directory
    commands        \* how many there have been

chainVars == <<treeVars, confidence, policy, others, height>>
fileVars == <<lock, computed, journal>>
vars == <<chainVars, transaction, inputs, row, fileVars, command, commands>>

Actions == {"compute", "publish", "status"}   \* report behaves as status
Points == {"idle", "commitments", "accounts", "blockhash", "inspect", "height", "send", "poll", "verify", "record"}
Landing == {"unsent", "sent", "processed", "finalized", "failed"}

NoJournal == [report |-> None, previous |-> None, last |-> 0, state |-> "none"]
NoCommand == [pc |-> "idle", action |-> None, known |-> {}, seen |-> 0, others |-> 0, report |-> None, existing |-> None]

IsReport(r) == r.order \in Seq(Transcripts) /\ r.policy \in Nat /\ r.others \in Nat /\ r.at \in Nat

IsJournal(j) ==
    /\ IsReport(j.report) /\ (j.previous = None \/ IsReport(j.previous)) /\ j.last \in Nat
    /\ j.state \in {"prepared", "submitted", "confirmed"}

TypeOK ==
    /\ confidence = None \/ IsReport(confidence)
    /\ policy \in Nat /\ others \in Nat /\ height \in Nat /\ commands \in 0 .. MaxCommands
    /\ transaction \in [Directories -> Landing]
    /\ inputs \subseteq Transcripts
    /\ row = None \/ (IsReport(row.report) /\ row.by \in Directories)
    /\ lock \in [Directories -> BOOLEAN]
    /\ \A d \in Directories :
        /\ computed[d] = None \/ IsReport(computed[d])
        /\ journal[d] = NoJournal \/ IsJournal(journal[d])
        /\ command[d].pc \in Points /\ command[d].action \in Actions \cup {None}
        /\ command[d].known \subseteq Transcripts /\ command[d].seen \in 0 .. MaxCount

Init ==
    /\ TreeInit
    /\ confidence = None /\ policy = 1 /\ others = 0 /\ height = 0
    /\ transaction = [d \in Directories |-> "unsent"]
    /\ inputs = {} /\ row = None
    /\ lock = [d \in Directories |-> FALSE]
    /\ computed = [d \in Directories |-> None]
    /\ journal = [d \in Directories |-> NoJournal]
    /\ command = [d \in Directories |-> NoCommand]
    /\ commands = 0

Journaled(d) == journal[d].state # "none"

-----------------------------------------------------------------------------
(* A command begins and ends. *)

\* Nothing the command read before is read again.
Goto(d, pc) == command' = [command EXCEPT ![d] = [NoCommand EXCEPT !.pc = pc]]

\* The lock and the inputs of the database; another command in the directory,
\* or one that died, leaves the lock where it is and this one fails.
Start(d, action) ==
    /\ ~lock[d] /\ commands < MaxCommands
    /\ commands' = commands + 1
    /\ lock' = [lock EXCEPT ![d] = TRUE]
    /\ command' = [command EXCEPT ![d] = [NoCommand EXCEPT !.pc = "commitments", !.action = action, !.known = inputs]]
    /\ UNCHANGED <<chainVars, transaction, inputs, row, computed, journal>>

\* finally: an assertion, an RPC error or the end of the command
Finish(d) ==
    /\ lock' = [lock EXCEPT ![d] = FALSE]
    /\ command' = [command EXCEPT ![d] = NoCommand]

\* The process dies and the lock stays.
Crash(d) ==
    /\ command[d].pc # "idle"
    /\ command' = [command EXCEPT ![d] = NoCommand]
    /\ UNCHANGED <<chainVars, transaction, inputs, row, fileVars, commands>>

\* The operator deletes the lock of a dead command.
RemoveLock(d) ==
    /\ lock[d] /\ command[d].pc = "idle"
    /\ lock' = [lock EXCEPT ![d] = FALSE]
    /\ UNCHANGED <<chainVars, transaction, inputs, row, computed, journal, command, commands>>

CallFails(d) ==
    /\ command[d].pc # "idle"
    /\ Finish(d)
    /\ UNCHANGED <<chainVars, transaction, inputs, row, computed, journal, commands>>

\* The import action: an input of a validated observation is stored.
Import(d, t) ==
    /\ ~lock[d] /\ t \in Range(leaves) \ inputs
    /\ inputs' = inputs \cup {t}
    /\ UNCHANGED <<chainVars, transaction, row, fileVars, command, commands>>

-----------------------------------------------------------------------------
(* readConfidenceSnapshot: two reads of the finalized chain. *)

ReadCommitments(d) ==
    /\ command[d].pc = "commitments"
    /\ command' = [command EXCEPT ![d].pc = "accounts", ![d].seen = Len(leaves), ![d].others = others]
    /\ UNCHANGED <<chainVars, transaction, inputs, row, fileVars, commands>>

Target(d) == Range(SubSeq(leaves, 1, command[d].seen))

\* The tree rebuilt from an order, leaf by leaf.
Rebuilt(order) ==
    LET after[n \in 0 .. Len(order)] == IF n = 0 THEN EmptyTree ELSE Appended(order[n], after[n - 1]) IN after

Recomputed(order) == Rebuilt(order)[Len(order)]

ComputableInAnyOrder(d, order) ==
    /\ command[d].seen > 0 /\ Target(d) \subseteq command[d].known
    /\ command[d].seen = tree.count
    /\ Len(order) = Cardinality(Target(d)) /\ Range(order) = Target(d)

\* Every commitment has its input, the epoch has not grown since the first
\* read, and the order holds exactly its transcripts and gives its root.
Computable(d, order) ==
    /\ command[d].seen > 0 /\ Target(d) \subseteq command[d].known
    /\ command[d].seen = tree.count
    /\ Len(order) = Cardinality(Target(d)) /\ Range(order) = Target(d)
    /\ Recomputed(order).root = tree.root

\* A journal or a computed report fixes the order and the evaluation time;
\* else the order is by submitted_at, which leaves ties in any order, or the
\* one the configuration gives.
Earlier(d) == IF Journaled(d) THEN journal[d].report
              ELSE IF command[d].action # "compute" THEN computed[d] ELSE None
Orders(d) == IF Earlier(d) # None THEN {Earlier(d).order} ELSE SetToSeqs(Target(d))
EvaluationTime(d) == IF Earlier(d) # None THEN Earlier(d).at ELSE height

\* computeConfidence
ReportOf(d, order) ==
    [order |-> order, root |-> tree.root, policy |-> policy, others |-> command[d].others, at |-> EvaluationTime(d)]

\* What main does with the snapshot; the report must be the earlier one again.
ReadAccounts(d) ==
    /\ command[d].pc = "accounts"
    /\ \E order \in Orders(d) :
        LET report == ReportOf(d, order)
            good == Computable(d, order) /\ Earlier(d) \in {None, report}
            next == IF Journaled(d) THEN "inspect" ELSE "blockhash"
        IN
        \/ /\ good /\ command[d].action = "compute" /\ ~Journaled(d)
           /\ computed' = [computed EXCEPT ![d] = report]
           /\ Finish(d)
        \/ /\ good /\ (command[d].action = "publish" \/ (command[d].action = "status" /\ Journaled(d)))
           /\ command' = [command EXCEPT ![d] = [NoCommand EXCEPT !.pc = next, !.action = command[d].action, !.existing = confidence,
                               !.report = IF Journaled(d) THEN None ELSE report]]
           /\ UNCHANGED <<lock, computed, commands>>
        \/ /\ ~good \/ (command[d].action = "compute" /\ Journaled(d)) \/ (command[d].action = "status" /\ ~Journaled(d))
           /\ Finish(d)
           /\ UNCHANGED computed
    /\ UNCHANGED <<chainVars, transaction, inputs, row, journal, commands>>

\* The transaction is signed over a recent blockhash and saved before it is sent.
Prepare(d) ==
    /\ command[d].pc = "blockhash"
    /\ journal' = [journal EXCEPT ![d] = [report |-> command[d].report, previous |-> command[d].existing,
                                          last |-> height + Validity, state |-> "prepared"]]
    /\ command' = [command EXCEPT ![d].pc = "inspect", ![d].report = None]
    /\ UNCHANGED <<chainVars, transaction, inputs, row, lock, computed, commands>>

-----------------------------------------------------------------------------
(* recoverConfidencePublication *)

\* getSignatureStatuses: what was only sent is not known yet.
Known(d) == transaction[d] \in {"processed", "finalized", "failed"}

MaySend(d) == command[d].action = "publish" /\ command[d].existing = journal[d].previous

\* An unknown transaction is sent again by publish if nothing replaced what it
\* replaces; one whose hash is on chain already is only waited for.
Inspect(d) ==
    LET missing == ~Known(d) /\ command[d].existing # journal[d].report IN
    /\ command[d].pc = "inspect"
    /\ \/ ~missing /\ Goto(d, "poll") /\ UNCHANGED lock
       \/ missing /\ MaySend(d) /\ Goto(d, "height") /\ UNCHANGED lock
       \/ missing /\ ~MaySend(d) /\ Finish(d)
    /\ UNCHANGED <<chainVars, transaction, inputs, row, computed, journal, commands>>

\* An expired one is left for the operator, with its journal.
CheckHeight(d) ==
    /\ command[d].pc = "height"
    /\ IF height <= journal[d].last
       THEN /\ journal' = [journal EXCEPT ![d].state = "submitted"]
            /\ Goto(d, "send") /\ UNCHANGED lock
       ELSE Finish(d) /\ UNCHANGED journal
    /\ UNCHANGED <<chainVars, transaction, inputs, row, computed, commands>>

\* The same bytes; a lost answer ends the command although they are on their way.
Send(d) ==
    /\ command[d].pc = "send"
    /\ transaction' = [transaction EXCEPT ![d] = IF @ = "unsent" THEN "sent" ELSE @]
    /\ (Goto(d, "poll") /\ UNCHANGED lock) \/ Finish(d)
    /\ UNCHANGED <<chainVars, inputs, row, computed, journal, commands>>

PollConfirmed(d) ==
    /\ command[d].pc = "poll"
    /\ \/ transaction[d] \in {"processed", "finalized"} /\ Goto(d, "verify") /\ UNCHANGED lock
       \/ transaction[d] # "finalized" /\ Finish(d)
    /\ UNCHANGED <<chainVars, transaction, inputs, row, computed, journal, commands>>

\* Up to 45 looks (one for status); only finalized without an error will do.
Poll(d) ==
    /\ command[d].pc = "poll"
    /\ \/ transaction[d] = "finalized" /\ Goto(d, "verify") /\ UNCHANGED lock
       \/ transaction[d] # "finalized" /\ Finish(d)
    /\ UNCHANGED <<chainVars, transaction, inputs, row, computed, journal, commands>>

\* The epoch must still carry the report; the journal is confirmed.
Verify(d) ==
    LET report == journal[d].report IN
    /\ command[d].pc = "verify"
    /\ IF confidence = report /\ tree.root = report.root /\ tree.count = Len(report.order)
       THEN /\ journal' = [journal EXCEPT ![d].state = "confirmed"]
            /\ Goto(d, "record") /\ UNCHANGED lock
       ELSE Finish(d) /\ UNCHANGED journal
    /\ UNCHANGED <<chainVars, transaction, inputs, row, computed, commands>>

\* The row of the epoch and report.json.
Record(d) ==
    /\ command[d].pc = "record"
    /\ row' = [report |-> journal[d].report, by |-> d]
    /\ Finish(d)
    /\ UNCHANGED <<chainVars, transaction, inputs, computed, journal, commands>>

-----------------------------------------------------------------------------
(* The chain and the verifier. *)

\* What happened on the chain: observations, changes of the policy, blocks.
Events == tree.count + others + (policy - 1) + height

\* Those of them that leave this epoch's tree and the blocks alone.
Aside == others + (policy - 1)

\* An observation of this epoch is finalized; its input was sealed when it
\* was validated, unless that was before inputs were sealed.
Observe(t) ==
    /\ Events < MaxEvents /\ t = tree.count + 1
    /\ AppendLeaf(t)
    /\ confidence' = None
    /\ inputs' = IF Len(leaves) < Historical THEN inputs ELSE inputs \cup {t}
    /\ UNCHANGED <<policy, others, height, transaction, row, fileVars, command, commands>>

ObserveElsewhere ==
    /\ Events < MaxEvents /\ Aside < MaxAside
    /\ others' = others + 1
    /\ UNCHANGED <<treeVars, confidence, policy, height, transaction, inputs, row, fileVars, command, commands>>

ChangePolicy ==
    /\ Events < MaxEvents /\ Aside < MaxAside
    /\ policy' = policy + 1
    /\ UNCHANGED <<treeVars, confidence, others, height, transaction, inputs, row, fileVars, command, commands>>

\* A transaction is in a block that is not finalized yet, or its fork is left.
Process(d) ==
    /\ transaction[d] = "sent" /\ height < journal[d].last
    /\ transaction' = [transaction EXCEPT ![d] = "processed"]
    /\ UNCHANGED <<chainVars, inputs, row, fileVars, command, commands>>

Fork(d) ==
    /\ transaction[d] = "processed"
    /\ transaction' = [transaction EXCEPT ![d] = "sent"]
    /\ UNCHANGED <<chainVars, inputs, row, fileVars, command, commands>>

\* publish_confidence (validate_state)
Accepts(j) ==
    /\ j.report.policy = policy
    /\ tree.count > 0 /\ tree.count = Len(j.report.order) /\ tree.root = j.report.root
    /\ confidence = j.previous

\* The block is finalized, and with it what the transaction did.
Finalize(d) ==
    /\ transaction[d] = "processed" /\ Events < MaxEvents
    /\ height' = height + 1
    /\ IF Accepts(journal[d])
       THEN transaction' = [transaction EXCEPT ![d] = "finalized"] /\ confidence' = journal[d].report
       ELSE transaction' = [transaction EXCEPT ![d] = "failed"] /\ UNCHANGED confidence
    /\ UNCHANGED <<treeVars, policy, others, inputs, row, fileVars, command, commands>>

\* A block without them; a processed one must be finalized in time or forked away.
NewBlock ==
    /\ Events < MaxEvents
    /\ \A d \in Directories : transaction[d] = "processed" => height + 1 < journal[d].last
    /\ height' = height + 1
    /\ UNCHANGED <<treeVars, confidence, policy, others, transaction, inputs, row, fileVars, command, commands>>

-----------------------------------------------------------------------------
Command(d) ==
    \/ \E action \in Actions : Start(d, action)
    \/ ReadCommitments(d) \/ ReadAccounts(d) \/ Prepare(d)
    \/ Inspect(d) \/ CheckHeight(d) \/ Send(d) \/ Poll(d) \/ Verify(d) \/ Record(d)
    \/ CallFails(d) \/ Crash(d) \/ RemoveLock(d)
    \/ \E t \in Transcripts : Import(d, t)

Cluster ==
    \/ \E t \in Transcripts : Observe(t)
    \/ \E d \in Directories : Process(d) \/ Fork(d) \/ Finalize(d)
    \/ ObserveElsewhere \/ ChangePolicy \/ NewBlock

Next == (\E d \in Directories : Command(d)) \/ Cluster

Spec == Init /\ [][Next]_vars

-----------------------------------------------------------------------------
(* Properties. *)

Filed == {computed[d] : d \in Directories} \cup {journal[d].report : d \in {x \in Directories : Journaled(x)}}
             \cup (IF row = None THEN {} ELSE {row.report}) \cup {confidence}

\* Whatever order the timestamps or the configuration suggested, and although
\* the epoch may grow between the two reads, every report that reaches a file,
\* the database or the chain lists the first observations of the epoch's tree
\* in the order they were appended (computeConfidence rebuilds the root).
ReportsInTreeOrder ==
    \A r \in Filed \ {None} : Len(r.order) > 0 /\ IsPrefix(r.order, leaves)

\* The program's frontier and the reports agree on the tree.
TreeSound == FrontierRoot /\ ReportsInTreeOrder

\* A confirmed journal and a recorded report stand for a transaction that was
\* finalized without an error: neither a processed status, nor a lost answer,
\* nor the same hash published from another directory is taken for success.
RecordedFinalized ==
    /\ \A d \in Directories : journal[d].state = "confirmed" => transaction[d] = "finalized"
    /\ row # None => transaction[row.by] = "finalized" /\ journal[row.by].report = row.report

\* The report behind the hash on chain is in the journal of the transaction
\* that published it, wherever a command died.
ConfidenceJournaled ==
    confidence # None =>
        \E d \in Directories : Journaled(d) /\ journal[d].report = confidence /\ transaction[d] = "finalized"

\* The files, the database and the chain tell one story.
JournalSound == TypeOK /\ RecordedFinalized /\ ConfidenceJournaled
=============================================================================
