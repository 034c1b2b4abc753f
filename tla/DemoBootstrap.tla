---------------------------- MODULE DemoBootstrap ----------------------------
(***************************************************************************)
(* The setup script (scripts/dev37-demo.ts): --prepare fills an empty      *)
(* directory with an imported enrollment database, keys and a manifest;    *)
(* a run deploys the program and creates the accounts one by one, with a   *)
(* journal of signed transactions in state.json; --import-enrollment adds  *)
(* the database to a directory prepared without one.  A run is resumed by  *)
(* running it again.  The process may die between any two writes, and      *)
(* leaves its lock file then; an error instead goes through the `finally'  *)
(* block, which saves the state and writes the report.                     *)
(*                                                                         *)
(* An account exists at finalized commitment exactly when the transaction  *)
(* of its step is finalized.  Amounts are in units of the reward, so that  *)
(* the escrow is funded with three.                                        *)
(***************************************************************************)
EXTENDS Integers, Sequences

CONSTANTS
    Before,                 \* the steps before the funding: enrollment, verifier_metadata, payments, protocol
    After,                  \* and after it: device, root, lookup_create, lookup_extend
    MaxFaults, MaxSigned    \* bounds: failed requests, deaths and deposits; transactions signed for one step

Steps == Before \o <<"fund_escrow">> \o After
Names == {Steps[i] : i \in DOMAIN Steps}
Funding == 3

VARIABLES
    folder,     \* the run directory: lock, imported and prepared enrollment revision, keys
    state,      \* state.json: records by step, deployment fields, complete
    report,     \* report.json: "none", "incomplete" or "complete"
    proc,       \* the running script
    chain,      \* the program, the step transactions' fates, the escrow's balance and what others paid into it
    source,     \* revision of the source enrollment database
    signed,     \* history: transactions signed for each step
    faults

vars == <<folder, state, report, proc, chain, source, signed, faults>>

Off == [at |-> "off", step |-> 0, seen |-> 0, was |-> FALSE, complete |-> FALSE, acked |-> {}]
Running == proc.at # "off"
InsideTry == {"deploy", "cliAnswer", "live", "check", "sign", "status", "height", "send", "poll", "verify", "ack"}
Prepared == folder.manifest > 0
Balance == chain.escrow

BootstrapConstants ==
    /\ Before \in Seq(STRING) /\ After \in Seq(STRING) /\ {"protocol", "root"} \subseteq Names
    /\ MaxFaults \in Nat /\ MaxSigned \in Nat \ {0}

\* Either an empty directory, or one prepared before runtime databases were
\* kept apart.  Revisions count from 1; 0 is a file that does not exist, -1 a
\* database without tables.
Init ==
    /\ folder \in {[lock |-> FALSE, database |-> 0, keys |-> FALSE, manifest |-> 0],
                   [lock |-> FALSE, database |-> 0, keys |-> TRUE, manifest |-> 1]}
    /\ state = [record |-> [n \in Names |-> "none"], attempted |-> FALSE, signature |-> FALSE, complete |-> FALSE]
    /\ report = "none" /\ proc = Off /\ source = 1 /\ faults = 0
    /\ chain = [program |-> "none", fate |-> [n \in Names |-> "none"], escrow |-> 0, gifts |-> 0]
    /\ signed = [n \in Names |-> 0]

At(p) == proc.at = p
Go(p) == proc' = [proc EXCEPT !.at = p]

\* main's finally: the lock file goes.
Quit == proc' = Off /\ folder' = [folder EXCEPT !.lock = FALSE]

\* An error inside run's try block.
Throw == Go("save") /\ UNCHANGED folder

-----------------------------------------------------------------------------
(* main, --prepare and --import-enrollment. *)

Empty == folder.database = 0 /\ ~folder.keys /\ ~Prepared

\* main: one process holds run.lock.
Start(p, seen) ==
    /\ ~folder.lock
    /\ folder' = [folder EXCEPT !.lock = TRUE]
    /\ proc' = [Off EXCEPT !.at = p, !.seen = seen]
    /\ UNCHANGED <<state, report, chain, source, signed, faults>>

\* prepare: an empty directory; the inputs are read from the source.
Prepare == Empty /\ Start("import", source)

\* --import-enrollment: the inputs are the manifest's.
ImportEnrollment == Prepared /\ Start("import", folder.manifest)

\* prepareRuntime: the source must still be the inputs', the database is
\* created exclusively.
Import ==
    /\ At("import")
    /\ \/ /\ source = proc.seen /\ folder.database = 0
          /\ folder' = [folder EXCEPT !.database = -1]
          /\ Go("copy")
       \/ /\ source # proc.seen \/ folder.database # 0
          /\ Quit
    /\ UNCHANGED <<state, report, chain, source, signed, faults>>

\* importDemoEnrollment copies its own snapshot of the source in one transaction.
Copy ==
    /\ At("copy")
    /\ folder' = [folder EXCEPT !.database = source]
    /\ Go("compare")
    /\ UNCHANGED <<state, report, chain, source, signed, faults>>

\* prepareRuntime: the copy must be of the inputs read before.
CopyMatches == folder.database = proc.seen

Compare ==
    /\ At("compare")
    /\ IF CopyMatches /\ ~Prepared THEN Go("keys") /\ UNCHANGED folder ELSE Quit
    /\ UNCHANGED <<state, report, chain, source, signed, faults>>

\* prepare: key files, the build, and the manifest last.
WriteKeys ==
    /\ At("keys")
    /\ folder' = [folder EXCEPT !.keys = TRUE]
    /\ Go("manifest")
    /\ UNCHANGED <<state, report, chain, source, signed, faults>>

WriteManifest ==
    /\ At("manifest")
    /\ proc' = Off
    /\ folder' = [folder EXCEPT !.manifest = proc.seen, !.lock = FALSE]
    /\ UNCHANGED <<state, report, chain, source, signed, faults>>

-----------------------------------------------------------------------------
(* run *)

Run == Prepared /\ Start("preflight", 0)
RunCheck == Prepared /\ Start("check_only", 0)

\* run: the runtime database must hold the manifest's enrollment; --check
\* stops after the preflight.
Preflight ==
    /\ At("preflight") \/ At("check_only")
    /\ IF folder.database = folder.manifest /\ At("preflight")
       THEN proc' = [proc EXCEPT !.at = "deploy", !.was = state.complete, !.complete = state.complete] /\ UNCHANGED folder
       ELSE Quit
    /\ UNCHANGED <<state, report, chain, source, signed, faults>>

\* deployVerified: whether to call the CLI at all.
DeployOnce == ~state.attempted
MustDeploy == chain.program \notin {"confirmed", "final"} /\ ~state.signature

Deploy ==
    /\ At("deploy")
    /\ state' = IF MustDeploy THEN [state EXCEPT !.attempted = TRUE] ELSE state
    /\ Go(IF MustDeploy THEN "cli" ELSE "live")
    /\ UNCHANGED <<folder, report, chain, source, signed, faults>>

\* The CLI deploys with the directory's program and buffer keys; it may also
\* give up, with or without having sent the deployment.
CallCLI ==
    /\ At("cli")
    /\ \/ /\ chain' = [chain EXCEPT !.program = IF @ = "final" THEN @ ELSE "confirmed"]
          /\ Go("cliAnswer") /\ UNCHANGED faults
       \/ /\ faults < MaxFaults /\ faults' = faults + 1
          /\ chain' \in {chain, [chain EXCEPT !.program = IF @ = "none" THEN "sent" ELSE @]}
          /\ Go("save")
    /\ UNCHANGED <<folder, state, report, source, signed>>

SaveSignature ==
    /\ At("cliAnswer")
    /\ state' = [state EXCEPT !.signature = TRUE]
    /\ Go("live")
    /\ UNCHANGED <<folder, report, chain, source, signed, faults>>

\* deployVerified: wait for the finalized program, then recover a signature
\* whose answer was lost.
Live ==
    /\ At("live")
    /\ \/ /\ chain.program = "final"
          /\ state' = [state EXCEPT !.signature = TRUE]
          /\ proc' = [proc EXCEPT !.at = "check", !.step = 1] /\ UNCHANGED folder
       \/ chain.program # "final" /\ Throw /\ UNCHANGED state
    /\ UNCHANGED <<report, chain, source, signed, faults>>

Step == Steps[proc.step]
Record == state.record[Step]

\* The account of the step is there, or the escrow is funded.
Done == IF Step = "fund_escrow" THEN Balance >= Funding ELSE chain.fate[Step] = "final"

\* Top-ups of a partly funded escrow are refused.
Refused == Step = "fund_escrow" /\ Balance \in 1 .. Funding - 1

\* run: each step reads the account and calls send when it is missing.
Check ==
    /\ At("check")
    /\ \/ Done /\ Go("verify") /\ UNCHANGED folder
       \/ ~Done /\ Refused /\ Throw
       \/ /\ ~Done /\ ~Refused
          /\ Go(CASE Record = "none" -> "sign" [] Record = "open" -> "status" [] Record = "finalized" -> "verify")
          /\ UNCHANGED folder
    /\ UNCHANGED <<state, report, chain, source, signed, faults>>

\* send: sign and save, before anything goes out.
SignUnsaved(record) == record
Journalled(record) == "open"

Sign ==
    /\ At("sign") /\ signed[Step] < MaxSigned
    /\ state' = [state EXCEPT !.record[Step] = Journalled(@)]
    /\ signed' = [signed EXCEPT ![Step] = @ + 1]
    /\ chain' = [chain EXCEPT !.fate[Step] = "signed"]
    /\ Go("send")
    /\ UNCHANGED <<folder, report, source, faults>>

\* getSignatureStatuses, with errors and confirmations of unfinalized blocks.
Statuses(n) ==
    CASE chain.fate[n] = "sent" -> {"null", "pending", "err"}
      [] chain.fate[n] \in {"signed", "lapsed"} -> {"null"}
      [] chain.fate[n] = "failed" -> {"err"}
      [] OTHER -> {"finalized"}

Acknowledge == state' = [state EXCEPT !.record[Step] = "finalized"] /\ Go("verify") /\ UNCHANGED folder

\* pendingDecision on the status; without one the height decides.
ReadStatus ==
    /\ At("status")
    /\ \E status \in Statuses(Step) :
          \/ status = "finalized" /\ Acknowledge
          \/ status = "null" /\ Go("height") /\ UNCHANGED <<folder, state>>
          \/ status \in {"pending", "err"} /\ Throw /\ UNCHANGED state
    /\ UNCHANGED <<report, chain, source, signed, faults>>

\* pendingDecision: retry up to the last valid height, then stop.
ReadHeight ==
    /\ At("height")
    /\ \/ chain.fate[Step] # "lapsed" /\ Go("send") /\ UNCHANGED folder
       \/ chain.fate[Step] \notin {"signed", "sent"} /\ Throw
    /\ UNCHANGED <<state, report, chain, source, signed, faults>>

\* send: the saved bytes; preflight refuses what is lapsed or already executed.
Send ==
    /\ At("send")
    /\ IF chain.fate[Step] \in {"signed", "sent"}
       THEN chain' = [chain EXCEPT !.fate[Step] = "sent"] /\ Go("poll") /\ UNCHANGED folder
       ELSE Throw /\ UNCHANGED chain
    /\ UNCHANGED <<state, report, source, signed, faults>>

\* send: sixty polls.
Poll ==
    /\ At("poll")
    /\ \E status \in Statuses(Step) :
          IF status = "finalized" THEN Acknowledge ELSE Throw /\ UNCHANGED state
    /\ UNCHANGED <<report, chain, source, signed, faults>>

\* run: the account is read back; the escrow must hold exactly the funding.
Verified == IF Step = "fund_escrow" THEN Balance = Funding ELSE chain.fate[Step] = "final"

Verify ==
    /\ At("verify")
    /\ IF Verified
       THEN /\ proc' = IF proc.step = Len(Steps) THEN [proc EXCEPT !.at = "ack"]
                       ELSE [proc EXCEPT !.at = "check", !.step = @ + 1]
            /\ UNCHANGED folder
       ELSE Throw
    /\ UNCHANGED <<state, report, chain, source, signed, faults>>

\* run: every record left open must be finalized by now; those before the
\* first that is not are acknowledged anyway, in memory.
Open == {n \in Names : state.record[n] = "open"}
Landed == {n \in Open : Statuses(n) = {"finalized"}}

Ack ==
    /\ At("ack")
    /\ \E S \in SUBSET Landed :
          /\ Landed = Open => S = Open
          /\ proc' = [proc EXCEPT !.at = "save", !.acked = S, !.complete = @ \/ Landed = Open]
    /\ UNCHANGED <<folder, state, report, chain, source, signed, faults>>

\* finally: the state with what Ack acknowledged, ...
SaveState ==
    /\ At("save")
    /\ state' = [state EXCEPT !.complete = proc.complete,
                              !.record = [n \in Names |-> IF n \in proc.acked THEN "finalized" ELSE @[n]]]
    /\ Go("report")
    /\ UNCHANGED <<folder, report, chain, source, signed, faults>>

\* ... the report unless the setup was complete before, and verifier-config.
WriteReport ==
    /\ At("report")
    /\ report' = IF proc.was THEN report ELSE IF proc.complete THEN "complete" ELSE "incomplete"
    /\ Quit
    /\ UNCHANGED <<state, chain, source, signed, faults>>

\* A request or a write fails, or an input has changed.
Fault ==
    /\ Running /\ ~At("cli") /\ faults < MaxFaults /\ faults' = faults + 1
    /\ IF proc.at \in InsideTry THEN Throw ELSE Quit
    /\ UNCHANGED <<state, report, chain, source, signed>>

\* The process dies; its lock file stays.
Die ==
    /\ Running /\ faults < MaxFaults /\ faults' = faults + 1
    /\ proc' = Off
    /\ UNCHANGED <<folder, state, report, chain, source, signed>>

\* The operator removes the lock of a dead process.
RemoveLock ==
    /\ folder.lock /\ ~Running
    /\ folder' = [folder EXCEPT !.lock = FALSE]
    /\ UNCHANGED <<state, report, proc, chain, source, signed, faults>>

-----------------------------------------------------------------------------
(* Outside: the cluster and the other holders of its accounts. *)

ProgramMoves ==
    /\ \/ chain.program = "sent" /\ chain' \in {[chain EXCEPT !.program = "confirmed"], [chain EXCEPT !.program = "none"]}
       \/ chain.program = "confirmed" /\ chain' = [chain EXCEPT !.program = "final"]
    /\ UNCHANGED <<folder, state, report, proc, source, signed, faults>>

Settle(n) ==
    /\ \/ chain.fate[n] = "sent" /\ chain' = [chain EXCEPT !.fate[n] = "final",
                                                         !.escrow = IF n = "fund_escrow" THEN @ + Funding ELSE @]
       \/ chain.fate[n] = "sent" /\ chain' = [chain EXCEPT !.fate[n] = "failed"]
       \/ chain.fate[n] \in {"signed", "sent"} /\ chain' = [chain EXCEPT !.fate[n] = "lapsed"]
    /\ UNCHANGED <<folder, state, report, proc, source, signed, faults>>

Cluster == ProgramMoves \/ \E n \in Names : Settle(n)

\* Anyone may transfer tokens to the escrow's account.
Deposit ==
    /\ chain.fate["protocol"] = "final" /\ faults < MaxFaults /\ faults' = faults + 1
    /\ \E amount \in {1, Funding} : chain' = [chain EXCEPT !.escrow = @ + amount, !.gifts = @ + amount]
    /\ UNCHANGED <<folder, state, report, proc, source, signed>>

\* With the verifier started, observations draw on the escrow and observers enroll.
Use ==
    /\ state.complete /\ ~Running
    /\ \/ chain.escrow > 0 /\ chain' = [chain EXCEPT !.escrow = @ - 1] /\ UNCHANGED folder
       \/ folder.database = folder.manifest /\ folder' = [folder EXCEPT !.database = @ + 1] /\ UNCHANGED chain
    /\ UNCHANGED <<state, report, proc, source, signed, faults>>

\* An observer enrolls with the source database's service.
SourceGrows ==
    /\ source = 1 /\ source' = 2
    /\ UNCHANGED <<folder, state, report, proc, chain, signed, faults>>

Script ==
    \/ Import \/ Copy \/ Compare \/ WriteKeys \/ WriteManifest
    \/ Preflight \/ Deploy \/ CallCLI \/ SaveSignature \/ Live
    \/ Check \/ Sign \/ ReadStatus \/ ReadHeight \/ Send \/ Poll \/ Verify \/ Ack \/ SaveState \/ WriteReport

Next ==
    \/ Prepare \/ ImportEnrollment \/ Run \/ RunCheck \/ RemoveLock
    \/ Script \/ Fault \/ Die
    \/ Cluster \/ Deposit \/ Use \/ SourceGrows

\* The operator resumes the setup and removes stale locks, the process takes
\* its steps, and the cluster settles what was sent to it.
Fairness ==
    /\ WF_vars(Prepare) /\ SF_vars(ImportEnrollment) /\ SF_vars(Run) /\ WF_vars(RemoveLock)
    /\ WF_vars(Script) /\ WF_vars(Cluster)

-----------------------------------------------------------------------------
(* Properties. *)

\* The wallet signs one transaction for a step however often the setup dies
\* and is resumed, so that the escrow is not funded twice; in a complete setup
\* every step's transaction is final and its record acknowledged, unless others
\* paid the escrow's funding; a complete report is of a complete setup; and the observer root published is the root of the database
\* the verifier will run on.
SetupSound ==
    /\ \A n \in Names : signed[n] <= 1
    /\ report = "complete" => state.complete
    /\ state.complete => \A n \in Names :
          \/ chain.fate[n] = "final" /\ state.record[n] = "finalized"
          \/ n = "fund_escrow" /\ chain.gifts >= Funding
    /\ signed["root"] > 0 /\ ~state.complete => folder.database = folder.manifest

\* What resuming cannot repair, because the script stops for an inspection:
\* a preparation that broke off, a recorded transaction that lapsed or failed,
\* an escrow that someone else paid into.
NeedsInspection ==
    \/ ~Prepared /\ ~Empty /\ ~Running
    \/ Prepared /\ ~Running /\ folder.database # folder.manifest
          /\ (folder.database # 0 \/ source # folder.manifest)
    \/ \E n \in Names : chain.fate[n] \in {"failed", "lapsed"}
    \/ chain.escrow \notin {0, Funding}

\* The script stopped after `finally' saved a complete state and before it
\* wrote the report: later runs find the setup complete and write none.  No
\* error is printed and the document only says to resume.
ReportLost == state.complete /\ report # "complete" /\ ~Running

\* A setup that is resumed whenever it stops gets to its complete report, or to
\* something the script leaves to the operator, provided that no report is lost:
\* that is the one interruption from which no later run recovers.
SetupResolved == []~ReportLost => <>(report = "complete" \/ NeedsInspection)
=============================================================================
