----------------------------- MODULE Gate2Replay -----------------------------
(***************************************************************************)
(* The gate 2 commands (scripts/dev38-gate2.ts): `replay' submits a        *)
(* confirmed observation a second time and records that the program        *)
(* refused it without changing the accounting, `report' turns the record   *)
(* into evidence.  One directory holds one journal, and one transaction is *)
(* ever signed for it.  The commands test the program, so the cluster may  *)
(* do anything with the duplicate here: refuse it for its nullifier,       *)
(* refuse it otherwise, or accept it and pay again.                        *)
(*                                                                         *)
(* books[h] counts the changes of what a snapshot for h reads: the payout  *)
(* of its observer and the shared escrow and fee vault.                    *)
(***************************************************************************)
EXTENDS Integers

CONSTANTS
    Hashes,                  \* transcripts of confirmed observations of the device
    None,
    MaxChanges, MaxFaults    \* bounds: accounting changes by others; failed requests and deaths

VARIABLES
    lock,        \* run.lock
    journal,     \* duplicate.json
    rows,        \* transcripts in gate2_replays_v0
    evidence,    \* report.json: the observation it names and the duplicate
    proc,        \* the running command
    fate,        \* of the duplicate transaction
    books,       \* accounting, by observation
    shared,      \* observations whose device epoch a second observer has joined
    landed,      \* history: the accounting once the duplicate was executed
    faults

vars == <<lock, journal, rows, evidence, proc, fate, books, shared, landed, faults>>

Outcomes == {"nullifier", "other", "accepted"}
Off == [at |-> "off", action |-> None, hash |-> None, current |-> 0]
Running == proc.at # "off"

Duplicate == [hash: Hashes, before: Nat, after: Nat \cup {None}, state: {"prepared", "submitted", "rejected"}]

Gate2Constants == None \notin Hashes \cup Duplicate /\ MaxChanges \in Nat /\ MaxFaults \in Nat

Init ==
    /\ lock = FALSE /\ journal = None /\ rows = {} /\ evidence = None /\ proc = Off
    /\ fate = "unsigned" /\ books = [h \in Hashes |-> 0] /\ shared = {} /\ landed = None /\ faults = 0

At(p) == proc.at = p
Go(p) == proc' = [proc EXCEPT !.at = p] /\ UNCHANGED lock
Quit == proc' = Off /\ lock' = FALSE
Save(record) == journal' = record
cluster == <<fate, books, shared, landed>>

-----------------------------------------------------------------------------
(* The commands. *)

\* main: a command on the observation that the configuration selects.
Start(action, h) ==
    /\ ~lock /\ lock' = TRUE
    /\ proc' = [at |-> "snapshot", action |-> action, hash |-> h, current |-> 0]
    /\ UNCHANGED <<journal, rows, evidence, cluster, faults>>

\* gate2Snapshot throws unless the epoch has this one observer.
Readable(h) == h \notin shared

\* The saved transaction must be for the observation selected.
Matches == journal # None /\ journal.hash = proc.hash

\* main: the current accounting, then what the command does with the journal.
Snapshot ==
    /\ At("snapshot")
    /\ LET next == CASE proc.action = "report" -> "report"
                     [] proc.action = "replay" /\ journal = None -> "sign"
                     [] proc.action = "replay" /\ Matches -> "inspect"
                     [] OTHER -> "done"
       IN IF Readable(proc.hash) /\ next # "done"
          THEN proc' = [proc EXCEPT !.at = next, !.current = books[proc.hash]] /\ UNCHANGED lock
          ELSE Quit
    /\ UNCHANGED <<journal, rows, evidence, cluster, faults>>

\* main: sign the duplicate and save it with the snapshot.
Sign ==
    /\ At("sign")
    /\ Save([hash |-> proc.hash, before |-> proc.current, after |-> None, state |-> "prepared"])
    /\ fate' = "signed"
    /\ Go("inspect")
    /\ UNCHANGED <<rows, evidence, books, shared, landed, faults>>

\* getSignatureStatuses: nothing, an unfinalized outcome, or the outcome.
Statuses ==
    {[level |-> "absent", err |-> None]}
    \cup {[level |-> "confirmed", err |-> e] : e \in IF fate = "sent" THEN Outcomes ELSE {}}
    \cup {[level |-> "finalized", err |-> e] : e \in {fate} \cap Outcomes}

\* recoverGate2Replay: look before sending.
Inspect ==
    /\ At("inspect")
    /\ \E status \in Statuses : Go(IF status.level = "absent" THEN "height" ELSE "poll")
    /\ UNCHANGED <<journal, rows, evidence, cluster, faults>>

\* recoverGate2Replay: up to the last valid height, "submitted" is saved
\* before the bytes go out; later the command stops.
Submit ==
    /\ At("height")
    /\ \/ fate # "lapsed" /\ Save([journal EXCEPT !.state = "submitted"]) /\ Go("send")
       \/ fate \notin {"signed", "sent"} /\ Quit /\ UNCHANGED journal
    /\ UNCHANGED <<rows, evidence, cluster, faults>>

Send ==
    /\ At("send")
    /\ fate' = IF fate = "signed" THEN "sent" ELSE fate
    /\ Go("poll")
    /\ UNCHANGED <<journal, rows, evidence, books, shared, landed, faults>>

\* Which statuses count as the outcome.
SettledConfirmed(status) == status.level \in {"confirmed", "finalized"}
Settled(status) == status.level = "finalized"

\* recoverGate2Replay: 45 polls; only E_NULLIFIER of the submit instruction passes.
Poll ==
    /\ At("poll")
    /\ \E status \in Statuses : IF Settled(status) /\ status.err = "nullifier" THEN Go("after") ELSE Quit
    /\ UNCHANGED <<journal, rows, evidence, cluster, faults>>

\* recoverGate2Replay: a second snapshot must equal the first.
Compare ==
    /\ At("after")
    /\ IF Readable(proc.hash) /\ books[proc.hash] = journal.before
       THEN Save([journal EXCEPT !.after = books[proc.hash], !.state = "rejected"]) /\ Go("row")
       ELSE Quit /\ UNCHANGED journal
    /\ UNCHANGED <<rows, evidence, cluster, faults>>

\* main: the row that the phone's status shows.
InsertRow ==
    /\ At("row")
    /\ rows' = rows \cup {proc.hash}
    /\ Quit
    /\ UNCHANGED <<journal, evidence, cluster, faults>>

\* main: evidence of the observation selected, from the rejected journal.
Report ==
    /\ At("report")
    /\ evidence' = IF journal # None /\ journal.state = "rejected" /\ journal.after = journal.before
                   THEN [observation |-> proc.hash, duplicate |-> journal.hash] ELSE evidence
    /\ Quit
    /\ UNCHANGED <<journal, rows, cluster, faults>>

Fault ==
    /\ Running /\ faults < MaxFaults /\ faults' = faults + 1
    /\ Quit
    /\ UNCHANGED <<journal, rows, evidence, cluster>>

\* The process dies; its lock file stays until the operator removes it.
Die ==
    /\ Running /\ faults < MaxFaults /\ faults' = faults + 1
    /\ proc' = Off
    /\ UNCHANGED <<lock, journal, rows, evidence, cluster>>

RemoveLock ==
    /\ lock /\ ~Running
    /\ lock' = FALSE
    /\ UNCHANGED <<journal, rows, evidence, proc, cluster, faults>>

-----------------------------------------------------------------------------
(* The cluster. *)

\* The duplicate is finalized, or its blockhash lapses.
Land(outcome) ==
    /\ fate = "sent" /\ fate' = outcome
    /\ books' = IF outcome = "accepted" THEN [h \in Hashes |-> books[h] + 1] ELSE books
    /\ landed' = books'[journal.hash]
    /\ UNCHANGED <<lock, journal, rows, evidence, proc, shared, faults>>

Lapse ==
    /\ fate \in {"signed", "sent"} /\ fate' = "lapsed"
    /\ UNCHANGED <<lock, journal, rows, evidence, proc, books, shared, landed, faults>>

\* Others withdraw, are rewarded from the shared escrow, or join the epoch.
Change(S) ==
    /\ \A h \in S : books[h] < MaxChanges
    /\ books' = [h \in Hashes |-> IF h \in S THEN books[h] + 1 ELSE books[h]]
    /\ UNCHANGED <<lock, journal, rows, evidence, proc, fate, shared, landed, faults>>

Join(h) ==
    /\ h \notin shared /\ shared' = shared \cup {h}
    /\ books' = [x \in Hashes |-> books[x] + 1]
    /\ UNCHANGED <<lock, journal, rows, evidence, proc, fate, landed, faults>>

Next ==
    \/ \E action \in {"check", "status", "replay", "report"}, h \in Hashes : Start(action, h)
    \/ Snapshot \/ Sign \/ Inspect \/ Submit \/ Send \/ Poll \/ Compare \/ InsertRow \/ Report
    \/ Fault \/ Die \/ RemoveLock
    \/ (\E outcome \in Outcomes : Land(outcome)) \/ Lapse
    \/ (\E S \in {Hashes} \cup {{h} : h \in Hashes} : Change(S)) \/ \E h \in Hashes : Join(h)

-----------------------------------------------------------------------------
(* Property. *)

\* Whatever the program did with the duplicate, a rejected journal, a row of
\* gate2_replays_v0 and the evidence each stand for a duplicate that was
\* finalized as E_NULLIFIER and left the accounting as it was when the duplicate
\* was signed.
RejectionReal ==
    /\ rows # {} \/ evidence # None \/ (journal # None /\ journal.state = "rejected")
          => fate = "nullifier" /\ landed = journal.before
    /\ rows \subseteq IF journal = None THEN {} ELSE {journal.hash}
    /\ evidence # None => evidence.duplicate = journal.hash
=============================================================================
