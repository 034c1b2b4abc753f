-------------------------- MODULE RootPublication --------------------------
(***************************************************************************)
(* The observer-root publisher (verifier/src/root-publication.ts with      *)
(* solana-root-publication.ts).  An enrollment makes a new revision of the *)
(* root with one leaf more, so a revision names its root and leaf count.   *)
(* One tick runs at a time; its awaits are the values of "step".  Time is  *)
(* only what the code compares with it: a delay that has or has not passed.*)
(***************************************************************************)
EXTENDS Integers, Sequences, FiniteSets, FiniteSetsExt, SequencesExt

CONSTANTS
    None,          \* SQL NULL / undefined
    BatchSize,     \* leaves that make a batch due at once
    RingSize,      \* roots the program keeps active
    MaxLeaves,     \* bound: enrollments
    MaxFaults      \* bound: failed calls, lapsed transactions, forks and restarts together

ASSUME PublicationAssumption ==
    /\ None \notin Nat
    /\ BatchSize \in Nat \ {0} /\ RingSize \in Nat \ {0}
    /\ MaxLeaves \in Nat /\ MaxFaults \in Nat

VARIABLES
    leaves,        \* the latest revision of observer_roots
    overdue,       \* revisions up to this one are older than maxDelayMs
    rows,          \* observer_root_publications: revision -> row
    step,          \* where the running tick is; its row and transaction
    checked,       \* #checked: revision, active and whether 30 s have passed; lost by a restart
    txs,           \* signed transactions: the revision each publishes
    sent,          \* transactions handed to the network
    past,          \* transactions whose last valid height the finalized chain has passed
    chain,         \* transactions that landed, in order
    final,         \* how many of them are finalized
    faults

db == <<leaves, overdue, rows>>
network == <<txs, sent, past, chain, final>>
vars == <<db, step, checked, network, faults>>

Revisions == 1 .. MaxLeaves
Txs == 1 .. MaxLeaves + MaxFaults
Idle == [at |-> "idle"]
Row == [status: {"pending", "submitted", "confirmed"}, wire: Txs \cup {None}, waiting: BOOLEAN, error: BOOLEAN]

\* A revision's row refers to a signed transaction, and revisions stay within the
\* enrolled leaves.
TypeOK ==
    /\ leaves \in 0 .. MaxLeaves /\ overdue \in 0 .. leaves
    /\ DOMAIN rows \subseteq 1 .. leaves /\ \A r \in DOMAIN rows : rows[r] \in Row
    /\ step.at \in {"idle", "recheck", "row", "inspect", "expired", "prepare", "send", "confirm"}
    /\ checked = None \/ checked \in [revision: Revisions, active: BOOLEAN \cup {None}, stale: BOOLEAN]
    /\ txs \in Seq(Revisions) /\ Len(txs) <= MaxLeaves + MaxFaults
    /\ sent \subseteq DOMAIN txs /\ past \subseteq DOMAIN txs
    /\ chain \in Seq(DOMAIN txs) /\ final \in 0 .. Len(chain)
    /\ faults \in 0 .. MaxFaults

Init ==
    /\ leaves = 0 /\ overdue = 0 /\ rows = <<>>
    /\ step = Idle /\ checked = None
    /\ txs = <<>> /\ sent = {} /\ past = {} /\ chain = <<>> /\ final = 0
    /\ faults = 0

-----------------------------------------------------------------------------
(* The chain. *)

\* publish_root creates the root's account, and nothing else orders roots.
Accepted(t) == \A i \in DOMAIN chain : txs[chain[i]] # txs[t]

\* The finalized root accounts, in order.
Finalized == [i \in 1 .. final |-> txs[chain[i]]]

\* activeRoots: the last RingSize publications.
Active(r) == r \in ToSet(SubSeq(Finalized, Max({1, final - RingSize + 1}), final))

InspectAtConfirmed(r) == \E i \in DOMAIN chain : txs[chain[i]] = r

\* inspect(): the root account and the ring, at finalized commitment.
Inspect(r) == r \in ToSet(Finalized)

Fault == faults < MaxFaults /\ faults' = faults + 1

Land(t) ==
    /\ t \in sent \ past /\ Accepted(t)
    /\ chain' = Append(chain, t)
    /\ UNCHANGED <<db, step, checked, txs, sent, past, final, faults>>

Finalize ==
    /\ final < Len(chain)
    /\ final' = Len(chain)
    /\ UNCHANGED <<db, step, checked, txs, sent, past, chain, faults>>

\* A fork that held what is not finalized loses.
Fork ==
    /\ final < Len(chain) /\ Fault
    /\ chain' = SubSeq(chain, 1, final)
    /\ UNCHANGED <<db, step, checked, txs, sent, past, final>>

\* The finalized height passes the last valid one: landed ones are finalized.
Lapse(t) ==
    /\ t \in DOMAIN txs \ past
    /\ \A i \in final + 1 .. Len(chain) : chain[i] # t
    /\ Fault
    /\ past' = past \cup {t}
    /\ UNCHANGED <<db, step, checked, txs, sent, chain, final>>

-----------------------------------------------------------------------------
(* Enrollment and time. *)

EnrollLeaf ==
    /\ leaves < MaxLeaves
    /\ leaves' = leaves + 1
    /\ UNCHANGED <<overdue, rows, step, checked, network, faults>>

\* maxDelayMs passes for the oldest revision that is younger.
DelayPasses ==
    /\ overdue < leaves
    /\ overdue' = overdue + 1
    /\ UNCHANGED <<leaves, rows, step, checked, network, faults>>

RetryPasses ==
    /\ \E r \in DOMAIN rows :
          rows[r].waiting /\ rows' = [rows EXCEPT ![r].waiting = FALSE]
    /\ UNCHANGED <<leaves, overdue, step, checked, network, faults>>

CheckPasses ==
    /\ checked # None /\ ~checked.stale
    /\ checked' = [checked EXCEPT !.stale = TRUE]
    /\ UNCHANGED <<db, step, network, faults>>

-----------------------------------------------------------------------------
(* tick() and #publish(). *)

Confirmed == {r \in DOMAIN rows : rows[r].status = "confirmed"}
Open == DOMAIN rows \ Confirmed

\* #latest, or revision 0
Latest == Max({0} \cup Confirmed)

PendingUnsubmitted ==
    LET unsubmitted == {r \in Open : rows[r].status = "pending"} IN
    IF unsubmitted = {} THEN None ELSE Min(unsubmitted)

\* #pending: the lowest revision that is not confirmed.
Pending == IF Open = {} THEN None ELSE Min(Open)

\* publicationBatch: the batch is published as the latest revision.
BatchRevision == leaves

\* A batch is due by its size, by its oldest leaf's age, or when forced.
Due(force) == leaves > Latest /\ (force \/ leaves - Latest >= BatchSize \/ overdue > Latest)

NewRow == [status |-> "pending", wire |-> None, waiting |-> FALSE, error |-> FALSE]

\* tick(): nothing while another runs.
Tick ==
    /\ step.at = "idle"
    /\ step' = IF Confirmed # {} /\ (checked = None \/ checked.stale)
               THEN [at |-> "recheck", revision |-> Latest]
               ELSE [at |-> "row"]
    /\ UNCHANGED <<db, checked, network, faults>>

\* The latest confirmed root is inspected again; a failure is remembered too.
Recheck ==
    /\ step.at = "recheck"
    /\ \/ /\ checked' = [revision |-> step.revision, active |-> Active(step.revision), stale |-> FALSE]
          /\ UNCHANGED faults
       \/ /\ checked' = [revision |-> step.revision, active |-> None, stale |-> FALSE]
          /\ Fault
    /\ step' = [at |-> "row"]
    /\ UNCHANGED <<db, network>>

\* The open row, or a new one for the batch that is due; then its retry time.
ChooseRow(force) ==
    LET created == Pending = None
        r == IF created THEN BatchRevision ELSE Pending
    IN
    /\ step.at = "row"
    /\ created => Due(force)
    /\ rows' = IF created THEN [x \in DOMAIN rows \cup {r} |-> IF x = r THEN NewRow ELSE rows[x]] ELSE rows
    /\ step' = IF rows'[r].waiting THEN Idle ELSE [at |-> "inspect", revision |-> r]
    /\ UNCHANGED <<leaves, overdue, checked, network, faults>>

NothingDue(force) ==
    /\ step.at = "row" /\ Pending = None /\ ~Due(force)
    /\ step' = Idle
    /\ UNCHANGED <<db, checked, network, faults>>

\* The row is confirmed and its check remembered, in one turn.
Confirm(r) ==
    /\ rows' = [rows EXCEPT ![r] = [status |-> "confirmed", wire |-> None, waiting |-> FALSE, error |-> FALSE]]
    /\ checked' = [revision |-> r, active |-> Active(r), stale |-> FALSE]
    /\ step' = Idle

InspectRow ==
    LET r == step.revision IN
    /\ step.at = "inspect"
    /\ \/ Inspect(r) /\ Confirm(r)
       \/ /\ ~Inspect(r)
          /\ step' = IF rows[r].wire = None THEN [at |-> "prepare", revision |-> r]
                     ELSE [at |-> "expired", revision |-> r]
          /\ UNCHANGED <<rows, checked>>
    /\ UNCHANGED <<leaves, overdue, network, faults>>

ExpiredNever ==
    /\ step.at = "expired"
    /\ step' = [at |-> "send", revision |-> step.revision, tx |-> rows[step.revision].wire]
    /\ UNCHANGED <<db, checked, network, faults>>

\* expired(): only a transaction that can no longer land is replaced.
Expired ==
    LET r == step.revision IN
    /\ step.at = "expired"
    /\ step' = IF rows[r].wire \in past THEN [at |-> "prepare", revision |-> r]
               ELSE [at |-> "send", revision |-> r, tx |-> rows[r].wire]
    /\ UNCHANGED <<db, checked, network, faults>>

\* The signed bytes are stored before they are sent.
Prepare ==
    LET r == step.revision
        tx == Len(txs) + 1
    IN
    /\ step.at = "prepare"
    /\ txs' = Append(txs, r)
    /\ rows' = [rows EXCEPT ![r].wire = tx, ![r].status = "submitted"]
    /\ step' = [at |-> "send", revision |-> r, tx |-> tx]
    /\ UNCHANGED <<leaves, overdue, checked, sent, past, chain, final, faults>>

\* The preflight lets it through.
Send ==
    /\ step.at = "send" /\ step.tx \notin past /\ Accepted(step.tx)
    /\ sent' = sent \cup {step.tx}
    /\ step' = [at |-> "confirm", revision |-> step.revision]
    /\ UNCHANGED <<db, checked, txs, past, chain, final, faults>>

\* The second inspection of the tick.
Reinspect ==
    LET r == step.revision IN
    /\ step.at = "confirm"
    /\ \/ Inspect(r) /\ Confirm(r)
       \/ /\ ~Inspect(r)
          /\ rows' = [rows EXCEPT ![r].waiting = TRUE]
          /\ step' = Idle /\ UNCHANGED checked
    /\ UNCHANGED <<leaves, overdue, network, faults>>

Backoff(r) ==
    /\ rows' = [rows EXCEPT ![r].waiting = TRUE, ![r].error = TRUE]
    /\ step' = Idle
    /\ UNCHANGED <<leaves, overdue, checked>>

\* The preflight refuses what already landed or lapsed.
SendRefused ==
    /\ step.at = "send" /\ (step.tx \in past \/ ~Accepted(step.tx))
    /\ Backoff(step.revision)
    /\ UNCHANGED <<network, faults>>

\* A call fails; one that failed after sending has sent all the same.
CallFails ==
    /\ step.at \in {"inspect", "expired", "prepare", "send", "confirm"}
    /\ Fault
    /\ \/ UNCHANGED sent
       \/ /\ step.at = "send" /\ step.tx \notin past /\ Accepted(step.tx)
          /\ sent' = sent \cup {step.tx}
    /\ Backoff(step.revision)
    /\ UNCHANGED <<txs, past, chain, final>>

\* The process ends, at any await, and starts again.
Restart ==
    /\ Fault
    /\ step' = Idle /\ checked' = None
    /\ UNCHANGED <<db, network>>

Publish ==
    \/ Tick \/ Recheck
    \/ \E force \in BOOLEAN : ChooseRow(force) \/ NothingDue(force)
    \/ InspectRow \/ Expired \/ Prepare \/ Send \/ SendRefused \/ Reinspect

Network == Finalize \/ \E t \in DOMAIN txs : Land(t)

Next ==
    \/ Publish \/ CallFails \/ Restart
    \/ EnrollLeaf \/ DelayPasses \/ RetryPasses \/ CheckPasses
    \/ Network \/ Fork \/ \E t \in DOMAIN txs : Lapse(t)

\* The timer keeps ticking and its calls return, one at a time, so that the
\* publisher is one process; time passes, and the network lands and finalizes
\* what was sent to it.
Fairness == WF_vars(Publish) /\ WF_vars(DelayPasses) /\ WF_vars(RetryPasses) /\ WF_vars(Network)

Spec == Init /\ [][Next]_vars /\ Fairness

-----------------------------------------------------------------------------
(* Properties. *)

\* A row is confirmed only when its root is finalized on chain, and no fork
\* takes it back.
ConfirmedFinal == Confirmed \subseteq ToSet(Finalized)

\* The program accepts roots in any order; the publisher alone makes them land
\* in the order of their revisions, so the newest root is never pushed out of
\* the ring by an older one that lands late.
LandInOrder == \A i, j \in DOMAIN chain : i < j => txs[chain[i]] < txs[chain[j]]

\* Of the transactions sent, at most one can still land, and the row has it:
\* after a crash or a lost answer it is sent again and not signed again.
OneLiveTransaction ==
    \A t \in sent \ past :
        Accepted(t) => \E r \in Open : rows[r].wire = t /\ Open = {r} /\ \A c \in Confirmed : c < r

\* status() reports the check of another revision never as that of the latest.
CheckOfLatest == checked # None => checked.revision = Latest

\* The publisher catches up again and again: the latest confirmed root covers
\* every leaf, however its calls failed before.  Enrollments are finitely many
\* and no confirmed revision is taken back, so each leaf is covered in the end.
EveryLeafPublished == []<>(Latest = leaves)

\* Roots reach the chain one at a time and in the order of their revisions, a
\* row is confirmed only when its root is final, and the reported check is of
\* the latest confirmed revision.
PublicationSound == TypeOK /\ OneLiveTransaction /\ LandInOrder /\ ConfirmedFinal /\ CheckOfLatest
=============================================================================
