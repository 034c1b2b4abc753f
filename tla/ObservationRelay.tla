-------------------------- MODULE ObservationRelay --------------------------
(***************************************************************************)
(* The observation relay: a worker process that takes validated            *)
(* observations from a SQLite queue to the chain                           *)
(* (packages/verifier/src/observation-relay.ts) over the Solana transport  *)
(* (solana-observation-relay.ts).                                          *)
(*                                                                         *)
(* A worker's step runs from one await to the next; between two steps the  *)
(* cluster, another relay, the policy authority or a crash may act.  A     *)
(* process that dies loses everything but the database: the job rows and   *)
(* the owner row.  The cluster is external: it finalizes blocks in order,  *)
(* may include a broadcast transaction in any later block up to its        *)
(* blockhash's last valid height, may abandon a block that is not          *)
(* finalized, or may never include it.                                     *)
(***************************************************************************)
EXTENDS Integers, Sequences, FiniteSets

CONSTANTS
    Jobs,             \* nullifiers of the validated observations, in rowid order
    Workers,          \* pids of the processes that may open the database
    None,             \* SQL NULL / undefined
    BatchLimit,       \* LIMIT 16
    MaxGenerations,   \* 8
    Validity,         \* blocks a blockhash stays valid
    Lag,              \* blocks between inclusion and finality
    MaxFaults, MaxStops, MaxHeight   \* bounds of the model

ASSUME RelayAssumption ==
    /\ Jobs \subseteq Nat /\ IsFiniteSet(Jobs)
    /\ None \notin Workers \cup Nat
    /\ BatchLimit \in Nat \ {0} /\ MaxGenerations \in Nat
    /\ Validity \in Nat \ {0} /\ Lag \in Nat \ {0}
    /\ MaxFaults \in Nat /\ MaxStops \in Nat /\ MaxHeight \in Nat

VARIABLES
    row,        \* observation_relay_jobs
    owner,      \* observation_relay_owner
    worker,     \* memory of each process
    txs,        \* signed transactions, in the order they were prepared
    ext,        \* what another relay submitted under a job's nullifier, and whether it is finalized
    committed,  \* jobs whose matching commitment account is finalized
    height,     \* finalized block height
    policyOk,   \* verifier key, policy version and root of the authorizations still hold
    faults, stops

database == <<row, owner>>
chain == <<txs, ext, committed, height, policyOk>>
vars == <<row, owner, worker, txs, ext, committed, height, policyOk, faults, stops>>

\* wire, signature and last_valid_height are written together: tx is the
\* transaction they describe.
NewRow == [status |-> "queued", tx |-> None, generations |-> 0, due |-> TRUE]
NoOther == [block |-> 0, matches |-> TRUE, finalized |-> FALSE]
Down == [pc |-> "down", closing |-> FALSE, batch |-> <<>>, job |-> None, tx |-> None, state |-> None]

Statuses == {"queued", "submitted", "confirmed", "failed"}
RpcPoints == {"inspect", "existing", "expired", "inspectAgain", "existingAgain", "eligible", "prepare", "send"}
TxStates == {"signed", "sent", "included", "ok", "failed"}

\* Rows hold one of the four statuses of the table's CHECK, and a worker is at
\* one of its awaits.
TypeOK ==
    /\ row \in [Jobs -> [status: Statuses, tx: Nat \cup {None}, generations: Nat, due: BOOLEAN]]
    /\ owner \in Workers \cup {None}
    /\ worker \in [Workers -> [pc: RpcPoints \cup {"down", "idle", "next"}, closing: BOOLEAN,
                               batch: Seq([id: Jobs, tx: Nat \cup {None}, generations: Nat]),
                               job: Jobs \cup {None}, tx: Nat \cup {None}, state: {None, "missing", "pending", "failed"}]]
    /\ txs \in Seq([job: Jobs, lastValid: Nat, state: TxStates, block: Nat])
    /\ ext \in [Jobs -> [block: Nat, matches: BOOLEAN, finalized: BOOLEAN]]
    /\ committed \subseteq Jobs
    /\ height \in Nat
    /\ policyOk \in BOOLEAN
    /\ faults \in Nat /\ stops \in Nat

Init ==
    /\ row = [j \in Jobs |-> NewRow]
    /\ owner = None
    /\ worker = [w \in Workers |-> Down]
    /\ txs = <<>>
    /\ ext = [j \in Jobs |-> NoOther]
    /\ committed = {}
    /\ height = 0
    /\ policyOk = TRUE
    /\ faults = 0 /\ stops = 0

-----------------------------------------------------------------------------
(* The process: ownership, ticks, shutdown and death. *)

\* process.kill(pid, 0): a process that starts under the pid of the row takes
\* itself for the owner.
OwnerIsDead(w) == owner \notin {None, w} /\ worker[owner].pc = "down"

\* constructor: takes the owner row when it is free or its process is gone.
Open(w) ==
    /\ worker[w].pc = "down"
    /\ owner = None \/ OwnerIsDead(w)
    /\ owner' = w
    /\ worker' = [worker EXCEPT ![w] = [Down EXCEPT !.pc = "idle"]]
    /\ UNCHANGED <<row, chain, faults, stops>>

Live(j) == row[j].status \in {"queued", "submitted"}

DueRowsAgain ==
    {j \in Jobs : row[j].status # "confirmed" /\ row[j].due
                  /\ Cardinality({i \in Jobs : i < j /\ Live(i) /\ row[i].due}) < BatchLimit}

\* The first BatchLimit due rows in rowid order.
DueRows ==
    {j \in Jobs : Live(j) /\ row[j].due
                  /\ Cardinality({i \in Jobs : i < j /\ Live(i) /\ row[i].due}) < BatchLimit}

Orderings(S) ==
    {s \in [1 .. Cardinality(S) -> S] : \A i, j \in 1 .. Cardinality(S) : i < j => s[i] < s[j]}

\* tick: one batch at a time, none once close was called.
Tick(w) ==
    /\ worker[w].pc = "idle" /\ ~worker[w].closing
    /\ DueRows # {}
    /\ \E ids \in Orderings(DueRows) :
       worker' = [worker EXCEPT ![w].pc = "next",
                                ![w].batch = [i \in DOMAIN ids |-> [id |-> ids[i], tx |-> row[ids[i]].tx,
                                                                    generations |-> row[ids[i]].generations]]]
    /\ UNCHANGED <<database, chain, faults, stops>>

\* The loop over the batch, with the rows as the tick read them.
NextJob(w) ==
    LET batch == worker[w].batch IN
    /\ worker[w].pc = "next"
    /\ \/ /\ batch = <<>>
          /\ worker' = [worker EXCEPT ![w].pc = "idle", ![w].job = None, ![w].tx = None, ![w].state = None]
       \/ /\ batch # <<>>
          /\ worker' = [worker EXCEPT ![w].pc = IF Head(batch).tx # None THEN "inspect" ELSE "existingAgain",
                                      ![w].job = Head(batch).id, ![w].tx = Head(batch).tx, ![w].state = None]
    /\ UNCHANGED <<database, chain, faults, stops>>

Close(w) ==
    /\ worker[w].pc # "down" /\ ~worker[w].closing
    /\ stops < MaxStops /\ stops' = stops + 1
    /\ worker' = [worker EXCEPT ![w].closing = TRUE]
    /\ UNCHANGED <<database, chain, faults>>

\* close finishes after the running tick and deletes its own owner row.
Closed(w) ==
    /\ worker[w].pc = "idle" /\ worker[w].closing
    /\ owner' = IF owner = w THEN None ELSE owner
    /\ worker' = [worker EXCEPT ![w] = Down]
    /\ UNCHANGED <<row, chain, faults, stops>>

Crash(w) ==
    /\ worker[w].pc # "down"
    /\ stops < MaxStops /\ stops' = stops + 1
    /\ worker' = [worker EXCEPT ![w] = Down]
    /\ UNCHANGED <<database, chain, faults>>

-----------------------------------------------------------------------------
(* Job processing. *)

Advance(w, pc) == [worker EXCEPT ![w].pc = pc]
Done(w) == [worker EXCEPT ![w].pc = "next", ![w].batch = Tail(@)]

Confirmed(j) == [row EXCEPT ![j].status = "confirmed"]
Failed(j) == [row EXCEPT ![j].status = "failed"]
Retry(j) == [row EXCEPT ![j].due = FALSE]

TxStateOptimistic(t) ==
    CASE txs[t].state \in {"signed", "sent"} -> "missing"
      [] txs[t].state = "failed" -> "failed"
      [] txs[t].state \in {"included", "ok"} -> "confirmed"

\* inspect: getSignatureStatuses with history, then the commitment account.
TxState(t) ==
    CASE txs[t].state \in {"signed", "sent"} -> "missing"
      [] txs[t].state = "included" -> "pending"
      [] txs[t].state = "failed" -> "failed"
      [] txs[t].state = "ok" -> "confirmed"

\* A node that lags or has a gap in its history may still answer with an
\* earlier state of the transaction, a bounded number of times.
Stale(t) ==
    CASE txs[t].state \in {"ok", "failed"} -> {"missing", "pending"}
      [] txs[t].state = "included" -> {"missing"}
      [] OTHER -> {}

Reports(t, state) ==
    \/ state = TxState(t) /\ UNCHANGED faults
    \/ state \in Stale(t) /\ faults < MaxFaults /\ faults' = faults + 1

At(w, pc) == worker[w].pc = pc

Inspect(w, state) ==
    LET j == worker[w].job IN
    /\ At(w, "inspect") /\ Reports(worker[w].tx, state)
    /\ \/ state = "confirmed" /\ row' = Confirmed(j) /\ worker' = Done(w)
       \/ /\ state # "confirmed"
          /\ worker' = [worker EXCEPT ![w].pc = "existing", ![w].state = state]
          /\ UNCHANGED row
    /\ UNCHANGED <<owner, chain, stops>>

\* confirm: a finalized commitment account that matches the payload, one of the
\* same nullifier that does not, which throws, or none.
CommitmentFinalized(j) == j \in committed
Mismatched(j) == ext[j].finalized /\ ~ext[j].matches
Free(j) == ~CommitmentFinalized(j) /\ ~Mismatched(j)

\* confirmExisting reads the finalized commitment account, whoever submitted it;
\* what it throws ends in the catch of tick.
Existing(w) ==
    LET j == worker[w].job
        state == worker[w].state
    IN
    /\ At(w, "existing")
    /\ \/ CommitmentFinalized(j) /\ row' = Confirmed(j) /\ worker' = Done(w)
       \/ Mismatched(j) /\ row' = Retry(j) /\ worker' = Done(w)
       \/ Free(j) /\ state = "failed" /\ row' = Failed(j) /\ worker' = Done(w)
       \/ Free(j) /\ state = "pending" /\ row' = Retry(j) /\ worker' = Done(w)
       \/ Free(j) /\ state = "missing" /\ worker' = Advance(w, "expired") /\ UNCHANGED row
    /\ UNCHANGED <<owner, chain, faults, stops>>

Expired(t) == height > txs[t].lastValid

CheckExpired(w) ==
    /\ At(w, "expired")
    /\ worker' = Advance(w, IF Expired(worker[w].tx) THEN "inspectAgain" ELSE "eligible")
    /\ UNCHANGED <<database, chain, faults, stops>>

\* The history is read once more after the expiry was seen.
InspectAgain(w, state) ==
    LET j == worker[w].job IN
    /\ At(w, "inspectAgain") /\ Reports(worker[w].tx, state)
    /\ \/ state = "confirmed" /\ row' = Confirmed(j) /\ worker' = Done(w)
       \/ state = "failed" /\ row' = Failed(j) /\ worker' = Done(w)
       \/ state = "pending" /\ row' = Retry(j) /\ worker' = Done(w)
       \/ /\ state = "missing"
          /\ worker' = [worker EXCEPT ![w].pc = "existingAgain", ![w].tx = None]
          /\ UNCHANGED row
    /\ UNCHANGED <<owner, chain, stops>>

ExistingAgain(w) ==
    LET j == worker[w].job IN
    /\ At(w, "existingAgain")
    /\ \/ CommitmentFinalized(j) /\ row' = Confirmed(j) /\ worker' = Done(w)
       \/ Mismatched(j) /\ row' = Retry(j) /\ worker' = Done(w)
       \/ Free(j) /\ worker' = Advance(w, "eligible") /\ UNCHANGED row
    /\ UNCHANGED <<owner, chain, faults, stops>>

\* eligible: verifier, policy version, root and an unused nullifier, finalized.
Eligible(j) == policyOk /\ Free(j)

CheckEligibleAbandoning(w) ==
    LET j == worker[w].job IN
    /\ At(w, "eligible")
    /\ \/ ~Eligible(j) /\ row' = Failed(j) /\ worker' = Done(w)
       \/ Eligible(j) /\ worker' = Advance(w, IF worker[w].tx # None THEN "send" ELSE "prepare") /\ UNCHANGED row
    /\ UNCHANGED <<owner, chain, faults, stops>>

CheckEligibleForever(w) ==
    LET j == worker[w].job IN
    /\ At(w, "eligible")
    /\ \/ ~Eligible(j) /\ row' = Retry(j) /\ worker' = Done(w)
       \/ Eligible(j) /\ worker' = Advance(w, IF worker[w].tx # None THEN "send" ELSE "prepare") /\ UNCHANGED row
    /\ UNCHANGED <<owner, chain, faults, stops>>

CheckEligible(w) ==
    LET j == worker[w].job
        tx == worker[w].tx
        generations == Head(worker[w].batch).generations
    IN
    /\ At(w, "eligible")
    /\ \/ ~Eligible(j) /\ tx # None /\ row' = Retry(j) /\ worker' = Done(w)
       \/ ~Eligible(j) /\ tx = None /\ row' = Failed(j) /\ worker' = Done(w)
       \/ Eligible(j) /\ tx # None /\ worker' = Advance(w, "send") /\ UNCHANGED row
       \/ /\ Eligible(j) /\ tx = None /\ generations >= MaxGenerations
          /\ row' = Failed(j) /\ worker' = Done(w)
       \/ /\ Eligible(j) /\ tx = None /\ generations < MaxGenerations
          /\ worker' = Advance(w, "prepare") /\ UNCHANGED row
    /\ UNCHANGED <<owner, chain, faults, stops>>

\* prepare: signed with a finalized blockhash, not sent.
NewTransaction(j) == [job |-> j, lastValid |-> height + Validity, state |-> "signed", block |-> 0]

PrepareUnsaved(w) ==
    LET j == worker[w].job IN
    /\ At(w, "prepare")
    /\ txs' = Append(txs, NewTransaction(j))
    /\ row' = [row EXCEPT ![j].status = "submitted", ![j].generations = @ + 1]
    /\ worker' = [worker EXCEPT ![w].pc = "send", ![w].tx = Len(txs')]
    /\ UNCHANGED <<owner, ext, committed, height, policyOk, faults, stops>>

\* Signed with a finalized blockhash and persisted before anything is sent.
Prepare(w) ==
    LET j == worker[w].job IN
    /\ At(w, "prepare")
    /\ txs' = Append(txs, NewTransaction(j))
    /\ row' = [row EXCEPT ![j].status = "submitted", ![j].tx = Len(txs'), ![j].generations = @ + 1]
    /\ worker' = [worker EXCEPT ![w].pc = "send", ![w].tx = Len(txs')]
    /\ UNCHANGED <<owner, ext, committed, height, policyOk, faults, stops>>

Broadcast(t) == [txs EXCEPT ![t].state = IF @ = "signed" THEN "sent" ELSE @]

\* Preflight simulates on finalized state; what passes is broadcast.
Send(w) ==
    /\ At(w, "send")
    /\ Eligible(worker[w].job) /\ ~Expired(worker[w].tx)
    /\ txs' = Broadcast(worker[w].tx)
    /\ row' = Retry(worker[w].job)
    /\ worker' = Done(w)
    /\ UNCHANGED <<owner, ext, committed, height, policyOk, faults, stops>>

\* What preflight refuses is an exception: nothing is broadcast.
SendRefused(w) ==
    /\ At(w, "send")
    /\ ~Eligible(worker[w].job) \/ Expired(worker[w].tx)
    /\ row' = Retry(worker[w].job)
    /\ worker' = Done(w)
    /\ UNCHANGED <<owner, chain, faults, stops>>

\* Any RPC call may fail or time out, a send after the broadcast as well; the
\* catch in tick schedules a retry and goes on with the next job.
RpcFault(w) ==
    /\ worker[w].pc \in RpcPoints
    /\ faults < MaxFaults /\ faults' = faults + 1
    /\ \/ UNCHANGED txs
       \/ /\ At(w, "send") /\ Eligible(worker[w].job) /\ ~Expired(worker[w].tx)
          /\ txs' = Broadcast(worker[w].tx)
    /\ row' = Retry(worker[w].job)
    /\ worker' = Done(w)
    /\ UNCHANGED <<owner, ext, committed, height, policyOk, stops>>

\* retry_at passes.
RetryDue(j) ==
    /\ Live(j) /\ ~row[j].due
    /\ row' = [row EXCEPT ![j].due = TRUE]
    /\ UNCHANGED <<owner, worker, chain, faults, stops>>

-----------------------------------------------------------------------------
(* The cluster, another relay and the policy authority. *)

Included(j, b) == ext[j].block = b \/ \E t \in DOMAIN txs : txs[t].job = j /\ txs[t].state = "included" /\ txs[t].block = b

Include(t, b) ==
    /\ txs[t].state = "sent"
    /\ b <= txs[t].lastValid
    /\ ~Included(txs[t].job, b)
    /\ txs' = [txs EXCEPT ![t].state = "included", ![t].block = b]
    /\ UNCHANGED <<database, worker, ext, committed, height, policyOk, faults, stops>>

\* The fork that held the block is abandoned; the transaction may come back.
Abandon(t) ==
    /\ txs[t].state = "included"
    /\ txs' = [txs EXCEPT ![t].state = "sent", ![t].block = 0]
    /\ UNCHANGED <<database, worker, ext, committed, height, policyOk, faults, stops>>

\* Another relay's submission, of the same observation or of another one that
\* the verifier key authorized under this nullifier (a restored service, say).
IncludeOther(j, b, matches) ==
    /\ ext[j] = NoOther /\ Eligible(j)
    /\ ~Included(j, b)
    /\ ext' = [ext EXCEPT ![j] = [block |-> b, matches |-> matches, finalized |-> FALSE]]
    /\ UNCHANGED <<database, worker, txs, committed, height, policyOk, faults, stops>>

Undecided ==
    \/ \E t \in DOMAIN txs : txs[t].state \in {"signed", "sent", "included"} /\ ~Expired(t)
    \/ \E j \in Jobs : ext[j].block > height

\* The next block is finalized: submit_observation succeeds for a nullifier
\* that is free, under the policy the authorization was signed for.
FinalizeBlock ==
    LET b == height + 1
        succeeds == {j \in Jobs : Eligible(j) /\ Included(j, b)}
        foreign == {j \in succeeds : ext[j].block = b /\ ~ext[j].matches}
    IN
    /\ height < MaxHeight \/ Undecided
    /\ height' = b
    /\ committed' = committed \cup (succeeds \ foreign)
    /\ ext' = [j \in Jobs |-> IF j \in foreign THEN [ext[j] EXCEPT !.finalized = TRUE] ELSE ext[j]]
    /\ txs' = [t \in DOMAIN txs |->
                  IF txs[t].state = "included" /\ txs[t].block = b
                  THEN [txs[t] EXCEPT !.state = IF txs[t].job \in succeeds \ foreign THEN "ok" ELSE "failed"]
                  ELSE txs[t]]
    /\ UNCHANGED <<database, worker, policyOk, faults, stops>>

\* A new verifier key or policy version, or the root leaves the ring.
ChangePolicy ==
    /\ policyOk
    /\ policyOk' = FALSE
    /\ UNCHANGED <<database, worker, txs, ext, committed, height, faults, stops>>

-----------------------------------------------------------------------------
WorkerStep(w) ==
    \/ Tick(w) \/ NextJob(w) \/ Closed(w)
    \/ \E state \in {"missing", "pending", "failed", "confirmed"} : Inspect(w, state) \/ InspectAgain(w, state)
    \/ Existing(w) \/ CheckExpired(w) \/ ExistingAgain(w)
    \/ CheckEligible(w) \/ Prepare(w) \/ Send(w) \/ SendRefused(w)

ClusterStep ==
    \/ \E t \in DOMAIN txs, b \in height + 1 .. height + Lag : Include(t, b)
    \/ \E t \in DOMAIN txs : Abandon(t)
    \/ \E j \in Jobs, b \in height + 1 .. height + Lag, matches \in BOOLEAN : IncludeOther(j, b, matches)
    \/ FinalizeBlock
    \/ ChangePolicy

Next ==
    \/ \E w \in Workers : Open(w) \/ WorkerStep(w) \/ Close(w) \/ Crash(w) \/ RpcFault(w)
    \/ \E j \in Jobs : RetryDue(j)
    \/ ClusterStep

Spec == Init /\ [][Next]_vars

\* A supervisor reopens the worker under a free pid, the scheduler keeps calling tick, every
\* request ends within its timeout, retry_at passes and the cluster goes on
\* finalizing.  Nothing is assumed about whether a transaction is included.
FairSpec ==
    /\ Spec
    /\ WF_vars(\E w \in Workers : Open(w))
    /\ \A w \in Workers : WF_vars(WorkerStep(w))
    /\ \A j \in Jobs : WF_vars(RetryDue(j))
    /\ WF_vars(FinalizeBlock)

-----------------------------------------------------------------------------
(* Properties. *)

\* A job is confirmed only with its matching commitment finalized, although
\* workers die, answers are lost and other relays submit the same observation.
ConfirmedOnChain == \A j \in Jobs : row[j].status = "confirmed" => j \in committed

\* The only transaction of a job that can still reach the chain is the one in
\* its row: it was saved before it was sent, and never replaced while valid.
OneLiveTransaction ==
    \A t \in DOMAIN txs :
        txs[t].state \in {"sent", "included"} /\ ~Expired(t) => row[txs[t].job].tx = t

\* A job is given up only when none of its own transactions succeeded or still
\* can: a later confirmation wins over a changed policy.
OwnOutcomeKept ==
    \A t \in DOMAIN txs :
        row[txs[t].job].status = "failed" =>
            /\ txs[t].state # "ok"
            /\ txs[t].state \in {"sent", "included"} => Expired(t)

\* What was signed for a job is never lost sight of: crashes, lost answers and
\* a second worker leave one transaction at most that can still land, in its
\* row, and a job is not given up while one of its own may have succeeded.
TransactionsTracked == OneLiveTransaction /\ OwnOutcomeKept

\* Every validated observation is eventually confirmed or failed, unless a
\* commitment to another observation takes its nullifier: confirm throws on that
\* one, and the job is retried for ever.
EverySettled == \A j \in Jobs : <>(row[j].status \in {"confirmed", "failed"} \/ Mismatched(j))

\* At most MaxGenerations transactions are ever signed for one observation.
GenerationLimit ==
    \A j \in Jobs : Cardinality({t \in DOMAIN txs : txs[t].job = j}) <= MaxGenerations

Delivery == INSTANCE ObservationDelivery WITH
    onChain <- committed,
    outcome <- [j \in Jobs |-> IF Live(j) THEN "open" ELSE row[j].status]

\* The worker implements the delivery promise: settled rows stay settled and
\* agree with the chain.
ImplementsDelivery == Delivery!Safety

\* An externally finalized matching commitment resolves a job: the worker never
\* gives up a job whose commitment is on chain.
NeverFailsCommitted ==
    [][\A j \in Jobs : row[j].status # "failed" /\ row'[j].status = "failed" => j \notin committed]_vars

\* The database and the chain agree: rows are well formed, a confirmed one is on
\* chain, and no job was signed more often than the limit allows.
RowsConsistent == TypeOK /\ ConfirmedOnChain /\ GenerationLimit
=============================================================================
