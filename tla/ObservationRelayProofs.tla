---------------------- MODULE ObservationRelayProofs ----------------------
(* Theorems about ObservationRelay, for every number of jobs and processes,  *)
(* every batch limit, validity and number of faults.                         *)
EXTENDS ObservationRelay, FiniteSetTheorems, TLAPS

-----------------------------------------------------------------------------
(* The inductive invariant. *)

\* A process that runs has the owner row, so that there is one of them.
OneOwner == \A w \in Workers : worker[w].pc # "down" => owner = w

\* The rest of the batch is as the tick read it: its jobs are distinct and
\* live, and their rows have not changed.  Only the job being sent has a newer
\* transaction in its row.
BatchAt(w) ==
    LET b == worker[w].batch IN
    /\ \A i, k \in DOMAIN b : b[i].id = b[k].id => i = k
    /\ \A i \in DOMAIN b :
        /\ Live(b[i].id)
        /\ (i = 1 /\ worker[w].pc = "send")
           \/ (row[b[i].id].tx = b[i].tx /\ row[b[i].id].generations = b[i].generations)

BatchSound == \A w \in Workers : worker[w].pc \notin {"down", "idle"} => BatchAt(w)

\* What a worker knows of its job at each await: the transaction it holds is
\* the row's; an answer "failed" is true; the row's transaction is set aside
\* only when it has expired and was not finalized.
Knows(j, pc, tx, state) ==
    /\ tx # None => row[j].tx = tx
    /\ pc \in {"inspect", "existing", "expired", "inspectAgain", "send"} => tx # None
    /\ pc \in {"existingAgain", "prepare"} => tx = None
    /\ pc = "existing" /\ state = "failed" => txs[tx].state = "failed"
    /\ pc = "inspectAgain" => Expired(tx)
    /\ tx = None /\ row[j].tx # None => Expired(row[j].tx)
    /\ pc \in {"eligible", "prepare"} /\ tx = None =>
          \A t \in DOMAIN txs : txs[t].job = j => txs[t].state # "ok"

WorkerAt(w) ==
    /\ worker[w].batch # <<>> /\ worker[w].job = worker[w].batch[1].id
    /\ Knows(worker[w].job, worker[w].pc, worker[w].tx, worker[w].state)
    /\ worker[w].pc = "prepare" => worker[w].batch[1].generations < MaxGenerations

WorkersSound == \A w \in Workers : worker[w].pc \in RpcPoints => WorkerAt(w)

\* A transaction is included in a block that is still to come, before it
\* expires; one that succeeded is the row's.
TxsSound ==
    \A t \in DOMAIN txs :
        /\ txs[t].state = "included" => height < txs[t].block /\ txs[t].block <= txs[t].lastValid
        /\ txs[t].state = "ok" => txs[t].job \in committed /\ row[txs[t].job].tx = t

Signed(j) == {t \in DOMAIN txs : txs[t].job = j}

RowsSound ==
    \A j \in Jobs :
        /\ row[j].tx # None => row[j].tx \in DOMAIN txs /\ txs[row[j].tx].job = j
        /\ row[j].generations <= MaxGenerations
        /\ Cardinality(Signed(j)) = row[j].generations

IInv ==
    /\ TypeOK /\ ConfirmedOnChain /\ OneLiveTransaction /\ OwnOutcomeKept
    /\ OneOwner /\ BatchSound /\ WorkersSound /\ TxsSound /\ RowsSound

-----------------------------------------------------------------------------
(* Types. *)

RowRecord == [status: Statuses, tx: Nat \cup {None}, generations: Nat, due: BOOLEAN]
Entry == [id: Jobs, tx: Nat \cup {None}, generations: Nat]
Submission == [block: Nat, matches: BOOLEAN, finalized: BOOLEAN]
WorkerRecord == [pc: RpcPoints \cup {"down", "idle", "next"}, closing: BOOLEAN, batch: Seq(Entry),
                 job: Jobs \cup {None}, tx: Nat \cup {None}, state: {None, "missing", "pending", "failed"}]
Transaction == [job: Jobs, lastValid: Nat, state: TxStates, block: Nat]

\* The type invariant over the named record sets.
Typed ==
    /\ row \in [Jobs -> RowRecord] /\ owner \in Workers \cup {None}
    /\ worker \in [Workers -> WorkerRecord] /\ txs \in Seq(Transaction)
    /\ ext \in [Jobs -> Submission] /\ committed \subseteq Jobs /\ height \in Nat
    /\ policyOk \in BOOLEAN /\ faults \in Nat /\ stops \in Nat

LEMMA Types == (TypeOK <=> Typed) /\ (TypeOK' <=> Typed')
  BY Zenon DEF TypeOK, Typed, RowRecord, Entry, Submission, WorkerRecord, Transaction

\* Nothing is signed, and no process runs.
LEMMA InitIInv == Init => IInv
  <1> SUFFICES ASSUME Init PROVE IInv
    OBVIOUS
  <1> USE RelayAssumption DEF Init
  <1>1. TypeOK
    BY DEF TypeOK, NewRow, NoOther, Down, Statuses
  <1>2. ConfirmedOnChain /\ OneLiveTransaction /\ OwnOutcomeKept /\ OneOwner
    BY DEF ConfirmedOnChain, OneLiveTransaction, OwnOutcomeKept, OneOwner, NewRow, Down
  <1>3. BatchSound /\ WorkersSound /\ TxsSound
    BY DEF BatchSound, WorkersSound, TxsSound, Down, RpcPoints
  <1>4. RowsSound
    <2>1. \A j \in Jobs : Cardinality(Signed(j)) = 0
      <3>1. \A j \in Jobs : Signed(j) = {}
        BY DEF Signed
      <3> QED
        BY <3>1, FS_EmptySet
    <2> QED
      BY <2>1 DEF RowsSound, NewRow
  <1> QED
    BY <1>1, <1>2, <1>3, <1>4 DEF IInv

-----------------------------------------------------------------------------
(* Steps of the process. *)

\* Only the owner runs.
LEMMA Alone ==
    ASSUME IInv, NEW w \in Workers, worker[w].pc # "down"
    PROVE  \A v \in Workers : v # w => worker[v].pc = "down"
  BY DEF IInv, OneOwner

\* Facts about every transaction and row stay when neither changes.
LEMMA ChainFrame ==
    ASSUME IInv, UNCHANGED <<row, txs, committed, height>>
    PROVE  ConfirmedOnChain' /\ OneLiveTransaction' /\ OwnOutcomeKept' /\ TxsSound' /\ RowsSound'
  BY DEF IInv, ConfirmedOnChain, OneLiveTransaction, OwnOutcomeKept, TxsSound, RowsSound, Signed, Expired

\* A running process that goes on with its job, or with none, keeps the
\* invariant when what it knows of its job is true.
LEMMA WorkerMoves ==
    ASSUME IInv, NEW w \in Workers, NEW r \in WorkerRecord,
           \A v \in Workers : v # w => worker[v].pc = "down",
           worker' = [worker EXCEPT ![w] = r],
           owner' \in Workers \cup {None}, r.pc # "down" => owner' = w,
           UNCHANGED <<row, chain>>, faults' \in Nat, stops' \in Nat,
           r.pc \notin {"down", "idle"} => BatchAt(w)',
           r.pc \in RpcPoints => WorkerAt(w)'
    PROVE  IInv'
  <1>1. worker \in [Workers -> WorkerRecord] /\ TypeOK
    BY Types DEF IInv, Typed
  <1>2. worker'[w] = r /\ \A v \in Workers : v # w => worker'[v] = worker[v]
    BY <1>1
  <1>3. TypeOK'
    <2>1. worker' \in [Workers -> WorkerRecord]
      BY <1>1
    <2> QED
      BY <1>1, <2>1, Types, SMTT(40) DEF chain, Typed
  <1>4. OneOwner'
    BY <1>2 DEF OneOwner, IInv
  <1>5. BatchSound'
    BY <1>2, <1>1 DEF BatchSound, BatchAt, IInv, Live, chain
  <1>6. WorkersSound'
    BY <1>2, <1>1 DEF WorkersSound, WorkerAt, Knows, IInv, Expired, chain
  <1> QED
    BY <1>3, <1>4, <1>5, <1>6, ChainFrame DEF IInv, chain
\* The process opens the database, reads a batch, takes the next job from it,
\* is told to stop, stops or dies.
LEMMA ProcessSteps ==
    ASSUME IInv, NEW w \in Workers,
           Open(w) \/ Tick(w) \/ NextJob(w) \/ Close(w) \/ Closed(w) \/ Crash(w)
    PROVE  IInv'
  <1> USE RelayAssumption
  <1>1. Typed
    BY Types DEF IInv
  <1>2. worker[w] \in WorkerRecord /\ worker \in [Workers -> WorkerRecord]
    BY <1>1 DEF Typed
  <1>3. Down \in WorkerRecord /\ [Down EXCEPT !.pc = "idle"] \in WorkerRecord
    <2>1. <<>> \in Seq(Entry)
      OBVIOUS
    <2> QED
      BY <2>1 DEF WorkerRecord, Down
  <1>4. CASE Open(w)
    <2>1. \A v \in Workers : v # w => worker[v].pc = "down"
      BY <1>4 DEF Open, OwnerIsDead, IInv, OneOwner
    <2>2. [Down EXCEPT !.pc = "idle"].pc = "idle"
      BY DEF Down
    <2> QED
      BY <1>1, <1>3, <1>4, <2>1, <2>2, WorkerMoves DEF Open, Typed, RpcPoints
  <1>5. ASSUME worker[w].pc # "down" PROVE \A v \in Workers : v # w => worker[v].pc = "down"
    BY <1>5, Alone
  <1>6. ASSUME worker[w].pc # "down" PROVE owner = w
    BY <1>6 DEF IInv, OneOwner
  <1>7. CASE Tick(w)
    <2>1. PICK ids \in Orderings(DueRows) :
             worker' = [worker EXCEPT ![w].pc = "next",
                                ![w].batch = [i \in DOMAIN ids |-> [id |-> ids[i], tx |-> row[ids[i]].tx,
                                                                    generations |-> row[ids[i]].generations]]]
      BY <1>7 DEF Tick
    <2> DEFINE b == [i \in DOMAIN ids |-> [id |-> ids[i], tx |-> row[ids[i]].tx, generations |-> row[ids[i]].generations]]
               r == [worker[w] EXCEPT !.pc = "next", !.batch = b]
    <2>2. DueRows \subseteq Jobs /\ IsFiniteSet(DueRows) /\ \A j \in DueRows : Live(j)
      BY FS_Subset DEF DueRows
    <2>3. Cardinality(DueRows) \in Nat
      BY <2>2, FS_CardinalityType
    <2>4. /\ DOMAIN ids = 1 .. Cardinality(DueRows)
          /\ \A i \in DOMAIN ids : ids[i] \in DueRows
          /\ \A i, k \in DOMAIN ids : i < k => ids[i] < ids[k]
      BY DEF Orderings
    <2>5. \A i \in DOMAIN ids : b[i] \in Entry
      BY <2>2, <2>4, <1>1 DEF Typed, RowRecord, Entry
    <2>6. b \in Seq(Entry)
      <3>1. b \in [1 .. Cardinality(DueRows) -> Entry]
        BY <2>4, <2>5
      <3> QED
        BY <2>3, <3>1
    <2>7. r \in WorkerRecord /\ r.pc = "next" /\ r.batch = b
      BY <1>2, <2>6 DEF WorkerRecord
    <2>8. worker' = [worker EXCEPT ![w] = r] /\ worker'[w] = r
      BY <2>1, <1>2
    <2>9. BatchAt(w)'
      <3>1. worker[w].pc = "idle" /\ row' = row
        BY <1>7 DEF Tick, database
      <3>2. \A i, k \in DOMAIN b : b[i].id = b[k].id => i = k
        <4>1. \A i \in DOMAIN ids : ids[i] \in Nat /\ i \in Nat
          <5>1. DueRows \subseteq Nat
            BY <2>2
          <5>2. PICK n \in Nat : DOMAIN ids = 1 .. n
            BY <2>3, <2>4
          <5>3. \A i \in DOMAIN ids : i \in Nat
            BY <5>2
          <5>4. \A i \in DOMAIN ids : ids[i] \in Nat
            BY <5>1, <2>4
          <5> QED
            BY <5>3, <5>4
        <4>2. \A i, k \in DOMAIN ids : ids[i] = ids[k] => i = k
          BY <2>4, <4>1
        <4> QED
          BY <4>2
      <3>3. \A i \in DOMAIN b : Live(b[i].id) /\ row[b[i].id].tx = b[i].tx /\ row[b[i].id].generations = b[i].generations
        BY <2>2, <2>4
      <3> HIDE DEF b, r
      <3> QED
        BY <2>7, <2>8, <3>1, <3>2, <3>3 DEF BatchAt, Live
    <2>10. /\ worker[w].pc # "down" /\ owner' = owner
           /\ UNCHANGED <<row, chain>> /\ UNCHANGED faults /\ UNCHANGED stops
      BY <1>7 DEF Tick, database
    <2> HIDE DEF r
    <2> QED
      BY <1>1, <1>5, <1>6, <2>7, <2>8, <2>9, <2>10, WorkerMoves DEF Typed, RpcPoints
  <1>8. CASE NextJob(w)
    <2> DEFINE batch == worker[w].batch
               stop == [worker[w] EXCEPT !.pc = "idle", !.job = None, !.tx = None, !.state = None]
               next == [worker[w] EXCEPT !.pc = IF Head(batch).tx # None THEN "inspect" ELSE "existingAgain",
                                         !.job = Head(batch).id, !.tx = Head(batch).tx, !.state = None]
    <2>1. worker[w].pc = "next" /\ UNCHANGED <<row, chain>> /\ UNCHANGED <<owner, faults, stops>>
      BY <1>8 DEF NextJob, database
    <2>2. CASE batch = <<>>
      <3>1. stop \in WorkerRecord /\ stop.pc = "idle"
        BY <1>2 DEF WorkerRecord
      <3>2. worker' = [worker EXCEPT ![w] = stop]
        BY <1>8, <1>2, <2>2 DEF NextJob
      <3> HIDE DEF stop
      <3> QED
        BY <1>1, <1>5, <1>6, <2>1, <3>1, <3>2, WorkerMoves DEF Typed, RpcPoints
    <2>3. CASE batch # <<>>
      <3>1. batch \in Seq(Entry) /\ Head(batch) = batch[1] /\ 1 \in DOMAIN batch /\ batch[1] \in Entry
        BY <1>2, <2>3 DEF WorkerRecord
      <3>2. /\ next \in WorkerRecord /\ next.pc \in {"inspect", "existingAgain"}
            /\ next.batch = batch /\ next.job = batch[1].id /\ next.tx = batch[1].tx
            /\ next.pc = "inspect" <=> next.tx # None
        BY <1>2, <3>1 DEF WorkerRecord, RpcPoints, Entry
      <3>3. worker' = [worker EXCEPT ![w] = next] /\ worker'[w] = next
        BY <1>8, <1>2, <2>3 DEF NextJob
      <3>4. BatchAt(w)
        BY <2>1, SMTT(40) DEF IInv, BatchSound
      <3> HIDE DEF next
      <3>5. BatchAt(w)'
        BY <3>2, <3>3, <3>4, <2>1 DEF BatchAt, Live
      <3>6. WorkerAt(w)'
        BY <3>1, <3>2, <3>3, <3>4, <2>1, <2>3 DEF BatchAt, WorkerAt, Knows
      <3> QED
        BY <1>1, <1>5, <1>6, <2>1, <3>2, <3>3, <3>5, <3>6, WorkerMoves DEF Typed
    <2> QED
      BY <2>2, <2>3, SMTT(40)
  <1>9. CASE Close(w)
    <2> DEFINE r == [worker[w] EXCEPT !.closing = TRUE]
    <2>1. worker[w].pc # "down" /\ UNCHANGED <<row, chain>> /\ UNCHANGED <<owner, faults>> /\ stops' = stops + 1
      BY <1>9 DEF Close, database
    <2>2. /\ r \in WorkerRecord /\ r.pc = worker[w].pc /\ r.batch = worker[w].batch
          /\ r.job = worker[w].job /\ r.tx = worker[w].tx /\ r.state = worker[w].state
      BY <1>2 DEF WorkerRecord
    <2>3. worker' = [worker EXCEPT ![w] = r] /\ worker'[w] = r
      BY <1>9, <1>2 DEF Close
    <2> HIDE DEF r
    <2>4. r.pc \notin {"down", "idle"} => BatchAt(w)'
      BY <2>1, <2>2, <2>3 DEF IInv, BatchSound, BatchAt, Live
    <2>5. r.pc \in RpcPoints => WorkerAt(w)'
      BY <2>1, <2>2, <2>3 DEF IInv, WorkersSound, WorkerAt, Knows, chain, Expired
    <2>6. faults' \in Nat /\ stops' \in Nat /\ owner' = w
      BY <1>1, <1>6, <2>1 DEF Typed
    <2> QED
      BY <1>5, <2>1, <2>2, <2>3, <2>4, <2>5, <2>6, WorkerMoves
  <1>10. CASE Closed(w) \/ Crash(w)
    <2>1. /\ worker[w].pc # "down" /\ worker' = [worker EXCEPT ![w] = Down]
          /\ UNCHANGED <<row, chain>> /\ faults' = faults /\ stops' \in Nat
          /\ owner' \in Workers \cup {None}
      BY <1>1, <1>10 DEF Closed, Crash, database, Typed
    <2>2. Down.pc = "down"
      BY DEF Down
    <2> QED
      BY <1>1, <1>3, <1>5, <2>1, <2>2, WorkerMoves DEF Typed, RpcPoints
  <1> QED
    BY <1>4, <1>7, <1>8, <1>9, <1>10
-----------------------------------------------------------------------------
(* Steps of a job. *)

\* Where a worker awaits an answer, its job is the live head of its batch.
LEMMA Working ==
    ASSUME IInv, NEW w \in Workers, worker[w].pc \in RpcPoints
    PROVE  /\ worker[w] \in WorkerRecord /\ worker[w].job \in Jobs
           /\ worker[w].batch \in Seq(Entry) /\ 1 \in DOMAIN worker[w].batch
           /\ Head(worker[w].batch) = worker[w].batch[1]
           /\ worker[w].job = worker[w].batch[1].id
           /\ Live(worker[w].job) /\ BatchAt(w) /\ WorkerAt(w)
           /\ owner = w /\ \A v \in Workers : v # w => worker[v].pc = "down"
  <1>1. worker[w] \in WorkerRecord
    BY Types DEF IInv, Typed
  <1>2. WorkerAt(w) /\ BatchAt(w) /\ worker[w].pc # "down"
    BY DEF IInv, WorkersSound, BatchSound, RpcPoints
  <1>3. worker[w].batch \in Seq(Entry) /\ worker[w].batch # <<>>
    BY <1>1, <1>2 DEF WorkerRecord, WorkerAt
  <1>4. 1 \in DOMAIN worker[w].batch /\ worker[w].batch[1] \in Entry /\ Head(worker[w].batch) = worker[w].batch[1]
    BY <1>3
  <1>5. worker[w].job = worker[w].batch[1].id /\ worker[w].job \in Jobs
    BY <1>2, <1>4 DEF WorkerAt, Entry
  <1>6. Live(worker[w].job)
    BY <1>2, <1>4, <1>5 DEF BatchAt
  <1> QED
    BY <1>1, <1>2, <1>3, <1>4, <1>5, <1>6, Alone DEF IInv, OneOwner

\* None of a job's own transactions succeeded or still can.
Hopeless(j) ==
    \A t \in DOMAIN txs :
        txs[t].job = j => txs[t].state # "ok" /\ (txs[t].state \in {"sent", "included"} => Expired(t))

\* A broadcast changes the state of a signed transaction and nothing else.
LEMMA BroadcastFacts ==
    ASSUME Typed, NEW x, txs' = Broadcast(x)
    PROVE  /\ txs' \in Seq(Transaction) /\ DOMAIN txs' = DOMAIN txs
           /\ \A t \in DOMAIN txs :
                 /\ txs'[t].job = txs[t].job /\ txs'[t].lastValid = txs[t].lastValid /\ txs'[t].block = txs[t].block
                 /\ txs'[t].state = IF t = x /\ txs[t].state = "signed" THEN "sent" ELSE txs[t].state
  <1> DEFINE y == [txs[x] EXCEPT !.state = IF @ = "signed" THEN "sent" ELSE @]
  <1>1. txs \in Seq(Transaction) /\ txs' = [txs EXCEPT ![x] = y]
    BY DEF Typed, Broadcast
  <1>2. CASE x \in DOMAIN txs
    <2>1. txs[x] \in Transaction
      BY <1>1, <1>2
    <2>2. /\ y \in Transaction /\ y.job = txs[x].job /\ y.lastValid = txs[x].lastValid /\ y.block = txs[x].block
          /\ y.state = IF txs[x].state = "signed" THEN "sent" ELSE txs[x].state
      BY <2>1 DEF Transaction, TxStates
    <2> HIDE DEF y
    <2> QED
      BY <1>1, <1>2, <2>2
  <1>3. CASE x \notin DOMAIN txs
    <2>1. txs' = txs
      BY <1>1, <1>3
    <2> QED
      BY <1>1, <1>3, <2>1
  <1> QED
    BY <1>2, <1>3

\* A worker is done with a job: it marks the row confirmed with the commitment
\* on chain, failed without hope, or to be retried, perhaps after a broadcast.
LEMMA JobDone ==
    ASSUME IInv, NEW w \in Workers, worker[w].pc \in RpcPoints,
           NEW j, j = worker[w].job,
           NEW r \in RowRecord, row' = [row EXCEPT ![j] = r],
           r.tx = row[j].tx, r.generations = row[j].generations,
           \/ r.status = row[j].status
           \/ r.status = "confirmed" /\ j \in committed /\ UNCHANGED txs
           \/ r.status = "failed" /\ Hopeless(j) /\ UNCHANGED txs,
           worker' = Done(w),
           UNCHANGED txs \/ (worker[w].tx # None /\ txs' = Broadcast(worker[w].tx)),
           UNCHANGED <<owner, ext, committed, height, policyOk>>, faults' \in Nat, stops' \in Nat
    PROVE  IInv'
  <1>1. Typed
    BY Types DEF IInv
  <1>2. /\ worker[w] \in WorkerRecord /\ j \in Jobs /\ worker[w].batch \in Seq(Entry)
        /\ 1 \in DOMAIN worker[w].batch /\ j = worker[w].batch[1].id /\ worker[w].batch # <<>>
        /\ Live(j) /\ BatchAt(w) /\ WorkerAt(w) /\ owner = w /\ \A v \in Workers : v # w => worker[v].pc = "down"
    BY Working
  <1>3. /\ row' \in [Jobs -> RowRecord] /\ row'[j] = r
        /\ \A i \in Jobs : (i # j => row'[i] = row[i]) /\ row'[i].tx = row[i].tx /\ row'[i].generations = row[i].generations
    BY <1>1, <1>2 DEF Typed
  <1>4. /\ txs' \in Seq(Transaction) /\ DOMAIN txs' = DOMAIN txs
        /\ \A t \in DOMAIN txs :
              /\ txs'[t].job = txs[t].job /\ txs'[t].lastValid = txs[t].lastValid /\ txs'[t].block = txs[t].block
              /\ \/ txs'[t].state = txs[t].state
                 \/ worker[w].tx = t /\ worker[w].tx # None /\ txs'[t].state = "sent" /\ r.status = row[j].status
    <2>1. CASE UNCHANGED txs
      BY <1>1, <2>1 DEF Typed
    <2>2. CASE ~UNCHANGED txs
      BY <1>1, <2>2, BroadcastFacts
    <2> QED
      BY <2>1, <2>2
  <1> DEFINE rest == [worker[w] EXCEPT !.pc = "next", !.batch = Tail(worker[w].batch)]
  <1>5. Tail(worker[w].batch) \in Seq(Entry)
    BY <1>2
  <1>6. rest \in WorkerRecord /\ rest.pc = "next" /\ rest.batch = Tail(worker[w].batch)
    BY <1>2, <1>5 DEF WorkerRecord
  <1>7. worker' = [worker EXCEPT ![w] = rest]
    BY DEF Done
  <1> HIDE DEF rest
  <1>8. /\ worker' \in [Workers -> WorkerRecord] /\ worker'[w] = rest
        /\ \A v \in Workers : v # w => worker'[v].pc = "down"
    BY <1>1, <1>2, <1>6, <1>7 DEF Typed
  <1>9. TypeOK'
    BY <1>1, <1>3, <1>4, <1>8, Types DEF Typed
  <1>10. OneOwner'
    BY <1>2, <1>8 DEF OneOwner
  <1>11. WorkersSound'
    BY <1>6, <1>8 DEF WorkersSound, RpcPoints
  <1>12. BatchSound'
    <2> DEFINE b == worker[w].batch
    <2>1. \A i \in DOMAIN Tail(b) : i \in Nat /\ i + 1 \in DOMAIN b /\ i + 1 # 1 /\ Tail(b)[i] = b[i + 1] /\ b[i + 1] \in Entry
      BY <1>2, SMTT(40)
    <2>2. \A i \in DOMAIN b : i # 1 =>
             Live(b[i].id) /\ row[b[i].id].tx = b[i].tx /\ row[b[i].id].generations = b[i].generations /\ b[i].id # j
      BY <1>2 DEF BatchAt
    <2>3. \A i \in DOMAIN Tail(b) : row'[Tail(b)[i].id] = row[Tail(b)[i].id]
      BY <1>3, <2>1, <2>2 DEF Entry
    <2>4. \A i, k \in DOMAIN Tail(b) : Tail(b)[i].id = Tail(b)[k].id => i = k
      <3>1. \A i, k \in DOMAIN b : b[i].id = b[k].id => i = k
        BY <1>2, SMTT(40) DEF BatchAt
      <3> QED
        BY <2>1, <3>1, SMTT(40)
    <2>5. \A i \in DOMAIN Tail(b) : /\ row'[Tail(b)[i].id].status \in {"queued", "submitted"}
                                    /\ row'[Tail(b)[i].id].tx = Tail(b)[i].tx
                                    /\ row'[Tail(b)[i].id].generations = Tail(b)[i].generations
      BY <2>1, <2>2, <2>3 DEF Live
    <2> HIDE DEF b
    <2>6. worker'[w].batch = Tail(b)
      BY <1>6, <1>8 DEF b
    <2>7. BatchAt(w)'
      BY <2>4, <2>5, <2>6, SMTT(40) DEF BatchAt, Live
    <2> QED
      BY <1>8, <2>7 DEF BatchSound
  <1>13. ConfirmedOnChain'
    BY <1>2, <1>3 DEF ConfirmedOnChain, IInv, Live
  <1>14. \A t \in DOMAIN txs : txs[t].job \in Jobs /\ (Expired(t)' <=> Expired(t))
    <2>1. \A t \in DOMAIN txs : txs[t] \in Transaction
      BY <1>1 DEF Typed
    <2> QED
      BY <1>4, <2>1, SMTT(40) DEF Transaction, Expired
  <1>15. ASSUME worker[w].tx # None PROVE row[j].tx = worker[w].tx /\ txs[worker[w].tx].job = j
    BY <1>2, <1>15 DEF WorkerAt, Knows, IInv, RowsSound
  <1>16. OneLiveTransaction'
    BY <1>3, <1>4, <1>14, <1>15 DEF OneLiveTransaction, IInv
  <1>17. OwnOutcomeKept'
    BY <1>2, <1>3, <1>4, <1>14, <1>15, SMTT(40) DEF OwnOutcomeKept, IInv, Hopeless, Live
  <1>18. TxsSound'
    BY <1>3, <1>4, <1>14 DEF TxsSound, IInv
  <1>19. RowsSound'
    <2>1. \A i \in Jobs : Signed(i)' = Signed(i)
      BY <1>4 DEF Signed
    <2>2. \A i \in Jobs : Cardinality(Signed(i))' = Cardinality(Signed(i))
      BY <2>1
    <2> QED
      BY <1>3, <1>4, <2>2 DEF RowsSound, IInv
  <1> QED
    BY <1>9, <1>10, <1>11, <1>12, <1>13, <1>16, <1>17, <1>18, <1>19 DEF IInv
\* A mark changes the status or the retry time of a row and nothing else.
LEMMA MarkFacts ==
    ASSUME NEW x \in RowRecord
    PROVE  /\ \A s \in {"confirmed", "failed"} :
                LET y == [x EXCEPT !.status = s] IN
                y \in RowRecord /\ y.status = s /\ y.tx = x.tx /\ y.generations = x.generations
           /\ LET y == [x EXCEPT !.due = FALSE] IN
              y \in RowRecord /\ y.status = x.status /\ y.tx = x.tx /\ y.generations = x.generations
  BY DEF RowRecord, Statuses

\* The three ways in which a job is done with, over the model's operators.
LEMMA Marked ==
    ASSUME IInv, NEW w \in Workers, worker[w].pc \in RpcPoints,
           \/ row' = Confirmed(worker[w].job) /\ worker[w].job \in committed /\ UNCHANGED txs
           \/ row' = Failed(worker[w].job) /\ Hopeless(worker[w].job) /\ UNCHANGED txs
           \/ row' = Retry(worker[w].job)
              /\ (UNCHANGED txs \/ (worker[w].tx # None /\ txs' = Broadcast(worker[w].tx))),
           worker' = Done(w),
           UNCHANGED <<owner, ext, committed, height, policyOk>>, faults' \in Nat, stops' \in Nat
    PROVE  IInv'
  <1> DEFINE j == worker[w].job
             c == [row[j] EXCEPT !.status = "confirmed"]
             f == [row[j] EXCEPT !.status = "failed"]
             d == [row[j] EXCEPT !.due = FALSE]
  <1>1. row[j] \in RowRecord
    BY Types, Working DEF IInv, Typed
  <1>2. /\ c \in RowRecord /\ c.status = "confirmed" /\ c.tx = row[j].tx /\ c.generations = row[j].generations
        /\ f \in RowRecord /\ f.status = "failed" /\ f.tx = row[j].tx /\ f.generations = row[j].generations
        /\ d \in RowRecord /\ d.status = row[j].status /\ d.tx = row[j].tx /\ d.generations = row[j].generations
    BY <1>1, MarkFacts
  <1>3. Confirmed(j) = [row EXCEPT ![j] = c] /\ Failed(j) = [row EXCEPT ![j] = f] /\ Retry(j) = [row EXCEPT ![j] = d]
    BY DEF Confirmed, Failed, Retry
  <1>h. j = worker[w].job
    OBVIOUS
  <1> HIDE DEF c, f, d, j
  <1>4. CASE row' = Confirmed(j) /\ j \in committed /\ UNCHANGED txs
    <2>1. row' = [row EXCEPT ![j] = c]
      BY <1>3, <1>4
    <2> QED
      BY <1>2, <1>4, <1>h, <2>1, JobDone
  <1>5. CASE row' = Failed(j) /\ Hopeless(j) /\ UNCHANGED txs
    <2>1. row' = [row EXCEPT ![j] = f]
      BY <1>3, <1>5
    <2> QED
      BY <1>2, <1>5, <1>h, <2>1, JobDone
  <1>6. CASE row' = Retry(j) /\ (UNCHANGED txs \/ (worker[w].tx # None /\ txs' = Broadcast(worker[w].tx)))
    <2>1. row' = [row EXCEPT ![j] = d]
      BY <1>3, <1>6
    <2> QED
      BY <1>2, <1>6, <1>h, <2>1, JobDone
  <1> QED
    BY <1>4, <1>5, <1>6 DEF j

\* A batch stays sound while neither it nor the rows change.
LEMMA BatchKept ==
    ASSUME NEW w, BatchAt(w), worker'[w].batch = worker[w].batch, row' = row, worker[w].pc # "send"
    PROVE  BatchAt(w)'
  BY DEF BatchAt, Live

\* A worker goes on to another await of the same job.
LEMMA Continues ==
    ASSUME IInv, NEW w \in Workers, worker[w].pc \in RpcPoints \ {"send"},
           NEW pc \in RpcPoints, NEW tx \in Nat \cup {None}, NEW state \in {None, "missing", "pending", "failed"},
           worker' = [worker EXCEPT ![w].pc = pc, ![w].tx = tx, ![w].state = state],
           Knows(worker[w].job, pc, tx, state),
           pc = "prepare" => Head(worker[w].batch).generations < MaxGenerations,
           UNCHANGED <<row, owner, chain>>, faults' \in Nat, stops' \in Nat
    PROVE  IInv'
  <1> DEFINE r == [worker[w] EXCEPT !.pc = pc, !.tx = tx, !.state = state]
  <1>1. /\ worker[w] \in WorkerRecord /\ Head(worker[w].batch) = worker[w].batch[1]
        /\ BatchAt(w) /\ WorkerAt(w) /\ owner = w /\ \A v \in Workers : v # w => worker[v].pc = "down"
    BY Working
  <1>2. worker \in [Workers -> WorkerRecord]
    BY Types DEF IInv, Typed
  <1>3. /\ r \in WorkerRecord /\ r.pc = pc /\ r.tx = tx /\ r.state = state
        /\ r.batch = worker[w].batch /\ r.job = worker[w].job
    BY <1>1 DEF WorkerRecord
  <1>4. worker' = [worker EXCEPT ![w] = r] /\ worker'[w] = r
    BY <1>2
  <1> HIDE DEF r
  <1>5. /\ worker'[w].batch = worker[w].batch /\ worker'[w].job = worker[w].job
        /\ worker'[w].pc = pc /\ worker'[w].tx = tx /\ worker'[w].state = state
        /\ row' = row /\ txs' = txs /\ height' = height /\ worker[w].pc # "send"
    BY <1>3, <1>4 DEF chain
  <1>6. BatchAt(w)'
    BY <1>1, <1>5, BatchKept
  <1>7. Knows(worker[w].job, worker[w].pc, worker[w].tx, worker[w].state)'
    BY <1>5 DEF Knows, Expired
  <1>8. WorkerAt(w)'
    BY <1>1, <1>5, <1>7 DEF WorkerAt
  <1> QED
    BY <1>1, <1>3, <1>4, <1>6, <1>8, WorkerMoves
\* The forms in which the actions move a worker to another await.
LEMMA Moves ==
    ASSUME Typed, NEW w \in Workers, NEW pc
    PROVE  /\ Advance(w, pc) = [worker EXCEPT ![w].pc = pc, ![w].tx = worker[w].tx, ![w].state = worker[w].state]
           /\ \A state : [worker EXCEPT ![w].pc = pc, ![w].state = state]
                        = [worker EXCEPT ![w].pc = pc, ![w].tx = worker[w].tx, ![w].state = state]
  <1>1. worker \in [Workers -> WorkerRecord] /\ worker[w] \in WorkerRecord
    BY DEF Typed
  <1>2. [worker[w] EXCEPT !.pc = pc] = [worker[w] EXCEPT !.pc = pc, !.tx = worker[w].tx, !.state = worker[w].state]
    BY <1>1 DEF WorkerRecord
  <1>3. \A state : [worker[w] EXCEPT !.pc = pc, !.state = state] = [worker[w] EXCEPT !.pc = pc, !.tx = worker[w].tx, !.state = state]
    BY <1>1 DEF WorkerRecord
  <1> QED
    BY <1>1, <1>2, <1>3 DEF Advance

\* The cluster may answer with an earlier state of a transaction; it answers
\* "confirmed" and "failed" only when they are true.
LEMMA ReportFacts ==
    ASSUME Typed, NEW t \in DOMAIN txs, NEW state, Reports(t, state)
    PROVE  /\ faults' \in Nat
           /\ state \in {"missing", "pending", "failed", "confirmed"}
           /\ state = "confirmed" => txs[t].state = "ok"
           /\ state = "failed" => txs[t].state = "failed"
  <1>1. txs[t].state \in TxStates
    <2>1. txs[t] \in Transaction
      BY DEF Typed
    <2> QED
      BY <2>1 DEF Transaction
  <1>2. faults' \in Nat
    BY DEF Typed, Reports
  <1> QED
    BY <1>1, <1>2 DEF Reports, TxState, Stale, TxStates

\* When the row's transaction has expired or failed and none succeeded, no
\* other one can.
LEMMA NoHope ==
    ASSUME IInv, NEW j \in Jobs,
           j \notin committed \/ (row[j].tx # None /\ txs[row[j].tx].state = "failed")
             \/ (\A t \in DOMAIN txs : txs[t].job = j => txs[t].state # "ok"),
           row[j].tx # None => Expired(row[j].tx) \/ txs[row[j].tx].state = "failed"
    PROVE  Hopeless(j)
  <1>1. \A t \in DOMAIN txs : t \in Nat
    BY Types DEF IInv, Typed
  <1>2. \A t \in DOMAIN txs : txs[t].job = j => txs[t].state # "ok"
    BY DEF IInv, TxsSound
  <1>3. \A t \in DOMAIN txs : txs[t].job = j /\ txs[t].state \in {"sent", "included"} => Expired(t)
    BY <1>1, RelayAssumption DEF IInv, OneLiveTransaction
  <1> QED
    BY <1>2, <1>3 DEF Hopeless

\* Every await of a job but the signing of a transaction.
LEMMA JobSteps ==
    ASSUME IInv, NEW w \in Workers,
           \/ \E state \in {"missing", "pending", "failed", "confirmed"} : Inspect(w, state) \/ InspectAgain(w, state)
           \/ Existing(w) \/ CheckExpired(w) \/ ExistingAgain(w) \/ CheckEligible(w)
           \/ Send(w) \/ SendRefused(w) \/ RpcFault(w)
    PROVE  IInv'
  <1> DEFINE j == worker[w].job
             tx == worker[w].tx
  <1>1. Typed
    BY Types DEF IInv
  <1>2. worker[w].pc \in RpcPoints
    BY DEF Inspect, InspectAgain, Existing, CheckExpired, ExistingAgain, CheckEligible, Send, SendRefused, RpcFault, At, RpcPoints
  <1>3. /\ worker[w] \in WorkerRecord /\ j \in Jobs /\ WorkerAt(w) /\ Knows(j, worker[w].pc, tx, worker[w].state)
    BY <1>2, Working DEF WorkerAt
  <1>4. tx \in Nat \cup {None} /\ worker[w].state \in {None, "missing", "pending", "failed"}
    BY <1>3 DEF WorkerRecord
  <1>5. tx # None => tx \in DOMAIN txs /\ row[j].tx = tx /\ txs[tx].job = j
    BY <1>3 DEF Knows, IInv, RowsSound
  <1>6. \A t \in DOMAIN txs : txs[t].state = "ok" => txs[t].job \in committed
    BY DEF IInv, TxsSound
  <1>7. faults \in Nat /\ stops \in Nat
    BY <1>1 DEF Typed
  <1>8. ASSUME NEW state \in {"missing", "pending", "failed", "confirmed"}, Inspect(w, state)
        PROVE  IInv'
    <2>1. worker[w].pc = "inspect" /\ Reports(tx, state) /\ UNCHANGED <<owner, chain, stops>> /\ tx # None
      BY <1>3, <1>8 DEF Inspect, At, Knows
    <2>2. /\ faults' \in Nat /\ (state = "confirmed" => txs[tx].state = "ok") /\ (state = "failed" => txs[tx].state = "failed")
      BY <1>1, <1>5, <2>1, ReportFacts
    <2>3. CASE state = "confirmed"
      <3>1. row' = Confirmed(j) /\ worker' = Done(w) /\ j \in committed
        BY <1>5, <1>6, <1>8, <2>1, <2>2, <2>3 DEF Inspect
      <3> QED
        BY <1>2, <1>7, <2>1, <2>2, <3>1, Marked DEF chain
    <2>4. CASE state # "confirmed"
      <3>1. worker' = [worker EXCEPT ![w].pc = "existing", ![w].tx = tx, ![w].state = state] /\ row' = row
        <4>1. worker' = [worker EXCEPT ![w].pc = "existing", ![w].state = state] /\ row' = row
          BY <1>8, <2>4 DEF Inspect
        <4> QED
          BY <1>1, <4>1, Moves, ZenonT(90)
      <3>2. Knows(j, "existing", tx, state)
        BY <1>5, <2>1, <2>2 DEF Knows
      <3>3. "existing" \in RpcPoints /\ worker[w].pc # "send" /\ state \in {None, "missing", "pending", "failed"}
        BY <2>1, <2>4 DEF RpcPoints
      <3> QED
        BY <1>2, <1>4, <1>7, <2>1, <2>2, <3>1, <3>2, <3>3, Continues
    <2> QED
      BY <2>3, <2>4
  <1>9. ASSUME NEW state \in {"missing", "pending", "failed", "confirmed"}, InspectAgain(w, state)
        PROVE  IInv'
    <2>1. worker[w].pc = "inspectAgain" /\ Reports(tx, state) /\ UNCHANGED <<owner, chain, stops>> /\ tx # None /\ Expired(tx)
      BY <1>3, <1>9 DEF InspectAgain, At, Knows
    <2>2. /\ faults' \in Nat /\ (state = "confirmed" => txs[tx].state = "ok") /\ (state = "failed" => txs[tx].state = "failed")
      BY <1>1, <1>5, <2>1, ReportFacts
    <2>3. CASE state = "missing"
      <3>1. worker' = [worker EXCEPT ![w].pc = "existingAgain", ![w].tx = None, ![w].state = worker[w].state] /\ row' = row
        <4>1. worker' = [worker EXCEPT ![w].pc = "existingAgain", ![w].tx = None] /\ row' = row
          BY <1>9, <2>3 DEF InspectAgain
        <4> QED
          <5>1. [worker[w] EXCEPT !.pc = "existingAgain", !.tx = None]
                = [worker[w] EXCEPT !.pc = "existingAgain", !.tx = None, !.state = worker[w].state]
            BY <1>3 DEF WorkerRecord
          <5> QED
            BY <4>1, <5>1
      <3>2. Knows(j, "existingAgain", None, worker[w].state)
        BY <1>5, <2>1, <2>2 DEF Knows
      <3>3. "existingAgain" \in RpcPoints /\ worker[w].pc # "send"
        BY <2>1 DEF RpcPoints
      <3> QED
        BY <1>2, <1>4, <1>7, <2>1, <2>2, <3>1, <3>2, <3>3, Continues
    <2>4. CASE state # "missing"
      <3>1. state = "failed" => Hopeless(j)
        BY <1>3, <1>5, <2>1, <2>2, NoHope
      <3>2. /\ worker' = Done(w)
            /\ \/ row' = Confirmed(j) /\ j \in committed
               \/ row' = Failed(j) /\ Hopeless(j)
               \/ row' = Retry(j)
        <4>1. \/ state = "confirmed" /\ row' = Confirmed(j) /\ worker' = Done(w)
              \/ state = "failed" /\ row' = Failed(j) /\ worker' = Done(w)
              \/ state = "pending" /\ row' = Retry(j) /\ worker' = Done(w)
          BY <1>9, <2>4 DEF InspectAgain
        <4>2. state = "confirmed" => j \in committed
          BY <1>5, <1>6, <2>1, <2>2
        <4> QED
          BY <3>1, <4>1, <4>2
      <3> QED
        BY <1>2, <1>7, <2>1, <2>2, <3>2, Marked DEF chain
    <2> QED
      BY <2>3, <2>4
  <1>10. CASE Existing(w)
    <2>1. worker[w].pc = "existing" /\ UNCHANGED <<owner, chain, faults, stops>> /\ tx # None
      BY <1>3, <1>10 DEF Existing, At, Knows
    <2>2. CASE worker' = Advance(w, "expired") /\ row' = row
      <3>1. worker' = [worker EXCEPT ![w].pc = "expired", ![w].tx = tx, ![w].state = worker[w].state]
        BY <1>1, <2>2, Moves
      <3>2. Knows(j, "expired", tx, worker[w].state)
        BY <1>5, <2>1 DEF Knows
      <3>3. "expired" \in RpcPoints /\ worker[w].pc # "send"
        BY <2>1 DEF RpcPoints
      <3>4. UNCHANGED <<row, owner, chain>> /\ faults' \in Nat /\ stops' \in Nat
        BY <1>7, <2>1, <2>2
      <3> QED
        BY <1>2, <1>4, <3>1, <3>2, <3>3, <3>4, Continues
    <2>3. CASE worker' = Done(w)
      <3>1. worker[w].state = "failed" /\ j \notin committed => Hopeless(j)
        BY <1>3, <1>5, <2>1, NoHope DEF Knows
      <3>2. \/ row' = Confirmed(j) /\ j \in committed
            \/ row' = Failed(j) /\ Hopeless(j)
            \/ row' = Retry(j)
            \/ worker' = Advance(w, "expired") /\ row' = row
        BY <1>10, <3>1 DEF Existing, CommitmentFinalized, Free
      <3> QED
        BY <1>2, <1>7, <2>1, <2>2, <2>3, <3>2, Marked DEF chain
    <2> QED
      BY <1>10, <2>2, <2>3 DEF Existing
  <1>11. CASE CheckExpired(w)
    <2> DEFINE pc == IF Expired(tx) THEN "inspectAgain" ELSE "eligible"
    <2>1. worker[w].pc = "expired" /\ UNCHANGED <<row, owner, chain, faults, stops>> /\ tx # None
      BY <1>3, <1>11, SMTT(40) DEF CheckExpired, At, Knows, database
    <2>2. worker' = [worker EXCEPT ![w].pc = pc, ![w].tx = tx, ![w].state = worker[w].state]
      <3>1. worker' = Advance(w, pc)
        BY <1>11 DEF CheckExpired
      <3> HIDE DEF pc
      <3> QED
        BY <1>1, <3>1, Moves
    <2>3. Knows(j, pc, tx, worker[w].state) /\ pc # "prepare"
      BY <1>5, <2>1 DEF Knows
    <2>4. pc \in RpcPoints /\ worker[w].pc # "send"
      BY <2>1 DEF RpcPoints
    <2> HIDE DEF pc
    <2> QED
      BY <1>2, <1>4, <1>7, <2>1, <2>2, <2>3, <2>4, Continues
  <1>12. CASE ExistingAgain(w)
    <2>1. worker[w].pc = "existingAgain" /\ UNCHANGED <<owner, chain, faults, stops>> /\ tx = None
      BY <1>3, <1>12 DEF ExistingAgain, At, Knows
    <2>2. CASE ((CommitmentFinalized(j) /\ row' = Confirmed(j)) \/ row' = Retry(j)) /\ worker' = Done(w)
      BY <1>2, <1>7, <2>1, <2>2, Marked DEF chain, CommitmentFinalized
    <2>3. CASE Free(j) /\ worker' = Advance(w, "eligible") /\ UNCHANGED row
      <3>1. worker' = [worker EXCEPT ![w].pc = "eligible", ![w].tx = tx, ![w].state = worker[w].state] /\ row' = row
        BY <1>1, <2>3, Moves
      <3>2. Knows(j, "eligible", tx, worker[w].state)
        BY <1>3, <1>6, <2>1, <2>3 DEF Knows, Free, CommitmentFinalized
      <3>3. "eligible" \in RpcPoints /\ worker[w].pc # "send"
        BY <2>1 DEF RpcPoints
      <3> QED
        BY <1>2, <1>4, <1>7, <2>1, <3>1, <3>2, <3>3, Continues, ZenonT(90)
    <2> QED
      BY <1>12, <2>2, <2>3 DEF ExistingAgain
  <1>13. CASE CheckEligible(w)
    <2>1. worker[w].pc = "eligible" /\ UNCHANGED <<owner, chain, faults, stops>>
      BY <1>13 DEF CheckEligible, At
    <2>2. CASE worker' = Advance(w, "send") /\ row' = row /\ tx # None
      <3>1. worker' = [worker EXCEPT ![w].pc = "send", ![w].tx = tx, ![w].state = worker[w].state]
        BY <1>1, <2>2, Moves
      <3>2. Knows(j, "send", tx, worker[w].state)
        BY <1>5, <2>2 DEF Knows
      <3>3. "send" \in RpcPoints /\ worker[w].pc # "send"
        BY <2>1 DEF RpcPoints
      <3>4. UNCHANGED <<row, owner, chain>> /\ faults' \in Nat /\ stops' \in Nat
        BY <1>7, <2>1, <2>2
      <3> QED
        BY <1>2, <1>4, <3>1, <3>2, <3>3, <3>4, Continues, ZenonT(90)
    <2>3. CASE worker' = Advance(w, "prepare") /\ row' = row /\ tx = None /\ Head(worker[w].batch).generations < MaxGenerations
      <3>1. worker' = [worker EXCEPT ![w].pc = "prepare", ![w].tx = tx, ![w].state = worker[w].state]
        BY <1>1, <2>3, Moves
      <3>2. Knows(j, "prepare", tx, worker[w].state)
        BY <1>3, <2>1, <2>3 DEF Knows
      <3>3. "prepare" \in RpcPoints /\ worker[w].pc # "send"
        BY <2>1 DEF RpcPoints
      <3>4. UNCHANGED <<row, owner, chain>> /\ faults' \in Nat /\ stops' \in Nat
        BY <1>7, <2>1, <2>3
      <3>5. Head(worker[w].batch).generations < MaxGenerations
        BY <2>3
      <3> QED
        BY <1>2, <1>4, <3>1, <3>2, <3>3, <3>4, <3>5, Continues, ZenonT(90)
    <2>4. CASE worker' = Done(w) /\ (row' = Retry(j) \/ (row' = Failed(j) /\ tx = None))
      <3>1. tx = None => Hopeless(j)
        BY <1>3, <2>1, NoHope DEF Knows
      <3> QED
        BY <1>2, <1>7, <2>1, <2>4, <3>1, Marked DEF chain
    <2> QED
      BY <1>13, <2>2, <2>3, <2>4 DEF CheckEligible
  <1>14. CASE Send(w) \/ SendRefused(w) \/ RpcFault(w)
    <2>1. /\ row' = Retry(j) /\ worker' = Done(w)
          /\ UNCHANGED txs \/ (tx # None /\ txs' = Broadcast(tx))
          /\ UNCHANGED <<owner, ext, committed, height, policyOk, stops>> /\ faults' \in Nat
      BY <1>3, <1>7, <1>14 DEF Send, SendRefused, RpcFault, At, Knows, chain
    <2> QED
      BY <1>2, <1>7, <2>1, Marked
  <1> QED
    BY <1>8, <1>9, <1>10, <1>11, <1>12, <1>13, <1>14
\* A transaction is signed and saved; the one it replaces has expired.
LEMMA PrepareStep ==
    ASSUME IInv, NEW w \in Workers, NEW j, j = worker[w].job, Prepare(w)
    PROVE  IInv'
  <1> USE RelayAssumption
  <1> DEFINE n == Len(txs) + 1
             new == NewTransaction(j)
             r == [row[j] EXCEPT !.status = "submitted", !.tx = n, !.generations = row[j].generations + 1]
             next == [worker[w] EXCEPT !.pc = "send", !.tx = n]
  <1>1. Typed
    BY Types DEF IInv
  <1>2. worker[w].pc = "prepare" /\ worker[w].pc \in RpcPoints
    BY DEF Prepare, At, RpcPoints
  <1>3. /\ worker[w] \in WorkerRecord /\ j \in Jobs /\ worker[w].batch \in Seq(Entry)
        /\ 1 \in DOMAIN worker[w].batch /\ j = worker[w].batch[1].id
        /\ Live(j) /\ BatchAt(w) /\ WorkerAt(w) /\ owner = w /\ \A v \in Workers : v # w => worker[v].pc = "down"
    BY <1>2, Working
  <1>4. /\ worker[w].batch # <<>>
        /\ row[j].tx # None => Expired(row[j].tx)
        /\ \A t \in DOMAIN txs : txs[t].job = j => txs[t].state # "ok"
        /\ worker[w].batch[1].generations < MaxGenerations
    BY <1>2, <1>3 DEF WorkerAt, Knows
  <1>5. row[j].generations = worker[w].batch[1].generations
    BY <1>2, <1>3 DEF BatchAt
  <1>6. new \in Transaction /\ new.state = "signed" /\ new.job = j
    BY <1>1, <1>3 DEF Typed, Transaction, NewTransaction, TxStates
  <1>7. txs' = Append(txs, new) /\ UNCHANGED <<owner, ext, committed, height, policyOk, faults, stops>>
    BY DEF Prepare
  <1>8. txs \in Seq(Transaction) /\ Len(txs) \in Nat /\ DOMAIN txs = 1 .. Len(txs)
    BY <1>1 DEF Typed
  <1> HIDE DEF new
  <1>9. /\ txs' \in Seq(Transaction) /\ Len(txs') = n /\ n \in Nat /\ n \notin DOMAIN txs
        /\ DOMAIN txs' = DOMAIN txs \cup {n} /\ txs'[n] = new /\ \A t \in DOMAIN txs : txs'[t] = txs[t]
    BY <1>6, <1>7, <1>8
  <1>10. row' = [row EXCEPT ![j] = r] /\ worker' = [worker EXCEPT ![w] = next]
    BY <1>9 DEF Prepare
  <1>11. row[j] \in RowRecord /\ row[j].generations + 1 \in Nat
    <2>1. row[j] \in RowRecord
      BY <1>1, <1>3 DEF Typed
    <2> QED
      BY <2>1 DEF RowRecord
  <1>12. r \in RowRecord /\ r.status = "submitted" /\ r.tx = n /\ r.generations = row[j].generations + 1
    BY <1>9, <1>11 DEF RowRecord, Statuses
  <1>13. /\ next \in WorkerRecord /\ next.pc = "send" /\ next.tx = n /\ next.job = j
         /\ next.batch = worker[w].batch /\ next.state = worker[w].state
    BY <1>3, <1>9 DEF WorkerRecord, RpcPoints
  <1> HIDE DEF r, next
  <1>14. row' \in [Jobs -> RowRecord] /\ row'[j] = r /\ \A i \in Jobs : i # j => row'[i] = row[i]
    BY <1>1, <1>3, <1>10, <1>12 DEF Typed
  <1>15. worker' \in [Workers -> WorkerRecord] /\ worker'[w] = next /\ \A v \in Workers : v # w => worker'[v].pc = "down"
    BY <1>1, <1>3, <1>10, <1>13 DEF Typed
  <1>16. TypeOK'
    BY <1>1, <1>7, <1>9, <1>14, <1>15, Types DEF Typed
  <1>17. OneOwner'
    BY <1>3, <1>7, <1>15 DEF OneOwner
  <1>18. ConfirmedOnChain'
    BY <1>7, <1>12, <1>14 DEF ConfirmedOnChain, IInv
  <1>19. BatchSound'
    <2> DEFINE b == worker[w].batch
    <2>1. \A i, k \in DOMAIN b : b[i].id = b[k].id => i = k
      BY <1>3 DEF BatchAt
    <2>2. \A i \in DOMAIN b : b[i] \in Entry
      BY <1>3
    <2>3. \A i \in DOMAIN b : i # 1 => /\ b[i].id \in Jobs /\ b[i].id # j /\ Live(b[i].id)
                                       /\ row[b[i].id].tx = b[i].tx /\ row[b[i].id].generations = b[i].generations
      BY <1>3, <2>1, <2>2, SMTT(40) DEF BatchAt, Entry
    <2>4. \A i \in DOMAIN b : /\ row'[b[i].id].status \in {"queued", "submitted"}
                              /\ i # 1 => row'[b[i].id].tx = b[i].tx /\ row'[b[i].id].generations = b[i].generations
      BY <1>3, <1>12, <1>14, <2>3 DEF Live
    <2>5. worker'[w].batch = b /\ worker'[w].pc = "send"
      BY <1>13, <1>15
    <2> HIDE DEF b
    <2>6. BatchAt(w)'
      BY <2>1, <2>4, <2>5 DEF BatchAt, Live
    <2> QED
      BY <1>15, <2>6 DEF BatchSound
  <1>20. WorkersSound'
    <2>1. Knows(worker[w].job, worker[w].pc, worker[w].tx, worker[w].state)'
      BY <1>9, <1>12, <1>13, <1>14, <1>15 DEF Knows
    <2>2. WorkerAt(w)'
      BY <1>3, <1>4, <1>13, <1>15, <2>1 DEF WorkerAt
    <2> QED
      BY <1>15, <2>2 DEF WorkersSound, RpcPoints
  <1>21. \A t \in DOMAIN txs : txs[t].job \in Jobs /\ t # n /\ t \in Nat /\ (Expired(t)' <=> Expired(t))
    <2>1. \A t \in DOMAIN txs : txs[t] \in Transaction
      BY <1>8
    <2> QED
      BY <1>7, <1>8, <1>9, <2>1 DEF Transaction, Expired
  <1>22. OneLiveTransaction'
    BY <1>4, <1>6, <1>9, <1>14, <1>21, ZenonT(90) DEF OneLiveTransaction, IInv
  <1>23. OwnOutcomeKept'
    BY <1>6, <1>9, <1>12, <1>14, <1>21, ZenonT(90) DEF OwnOutcomeKept, IInv
  <1>24. TxsSound'
    <2>1. \A t \in DOMAIN txs :
              /\ txs'[t].state = "included" => height' < txs'[t].block /\ txs'[t].block <= txs'[t].lastValid
              /\ txs'[t].state = "ok" => txs'[t].job \in committed' /\ row'[txs'[t].job].tx = t
      <3> SUFFICES ASSUME NEW t \in DOMAIN txs
                   PROVE  /\ txs[t].state = "included" => height < txs[t].block /\ txs[t].block <= txs[t].lastValid
                          /\ txs[t].state = "ok" => txs[t].job \in committed /\ row'[txs[t].job].tx = t
        BY <1>7, <1>9
      <3>1. txs[t].state = "ok" => txs[t].job # j
        BY <1>4
      <3>2. txs[t].job # j => row'[txs[t].job] = row[txs[t].job]
        BY <1>14, <1>21
      <3> QED
        BY <3>1, <3>2 DEF TxsSound, IInv
    <2> QED
      BY <1>6, <1>9, <2>1 DEF TxsSound
  <1>25. RowsSound'
    <2>1. \A i \in Jobs : i # j => Signed(i)' = Signed(i)
      BY <1>6, <1>9 DEF Signed
    <2>2. Signed(j)' = Signed(j) \cup {n} /\ n \notin Signed(j)
      BY <1>6, <1>9 DEF Signed
    <2>3. IsFiniteSet(Signed(j))
      <3>1. IsFiniteSet(1 .. Len(txs))
        BY <1>8, FS_Interval
      <3> QED
        BY <1>8, <3>1, FS_Subset DEF Signed
    <2>4. Cardinality(Signed(j) \cup {n}) = Cardinality(Signed(j)) + 1
      BY <2>2, <2>3, FS_AddElement
    <2>5. Cardinality(Signed(j)) = row[j].generations
      BY <1>3 DEF IInv, RowsSound
    <2>6. row'[j].tx \in DOMAIN txs' /\ txs'[row'[j].tx].job = j
      BY <1>6, <1>9, <1>12, <1>14
    <2>7. row'[j].generations <= MaxGenerations
      <3>1. row[j].generations \in Nat /\ row[j].generations < MaxGenerations
        BY <1>4, <1>5, <1>11 DEF RowRecord
      <3> QED
        BY <1>12, <1>14, <3>1
    <2>8. \A i \in Jobs : i # j => /\ row'[i].tx # None => row'[i].tx \in DOMAIN txs' /\ txs'[row'[i].tx].job = i
                                   /\ row'[i].generations <= MaxGenerations
                                   /\ Cardinality(Signed(i))' = row'[i].generations
      BY <1>9, <1>14, <2>1 DEF IInv, RowsSound
    <2>9. Cardinality(Signed(j)') = row'[j].generations
      BY <1>12, <1>14, <2>2, <2>4, <2>5
    <2> QED
      BY <2>6, <2>7, <2>8, <2>9 DEF RowsSound
  <1> QED
    BY <1>16, <1>17, <1>18, <1>19, <1>20, <1>22, <1>23, <1>24, <1>25 DEF IInv

\* A retry time passes.
LEMMA RetryStep ==
    ASSUME IInv, NEW j \in Jobs, RetryDue(j)
    PROVE  IInv'
  <1> DEFINE r == [row[j] EXCEPT !.due = TRUE]
  <1>1. Typed /\ row[j] \in RowRecord
    BY Types DEF IInv, Typed
  <1>2. r \in RowRecord /\ r.status = row[j].status /\ r.tx = row[j].tx /\ r.generations = row[j].generations
    BY <1>1 DEF RowRecord
  <1>3. row' = [row EXCEPT ![j] = r] /\ UNCHANGED <<owner, worker, txs, ext, committed, height, policyOk, faults, stops>>
    BY DEF RetryDue, chain
  <1> HIDE DEF r
  <1>4. /\ row' \in [Jobs -> RowRecord]
        /\ \A i \in Jobs : row'[i].status = row[i].status /\ row'[i].tx = row[i].tx /\ row'[i].generations = row[i].generations
    BY <1>1, <1>2, <1>3 DEF Typed
  <1>5. TypeOK'
    BY <1>1, <1>3, <1>4, Types DEF Typed
  <1>6. \A t \in DOMAIN txs : txs[t].job \in Jobs
    <2>1. \A t \in DOMAIN txs : txs[t] \in Transaction
      BY <1>1 DEF Typed
    <2> QED
      BY <2>1 DEF Transaction
  <1>7. ConfirmedOnChain' /\ OneLiveTransaction' /\ OwnOutcomeKept' /\ OneOwner' /\ TxsSound'
    BY <1>3, <1>4, <1>6 DEF IInv, ConfirmedOnChain, OneLiveTransaction, OwnOutcomeKept, OneOwner, TxsSound, Expired
  <1>8. BatchSound'
    <2>1. ASSUME NEW w \in Workers, BatchAt(w) PROVE BatchAt(w)'
      <3>1. worker[w].batch \in Seq(Entry)
        BY <1>1 DEF Typed, WorkerRecord
      <3>2. \A i \in DOMAIN worker[w].batch : worker[w].batch[i].id \in Jobs
        <4>1. \A i \in DOMAIN worker[w].batch : worker[w].batch[i] \in Entry
          BY <3>1
        <4> QED
          BY <4>1 DEF Entry
      <3> QED
        BY <1>3, <1>4, <2>1, <3>2 DEF BatchAt, Live
    <2> QED
      BY <1>3, <2>1 DEF IInv, BatchSound
  <1>9. WorkersSound'
    <2>1. ASSUME NEW w \in Workers, worker[w].pc \in RpcPoints PROVE WorkerAt(w)'
      <3>1. WorkerAt(w) /\ worker[w].job \in Jobs
        BY <2>1, Working
      <3> QED
        BY <1>3, <1>4, <3>1 DEF WorkerAt, Knows, Expired
    <2> QED
      BY <1>3, <2>1, SMTT(40) DEF WorkersSound
  <1>10. RowsSound'
    <2>1. \A i \in Jobs : Cardinality(Signed(i))' = Cardinality(Signed(i))
      BY <1>3 DEF Signed
    <2> QED
      BY <1>3, <1>4, <2>1 DEF IInv, RowsSound
  <1> QED
    BY <1>5, <1>7, <1>8, <1>9, <1>10 DEF IInv
-----------------------------------------------------------------------------
(* Steps of the cluster. *)

\* The cluster takes a sent transaction into a block that is still to come and
\* decides it there; what it has decided stays so.
TxMoves(t) ==
    /\ txs'[t].job = txs[t].job /\ txs'[t].lastValid = txs[t].lastValid
    /\ txs'[t].state = "included" => height' < txs'[t].block /\ txs'[t].block <= txs'[t].lastValid
    /\ txs'[t].state = "ok" =>
          txs[t].job \in committed' /\ (txs[t].state = "ok" \/ (txs[t].state = "included" /\ ~Expired(t)))
    /\ txs'[t].state \in {"sent", "included"} => txs[t].state \in {"sent", "included"}
    /\ txs[t].state = "failed" => txs'[t].state = "failed"

\* A step in which every transaction moves so keeps the invariant.
LEMMA ChainMoves ==
    ASSUME IInv, UNCHANGED <<row, owner, worker, faults, stops>>,
           txs' \in Seq(Transaction), DOMAIN txs' = DOMAIN txs, ext' \in [Jobs -> Submission], policyOk' \in BOOLEAN,
           committed \subseteq committed', committed' \subseteq Jobs, height' \in Nat, height <= height',
           \A t \in DOMAIN txs : TxMoves(t)
    PROVE  IInv'
  <1> USE DEF TxMoves
  <1>1. Typed
    BY Types DEF IInv
  <1>2. TypeOK'
    BY <1>1, Types DEF Typed
  <1>3. \A t \in DOMAIN txs : txs[t].job \in Jobs /\ t \in Nat /\ txs[t].lastValid \in Nat
    <2>1. \A t \in DOMAIN txs : txs[t] \in Transaction /\ t \in Nat
      BY <1>1 DEF Typed
    <2> QED
      BY <2>1 DEF Transaction
  <1>4. \A t \in DOMAIN txs : Expired(t) => Expired(t)'
    BY <1>1, <1>3 DEF Expired, Typed
  <1>5. ConfirmedOnChain' /\ OneOwner'
    BY DEF IInv, ConfirmedOnChain, OneOwner
  <1>6. \A t \in DOMAIN txs : txs'[t].state = "ok" => row[txs[t].job].tx = t
    BY DEF IInv, TxsSound, OneLiveTransaction
  <1>7. OneLiveTransaction'
    BY <1>4 DEF IInv, OneLiveTransaction
  <1>8. OwnOutcomeKept'
    BY <1>4 DEF IInv, OwnOutcomeKept
  <1>9. TxsSound'
    BY <1>6 DEF TxsSound
  <1>10. BatchSound'
    BY DEF IInv, BatchSound, BatchAt, Live
  <1>11. WorkersSound'
    <2> SUFFICES ASSUME NEW w \in Workers, worker[w].pc \in RpcPoints PROVE WorkerAt(w)'
      BY DEF WorkersSound
    <2>1. WorkerAt(w) /\ worker[w].job \in Jobs
      BY Working
    <2>2. worker[w].tx # None => worker[w].tx \in DOMAIN txs
      BY <2>1 DEF WorkerAt, Knows, IInv, RowsSound
    <2>3. row[worker[w].job].tx # None => row[worker[w].job].tx \in DOMAIN txs
      BY <2>1 DEF IInv, RowsSound
    <2>4. worker[w].pc = "existing" /\ worker[w].state = "failed" => txs'[worker[w].tx].state = "failed"
      BY <2>1, <2>2 DEF WorkerAt, Knows
    <2>5. ASSUME worker[w].pc \in {"eligible", "prepare"}, worker[w].tx = None
          PROVE  \A t \in DOMAIN txs : txs[t].job = worker[w].job => txs'[t].state # "ok"
      <3>1. row[worker[w].job].tx # None => Expired(row[worker[w].job].tx)
        BY <2>1, <2>5 DEF WorkerAt, Knows
      <3>2. \A t \in DOMAIN txs : txs[t].job = worker[w].job => txs[t].state # "ok"
        BY <2>1, <2>5 DEF WorkerAt, Knows
      <3>3. \A t \in DOMAIN txs : txs[t].job = worker[w].job /\ txs[t].state = "included" => Expired(t)
        BY <1>3, <3>1, RelayAssumption DEF IInv, OneLiveTransaction
      <3> QED
        BY <3>2, <3>3
    <2>6. Knows(worker[w].job, worker[w].pc, worker[w].tx, worker[w].state)'
      BY <1>4, <2>1, <2>2, <2>3, <2>4, <2>5 DEF Knows, WorkerAt
    <2> QED
      BY <2>1, <2>6 DEF WorkerAt
  <1>12. RowsSound'
    <2>1. \A i \in Jobs : Signed(i)' = Signed(i)
      BY DEF Signed
    <2>2. \A i \in Jobs : Cardinality(Signed(i))' = Cardinality(Signed(i))
      BY <2>1
    <2> QED
      BY <2>2 DEF IInv, RowsSound
  <1> QED
    BY <1>2, <1>5, <1>7, <1>8, <1>9, <1>10, <1>11, <1>12 DEF IInv

\* Blocks, forks, another relay and the policy authority.
LEMMA ClusterSteps == IInv /\ ClusterStep => IInv'
  <1> SUFFICES ASSUME IInv, ClusterStep PROVE IInv'
    OBVIOUS
  <1> USE RelayAssumption
  <1>1. Typed
    BY Types DEF IInv
  <1>2. /\ \A t \in DOMAIN txs : txs[t] \in Transaction
        /\ height \in Nat /\ committed \subseteq Jobs /\ ext \in [Jobs -> Submission] /\ policyOk \in BOOLEAN
        /\ txs \in Seq(Transaction)
    BY <1>1 DEF Typed
  <1>3. \A t \in DOMAIN txs : /\ txs[t].state = "included" => height < txs[t].block /\ txs[t].block <= txs[t].lastValid
                              /\ txs[t].state = "ok" => txs[t].job \in committed
    BY DEF IInv, TxsSound
  <1>m. ASSUME NEW t \in DOMAIN txs, txs'[t] = txs[t], height' = height, committed' = committed PROVE TxMoves(t)
    <2>1. txs[t].state = "included" => height < txs[t].block /\ txs[t].block <= txs[t].lastValid
      BY <1>3
    <2>2. txs[t].state = "ok" => txs[t].job \in committed
      BY <1>3
    <2> QED
      BY <1>m, <2>1, <2>2 DEF TxMoves
  <1>n. height <= height
    BY <1>2
  <1>4. ASSUME NEW t \in DOMAIN txs, NEW b \in height + 1 .. height + Lag, Include(t, b)
        PROVE  IInv'
    <2> DEFINE y == [txs[t] EXCEPT !.state = "included", !.block = b]
    <2>1. b \in Nat /\ b > height /\ b <= txs[t].lastValid /\ txs[t].state = "sent"
      BY <1>2, <1>4 DEF Include
    <2>2. y \in Transaction /\ y.state = "included" /\ y.block = b /\ y.job = txs[t].job /\ y.lastValid = txs[t].lastValid
      BY <1>2, <2>1 DEF Transaction, TxStates
    <2>3. txs' = [txs EXCEPT ![t] = y] /\ UNCHANGED <<row, owner, worker, ext, committed, height, policyOk, faults, stops>>
      BY <1>4 DEF Include, database
    <2> HIDE DEF y
    <2>4. txs' \in Seq(Transaction) /\ DOMAIN txs' = DOMAIN txs /\ txs'[t] = y /\ \A u \in DOMAIN txs : u # t => txs'[u] = txs[u]
      BY <1>2, <2>2, <2>3
    <2>5. TxMoves(t)
      BY <2>1, <2>2, <2>3, <2>4 DEF TxMoves
    <2>6. \A u \in DOMAIN txs : TxMoves(u)
      BY <1>m, <2>3, <2>4, <2>5
    <2> QED
      BY <1>2, <1>n, <2>3, <2>4, <2>6, ChainMoves
  <1>5. ASSUME NEW t \in DOMAIN txs, Abandon(t)
        PROVE  IInv'
    <2> DEFINE y == [txs[t] EXCEPT !.state = "sent", !.block = 0]
    <2>1. txs[t].state = "included"
      BY <1>5 DEF Abandon
    <2>2. y \in Transaction /\ y.state = "sent" /\ y.job = txs[t].job /\ y.lastValid = txs[t].lastValid
      BY <1>2 DEF Transaction, TxStates
    <2>3. txs' = [txs EXCEPT ![t] = y] /\ UNCHANGED <<row, owner, worker, ext, committed, height, policyOk, faults, stops>>
      BY <1>5 DEF Abandon, database
    <2> HIDE DEF y
    <2>4. txs' \in Seq(Transaction) /\ DOMAIN txs' = DOMAIN txs /\ txs'[t] = y /\ \A u \in DOMAIN txs : u # t => txs'[u] = txs[u]
      BY <1>2, <2>2, <2>3
    <2>5. TxMoves(t)
      BY <2>1, <2>2, <2>3, <2>4 DEF TxMoves
    <2>6. \A u \in DOMAIN txs : TxMoves(u)
      BY <1>m, <2>3, <2>4, <2>5
    <2> QED
      BY <1>2, <1>n, <2>3, <2>4, <2>6, ChainMoves
  <1>6. ASSUME NEW j \in Jobs, NEW b \in height + 1 .. height + Lag, NEW matches \in BOOLEAN, IncludeOther(j, b, matches)
        PROVE  IInv'
    <2>0. [block |-> b, matches |-> matches, finalized |-> FALSE] \in Submission
      BY <1>2 DEF Submission
    <2>1. /\ UNCHANGED <<row, owner, worker, txs, committed, height, policyOk, faults, stops>>
          /\ ext' \in [Jobs -> Submission]
      BY <1>2, <1>6, <2>0 DEF IncludeOther, database
    <2>2. \A u \in DOMAIN txs : TxMoves(u)
      BY <1>m, <2>1
    <2> QED
      BY <1>2, <1>n, <2>1, <2>2, ChainMoves
  <1>7. CASE FinalizeBlock
    <2> DEFINE b == height + 1
               all == {j \in Jobs : Eligible(j) /\ Included(j, b)}
               foreign == {j \in all : ext[j].block = b /\ ~ext[j].matches}
               succeeds == all \ foreign
               decided(t) == [txs[t] EXCEPT !.state = IF txs[t].job \in succeeds THEN "ok" ELSE "failed"]
    <2>1. /\ height' = b /\ committed' = committed \cup succeeds
          /\ txs' = [t \in DOMAIN txs |-> IF txs[t].state = "included" /\ txs[t].block = b THEN decided(t) ELSE txs[t]]
          /\ ext' = [j \in Jobs |-> IF j \in foreign THEN [ext[j] EXCEPT !.finalized = TRUE] ELSE ext[j]]
          /\ UNCHANGED <<row, owner, worker, policyOk, faults, stops>>
      BY <1>7 DEF FinalizeBlock, database
    <2>2. \A t \in DOMAIN txs : /\ decided(t) \in Transaction /\ decided(t).job = txs[t].job
                                /\ decided(t).lastValid = txs[t].lastValid
                                /\ decided(t).state = IF txs[t].job \in succeeds THEN "ok" ELSE "failed"
      BY <1>2 DEF Transaction, TxStates
    <2>3. succeeds \subseteq Jobs /\ b \in Nat /\ height <= b
      BY <1>2
    <2> HIDE DEF decided, foreign, succeeds
    <2>6. ext' \in [Jobs -> Submission]
      <3>1. \A j \in Jobs : ext[j] \in Submission /\ [ext[j] EXCEPT !.finalized = TRUE] \in Submission
        BY <1>2 DEF Submission
      <3> QED
        BY <2>1, <3>1
    <2>4. DOMAIN txs' = DOMAIN txs /\ txs' \in Seq(Transaction)
      <3>1. txs' \in [1 .. Len(txs) -> Transaction] /\ Len(txs) \in Nat
        BY <1>2, <2>1, <2>2
      <3> QED
        BY <1>2, <2>1, <3>1
    <2>5. ASSUME NEW t \in DOMAIN txs
          PROVE  TxMoves(t)
      <3>1. CASE txs[t].state = "included" /\ txs[t].block = b
        <4>1. txs'[t] = decided(t)
          BY <2>1, <3>1
        <4>2. ~Expired(t)
          <5>1. txs[t].lastValid \in Nat /\ b <= txs[t].lastValid
            <6>1. txs[t] \in Transaction
              BY <1>2
            <6>2. txs[t].block <= txs[t].lastValid
              BY <1>3, <3>1
            <6> QED
              BY <3>1, <6>1, <6>2 DEF Transaction
          <5> QED
            BY <1>2, <5>1 DEF Expired
        <4> QED
          BY <2>1, <2>2, <3>1, <4>1, <4>2 DEF TxMoves
      <3>2. CASE ~(txs[t].state = "included" /\ txs[t].block = b)
        <4>1. txs'[t] = txs[t]
          BY <2>1, <3>2
        <4>2. txs[t].block \in Nat
          BY <1>2 DEF Transaction
        <4>3. txs[t].state = "included" => b < txs[t].block /\ txs[t].block <= txs[t].lastValid
          <5>1. txs[t].state = "included" => height < txs[t].block /\ txs[t].block <= txs[t].lastValid
            BY <1>3
          <5> QED
            BY <1>2, <3>2, <4>2, <5>1
        <4>4. txs[t].state = "ok" => txs[t].job \in committed'
          BY <1>3, <2>1
        <4> QED
          BY <2>1, <4>1, <4>3, <4>4 DEF TxMoves
      <3> QED
        BY <3>1, <3>2
    <2> QED
      BY <1>2, <2>1, <2>3, <2>4, <2>5, <2>6, ChainMoves
  <1>8. CASE ChangePolicy
    <2>1. /\ UNCHANGED <<row, owner, worker, txs, ext, committed, height, faults, stops>>
          /\ policyOk' = FALSE
      BY <1>8 DEF ChangePolicy, database
    <2>2. policyOk' \in BOOLEAN
      BY <2>1
    <2>3. \A u \in DOMAIN txs : TxMoves(u)
      BY <1>m, <2>1
    <2> QED
      BY <1>2, <1>n, <2>1, <2>2, <2>3, ChainMoves
  <1> QED
    BY <1>4, <1>5, <1>6, <1>7, <1>8 DEF ClusterStep
-----------------------------------------------------------------------------
(* The theorems. *)

\* Every step of every process, of the cluster and of the others keeps the invariant.
LEMMA NextIInv == IInv /\ [Next]_vars => IInv'
  <1> SUFFICES ASSUME IInv, [Next]_vars PROVE IInv'
    OBVIOUS
  <1>1. ASSUME NEW w \in Workers, Open(w) \/ WorkerStep(w) \/ Close(w) \/ Crash(w) \/ RpcFault(w) PROVE IInv'
    BY <1>1, ProcessSteps, JobSteps, PrepareStep DEF WorkerStep
  <1>2. CASE UNCHANGED vars
    <2>1. TypeOK'
      BY <1>2, Types DEF vars, Typed, IInv
    <2>2. OneOwner' /\ BatchSound' /\ WorkersSound'
      BY <1>2 DEF vars, IInv, OneOwner, BatchSound, BatchAt, Live, WorkersSound, WorkerAt, Knows, Expired
    <2> QED
      BY <1>2, <2>1, <2>2, ChainFrame DEF vars, IInv
  <1> QED
    BY <1>1, <1>2, RetryStep, ClusterSteps DEF Next

\* The invariant holds in every reachable state.
LEMMA AlwaysIInv == Spec => []IInv
  BY InitIInv, NextIInv, PTL DEF Spec

\* Rows are well formed, a row is confirmed only with its commitment finalized,
\* and no job is signed for more often than the limit allows, although workers
\* decide by a row they read at the start of the batch (#tick, #process).
THEOREM RowsAgreeWithChain == Spec => []RowsConsistent
  <1>1. IInv => RowsConsistent
    <2> SUFFICES ASSUME IInv PROVE RowsConsistent
      OBVIOUS
    <2>1. GenerationLimit
      BY DEF IInv, RowsSound, Signed, GenerationLimit
    <2> QED
      BY <2>1 DEF IInv, RowsConsistent
  <1> QED
    BY <1>1, AlwaysIInv, PTL

\* Of all transactions signed for a job, over any number of crashes and lost
\* answers, at most the one in its row can still land, and a job is not given
\* up while one of its own has succeeded or can (#process).
THEOREM NothingLostSightOf == Spec => []TransactionsTracked
  <1>1. IInv => TransactionsTracked
    BY DEF IInv, TransactionsTracked
  <1> QED
    BY <1>1, AlwaysIInv, PTL

\* What a step does to the outcome of a job: one open job at most is settled,
\* as confirmed only when its commitment is on chain.
LEMMA OutcomeSteps ==
    ASSUME IInv, [Next]_vars
    PROVE  \/ UNCHANGED row /\ committed \subseteq committed' /\ committed' \subseteq Jobs
           \/ /\ UNCHANGED committed
              /\ \E j \in Jobs, r \in RowRecord :
                    /\ row' = [row EXCEPT ![j] = r] /\ Live(j)
                    /\ r.status \in {"queued", "submitted"} \/ r.status = "failed" \/ (r.status = "confirmed" /\ j \in committed)
  <1> DEFINE Touch == \E j \in Jobs, r \in RowRecord :
                    /\ row' = [row EXCEPT ![j] = r] /\ Live(j)
                    /\ r.status \in {"queued", "submitted"} \/ r.status = "failed" \/ (r.status = "confirmed" /\ j \in committed)
  <1>1. Typed /\ Typed'
    BY Types, NextIInv DEF IInv
  <1>2. ASSUME NEW w \in Workers, Open(w) \/ Tick(w) \/ NextJob(w) \/ Close(w) \/ Closed(w) \/ Crash(w) \/ CheckExpired(w)
        PROVE  UNCHANGED <<row, committed>>
    BY <1>2 DEF Open, Tick, NextJob, Close, Closed, Crash, CheckExpired, database, chain
  <1>3. ASSUME NEW w \in Workers,
               \/ \E state \in {"missing", "pending", "failed", "confirmed"} : Inspect(w, state) \/ InspectAgain(w, state)
               \/ Existing(w) \/ ExistingAgain(w) \/ CheckEligible(w)
               \/ Prepare(w) \/ Send(w) \/ SendRefused(w) \/ RpcFault(w)
        PROVE  UNCHANGED committed /\ (UNCHANGED row \/ Touch)
    <2> DEFINE j == worker[w].job
    <2>1. worker[w].pc \in RpcPoints
      BY <1>3 DEF Inspect, InspectAgain, Existing, ExistingAgain, CheckEligible, Prepare, Send, SendRefused, RpcFault, At, RpcPoints
    <2>2. j \in Jobs /\ Live(j)
      BY <2>1, Working
    <2>3. row[j] \in RowRecord /\ row \in [Jobs -> RowRecord]
      BY <1>1, <2>2, SMTT(40) DEF Typed
    <2>4. UNCHANGED committed
      BY <1>3 DEF Inspect, InspectAgain, Existing, ExistingAgain, CheckEligible, Prepare, Send, SendRefused, RpcFault, chain
    <2>5. (row' = Confirmed(j) /\ j \in committed') => Touch
      <3>1. [row[j] EXCEPT !.status = "confirmed"] \in RowRecord /\ [row[j] EXCEPT !.status = "confirmed"].status = "confirmed"
        BY <2>3, MarkFacts
      <3> QED
        BY <2>2, <2>4, <3>1 DEF Confirmed
    <2>6. row' = Failed(j) => Touch
      <3>1. [row[j] EXCEPT !.status = "failed"] \in RowRecord /\ [row[j] EXCEPT !.status = "failed"].status = "failed"
        BY <2>3, MarkFacts
      <3> QED
        BY <2>2, <3>1 DEF Failed
    <2>7. row' = Retry(j) => Touch
      <3>1. [row[j] EXCEPT !.due = FALSE] \in RowRecord /\ [row[j] EXCEPT !.due = FALSE].status = row[j].status
        BY <2>3, MarkFacts
      <3> QED
        BY <2>2, <3>1 DEF Retry, Live
    <2>8. Prepare(w) => Touch
      <3> SUFFICES ASSUME Prepare(w) PROVE Touch
        OBVIOUS
      <3> DEFINE r == [row[j] EXCEPT !.status = "submitted", !.tx = Len(txs'), !.generations = row[j].generations + 1]
      <3>1. row' = [row EXCEPT ![j] = r]
        BY DEF Prepare
      <3>2. r.status = "submitted" /\ r \in RowRecord
        <4>1. row'[j] = r /\ row'[j] \in RowRecord
          BY <1>1, <2>2, <2>3, <3>1 DEF Typed
        <4> QED
          BY <2>3, <4>1 DEF RowRecord
      <3> HIDE DEF r
      <3> QED
        BY <2>2, <3>1, <3>2
    <2>9. row' = Confirmed(j) => j \in committed'
      <3>1. Typed' /\ row' = Confirmed(j) => row'[j].status = "confirmed"
        BY <2>2, <2>3 DEF Confirmed, RowRecord
      <3>2. ConfirmedOnChain'
        BY NextIInv DEF IInv
      <3> QED
        BY <1>1, <2>2, <3>1, <3>2 DEF ConfirmedOnChain
    <2>10. row' = Confirmed(j) \/ row' = Failed(j) \/ row' = Retry(j) \/ Prepare(w) \/ UNCHANGED row
      BY <1>3 DEF Inspect, InspectAgain, Existing, ExistingAgain, CheckEligible, Send, SendRefused, RpcFault
    <2> HIDE DEF Touch
    <2> QED
      BY <2>4, <2>5, <2>6, <2>7, <2>8, <2>9, <2>10, SMTT(40)
  <1>4. ASSUME NEW j \in Jobs, RetryDue(j) PROVE UNCHANGED committed /\ Touch
    <2>1. row[j] \in RowRecord /\ Live(j) /\ UNCHANGED committed /\ row' = [row EXCEPT ![j].due = TRUE]
      BY <1>1, <1>4 DEF Typed, RetryDue, chain
    <2>2. [row[j] EXCEPT !.due = TRUE] \in RowRecord /\ [row[j] EXCEPT !.due = TRUE].status = row[j].status
      BY <2>1 DEF RowRecord
    <2> QED
      BY <2>1, <2>2 DEF Live
  <1>5. ASSUME ClusterStep PROVE UNCHANGED row /\ committed \subseteq committed' /\ committed' \subseteq Jobs
    <2>1. UNCHANGED row /\ committed \subseteq committed'
      BY <1>5 DEF ClusterStep, Include, Abandon, IncludeOther, FinalizeBlock, ChangePolicy, database
    <2> QED
      BY <1>1, <2>1 DEF Typed
  <1>6. ASSUME UNCHANGED vars PROVE UNCHANGED row /\ committed \subseteq committed' /\ committed' \subseteq Jobs
    BY <1>1, <1>6 DEF vars, Typed
  <1>7. committed \subseteq Jobs
    BY <1>1 DEF Typed
  <1> HIDE DEF Touch
  <1>8. (UNCHANGED committed /\ (UNCHANGED row \/ Touch)) \/ (UNCHANGED row /\ committed \subseteq committed' /\ committed' \subseteq Jobs)
    <2>1. ASSUME NEW w \in Workers, Open(w) \/ WorkerStep(w) \/ Close(w) \/ Crash(w) \/ RpcFault(w)
          PROVE  UNCHANGED committed /\ (UNCHANGED row \/ Touch)
      <3>1. \/ Open(w) \/ Tick(w) \/ NextJob(w) \/ Close(w) \/ Closed(w) \/ Crash(w) \/ CheckExpired(w)
            \/ \E state \in {"missing", "pending", "failed", "confirmed"} : Inspect(w, state) \/ InspectAgain(w, state)
            \/ Existing(w) \/ ExistingAgain(w) \/ CheckEligible(w)
            \/ Prepare(w) \/ Send(w) \/ SendRefused(w) \/ RpcFault(w)
        BY <2>1, Zenon DEF WorkerStep
      <3>2. CASE Open(w) \/ Tick(w) \/ NextJob(w) \/ Close(w) \/ Closed(w) \/ Crash(w) \/ CheckExpired(w)
        BY <1>2, <3>2
      <3>3. CASE \/ \E state \in {"missing", "pending", "failed", "confirmed"} : Inspect(w, state) \/ InspectAgain(w, state)
                 \/ Existing(w) \/ ExistingAgain(w) \/ CheckEligible(w)
                 \/ Prepare(w) \/ Send(w) \/ SendRefused(w) \/ RpcFault(w)
        BY <1>3, <3>3, Zenon
      <3> QED
        BY <3>1, <3>2, <3>3, Zenon
    <2>2. \/ \E w \in Workers : Open(w) \/ WorkerStep(w) \/ Close(w) \/ Crash(w) \/ RpcFault(w)
          \/ \E j \in Jobs : RetryDue(j)
          \/ ClusterStep
          \/ UNCHANGED vars
      BY Zenon DEF Next
    <2>3. CASE \E w \in Workers : Open(w) \/ WorkerStep(w) \/ Close(w) \/ Crash(w) \/ RpcFault(w)
      BY <2>1, <2>3, Zenon
    <2>4. CASE \E j \in Jobs : RetryDue(j)
      BY <1>4, <2>4, Zenon
    <2> QED
      BY <1>5, <1>6, <2>2, <2>3, <2>4, Zenon
  <1> QED
    BY <1>7, <1>8 DEF Touch

\* The relay implements its promise: an outcome is reported once, never taken
\* back, and "confirmed" only with the commitment on chain.
THEOREM RelayImplementsDelivery == Spec => ImplementsDelivery
  <1> DEFINE outcome == [j \in Jobs |-> IF Live(j) THEN "open" ELSE row[j].status]
  <1>1. Init => Delivery!Init
    BY DEF Init, Delivery!Init, Live, NewRow
  <1>2. IInv /\ [Next]_vars => [Delivery!Next]_<<committed, outcome>>
    <2> SUFFICES ASSUME IInv, [Next]_vars PROVE Delivery!Next \/ UNCHANGED <<committed, outcome>>
      OBVIOUS
    <2>1. CASE UNCHANGED row /\ committed \subseteq committed' /\ committed' \subseteq Jobs
      <3>1. UNCHANGED outcome
        BY <2>1 DEF Live
      <3> QED
        BY <2>1, <3>1 DEF Delivery!Next, Delivery!Finalize
    <2>2. ASSUME UNCHANGED committed,
                 NEW j \in Jobs, NEW r \in RowRecord, row' = [row EXCEPT ![j] = r], Live(j),
                 r.status \in {"queued", "submitted"} \/ r.status = "failed" \/ (r.status = "confirmed" /\ j \in committed)
          PROVE  Delivery!Next \/ UNCHANGED <<committed, outcome>>
      <3>1. row \in [Jobs -> RowRecord]
        BY Types DEF IInv, Typed
      <3>2. row'[j] = r /\ \A i \in Jobs : i # j => row'[i] = row[i]
        BY <2>2, <3>1
      <3>3. outcome[j] = "open"
        BY <2>2 DEF Live
      <3>4. outcome' = [outcome EXCEPT ![j] = IF r.status \in {"queued", "submitted"} THEN "open" ELSE r.status]
        BY <3>2 DEF Live
      <3>5. CASE r.status \in {"queued", "submitted"}
        <4>1. outcome' = outcome
          BY <2>2, <3>2, <3>5 DEF Live
        <4> QED
          BY <2>2, <4>1
      <3>6. CASE r.status = "failed"
        <4>1. outcome' = [outcome EXCEPT ![j] = "failed"]
          BY <3>4, <3>6
        <4> QED
          BY <2>2, <3>3, <4>1 DEF Delivery!Next, Delivery!Settle, Delivery!Fail
      <3>7. CASE r.status = "confirmed" /\ j \in committed
        <4>1. outcome' = [outcome EXCEPT ![j] = "confirmed"]
          BY <3>4, <3>7
        <4> QED
          BY <2>2, <3>3, <3>7, <4>1 DEF Delivery!Next, Delivery!Settle, Delivery!Confirm
      <3> QED
        BY <2>2, <3>5, <3>6, <3>7
    <2> QED
      BY <2>1, <2>2, OutcomeSteps
  <1> QED
    BY <1>1, <1>2, AlwaysIInv, PTL DEF Spec, ImplementsDelivery, Delivery!Safety
=============================================================================
