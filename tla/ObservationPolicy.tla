------------------------- MODULE ObservationPolicy -------------------------
(***************************************************************************)
(* The verifier's observation policy (verifier/src/observation-policy.ts): *)
(* receive() and authorizeClaim() run concurrently over one SQLite file    *)
(* that the App Attest gate and the enrollment service write as well.      *)
(*                                                                         *)
(* A request's step runs from one await to the next.  The wait for the     *)
(* database's write lock at BEGIN IMMEDIATE is such a point too: another   *)
(* process may hold it.  The transaction itself is one step.  A process    *)
(* that dies loses its requests and keeps the database.                    *)
(***************************************************************************)
EXTENDS Integers, FiniteSets

CONSTANTS
    Envelopes,        \* observation envelopes clients may send
    Claims,           \* claim requests clients may send
    Slots,            \* concurrent requests
    CounterDevices,   \* devices registered with the counter capability
    Capacity,         \* rows of observation_validations_v0
    RelayCapacity,    \* rows of observation_relay_jobs
    Window,           \* clock tolerance (600 s)
    None,             \* SQL NULL / undefined
    MaxTime, MaxElsewhere, MaxEvents   \* bounds of the model

Transcripts == {e.transcript : e \in Envelopes}
Keys == {e.key : e \in Envelopes}
Devices == {e.device : e \in Envelopes}
Pseudonyms == {e.pseudonym : e \in Envelopes}
Roots == {e.root : e \in Envelopes}
Nullifiers == {e.nullifier : e \in Envelopes}

\* The check an envelope fails whatever the state, or None.
Faults == {None, "signature", "rtt", "epoch", "inputs", "proof", "rssi"}

\* The codes of a refusal.
Codes == {"E_DEVICE_UNKNOWN", "E_DEV_SIG", "E_DEV_COUNTER", "E_RTT", "E_EPOCH", "E_ASSERTION", "E_ZK", "E_NULLIFIER",
          "E_RSSI", "observation_capacity", "observation_dependency_unavailable"}

ASSUME PolicyAssumption ==
    /\ \A e \in Envelopes :
          /\ e.assertion \in Nat /\ e.time \in Nat /\ e.fault \in Faults
          /\ \A i \in 1 .. 3 : e.ticks[i] \in Nat
    /\ None \notin Envelopes /\ None \notin Keys /\ None \notin Nat /\ None \notin Codes \cup {"validated", "signed"}
    /\ Envelopes \cap Claims = {}
    /\ \A c \in Claims : c.pseudonym \in Pseudonyms /\ c.key \in Keys /\ c.assertion \in Nat /\ c.nonce \in Nat
    /\ IsFiniteSet(Envelopes)
    /\ Capacity \in Nat /\ RelayCapacity \in Nat /\ Window \in Nat
    /\ MaxTime \in Nat /\ MaxElsewhere \in Nat /\ MaxEvents \in Nat

VARIABLES
    validated,   \* observation_validations_v0: the envelope stored under each transcript, or None
    validatedAt, \* its validated_at
    attest,      \* app_attest_keys.counter of each enrolled key, or None
    revoked,     \* observer_revocations_v0
    lastTick,    \* observation_device_counters_v0, -1 without a row
    payoutOwner, \* observation_payout_owners_v0
    jobs,        \* observation_relay_jobs, by transcript
    sealed,      \* confidence_inputs_v0, by transcript
    signed,      \* claim authorizations the verifier has signed
    call,        \* the requests in progress
    chain,       \* finalized state of the program, as the snapshot reads it
    clock

database == <<validated, validatedAt, attest, revoked, lastTick, payoutOwner, jobs, sealed, signed>>
vars == <<database, call, chain, clock>>

Points == {"idle", "snapshot", "check", "proof", "commit", "quote", "claim", "commitClaim", "prepareClaim", "done"}

Idle == [pc |-> "idle", request |-> None, snapshot |-> None, counter |-> None, at |-> None, reply |-> None]

ChainStates ==
    [devices: SUBSET Devices, roots: SUBSET Roots, nullifiers: SUBSET Nullifiers, pinned: BOOLEAN, nonce: [Pseudonyms -> Nat]]

\* Every table and every call in flight keeps its type; a reply is one of the
\* service's codes.
TypeOK ==
    /\ validated \in [Transcripts -> Envelopes \cup {None}]
    /\ validatedAt \in [Transcripts -> Nat \cup {None}]
    /\ attest \in [Keys -> Nat \cup {None}]
    /\ revoked \subseteq Keys
    /\ lastTick \in [Devices -> Nat \cup {-1}]
    /\ payoutOwner \in [Pseudonyms -> Keys \cup {None}]
    /\ jobs \subseteq Transcripts /\ sealed \subseteq Transcripts
    /\ signed \subseteq Claims
    /\ call \in [Slots -> [pc: Points, request: Envelopes \cup Claims \cup {None}, snapshot: ChainStates \cup {None},
                           counter: Nat \cup {None}, at: Nat \cup {None}, reply: Codes \cup {"validated", "signed", None}]]
    /\ chain \in ChainStates
    /\ clock \in Nat

Init ==
    /\ validated = [t \in Transcripts |-> None]
    /\ validatedAt = [t \in Transcripts |-> None]
    /\ attest = [k \in Keys |-> None]
    /\ revoked = {}
    /\ lastTick = [d \in Devices |-> -1]
    /\ payoutOwner = [p \in Pseudonyms |-> None]
    /\ jobs = {} /\ sealed = {} /\ signed = {}
    /\ call = [r \in Slots |-> Idle]
    /\ chain = [devices |-> {}, roots |-> Roots, nullifiers |-> {}, pinned |-> TRUE, nonce |-> [p \in Pseudonyms |-> 0]]
    /\ clock = 0

-----------------------------------------------------------------------------
(* What the database says. *)

\* #key: an enrolled, unrevoked App Attest key.
Usable(k) == attest[k] # None /\ k \notin revoked

\* #previous: the same envelope again, or another one for its transcript.
Receipt(e) == validated[e.transcript] = e
Conflict(e) == validated[e.transcript] \notin {None, e}

Spent(n) == \E t \in Transcripts : validated[t] # None /\ validated[t].nullifier = n

\* #checkCounters: three counters, each above the one before and the first
\* above the last one stored, for a device with the counter capability.
TicksFresh(e) ==
    e.device \in CounterDevices =>
        lastTick[e.device] < e.ticks[1] /\ e.ticks[1] < e.ticks[2] /\ e.ticks[2] < e.ticks[3]

\* #checkTime against the clock now.
Timely(e) == clock - Window <= e.time /\ e.time <= clock + Window /\ e.fault # "epoch"

Validations == {t \in Transcripts : validated[t] # None}

-----------------------------------------------------------------------------
(* receive(). *)

\* A request from a client, on a free connection.
Free(r) == call[r].pc \in {"idle", "done"}

Move(r, pc) == call' = [call EXCEPT ![r].pc = pc]

Reply(r, code) == call' = [call EXCEPT ![r].pc = "done", ![r].snapshot = None, ![r].counter = None,
                                       ![r].at = None, ![r].reply = code]

\* parse, digest and the historical receipt.
Receive(r, e) ==
    /\ Free(r)
    /\ call' = [call EXCEPT ![r] =
          IF Receipt(e) THEN [Idle EXCEPT !.pc = "done", !.request = e, !.reply = "validated"]
          ELSE IF Conflict(e) THEN [Idle EXCEPT !.pc = "done", !.request = e, !.reply = "E_NULLIFIER"]
          ELSE [Idle EXCEPT !.pc = "snapshot", !.request = e]]
    /\ UNCHANGED <<database, chain, clock>>

\* One finalized bank holds config, device, root ring and nullifier; a policy
\* other than the pinned one is an error.
Snapshot(r) ==
    /\ call[r].pc = "snapshot"
    /\ IF chain.pinned
       THEN call' = [call EXCEPT ![r].pc = "check", ![r].snapshot = chain]
       ELSE Reply(r, "observation_dependency_unavailable")
    /\ UNCHANGED <<database, chain, clock>>

\* The checks between the snapshot and the proof, in order.
Verdict(e, snapshot) ==
    IF e.device \notin snapshot.devices THEN "E_DEVICE_UNKNOWN"
    ELSE IF e.fault = "signature" THEN "E_DEV_SIG"
    ELSE IF ~TicksFresh(e) THEN "E_DEV_COUNTER"
    ELSE IF e.fault = "rtt" THEN "E_RTT"
    ELSE IF ~Timely(e) THEN "E_EPOCH"
    ELSE IF ~Usable(e.key) THEN "E_ASSERTION"
    ELSE IF e.assertion <= attest[e.key] THEN "E_ASSERTION"
    ELSE IF e.fault = "inputs" \/ e.root \notin snapshot.roots THEN "E_ZK"
    ELSE None

Check(r) ==
    LET e == call[r].request
        verdict == Verdict(e, call[r].snapshot)
    IN
    /\ call[r].pc = "check"
    /\ \/ Receipt(e) /\ Reply(r, "validated")
       \/ Conflict(e) /\ Reply(r, "E_NULLIFIER")
       \/ ~Receipt(e) /\ ~Conflict(e) /\ verdict # None /\ Reply(r, verdict)
       \/ /\ ~Receipt(e) /\ ~Conflict(e) /\ verdict = None
          /\ call' = [call EXCEPT ![r].pc = "proof", ![r].counter = attest[e.key]]
    /\ UNCHANGED <<database, chain, clock>>

\* The checks after the proof; the clock is read again.
ProofVerdict(e, snapshot) ==
    IF e.fault = "proof" THEN "E_ZK"
    ELSE IF e.nullifier \in snapshot.nullifiers \/ Spent(e.nullifier) THEN "E_NULLIFIER"
    ELSE IF e.fault = "rssi" THEN "E_RSSI"
    ELSE IF ~Timely(e) THEN "E_EPOCH"
    ELSE None

Proved(r) ==
    LET e == call[r].request
        verdict == ProofVerdict(e, call[r].snapshot)
    IN
    /\ call[r].pc = "proof"
    /\ \/ Receipt(e) /\ Reply(r, "validated")
       \/ Conflict(e) /\ Reply(r, "E_NULLIFIER")
       \/ ~Receipt(e) /\ ~Conflict(e) /\ verdict # None /\ Reply(r, verdict)
       \/ /\ ~Receipt(e) /\ ~Conflict(e) /\ verdict = None
          /\ call' = [call EXCEPT ![r].pc = "commit", ![r].at = clock]
    /\ UNCHANGED <<database, chain, clock>>

CommitVerdictCachedKey(e, counter) ==
    IF Spent(e.nullifier) THEN "E_NULLIFIER"
    ELSE IF attest[e.key] # counter THEN "E_ASSERTION"
    ELSE IF ~TicksFresh(e) THEN "E_DEV_COUNTER"
    ELSE IF Cardinality(Validations) >= Capacity \/ Cardinality(jobs) >= RelayCapacity THEN "observation_capacity"
    ELSE IF payoutOwner[e.pseudonym] \notin {None, e.key} THEN "E_ASSERTION"
    ELSE None

\* What the transaction checks again, and what it rolls back for.
CommitVerdict(e, counter) ==
    IF Spent(e.nullifier) THEN "E_NULLIFIER"
    ELSE IF ~Usable(e.key) \/ attest[e.key] # counter THEN "E_ASSERTION"
    ELSE IF ~TicksFresh(e) THEN "E_DEV_COUNTER"
    ELSE IF Cardinality(Validations) >= Capacity \/ Cardinality(jobs) >= RelayCapacity THEN "observation_capacity"
    ELSE IF payoutOwner[e.pseudonym] \notin {None, e.key} THEN "E_ASSERTION"
    ELSE None

StoreQueuedLater(e, at) ==
    /\ attest' = [attest EXCEPT ![e.key] = e.assertion]
    /\ lastTick' = IF e.device \in CounterDevices THEN [lastTick EXCEPT ![e.device] = e.ticks[3]] ELSE lastTick
    /\ validated' = [validated EXCEPT ![e.transcript] = e]
    /\ validatedAt' = [validatedAt EXCEPT ![e.transcript] = at]
    /\ sealed' = sealed \cup {e.transcript}
    /\ payoutOwner' = [payoutOwner EXCEPT ![e.pseudonym] = e.key]
    /\ UNCHANGED <<revoked, signed, jobs>>

\* Everything the transaction writes.
Store(e, at) ==
    /\ attest' = [attest EXCEPT ![e.key] = e.assertion]
    /\ lastTick' = IF e.device \in CounterDevices THEN [lastTick EXCEPT ![e.device] = e.ticks[3]] ELSE lastTick
    /\ validated' = [validated EXCEPT ![e.transcript] = e]
    /\ validatedAt' = [validatedAt EXCEPT ![e.transcript] = at]
    /\ sealed' = sealed \cup {e.transcript}
    /\ payoutOwner' = [payoutOwner EXCEPT ![e.pseudonym] = e.key]
    /\ jobs' = jobs \cup {e.transcript}
    /\ UNCHANGED <<revoked, signed>>

CommitUnraced(r) ==
    LET e == call[r].request
        verdict == CommitVerdict(e, call[r].counter)
    IN
    /\ call[r].pc = "commit"
    /\ \/ verdict # None /\ Reply(r, verdict) /\ UNCHANGED database
       \/ verdict = None /\ Store(e, call[r].at) /\ Reply(r, "validated")
    /\ UNCHANGED <<chain, clock>>

Commit(r) ==
    LET e == call[r].request
        verdict == CommitVerdict(e, call[r].counter)
    IN
    /\ call[r].pc = "commit"
    /\ \/ Receipt(e) /\ Reply(r, "validated") /\ UNCHANGED database
       \/ Conflict(e) /\ Reply(r, "E_NULLIFIER") /\ UNCHANGED database
       \/ ~Receipt(e) /\ ~Conflict(e) /\ verdict # None /\ Reply(r, verdict) /\ UNCHANGED database
       \/ ~Receipt(e) /\ ~Conflict(e) /\ verdict = None /\ Store(e, call[r].at) /\ Reply(r, "validated")
    /\ UNCHANGED <<chain, clock>>

-----------------------------------------------------------------------------
(* authorizeClaim(). *)

StartClaim(r, c) ==
    /\ Free(r)
    /\ call' = [call EXCEPT ![r] = [Idle EXCEPT !.pc = "quote", !.request = c]]
    /\ UNCHANGED <<database, chain, clock>>

\* source.claim: the authorization for the payout account's present nonce.
Quote(r) ==
    /\ call[r].pc = "quote"
    /\ IF chain.pinned
       THEN call' = [call EXCEPT ![r].pc = "claim", ![r].snapshot = chain]
       ELSE Reply(r, "observation_dependency_unavailable")
    /\ UNCHANGED <<database, chain, clock>>

\* The key must own the pseudonym, and its assertion be over this digest.
ClaimVerdict(c, snapshot) ==
    IF ~Usable(c.key) \/ payoutOwner[c.pseudonym] # c.key THEN "E_ASSERTION"
    ELSE IF c.nonce # snapshot.nonce[c.pseudonym] \/ c.assertion <= attest[c.key] THEN "E_ASSERTION"
    ELSE None

CheckClaim(r) ==
    LET c == call[r].request
        verdict == ClaimVerdict(c, call[r].snapshot)
    IN
    /\ call[r].pc = "claim"
    /\ IF verdict # None
       THEN Reply(r, verdict)
       ELSE call' = [call EXCEPT ![r].pc = "commitClaim", ![r].counter = attest[c.key]]
    /\ UNCHANGED <<database, chain, clock>>

CommitClaimNoCAS(r) ==
    LET c == call[r].request IN
    /\ call[r].pc = "commitClaim"
    /\ IF ~Usable(c.key)
       THEN Reply(r, "E_ASSERTION") /\ UNCHANGED <<attest, signed>>
       ELSE /\ attest' = [attest EXCEPT ![c.key] = c.assertion]
            /\ signed' = signed \cup {c}
            /\ Move(r, "prepareClaim")
    /\ UNCHANGED <<validated, validatedAt, revoked, lastTick, payoutOwner, jobs, sealed, chain, clock>>

CommitClaim(r) ==
    LET c == call[r].request IN
    /\ call[r].pc = "commitClaim"
    /\ IF ~Usable(c.key) \/ attest[c.key] # call[r].counter
       THEN Reply(r, "E_ASSERTION") /\ UNCHANGED <<attest, signed>>
       ELSE /\ attest' = [attest EXCEPT ![c.key] = c.assertion]
            /\ signed' = signed \cup {c}
            /\ Move(r, "prepareClaim")
    /\ UNCHANGED <<validated, validatedAt, revoked, lastTick, payoutOwner, jobs, sealed, chain, clock>>

\* source.prepareClaim wraps the signed claim in a transaction.
PrepareClaim(r) ==
    /\ call[r].pc = "prepareClaim"
    /\ Reply(r, "signed")
    /\ UNCHANGED <<database, chain, clock>>

\* An RPC call, the proof worker or the write lock fails or times out; after
\* the commit of a claim its signature is lost with the answer.
Unavailable(r) ==
    /\ call[r].pc \in {"snapshot", "proof", "commit", "quote", "commitClaim", "prepareClaim"}
    /\ Reply(r, "observation_dependency_unavailable")
    /\ UNCHANGED <<database, chain, clock>>

Restart ==
    /\ call' = [r \in Slots |-> Idle]
    /\ UNCHANGED <<database, chain, clock>>

-----------------------------------------------------------------------------
(* The rest of the verifier, the chain and time. *)

\* The enrollment service accepts an attestation: the counter starts at 0.
Enroll(k) ==
    /\ attest[k] = None
    /\ attest' = [attest EXCEPT ![k] = 0]
    /\ UNCHANGED <<validated, validatedAt, revoked, lastTick, payoutOwner, jobs, sealed, signed, call, chain, clock>>

\* The gate accepts an assertion for an enrollment or tree challenge.
AcceptAssertion(k) ==
    /\ attest[k] # None /\ attest[k] < MaxElsewhere
    /\ attest' = [attest EXCEPT ![k] = @ + 1]
    /\ UNCHANGED <<validated, validatedAt, revoked, lastTick, payoutOwner, jobs, sealed, signed, call, chain, clock>>

\* Revocations, finalized nullifiers, rotated roots and policy changes so far.
Events == Cardinality(revoked) + Cardinality(chain.nullifiers) + Cardinality(Roots \ chain.roots)
              + (IF chain.pinned THEN 0 ELSE 1)

Revoke(k) ==
    /\ Events < MaxEvents
    /\ revoked' = revoked \cup {k}
    /\ UNCHANGED <<validated, validatedAt, attest, lastTick, payoutOwner, jobs, sealed, signed, call, chain, clock>>

RegisterDevice(d) ==
    /\ chain' = [chain EXCEPT !.devices = @ \cup {d}]
    /\ UNCHANGED <<database, call, clock>>

\* An observation with this nullifier is finalized, this verifier's or not.
FinalizeObservation(n) ==
    /\ Events < MaxEvents
    /\ chain' = [chain EXCEPT !.nullifiers = @ \cup {n}]
    /\ UNCHANGED <<database, call, clock>>

\* A root leaves the ring, or the policy authority changes the policy.
RotateRoot(root) ==
    /\ Events < MaxEvents
    /\ chain' = [chain EXCEPT !.roots = @ \ {root}]
    /\ UNCHANGED <<database, call, clock>>

ChangePolicy ==
    /\ Events < MaxEvents
    /\ chain' = [chain EXCEPT !.pinned = FALSE]
    /\ UNCHANGED <<database, call, clock>>

\* A signed claim is executed and moves the payout's nonce.
ExecuteClaim(c) ==
    /\ c \in signed /\ c.nonce = chain.nonce[c.pseudonym]
    /\ chain' = [chain EXCEPT !.nonce[c.pseudonym] = @ + 1]
    /\ UNCHANGED <<database, call, clock>>

Tick ==
    /\ clock < MaxTime
    /\ clock' = clock + 1
    /\ UNCHANGED <<database, call, chain>>

Request(r) ==
    \/ \E e \in Envelopes : Receive(r, e)
    \/ Snapshot(r) \/ Check(r) \/ Proved(r) \/ Commit(r)
    \/ \E c \in Claims : StartClaim(r, c)
    \/ Quote(r) \/ CheckClaim(r) \/ CommitClaim(r) \/ PrepareClaim(r) \/ Unavailable(r)

Environment ==
    \/ \E k \in Keys : Enroll(k) \/ AcceptAssertion(k) \/ Revoke(k)
    \/ \E d \in Devices : RegisterDevice(d)
    \/ \E n \in Nullifiers : FinalizeObservation(n)
    \/ \E root \in Roots : RotateRoot(root)
    \/ \E c \in Claims : ExecuteClaim(c)
    \/ ChangePolicy \/ Restart \/ Tick

Next == (\E r \in Slots : Request(r)) \/ Environment

Spec == Init /\ [][Next]_vars

-----------------------------------------------------------------------------
(* Properties. *)

Accepted == {validated[t] : t \in Validations}

\* Two accepted observations never share a nullifier, although both may have
\* passed every check before either was stored.
NullifierOnce == \A x, y \in Accepted : x # y => x.nullifier # y.nullifier

\* An App Attest assertion is spent once, by an observation or by a claim:
\* the counter stored for its key has reached it.
AssertionOnce ==
    /\ \A x, y \in Accepted \cup signed : x # y /\ x.key = y.key => x.assertion # y.assertion
    /\ \A x \in Accepted \cup signed : attest[x.key] # None /\ x.assertion <= attest[x.key]

\* The device counters of two accepted observations of one counting device
\* never overlap, whichever was checked first.
TicksDisjoint ==
    \A x, y \in Accepted :
        x # y /\ x.device = y.device /\ x.device \in CounterDevices =>
            x.ticks[3] < y.ticks[1] \/ y.ticks[3] < x.ticks[1]

\* A receipt, its sealed confidence input, its relay job and its payout owner
\* are stored together or not at all.
StoredTogether ==
    /\ jobs = Validations /\ sealed = Validations
    /\ \A e \in Accepted : payoutOwner[e.pseudonym] = e.key

\* Only the key that observed under a pseudonym gets its claims signed.
ClaimsByObserver ==
    \A c \in signed : \E e \in Accepted : e.pseudonym = c.pseudonym /\ e.key = c.key

\* An observation is accepted within the clock tolerance of its own time,
\* however long the snapshot and the proof took.
AcceptedInTime ==
    \A t \in Validations : validatedAt[t] - Window <= validated[t].time /\ validated[t].time <= validatedAt[t] + Window

\* A client told "validated" finds its envelope stored; one whose envelope is
\* stored is never told it was rejected.
AnswersConsistent ==
    /\ [](\A r \in Slots : call[r].reply = "validated" => Receipt(call[r].request))
    /\ [][\A r \in Slots : call[r].pc # "done" /\ call'[r].pc = "done" /\ call[r].request \in Envelopes =>
             (call'[r].reply \notin {"validated", "observation_dependency_unavailable"} => ~Receipt(call[r].request))]_vars

\* Once a key is revoked nothing it asserts is accepted or signed, requests
\* that were already past their checks included.
RevocationHolds ==
    [][\A x \in (Accepted' \cup signed') \ (Accepted \cup signed) : x.key \notin revoked]_vars

\* Whatever passed its checks side by side counts once: no nullifier, device
\* counter or assertion is accepted a second time, observations and withdrawals
\* together, and a withdrawal is signed only for the key that observed.
SpentOnce == NullifierOnce /\ TicksDisjoint /\ AssertionOnce /\ ClaimsByObserver

\* The tables are well formed, a receipt comes with all that belongs to it, and
\* none is of an observation that was too old when it was stored.
TablesConsistent == TypeOK /\ StoredTogether /\ AcceptedInTime

\* The receipts are complete and none is one too many, although requests check
\* side by side before any of them commits.
ReceiptsSound == TablesConsistent /\ SpentOnce
=============================================================================
