---------------------- MODULE ObservationPolicyProofs ----------------------
(* Theorems about ObservationPolicy, for every set of envelopes, claims and  *)
(* concurrent requests, every capacity and every clock tolerance.            *)
EXTENDS ObservationPolicy, TLAPS

-----------------------------------------------------------------------------
(* The inductive invariant. *)

\* A receipt is stored under its own transcript, with the time of its check.
Placed ==
    \A t \in Validations :
        /\ validated[t].transcript = t /\ validatedAt[t] \in Nat

\* The counters of an accepted observation increase up to the one stored for
\* its device.
TicksKept ==
    \A e \in Accepted :
        e.device \in CounterDevices =>
            e.ticks[1] < e.ticks[2] /\ e.ticks[2] < e.ticks[3] /\ e.ticks[3] <= lastTick[e.device]

\* The owner of a pseudonym observed under it.
OwnersObserved ==
    \A p \in Pseudonyms : payoutOwner[p] # None => \E e \in Accepted : e.pseudonym = p /\ e.key = payoutOwner[p]

\* What a request has established by the time it waits.
CallAt(c) ==
    /\ c.pc = "idle" => c.request = None
    /\ c.pc \in {"snapshot", "check", "proof", "commit"} => c.request \in Envelopes
    /\ c.pc \in {"quote", "claim", "commitClaim", "prepareClaim"} => c.request \in Claims
    /\ c.pc \in {"check", "proof", "claim"} => c.snapshot \in ChainStates
    /\ c.pc \in {"proof", "commit", "commitClaim"} => c.counter \in Nat /\ c.counter < c.request.assertion
    /\ c.pc = "commit" => c.at \in Nat /\ c.at - Window <= c.request.time /\ c.request.time <= c.at + Window
    /\ c.pc = "commitClaim" => payoutOwner[c.request.pseudonym] = c.request.key
    /\ c.reply = "validated" => c.request \in Envelopes /\ Receipt(c.request)

CallsSound == \A r \in Slots : CallAt(call[r])

CallRecord ==
    [pc: Points, request: Envelopes \cup Claims \cup {None}, snapshot: ChainStates \cup {None},
     counter: Nat \cup {None}, at: Nat \cup {None}, reply: Codes \cup {"validated", "signed", None}]

Tables == StoredTogether /\ AcceptedInTime /\ SpentOnce /\ Placed /\ TicksKept /\ OwnersObserved

IInv == TypeOK /\ Tables /\ CallsSound

-----------------------------------------------------------------------------
(* Types, and requests that change. *)

Typed ==
    /\ validated \in [Transcripts -> Envelopes \cup {None}]
    /\ validatedAt \in [Transcripts -> Nat \cup {None}]
    /\ attest \in [Keys -> Nat \cup {None}]
    /\ revoked \subseteq Keys
    /\ lastTick \in [Devices -> Nat \cup {-1}]
    /\ payoutOwner \in [Pseudonyms -> Keys \cup {None}]
    /\ jobs \subseteq Transcripts /\ sealed \subseteq Transcripts
    /\ signed \subseteq Claims
    /\ call \in [Slots -> CallRecord]
    /\ chain \in ChainStates
    /\ clock \in Nat

LEMMA Types == (TypeOK <=> Typed) /\ (TypeOK' <=> Typed')
  BY Zenon DEF TypeOK, Typed, CallRecord

\* The fields of an envelope and of a claim.
LEMMA EnvelopeFacts ==
    ASSUME NEW e \in Envelopes
    PROVE  /\ e.transcript \in Transcripts /\ e.key \in Keys /\ e.device \in Devices /\ e.pseudonym \in Pseudonyms
           /\ e.assertion \in Nat /\ e.time \in Nat /\ e # None /\ e \notin Claims
           /\ e.ticks[1] \in Nat /\ e.ticks[2] \in Nat /\ e.ticks[3] \in Nat
  <1>1. e.transcript \in Transcripts /\ e.key \in Keys /\ e.device \in Devices /\ e.pseudonym \in Pseudonyms
    BY DEF Transcripts, Keys, Devices, Pseudonyms
  <1>2. e.assertion \in Nat /\ e.time \in Nat /\ e # None /\ e \notin Claims
    BY PolicyAssumption
  <1>3. \A i \in 1 .. 3 : e.ticks[i] \in Nat
    BY PolicyAssumption
  <1> QED
    BY <1>1, <1>2, <1>3

LEMMA ClaimFacts ==
    ASSUME NEW c \in Claims
    PROVE  c.pseudonym \in Pseudonyms /\ c.key \in Keys /\ c.assertion \in Nat
  BY PolicyAssumption

\* What is accepted.
LEMMA AcceptedFacts ==
    ASSUME Typed, NEW e \in Accepted
    PROVE  /\ e \in Envelopes /\ e # None
           /\ \E t \in Validations : validated[t] = e
  <1>1. PICK t \in Validations : e = validated[t]
    BY DEF Accepted
  <1> QED
    BY <1>1 DEF Typed, Validations

LEMMA SpentFacts ==
    ASSUME Typed, Placed, NEW x \in Accepted \cup signed
    PROVE  x.key \in Keys /\ x.assertion \in Nat
  <1>1. CASE x \in Accepted
    BY <1>1, AcceptedFacts, EnvelopeFacts
  <1>2. CASE x \in signed
    BY <1>2, ClaimFacts DEF Typed
  <1> QED
    BY <1>1, <1>2

\* One request changes and the receipts stay.
LEMMA CallChange ==
    ASSUME Typed, CallsSound, UNCHANGED <<validated, payoutOwner>>,
           NEW r \in Slots, NEW c \in CallRecord, call' = [call EXCEPT ![r] = c], CallAt(c)
    PROVE  CallsSound' /\ call' \in [Slots -> CallRecord]
  <1>1. \A s \in Slots : call'[s] = IF s = r THEN c ELSE call[s]
    BY DEF Typed
  <1>2. \A x : CallAt(x) => CallAt(x)'
    BY DEF CallAt, Receipt
  <1>3. CallsSound'
    <2> SUFFICES ASSUME NEW s \in Slots PROVE CallAt(call[s])'
      BY DEF CallsSound
    <2>1. CASE s = r
      BY <1>1, <2>1 DEF CallAt, Receipt
    <2>2. CASE s # r
      BY <1>1, <2>2 DEF CallsSound, CallAt, Receipt
    <2> QED
      BY <2>1, <2>2
  <1> QED
    BY <1>3 DEF Typed

\* The record of a request that is answered.
Answered(c, code) == [c EXCEPT !.pc = "done", !.snapshot = None, !.counter = None, !.at = None, !.reply = code]

LEMMA ReplyFacts ==
    ASSUME NEW x \in CallRecord, NEW code \in Codes \cup {"validated", "signed"}
    PROVE  /\ Answered(x, code) \in CallRecord
           /\ Answered(x, code).pc = "done" /\ Answered(x, code).reply = code
           /\ Answered(x, code).request = x.request
  BY DEF Answered, CallRecord, Points

LEMMA ReplyChange ==
    ASSUME Typed, CallsSound, UNCHANGED <<validated, payoutOwner>>,
           NEW r \in Slots, NEW code \in Codes \cup {"validated", "signed"}, Reply(r, code),
           code = "validated" => call[r].request \in Envelopes /\ Receipt(call[r].request)
    PROVE  CallsSound' /\ call' \in [Slots -> CallRecord]
  <1> DEFINE c == Answered(call[r], code)
  <1>1. call[r] \in CallRecord
    BY DEF Typed
  <1>2. c \in CallRecord /\ c.pc = "done" /\ c.reply = code /\ c.request = call[r].request
    BY <1>1, ReplyFacts
  <1>3. call' = [call EXCEPT ![r] = c]
    BY <1>1 DEF Reply, Answered, Typed, CallRecord
  <1> HIDE DEF c
  <1>4. CallAt(c)
    BY <1>2 DEF CallAt
  <1> QED
    BY <1>2, <1>3, <1>4, CallChange

-----------------------------------------------------------------------------
(* Steps that store nothing. *)

\* The counters of the keys only grow.
CountersGrow == \A k \in Keys : attest[k] # None => attest'[k] # None /\ attest[k] <= attest'[k]

LEMMA TablesKept ==
    ASSUME Typed, Tables, attest' \in [Keys -> Nat \cup {None}], CountersGrow,
           UNCHANGED <<validated, validatedAt, lastTick, payoutOwner, jobs, sealed, signed>>
    PROVE  Tables' /\ Accepted' = Accepted
  <1>1. Validations' = Validations /\ Accepted' = Accepted
    BY DEF Validations, Accepted
  <1>2. StoredTogether' /\ AcceptedInTime' /\ Placed' /\ TicksKept' /\ OwnersObserved'
    BY <1>1 DEF Tables, StoredTogether, AcceptedInTime, Placed, TicksKept, OwnersObserved
  <1>3. NullifierOnce' /\ TicksDisjoint' /\ ClaimsByObserver'
    BY <1>1 DEF Tables, SpentOnce, NullifierOnce, TicksDisjoint, ClaimsByObserver
  <1>4. AssertionOnce'
    <2>1. ASSUME NEW x \in Accepted \cup signed PROVE attest'[x.key] # None /\ x.assertion <= attest'[x.key]
      <3>1. x.key \in Keys /\ x.assertion \in Nat /\ attest[x.key] # None /\ x.assertion <= attest[x.key]
        BY SpentFacts DEF Tables, SpentOnce, AssertionOnce
      <3>2. attest'[x.key] # None /\ attest[x.key] <= attest'[x.key]
        BY <3>1 DEF CountersGrow
      <3>3. attest[x.key] \in Nat /\ attest'[x.key] \in Nat
        BY <3>1, <3>2 DEF Typed
      <3> QED
        BY <3>1, <3>2, <3>3
    <2> QED
      BY <1>1, <2>1 DEF Tables, SpentOnce, AssertionOnce
  <1> QED
    BY <1>1, <1>2, <1>3, <1>4 DEF Tables, SpentOnce

LEMMA SameCounters == ASSUME Typed, UNCHANGED attest PROVE CountersGrow
  BY DEF Typed, CountersGrow

\* A step of a request that leaves the database, the chain and the clock.
LEMMA QuietRequest ==
    ASSUME IInv, UNCHANGED <<database, chain, clock>>, CallsSound', call' \in [Slots -> CallRecord]
    PROVE  IInv' /\ Accepted' = Accepted
  <1>1. Typed /\ Tables
    BY Types DEF IInv
  <1>2. UNCHANGED <<validated, validatedAt, attest, revoked, lastTick, payoutOwner, jobs, sealed, signed, chain, clock>>
    BY DEF database
  <1>3. Tables' /\ Accepted' = Accepted
    BY <1>1, <1>2, SameCounters, TablesKept DEF Typed
  <1>4. Typed'
    BY <1>1, <1>2 DEF Typed
  <1> QED
    BY <1>3, <1>4, Types DEF IInv

\* The verdicts are codes.
LEMMA VerdictCodes ==
    /\ \A e, snapshot : Verdict(e, snapshot) \in Codes \cup {None} /\ ProofVerdict(e, snapshot) \in Codes \cup {None}
    /\ \A e, counter : CommitVerdict(e, counter) \in Codes \cup {None}
    /\ \A c, snapshot : ClaimVerdict(c, snapshot) \in Codes \cup {None}
  <1>1. \A e, snapshot : Verdict(e, snapshot) \in Codes \cup {None}
    BY DEF Verdict, Codes
  <1>2. \A e, snapshot : ProofVerdict(e, snapshot) \in Codes \cup {None}
    BY DEF ProofVerdict, Codes
  <1>3. \A e, counter : CommitVerdict(e, counter) \in Codes \cup {None}
    BY DEF CommitVerdict, Codes
  <1>4. \A c, snapshot : ClaimVerdict(c, snapshot) \in Codes \cup {None}
    BY DEF ClaimVerdict, Codes
  <1> QED
    BY <1>1, <1>2, <1>3, <1>4

LEMMA BeginSteps ==
    ASSUME IInv, NEW r \in Slots, (\E e \in Envelopes : Receive(r, e)) \/ (\E c \in Claims : StartClaim(r, c))
    PROVE  CallsSound' /\ call' \in [Slots -> CallRecord] /\ UNCHANGED <<database, chain, clock>>
  <1>0. Typed /\ CallsSound
    BY Types, SMTT(40) DEF IInv
  <1>1. UNCHANGED <<database, chain, clock>> /\ UNCHANGED <<validated, payoutOwner>>
    BY DEF Receive, StartClaim, database
  <1>2. ASSUME NEW e \in Envelopes, Receive(r, e) PROVE CallsSound' /\ call' \in [Slots -> CallRecord]
    <2>1. CASE Receipt(e)
      <3> DEFINE c == [Idle EXCEPT !.pc = "done", !.request = e, !.reply = "validated"]
      <3>1. c \in CallRecord /\ c.pc = "done" /\ c.request = e /\ c.reply = "validated"
        BY DEF Idle, CallRecord, Points, Codes
      <3>2. call' = [call EXCEPT ![r] = c]
        BY <1>2, <2>1 DEF Receive
      <3> HIDE DEF c
      <3>3. CallAt(c)
        BY <2>1, <3>1 DEF CallAt
      <3> QED
        BY <1>0, <1>1, <3>1, <3>2, <3>3, CallChange
    <2>2. CASE ~Receipt(e) /\ Conflict(e)
      <3> DEFINE c == [Idle EXCEPT !.pc = "done", !.request = e, !.reply = "E_NULLIFIER"]
      <3>1. c \in CallRecord /\ c.pc = "done" /\ c.request = e /\ c.reply = "E_NULLIFIER"
        BY DEF Idle, CallRecord, Points, Codes
      <3>2. call' = [call EXCEPT ![r] = c]
        BY <1>2, <2>2 DEF Receive
      <3> HIDE DEF c
      <3>3. CallAt(c)
        BY <3>1 DEF CallAt
      <3> QED
        BY <1>0, <1>1, <3>1, <3>2, <3>3, CallChange
    <2>3. CASE ~Receipt(e) /\ ~Conflict(e)
      <3> DEFINE c == [Idle EXCEPT !.pc = "snapshot", !.request = e]
      <3>1. c \in CallRecord /\ c.pc = "snapshot" /\ c.request = e /\ c.reply = None
        BY DEF Idle, CallRecord, Points, Codes
      <3>2. call' = [call EXCEPT ![r] = c]
        BY <1>2, <2>3 DEF Receive
      <3> HIDE DEF c
      <3>3. c.reply = "validated" => c.request \in Envelopes /\ Receipt(c.request)
        BY <3>1, PolicyAssumption
      <3>4. CallAt(c)
        BY <3>1, <3>3 DEF CallAt
      <3> QED
        BY <1>0, <1>1, <3>1, <3>2, <3>4, CallChange
    <2> QED
      BY <2>1, <2>2, <2>3
  <1>3. ASSUME NEW q \in Claims, StartClaim(r, q) PROVE CallsSound' /\ call' \in [Slots -> CallRecord]
    <2> DEFINE c == [Idle EXCEPT !.pc = "quote", !.request = q]
    <2>1. c \in CallRecord /\ c.pc = "quote" /\ c.request = q /\ c.reply = None
      BY DEF Idle, CallRecord, Points, Codes
    <2>2. call' = [call EXCEPT ![r] = c]
      BY <1>3 DEF StartClaim
    <2> HIDE DEF c
    <2>3. CallAt(c)
      BY <2>1, PolicyAssumption DEF CallAt
    <2> QED
      BY <1>0, <1>1, <2>1, <2>2, <2>3, CallChange
  <1> QED
    BY <1>1, <1>2, <1>3

\* The steps of receive() up to its transaction.
LEMMA ReceiveSteps ==
    ASSUME IInv, NEW r \in Slots, Snapshot(r) \/ Check(r) \/ Proved(r)
    PROVE  CallsSound' /\ call' \in [Slots -> CallRecord] /\ UNCHANGED <<database, chain, clock>>
  <1> DEFINE e == call[r].request
  <1>0. Typed /\ CallsSound
    BY Types, SMTT(40) DEF IInv
  <1>1. UNCHANGED <<database, chain, clock>> /\ UNCHANGED <<validated, payoutOwner>>
    BY DEF Snapshot, Check, Proved, Reply, database
  <1>2. call[r] \in CallRecord /\ CallAt(call[r]) /\ e \in Envelopes
    BY <1>0 DEF Typed, CallsSound, CallAt, Snapshot, Check, Proved
  <1>3. ASSUME NEW code \in Codes, Reply(r, code) PROVE CallsSound' /\ call' \in [Slots -> CallRecord]
    <2>1. code # "validated"
      BY DEF Codes
    <2> QED
      BY <1>0, <1>1, <1>3, <2>1, ReplyChange
  <1>4. ASSUME Receipt(e), Reply(r, "validated") PROVE CallsSound' /\ call' \in [Slots -> CallRecord]
    BY <1>0, <1>1, <1>2, <1>4, ReplyChange
  <1>5. "E_NULLIFIER" \in Codes /\ "observation_dependency_unavailable" \in Codes
    BY DEF Codes
  <1>6. CASE Snapshot(r)
    <2>1. CASE chain.pinned
      <3> DEFINE c == [call[r] EXCEPT !.pc = "check", !.snapshot = chain]
      <3>1. /\ c \in CallRecord /\ c.pc = "check" /\ c.request = e /\ c.reply = call[r].reply
            /\ c.snapshot = chain /\ chain \in ChainStates
        BY <1>0, <1>2 DEF Typed, CallRecord, Points
      <3>2. call' = [call EXCEPT ![r] = c]
        BY <1>0, <1>2, <1>6, <2>1 DEF Snapshot, Typed, CallRecord
      <3> HIDE DEF c
      <3>3. CallAt(c)
        BY <1>2, <3>1 DEF CallAt
      <3> QED
        BY <1>0, <1>1, <3>1, <3>2, <3>3, CallChange
    <2>2. CASE ~chain.pinned
      BY <1>3, <1>5, <1>6, <2>2 DEF Snapshot
    <2> QED
      BY <1>1, <2>1, <2>2
  <1>7. CASE Check(r)
    <2> DEFINE verdict == Verdict(e, call[r].snapshot)
    <2>1. CASE Receipt(e) /\ Reply(r, "validated")
      BY <1>1, <1>4, <2>1
    <2>2. CASE Reply(r, "E_NULLIFIER")
      BY <1>1, <1>3, <1>5, <2>2
    <2>3. CASE verdict # None /\ Reply(r, verdict)
      BY <1>1, <1>3, <2>3, VerdictCodes
    <2>4. CASE verdict = None /\ call' = [call EXCEPT ![r].pc = "proof", ![r].counter = attest[e.key]]
      <3> DEFINE c == [call[r] EXCEPT !.pc = "proof", !.counter = attest[e.key]]
      <3>1. attest[e.key] # None /\ ~(e.assertion <= attest[e.key])
        <4>1. Usable(e.key) /\ ~(e.assertion <= attest[e.key])
          BY <2>4, PolicyAssumption DEF Verdict, Codes
        <4> QED
          BY <4>1 DEF Usable
      <3>2. e.key \in Keys /\ e.assertion \in Nat
        BY <1>2, EnvelopeFacts
      <3>3. attest[e.key] \in Nat
        BY <1>0, <3>1, <3>2 DEF Typed
      <3>4. /\ c \in CallRecord /\ c.pc = "proof" /\ c.request = e /\ c.reply = call[r].reply
            /\ c.snapshot = call[r].snapshot /\ c.counter = attest[e.key]
        BY <1>2, <3>3 DEF CallRecord, Points
      <3>5. call' = [call EXCEPT ![r] = c]
        BY <1>0, <1>2, <2>4 DEF Typed, CallRecord
      <3>6. call[r].snapshot \in ChainStates
        BY <1>2, <1>7 DEF CallAt, Check
      <3>7. attest[e.key] < e.assertion
        BY <3>1, <3>2, <3>3
      <3> HIDE DEF c
      <3>8. CallAt(c)
        BY <1>2, <3>3, <3>4, <3>6, <3>7 DEF CallAt
      <3> QED
        BY <1>0, <1>1, <3>4, <3>5, <3>8, CallChange
    <2> QED
      BY <1>1, <1>7, <2>1, <2>2, <2>3, <2>4 DEF Check
  <1>8. CASE Proved(r)
    <2> DEFINE verdict == ProofVerdict(e, call[r].snapshot)
    <2>1. CASE Receipt(e) /\ Reply(r, "validated")
      BY <1>1, <1>4, <2>1
    <2>2. CASE Reply(r, "E_NULLIFIER")
      BY <1>1, <1>3, <1>5, <2>2
    <2>3. CASE verdict # None /\ Reply(r, verdict)
      BY <1>1, <1>3, <2>3, VerdictCodes
    <2>4. CASE verdict = None /\ call' = [call EXCEPT ![r].pc = "commit", ![r].at = clock]
      <3> DEFINE c == [call[r] EXCEPT !.pc = "commit", !.at = clock]
      <3>1. clock - Window <= e.time /\ e.time <= clock + Window
        <4>1. Timely(e)
          BY <2>4, PolicyAssumption DEF ProofVerdict, Codes
        <4> QED
          BY <4>1 DEF Timely
      <3>2. clock \in Nat
        BY <1>0 DEF Typed
      <3>3. /\ c \in CallRecord /\ c.pc = "commit" /\ c.request = e /\ c.reply = call[r].reply
            /\ c.counter = call[r].counter /\ c.at = clock
        BY <1>2, <3>2 DEF CallRecord, Points
      <3>4. call' = [call EXCEPT ![r] = c]
        BY <1>0, <1>2, <2>4 DEF Typed, CallRecord
      <3>5. call[r].counter \in Nat /\ call[r].counter < e.assertion
        BY <1>2, <1>8 DEF CallAt, Proved
      <3> HIDE DEF c
      <3>6. CallAt(c)
        BY <1>2, <3>1, <3>2, <3>3, <3>5 DEF CallAt
      <3> QED
        BY <1>0, <1>1, <3>3, <3>4, <3>6, CallChange
    <2> QED
      BY <1>1, <1>8, <2>1, <2>2, <2>3, <2>4 DEF Proved
  <1> QED
    BY <1>1, <1>6, <1>7, <1>8

\* The steps of authorizeClaim() but for its transaction, and a call that fails.
LEMMA ClaimSteps ==
    ASSUME IInv, NEW r \in Slots, Quote(r) \/ CheckClaim(r) \/ PrepareClaim(r) \/ Unavailable(r)
    PROVE  CallsSound' /\ call' \in [Slots -> CallRecord] /\ UNCHANGED <<database, chain, clock>>
  <1> DEFINE q == call[r].request
  <1>0. Typed /\ CallsSound
    BY Types DEF IInv
  <1>1. UNCHANGED <<database, chain, clock>> /\ UNCHANGED <<validated, payoutOwner>>
    BY DEF Quote, CheckClaim, PrepareClaim, Unavailable, database
  <1>2. call[r] \in CallRecord /\ CallAt(call[r])
    BY <1>0 DEF Typed, CallsSound
  <1>3. ASSUME NEW code \in Codes \cup {"signed"}, Reply(r, code) PROVE CallsSound' /\ call' \in [Slots -> CallRecord]
    <2>1. code # "validated"
      BY DEF Codes
    <2> QED
      BY <1>0, <1>1, <1>3, <2>1, ReplyChange
  <1>4. "observation_dependency_unavailable" \in Codes
    BY DEF Codes
  <1>5. CASE PrepareClaim(r) \/ Unavailable(r)
    BY <1>1, <1>3, <1>4, <1>5 DEF PrepareClaim, Unavailable
  <1>6. CASE Quote(r)
    <2>1. CASE chain.pinned
      <3> DEFINE c == [call[r] EXCEPT !.pc = "claim", !.snapshot = chain]
      <3>1. /\ c \in CallRecord /\ c.pc = "claim" /\ c.request = q /\ c.reply = call[r].reply
            /\ c.snapshot = chain /\ chain \in ChainStates
        BY <1>0, <1>2 DEF Typed, CallRecord, Points
      <3>2. call' = [call EXCEPT ![r] = c]
        BY <1>0, <1>2, <1>6, <2>1 DEF Quote, Typed, CallRecord
      <3>3. q \in Claims
        BY <1>2, <1>6 DEF CallAt, Quote
      <3> HIDE DEF c
      <3>4. CallAt(c)
        BY <1>2, <3>1, <3>3 DEF CallAt
      <3> QED
        BY <1>0, <1>1, <3>1, <3>2, <3>4, CallChange
    <2>2. CASE ~chain.pinned
      BY <1>3, <1>4, <1>6, <2>2 DEF Quote
    <2> QED
      BY <1>1, <2>1, <2>2
  <1>7. CASE CheckClaim(r)
    <2> DEFINE verdict == ClaimVerdict(q, call[r].snapshot)
    <2>1. CASE verdict # None
      BY <1>1, <1>3, <1>7, <2>1, VerdictCodes DEF CheckClaim
    <2>2. CASE verdict = None
      <3> DEFINE c == [call[r] EXCEPT !.pc = "commitClaim", !.counter = attest[q.key]]
      <3>1. attest[q.key] # None /\ ~(q.assertion <= attest[q.key]) /\ payoutOwner[q.pseudonym] = q.key
        <4>1. Usable(q.key) /\ ~(q.assertion <= attest[q.key]) /\ payoutOwner[q.pseudonym] = q.key
          BY <2>2, PolicyAssumption DEF ClaimVerdict, Codes
        <4> QED
          BY <4>1 DEF Usable
      <3>2. q \in Claims
        BY <1>2, <1>7 DEF CallAt, CheckClaim
      <3>3. q.key \in Keys /\ q.assertion \in Nat
        BY <3>2, ClaimFacts
      <3>4. attest[q.key] \in Nat
        BY <1>0, <3>1, <3>3 DEF Typed
      <3>5. /\ c \in CallRecord /\ c.pc = "commitClaim" /\ c.request = q /\ c.reply = call[r].reply
            /\ c.counter = attest[q.key]
        BY <1>2, <3>4 DEF CallRecord, Points
      <3>6. call' = [call EXCEPT ![r] = c]
        BY <1>0, <1>2, <1>7, <2>2 DEF CheckClaim, Typed, CallRecord
      <3>7. attest[q.key] < q.assertion
        BY <3>1, <3>3, <3>4
      <3> HIDE DEF c
      <3>8. CallAt(c)
        BY <1>2, <3>1, <3>2, <3>4, <3>5, <3>7 DEF CallAt
      <3> QED
        BY <1>0, <1>1, <3>5, <3>6, <3>8, CallChange
    <2> QED
      BY <2>1, <2>2
  <1> QED
    BY <1>5, <1>6, <1>7

-----------------------------------------------------------------------------
(* The two transactions. *)

\* What the transaction of receive() finds when it stores: every check it
\* makes again holds, and the transcript has no row yet.
Storable(e, counter) ==
    /\ validated[e.transcript] = None /\ ~Spent(e.nullifier)
    /\ Usable(e.key) /\ attest[e.key] = counter /\ TicksFresh(e)
    /\ payoutOwner[e.pseudonym] \in {None, e.key}

LEMMA StoreTables ==
    ASSUME Typed, Tables, NEW e \in Envelopes, NEW counter \in Nat, NEW at \in Nat,
           Storable(e, counter), counter < e.assertion,
           at - Window <= e.time, e.time <= at + Window, Store(e, at)
    PROVE  /\ Tables' /\ Accepted' = Accepted \cup {e} /\ e \notin Accepted
           /\ validated' \in [Transcripts -> Envelopes \cup {None}]
           /\ validatedAt' \in [Transcripts -> Nat \cup {None}]
           /\ attest' \in [Keys -> Nat \cup {None}]
           /\ lastTick' \in [Devices -> Nat \cup {-1}]
           /\ payoutOwner' \in [Pseudonyms -> Keys \cup {None}]
           /\ jobs' \subseteq Transcripts /\ sealed' \subseteq Transcripts
  <1>1. /\ e.transcript \in Transcripts /\ e.key \in Keys /\ e.device \in Devices /\ e.pseudonym \in Pseudonyms
        /\ e.assertion \in Nat /\ e.time \in Nat /\ e # None
        /\ e.ticks[1] \in Nat /\ e.ticks[2] \in Nat /\ e.ticks[3] \in Nat
    BY EnvelopeFacts
  <1> DEFINE t == e.transcript
  <1>2. /\ validated' = [validated EXCEPT ![t] = e] /\ validatedAt' = [validatedAt EXCEPT ![t] = at]
        /\ attest' = [attest EXCEPT ![e.key] = e.assertion]
        /\ lastTick' = IF e.device \in CounterDevices THEN [lastTick EXCEPT ![e.device] = e.ticks[3]] ELSE lastTick
        /\ sealed' = sealed \cup {t} /\ jobs' = jobs \cup {t}
        /\ payoutOwner' = [payoutOwner EXCEPT ![e.pseudonym] = e.key] /\ UNCHANGED signed
    BY DEF Store
  <1>3. /\ validated' \in [Transcripts -> Envelopes \cup {None}]
        /\ validatedAt' \in [Transcripts -> Nat \cup {None}]
        /\ attest' \in [Keys -> Nat \cup {None}]
        /\ lastTick' \in [Devices -> Nat \cup {-1}]
        /\ payoutOwner' \in [Pseudonyms -> Keys \cup {None}]
        /\ jobs' \subseteq Transcripts /\ sealed' \subseteq Transcripts
    BY <1>1, <1>2 DEF Typed
  <1>4. /\ validated'[t] = e /\ validatedAt'[t] = at
        /\ \A u \in Transcripts : u # t => validated'[u] = validated[u] /\ validatedAt'[u] = validatedAt[u]
    BY <1>1, <1>2 DEF Typed
  <1>5. t \notin Validations /\ Validations \subseteq Transcripts /\ Validations' = Validations \cup {t}
    BY <1>1, <1>4 DEF Storable, Validations
  <1>6. Accepted' = Accepted \cup {e}
    <2>1. ASSUME NEW x \in Accepted' PROVE x \in Accepted \cup {e}
      <3>1. PICK u \in Validations' : x = validated'[u]
        BY <2>1 DEF Accepted
      <3> QED
        BY <1>4, <1>5, <3>1 DEF Accepted
    <2>2. ASSUME NEW x \in Accepted PROVE x \in Accepted'
      <3>1. PICK u \in Validations : x = validated[u]
        BY <2>2 DEF Accepted
      <3>2. u \in Validations' /\ x = validated'[u]
        BY <1>4, <1>5, <3>1
      <3> QED
        BY <3>2 DEF Accepted
    <2>3. e \in Accepted'
      <3>1. t \in Validations' /\ validated'[t] = e
        BY <1>4, <1>5
      <3> QED
        BY <3>1 DEF Accepted
    <2> QED
      BY <2>1, <2>2, <2>3
  <1>7. \A x \in Accepted : x.nullifier # e.nullifier
    BY DEF Storable, Spent, Accepted, Validations
  <1>8. e \notin Accepted
    BY <1>7
  <1> HIDE DEF t
  <1>9. ASSUME NEW x \in Accepted \cup signed
        PROVE  /\ x.key \in Keys /\ x.assertion \in Nat /\ attest[x.key] \in Nat /\ x.assertion <= attest[x.key]
               /\ x.key = e.key => x.assertion < e.assertion
    <2>1. x.key \in Keys /\ x.assertion \in Nat /\ attest[x.key] # None /\ x.assertion <= attest[x.key]
      BY SpentFacts DEF Tables, SpentOnce, AssertionOnce
    <2>2. attest[x.key] \in Nat
      BY <2>1 DEF Typed
    <2>3. x.key = e.key => attest[x.key] = counter
      BY DEF Storable
    <2> QED
      BY <1>1, <2>1, <2>2, <2>3
  <1>10. AssertionOnce'
    <2>1. ASSUME NEW x \in Accepted \cup signed PROVE attest'[x.key] # None /\ x.assertion <= attest'[x.key]
      <3>1. CASE x.key = e.key
        <4>1. attest'[x.key] = e.assertion
          BY <1>1, <1>2, <3>1 DEF Typed
        <4> QED
          BY <1>1, <1>9, <3>1, <4>1, PolicyAssumption
      <3>2. CASE x.key # e.key
        <4>1. attest'[x.key] = attest[x.key]
          BY <1>2, <1>9, <3>2 DEF Typed
        <4> QED
          BY <1>9, <4>1, PolicyAssumption
      <3> QED
        BY <3>1, <3>2
    <2>2. attest'[e.key] # None /\ e.assertion <= attest'[e.key]
      <3>1. attest'[e.key] = e.assertion
        BY <1>1, <1>2 DEF Typed
      <3> QED
        BY <1>1, <3>1, PolicyAssumption
    <2>3. ASSUME NEW x \in Accepted \cup signed, x.key = e.key PROVE x.assertion # e.assertion
      BY <1>1, <1>9, <2>3
    <2>4. ASSUME NEW x \in Accepted' \cup signed', NEW y \in Accepted' \cup signed', x # y, x.key = y.key
          PROVE  x.assertion # y.assertion
      <3>1. (x \in Accepted \cup signed \/ x = e) /\ (y \in Accepted \cup signed \/ y = e)
        BY <1>2, <1>6
      <3>2. CASE x \in Accepted \cup signed /\ y \in Accepted \cup signed
        BY <2>4, <3>2 DEF Tables, SpentOnce, AssertionOnce
      <3> QED
        BY <2>3, <2>4, <3>1, <3>2
    <2>5. ASSUME NEW x \in Accepted' \cup signed' PROVE attest'[x.key] # None /\ x.assertion <= attest'[x.key]
      BY <1>2, <1>6, <2>1, <2>2
    <2> QED
      BY <2>4, <2>5 DEF AssertionOnce
  <1>11. NullifierOnce'
    BY <1>6, <1>7 DEF NullifierOnce, Tables, SpentOnce
  <1>12. ASSUME NEW x \in Accepted, x.device \in CounterDevices, x.device = e.device
         PROVE  x.ticks[3] < e.ticks[1] /\ x.ticks[3] <= e.ticks[3] /\ x.ticks[3] \in Nat
    <2>1. x.ticks[3] \in Nat /\ x.ticks[3] <= lastTick[e.device]
      BY <1>12, AcceptedFacts, EnvelopeFacts DEF Tables, TicksKept
    <2>2. lastTick[e.device] < e.ticks[1] /\ e.ticks[1] < e.ticks[2] /\ e.ticks[2] < e.ticks[3]
      BY <1>12 DEF Storable, TicksFresh
    <2>3. lastTick[e.device] \in Int
      BY <1>1 DEF Typed
    <2> QED
      BY <1>1, <2>1, <2>2, <2>3
  <1>13. TicksDisjoint'
    <2> SUFFICES ASSUME NEW x \in Accepted', NEW y \in Accepted', x # y, x.device = y.device, x.device \in CounterDevices
                 PROVE  x.ticks[3] < y.ticks[1] \/ y.ticks[3] < x.ticks[1]
      BY DEF TicksDisjoint
    <2>1. (x \in Accepted \/ x = e) /\ (y \in Accepted \/ y = e)
      BY <1>6
    <2>2. CASE x \in Accepted /\ y \in Accepted
      BY <2>2 DEF Tables, SpentOnce, TicksDisjoint
    <2> QED
      BY <1>12, <2>1, <2>2
  <1>14. TicksKept'
    <2> SUFFICES ASSUME NEW x \in Accepted', x.device \in CounterDevices
                 PROVE  x.ticks[1] < x.ticks[2] /\ x.ticks[2] < x.ticks[3] /\ x.ticks[3] <= lastTick'[x.device]
      BY DEF TicksKept
    <2>1. CASE x = e
      <3>1. lastTick'[e.device] = e.ticks[3]
        BY <1>1, <1>2, <2>1 DEF Typed
      <3> QED
        BY <1>1, <2>1, <3>1 DEF Storable, TicksFresh
    <2>2. CASE x \in Accepted
      <3>1. x.device \in Devices
        BY <2>2, AcceptedFacts, EnvelopeFacts
      <3>2. x.ticks[1] < x.ticks[2] /\ x.ticks[2] < x.ticks[3] /\ x.ticks[3] <= lastTick[x.device]
        BY <2>2 DEF Tables, TicksKept
      <3>3. CASE x.device = e.device
        <4>1. lastTick'[x.device] = e.ticks[3]
          BY <1>1, <1>2, <3>3 DEF Typed
        <4> QED
          BY <1>12, <2>2, <3>2, <3>3, <4>1
      <3>4. CASE x.device # e.device
        <4>1. lastTick'[x.device] = lastTick[x.device]
          BY <1>1, <1>2, <3>1, <3>4 DEF Typed
        <4> QED
          BY <3>2, <4>1
      <3> QED
        BY <3>3, <3>4
    <2> QED
      BY <1>6, <2>1, <2>2
  <1>15. \A p \in Pseudonyms : payoutOwner'[p] = IF p = e.pseudonym THEN e.key ELSE payoutOwner[p]
    BY <1>1, <1>2 DEF Typed
  <1>16. StoredTogether'
    <2>1. ASSUME NEW x \in Accepted' PROVE payoutOwner'[x.pseudonym] = x.key
      <3>1. CASE x = e
        BY <1>1, <1>15, <3>1
      <3>2. CASE x \in Accepted
        <4>1. x.pseudonym \in Pseudonyms /\ x.key \in Keys /\ payoutOwner[x.pseudonym] = x.key
          BY <3>2, AcceptedFacts, EnvelopeFacts DEF Tables, StoredTogether
        <4> QED
          BY <1>15, <4>1, PolicyAssumption DEF Storable
      <3> QED
        BY <1>6, <3>1, <3>2
    <2> QED
      BY <1>2, <1>5, <2>1 DEF Tables, StoredTogether
  <1>17. OwnersObserved'
    <2> SUFFICES ASSUME NEW p \in Pseudonyms, payoutOwner'[p] # None
                 PROVE  \E x \in Accepted' : x.pseudonym = p /\ x.key = payoutOwner'[p]
      BY DEF OwnersObserved
    <2>1. CASE p = e.pseudonym
      BY <1>6, <1>15, <2>1
    <2>2. CASE p # e.pseudonym
      BY <1>6, <1>15, <2>2 DEF Tables, OwnersObserved
    <2> QED
      BY <2>1, <2>2
  <1>18. ClaimsByObserver'
    BY <1>2, <1>6 DEF ClaimsByObserver, Tables, SpentOnce
  <1>19. AcceptedInTime' /\ Placed'
    <2>1. ASSUME NEW u \in Validations'
          PROVE  /\ validatedAt'[u] - Window <= validated'[u].time /\ validated'[u].time <= validatedAt'[u] + Window
                 /\ validated'[u].transcript = u /\ validatedAt'[u] \in Nat
      <3>1. CASE u = t
        BY <1>4, <3>1 DEF t
      <3>2. CASE u # t
        <4>1. u \in Validations /\ validated'[u] = validated[u] /\ validatedAt'[u] = validatedAt[u]
          BY <1>4, <1>5, <3>2
        <4> QED
          BY <4>1 DEF Tables, AcceptedInTime, Placed
      <3> QED
        BY <3>1, <3>2
    <2> QED
      BY <2>1 DEF AcceptedInTime, Placed
  <1>20. SpentOnce'
    BY <1>10, <1>11, <1>13, <1>18 DEF SpentOnce
  <1> QED
    BY <1>3, <1>6, <1>8, <1>14, <1>16, <1>17, <1>19, <1>20 DEF Tables

\* The requests in flight keep what they have established when another stores.
LEMMA StoreKeepsCall ==
    ASSUME Typed, NEW e \in Envelopes, NEW counter, NEW at, Storable(e, counter), Store(e, at),
           NEW c \in CallRecord, CallAt(c)
    PROVE  CallAt(c)'
  <1>1. e.transcript \in Transcripts /\ e.pseudonym \in Pseudonyms /\ e.key \in Keys
    BY EnvelopeFacts
  <1>2. validated' = [validated EXCEPT ![e.transcript] = e] /\ payoutOwner' = [payoutOwner EXCEPT ![e.pseudonym] = e.key]
    BY DEF Store
  <1>3. ASSUME c.request \in Envelopes, Receipt(c.request) PROVE Receipt(c.request)'
    <2>1. c.request.transcript \in Transcripts /\ c.request # None /\ validated[c.request.transcript] = c.request
      BY <1>3, EnvelopeFacts DEF Receipt
    <2>2. c.request.transcript # e.transcript
      BY <2>1 DEF Storable
    <2> QED
      BY <1>1, <1>2, <2>1, <2>2 DEF Receipt, Typed
  <1>4. ASSUME c.pc = "commitClaim" PROVE payoutOwner'[c.request.pseudonym] = c.request.key
    <2>1. c.request \in Claims /\ payoutOwner[c.request.pseudonym] = c.request.key
      BY <1>4 DEF CallAt
    <2>2. c.request.pseudonym \in Pseudonyms /\ c.request.key \in Keys
      BY <2>1, ClaimFacts
    <2> QED
      BY <1>1, <1>2, <2>1, <2>2, PolicyAssumption DEF Storable, Typed
  <1> QED
    BY <1>3, <1>4 DEF CallAt

\* The transaction of receive(): it stores once, or refuses.
Storing(r) ==
    /\ Storable(call[r].request, call[r].counter) /\ Store(call[r].request, call[r].at)
    /\ Reply(r, "validated") /\ call[r].request \in Envelopes

LEMMA CommitCases ==
    ASSUME IInv, NEW r \in Slots, Commit(r)
    PROVE  /\ call[r].request \in Envelopes
           /\ \/ Receipt(call[r].request) /\ Reply(r, "validated") /\ UNCHANGED database
              \/ /\ ~Receipt(call[r].request) /\ UNCHANGED database
                 /\ \E code \in Codes : Reply(r, code)
              \/ ~Receipt(call[r].request) /\ Storing(r)
  <1> DEFINE e == call[r].request
  <1> DEFINE verdict == CommitVerdict(e, call[r].counter)
  <1>1. e \in Envelopes
    BY DEF IInv, CallsSound, CallAt, Commit
  <1>2. CASE Receipt(e) /\ Reply(r, "validated") /\ UNCHANGED database
    BY <1>1, <1>2
  <1>3. CASE Conflict(e) /\ Reply(r, "E_NULLIFIER") /\ UNCHANGED database
    <2>1. ~Receipt(e) /\ "E_NULLIFIER" \in Codes
      BY <1>3 DEF Conflict, Receipt, Codes
    <2> QED
      BY <1>1, <1>3, <2>1
  <1>4. CASE ~Receipt(e) /\ verdict # None /\ Reply(r, verdict) /\ UNCHANGED database
    <2>1. verdict \in Codes
      BY <1>4, VerdictCodes
    <2> QED
      BY <1>1, <1>4, <2>1
  <1>5. CASE ~Receipt(e) /\ ~Conflict(e) /\ verdict = None /\ Store(e, call[r].at) /\ Reply(r, "validated")
    <2>1. validated[e.transcript] = None
      BY <1>5 DEF Receipt, Conflict
    <2>2. /\ ~Spent(e.nullifier) /\ Usable(e.key) /\ attest[e.key] = call[r].counter /\ TicksFresh(e)
          /\ payoutOwner[e.pseudonym] \in {None, e.key}
      BY <1>5, PolicyAssumption DEF CommitVerdict, Codes
    <2> QED
      BY <1>1, <1>5, <2>1, <2>2 DEF Storing, Storable
  <1> QED
    BY <1>2, <1>3, <1>4, <1>5 DEF Commit

LEMMA CommitStep ==
    ASSUME IInv, NEW r \in Slots, Commit(r)
    PROVE  IInv' /\ (Accepted' = Accepted \/ (Storing(r) /\ Accepted' = Accepted \cup {call[r].request}))
  <1> DEFINE e == call[r].request
  <1>0. Typed /\ CallsSound /\ Tables
    BY Types DEF IInv
  <1>1. call[r] \in CallRecord /\ CallAt(call[r]) /\ call[r].pc = "commit" /\ e \in Envelopes
    BY <1>0, CommitCases DEF Typed, CallsSound, Commit
  <1>2. UNCHANGED <<chain, clock>>
    BY DEF Commit
  <1>3. CASE UNCHANGED database /\ ((Receipt(e) /\ Reply(r, "validated")) \/ \E code \in Codes : Reply(r, code))
    <2>1. UNCHANGED <<validated, payoutOwner>>
      BY <1>3 DEF database
    <2>2. CASE Receipt(e) /\ Reply(r, "validated")
      <3>1. CallsSound' /\ call' \in [Slots -> CallRecord]
        BY <1>0, <1>1, <2>1, <2>2, ReplyChange
      <3> QED
        BY <1>2, <1>3, <3>1, QuietRequest
    <2>3. ASSUME NEW code \in Codes, Reply(r, code) PROVE IInv' /\ Accepted' = Accepted
      <3>1. code # "validated"
        BY DEF Codes
      <3>2. CallsSound' /\ call' \in [Slots -> CallRecord]
        BY <1>0, <2>1, <2>3, <3>1, ReplyChange
      <3> QED
        BY <1>2, <1>3, <3>2, QuietRequest
    <2> QED
      BY <1>3, <2>2, <2>3
  <1>4. CASE Storing(r)
    <2>1. /\ Storable(e, call[r].counter) /\ Store(e, call[r].at) /\ Reply(r, "validated")
      BY <1>4 DEF Storing
    <2>2. /\ call[r].counter \in Nat /\ call[r].counter < e.assertion
          /\ call[r].at \in Nat /\ call[r].at - Window <= e.time /\ e.time <= call[r].at + Window
      BY <1>1 DEF CallAt
    <2>3. /\ Tables' /\ Accepted' = Accepted \cup {e}
          /\ validated' \in [Transcripts -> Envelopes \cup {None}]
          /\ validatedAt' \in [Transcripts -> Nat \cup {None}]
          /\ attest' \in [Keys -> Nat \cup {None}]
          /\ lastTick' \in [Devices -> Nat \cup {-1}]
          /\ payoutOwner' \in [Pseudonyms -> Keys \cup {None}]
          /\ jobs' \subseteq Transcripts /\ sealed' \subseteq Transcripts
      BY <1>0, <1>1, <2>1, <2>2, StoreTables
    <2> DEFINE c == Answered(call[r], "validated")
    <2>4. c \in CallRecord /\ c.pc = "done" /\ c.reply = "validated" /\ c.request = e
      BY <1>1, ReplyFacts
    <2>5. call' = [call EXCEPT ![r] = c]
      BY <1>0, <1>1, <2>1 DEF Reply, Answered, Typed, CallRecord
    <2> HIDE DEF c
    <2>6. \A s \in Slots : call'[s] = IF s = r THEN c ELSE call[s]
      BY <1>0, <2>5 DEF Typed
    <2>7. CallsSound'
      <3> SUFFICES ASSUME NEW s \in Slots PROVE CallAt(call[s])'
        BY DEF CallsSound
      <3>1. CASE s = r
        <4>1. validated'[e.transcript] = e
          BY <1>0, <1>1, <2>1, EnvelopeFacts DEF Store, Typed
        <4>2. call'[s] = c
          BY <2>6, <3>1
        <4> QED
          BY <1>1, <2>4, <4>1, <4>2 DEF CallAt, Receipt
      <3>2. CASE s # r
        <4>1. call'[s] = call[s] /\ call[s] \in CallRecord /\ CallAt(call[s])
          BY <1>0, <2>6, <3>2 DEF Typed, CallsSound
        <4>2. \A x \in CallRecord : CallAt(x) => CallAt(x)'
          BY <1>0, <1>1, <2>1, StoreKeepsCall
        <4>3. PICK x \in CallRecord : x = call[s]
          BY <4>1
        <4>4. CallAt(x)'
          BY <4>1, <4>2, <4>3
        <4> QED
          BY <4>1, <4>3, <4>4 DEF CallAt, Receipt
      <3> QED
        BY <3>1, <3>2
    <2>8. Typed'
      <3>1. UNCHANGED <<revoked, signed>>
        BY <2>1 DEF Store
      <3>2. call' \in [Slots -> CallRecord]
        BY <1>0, <2>4, <2>5 DEF Typed
      <3> QED
        BY <1>0, <1>2, <2>3, <3>1, <3>2 DEF Typed
    <2> QED
      BY <1>4, <2>3, <2>7, <2>8, Types DEF IInv
  <1> QED
    BY <1>3, <1>4, CommitCases

\* The transaction of authorizeClaim(): the claim is signed with the counter
\* moved, or refused.
LEMMA CommitClaimStep ==
    ASSUME IInv, NEW r \in Slots, CommitClaim(r)
    PROVE  /\ IInv' /\ Accepted' = Accepted
           /\ signed' = signed \/ (Usable(call[r].request.key) /\ signed' = signed \cup {call[r].request})
  <1> DEFINE q == call[r].request
  <1>0. Typed /\ CallsSound /\ Tables
    BY Types DEF IInv
  <1>1. call[r] \in CallRecord /\ CallAt(call[r]) /\ call[r].pc = "commitClaim"
    BY <1>0 DEF Typed, CallsSound, CommitClaim
  <1>2. UNCHANGED <<validated, validatedAt, revoked, lastTick, payoutOwner, jobs, sealed, chain, clock>>
    BY DEF CommitClaim
  <1>3. CASE ~Usable(q.key) \/ attest[q.key] # call[r].counter
    <2>1. Reply(r, "E_ASSERTION") /\ UNCHANGED <<database, chain, clock>> /\ UNCHANGED signed
      BY <1>3 DEF CommitClaim, database
    <2>2. "E_ASSERTION" \in Codes /\ "E_ASSERTION" # "validated"
      BY DEF Codes
    <2>3. CallsSound' /\ call' \in [Slots -> CallRecord]
      BY <1>0, <1>2, <2>1, <2>2, ReplyChange
    <2> QED
      BY <2>1, <2>3, QuietRequest
  <1>4. CASE Usable(q.key) /\ attest[q.key] = call[r].counter
    <2>1. attest' = [attest EXCEPT ![q.key] = q.assertion] /\ signed' = signed \cup {q} /\ Move(r, "prepareClaim")
      BY <1>4 DEF CommitClaim
    <2>2. /\ q \in Claims /\ call[r].counter \in Nat /\ call[r].counter < q.assertion
          /\ payoutOwner[q.pseudonym] = q.key
      BY <1>1 DEF CallAt
    <2>3. q.key \in Keys /\ q.assertion \in Nat /\ q.pseudonym \in Pseudonyms
      BY <2>2, ClaimFacts
    <2>4. attest' \in [Keys -> Nat \cup {None}] /\ signed' \subseteq Claims
      BY <1>0, <2>1, <2>2, <2>3 DEF Typed
    <2>5. \A k \in Keys : attest'[k] = IF k = q.key THEN q.assertion ELSE attest[k]
      BY <1>0, <2>1, <2>3 DEF Typed
    <2>6. Validations' = Validations /\ Accepted' = Accepted
      BY <1>2 DEF Validations, Accepted
    <2>7. StoredTogether' /\ AcceptedInTime' /\ Placed' /\ TicksKept' /\ OwnersObserved' /\ NullifierOnce' /\ TicksDisjoint'
      BY <1>0, <1>2, <2>6
         DEF Tables, StoredTogether, AcceptedInTime, Placed, TicksKept, OwnersObserved, SpentOnce, NullifierOnce, TicksDisjoint
    <2>8. ClaimsByObserver'
      <3>1. \E e \in Accepted : e.pseudonym = q.pseudonym /\ e.key = q.key
        BY <1>0, <2>2, <2>3, PolicyAssumption DEF Tables, OwnersObserved
      <3> QED
        BY <1>0, <2>1, <2>6, <3>1 DEF Tables, SpentOnce, ClaimsByObserver
    <2>9. ASSUME NEW x \in Accepted \cup signed
          PROVE  /\ attest'[x.key] # None /\ x.assertion <= attest'[x.key]
                 /\ x.key = q.key => x.assertion # q.assertion
      <3>1. x.key \in Keys /\ x.assertion \in Nat /\ attest[x.key] # None /\ x.assertion <= attest[x.key]
        BY <1>0, SpentFacts DEF Tables, SpentOnce, AssertionOnce
      <3>2. attest[x.key] \in Nat
        BY <1>0, <3>1 DEF Typed
      <3>3. CASE x.key = q.key
        <4>1. attest'[x.key] = q.assertion /\ attest[x.key] < q.assertion
          BY <1>4, <2>2, <2>5, <3>1, <3>3
        <4> QED
          BY <2>3, <3>1, <3>2, <4>1, PolicyAssumption
      <3>4. CASE x.key # q.key
        BY <2>5, <3>1, <3>4
      <3> QED
        BY <3>3, <3>4
    <2>10. AssertionOnce'
      <3>1. attest'[q.key] # None /\ q.assertion <= attest'[q.key]
        BY <2>3, <2>5, PolicyAssumption
      <3>2. ASSUME NEW x \in Accepted' \cup signed' PROVE attest'[x.key] # None /\ x.assertion <= attest'[x.key]
        BY <2>1, <2>6, <2>9, <3>1
      <3>3. ASSUME NEW x \in Accepted' \cup signed', NEW y \in Accepted' \cup signed', x # y, x.key = y.key
            PROVE  x.assertion # y.assertion
        <4>1. (x \in Accepted \cup signed \/ x = q) /\ (y \in Accepted \cup signed \/ y = q)
          BY <2>1, <2>6
        <4>2. CASE x \in Accepted \cup signed /\ y \in Accepted \cup signed
          BY <1>0, <3>3, <4>2 DEF Tables, SpentOnce, AssertionOnce
        <4> QED
          BY <2>9, <3>3, <4>1, <4>2
      <3> QED
        BY <3>2, <3>3 DEF AssertionOnce
    <2>11. Tables'
      BY <2>7, <2>8, <2>10 DEF Tables, SpentOnce
    <2> DEFINE c == [call[r] EXCEPT !.pc = "prepareClaim"]
    <2>12. c \in CallRecord /\ c.pc = "prepareClaim" /\ c.request = q /\ c.reply = call[r].reply
      BY <1>1 DEF CallRecord, Points
    <2>13. call' = [call EXCEPT ![r] = c]
      BY <2>1 DEF Move
    <2> HIDE DEF c
    <2>14. CallAt(c)
      BY <1>1, <2>2, <2>12 DEF CallAt
    <2>15. CallsSound' /\ call' \in [Slots -> CallRecord]
      BY <1>0, <1>2, <2>12, <2>13, <2>14, CallChange
    <2>16. Typed'
      BY <1>0, <1>2, <2>4, <2>15 DEF Typed
    <2> QED
      BY <1>4, <2>1, <2>6, <2>11, <2>15, <2>16, Types DEF IInv
  <1> QED
    BY <1>3, <1>4

-----------------------------------------------------------------------------
(* The rest of the system. *)

LEMMA EnvironmentStep ==
    ASSUME IInv, Environment \/ UNCHANGED vars
    PROVE  /\ IInv' /\ Accepted' = Accepted /\ signed' = signed
           /\ UNCHANGED call \/ call' = [r \in Slots |-> Idle]
  <1>0. Typed /\ CallsSound /\ Tables
    BY Types DEF IInv
  <1>1. UNCHANGED <<validated, validatedAt, lastTick, payoutOwner, jobs, sealed, signed>>
    BY DEF Environment, Enroll, AcceptAssertion, Revoke, RegisterDevice, FinalizeObservation, RotateRoot, ExecuteClaim,
           ChangePolicy, Restart, Tick, database, vars
  <1>2. UNCHANGED call \/ call' = [r \in Slots |-> Idle]
    BY DEF Environment, Enroll, AcceptAssertion, Revoke, RegisterDevice, FinalizeObservation, RotateRoot, ExecuteClaim,
           ChangePolicy, Restart, Tick, vars
  <1>3. CallsSound' /\ call' \in [Slots -> CallRecord]
    <2>1. CASE UNCHANGED call
      <3>1. ASSUME NEW s \in Slots PROVE CallAt(call[s])'
        BY <1>0, <1>1, <2>1 DEF CallsSound, CallAt, Receipt
      <3> QED
        BY <1>0, <2>1, <3>1 DEF CallsSound, Typed
    <2>2. CASE call' = [r \in Slots |-> Idle]
      <3>1. Idle \in CallRecord /\ Idle.pc = "idle" /\ Idle.request = None /\ Idle.reply # "validated"
        BY PolicyAssumption DEF Idle, CallRecord, Points
      <3>2. ASSUME NEW s \in Slots PROVE CallAt(call[s])'
        <4>1. call'[s] = Idle
          BY <2>2
        <4> QED
          BY <3>1, <4>1 DEF CallAt
      <3> QED
        BY <2>2, <3>1, <3>2 DEF CallsSound
    <2> QED
      BY <1>2, <2>1, <2>2
  <1>4. attest' \in [Keys -> Nat \cup {None}] /\ CountersGrow
    <2>1. ASSUME NEW k \in Keys, Enroll(k) PROVE attest' \in [Keys -> Nat \cup {None}] /\ CountersGrow
      BY <1>0, <2>1 DEF Enroll, Typed, CountersGrow
    <2>2. ASSUME NEW k \in Keys, AcceptAssertion(k) PROVE attest' \in [Keys -> Nat \cup {None}] /\ CountersGrow
      <3>1. attest[k] \in Nat /\ attest' = [attest EXCEPT ![k] = attest[k] + 1]
        BY <1>0, <2>2 DEF AcceptAssertion, Typed
      <3>2. attest[k] + 1 \in Nat /\ attest[k] + 1 # None /\ attest[k] <= attest[k] + 1
        BY <3>1, PolicyAssumption
      <3> QED
        BY <1>0, <3>1, <3>2 DEF Typed, CountersGrow
    <2>3. CASE UNCHANGED attest
      BY <1>0, <2>3, SameCounters DEF Typed
    <2>4. UNCHANGED attest \/ \E k \in Keys : Enroll(k) \/ AcceptAssertion(k)
      BY DEF Environment, Revoke, RegisterDevice, FinalizeObservation, RotateRoot, ExecuteClaim,
             ChangePolicy, Restart, Tick, database, vars
    <2> QED
      BY <2>1, <2>2, <2>3, <2>4
  <1>5. chain' \in ChainStates
    <2> USE <1>0 DEF Typed
    <2>1. ASSUME NEW d \in Devices, RegisterDevice(d) PROVE chain' \in ChainStates
      BY <2>1 DEF RegisterDevice, ChainStates
    <2>2. ASSUME NEW n \in Nullifiers, FinalizeObservation(n) PROVE chain' \in ChainStates
      BY <2>2 DEF FinalizeObservation, ChainStates
    <2>3. ASSUME NEW root \in Roots, RotateRoot(root) PROVE chain' \in ChainStates
      BY <2>3 DEF RotateRoot, ChainStates
    <2>4. ASSUME NEW c \in Claims, ExecuteClaim(c) PROVE chain' \in ChainStates
      <3>1. c.pseudonym \in Pseudonyms /\ chain.nonce \in [Pseudonyms -> Nat]
        BY ClaimFacts DEF ChainStates
      <3>2. [chain.nonce EXCEPT ![c.pseudonym] = chain.nonce[c.pseudonym] + 1] \in [Pseudonyms -> Nat]
        BY <3>1
      <3>3. chain' = [chain EXCEPT !.nonce = [chain.nonce EXCEPT ![c.pseudonym] = chain.nonce[c.pseudonym] + 1]]
        BY <2>4, <3>1 DEF ExecuteClaim, ChainStates
      <3> QED
        BY <3>2, <3>3 DEF ChainStates
    <2>5. CASE ChangePolicy
      BY <2>5 DEF ChangePolicy, ChainStates
    <2>6. CASE UNCHANGED chain
      BY <2>6
    <2>7. \/ UNCHANGED chain \/ ChangePolicy \/ (\E d \in Devices : RegisterDevice(d))
          \/ (\E n \in Nullifiers : FinalizeObservation(n)) \/ (\E root \in Roots : RotateRoot(root))
          \/ \E c \in Claims : ExecuteClaim(c)
      BY DEF Environment, Enroll, AcceptAssertion, Revoke, Restart, Tick, vars
    <2> QED
      BY <2>1, <2>2, <2>3, <2>4, <2>5, <2>6, <2>7
  <1>6. revoked' \subseteq Keys /\ clock' \in Nat
    <2>1. UNCHANGED revoked \/ \E k \in Keys : Revoke(k)
      BY DEF Environment, Enroll, AcceptAssertion, RegisterDevice, FinalizeObservation, RotateRoot, ExecuteClaim,
             ChangePolicy, Restart, Tick, database, vars
    <2>2. UNCHANGED clock \/ Tick
      BY DEF Environment, Enroll, AcceptAssertion, Revoke, RegisterDevice, FinalizeObservation, RotateRoot, ExecuteClaim,
             ChangePolicy, Restart, vars
    <2>3. revoked' \subseteq Keys
      BY <1>0, <2>1 DEF Typed, Revoke
    <2> QED
      BY <1>0, <2>2, <2>3 DEF Typed, Tick
  <1>7. Tables' /\ Accepted' = Accepted
    BY <1>0, <1>1, <1>4, TablesKept
  <1>8. Typed'
    BY <1>0, <1>1, <1>3, <1>4, <1>5, <1>6 DEF Typed
  <1> QED
    BY <1>1, <1>2, <1>3, <1>7, <1>8, Types DEF IInv

LEMMA InitIInv == Init => IInv
  <1> SUFFICES ASSUME Init PROVE IInv
    OBVIOUS
  <1>1. Idle \in CallRecord /\ Idle.pc = "idle" /\ Idle.request = None /\ Idle.reply # "validated"
    BY PolicyAssumption DEF Idle, CallRecord, Points
  <1>2. chain \in ChainStates
    BY DEF Init, ChainStates
  <1>3. Typed
    BY <1>1, <1>2 DEF Init, Typed
  <1>4. Validations = {} /\ Accepted = {}
    BY DEF Init, Validations, Accepted
  <1>5. Tables
    BY <1>4 DEF Init, Tables, StoredTogether, AcceptedInTime, SpentOnce, NullifierOnce, TicksDisjoint, AssertionOnce,
               ClaimsByObserver, Placed, TicksKept, OwnersObserved
  <1>6. CallsSound
    BY <1>1 DEF Init, CallsSound, CallAt
  <1> QED
    BY <1>3, <1>5, <1>6, Types DEF IInv

-----------------------------------------------------------------------------
(* The theorems. *)

\* A step that neither stores nor signs leaves what is spent; the two that do
\* add what their own request carries, under a key that is not revoked.
LEMMA NextIInv ==
    ASSUME IInv, [Next]_vars
    PROVE  IInv' /\ \A x \in (Accepted' \cup signed') \ (Accepted \cup signed) : x.key \notin revoked
  <1>1. CASE Environment \/ UNCHANGED vars
    BY <1>1, EnvironmentStep
  <1>2. ASSUME NEW r \in Slots, Request(r)
        PROVE  IInv' /\ \A x \in (Accepted' \cup signed') \ (Accepted \cup signed) : x.key \notin revoked
    <2>1. CASE Commit(r)
      <3>1. IInv' /\ (Accepted' = Accepted \/ (Storing(r) /\ Accepted' = Accepted \cup {call[r].request}))
        BY <2>1, CommitStep
      <3>2. signed' = signed
        BY <2>1 DEF Commit, Store, database
      <3>3. Storing(r) => call[r].request.key \notin revoked
        BY DEF Storing, Storable, Usable
      <3> QED
        BY <3>1, <3>2, <3>3
    <2>2. CASE CommitClaim(r)
      <3>1. /\ IInv' /\ Accepted' = Accepted
            /\ signed' = signed \/ (Usable(call[r].request.key) /\ signed' = signed \cup {call[r].request})
        BY <2>2, CommitClaimStep
      <3> QED
        BY <3>1 DEF Usable
    <2>3. ASSUME CallsSound', call' \in [Slots -> CallRecord], UNCHANGED <<database, chain, clock>>
          PROVE  IInv' /\ \A x \in (Accepted' \cup signed') \ (Accepted \cup signed) : x.key \notin revoked
      <3>1. IInv' /\ Accepted' = Accepted /\ signed' = signed
        BY <2>3, QuietRequest DEF database
      <3> QED
        BY <3>1
    <2>4. CASE (\E e \in Envelopes : Receive(r, e)) \/ (\E c \in Claims : StartClaim(r, c))
      BY <2>3, <2>4, BeginSteps
    <2>5. CASE Snapshot(r) \/ Check(r) \/ Proved(r)
      BY <2>3, <2>5, ReceiveSteps
    <2>6. CASE Quote(r) \/ CheckClaim(r) \/ PrepareClaim(r) \/ Unavailable(r)
      BY <2>3, <2>6, ClaimSteps
    <2> QED
      BY <1>2, <2>1, <2>2, <2>4, <2>5, <2>6, Zenon DEF Request
  <1> QED
    BY <1>1, <1>2, Zenon DEF Next

LEMMA AlwaysIInv == Spec => []IInv
  BY InitIInv, NextIInv, PTL DEF Spec

\* However many requests check side by side before any of them commits, the
\* receipts are complete, and no nullifier, device counter or assertion is
\* accepted twice, by observations and withdrawals together.
THEOREM ReceiptsCountOnce == Spec => []ReceiptsSound
  <1>1. IInv => ReceiptsSound
    BY DEF IInv, Tables, ReceiptsSound, TablesConsistent
  <1> QED
    BY <1>1, AlwaysIInv, PTL

\* Nothing that a revoked key asserts is accepted or signed, by requests that
\* were past their checks when it was revoked neither.
THEOREM RevokedKeysRefused == Spec => RevocationHolds
  <1>1. IInv /\ [Next]_vars => [\A x \in (Accepted' \cup signed') \ (Accepted \cup signed) : x.key \notin revoked]_vars
    BY NextIInv
  <1> QED
    BY <1>1, AlwaysIInv, PTL DEF Spec, RevocationHolds

\* A request that is refused is of an envelope that has no receipt.
LEMMA RefusalTrue ==
    ASSUME IInv, [Next]_vars, NEW r \in Slots,
           call[r].pc # "done", call'[r].pc = "done", call[r].request \in Envelopes,
           call'[r].reply \notin {"validated", "observation_dependency_unavailable"}
    PROVE  ~Receipt(call[r].request)
  <1> DEFINE e == call[r].request
  <1>0. Typed /\ CallsSound
    BY Types DEF IInv
  <1>1. call[r] \in CallRecord /\ CallAt(call[r]) /\ e \notin Claims /\ e # None
    BY <1>0, PolicyAssumption DEF Typed, CallsSound
  <1>2. call[r].pc \notin {"idle", "quote", "claim", "commitClaim", "prepareClaim"}
    BY <1>1 DEF CallAt
  <1>3. \A s \in Slots : \A code : Reply(s, code) => (call'[r].reply = IF s = r THEN code ELSE call[r].reply)
                                    /\ (s # r => call'[r] = call[r])
    BY <1>0 DEF Reply, Typed, CallRecord
  <1>4. ~(Environment \/ UNCHANGED vars)
    <2> SUFFICES ASSUME Environment \/ UNCHANGED vars PROVE FALSE
      OBVIOUS
    <2>1. UNCHANGED call \/ call' = [s \in Slots |-> Idle]
      BY EnvironmentStep
    <2> QED
      BY <2>1 DEF Idle
  <1>5. PICK s \in Slots : Request(s)
    BY <1>4 DEF Next
  <1>6. s = r
    <2> SUFFICES ASSUME s # r PROVE FALSE
      BY SMTT(40)
    <2>1. call'[r] = call[r]
      BY <1>0, <1>5 DEF Request, Receive, Snapshot, Check, Proved, Commit, StartClaim, Quote, CheckClaim, CommitClaim,
                        PrepareClaim, Unavailable, Reply, Move, Typed
    <2> QED
      BY <2>1
  <1>7. CASE Commit(r)
    <2>1. \/ ~Receipt(e) \/ Reply(r, "validated")
      BY <1>7, CommitCases DEF Storing
    <2> QED
      BY <1>3, <2>1
  <1>8. CASE Check(r) \/ Proved(r)
    <2>1. ~Receipt(e) \/ Reply(r, "validated")
      BY <1>8 DEF Check, Proved, Receipt, Conflict
    <2> QED
      BY <1>3, <2>1
  <1>9. CASE Snapshot(r) \/ Unavailable(r)
    <2>1. Reply(r, "observation_dependency_unavailable") \/ call'[r].pc = "check"
      BY <1>0, <1>9 DEF Snapshot, Unavailable, Typed, CallRecord
    <2> QED
      BY <1>3, <2>1
  <1>10. \A x : ~Receive(r, x) /\ ~StartClaim(r, x)
    BY <1>2 DEF Receive, StartClaim, Free
  <1> QED
    BY <1>2, <1>5, <1>6, <1>7, <1>8, <1>9, <1>10 DEF Request, Quote, CheckClaim, CommitClaim, PrepareClaim

\* A client told "validated" finds its envelope stored, and one whose envelope
\* is stored is never told that it was rejected.
THEOREM AnswersTrue == Spec => AnswersConsistent
  <1>1. IInv => \A r \in Slots : call[r].reply = "validated" => Receipt(call[r].request)
    BY DEF IInv, CallsSound, CallAt
  <1>2. IInv /\ [Next]_vars =>
          [\A r \in Slots : call[r].pc # "done" /\ call'[r].pc = "done" /\ call[r].request \in Envelopes =>
             (call'[r].reply \notin {"validated", "observation_dependency_unavailable"} => ~Receipt(call[r].request))]_vars
    BY RefusalTrue
  <1> QED
    BY <1>1, <1>2, AlwaysIInv, PTL DEF Spec, AnswersConsistent

=============================================================================
