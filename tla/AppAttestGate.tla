--------------------------- MODULE AppAttestGate ---------------------------
(***************************************************************************)
(* The App Attest gate (verifier/src/app-attest-gate.ts): one-time         *)
(* challenges and the signature counter of each attested key, in SQLite.   *)
(* Every operation is one transaction or a consume followed by another     *)
(* transaction; a crash may come between the two.                          *)
(***************************************************************************)
EXTENDS Integers, FiniteSets

CONSTANTS
    Keys,          \* App Attest key ids
    None,          \* SQL NULL / undefined
    MaxPending,    \* maxPendingChallenges
    Lifetime,      \* five minutes
    MaxIssued, MaxTime, MaxCounter   \* bounds of the model

ASSUME GateAssumption ==
    /\ None \notin Keys /\ None \notin Nat
    /\ MaxPending \in Nat \ {0} /\ Lifetime \in Nat \ {0}
    /\ MaxIssued \in Nat /\ MaxTime \in Nat /\ MaxCounter \in Nat

VARIABLES
    challenges,    \* app_attest_challenges
    counter,       \* app_attest_keys.counter, or None without a row
    issued,        \* how many challenge ids were drawn; an id is never drawn twice
    accepted,      \* history: how often each challenge was accepted
    clock

gateVars == <<challenges, counter, issued, accepted, clock>>

Ids == 1 .. MaxIssued
Purposes == {"attestation", "assertion"}

GateTypeOK ==
    /\ challenges \subseteq [id: Ids, purpose: Purposes, key: Keys \cup {None}, trial: Ids \cup {None}, expires: Nat]
    /\ counter \in [Keys -> Nat \cup {None}]
    /\ issued \in 0 .. MaxIssued
    /\ accepted \in [Ids -> Nat]
    /\ clock \in 0 .. MaxTime

GateInit ==
    /\ challenges = {}
    /\ counter = [k \in Keys |-> None]
    /\ issued = 0
    /\ accepted = [i \in Ids |-> 0]
    /\ clock = 0

\* purgeExpiredChallenges
Unexpired(table) == {c \in table : c.expires > clock}

Challenge(id, purpose, key, trial) ==
    [id |-> id, purpose |-> purpose, key |-> key, trial |-> trial, expires |-> clock + Lifetime]

\* What a client returns: an object over one challenge's bytes, by the key the
\* request names (another key's verifies no better than another challenge's).
\* An attestation carries counter 0.
Objects(n) == [challenge: 1 .. n, counter: 0 .. MaxCounter]

\* #reserve: the limit is reached.
Full(n) == Cardinality(Unexpired(challenges)) + n > MaxPending

\* issueChallenge for a key that is known, or for none.
IssueChallenge(purpose, key) ==
    /\ issued < MaxIssued
    /\ purpose = "assertion" => counter[key] # None
    /\ ~Full(1)
    /\ issued' = issued + 1
    /\ challenges' = Unexpired(challenges)
          \cup {Challenge(issued + 1, purpose, IF purpose = "assertion" THEN key ELSE None, None)}
    /\ UNCHANGED <<counter, accepted, clock>>

\* issueTrial: an attestation and two assertions whose key is not known yet.
IssueTrial ==
    /\ issued + 3 <= MaxIssued
    /\ ~Full(3)
    /\ issued' = issued + 3
    /\ challenges' = Unexpired(challenges)
          \cup {Challenge(issued + 1, "attestation", None, issued + 1)}
          \cup {Challenge(issued + i, "assertion", None, issued + 1) : i \in 2 .. 3}
    /\ UNCHANGED <<counter, accepted, clock>>

Leave(id) == challenges' = Unexpired(challenges)

\* #consumeChallenge: the row goes whether it fits or not.
Consume(id) == challenges' = {c \in Unexpired(challenges) : c.id # id}

Fits(id, purpose, key) ==
    \E c \in Unexpired(challenges) : c.id = id /\ c.purpose = purpose /\ c.key = key

TrialOf(id) == (CHOOSE c \in challenges : c.id = id).trial

InsertKeyNullMatches(id, key, trial) ==
    /\ counter' = [counter EXCEPT ![key] = 0]
    /\ challenges' = {IF c.trial = trial /\ c.purpose = "assertion" THEN [c EXCEPT !.key = key] ELSE c : c \in challenges}
    /\ accepted' = [accepted EXCEPT ![id] = @ + 1]

\* The second transaction of acceptAttestation: a key is inserted once, and
\* the assertions of its trial are bound to it.
InsertKey(id, key, trial) ==
    /\ counter' = [counter EXCEPT ![key] = 0]
    /\ challenges' = {IF c.trial = trial /\ trial # None /\ c.purpose = "assertion" THEN [c EXCEPT !.key = key] ELSE c
                         : c \in challenges}
    /\ accepted' = [accepted EXCEPT ![id] = @ + 1]

AttestationVerifies(id, key, object) ==
    object.challenge = id /\ object.counter = 0 /\ counter[key] = None

AssertionVerifiesAnyCounter(id, key, object) ==
    counter[key] # None /\ object.challenge = id

AssertionVerifies(id, key, object) ==
    counter[key] # None /\ object.challenge = id /\ object.counter > counter[key]

\* The compare-and-swap of acceptAssertion.
AdvanceCounter(id, key, object) ==
    /\ counter' = [counter EXCEPT ![key] = object.counter]
    /\ accepted' = [accepted EXCEPT ![id] = @ + 1]

PassTime ==
    /\ clock < MaxTime
    /\ clock' = clock + 1
    /\ UNCHANGED <<challenges, counter, issued, accepted>>

\* Each challenge is accepted at most once, however often an object is sent
\* again and whatever crash comes between its steps.
AcceptedOnce == \A i \in Ids : accepted[i] <= 1

\* The table never holds more than its limit.
PendingBounded == Cardinality(challenges) <= MaxPending
=============================================================================
