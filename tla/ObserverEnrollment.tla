------------------------ MODULE ObserverEnrollment -------------------------
(***************************************************************************)
(* Observer enrollment (verifier/src/observer-enrollment.ts) over the App  *)
(* Attest gate, in one SQLite file.  A call runs without awaits but in     *)
(* several transactions; "call" is the call under way and a crash may end  *)
(* it between two of them.  The Merkle tree is its leaves in order.        *)
(***************************************************************************)
EXTENDS AppAttestGate, Sequences, FiniteSetsExt

CONSTANTS
    Commitments,   \* identity commitments
    MaxLeaves      \* 2 ** DEPTH

ASSUME EnrollmentAssumption ==
    /\ None \notin Commitments /\ None \notin [commitment: Commitments, leaf: Nat]
    /\ MaxLeaves \in Nat \ {0}

VARIABLES
    pending,       \* observer_challenges
    enrolled,      \* observer_enrollments: commitment and leaf index by key, or None
    roots,         \* observer_roots after revision 0: the indexed leaves under each root, and leaf_count
    events,        \* observer_enrollment_events
    vouched,       \* history: the key and commitment of every accepted challenge
    call           \* the call under way

enrollmentVars == <<pending, enrolled, roots, events, vouched>>
vars == <<gateVars, enrollmentVars, call>>

Operations == {"enroll", "tree"}
NoCall == [pc |-> "idle"]

Rows == [id: Ids, operation: Operations, commitment: Commitments, key: Keys, mode: Purposes, expires: Nat]

\* Pending rows and enrollments refer to known keys and commitments, and leaf
\* indices stay within the tree.
TypeOK ==
    /\ GateTypeOK
    /\ pending \subseteq Rows
    /\ enrolled \in [Keys -> [commitment: Commitments, leaf: Nat] \cup {None}]
    /\ roots \in Seq([leaves: SUBSET (Nat \X Commitments), count: Nat])
    /\ events \in Seq([key: Keys, action: {"enrolled", "reenrolled"}, revision: Nat])
    /\ vouched \subseteq Keys \X Commitments
    /\ call.pc \in {"idle", "insert", "discard", "consumed", "verify", "accepted"}

Init ==
    /\ GateInit
    /\ pending = {}
    /\ enrolled = [k \in Keys |-> None]
    /\ roots = <<>> /\ events = <<>>
    /\ vouched = {}
    /\ call = NoCall

-----------------------------------------------------------------------------
(* Challenges. *)

OwnedByOther(c, k) == \E other \in Keys \ {k} : enrolled[other] # None /\ enrolled[other].commitment = c

\* issueEnrollmentChallenge and issueTreeChallenge, up to the gate's commit.
Issue(operation, c, k) ==
    LET mode == IF operation = "tree" \/ counter[k] # None THEN "assertion" ELSE "attestation" IN
    /\ call.pc = "idle"
    /\ operation = "enroll" => ~OwnedByOther(c, k) /\ (enrolled[k] # None => enrolled[k].commitment = c)
    /\ operation = "tree" => enrolled[k] # None /\ enrolled[k].commitment = c
    /\ Cardinality(Unexpired(pending)) < MaxPending
    /\ IssueChallenge(mode, k)
    /\ pending' = Unexpired(pending)
    /\ call' = [pc |-> "insert", row |-> [id |-> issued + 1, operation |-> operation, commitment |-> c, key |-> k,
                                          mode |-> mode, expires |-> clock + Lifetime]]
    /\ UNCHANGED <<enrolled, roots, events, vouched>>

\* The enrollment service's own row, in a second transaction.
Insert ==
    /\ call.pc = "insert"
    /\ pending' = pending \cup {call.row}
    /\ call' = NoCall
    /\ UNCHANGED <<gateVars, enrolled, roots, events, vouched>>

\* That transaction may fail; the challenge is discarded then.
InsertFails ==
    /\ call.pc = "insert"
    /\ call' = [pc |-> "discard", row |-> call.row]
    /\ UNCHANGED <<gateVars, enrollmentVars>>

\* discardChallenge, in a transaction of the gate.
Discard ==
    /\ call.pc = "discard"
    /\ challenges' = {c \in challenges : c.id # call.row.id}
    /\ call' = NoCall
    /\ UNCHANGED <<counter, issued, accepted, clock, enrollmentVars>>

-----------------------------------------------------------------------------
(* enroll() and treePath(). *)

MatchesAnyCommitment(row, operation, c, k) == row.operation = operation /\ row.key = k

\* A row is spent only by the operation, commitment and key it was issued for.
Matches(row, operation, c, k) == row.operation = operation /\ row.commitment = c /\ row.key = k

\* #consume: delete the row; one that does not match is then discarded at the gate.
Begin(operation, id, c, k, object) ==
    LET rows == {row \in Unexpired(pending) : row.id = id}
        fitting == {row \in rows : Matches(row, operation, c, k)}
    IN
    /\ call.pc = "idle"
    /\ pending' = Unexpired(pending) \ rows
    /\ challenges' = Unexpired(challenges)
    /\ call' = IF rows = {} THEN NoCall
               ELSE IF fitting = {} THEN [pc |-> "discard", row |-> CHOOSE row \in rows : TRUE]
               ELSE [pc |-> "consumed", row |-> CHOOSE row \in fitting : TRUE, commitment |-> c, object |-> object]
    /\ UNCHANGED <<counter, issued, accepted, clock, enrolled, roots, events, vouched>>

\* The gate consumes its own row and remembers the trial it belonged to.
GateConsume ==
    LET row == call.row
        key == IF row.mode = "assertion" THEN row.key ELSE None
    IN
    /\ call.pc = "consumed"
    /\ Consume(row.id)
    /\ call' = IF Fits(row.id, row.mode, key)
               THEN [pc |-> "verify", row |-> row, commitment |-> call.commitment, object |-> call.object,
                     trial |-> TrialOf(row.id)]
               ELSE NoCall
    /\ UNCHANGED <<counter, issued, accepted, clock, enrollmentVars>>

\* The gate verifies the object and commits the key or its counter.
GateAccept ==
    LET row == call.row
        object == call.object
    IN
    /\ call.pc = "verify"
    /\ \/ /\ row.mode = "attestation" /\ AttestationVerifies(row.id, row.key, object)
          /\ InsertKey(row.id, row.key, call.trial)
       \/ /\ row.mode = "assertion" /\ AssertionVerifies(row.id, row.key, object)
          /\ AdvanceCounter(row.id, row.key, object)
          /\ UNCHANGED challenges
    /\ vouched' = IF row.operation = "trial" THEN vouched ELSE vouched \cup {<<row.key, row.commitment>>}
    /\ call' = [pc |-> "accepted", row |-> row, commitment |-> call.commitment]
    /\ UNCHANGED <<issued, clock, pending, enrolled, roots, events>>

GateReject ==
    /\ call.pc = "verify"
    /\ \/ call.row.mode = "attestation" /\ ~AttestationVerifies(call.row.id, call.row.key, call.object)
       \/ call.row.mode = "assertion" /\ ~AssertionVerifies(call.row.id, call.row.key, call.object)
    /\ call' = NoCall
    /\ UNCHANGED <<gateVars, enrollmentVars>>

LeafIndices == {enrolled[k].leaf : k \in {x \in Keys : enrolled[x] # None}}

\* MAX(leaf_index) + 1
NextLeaf == Max({-1} \cup LeafIndices) + 1

Leaves == IF roots = <<>> THEN {} ELSE roots[Len(roots)].leaves

\* #updateTree: the leaf is written at its index; a new revision of the root.
UpdateTree(index, c) ==
    roots' = Append(roots, [leaves |-> {l \in Leaves : l[1] # index} \cup {<<index, c>>}, count |-> index + 1])

\* The enrollment transaction: a new leaf, tree and root revision, or nothing
\* but an event for a key that is enrolled already.
Enroll ==
    LET k == call.row.key
        c == call.commitment
    IN
    /\ call.pc = "accepted" /\ call.row.operation = "enroll"
    /\ \/ /\ enrolled[k] = None /\ ~OwnedByOther(c, k) /\ NextLeaf < MaxLeaves
          /\ enrolled' = [enrolled EXCEPT ![k] = [commitment |-> c, leaf |-> NextLeaf]]
          /\ UpdateTree(NextLeaf, c)
          /\ events' = Append(events, [key |-> k, action |-> "enrolled", revision |-> Len(roots')])
       \/ /\ enrolled[k] # None /\ enrolled[k].commitment = c
          /\ events' = Append(events, [key |-> k, action |-> "reenrolled", revision |-> Len(roots)])
          /\ UNCHANGED <<enrolled, roots>>
    /\ call' = NoCall
    /\ UNCHANGED <<gateVars, pending, vouched>>

\* already_enrolled or tree_full, after the attestation was accepted.
EnrollRefused ==
    LET k == call.row.key
        c == call.commitment
    IN
    /\ call.pc = "accepted" /\ call.row.operation = "enroll"
    /\ \/ enrolled[k] = None /\ (OwnedByOther(c, k) \/ NextLeaf >= MaxLeaves)
       \/ enrolled[k] # None /\ enrolled[k].commitment # c
    /\ call' = NoCall
    /\ UNCHANGED <<gateVars, enrollmentVars>>

\* treePath reads the path of the key's leaf; a trial ends with the gate.
Return ==
    /\ call.pc = "accepted" /\ call.row.operation # "enroll"
    /\ call' = NoCall
    /\ UNCHANGED <<gateVars, enrollmentVars>>

Crash ==
    /\ call.pc # "idle"
    /\ call' = NoCall
    /\ UNCHANGED <<gateVars, enrollmentVars>>

-----------------------------------------------------------------------------
(* The trial tool calls the gate directly, on the same tables. *)

Trial ==
    /\ call.pc = "idle"
    /\ IssueTrial
    /\ UNCHANGED <<enrollmentVars, call>>

TrialObject(id, k, mode, object) ==
    /\ call.pc = "idle"
    /\ \E c \in challenges : c.id = id /\ c.trial # None
    /\ call' = [pc |-> "consumed", commitment |-> None, object |-> object,
                row |-> [id |-> id, operation |-> "trial", commitment |-> None, key |-> k, mode |-> mode,
                         expires |-> clock + 1]]
    /\ UNCHANGED <<gateVars, enrollmentVars>>

Time == PassTime /\ UNCHANGED <<enrollmentVars, call>>

Next ==
    \/ \E operation \in Operations, c \in Commitments, k \in Keys : Issue(operation, c, k)
    \/ \E operation \in Operations, c \in Commitments, k \in Keys, id \in 1 .. issued, object \in Objects(issued) :
          Begin(operation, id, c, k, object)
    \/ Insert \/ InsertFails \/ Discard \/ GateConsume \/ GateAccept \/ GateReject
    \/ Enroll \/ EnrollRefused \/ Return \/ Crash
    \/ Trial
    \/ \E id \in 1 .. issued, k \in Keys, mode \in Purposes, object \in Objects(issued) : TrialObject(id, k, mode, object)
    \/ Time

Spec == Init /\ [][Next]_vars

-----------------------------------------------------------------------------
(* Properties. *)

Enrolled == {k \in Keys : enrolled[k] # None}

\* The latest root covers exactly the enrolled identities, one leaf each, every
\* revision extends the one before, and its leaf count is the number of
\* first enrollments up to it, so publication never finds them at odds.
TreeMatchesEnrollments ==
    /\ Leaves = {<<enrolled[k].leaf, enrolled[k].commitment>> : k \in Enrolled}
    /\ Cardinality(Leaves) = Cardinality(Enrolled)
    /\ \A r \in DOMAIN roots :
          /\ roots[r].count = Cardinality(roots[r].leaves)
          /\ roots[r].count = Cardinality({i \in DOMAIN events : events[i].action = "enrolled" /\ events[i].revision <= r})
          /\ r > 1 => roots[r - 1].leaves \subseteq roots[r].leaves

\* An identity is enrolled only by a key that answered a challenge issued for
\* that very commitment, and by no second key; no challenge counts twice.
EnrolledByVoucher ==
    /\ AcceptedOnce
    /\ \A k \in Enrolled : counter[k] # None /\ <<k, enrolled[k].commitment>> \in vouched
    /\ \A j, k \in Enrolled : j # k => enrolled[j].commitment # enrolled[k].commitment

\* A crash between the two tables never leaves an enrollment challenge whose
\* gate challenge is gone: what a client was given can still be answered.
ChallengesBacked ==
    \A row \in Unexpired(pending) :
        Fits(row.id, row.mode, IF row.mode = "assertion" THEN row.key ELSE None)

\* Both challenge tables stay within their limit.
TablesBounded == PendingBounded /\ Cardinality(pending) <= MaxPending

\* The enrollment tables are well formed and every stored root is that of the
\* enrollments up to its revision.
TreeConsistent == TypeOK /\ TreeMatchesEnrollments

\* Gate and enrollment keep their pending tables together across crashes, and
\* both within their limit.
PendingConsistent == TablesBounded /\ ChallengesBacked

\* Both stores are what the other takes them for, with crashes between their
\* commits: the tree of the enrollments, the challenges of the pending rows.
StoresConsistent == TreeConsistent /\ PendingConsistent

\* Neither an App Attest counter nor an enrollment is ever taken back: no
\* assertion is accepted again after a newer one, whatever operation it was for.
NothingUndone ==
    [][\A k \in Keys :
        /\ counter[k] # None => counter'[k] # None /\ counter'[k] >= counter[k]
        /\ enrolled[k] # None => enrolled'[k] = enrolled[k]]_vars
=============================================================================
