--------------------- MODULE ObserverEnrollmentProofs ----------------------
(* Theorems about ObserverEnrollment and the App Attest gate below it, for   *)
(* every set of keys and commitments, every lifetime and table limit and     *)
(* every size of the tree.                                                   *)
EXTENDS ObserverEnrollment, FiniteSetTheorems, TLAPS

-----------------------------------------------------------------------------
(* The inductive invariant. *)

ChallengeRecord == [id: Ids, purpose: Purposes, key: Keys \cup {None}, trial: Ids \cup {None}, expires: Nat]
Enrollment == [commitment: Commitments, leaf: Nat]
RootRecord == [leaves: SUBSET (Nat \X Commitments), count: Nat]
EventRecord == [key: Keys, action: {"enrolled", "reenrolled"}, revision: Nat]

\* A challenge has an id of its own and was not accepted yet.
GateSound ==
    /\ \A c \in challenges : c.id <= issued /\ accepted[c.id] = 0
    /\ \A c, d \in challenges : c.id = d.id => c = d
    /\ \A i \in Ids : accepted[i] <= 1 /\ (i > issued => accepted[i] = 0)

Bounded ==
    /\ IsFiniteSet(challenges) /\ Cardinality(challenges) <= MaxPending
    /\ IsFiniteSet(pending) /\ Cardinality(pending) <= MaxPending

\* The gate's challenge of a pending row, which belongs to no trial.
Backed(row) ==
    \E c \in challenges :
        /\ c.id = row.id /\ c.purpose = row.mode /\ c.key = (IF row.mode = "assertion" THEN row.key ELSE None)
        /\ c.trial = None /\ c.expires = row.expires

PendingBacked == \A row \in pending : row.expires > clock => Backed(row)

\* What the call under way has established: the row it took is nowhere else,
\* its challenge is still unaccepted, and an accepted one vouches for its key.
CallSound ==
    /\ call.pc \in {"idle", "insert", "discard", "consumed", "verify", "accepted"}
    /\ call.pc = "insert" =>
          /\ call.row \in Rows /\ Cardinality(pending) < MaxPending
          /\ call.row.expires > clock => Backed(call.row)
    /\ call.pc \in {"insert", "discard", "consumed"} => \A row \in pending : row.expires > clock => row.id # call.row.id
    /\ call.pc \in {"consumed", "verify", "accepted"} =>
          /\ call.row.id \in Ids /\ call.row.key \in Keys
          /\ call.row.operation # "trial" => call.row.commitment \in Commitments /\ call.commitment = call.row.commitment
    /\ call.pc \in {"consumed", "verify"} => call.row.mode \in Purposes /\ call.object.counter \in Nat
    /\ call.pc = "verify" => call.row.id <= issued /\ accepted[call.row.id] = 0 /\ \A c \in challenges : c.id # call.row.id
    /\ call.pc = "accepted" /\ call.row.operation = "enroll" =>
          counter[call.row.key] # None /\ <<call.row.key, call.commitment>> \in vouched

\* The leaves are numbered by the revisions of the root, and each root holds
\* the leaves up to its own.
Numbered ==
    /\ IsFiniteSet(Enrolled) /\ Cardinality(Enrolled) = Len(roots)
    /\ LeafIndices = 0 .. Len(roots) - 1
    /\ \A j, k \in Enrolled : j # k => enrolled[j].leaf # enrolled[k].leaf

LeavesUpTo(r) == {<<enrolled[k].leaf, enrolled[k].commitment>> : k \in {x \in Enrolled : enrolled[x].leaf < r}}

RootsSound ==
    \A r \in DOMAIN roots :
        /\ roots[r].count = r /\ roots[r].leaves = LeavesUpTo(r)
        /\ IsFiniteSet(roots[r].leaves) /\ Cardinality(roots[r].leaves) = r

\* One first enrollment was recorded for each revision.
FirstsUpTo(r) == {i \in DOMAIN events : events[i].action = "enrolled" /\ events[i].revision <= r}

EventsSound ==
    /\ \A i \in DOMAIN events : events[i].action = "enrolled" => events[i].revision <= Len(roots)
    /\ \A r \in 0 .. Len(roots) : IsFiniteSet(FirstsUpTo(r)) /\ Cardinality(FirstsUpTo(r)) = r

Identified ==
    /\ \A k \in Enrolled : counter[k] # None /\ <<k, enrolled[k].commitment>> \in vouched
    /\ \A j, k \in Enrolled : j # k => enrolled[j].commitment # enrolled[k].commitment

Gate == GateSound /\ Bounded /\ PendingBacked /\ CallSound
Tree == Numbered /\ RootsSound /\ EventsSound /\ Identified

IInv == TypeOK /\ Gate /\ Tree

-----------------------------------------------------------------------------
(* Types. *)

Typed ==
    /\ challenges \subseteq ChallengeRecord
    /\ counter \in [Keys -> Nat \cup {None}]
    /\ issued \in 0 .. MaxIssued
    /\ accepted \in [Ids -> Nat]
    /\ clock \in 0 .. MaxTime
    /\ pending \subseteq Rows
    /\ enrolled \in [Keys -> Enrollment \cup {None}]
    /\ roots \in Seq(RootRecord)
    /\ events \in Seq(EventRecord)
    /\ vouched \subseteq Keys \X Commitments
    /\ call.pc \in {"idle", "insert", "discard", "consumed", "verify", "accepted"}

LEMMA Types == (TypeOK <=> Typed) /\ (TypeOK' <=> Typed')
  BY Zenon DEF TypeOK, GateTypeOK, Typed, ChallengeRecord, Enrollment, RootRecord, EventRecord

LEMMA Numbers ==
    ASSUME Typed
    PROVE  /\ issued \in Nat /\ issued <= MaxIssued /\ clock \in Nat /\ clock + Lifetime \in Nat
           /\ MaxPending \in Nat /\ MaxIssued \in Nat
  BY GateAssumption DEF Typed

LEMMA ChallengeFacts ==
    ASSUME Typed, NEW c \in challenges
    PROVE  /\ c \in ChallengeRecord /\ c.id \in Ids /\ c.id \in Nat /\ c.expires \in Nat /\ c.purpose \in Purposes
  BY GateAssumption DEF Typed, ChallengeRecord, Ids

LEMMA RowFacts ==
    ASSUME NEW row \in Rows
    PROVE  /\ row.id \in Ids /\ row.id \in Nat /\ row.operation \in Operations /\ row.operation # "trial"
           /\ row.commitment \in Commitments /\ row.key \in Keys /\ row.mode \in Purposes /\ row.expires \in Nat
  BY GateAssumption DEF Rows, Ids, Operations

-----------------------------------------------------------------------------
(* Finite tables. *)

LEMMA SmallerTable ==
    ASSUME NEW S, NEW T, IsFiniteSet(S), T \subseteq S, NEW n \in Nat, Cardinality(S) <= n
    PROVE  IsFiniteSet(T) /\ Cardinality(T) <= n /\ Cardinality(T) \in Nat
  <1>1. IsFiniteSet(T) /\ Cardinality(T) <= Cardinality(S)
    BY FS_Subset
  <1>2. Cardinality(T) \in Nat /\ Cardinality(S) \in Nat
    BY <1>1, FS_CardinalityType
  <1> QED
    BY <1>1, <1>2

LEMMA OneMore ==
    ASSUME NEW S, NEW x, IsFiniteSet(S)
    PROVE  /\ IsFiniteSet(S \cup {x}) /\ Cardinality(S) \in Nat /\ Cardinality(S \cup {x}) \in Nat
           /\ Cardinality(S \cup {x}) <= Cardinality(S) + 1
           /\ x \notin S => Cardinality(S \cup {x}) = Cardinality(S) + 1
  <1>1. IsFiniteSet(S \cup {x}) /\ Cardinality(S \cup {x}) = IF x \in S THEN Cardinality(S) ELSE Cardinality(S) + 1
    BY FS_AddElement
  <1>2. Cardinality(S) \in Nat
    BY FS_CardinalityType
  <1> QED
    BY <1>1, <1>2

\* A table that loses rows.
LEMMA FewerRows ==
    ASSUME Typed, GateSound, Bounded, challenges' \subseteq challenges, pending' \subseteq pending,
           UNCHANGED <<issued, accepted>>
    PROVE  GateSound' /\ Bounded'
  <1>1. GateSound'
    BY DEF GateSound
  <1>2. Bounded'
    BY Numbers, SmallerTable DEF Bounded
  <1> QED
    BY <1>1, <1>2

LEMMA NoCallSound == call' = NoCall => CallSound'
  BY DEF CallSound, NoCall

\* A call that ends, and leaves the gate's tables.
LEMMA EndOfCall ==
    ASSUME Typed, Gate, UNCHANGED <<challenges, issued, accepted, clock, pending>>, call' = NoCall
    PROVE  Gate'
  <1>1. GateSound' /\ Bounded' /\ PendingBacked'
    BY DEF Gate, GateSound, Bounded, PendingBacked, Backed
  <1> QED
    BY <1>1, NoCallSound DEF Gate

-----------------------------------------------------------------------------
(* The steps of the gate. *)

LEMMA IssueGate ==
    ASSUME Typed, Gate, NEW operation \in Operations, NEW c \in Commitments, NEW k \in Keys, Issue(operation, c, k)
    PROVE  Gate' /\ challenges' \subseteq ChallengeRecord /\ issued' \in 0 .. MaxIssued /\ pending' \subseteq Rows
  <1> DEFINE mode == IF operation = "tree" \/ counter[k] # None THEN "assertion" ELSE "attestation"
  <1> DEFINE ch == Challenge(issued + 1, mode, IF mode = "assertion" THEN k ELSE None, None)
  <1> DEFINE row == [id |-> issued + 1, operation |-> operation, commitment |-> c, key |-> k,
                     mode |-> mode, expires |-> clock + Lifetime]
  <1>1. /\ issued < MaxIssued /\ issued' = issued + 1 /\ ~Full(1)
        /\ challenges' = Unexpired(challenges) \cup {ch}
        /\ pending' = Unexpired(pending) /\ Cardinality(Unexpired(pending)) < MaxPending
        /\ call' = [pc |-> "insert", row |-> row] /\ UNCHANGED <<accepted, clock>>
    BY DEF Issue, IssueChallenge
  <1>2. mode \in Purposes
    BY DEF Purposes
  <1>3. issued \in Nat /\ issued + 1 \in Ids /\ clock \in Nat /\ clock + Lifetime \in Nat /\ MaxPending \in Nat
    BY <1>1, Numbers DEF Ids
  <1> HIDE DEF mode
  <1>4. /\ ch \in ChallengeRecord /\ ch.id = issued + 1 /\ ch.purpose = mode /\ ch.trial = None /\ ch.expires = clock + Lifetime
        /\ ch.key = IF mode = "assertion" THEN k ELSE None
    BY <1>2, <1>3 DEF Challenge, ChallengeRecord
  <1>5. /\ row \in Rows /\ row.id = issued + 1 /\ row.mode = mode /\ row.expires = clock + Lifetime /\ row.key = k
    BY <1>2, <1>3 DEF Rows
  <1> HIDE DEF ch, row
  <1>6. Unexpired(challenges) \subseteq challenges /\ Unexpired(pending) \subseteq pending
    BY DEF Unexpired
  <1>7. GateSound'
    <2>1. \A d \in Unexpired(challenges) : d.id <= issued /\ d.id \in Nat /\ d.id # issued + 1 /\ accepted[d.id] = 0
      BY <1>3, <1>6, ChallengeFacts DEF Gate, GateSound
    <2>2. accepted[issued + 1] = 0
      BY <1>3 DEF Gate, GateSound
    <2>3. \A d \in challenges' : d.id <= issued' /\ accepted'[d.id] = 0
      BY <1>1, <1>3, <1>4, <2>1, <2>2
    <2>4. \A x, d \in challenges' : x.id = d.id => x = d
      BY <1>1, <1>4, <1>6, <2>1 DEF Gate, GateSound
    <2>5. \A i \in Ids : accepted'[i] <= 1 /\ (i > issued' => accepted'[i] = 0)
      BY <1>1, <1>3, GateAssumption DEF Gate, GateSound, Ids
    <2> QED
      BY <2>3, <2>4, <2>5 DEF GateSound
  <1>8. Bounded' /\ Cardinality(pending') < MaxPending
    <2>1. IsFiniteSet(Unexpired(challenges)) /\ IsFiniteSet(Unexpired(pending)) /\ Cardinality(Unexpired(pending)) \in Nat
      BY <1>3, <1>6, SmallerTable DEF Gate, Bounded
    <2>2. /\ IsFiniteSet(challenges') /\ Cardinality(Unexpired(challenges)) \in Nat /\ Cardinality(challenges') \in Nat
          /\ Cardinality(challenges') <= Cardinality(Unexpired(challenges)) + 1
      BY <1>1, <2>1, OneMore
    <2>3. Cardinality(Unexpired(challenges)) + 1 <= MaxPending
      BY <1>1, <1>3, <2>2 DEF Full
    <2> QED
      BY <1>1, <1>3, <2>1, <2>2, <2>3 DEF Bounded
  <1>9. PendingBacked'
    <2> SUFFICES ASSUME NEW x \in pending', x.expires > clock PROVE Backed(x)'
      BY <1>1 DEF PendingBacked
    <2>1. Backed(x)
      BY <1>1, <1>6 DEF Gate, PendingBacked
    <2> QED
      BY <1>1, <2>1 DEF Backed, Unexpired
  <1>10. CallSound'
    <2>1. PICK x \in Rows : /\ x = row /\ x.id = issued + 1 /\ x.mode = mode /\ x.expires = clock + Lifetime /\ x.key = k
                            /\ call' = [pc |-> "insert", row |-> x]
      BY <1>1, <1>5
    <2>2. PICK d \in challenges' : /\ d.id = issued + 1 /\ d.purpose = mode /\ d.trial = None /\ d.expires = clock + Lifetime
                                   /\ d.key = IF mode = "assertion" THEN k ELSE None
      BY <1>1, <1>4
    <2>3. Backed(x)'
      BY <2>1, <2>2 DEF Backed
    <2>4. call'.row = x /\ call'.pc = "insert"
      BY <2>1
    <2>5. \A y \in pending' : y.expires > clock' => y.id # x.id
      <3> SUFFICES ASSUME NEW y \in pending', y.expires > clock PROVE y.id # issued + 1
        BY <1>1, <2>1
      <3>1. PICK e \in challenges : e.id = y.id
        BY <1>1, <1>6 DEF Gate, PendingBacked, Backed
      <3> QED
        BY <1>3, <3>1, ChallengeFacts DEF Gate, GateSound
    <2> QED
      BY <1>8, <2>3, <2>4, <2>5 DEF CallSound, Backed
  <1>11. challenges' \subseteq ChallengeRecord /\ issued' \in 0 .. MaxIssued /\ pending' \subseteq Rows
    BY <1>1, <1>3, <1>4, <1>6, Numbers DEF Typed
  <1> QED
    BY <1>7, <1>8, <1>9, <1>10, <1>11 DEF Gate

LEMMA InsertGate ==
    ASSUME Typed, Gate, Insert PROVE Gate' /\ pending' \subseteq Rows
  <1>1. /\ call.pc = "insert" /\ pending' = pending \cup {call.row} /\ call' = NoCall
        /\ UNCHANGED <<challenges, issued, accepted, clock>>
    BY DEF Insert, gateVars
  <1>2. call.row \in Rows /\ Cardinality(pending) < MaxPending /\ (call.row.expires > clock => Backed(call.row))
    BY <1>1 DEF Gate, CallSound
  <1>3. /\ IsFiniteSet(pending') /\ Cardinality(pending) \in Nat /\ Cardinality(pending') \in Nat
        /\ Cardinality(pending') <= Cardinality(pending) + 1
    BY <1>1, OneMore DEF Gate, Bounded
  <1>4. Bounded' /\ GateSound'
    BY <1>1, <1>2, <1>3, Numbers DEF Gate, Bounded, GateSound
  <1>5. PendingBacked'
    BY <1>1, <1>2 DEF Gate, PendingBacked, Backed
  <1> QED
    BY <1>1, <1>2, <1>4, <1>5, NoCallSound DEF Gate, Typed

LEMMA BeginGate ==
    ASSUME Typed, Gate, NEW operation \in Operations, NEW id \in 1 .. issued, NEW c \in Commitments, NEW k \in Keys,
           NEW object \in Objects(issued), Begin(operation, id, c, k, object)
    PROVE  Gate' /\ challenges' \subseteq ChallengeRecord /\ pending' \subseteq Rows
  <1> DEFINE rows == {row \in Unexpired(pending) : row.id = id}
  <1> DEFINE fitting == {row \in rows : Matches(row, operation, c, k)}
  <1>1. /\ pending' = Unexpired(pending) \ rows
        /\ challenges' = Unexpired(challenges)
        /\ UNCHANGED <<issued, accepted, clock>>
        /\ call' = IF rows = {} THEN NoCall
                   ELSE IF fitting = {} THEN [pc |-> "discard", row |-> CHOOSE row \in rows : TRUE]
                   ELSE [pc |-> "consumed", row |-> CHOOSE row \in fitting : TRUE, commitment |-> c, object |-> object]
    BY DEF Begin
  <1>2. Unexpired(challenges) \subseteq challenges /\ Unexpired(pending) \subseteq pending
    BY DEF Unexpired
  <1>3. challenges' \subseteq challenges /\ pending' \subseteq pending
    BY <1>1, <1>2
  <1>4. GateSound' /\ Bounded'
    BY <1>1, <1>3, FewerRows DEF Gate
  <1>5. PendingBacked'
    <2> SUFFICES ASSUME NEW x \in pending', x.expires > clock PROVE Backed(x)'
      BY <1>1 DEF PendingBacked
    <2>1. Backed(x) /\ x.id # id
      BY <1>1, <1>3 DEF Gate, PendingBacked
    <2>2. PICK d \in challenges :
              /\ d.id = x.id /\ d.purpose = x.mode /\ d.key = (IF x.mode = "assertion" THEN x.key ELSE None)
              /\ d.trial = None /\ d.expires = x.expires
      BY <2>1 DEF Backed
    <2>3. d \in challenges'
      BY <1>1, <2>1, <2>2 DEF Unexpired
    <2> QED
      BY <2>2, <2>3 DEF Backed
  <1>6. CallSound'
    <2>1. CASE rows = {}
      BY <1>1, <2>1, NoCallSound
    <2>3. CASE rows # {} /\ fitting = {}
      <3>1. PICK row : row \in rows /\ row = CHOOSE x \in rows : TRUE
        BY <2>3
      <3>2. call' = [pc |-> "discard", row |-> row]
        BY <1>1, <2>3, <3>1
      <3>3. row.id = id /\ \A x \in pending' : x.id # id
        BY <1>1, <3>1
      <3> QED
        BY <3>2, <3>3 DEF CallSound
    <2>2. CASE rows # {} /\ fitting # {}
      <3>1. PICK row : row \in fitting /\ row = CHOOSE x \in fitting : TRUE
        BY <2>2
      <3>2. call' = [pc |-> "consumed", row |-> row, commitment |-> c, object |-> object]
        BY <1>1, <2>2, <3>1
      <3>3. row \in Rows /\ row.commitment = c /\ row.id = id
        BY <1>2, <3>1 DEF Matches, Typed
      <3>4. object.counter \in Nat
        BY GateAssumption DEF Objects
      <3>5. \A x \in pending' : x.id # id
        BY <1>1
      <3> QED
        BY <3>2, <3>3, <3>4, <3>5, RowFacts DEF CallSound
    <2> QED
      BY <2>1, <2>2, <2>3
  <1> QED
    BY <1>3, <1>4, <1>5, <1>6 DEF Gate, Typed

LEMMA InsertFailsGate ==
    ASSUME Typed, Gate, InsertFails PROVE Gate'
  <1>1. /\ UNCHANGED <<challenges, issued, accepted, clock, pending>> /\ call.pc = "insert"
        /\ call' = [pc |-> "discard", row |-> call.row]
    BY DEF InsertFails, gateVars, enrollmentVars
  <1>2. GateSound' /\ Bounded' /\ PendingBacked'
    BY <1>1 DEF Gate, GateSound, Bounded, PendingBacked, Backed
  <1>3. CallSound'
    BY <1>1 DEF Gate, CallSound
  <1> QED
    BY <1>2, <1>3 DEF Gate

LEMMA DiscardGate ==
    ASSUME Typed, Gate, Discard PROVE Gate' /\ challenges' \subseteq ChallengeRecord
  <1>1. /\ call.pc = "discard" /\ UNCHANGED <<issued, accepted, clock, pending>> /\ call' = NoCall
        /\ challenges' = {c \in challenges : c.id # call.row.id}
    BY DEF Discard, enrollmentVars
  <1>2. challenges' \subseteq challenges
    BY <1>1
  <1>3. GateSound' /\ Bounded'
    BY <1>1, <1>2, FewerRows DEF Gate
  <1>4. PendingBacked'
    <2> SUFFICES ASSUME NEW x \in pending, x.expires > clock PROVE Backed(x)'
      BY <1>1 DEF PendingBacked
    <2>1. Backed(x) /\ x.id # call.row.id
      BY <1>1 DEF Gate, PendingBacked, CallSound
    <2> QED
      BY <1>1, <2>1 DEF Backed
  <1> QED
    BY <1>1, <1>2, <1>3, <1>4, NoCallSound DEF Gate, Typed

LEMMA ConsumeGate ==
    ASSUME Typed, Gate, GateConsume PROVE Gate' /\ challenges' \subseteq ChallengeRecord
  <1> DEFINE row == call.row
  <1>1. /\ call.pc = "consumed" /\ UNCHANGED <<issued, accepted, clock, pending>>
        /\ challenges' = {c \in Unexpired(challenges) : c.id # row.id}
    BY DEF GateConsume, Consume, enrollmentVars
  <1>2. challenges' \subseteq challenges
    BY <1>1 DEF Unexpired
  <1>3. GateSound' /\ Bounded'
    BY <1>1, <1>2, FewerRows DEF Gate
  <1>4. PendingBacked'
    <2> SUFFICES ASSUME NEW x \in pending, x.expires > clock PROVE Backed(x)'
      BY <1>1 DEF PendingBacked
    <2>1. Backed(x) /\ x.id # row.id
      BY <1>1 DEF Gate, PendingBacked, CallSound
    <2>2. PICK d \in challenges :
              /\ d.id = x.id /\ d.purpose = x.mode /\ d.key = (IF x.mode = "assertion" THEN x.key ELSE None)
              /\ d.trial = None /\ d.expires = x.expires
      BY <2>1 DEF Backed
    <2>3. d \in challenges'
      BY <1>1, <2>1, <2>2 DEF Unexpired
    <2> QED
      BY <2>2, <2>3 DEF Backed
  <1>5. CallSound'
    <2> DEFINE key == IF row.mode = "assertion" THEN row.key ELSE None
    <2>1. CASE ~Fits(row.id, row.mode, key)
      BY <2>1, NoCallSound DEF GateConsume
    <2>2. CASE Fits(row.id, row.mode, key)
      <3>1. call' = [pc |-> "verify", row |-> row, commitment |-> call.commitment, object |-> call.object,
                     trial |-> TrialOf(row.id)]
        BY <2>2 DEF GateConsume
      <3>2. PICK c \in challenges : c.id = row.id
        BY <2>2 DEF Fits, Unexpired
      <3>3. accepted[row.id] = 0 /\ row.id <= issued
        BY <3>2 DEF Gate, GateSound
      <3>4. /\ row.id \in Ids /\ row.key \in Keys /\ row.mode \in Purposes /\ call.object.counter \in Nat
            /\ row.operation # "trial" => row.commitment \in Commitments /\ call.commitment = row.commitment
        BY <1>1 DEF Gate, CallSound
      <3>5. \A d \in challenges' : d.id # row.id
        BY <1>1
      <3>6. /\ call'.pc = "verify" /\ call'.row = row /\ call'.commitment = call.commitment /\ call'.object = call.object
        BY <3>1
      <3> QED
        BY <1>1, <3>3, <3>4, <3>5, <3>6 DEF CallSound
    <2> QED
      BY <2>1, <2>2
  <1> QED
    BY <1>2, <1>3, <1>4, <1>5 DEF Gate, Typed

\* Binding the assertions of a trial to its key keeps every challenge's id,
\* and leaves the ones of no trial.
LEMMA BindTrial ==
    ASSUME Typed, Gate, NEW key \in Keys, NEW trial,
           challenges' = {IF c.trial = trial /\ trial # None /\ c.purpose = "assertion" THEN [c EXCEPT !.key = key] ELSE c
                            : c \in challenges}
    PROVE  /\ challenges' \subseteq ChallengeRecord
           /\ IsFiniteSet(challenges') /\ Cardinality(challenges') <= MaxPending
           /\ \A d \in challenges' : \E c \in challenges : d.id = c.id
           /\ \A d, e \in challenges' : d.id = e.id => d = e
           /\ \A c \in challenges : c.trial = None => c \in challenges'
  <1> DEFINE f == [c \in challenges |->
                     IF c.trial = trial /\ trial # None /\ c.purpose = "assertion" THEN [c EXCEPT !.key = key] ELSE c]
  <1>1. challenges' = {f[c] : c \in challenges}
    OBVIOUS
  <1>2. \A c \in challenges : f[c] \in ChallengeRecord /\ f[c].id = c.id /\ (c.trial = None => f[c] = c)
    <2> SUFFICES ASSUME NEW c \in challenges PROVE f[c] \in ChallengeRecord /\ f[c].id = c.id /\ (c.trial = None => f[c] = c)
      OBVIOUS
    <2>1. c \in ChallengeRecord
      BY DEF Typed
    <2>2. [c EXCEPT !.key = key] \in ChallengeRecord /\ [c EXCEPT !.key = key].id = c.id
      BY <2>1 DEF ChallengeRecord
    <2> QED
      BY <2>1, <2>2
  <1>3. f \in [challenges -> challenges']
    BY <1>1
  <1> HIDE DEF f
  <1>4. challenges' \subseteq ChallengeRecord
    BY <1>1, <1>2
  <1>5. \A d \in challenges' : \E c \in challenges : d = f[c] /\ d.id = c.id
    BY <1>1, <1>2
  <1>6. \A d, e \in challenges' : d.id = e.id => d = e
    <2> SUFFICES ASSUME NEW d \in challenges', NEW e \in challenges', d.id = e.id PROVE d = e
      OBVIOUS
    <2>1. PICK c \in challenges : d = f[c] /\ d.id = c.id
      BY <1>5
    <2>2. PICK b \in challenges : e = f[b] /\ e.id = b.id
      BY <1>5
    <2>3. c = b
      BY <2>1, <2>2 DEF Gate, GateSound
    <2> QED
      BY <2>1, <2>2, <2>3
  <1>7. IsFiniteSet(challenges') /\ Cardinality(challenges') <= MaxPending
    <2>1. f \in Surjection(challenges, challenges')
      BY <1>1, <1>3 DEF Surjection
    <2>2. IsFiniteSet(challenges) /\ Cardinality(challenges) <= MaxPending
      BY DEF Gate, Bounded
    <2>3. IsFiniteSet(challenges') /\ Cardinality(challenges') <= Cardinality(challenges)
      BY <2>1, <2>2, FS_Surjection
    <2>4. Cardinality(challenges') \in Nat /\ Cardinality(challenges) \in Nat
      BY <2>2, <2>3, FS_CardinalityType
    <2> QED
      BY <2>2, <2>3, <2>4, Numbers
  <1>8. \A c \in challenges : c.trial = None => c \in challenges'
    BY <1>1, <1>2
  <1> QED
    BY <1>4, <1>5, <1>6, <1>7, <1>8

\* What the gate commits: one acceptance of the challenge, and the counter of
\* a new key or a higher one.
LEMMA AcceptGate ==
    ASSUME Typed, Gate, GateAccept
    PROVE  /\ Gate' /\ challenges' \subseteq ChallengeRecord
           /\ accepted' \in [Ids -> Nat] /\ counter' \in [Keys -> Nat \cup {None}]
           /\ \A k \in Keys : counter[k] # None => counter'[k] # None /\ counter'[k] >= counter[k]
           /\ vouched \subseteq vouched' /\ vouched' \subseteq Keys \X Commitments
  <1> DEFINE row == call.row
  <1>1. /\ call.pc = "verify" /\ UNCHANGED <<issued, clock, pending>>
        /\ accepted' = [accepted EXCEPT ![row.id] = accepted[row.id] + 1]
        /\ call' = [pc |-> "accepted", row |-> row, commitment |-> call.commitment]
        /\ vouched' = IF row.operation = "trial" THEN vouched ELSE vouched \cup {<<row.key, row.commitment>>}
    BY DEF GateAccept, InsertKey, AdvanceCounter
  <1>2. /\ row.id \in Ids /\ row.key \in Keys /\ accepted[row.id] = 0 /\ row.id <= issued /\ call.object.counter \in Nat
        /\ \A c \in challenges : c.id # row.id
        /\ row.operation # "trial" => row.commitment \in Commitments /\ call.commitment = row.commitment
    BY <1>1 DEF Gate, CallSound
  <1>3. \/ UNCHANGED challenges
        \/ \E trial : challenges' = {IF c.trial = trial /\ trial # None /\ c.purpose = "assertion"
                                     THEN [c EXCEPT !.key = row.key] ELSE c : c \in challenges}
    BY ZenonT(90) DEF GateAccept, InsertKey
  <1>4. /\ challenges' \subseteq ChallengeRecord
        /\ IsFiniteSet(challenges') /\ Cardinality(challenges') <= MaxPending
        /\ \A d \in challenges' : \E c \in challenges : d.id = c.id
        /\ \A d, e \in challenges' : d.id = e.id => d = e
        /\ \A c \in challenges : c.trial = None => c \in challenges'
    <2>1. CASE UNCHANGED challenges
      BY <2>1 DEF Typed, Gate, Bounded, GateSound
    <2>2. ASSUME NEW trial,
                 challenges' = {IF c.trial = trial /\ trial # None /\ c.purpose = "assertion"
                                THEN [c EXCEPT !.key = row.key] ELSE c : c \in challenges}
          PROVE  /\ challenges' \subseteq ChallengeRecord
                 /\ IsFiniteSet(challenges') /\ Cardinality(challenges') <= MaxPending
                 /\ \A d \in challenges' : \E c \in challenges : d.id = c.id
                 /\ \A d, e \in challenges' : d.id = e.id => d = e
                 /\ \A c \in challenges : c.trial = None => c \in challenges'
      BY <1>2, <2>2, BindTrial
    <2> QED
      BY <1>3, <2>1, <2>2
  <1>5. accepted' \in [Ids -> Nat] /\ \A i \in Ids : accepted'[i] = IF i = row.id THEN 1 ELSE accepted[i]
    BY <1>1, <1>2 DEF Typed
  <1>6. GateSound'
    <2>1. \A d \in challenges' : d.id <= issued' /\ accepted'[d.id] = 0
      <3> SUFFICES ASSUME NEW d \in challenges' PROVE d.id <= issued /\ accepted'[d.id] = 0
        BY <1>1
      <3>1. PICK c \in challenges : d.id = c.id
        BY <1>4
      <3>2. c.id <= issued /\ accepted[c.id] = 0 /\ c.id \in Ids /\ c.id # row.id
        BY <1>2, ChallengeFacts DEF Gate, GateSound
      <3> QED
        BY <1>5, <3>1, <3>2
    <2>2. \A i \in Ids : accepted'[i] <= 1 /\ (i > issued' => accepted'[i] = 0)
      <3> SUFFICES ASSUME NEW i \in Ids PROVE accepted'[i] <= 1 /\ (i > issued => accepted'[i] = 0)
        BY <1>1
      <3>1. i \in Nat /\ issued \in Nat /\ row.id \in Nat
        BY <1>2, Numbers DEF Ids
      <3> QED
        BY <1>2, <1>5, <3>1 DEF Gate, GateSound
    <2> QED
      BY <1>4, <2>1, <2>2 DEF GateSound
  <1>7. Bounded'
    BY <1>1, <1>4 DEF Gate, Bounded
  <1>8. PendingBacked'
    BY <1>1, <1>4 DEF Gate, PendingBacked, Backed
  <1>9. counter' = [counter EXCEPT ![row.key] = 0] \/ counter' = [counter EXCEPT ![row.key] = call.object.counter]
    BY DEF GateAccept, InsertKey, AdvanceCounter
  <1>10. counter' \in [Keys -> Nat \cup {None}] /\ counter'[row.key] # None
    BY <1>2, <1>9, GateAssumption DEF Typed
  <1>11. ASSUME NEW k \in Keys, counter[k] # None PROVE counter'[k] # None /\ counter'[k] >= counter[k]
    <2>1. counter[k] \in Nat
      BY <1>11 DEF Typed
    <2>2. CASE k # row.key
      <3>1. counter'[k] = counter[k]
        BY <1>9, <2>2 DEF Typed
      <3> QED
        BY <1>11, <2>1, <3>1
    <2>3. CASE k = row.key
      <3>1. call.object.counter > counter[k] /\ counter' = [counter EXCEPT ![row.key] = call.object.counter]
        BY <1>11, <2>3 DEF GateAccept, AttestationVerifies, AssertionVerifies, AdvanceCounter
      <3>2. counter'[k] = call.object.counter
        BY <1>2, <2>3, <3>1 DEF Typed
      <3> QED
        BY <1>2, <2>1, <3>1, <3>2, GateAssumption
    <2> QED
      BY <2>2, <2>3
  <1>12. vouched \subseteq vouched' /\ vouched' \subseteq Keys \X Commitments
    BY <1>1, <1>2 DEF Typed
  <1>13. CallSound'
    <2>1. call'.pc = "accepted" /\ call'.row = row /\ call'.commitment = call.commitment
      BY <1>1
    <2>2. row.operation = "enroll" => <<row.key, call.commitment>> \in vouched'
      BY <1>1, <1>2
    <2> QED
      BY <1>2, <1>10, <2>1, <2>2 DEF CallSound
  <1> QED
    BY <1>4, <1>5, <1>6, <1>7, <1>8, <1>10, <1>11, <1>12, <1>13 DEF Gate

LEMMA TrialGate ==
    ASSUME Typed, Gate, Trial
    PROVE  Gate' /\ challenges' \subseteq ChallengeRecord /\ issued' \in 0 .. MaxIssued
  <1> DEFINE a == Challenge(issued + 1, "attestation", None, issued + 1)
  <1> DEFINE b == Challenge(issued + 2, "assertion", None, issued + 1)
  <1> DEFINE d == Challenge(issued + 3, "assertion", None, issued + 1)
  <1> DEFINE old == Unexpired(challenges)
  <1>1. /\ call.pc = "idle" /\ UNCHANGED call /\ issued + 3 <= MaxIssued /\ ~Full(3) /\ issued' = issued + 3
        /\ challenges' = old \cup {a} \cup {Challenge(issued + i, "assertion", None, issued + 1) : i \in 2 .. 3}
        /\ UNCHANGED <<accepted, clock, pending>>
    BY DEF Trial, IssueTrial, enrollmentVars
  <1>2. challenges' = (((old \cup {a}) \cup {b}) \cup {d})
    <2>1. 2 .. 3 = {2, 3}
      OBVIOUS
    <2>2. {Challenge(issued + i, "assertion", None, issued + 1) : i \in 2 .. 3} = {b, d}
      BY <2>1
    <2> QED
      BY <1>1, <2>2
  <1>3. /\ issued \in Nat /\ issued + 1 \in Ids /\ issued + 2 \in Ids /\ issued + 3 \in Ids
        /\ clock + Lifetime \in Nat /\ MaxPending \in Nat
    BY <1>1, Numbers DEF Ids
  <1>4. /\ a \in ChallengeRecord /\ a.id = issued + 1
        /\ b \in ChallengeRecord /\ b.id = issued + 2
        /\ d \in ChallengeRecord /\ d.id = issued + 3
    BY <1>3 DEF Challenge, ChallengeRecord, Purposes
  <1>5. old \subseteq challenges
    BY DEF Unexpired
  <1> HIDE DEF a, b, d
  <1>6. \A c \in old : c.id \in Nat /\ c.id <= issued /\ accepted[c.id] = 0
    BY <1>5, ChallengeFacts DEF Gate, GateSound
  <1>7. GateSound'
    <2>1. accepted[issued + 1] = 0 /\ accepted[issued + 2] = 0 /\ accepted[issued + 3] = 0
      BY <1>3 DEF Gate, GateSound
    <2>2. \A c \in challenges' : c.id <= issued' /\ accepted'[c.id] = 0
      BY <1>1, <1>2, <1>3, <1>4, <1>6, <2>1
    <2>3. \A c, e \in challenges' : c.id = e.id => c = e
      <3> SUFFICES ASSUME NEW c \in challenges', NEW e \in challenges', c.id = e.id PROVE c = e
        OBVIOUS
      <3>1. CASE c \in old /\ e \in old
        BY <1>5, <3>1 DEF Gate, GateSound
      <3>2. (c \in old \/ c = a \/ c = b \/ c = d) /\ (e \in old \/ e = a \/ e = b \/ e = d)
        BY <1>2
      <3> QED
        BY <1>3, <1>4, <1>6, <3>1, <3>2
    <2>4. \A i \in Ids : accepted'[i] <= 1 /\ (i > issued' => accepted'[i] = 0)
      <3> SUFFICES ASSUME NEW i \in Ids PROVE accepted[i] <= 1 /\ (i > issued + 3 => accepted[i] = 0)
        BY <1>1
      <3>1. i \in Nat
        BY DEF Ids
      <3> QED
        BY <1>3, <3>1 DEF Gate, GateSound
    <2> QED
      BY <2>2, <2>3, <2>4 DEF GateSound
  <1>8. Bounded'
    <2>1. IsFiniteSet(old)
      BY <1>3, <1>5, SmallerTable DEF Gate, Bounded
    <2> HIDE DEF old
    <2>2. IsFiniteSet(old \cup {a}) /\ Cardinality(old) \in Nat /\ Cardinality(old \cup {a}) \in Nat
          /\ Cardinality(old \cup {a}) <= Cardinality(old) + 1
      BY <2>1, OneMore
    <2>3. /\ IsFiniteSet((old \cup {a}) \cup {b}) /\ Cardinality((old \cup {a}) \cup {b}) \in Nat
          /\ Cardinality((old \cup {a}) \cup {b}) <= Cardinality(old \cup {a}) + 1
      BY <2>2, OneMore
    <2>4. /\ IsFiniteSet(challenges') /\ Cardinality(challenges') \in Nat
          /\ Cardinality(challenges') <= Cardinality((old \cup {a}) \cup {b}) + 1
      BY <1>2, <2>3, OneMore
    <2>5. Cardinality(old) + 3 <= MaxPending
      BY <1>1, <1>3, <2>2 DEF Full, old
    <2>6. Cardinality(challenges') <= MaxPending
      BY <1>3, <2>2, <2>3, <2>4, <2>5
    <2> QED
      BY <1>1, <2>4, <2>6 DEF Gate, Bounded
  <1>9. PendingBacked'
    <2> SUFFICES ASSUME NEW x \in pending, x.expires > clock PROVE Backed(x)'
      BY <1>1 DEF PendingBacked
    <2>1. Backed(x)
      BY DEF Gate, PendingBacked
    <2> QED
      BY <1>2, <2>1 DEF Backed, Unexpired
  <1>10. CallSound'
    BY <1>1 DEF CallSound
  <1> QED
    BY <1>1, <1>2, <1>3, <1>4, <1>5, <1>7, <1>8, <1>9, <1>10, Numbers, SMTT(40) DEF Gate, Typed

LEMMA TrialObjectGate ==
    ASSUME Typed, Gate, NEW id \in 1 .. issued, NEW k \in Keys, NEW mode \in Purposes, NEW object \in Objects(issued),
           TrialObject(id, k, mode, object)
    PROVE  Gate'
  <1>1. /\ UNCHANGED <<challenges, issued, accepted, clock, pending>>
        /\ call' = [pc |-> "consumed", commitment |-> None, object |-> object,
                    row |-> [id |-> id, operation |-> "trial", commitment |-> None, key |-> k, mode |-> mode,
                             expires |-> clock + 1]]
    BY DEF TrialObject, gateVars, enrollmentVars
  <1>2. PICK c \in challenges : c.id = id /\ c.trial # None
    BY DEF TrialObject
  <1>3. \A row \in pending : row.expires > clock => row.id # id
    <2> SUFFICES ASSUME NEW row \in pending, row.expires > clock, row.id = id PROVE FALSE
      OBVIOUS
    <2>1. PICK d \in challenges : d.id = row.id /\ d.trial = None
      BY DEF Gate, PendingBacked, Backed
    <2> QED
      BY <1>2, <2>1 DEF Gate, GateSound
  <1>4. id \in Ids /\ object.counter \in Nat
    BY Numbers, GateAssumption DEF Ids, Objects
  <1>5. /\ call'.pc = "consumed" /\ call'.row.id = id /\ call'.row.key = k /\ call'.row.operation = "trial"
        /\ call'.row.mode = mode /\ call'.object = object
    BY <1>1
  <1>6. CallSound'
    BY <1>1, <1>3, <1>4, <1>5 DEF CallSound
  <1>7. GateSound' /\ Bounded' /\ PendingBacked'
    BY <1>1 DEF Gate, GateSound, Bounded, PendingBacked, Backed
  <1> QED
    BY <1>6, <1>7 DEF Gate

LEMMA TimeGate == ASSUME Typed, Gate, Time PROVE Gate' /\ clock' \in 0 .. MaxTime
  <1>1. /\ clock' = clock + 1 /\ clock' \in 0 .. MaxTime /\ clock \in Nat
        /\ UNCHANGED <<challenges, counter, issued, accepted, pending, vouched, call>>
    BY Numbers, GateAssumption DEF Time, PassTime, enrollmentVars, Typed
  <1>2. GateSound' /\ Bounded'
    BY <1>1 DEF Gate, GateSound, Bounded
  <1>3. PendingBacked'
    <2> SUFFICES ASSUME NEW x \in pending, x.expires > clock' PROVE Backed(x)'
      BY <1>1 DEF PendingBacked
    <2>1. x.expires > clock
      BY <1>1, RowFacts DEF Typed
    <2> QED
      BY <1>1, <2>1 DEF Gate, PendingBacked, Backed
  <1>4. CallSound'
    <2>1. call.pc \in {"insert", "discard", "consumed"} => \A row \in pending : row.expires > clock' => row.id # call.row.id
      BY <1>1, RowFacts DEF Typed, Gate, CallSound
    <2>2. call.pc = "insert" => (call.row.expires > clock' => Backed(call.row)')
      <3> SUFFICES ASSUME call.pc = "insert", call.row.expires > clock' PROVE Backed(call.row)'
        OBVIOUS
      <3>1. call.row.expires > clock
        BY <1>1, RowFacts DEF Gate, CallSound
      <3> QED
        BY <1>1, <3>1 DEF Gate, CallSound, Backed
    <2> QED
      BY <1>1, <2>1, <2>2 DEF Gate, CallSound
  <1> QED
    BY <1>1, <1>2, <1>3, <1>4 DEF Gate

-----------------------------------------------------------------------------
(* The steps of the tree. *)

\* Every step but a first enrollment leaves the tree alone.
LEMMA TreeKept ==
    ASSUME Tree, UNCHANGED <<enrolled, roots, events>>, vouched \subseteq vouched',
           \A k \in Keys : counter[k] # None => counter'[k] # None
    PROVE  Tree'
  <1>1. Enrolled' = Enrolled /\ LeafIndices' = LeafIndices
    BY DEF Enrolled, LeafIndices
  <1>2. Numbered'
    BY <1>1 DEF Tree, Numbered
  <1>3. RootsSound'
    BY <1>1 DEF Tree, RootsSound, LeavesUpTo
  <1>4. EventsSound'
    BY DEF Tree, EventsSound, FirstsUpTo
  <1>5. Identified'
    BY <1>1 DEF Tree, Identified, Enrolled
  <1> QED
    BY <1>2, <1>3, <1>4, <1>5 DEF Tree

LEMMA EnrolledFacts ==
    ASSUME Typed, NEW k \in Enrolled
    PROVE  k \in Keys /\ enrolled[k] # None /\ enrolled[k].leaf \in Nat /\ enrolled[k].commitment \in Commitments
  BY DEF Typed, Enrolled, Enrollment

\* The next leaf is the number of revisions so far.
LEMMA NextLeafIs ==
    ASSUME Typed, Numbered
    PROVE  NextLeaf = Len(roots) /\ Len(roots) \in Nat
  <1> DEFINE S == {-1} \cup LeafIndices
  <1>1. Len(roots) \in Nat
    BY DEF Typed
  <1>2. S = -1 .. Len(roots) - 1
    BY <1>1 DEF Numbered
  <1>3. Len(roots) - 1 \in S /\ \A y \in S : Len(roots) - 1 >= y
    BY <1>1, <1>2
  <1>4. \A x \in S : (\A y \in S : x >= y) => x = Len(roots) - 1
    BY <1>1, <1>2, <1>3
  <1>5. Max(S) \in S /\ \A y \in S : Max(S) >= y
    BY <1>3 DEF Max
  <1>6. Max(S) = Len(roots) - 1
    BY <1>4, <1>5
  <1> QED
    BY <1>1, <1>6 DEF NextLeaf

\* The leaves stored last are those of all the enrollments.
LEMMA LeavesAre ==
    ASSUME Typed, Numbered, RootsSound
    PROVE  /\ Leaves = LeavesUpTo(Len(roots)) /\ IsFiniteSet(Leaves) /\ Cardinality(Leaves) = Len(roots)
           /\ \A k \in Enrolled : enrolled[k].leaf < Len(roots) /\ enrolled[k].leaf \in Nat
           /\ Leaves = {<<enrolled[k].leaf, enrolled[k].commitment>> : k \in Enrolled}
  <1>1. Len(roots) \in Nat
    BY DEF Typed
  <1>2. ASSUME NEW k \in Enrolled PROVE enrolled[k].leaf < Len(roots) /\ enrolled[k].leaf \in Nat
    <2>1. enrolled[k].leaf \in LeafIndices
      BY DEF Enrolled, LeafIndices
    <2> QED
      BY <1>1, <2>1 DEF Numbered
  <1>3. LeavesUpTo(Len(roots)) = {<<enrolled[k].leaf, enrolled[k].commitment>> : k \in Enrolled}
    BY <1>2 DEF LeavesUpTo
  <1>4. Leaves = LeavesUpTo(Len(roots)) /\ IsFiniteSet(Leaves) /\ Cardinality(Leaves) = Len(roots)
    <2>1. CASE roots = <<>>
      <3>1. Len(roots) = 0 /\ Leaves = {}
        BY <2>1 DEF Leaves
      <3>2. LeavesUpTo(Len(roots)) = {}
        BY <1>2, <3>1 DEF LeavesUpTo
      <3> QED
        BY <3>1, <3>2, FS_EmptySet
    <2>2. CASE roots # <<>>
      <3>1. Len(roots) \in DOMAIN roots
        BY <1>1, <2>2 DEF Typed
      <3> QED
        BY <2>2, <3>1 DEF Leaves, RootsSound
    <2> QED
      BY <2>1, <2>2
  <1> QED
    BY <1>2, <1>3, <1>4

\* A first enrollment takes the next leaf and stores the next revision.
LEMMA FirstEnrollment ==
    ASSUME Typed, Tree, NEW k \in Keys, NEW c \in Commitments,
           enrolled[k] = None, ~OwnedByOther(c, k), counter[k] # None, <<k, c>> \in vouched,
           enrolled' = [enrolled EXCEPT ![k] = [commitment |-> c, leaf |-> NextLeaf]],
           UpdateTree(NextLeaf, c),
           events' = Append(events, [key |-> k, action |-> "enrolled", revision |-> Len(roots')]),
           UNCHANGED <<counter, vouched>>
    PROVE  /\ Tree' /\ enrolled' \in [Keys -> Enrollment \cup {None}]
           /\ roots' \in Seq(RootRecord) /\ events' \in Seq(EventRecord)
           /\ \A j \in Keys : enrolled[j] # None => enrolled'[j] = enrolled[j]
  <1>1. PICK n \in Nat : n = Len(roots) /\ n = NextLeaf
    BY NextLeafIs DEF Tree
  <1>2. PICK new \in Enrollment : new = [commitment |-> c, leaf |-> n] /\ new.commitment = c /\ new.leaf = n /\ new # None
    <2> DEFINE x == [commitment |-> c, leaf |-> n]
    <2>1. x \in Enrollment /\ x.commitment = c /\ x.leaf = n
      BY <1>1 DEF Enrollment
    <2>2. x # None
      BY <2>1, EnrollmentAssumption DEF Enrollment
    <2> QED
      BY <2>1, <2>2
  <1>3. PICK rec \in RootRecord : /\ rec = [leaves |-> Leaves \cup {<<n, c>>}, count |-> n + 1]
                                  /\ rec.leaves = Leaves \cup {<<n, c>>} /\ rec.count = n + 1
    <2>1. Leaves \subseteq Nat \X Commitments
      BY LeavesAre, EnrolledFacts DEF Tree
    <2> DEFINE x == [leaves |-> Leaves \cup {<<n, c>>}, count |-> n + 1]
    <2>2. Leaves \cup {<<n, c>>} \in SUBSET (Nat \X Commitments) /\ n + 1 \in Nat
      BY <1>1, <2>1
    <2>3. x \in RootRecord /\ x.leaves = Leaves \cup {<<n, c>>} /\ x.count = n + 1
      BY <2>2 DEF RootRecord
    <2> QED
      BY <2>3
  <1>4. roots' = Append(roots, rec)
    <2>1. \A l \in Leaves : l[1] # n
      <3> SUFFICES ASSUME NEW l \in Leaves, l[1] = n PROVE FALSE
        OBVIOUS
      <3>1. PICK j \in Enrolled : l = <<enrolled[j].leaf, enrolled[j].commitment>>
        BY LeavesAre DEF Tree
      <3>2. enrolled[j].leaf < n /\ enrolled[j].leaf \in Nat
        BY <1>1, LeavesAre DEF Tree
      <3> QED
        BY <3>1, <3>2
    <2>2. {l \in Leaves : l[1] # n} = Leaves
      BY <2>1
    <2> QED
      BY <1>1, <1>3, <2>2 DEF UpdateTree
  <1>5. /\ roots' \in Seq(RootRecord) /\ Len(roots') = n + 1 /\ DOMAIN roots' = 1 .. n + 1
        /\ roots'[n + 1] = rec /\ \A r \in 1 .. n : roots'[r] = roots[r]
    <2>1. roots \in Seq(RootRecord) /\ Len(roots) = n
      BY <1>1 DEF Typed
    <2> QED
      BY <1>4, <2>1
  <1>6. PICK ev \in EventRecord : /\ ev = [key |-> k, action |-> "enrolled", revision |-> n + 1]
                                  /\ ev.action = "enrolled" /\ ev.revision = n + 1
    <2> DEFINE x == [key |-> k, action |-> "enrolled", revision |-> n + 1]
    <2>1. x \in EventRecord /\ x.action = "enrolled" /\ x.revision = n + 1
      BY <1>1 DEF EventRecord
    <2> QED
      BY <2>1
  <1>7. PICK m \in Nat : m = Len(events)
    BY DEF Typed
  <1>8. /\ events' \in Seq(EventRecord) /\ DOMAIN events' = 1 .. m + 1 /\ DOMAIN events = 1 .. m
        /\ events'[m + 1] = ev /\ \A i \in 1 .. m : events'[i] = events[i]
    BY <1>5, <1>6, <1>7 DEF Typed
  <1>9. /\ enrolled' \in [Keys -> Enrollment \cup {None}] /\ enrolled'[k] = new
        /\ \A j \in Keys : j # k => enrolled'[j] = enrolled[j]
    BY <1>1, <1>2 DEF Typed
  <1>10. Enrolled' = Enrolled \cup {k} /\ k \notin Enrolled
    BY <1>2, <1>9 DEF Enrolled
  <1>11. \A j \in Enrolled : j \in Keys /\ j # k /\ enrolled'[j] = enrolled[j] /\ enrolled[j].leaf < n /\ enrolled[j].leaf \in Nat
    BY <1>1, <1>9, <1>10, LeavesAre, EnrolledFacts DEF Tree
  <1>12. Numbered'
    <2>1. IsFiniteSet(Enrolled') /\ Cardinality(Enrolled') = n + 1
      BY <1>1, <1>10, OneMore DEF Tree, Numbered
    <2>2. LeafIndices = 0 .. n - 1
      BY <1>1 DEF Tree, Numbered
    <2>3. LeafIndices = {enrolled[j].leaf : j \in Enrolled} /\ LeafIndices' = {enrolled'[j].leaf : j \in Enrolled'}
      BY DEF LeafIndices, Enrolled
    <2>4. LeafIndices' = LeafIndices \cup {n}
      BY <1>2, <1>9, <1>10, <1>11, <2>3
    <2>5. LeafIndices' = 0 .. (n + 1) - 1
      BY <1>1, <2>2, <2>4
    <2>6. \A j, x \in Enrolled' : j # x => enrolled'[j].leaf # enrolled'[x].leaf
      BY <1>2, <1>9, <1>10, <1>11 DEF Tree, Numbered
    <2> QED
      BY <1>5, <2>1, <2>5, <2>6 DEF Numbered
  <1>13. ASSUME NEW r \in 0 .. n PROVE LeavesUpTo(r)' = LeavesUpTo(r)
    <2>1. {x \in Enrolled' : enrolled'[x].leaf < r} = {x \in Enrolled : enrolled[x].leaf < r}
      BY <1>2, <1>9, <1>10, <1>11
    <2> QED
      BY <1>11, <2>1 DEF LeavesUpTo
  <1>14. LeavesUpTo(n + 1)' = Leaves \cup {<<n, c>>}
    <2>1. {x \in Enrolled' : enrolled'[x].leaf < n + 1} = Enrolled \cup {k}
      BY <1>2, <1>9, <1>10, <1>11
    <2>2. Leaves = {<<enrolled[j].leaf, enrolled[j].commitment>> : j \in Enrolled}
      BY LeavesAre DEF Tree
    <2> QED
      BY <1>2, <1>9, <1>11, <2>1, <2>2 DEF LeavesUpTo
  <1>15. RootsSound'
    <2> SUFFICES ASSUME NEW r \in 1 .. n + 1
                 PROVE  /\ roots'[r].count = r /\ roots'[r].leaves = LeavesUpTo(r)'
                        /\ IsFiniteSet(roots'[r].leaves) /\ Cardinality(roots'[r].leaves) = r
      BY <1>5 DEF RootsSound
    <2>1. CASE r \in 1 .. n
      <3>1. r \in DOMAIN roots
        <4>1. roots \in Seq(RootRecord) /\ Len(roots) = n
          BY <1>1 DEF Typed
        <4> QED
          BY <2>1, <4>1
      <3> QED
        BY <1>5, <1>13, <2>1, <3>1 DEF Tree, RootsSound
    <2>2. CASE r = n + 1
      <3>1. <<n, c>> \notin Leaves
        <4> SUFFICES ASSUME <<n, c>> \in Leaves PROVE FALSE
          OBVIOUS
        <4>1. PICK j \in Enrolled : <<n, c>> = <<enrolled[j].leaf, enrolled[j].commitment>>
          BY LeavesAre DEF Tree
        <4> QED
          BY <1>11, <4>1
      <3>2. IsFiniteSet(rec.leaves) /\ Cardinality(rec.leaves) = n + 1
        BY <1>1, <1>3, <3>1, LeavesAre, OneMore DEF Tree
      <3> QED
        BY <1>3, <1>5, <1>14, <2>2, <3>2
    <2> QED
      BY <2>1, <2>2
  <1>16. EventsSound'
    <2>1. \A i \in 1 .. m : events[i].revision \in Nat /\ (events[i].action = "enrolled" => events[i].revision <= n)
      <3> SUFFICES ASSUME NEW i \in 1 .. m
                   PROVE  events[i].revision \in Nat /\ (events[i].action = "enrolled" => events[i].revision <= n)
        OBVIOUS
      <3>1. events[i] \in EventRecord
        BY <1>7, <1>8 DEF Typed
      <3>2. events[i].revision \in Nat
        BY <3>1 DEF EventRecord
      <3> QED
        BY <1>1, <1>8, <3>2 DEF Tree, EventsSound
    <2>2. \A i \in DOMAIN events' : events'[i].action = "enrolled" => events'[i].revision <= n + 1
      BY <1>6, <1>7, <1>8, <2>1
    <2>3. ASSUME NEW r \in 0 .. n PROVE FirstsUpTo(r)' = FirstsUpTo(r)
      BY <1>6, <1>7, <1>8 DEF FirstsUpTo
    <2>4. FirstsUpTo(n + 1)' = FirstsUpTo(n) \cup {m + 1}
      BY <1>6, <1>7, <1>8, <2>1 DEF FirstsUpTo
    <2>5. m + 1 \notin FirstsUpTo(n)
      BY <1>7, <1>8 DEF FirstsUpTo
    <2>6. \A r \in 0 .. n : IsFiniteSet(FirstsUpTo(r)) /\ Cardinality(FirstsUpTo(r)) = r
      BY <1>1 DEF Tree, EventsSound
    <2>7. IsFiniteSet(FirstsUpTo(n + 1)') /\ Cardinality(FirstsUpTo(n + 1)') = n + 1
      <3>1. IsFiniteSet(FirstsUpTo(n)) /\ Cardinality(FirstsUpTo(n)) = n
        BY <1>1, <2>6
      <3>2. IsFiniteSet(FirstsUpTo(n) \cup {m + 1}) /\ Cardinality(FirstsUpTo(n) \cup {m + 1}) = n + 1
        BY <2>5, <3>1, OneMore
      <3> QED
        BY <2>4, <3>2
    <2>8. \A r \in 0 .. n + 1 : IsFiniteSet(FirstsUpTo(r)') /\ Cardinality(FirstsUpTo(r)') = r
      BY <2>3, <2>6, <2>7
    <2> QED
      BY <1>5, <2>2, <2>8 DEF EventsSound
  <1>17. Identified'
    <2>1. \A j \in Enrolled : enrolled[j].commitment # c
      BY <1>11 DEF OwnedByOther, Enrolled
    <2>2. \A j \in Enrolled' : counter'[j] # None /\ <<j, enrolled'[j].commitment>> \in vouched'
      BY <1>2, <1>9, <1>10, <1>11 DEF Tree, Identified
    <2>3. \A j, x \in Enrolled' : j # x => enrolled'[j].commitment # enrolled'[x].commitment
      BY <1>2, <1>9, <1>10, <1>11, <2>1 DEF Tree, Identified
    <2> QED
      BY <2>2, <2>3 DEF Identified
  <1> QED
    BY <1>5, <1>8, <1>9, <1>12, <1>15, <1>16, <1>17 DEF Tree

LEMMA EnrollStep ==
    ASSUME Typed, Gate, Tree, Enroll
    PROVE  /\ Typed' /\ Gate' /\ Tree'
           /\ \A j \in Keys : enrolled[j] # None => enrolled'[j] = enrolled[j]
  <1>1. /\ call.pc = "accepted" /\ call.row.operation = "enroll" /\ call' = NoCall
        /\ UNCHANGED <<challenges, counter, issued, accepted, clock, pending, vouched>>
    BY DEF Enroll, gateVars
  <1>2. PICK k \in Keys, c \in Commitments :
            /\ k = call.row.key /\ c = call.commitment
            /\ counter[k] # None /\ <<k, c>> \in vouched
    BY <1>1 DEF Gate, CallSound
  <1>3. Gate'
    BY <1>1, EndOfCall
  <1>4. /\ Tree' /\ enrolled' \in [Keys -> Enrollment \cup {None}]
        /\ roots' \in Seq(RootRecord) /\ events' \in Seq(EventRecord)
        /\ \A j \in Keys : enrolled[j] # None => enrolled'[j] = enrolled[j]
    <2>1. CASE enrolled[k] = None
      <3>1. /\ ~OwnedByOther(c, k) /\ UpdateTree(NextLeaf, c)
            /\ enrolled' = [enrolled EXCEPT ![k] = [commitment |-> c, leaf |-> NextLeaf]]
            /\ events' = Append(events, [key |-> k, action |-> "enrolled", revision |-> Len(roots')])
        BY <1>2, <2>1 DEF Enroll
      <3> QED
        BY <1>1, <1>2, <2>1, <3>1, FirstEnrollment
    <2>2. CASE enrolled[k] # None
      <3>1. /\ events' = Append(events, [key |-> k, action |-> "reenrolled", revision |-> Len(roots)])
            /\ UNCHANGED <<enrolled, roots>>
        BY <1>2, <2>2 DEF Enroll
      <3>2. PICK ev \in EventRecord : events' = Append(events, ev) /\ ev.action # "enrolled"
        <4> DEFINE x == [key |-> k, action |-> "reenrolled", revision |-> Len(roots)]
        <4>1. Len(roots) \in Nat
          BY DEF Typed
        <4>2. x \in EventRecord /\ x.action # "enrolled"
          BY <4>1 DEF EventRecord
        <4> QED
          BY <3>1, <4>2
      <3>3. PICK m \in Nat : m = Len(events)
        BY DEF Typed
      <3>4. /\ events' \in Seq(EventRecord) /\ DOMAIN events' = 1 .. m + 1 /\ DOMAIN events = 1 .. m
            /\ events'[m + 1] = ev /\ \A i \in 1 .. m : events'[i] = events[i]
        BY <3>2, <3>3 DEF Typed
      <3>5. \A r : FirstsUpTo(r)' = FirstsUpTo(r)
        BY <3>2, <3>3, <3>4 DEF FirstsUpTo
      <3>6. EventsSound'
        BY <3>1, <3>2, <3>3, <3>4, <3>5 DEF Tree, EventsSound
      <3>7. Enrolled' = Enrolled /\ LeafIndices' = LeafIndices
        BY <3>1 DEF Enrolled, LeafIndices
      <3>8. Numbered'
        BY <3>1, <3>7 DEF Tree, Numbered
      <3>9. RootsSound'
        BY <3>1, <3>7 DEF Tree, RootsSound, LeavesUpTo
      <3>10. Identified'
        BY <1>1, <3>1, <3>7 DEF Tree, Identified
      <3> QED
        BY <3>1, <3>4, <3>6, <3>8, <3>9, <3>10 DEF Tree, Typed
    <2> QED
      BY <2>1, <2>2
  <1> QED
    BY <1>1, <1>3, <1>4 DEF Typed, NoCall

-----------------------------------------------------------------------------
(* The invariant. *)

LEMMA InitIInv == Init => IInv
  <1> SUFFICES ASSUME Init PROVE IInv
    OBVIOUS
  <1>1. /\ challenges = {} /\ issued = 0 /\ clock = 0 /\ pending = {} /\ vouched = {} /\ call = NoCall
        /\ counter = [k \in Keys |-> None] /\ accepted = [i \in Ids |-> 0]
        /\ enrolled = [k \in Keys |-> None] /\ roots = <<>> /\ events = <<>>
    BY DEF Init, GateInit
  <1>2. Typed
    BY <1>1, GateAssumption DEF Typed, NoCall
  <1>3. Gate
    <2>1. GateSound
      BY <1>1 DEF GateSound
    <2>2. Bounded
      BY <1>1, FS_EmptySet, GateAssumption DEF Bounded
    <2> QED
      BY <1>1, <2>1, <2>2 DEF Gate, PendingBacked, CallSound, NoCall
  <1>4. Enrolled = {} /\ LeafIndices = {} /\ Len(roots) = 0 /\ DOMAIN roots = {} /\ DOMAIN events = {}
    BY <1>1 DEF Enrolled, LeafIndices
  <1>5. Tree
    <2>1. Numbered
      BY <1>4, FS_EmptySet DEF Numbered
    <2>2. EventsSound
      <3>1. \A r : FirstsUpTo(r) = {}
        BY <1>4 DEF FirstsUpTo
      <3> QED
        BY <1>4, <3>1, FS_EmptySet DEF EventsSound
    <2> QED
      BY <1>4, <2>1, <2>2 DEF Tree, RootsSound, Identified
  <1> QED
    BY <1>2, <1>3, <1>5, Types DEF IInv

\* What every step keeps, and what it never takes back.
LEMMA Step ==
    ASSUME Typed, Gate, Tree, Next
    PROVE  /\ Typed' /\ Gate' /\ Tree'
           /\ \A k \in Keys : /\ counter[k] # None => counter'[k] # None /\ counter'[k] >= counter[k]
                              /\ enrolled[k] # None => enrolled'[k] = enrolled[k]
  <1> DEFINE Kept == \A k \in Keys : /\ counter[k] # None => counter'[k] # None /\ counter'[k] >= counter[k]
                                     /\ enrolled[k] # None => enrolled'[k] = enrolled[k]
  <1>1. \A k \in Keys : counter[k] # None => counter[k] \in Nat /\ counter[k] >= counter[k]
    BY DEF Typed
  <1>2. ASSUME UNCHANGED <<counter, enrolled>> PROVE Kept
    BY <1>1, <1>2
  <1>3. ASSUME UNCHANGED <<counter, enrolled, roots, events, vouched>> PROVE Tree' /\ Kept
    BY <1>2, <1>3, TreeKept
  <1> HIDE DEF Kept
  <1>4. ASSUME NEW operation \in Operations, NEW c \in Commitments, NEW k \in Keys, Issue(operation, c, k)
        PROVE  Typed' /\ Gate' /\ Tree' /\ Kept
    <2>1. UNCHANGED <<counter, enrolled, roots, events, vouched, accepted, clock>> /\ call'.pc = "insert"
      BY <1>4 DEF Issue, IssueChallenge
    <2> QED
      BY <1>3, <1>4, <2>1, IssueGate DEF Typed
  <1>5. ASSUME NEW operation \in Operations, NEW c \in Commitments, NEW k \in Keys, NEW id \in 1 .. issued,
               NEW object \in Objects(issued), Begin(operation, id, c, k, object)
        PROVE  Typed' /\ Gate' /\ Tree' /\ Kept
    <2>1. UNCHANGED <<counter, enrolled, roots, events, vouched, issued, accepted, clock>>
      BY <1>5 DEF Begin
    <2>2. Gate' /\ challenges' \subseteq ChallengeRecord /\ pending' \subseteq Rows
      BY <1>5, BeginGate
    <2> QED
      BY <1>3, <2>1, <2>2 DEF Typed, Gate, CallSound
  <1>6. CASE Insert
    <2>1. UNCHANGED <<challenges, counter, enrolled, roots, events, vouched, issued, accepted, clock>> /\ call' = NoCall
      BY <1>6 DEF Insert, gateVars
    <2> QED
      BY <1>3, <1>6, <2>1, InsertGate DEF Typed, NoCall, Kept
  <1>14. CASE InsertFails
    <2>1. UNCHANGED <<challenges, pending, counter, enrolled, roots, events, vouched, issued, accepted, clock>>
      BY <1>14 DEF InsertFails, gateVars, enrollmentVars
    <2>2. call'.pc = "discard"
      BY <1>14 DEF InsertFails
    <2> QED
      BY <1>3, <1>14, <2>1, <2>2, InsertFailsGate DEF Typed, Kept
  <1>15. CASE Discard
    <2>1. UNCHANGED <<pending, counter, enrolled, roots, events, vouched, issued, accepted, clock>> /\ call' = NoCall
      BY <1>15 DEF Discard, enrollmentVars
    <2> QED
      BY <1>3, <1>15, <2>1, DiscardGate DEF Typed, NoCall, Kept
  <1>7. CASE GateConsume
    <2>1. UNCHANGED <<pending, counter, enrolled, roots, events, vouched, issued, accepted, clock>>
      BY <1>7 DEF GateConsume, enrollmentVars
    <2>2. Gate' /\ challenges' \subseteq ChallengeRecord
      BY <1>7, ConsumeGate
    <2> QED
      BY <1>3, <2>1, <2>2 DEF Typed, Gate, CallSound, Kept
  <1>8. CASE GateAccept
    <2>1. UNCHANGED <<pending, enrolled, roots, events, issued, clock>> /\ call'.pc = "accepted"
      BY <1>8 DEF GateAccept
    <2>2. Tree'
      BY <1>8, <2>1, AcceptGate, TreeKept
    <2>3. Kept
      BY <1>8, <2>1, AcceptGate DEF Kept
    <2> QED
      BY <1>8, <2>1, <2>2, <2>3, AcceptGate DEF Typed, Kept
  <1>9. CASE Enroll
    <2>1. UNCHANGED counter
      BY <1>9 DEF Enroll, gateVars
    <2>2. Kept
      BY <1>1, <1>9, <2>1, EnrollStep DEF Kept
    <2> QED
      BY <1>9, <2>2, EnrollStep DEF Kept
  <1>10. CASE GateReject \/ EnrollRefused \/ Return \/ Crash
    <2>1. UNCHANGED <<gateVars, enrollmentVars>> /\ call' = NoCall
      BY <1>10 DEF GateReject, EnrollRefused, Return, Crash
    <2>2. UNCHANGED <<challenges, counter, issued, accepted, clock, pending, enrolled, roots, events, vouched>>
      BY <2>1 DEF gateVars, enrollmentVars
    <2> QED
      BY <1>3, <2>1, <2>2, EndOfCall DEF Typed, NoCall, Kept
  <1>11. CASE Trial
    <2>1. UNCHANGED <<pending, counter, enrolled, roots, events, vouched, accepted, clock, call>>
      BY <1>11 DEF Trial, IssueTrial, enrollmentVars
    <2> QED
      BY <1>3, <1>11, <2>1, TrialGate DEF Typed, Kept
  <1>12. ASSUME NEW id \in 1 .. issued, NEW k \in Keys, NEW mode \in Purposes, NEW object \in Objects(issued),
                TrialObject(id, k, mode, object)
         PROVE  Typed' /\ Gate' /\ Tree' /\ Kept
    <2>1. /\ UNCHANGED <<challenges, issued, pending, counter, enrolled, roots, events, vouched, accepted, clock>>
          /\ call'.pc = "consumed"
      BY <1>12 DEF TrialObject, gateVars, enrollmentVars
    <2> QED
      BY <1>3, <1>12, <2>1, TrialObjectGate DEF Typed
  <1>13. CASE Time
    <2>1. UNCHANGED <<challenges, issued, pending, counter, enrolled, roots, events, vouched, accepted, call>>
      BY <1>13 DEF Time, PassTime, enrollmentVars
    <2> QED
      BY <1>3, <1>13, <2>1, TimeGate DEF Typed, Kept
  <1> QED
    BY <1>4, <1>5, <1>6, <1>7, <1>8, <1>9, <1>10, <1>11, <1>12, <1>13, <1>14, <1>15 DEF Next, Kept

LEMMA NextIInv == IInv /\ [Next]_vars => IInv'
  <1> SUFFICES ASSUME IInv, [Next]_vars PROVE IInv'
    OBVIOUS
  <1>1. Typed /\ Gate /\ Tree
    BY Types DEF IInv
  <1>2. CASE Next
    BY <1>1, <1>2, Step, Types DEF IInv
  <1>3. CASE UNCHANGED vars
    <2>1. UNCHANGED <<challenges, counter, issued, accepted, clock, pending, enrolled, roots, events, vouched, call>>
      BY <1>3 DEF vars, gateVars, enrollmentVars
    <2>2. Tree'
      BY <1>1, <2>1, TreeKept
    <2>3. GateSound' /\ Bounded' /\ PendingBacked'
      BY <1>1, <2>1 DEF Gate, GateSound, Bounded, PendingBacked, Backed
    <2>4. CallSound'
      BY <1>1, <2>1 DEF Gate, CallSound, Backed
    <2>5. Typed'
      BY <1>1, <2>1 DEF Typed
    <2> QED
      BY <2>2, <2>3, <2>4, <2>5, Types DEF IInv, Gate
  <1> QED
    BY <1>2, <1>3

LEMMA AlwaysIInv == Spec => []IInv
  BY InitIInv, NextIInv, PTL DEF Spec

-----------------------------------------------------------------------------
(* The theorems. *)

\* Whatever crashes and expiries come between the two services' commits, an
\* identity is enrolled only by a key that answered a challenge issued for that
\* very commitment, no commitment has two keys and no challenge counts twice.
THEOREM IdentitiesVouched == Spec => []EnrolledByVoucher
  <1>1. IInv => EnrolledByVoucher
    BY DEF IInv, Gate, GateSound, Tree, Identified, EnrolledByVoucher, AcceptedOnce
  <1> QED
    BY <1>1, AlwaysIInv, PTL

\* The tree, its revisions and the enrollment events agree, both challenge
\* tables stay within their limit, and every challenge a client holds can
\* still be answered at the gate.
THEOREM StoresAgree == Spec => []StoresConsistent
  <1>1. IInv => StoresConsistent
    <2> SUFFICES ASSUME IInv PROVE StoresConsistent
      OBVIOUS
    <2>1. Typed /\ Gate /\ Tree
      BY Types DEF IInv
    <2>2. Len(roots) \in Nat /\ DOMAIN roots = 1 .. Len(roots)
      BY <2>1 DEF Typed
    <2>3. TreeMatchesEnrollments
      <3>1. /\ Leaves = {<<enrolled[k].leaf, enrolled[k].commitment>> : k \in Enrolled}
            /\ Cardinality(Leaves) = Cardinality(Enrolled)
        BY <2>1, LeavesAre DEF Tree, Numbered
      <3>2. ASSUME NEW r \in DOMAIN roots
            PROVE  /\ roots[r].count = Cardinality(roots[r].leaves)
                   /\ roots[r].count = Cardinality({i \in DOMAIN events : events[i].action = "enrolled" /\ events[i].revision <= r})
                   /\ r > 1 => roots[r - 1].leaves \subseteq roots[r].leaves
        <4>1. roots[r].count = r /\ roots[r].leaves = LeavesUpTo(r) /\ Cardinality(roots[r].leaves) = r
          BY <2>1 DEF Tree, RootsSound
        <4>2. Cardinality(FirstsUpTo(r)) = r
          BY <2>1, <2>2 DEF Tree, EventsSound
        <4>3. ASSUME r > 1 PROVE roots[r - 1].leaves \subseteq roots[r].leaves
          <5>1. r - 1 \in DOMAIN roots /\ r \in Nat
            BY <2>2, <4>3
          <5>2. roots[r - 1].leaves = LeavesUpTo(r - 1)
            BY <2>1, <5>1 DEF Tree, RootsSound
          <5>3. \A k \in Enrolled : enrolled[k].leaf < r - 1 => enrolled[k].leaf < r
            BY <2>1, <5>1, EnrolledFacts
          <5> QED
            BY <4>1, <5>2, <5>3 DEF LeavesUpTo
        <4> QED
          BY <4>1, <4>2, <4>3 DEF FirstsUpTo
      <3> QED
        BY <3>1, <3>2 DEF TreeMatchesEnrollments
    <2>4. TablesBounded
      BY <2>1 DEF Gate, Bounded, TablesBounded, PendingBounded
    <2>5. ChallengesBacked
      BY <2>1 DEF Gate, PendingBacked, Backed, ChallengesBacked, Unexpired, Fits
    <2> QED
      BY <2>3, <2>4, <2>5 DEF IInv, StoresConsistent, TreeConsistent, PendingConsistent
  <1> QED
    BY <1>1, AlwaysIInv, PTL

\* No step takes back an App Attest counter or an enrollment, so an assertion
\* older than one accepted is never accepted.
THEOREM NothingTakenBack == Spec => NothingUndone
  <1> DEFINE Kept == \A k \in Keys : /\ counter[k] # None => counter'[k] # None /\ counter'[k] >= counter[k]
                                     /\ enrolled[k] # None => enrolled'[k] = enrolled[k]
  <1>1. IInv /\ [Next]_vars => [Kept]_vars
    <2> SUFFICES ASSUME IInv, Next PROVE Kept
      OBVIOUS
    <2>1. Typed /\ Gate /\ Tree
      BY Types DEF IInv
    <2> QED
      BY <2>1, Step
  <1> QED
    BY <1>1, AlwaysIInv, PTL DEF Spec, NothingUndone

=============================================================================
