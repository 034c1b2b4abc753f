----------------------- MODULE OperatorProofs -----------------------
(* Theorems about the operator's side: root publication, for every batch     *)
(* size, ring size and number of enrollments and faults, the gate 2 commands, *)
(* for every set of observations and number of changes and faults, and the    *)
(* confidence reports, for every depth of the tree, number of directories,    *)
(* commands and events, and every history their score is computed from.       *)
EXTENDS MCOperator, MCConfidenceReports, FiniteSetTheorems, WellFoundedInduction, TLAPS

-----------------------------------------------------------------------------
(* The inductive invariant. *)

RowRecord == [status: {"pending", "submitted", "confirmed"}, wire: Nat \cup {None}, waiting: BOOLEAN, error: BOOLEAN]
StepRecord ==
    {Idle} \cup {[at |-> "row"]}
    \cup [at: {"recheck", "inspect", "expired", "prepare", "confirm"}, revision: Nat]
    \cup [at: {"send"}, revision: Nat, tx: Nat]
Check == [revision: Revisions, active: BOOLEAN \cup {None}, stale: BOOLEAN]

Working == {"inspect", "expired", "prepare", "send", "confirm"}

Typed ==
    /\ leaves \in Nat /\ leaves <= MaxLeaves /\ overdue \in 0 .. leaves
    /\ rows \in [DOMAIN rows -> RowRecord] /\ DOMAIN rows \subseteq 1 .. leaves
    /\ step \in StepRecord
    /\ checked \in Check \cup {None}
    /\ txs \in Seq(Nat)
    /\ sent \subseteq DOMAIN txs /\ past \subseteq DOMAIN txs
    /\ chain \in Seq(DOMAIN txs) /\ final \in 0 .. Len(chain)
    /\ faults \in 0 .. MaxFaults

\* Every lapsed transaction cost a fault.
Counted == IsFiniteSet(past) /\ Cardinality(past) <= faults

\* A revision gets another transaction only when the one before has lapsed.
Replaced == \A s, t \in DOMAIN txs : s < t /\ txs[s] = txs[t] => s \in past

\* A transaction publishes a revision that has a row; until it lapses the open
\* row keeps it, and what a row keeps publishes its revision.
WiresSound ==
    /\ \A t \in DOMAIN txs : txs[t] \in DOMAIN rows
    /\ \A t \in DOMAIN txs \ past : rows[txs[t]].status # "confirmed" => rows[txs[t]].wire = t
    /\ \A r \in DOMAIN rows : rows[r].wire # None => rows[r].wire \in DOMAIN txs /\ txs[rows[r].wire] = r

\* At most one row is open, and it is of the latest revision that has a row.
OneOpen == \A r, q \in DOMAIN rows : rows[r].status # "confirmed" => q <= r

\* Of a confirmed row's revision, a finalized transaction.
FinalFor(r) == \E i \in 1 .. final : txs[chain[i]] = r
RowsFinal == \A r \in DOMAIN rows : rows[r].status = "confirmed" => FinalFor(r)

\* What the running tick knows of its row: the transaction is set aside only
\* when it has lapsed.
StepSound ==
    /\ step.at = "recheck" => Confirmed # {} /\ step.revision = Latest
    /\ step.at \in Working => step.revision \in DOMAIN rows /\ rows[step.revision].status # "confirmed"
    /\ step.at = "expired" => rows[step.revision].wire # None
    /\ step.at = "prepare" => rows[step.revision].wire = None \/ rows[step.revision].wire \in past
    /\ step.at = "send" => step.tx \in DOMAIN txs /\ rows[step.revision].wire = step.tx

Books == Counted /\ Replaced /\ WiresSound /\ OneOpen /\ RowsFinal /\ LandInOrder

IInv == Typed /\ Books /\ StepSound /\ CheckOfLatest

-----------------------------------------------------------------------------
(* The largest revision of a set. *)

\* Every set of natural numbers has a least element.
LEMMA LeastOf == ASSUME NEW S \in SUBSET Nat, S # {} PROVE \E m \in S : \A n \in S : m <= n
  <1> DEFINE R == {ss \in Nat \X Nat : ss[1] < ss[2]}
  <1>1. IsWellFoundedOn(R, Nat)
    BY NatLessThanWellFounded DEF OpToRel
  <1>2. PICK m \in S : \A y \in S : ~ (<<y, m>> \in R)
    BY <1>1, WFMin
  <1>3. ASSUME NEW n \in S PROVE m <= n
    <2>1. <<n, m>> \in Nat \X Nat /\ <<n, m>>[1] = n /\ <<n, m>>[2] = m
      OBVIOUS
    <2>2. ~ (n < m)
      BY <1>2, <2>1
    <2> QED
      BY <2>2
  <1> QED
    BY <1>3

\* Max of a bounded set is its largest element.
LEMMA MaxOf ==
    ASSUME NEW S \in SUBSET Nat, S # {}, NEW b \in Nat, \A x \in S : x <= b
    PROVE  Max(S) \in S /\ \A x \in S : x <= Max(S)
  <1> DEFINE U == {k \in Nat : \A x \in S : x <= k}
  <1>1. PICK m \in U : \A n \in U : m <= n
    BY LeastOf
  <1>2. m \in S
    <2> SUFFICES ASSUME m \notin S PROVE FALSE
      OBVIOUS
    <2>1. PICK x \in S : TRUE
      OBVIOUS
    <2>2. m - 1 \in U
      BY <1>1, <2>1
    <2> QED
      BY <1>1, <2>2
  <1> QED
    BY <1>1, <1>2 DEF Max

\* Latest is the largest confirmed revision, or 0.
LatestSound ==
    /\ Latest \in Nat /\ (Confirmed = {} \/ Latest \in Confirmed)
    /\ \A r \in Confirmed : r <= Latest

LEMMA LatestFacts == (Typed => LatestSound) /\ (Typed' => LatestSound')
  <1>1. ASSUME NEW C, NEW n \in Nat, C \subseteq 1 .. n
        PROVE  /\ Max({0} \cup C) \in Nat /\ (C = {} \/ Max({0} \cup C) \in C)
               /\ \A r \in C : r <= Max({0} \cup C)
    <2> DEFINE S == {0} \cup C
    <2>1. S \in SUBSET Nat /\ S # {} /\ \A x \in S : x <= n
      BY <1>1
    <2>2. Max(S) \in S /\ \A x \in S : x <= Max(S)
      BY <2>1, MaxOf
    <2>3. ASSUME NEW m \in S, \A x \in S : x <= m
          PROVE  m \in Nat /\ (C = {} \/ m \in C) /\ \A r \in C : r <= m
      <3>1. m = 0 => \A r \in C : r <= 0
        BY <2>3
      <3>2. m = 0 => C = {}
        BY <1>1, <3>1
      <3> QED
        BY <1>1, <2>3, <3>2
    <2> QED
      BY <2>2, <2>3, Zenon
  <1>2. Typed => Confirmed \subseteq 1 .. leaves /\ leaves \in Nat
    BY DEF Typed, Confirmed
  <1>3. Typed' => Confirmed' \subseteq 1 .. leaves' /\ leaves' \in Nat
    BY DEF Typed, Confirmed
  <1>4. ASSUME Typed PROVE LatestSound
    BY <1>1, <1>2, <1>4 DEF LatestSound, Latest
  <1>5. ASSUME Typed' PROVE LatestSound'
    <2>1. Latest' = Max({0} \cup Confirmed')
      BY DEF Latest
    <2> QED
      BY <1>1, <1>3, <1>5, <2>1 DEF LatestSound
  <1> QED
    BY <1>4, <1>5

\* Rows whose status stays leave the latest revision.
LEMMA SameLatest ==
    ASSUME DOMAIN rows' = DOMAIN rows, \A r \in DOMAIN rows : rows'[r].status = rows[r].status
    PROVE  Confirmed' = Confirmed /\ Latest' = Latest
  <1>1. Confirmed' = Confirmed
    BY DEF Confirmed
  <1>2. Latest' = Max({0} \cup Confirmed')
    BY DEF Latest
  <1> QED
    BY <1>1, <1>2 DEF Latest

-----------------------------------------------------------------------------
(* Initially. *)

LEMMA InitIInv == Init => IInv
  <1> SUFFICES ASSUME Init PROVE IInv
    OBVIOUS
  <1> USE PublicationAssumption DEF Init
  <1>1. DOMAIN rows = {} /\ DOMAIN txs = {} /\ DOMAIN chain = {}
    OBVIOUS
  <1>2. Typed
    <2>1. rows \in [DOMAIN rows -> RowRecord]
      BY <1>1
    <2> QED
      BY <1>1, <2>1 DEF Typed, StepRecord
  <1>3. Counted
    BY FS_EmptySet DEF Counted
  <1>4. Replaced /\ WiresSound /\ OneOpen /\ RowsFinal /\ LandInOrder
    BY <1>1 DEF Replaced, WiresSound, OneOpen, RowsFinal, LandInOrder
  <1>5. StepSound /\ CheckOfLatest
    BY DEF StepSound, CheckOfLatest, Idle, Working
  <1> QED
    BY <1>2, <1>3, <1>4, <1>5 DEF IInv, Books

-----------------------------------------------------------------------------
(* Steps that sign nothing, confirm nothing and leave the chain. *)

SameRows ==
    /\ DOMAIN rows' = DOMAIN rows
    /\ \A r \in DOMAIN rows : rows'[r].status = rows[r].status /\ rows'[r].wire = rows[r].wire

Quiet == SameRows /\ UNCHANGED <<txs, past, chain, final>> /\ faults' \in Nat /\ faults <= faults'

LEMMA QuietBooks == ASSUME IInv, Quiet PROVE Books'
  <1> USE DEF Quiet, SameRows
  <1>1. Counted'
    <2>1. Cardinality(past) \in Nat /\ faults \in Nat
      BY FS_CardinalityType, PublicationAssumption DEF IInv, Books, Counted, Typed
    <2> QED
      BY <2>1 DEF IInv, Books, Counted
  <1>2. Replaced' /\ LandInOrder'
    BY DEF IInv, Books, Replaced, LandInOrder
  <1>3. WiresSound'
    BY DEF IInv, Books, WiresSound
  <1>4. OneOpen'
    BY DEF IInv, Books, OneOpen
  <1>5. RowsFinal'
    BY DEF IInv, Books, RowsFinal, FinalFor
  <1> QED
    BY <1>1, <1>2, <1>3, <1>4, <1>5 DEF Books

\* A step that leaves the running tick or ends it.
LEMMA QuietStep ==
    ASSUME IInv, Quiet, UNCHANGED step \/ step' = Idle \/ step' = [at |-> "row"]
    PROVE  StepSound'
  <1>1. Confirmed' = Confirmed /\ Latest' = Latest
    BY SameLatest DEF Quiet, SameRows
  <1>2. CASE step' = Idle \/ step' = [at |-> "row"]
    BY <1>2 DEF StepSound, Idle, Working
  <1>3. CASE UNCHANGED step
    <2>1. step.at = "recheck" => Confirmed' # {} /\ step'.revision = Latest'
      BY <1>1, <1>3 DEF IInv, StepSound
    <2>2. step.at \in Working => step.revision \in DOMAIN rows /\ rows[step.revision].status # "confirmed"
      BY DEF IInv, StepSound
    <2>3. step.at \in {"expired", "prepare", "send"} => step.at \in Working
      BY DEF Working
    <2> QED
      BY <1>3, <2>1, <2>2, <2>3 DEF IInv, StepSound, Quiet, SameRows
  <1> QED
    BY <1>2, <1>3

LEMMA QuietCheck ==
    ASSUME IInv, Quiet, UNCHANGED checked \/ checked' = None PROVE CheckOfLatest'
  <1>1. Latest' = Latest
    BY SameLatest DEF Quiet, SameRows
  <1> QED
    BY <1>1 DEF IInv, CheckOfLatest

\* What a change of a row's waiting and error flags keeps.
LEMMA FlagsOnly ==
    ASSUME Typed, NEW r \in DOMAIN rows, NEW e,
           e \in RowRecord, e.status = rows[r].status, e.wire = rows[r].wire,
           rows' = [rows EXCEPT ![r] = e]
    PROVE  SameRows /\ rows' \in [DOMAIN rows' -> RowRecord] /\ DOMAIN rows' = DOMAIN rows
  BY DEF Typed, SameRows

LEMMA Flags ==
    ASSUME NEW x \in RowRecord
    PROVE  /\ [x EXCEPT !.waiting = FALSE] \in RowRecord
           /\ [x EXCEPT !.waiting = FALSE].status = x.status
           /\ [x EXCEPT !.waiting = FALSE].wire = x.wire
           /\ [x EXCEPT !.waiting = TRUE] \in RowRecord
           /\ [x EXCEPT !.waiting = TRUE].status = x.status
           /\ [x EXCEPT !.waiting = TRUE].wire = x.wire
           /\ [x EXCEPT !.waiting = TRUE, !.error = TRUE] \in RowRecord
           /\ [x EXCEPT !.waiting = TRUE, !.error = TRUE].status = x.status
           /\ [x EXCEPT !.waiting = TRUE, !.error = TRUE].wire = x.wire
  BY DEF RowRecord

\* The counters after a fault.
LEMMA FaultFacts == Typed /\ Fault => faults' \in 0 .. MaxFaults /\ faults <= faults' /\ faults' \in Nat
  BY PublicationAssumption DEF Typed, Fault

LEMMA TimeSteps ==
    ASSUME IInv, EnrollLeaf \/ DelayPasses \/ RetryPasses \/ CheckPasses
    PROVE  IInv'
  <1> USE PublicationAssumption
  <1>0. Typed /\ faults \in Nat /\ faults <= faults
    BY DEF IInv, Typed
  <1>1. CASE EnrollLeaf
    <2>1. Quiet /\ UNCHANGED <<step, checked>> /\ UNCHANGED rows
      BY <1>0, <1>1 DEF EnrollLeaf, Quiet, SameRows, network
    <2>2. Typed'
      <3>1. leaves' \in Nat /\ leaves' <= MaxLeaves /\ 0 .. leaves \subseteq 0 .. leaves' /\ 1 .. leaves \subseteq 1 .. leaves'
        BY <1>0, <1>1 DEF EnrollLeaf, Typed
      <3>2. UNCHANGED <<overdue, rows, step, checked, txs, sent, past, chain, final, faults>>
        BY <1>1 DEF EnrollLeaf, network
      <3> QED
        BY <1>0, <3>1, <3>2 DEF Typed
    <2> QED
      BY <2>1, <2>2, QuietBooks, QuietStep, QuietCheck DEF IInv
  <1>2. CASE DelayPasses
    <2>1. Quiet /\ UNCHANGED <<step, checked>>
      BY <1>0, <1>2 DEF DelayPasses, Quiet, SameRows, network
    <2>2. Typed'
      BY <1>0, <1>2 DEF DelayPasses, Typed, network
    <2> QED
      BY <2>1, <2>2, QuietBooks, QuietStep, QuietCheck DEF IInv
  <1>3. CASE RetryPasses
    <2>1. PICK r \in DOMAIN rows : rows' = [rows EXCEPT ![r] = [rows[r] EXCEPT !.waiting = FALSE]]
      BY <1>3 DEF RetryPasses
    <2>2. rows[r] \in RowRecord
      BY <1>0 DEF Typed
    <2>3. SameRows /\ rows' \in [DOMAIN rows' -> RowRecord] /\ DOMAIN rows' = DOMAIN rows
      BY <1>0, <2>1, <2>2, Flags, FlagsOnly
    <2>4. UNCHANGED <<leaves, overdue, step, checked, txs, sent, past, chain, final, faults>>
      BY <1>3 DEF RetryPasses, network
    <2>5. Quiet
      BY <1>0, <2>3, <2>4 DEF Quiet
    <2>6. Typed'
      BY <1>0, <2>3, <2>4 DEF Typed
    <2> QED
      BY <2>4, <2>5, <2>6, QuietBooks, QuietStep, QuietCheck DEF IInv
  <1>4. CASE CheckPasses
    <2>1. Quiet /\ UNCHANGED step /\ UNCHANGED rows
      BY <1>0, <1>4 DEF CheckPasses, Quiet, SameRows, network, db
    <2>2. checked \in Check /\ checked' = [checked EXCEPT !.stale = TRUE]
      BY <1>0, <1>4 DEF CheckPasses, Typed
    <2>3. checked' \in Check /\ checked'.revision = checked.revision /\ checked # None
      BY <1>4, <2>2 DEF Check, CheckPasses
    <2>4. Typed'
      BY <1>0, <1>4, <2>3 DEF CheckPasses, Typed, network, db
    <2>5. CheckOfLatest'
      <3>1. Latest' = Latest
        BY <2>1, SameLatest DEF Quiet, SameRows
      <3> QED
        BY <2>3, <3>1 DEF IInv, CheckOfLatest
    <2> QED
      BY <2>1, <2>4, <2>5, QuietBooks, QuietStep DEF IInv
  <1> QED
    BY <1>1, <1>2, <1>3, <1>4

-----------------------------------------------------------------------------
(* The steps of a tick that decide what comes next. *)

\* The kinds of step, and what their fields are.
LEMMA StepFacts ==
    ASSUME step \in StepRecord
    PROVE  /\ step.at \in Working \cup {"recheck"} => step.revision \in Nat
           /\ step.at = "send" => step.tx \in Nat
  BY DEF StepRecord, Idle, Working

LEMMA StepTyped ==
    ASSUME NEW r \in Nat, NEW t \in Nat
    PROVE  /\ Idle \in StepRecord /\ [at |-> "row"] \in StepRecord
           /\ \A a \in {"recheck", "inspect", "expired", "prepare", "confirm"} : [at |-> a, revision |-> r] \in StepRecord
           /\ [at |-> "send", revision |-> r, tx |-> t] \in StepRecord
  BY DEF StepRecord

\* The open row is the only one and Min finds it.
LEMMA PendingFacts ==
    ASSUME IInv
    PROVE  /\ Pending = None => \A r \in DOMAIN rows : rows[r].status = "confirmed"
           /\ Pending # None => Pending \in DOMAIN rows /\ rows[Pending].status # "confirmed"
  <1>1. CASE Open = {}
    BY <1>1 DEF Pending, Open, Confirmed
  <1>2. CASE Open # {}
    <2>1. PICK r \in Open : TRUE
      BY <1>2
    <2>2. \A q \in Open : q = r
      BY <2>1 DEF IInv, Typed, Books, OneOpen, Open, Confirmed
    <2>3. r \in Nat /\ Open = {r}
      BY <2>1, <2>2 DEF IInv, Typed, Open
    <2>4. Min(Open) = r
      BY <2>3 DEF Min
    <2> QED
      BY <1>2, <2>1, <2>3, <2>4, PublicationAssumption DEF Pending, Open, Confirmed
  <1> QED
    BY <1>1, <1>2

\* A step after which the tick works on a row that is open.
LEMMA NextStep ==
    ASSUME IInv, Quiet, NEW r \in DOMAIN rows, rows[r].status # "confirmed",
           NEW t \in Nat \cup {None}, rows[r].wire = t,
           \/ step' = [at |-> "inspect", revision |-> r]
           \/ step' = [at |-> "expired", revision |-> r] /\ t # None
           \/ step' = [at |-> "prepare", revision |-> r] /\ (t = None \/ t \in past)
           \/ step' = [at |-> "send", revision |-> r, tx |-> t] /\ t \in DOMAIN txs
           \/ step' = [at |-> "confirm", revision |-> r]
    PROVE  StepSound' /\ step' \in StepRecord
  <1>1. r \in Nat
    BY DEF IInv, Typed
  <1>2. r \in DOMAIN rows' /\ rows'[r].status # "confirmed" /\ rows'[r].wire = t /\ past' = past /\ txs' = txs
    BY DEF Quiet, SameRows
  <1>3. step' \in StepRecord
    <2>1. t \in DOMAIN txs => t \in Nat
      BY DEF IInv, Typed
    <2>2. CASE step' = [at |-> "send", revision |-> r, tx |-> t] /\ t \in DOMAIN txs
      BY <1>1, <2>1, <2>2, StepTyped
    <2>3. CASE \E a \in {"inspect", "expired", "prepare", "confirm"} : step' = [at |-> a, revision |-> r]
      BY <1>1, <2>3 DEF StepRecord
    <2> QED
      BY <2>2, <2>3
  <1>4. step'.revision = r /\ step'.at # "recheck"
    OBVIOUS
  <1> QED
    BY <1>2, <1>3, <1>4 DEF StepSound

LEMMA TickSteps ==
    ASSUME IInv, Tick \/ Recheck \/ (\E force \in BOOLEAN : NothingDue(force)) \/ Restart
    PROVE  IInv'
  <1> USE PublicationAssumption
  <1>0. Typed /\ faults \in Nat /\ faults <= faults
    BY DEF IInv, Typed
  <1>1. CASE Tick
    <2>1. Quiet /\ UNCHANGED <<leaves, overdue, rows, checked, txs, sent, past, chain, final, faults>>
      BY <1>0, <1>1 DEF Tick, Quiet, SameRows, db, network
    <2>2. LatestSound /\ Confirmed' = Confirmed /\ Latest' = Latest
      BY <1>0, <2>1, LatestFacts, SameLatest DEF Quiet, SameRows
    <2>3. step' \in StepRecord /\ StepSound'
      <3>1. CASE step' = [at |-> "row"]
        BY <2>1, <3>1, QuietStep DEF StepRecord
      <3>2. CASE Confirmed # {} /\ step' = [at |-> "recheck", revision |-> Latest]
        BY <2>2, <3>2 DEF StepRecord, StepSound, LatestSound, Working
      <3> QED
        BY <1>1, <3>1, <3>2 DEF Tick
    <2>4. Typed'
      BY <1>0, <2>1, <2>3 DEF Typed
    <2> QED
      BY <2>1, <2>3, <2>4, QuietBooks, QuietCheck DEF IInv
  <1>2. CASE Recheck
    <2>1. UNCHANGED faults \/ Fault
      BY <1>2 DEF Recheck
    <2>2. faults' \in 0 .. MaxFaults /\ faults <= faults' /\ faults' \in Nat
      BY <1>0, <2>1, FaultFacts DEF Typed
    <2>3. UNCHANGED <<leaves, overdue, rows, txs, sent, past, chain, final>> /\ step' = [at |-> "row"]
      BY <1>2 DEF Recheck, db, network
    <2>4. Quiet
      BY <2>2, <2>3 DEF Quiet, SameRows
    <2>5. LatestSound /\ Latest' = Latest
      BY <1>0, <2>4, LatestFacts, SameLatest DEF Quiet, SameRows
    <2>6. Latest \in Revisions /\ step.revision = Latest
      <3>1. Confirmed # {} /\ step.revision = Latest
        BY <1>2 DEF Recheck, IInv, StepSound
      <3> QED
        BY <1>0, <2>5, <3>1 DEF LatestSound, Revisions, Typed, Confirmed
    <2>7. checked' \in Check /\ checked'.revision = Latest
      <3>1. PICK a \in BOOLEAN \cup {None} : checked' = [revision |-> step.revision, active |-> a, stale |-> FALSE]
        <4>1. Active(step.revision) \in BOOLEAN
          BY DEF Active
        <4> QED
          BY <1>2, <4>1 DEF Recheck
      <3> QED
        BY <2>6, <3>1 DEF Check
    <2>8. Typed' /\ CheckOfLatest'
      BY <1>0, <2>2, <2>3, <2>5, <2>7 DEF Typed, CheckOfLatest, StepRecord
    <2> QED
      BY <2>3, <2>4, <2>8, QuietBooks, QuietStep DEF IInv
  <1>3. CASE \E force \in BOOLEAN : NothingDue(force)
    <2>1. Quiet /\ step' = Idle /\ UNCHANGED <<leaves, overdue, rows, checked, txs, sent, past, chain, final, faults>>
      BY <1>0, <1>3 DEF NothingDue, Quiet, SameRows, db, network
    <2>2. Typed'
      BY <1>0, <2>1 DEF Typed, StepRecord
    <2> QED
      BY <2>1, <2>2, QuietBooks, QuietStep, QuietCheck DEF IInv
  <1>4. CASE Restart
    <2>1. faults' \in 0 .. MaxFaults /\ faults <= faults' /\ faults' \in Nat
      BY <1>0, <1>4, FaultFacts DEF Restart
    <2>2. step' = Idle /\ checked' = None /\ UNCHANGED <<leaves, overdue, rows, txs, sent, past, chain, final>>
      BY <1>4 DEF Restart, db, network
    <2>3. Quiet
      BY <2>1, <2>2 DEF Quiet, SameRows
    <2>4. Typed'
      BY <1>0, <2>1, <2>2 DEF Typed, StepRecord
    <2> QED
      BY <2>2, <2>3, <2>4, QuietBooks, QuietStep, QuietCheck DEF IInv
  <1> QED
    BY <1>1, <1>2, <1>3, <1>4

-----------------------------------------------------------------------------
(* The steps of a tick that leave its row as it is. *)

\* The running tick's row.
LEMMA OwnRow ==
    ASSUME IInv, step.at \in Working
    PROVE  /\ step.revision \in DOMAIN rows /\ step.revision \in Nat
           /\ rows[step.revision] \in RowRecord /\ rows[step.revision].status # "confirmed"
           /\ rows[step.revision].wire \in Nat \cup {None}
  <1>1. step.revision \in DOMAIN rows /\ rows[step.revision].status # "confirmed"
    BY DEF IInv, StepSound
  <1>2. rows[step.revision] \in RowRecord
    BY <1>1 DEF IInv, Typed
  <1> QED
    BY <1>1, <1>2 DEF IInv, Typed, RowRecord

\* An inspection that does not find the root, the answer about the lifetime of
\* the transaction, and the sending.
LEMMA RowSteps ==
    ASSUME IInv, (InspectRow /\ ~Inspect(step.revision)) \/ Expired \/ Send
    PROVE  IInv'
  <1> DEFINE r == step.revision
  <1> DEFINE t == rows[r].wire
  <1>0. Typed /\ faults \in Nat /\ faults <= faults /\ step.at \in Working
    BY PublicationAssumption DEF IInv, Typed, InspectRow, Expired, Send, Working
  <1>1. r \in DOMAIN rows /\ r \in Nat /\ rows[r] \in RowRecord /\ rows[r].status # "confirmed" /\ t \in Nat \cup {None}
    BY <1>0, OwnRow
  <1>2. UNCHANGED <<leaves, overdue, rows, checked, txs, past, chain, final, faults>>
    BY DEF InspectRow, Confirm, Expired, Send, db, network
  <1>3. Quiet
    BY <1>0, <1>2 DEF Quiet, SameRows
  <1>4. sent' \subseteq DOMAIN txs
    BY <1>0 DEF Typed, InspectRow, Expired, Send, network, IInv, StepSound
  <1>5. t # None => t \in DOMAIN txs
    BY <1>1 DEF IInv, Books, WiresSound
  <1>6. step.at = "expired" => t # None
    BY DEF IInv, StepSound
  <1>7. \/ step' = [at |-> "expired", revision |-> r] /\ t # None
        \/ step' = [at |-> "prepare", revision |-> r] /\ (t = None \/ t \in past)
        \/ step' = [at |-> "send", revision |-> r, tx |-> t] /\ t \in DOMAIN txs
        \/ step' = [at |-> "confirm", revision |-> r]
    <2>1. CASE InspectRow /\ ~Inspect(step.revision)
      BY <2>1 DEF InspectRow
    <2>2. CASE Expired
      BY <1>5, <1>6, <2>2 DEF Expired
    <2>3. CASE Send
      BY <2>3 DEF Send
    <2> QED
      BY <2>1, <2>2, <2>3
  <1>8. StepSound' /\ step' \in StepRecord
    BY <1>1, <1>3, <1>7, NextStep
  <1>9. Typed'
    BY <1>0, <1>2, <1>4, <1>8 DEF Typed
  <1> QED
    BY <1>2, <1>3, <1>8, <1>9, QuietBooks, QuietCheck DEF IInv

\* A tick that gives up: its row waits.
LEMMA WaitSteps ==
    ASSUME IInv, SendRefused \/ CallFails \/ (Reinspect /\ ~Inspect(step.revision))
    PROVE  IInv'
  <1> DEFINE r == step.revision
  <1>0. Typed /\ faults \in Nat /\ faults <= faults /\ step.at \in Working
    BY PublicationAssumption DEF IInv, Typed, SendRefused, CallFails, Reinspect, Working
  <1>1. r \in DOMAIN rows /\ rows[r] \in RowRecord
    BY <1>0, OwnRow
  <1>2. /\ step' = Idle /\ UNCHANGED <<leaves, overdue, checked, txs, past, chain, final>>
        /\ UNCHANGED faults \/ Fault
    BY DEF SendRefused, CallFails, Reinspect, Confirm, Backoff, network
  <1>3. \/ rows' = [rows EXCEPT ![r] = [rows[r] EXCEPT !.waiting = TRUE]]
        \/ rows' = [rows EXCEPT ![r] = [rows[r] EXCEPT !.waiting = TRUE, !.error = TRUE]]
    BY <1>1 DEF Typed, SendRefused, CallFails, Reinspect, Confirm, Backoff, RowRecord
  <1>4. SameRows /\ rows' \in [DOMAIN rows' -> RowRecord] /\ DOMAIN rows' = DOMAIN rows
    <2>1. CASE rows' = [rows EXCEPT ![r] = [rows[r] EXCEPT !.waiting = TRUE]]
      BY <1>0, <1>1, <2>1, Flags, FlagsOnly
    <2>2. CASE rows' = [rows EXCEPT ![r] = [rows[r] EXCEPT !.waiting = TRUE, !.error = TRUE]]
      BY <1>0, <1>1, <2>2, Flags, FlagsOnly
    <2> QED
      BY <1>3, <2>1, <2>2
  <1>5. faults' \in 0 .. MaxFaults /\ faults <= faults' /\ faults' \in Nat
    BY <1>0, <1>2, FaultFacts DEF Typed
  <1>6. Quiet
    BY <1>2, <1>4, <1>5 DEF Quiet
  <1>7. sent' \subseteq DOMAIN txs
    BY <1>0 DEF Typed, SendRefused, CallFails, Reinspect, network, IInv, StepSound
  <1>8. Typed'
    BY <1>0, <1>2, <1>4, <1>5, <1>7 DEF Typed, StepRecord
  <1> QED
    BY <1>2, <1>6, <1>8, QuietBooks, QuietStep, QuietCheck DEF IInv

-----------------------------------------------------------------------------
(* The steps that change a row's status: it is created, signed for, confirmed. *)

LEMMA ConfirmStep ==
    ASSUME IInv, (InspectRow \/ Reinspect) /\ Inspect(step.revision)
    PROVE  IInv'
  <1> DEFINE r == step.revision
  <1> DEFINE done == [status |-> "confirmed", wire |-> None, waiting |-> FALSE, error |-> FALSE]
  <1>0. Typed /\ step.at \in Working
    BY DEF IInv, InspectRow, Reinspect, Working
  <1>1. r \in DOMAIN rows /\ r \in Nat /\ rows[r] \in RowRecord /\ rows[r].status # "confirmed"
    BY <1>0, OwnRow
  <1>2. /\ rows' = [rows EXCEPT ![r] = done]
        /\ checked' = [revision |-> r, active |-> Active(r), stale |-> FALSE]
        /\ step' = Idle /\ UNCHANGED <<leaves, overdue, txs, sent, past, chain, final, faults>>
    BY DEF InspectRow, Reinspect, Confirm, network
  <1>3. done \in RowRecord /\ done.status = "confirmed" /\ done.wire = None
    BY DEF RowRecord
  <1> HIDE DEF done
  <1>4. /\ DOMAIN rows' = DOMAIN rows /\ rows'[r] = done
        /\ \A q \in DOMAIN rows : q # r => rows'[q] = rows[q]
        /\ rows' \in [DOMAIN rows' -> RowRecord]
    BY <1>0, <1>1, <1>2, <1>3 DEF Typed
  <1>5. r \in Revisions
    BY <1>0, <1>1, PublicationAssumption DEF Typed, Revisions
  <1>6. checked' \in Check /\ checked'.revision = r
    <2>1. Active(r) \in BOOLEAN
      BY DEF Active
    <2> QED
      BY <1>2, <1>5, <2>1 DEF Check
  <1>7. Typed'
    BY <1>0, <1>2, <1>4, <1>6 DEF Typed, StepRecord
  <1>8. Counted' /\ Replaced' /\ LandInOrder'
    BY <1>2 DEF IInv, Books, Counted, Replaced, LandInOrder
  <1>9. WiresSound'
    <2>1. \A t \in DOMAIN txs' \ past' : rows'[txs'[t]].status # "confirmed" => rows'[txs'[t]].wire = t
      <3> SUFFICES ASSUME NEW t \in DOMAIN txs \ past, rows'[txs[t]].status # "confirmed"
                   PROVE  rows'[txs[t]].wire = t
        BY <1>2
      <3>1. txs[t] \in DOMAIN rows /\ txs[t] # r
        BY <1>3, <1>4 DEF IInv, Books, WiresSound
      <3> QED
        BY <1>4, <3>1 DEF IInv, Books, WiresSound
    <2> QED
      BY <1>2, <1>3, <1>4, <2>1 DEF IInv, Books, WiresSound
  <1>10. \A q \in DOMAIN rows : q <= r /\ (rows[q].status # "confirmed" => q = r)
    <2> SUFFICES ASSUME NEW q \in DOMAIN rows PROVE q <= r /\ (rows[q].status # "confirmed" => q = r)
      OBVIOUS
    <2>1. q \in Nat /\ q <= r /\ (rows[q].status # "confirmed" => r <= q)
      BY <1>0, <1>1 DEF IInv, Books, OneOpen, Typed
    <2> QED
      BY <1>1, <2>1
  <1>11. \A q \in DOMAIN rows' : rows'[q].status = "confirmed"
    BY <1>3, <1>4, <1>10
  <1>12. OneOpen'
    BY <1>11 DEF OneOpen
  <1>13. RowsFinal'
    <2>1. FinalFor(r)
      BY DEF Inspect, ToSet, Finalized, FinalFor
    <2>2. \A q \in DOMAIN rows : FinalFor(q)
      BY <1>10, <2>1 DEF IInv, Books, RowsFinal
    <2> QED
      BY <1>2, <1>4, <2>2 DEF RowsFinal, FinalFor
  <1>14. StepSound'
    BY <1>2 DEF StepSound, Idle, Working
  <1>15. CheckOfLatest'
    <2>1. LatestSound' /\ Confirmed' = DOMAIN rows'
      BY <1>7, <1>11, LatestFacts DEF Confirmed
    <2>2. Latest' \in DOMAIN rows /\ r <= Latest'
      BY <1>1, <1>4, <2>1 DEF LatestSound
    <2>3. Latest' = r
      BY <1>0, <1>1, <1>10, <2>2 DEF Typed
    <2> QED
      BY <1>6, <2>3 DEF CheckOfLatest
  <1> QED
    BY <1>7, <1>8, <1>9, <1>12, <1>13, <1>14, <1>15 DEF IInv, Books

LEMMA ChooseStep == ASSUME IInv, NEW force \in BOOLEAN, ChooseRow(force) PROVE IInv'
  <1>0. Typed /\ faults \in Nat /\ faults <= faults
    BY PublicationAssumption DEF IInv, Typed
  <1>1. UNCHANGED <<leaves, overdue, checked, txs, sent, past, chain, final, faults>>
    BY DEF ChooseRow, network
  <1>2. CASE Pending # None
    <2> DEFINE r == Pending
    <2>1. r \in DOMAIN rows /\ rows[r].status # "confirmed"
      BY <1>2, PendingFacts
    <2>2. UNCHANGED rows /\ (step' = Idle \/ step' = [at |-> "inspect", revision |-> r])
      BY <1>2 DEF ChooseRow
    <2>3. Quiet
      BY <1>0, <1>1, <2>2 DEF Quiet, SameRows
    <2>4. rows[r].wire \in Nat \cup {None}
      BY <1>0, <2>1 DEF Typed, RowRecord
    <2> HIDE DEF r
    <2>5. StepSound' /\ step' \in StepRecord
      <3>1. CASE step' = Idle
        BY <2>3, <3>1, QuietStep DEF StepRecord
      <3>2. CASE step' = [at |-> "inspect", revision |-> r]
        BY <2>1, <2>3, <2>4, <3>2, NextStep
      <3> QED
        BY <2>2, <3>1, <3>2
    <2>6. Typed'
      BY <1>0, <1>1, <2>2, <2>5 DEF Typed
    <2> QED
      BY <1>1, <2>3, <2>5, <2>6, QuietBooks, QuietCheck DEF IInv
  <1>3. CASE Pending = None
    <2> DEFINE r == leaves
    <2>1. \A q \in DOMAIN rows : rows[q].status = "confirmed"
      BY <1>3, PendingFacts
    <2>2. LatestSound /\ leaves > Latest
      BY <1>0, <1>3, LatestFacts DEF ChooseRow, Due
    <2>3. \A q \in DOMAIN rows : q < r
      BY <1>0, <2>1, <2>2 DEF LatestSound, Confirmed, Typed
    <2>4. r \in Nat /\ r \in 1 .. leaves /\ r \notin DOMAIN rows
      BY <1>0, <2>2, <2>3 DEF LatestSound, Typed
    <2>5. NewRow \in RowRecord /\ NewRow.status = "pending" /\ NewRow.wire = None
      BY DEF NewRow, RowRecord
    <2>6. rows' = [x \in DOMAIN rows \cup {r} |-> IF x = r THEN NewRow ELSE rows[x]]
      BY <1>3 DEF ChooseRow, BatchRevision
    <2>7. /\ DOMAIN rows' = DOMAIN rows \cup {r} /\ rows'[r] = NewRow
          /\ \A q \in DOMAIN rows : rows'[q] = rows[q]
          /\ rows' \in [DOMAIN rows' -> RowRecord]
      BY <1>0, <2>4, <2>5, <2>6 DEF Typed
    <2>8. step' = Idle \/ step' = [at |-> "inspect", revision |-> r]
      BY <1>3 DEF ChooseRow, BatchRevision
    <2> HIDE DEF r
    <2>9. Typed'
      BY <1>0, <1>1, <2>4, <2>7, <2>8 DEF Typed, StepRecord
    <2>10. Counted' /\ Replaced' /\ LandInOrder'
      BY <1>1 DEF IInv, Books, Counted, Replaced, LandInOrder
    <2>11. WiresSound'
      BY <1>1, <2>5, <2>7 DEF IInv, Books, WiresSound
    <2>12. OneOpen'
      <3> SUFFICES ASSUME NEW p \in DOMAIN rows', NEW q \in DOMAIN rows', rows'[p].status # "confirmed" PROVE q <= p
        BY DEF OneOpen
      <3>1. p = r
        BY <2>1, <2>7
      <3>2. q = r \/ q < r
        BY <2>3, <2>7
      <3> QED
        BY <1>0, <2>4, <2>7, <3>1, <3>2 DEF Typed
    <2>13. RowsFinal'
      BY <1>1, <2>5, <2>7 DEF IInv, Books, RowsFinal, FinalFor
    <2>14. StepSound'
      BY <2>5, <2>7, <2>8 DEF StepSound, Idle, Working
    <2>15. CheckOfLatest'
      <3>1. Confirmed' = Confirmed
        BY <2>1, <2>5, <2>7 DEF Confirmed
      <3>2. Latest' = Max({0} \cup Confirmed')
        BY DEF Latest
      <3>3. Latest' = Latest
        BY <3>1, <3>2 DEF Latest
      <3> QED
        BY <1>1, <3>3 DEF IInv, CheckOfLatest
    <2> QED
      BY <2>9, <2>10, <2>11, <2>12, <2>13, <2>14, <2>15 DEF IInv, Books
  <1> QED
    BY <1>2, <1>3

LEMMA PrepareStep == ASSUME IInv, Prepare PROVE IInv'
  <1> DEFINE r == step.revision
  <1> DEFINE tx == Len(txs) + 1
  <1> DEFINE signed == [rows[r] EXCEPT !.wire = tx, !.status = "submitted"]
  <1>0. Typed /\ step.at \in Working /\ step.at = "prepare"
    BY DEF IInv, Prepare, Working
  <1>1. r \in DOMAIN rows /\ r \in Nat /\ rows[r] \in RowRecord /\ rows[r].status # "confirmed"
    BY <1>0, OwnRow
  <1>2. /\ txs' = Append(txs, r) /\ step' = [at |-> "send", revision |-> r, tx |-> tx]
        /\ UNCHANGED <<leaves, overdue, checked, sent, past, chain, final, faults>>
    BY DEF Prepare
  <1>3. tx \in Nat /\ Len(txs) \in Nat /\ DOMAIN txs = 1 .. Len(txs)
    BY <1>0 DEF Typed
  <1>4. /\ DOMAIN txs' = 1 .. tx /\ tx \in DOMAIN txs' /\ txs'[tx] = r /\ txs' \in Seq(Nat)
        /\ \A t \in DOMAIN txs : txs'[t] = txs[t]
        /\ DOMAIN txs \subseteq DOMAIN txs' /\ \A t \in DOMAIN txs' : t \in DOMAIN txs \/ t = tx
    BY <1>0, <1>1, <1>2, <1>3 DEF Typed
  <1>5. tx \notin DOMAIN txs /\ \A t \in DOMAIN txs : t < tx
    BY <1>3
  <1>6. rows' = [rows EXCEPT ![r] = signed]
    BY <1>0, <1>1 DEF Prepare, Typed, RowRecord
  <1>7. signed \in RowRecord /\ signed.status = "submitted" /\ signed.wire = tx
    BY <1>1, <1>3 DEF RowRecord
  <1> HIDE DEF tx, signed
  <1>8. /\ DOMAIN rows' = DOMAIN rows /\ rows'[r] = signed
        /\ \A q \in DOMAIN rows : q # r => rows'[q] = rows[q]
        /\ rows' \in [DOMAIN rows' -> RowRecord]
    BY <1>0, <1>1, <1>6, <1>7 DEF Typed
  <1>9. Typed'
    <2>1. step' \in StepRecord
      BY <1>1, <1>2, <1>3, StepTyped
    <2>2. chain' \in Seq(DOMAIN txs')
      BY <1>0, <1>2, <1>4 DEF Typed
    <2> QED
      BY <1>0, <1>2, <1>4, <1>8, <2>1, <2>2 DEF Typed
  <1>10. rows[r].wire = None \/ rows[r].wire \in past
    BY <1>0 DEF IInv, StepSound
  <1>11. \A t \in DOMAIN txs : txs[t] = r => t \in past
    BY <1>1, <1>5, <1>10, PublicationAssumption, SMTT(40) DEF IInv, Books, WiresSound, Typed
  <1>12. Counted'
    BY <1>2 DEF IInv, Books, Counted
  <1>13. Replaced'
    <2> SUFFICES ASSUME NEW s \in DOMAIN txs', NEW t \in DOMAIN txs', s < t, txs'[s] = txs'[t]
                 PROVE  s \in past
      BY <1>2 DEF Replaced
    <2>1. s \in DOMAIN txs
      BY <1>3, <1>4
    <2>2. CASE t \in DOMAIN txs
      BY <1>4, <2>1, <2>2 DEF IInv, Books, Replaced
    <2>3. CASE t = tx
      BY <1>4, <1>11, <2>1, <2>3
    <2> QED
      BY <1>4, <2>2, <2>3
  <1>14. WiresSound'
    <2>1. \A t \in DOMAIN txs' : txs'[t] \in DOMAIN rows'
      BY <1>1, <1>4, <1>8 DEF IInv, Books, WiresSound
    <2>2. ASSUME NEW t \in DOMAIN txs' \ past', rows'[txs'[t]].status # "confirmed"
          PROVE  rows'[txs'[t]].wire = t
      <3>1. CASE t = tx
        BY <1>4, <1>7, <1>8, <3>1
      <3>2. CASE t \in DOMAIN txs
        <4>1. txs'[t] = txs[t] /\ txs[t] # r /\ txs[t] \in DOMAIN rows /\ t \notin past
          BY <1>2, <1>4, <1>11, <2>2, <3>2 DEF IInv, Books, WiresSound
        <4> QED
          BY <1>8, <2>2, <3>2, <4>1 DEF IInv, Books, WiresSound
      <3> QED
        BY <1>4, <3>1, <3>2
    <2>3. ASSUME NEW q \in DOMAIN rows', rows'[q].wire # None
          PROVE  rows'[q].wire \in DOMAIN txs' /\ txs'[rows'[q].wire] = q
      <3>1. CASE q = r
        BY <1>3, <1>4, <1>7, <1>8, <3>1
      <3>2. CASE q # r
        <4>1. q \in DOMAIN rows /\ rows'[q] = rows[q]
          BY <1>8, <3>2
        <4>2. rows[q].wire \in DOMAIN txs /\ txs[rows[q].wire] = q
          BY <2>3, <4>1 DEF IInv, Books, WiresSound
        <4> QED
          BY <1>4, <4>1, <4>2
      <3> QED
        BY <3>1, <3>2
    <2> QED
      BY <2>1, <2>2, <2>3 DEF WiresSound
  <1>15. OneOpen'
    BY <1>1, <1>8 DEF IInv, Books, OneOpen
  <1>16. \A i \in DOMAIN chain : chain[i] \in DOMAIN txs /\ txs'[chain[i]] = txs[chain[i]]
    BY <1>0, <1>4 DEF Typed
  <1>17. RowsFinal'
    <2>1. \A i \in 1 .. final : i \in DOMAIN chain
      BY <1>0 DEF Typed
    <2> SUFFICES ASSUME NEW q \in DOMAIN rows, rows'[q].status = "confirmed" PROVE FinalFor(q)'
      BY <1>8 DEF RowsFinal
    <2>2. FinalFor(q)
      BY <1>7, <1>8 DEF IInv, Books, RowsFinal
    <2> QED
      BY <1>2, <1>16, <2>1, <2>2 DEF FinalFor
  <1>18. LandInOrder'
    BY <1>2, <1>16 DEF IInv, Books, LandInOrder
  <1>19. StepSound'
    BY <1>1, <1>2, <1>3, <1>4, <1>7, <1>8 DEF StepSound
  <1>20. CheckOfLatest'
    <2>1. Confirmed' = Confirmed
      BY <1>1, <1>7, <1>8 DEF Confirmed
    <2>2. Latest' = Max({0} \cup Confirmed')
      BY DEF Latest
    <2>3. Latest' = Latest
      BY <2>1, <2>2 DEF Latest
    <2> QED
      BY <1>2, <2>3 DEF IInv, CheckOfLatest
  <1> QED
    BY <1>9, <1>12, <1>13, <1>14, <1>15, <1>17, <1>18, <1>19, <1>20 DEF IInv, Books

-----------------------------------------------------------------------------
(* The steps of the network. *)

\* A transaction that can still land is the open row's, and every other row is
\* of an earlier revision.
LEMMA LiveIsOpen ==
    ASSUME IInv, NEW t \in DOMAIN txs \ past, Accepted(t)
    PROVE  /\ txs[t] \in DOMAIN rows /\ rows[txs[t]].status # "confirmed" /\ rows[txs[t]].wire = t
           /\ \A q \in DOMAIN rows : q <= txs[t] /\ (q # txs[t] => rows[q].status = "confirmed")
  <1>1. txs[t] \in DOMAIN rows
    BY DEF IInv, Books, WiresSound
  <1>2. rows[txs[t]].status # "confirmed"
    <2> SUFFICES ASSUME rows[txs[t]].status = "confirmed" PROVE FALSE
      OBVIOUS
    <2>1. PICK i \in 1 .. final : txs[chain[i]] = txs[t]
      BY <1>1 DEF IInv, Books, RowsFinal, FinalFor
    <2>2. i \in DOMAIN chain
      BY DEF IInv, Typed
    <2> QED
      BY <2>1, <2>2 DEF Accepted
  <1>3. rows[txs[t]].wire = t
    BY <1>2 DEF IInv, Books, WiresSound
  <1>4. ASSUME NEW q \in DOMAIN rows PROVE q <= txs[t] /\ (q # txs[t] => rows[q].status = "confirmed")
    <2>1. q <= txs[t] /\ (rows[q].status # "confirmed" => txs[t] <= q)
      BY <1>1, <1>2 DEF IInv, Books, OneOpen
    <2>2. q \in Nat /\ txs[t] \in Nat
      BY <1>1 DEF IInv, Typed
    <2> QED
      BY <2>1, <2>2
  <1> QED
    BY <1>1, <1>2, <1>3, <1>4

\* What the steps of the network leave alone.
LEMMA NetworkFrame ==
    ASSUME IInv, UNCHANGED <<leaves, overdue, rows, step, checked, txs, sent>>, past \subseteq past',
           past' \subseteq DOMAIN txs, chain' \in Seq(DOMAIN txs), final' \in 0 .. Len(chain'),
           faults' \in 0 .. MaxFaults, Counted', RowsFinal', LandInOrder'
    PROVE  IInv'
  <1>1. Typed'
    BY DEF IInv, Typed
  <1>2. Replaced' /\ WiresSound' /\ OneOpen'
    BY DEF IInv, Books, Replaced, WiresSound, OneOpen
  <1>3. Confirmed' = Confirmed /\ Latest' = Latest
    BY SameLatest
  <1>4. StepSound'
    BY <1>3 DEF IInv, StepSound
  <1>5. CheckOfLatest'
    BY <1>3 DEF IInv, CheckOfLatest
  <1> QED
    BY <1>1, <1>2, <1>4, <1>5 DEF IInv, Books

LEMMA LandStep == ASSUME IInv, NEW t \in DOMAIN txs, Land(t) PROVE IInv'
  <1>0. Typed
    BY DEF IInv
  <1>1. /\ UNCHANGED <<leaves, overdue, rows, step, checked, txs, sent, past, final, faults>>
        /\ chain' = Append(chain, t) /\ t \in DOMAIN txs \ past /\ Accepted(t)
    BY DEF Land, db
  <1>2. /\ chain' \in Seq(DOMAIN txs) /\ Len(chain) \in Nat /\ Len(chain') = Len(chain) + 1
        /\ chain'[Len(chain) + 1] = t
        /\ \A i \in 1 .. Len(chain) : chain'[i] = chain[i] /\ chain[i] \in DOMAIN txs
        /\ DOMAIN chain = 1 .. Len(chain) /\ DOMAIN chain' = 1 .. Len(chain) + 1
    BY <1>0, <1>1, SMTT(40) DEF Typed
  <1>3. final' \in 0 .. Len(chain') /\ 1 .. final \subseteq 1 .. Len(chain)
    BY <1>0, <1>1, <1>2 DEF Typed
  <1>4. Counted' /\ faults' \in 0 .. MaxFaults
    BY <1>1 DEF IInv, Books, Counted, Typed
  <1>5. RowsFinal'
    BY <1>1, <1>2, <1>3 DEF IInv, Books, RowsFinal, FinalFor
  <1>6. \A i \in DOMAIN chain : txs[chain[i]] < txs[t]
    <2> SUFFICES ASSUME NEW i \in DOMAIN chain PROVE txs[chain[i]] < txs[t]
      OBVIOUS
    <2>1. chain[i] \in DOMAIN txs /\ txs[chain[i]] # txs[t]
      BY <1>1, <1>2 DEF Accepted
    <2>2. txs[chain[i]] \in DOMAIN rows /\ txs[chain[i]] \in Nat /\ txs[t] \in Nat
      <3>1. \A u \in DOMAIN txs : txs[u] \in DOMAIN rows
        BY DEF IInv, Books, WiresSound
      <3>2. \A u \in DOMAIN txs : txs[u] \in Nat
        <4>1. txs \in Seq(Nat)
          BY <1>0, Zenon DEF Typed
        <4> QED
          BY <4>1
      <3> QED
        BY <2>1, <3>1, <3>2
    <2>3. txs[chain[i]] <= txs[t]
      BY <1>1, <2>2, LiveIsOpen
    <2> QED
      BY <2>1, <2>2, <2>3
  <1>7. LandInOrder'
    <2> SUFFICES ASSUME NEW i \in DOMAIN chain', NEW j \in DOMAIN chain', i < j
                 PROVE  txs[chain'[i]] < txs[chain'[j]]
      BY <1>1 DEF LandInOrder
    <2>1. i \in DOMAIN chain /\ chain'[i] = chain[i]
      BY <1>2
    <2>2. CASE j = Len(chain) + 1
      BY <1>2, <1>6, <2>1, <2>2
    <2>3. CASE j \in DOMAIN chain
      BY <1>2, <2>1, <2>3 DEF IInv, Books, LandInOrder
    <2> QED
      BY <1>2, <2>2, <2>3
  <1> QED
    BY <1>0, <1>1, <1>2, <1>3, <1>4, <1>5, <1>7, NetworkFrame DEF Typed

LEMMA ClusterSteps ==
    ASSUME IInv, Finalize \/ Fork \/ \E t \in DOMAIN txs : Lapse(t)
    PROVE  IInv'
  <1>0. Typed /\ Len(chain) \in Nat /\ DOMAIN chain = 1 .. Len(chain)
    BY DEF IInv, Typed
  <1>1. CASE Finalize
    <2>1. /\ UNCHANGED <<leaves, overdue, rows, step, checked, txs, sent, past, chain, faults>>
          /\ final' = Len(chain) /\ final < Len(chain)
      BY <1>1 DEF Finalize, db
    <2>2. 1 .. final \subseteq 1 .. final'
      BY <1>0, <2>1 DEF Typed
    <2>3. RowsFinal' /\ Counted' /\ LandInOrder'
      BY <2>1, <2>2 DEF IInv, Books, RowsFinal, FinalFor, Counted, LandInOrder
    <2> QED
      BY <1>0, <2>1, <2>3, NetworkFrame DEF Typed
  <1>2. CASE Fork
    <2>1. /\ UNCHANGED <<leaves, overdue, rows, step, checked, txs, sent, past, final>>
          /\ chain' = SubSeq(chain, 1, final) /\ final < Len(chain) /\ Fault
      BY <1>2 DEF Fork, db
    <2>2. /\ final \in Nat /\ chain' \in Seq(DOMAIN txs) /\ Len(chain') = final /\ DOMAIN chain' = 1 .. final
          /\ \A i \in 1 .. final : chain'[i] = chain[i] /\ i \in DOMAIN chain
      <3>1. final \in Nat /\ final <= Len(chain) /\ \A i \in 1 .. final : i \in DOMAIN chain
        BY <1>0 DEF Typed
      <3>2. chain \in Seq(DOMAIN txs)
        BY <1>0 DEF Typed
      <3>3. chain' \in Seq(DOMAIN txs)
        BY <2>1, <3>1, <3>2
      <3>4. Len(chain') = final /\ \A i \in 1 .. final : chain'[i] = chain[i]
        BY <2>1, <3>1, <3>2
      <3> QED
        BY <3>1, <3>3, <3>4
    <2>3. faults' \in 0 .. MaxFaults /\ faults <= faults' /\ faults' \in Nat
      BY <1>0, <2>1, FaultFacts
    <2>4. Counted'
      <3>1. Cardinality(past) \in Nat /\ faults \in Nat
        BY <1>0, FS_CardinalityType, PublicationAssumption DEF IInv, Books, Counted, Typed
      <3> QED
        BY <2>1, <2>3, <3>1 DEF IInv, Books, Counted
    <2>5. RowsFinal' /\ LandInOrder'
      BY <2>1, <2>2 DEF IInv, Books, RowsFinal, FinalFor, LandInOrder
    <2> QED
      BY <1>0, <2>1, <2>2, <2>3, <2>4, <2>5, NetworkFrame, SMTT(40) DEF Typed
  <1>3. ASSUME NEW t \in DOMAIN txs, Lapse(t) PROVE IInv'
    <2>1. /\ UNCHANGED <<leaves, overdue, rows, step, checked, txs, sent, chain, final>>
          /\ past' = past \cup {t} /\ Fault /\ faults' = faults + 1
      BY <1>3 DEF Lapse, db, Fault
    <2>2. faults' \in 0 .. MaxFaults
      BY <1>0, <2>1, FaultFacts
    <2>3. Counted'
      <3>1. Cardinality(past) \in Nat /\ faults \in Nat /\ IsFiniteSet(past) /\ Cardinality(past) <= faults
        BY <1>0, FS_CardinalityType, PublicationAssumption DEF IInv, Books, Counted, Typed
      <3>2. IsFiniteSet(past') /\ (Cardinality(past') = Cardinality(past) \/ Cardinality(past') = Cardinality(past) + 1)
        BY <2>1, <3>1, FS_AddElement
      <3> QED
        BY <2>1, <3>1, <3>2 DEF Counted
    <2>4. RowsFinal' /\ LandInOrder'
      BY <2>1 DEF IInv, Books, RowsFinal, FinalFor, LandInOrder
    <2> QED
      BY <1>0, <2>1, <2>2, <2>3, <2>4, NetworkFrame DEF Typed
  <1> QED
    BY <1>1, <1>2, <1>3

-----------------------------------------------------------------------------
(* The theorems. *)

LEMMA NextIInv == ASSUME IInv, [Next]_vars PROVE IInv'
  <1>1. CASE UNCHANGED vars
    <2>1. UNCHANGED <<leaves, overdue, rows, step, checked, txs, sent, past, chain, final, faults>>
      BY <1>1 DEF vars, db, network
    <2>2. Counted' /\ RowsFinal' /\ LandInOrder'
      BY <2>1 DEF IInv, Books, Counted, RowsFinal, FinalFor, LandInOrder
    <2> QED
      BY <2>1, <2>2, NetworkFrame DEF IInv, Typed
  <1>2. CASE InspectRow \/ Reinspect
    BY <1>2, ConfirmStep, RowSteps, WaitSteps, Zenon
  <1>3. CASE Tick \/ Recheck \/ (\E force \in BOOLEAN : NothingDue(force)) \/ Restart
    BY <1>3, TickSteps, Zenon
  <1>4. CASE \E force \in BOOLEAN : ChooseRow(force)
    BY <1>4, ChooseStep, Zenon
  <1>5. CASE Expired \/ Send \/ SendRefused \/ CallFails \/ Prepare
    BY <1>5, RowSteps, WaitSteps, PrepareStep, Zenon
  <1>6. CASE EnrollLeaf \/ DelayPasses \/ RetryPasses \/ CheckPasses
    BY <1>6, TimeSteps, Zenon
  <1>7. CASE Network \/ Fork \/ \E t \in DOMAIN txs : Lapse(t)
    BY <1>7, LandStep, ClusterSteps, Zenon DEF Network
  <1> QED
    BY <1>1, <1>2, <1>3, <1>4, <1>5, <1>6, <1>7, Zenon DEF Next, Publish

LEMMA AlwaysIInv == Spec => []IInv
  BY InitIInv, NextIInv, PTL DEF Spec

LEMMA UpTo == ASSUME NEW n \in Nat PROVE IsFiniteSet(1 .. n) /\ Cardinality(1 .. n) = n
  <1>1. 1 \in Int /\ n \in Int
    OBVIOUS
  <1>2. IsFiniteSet(1 .. n) /\ Cardinality(1 .. n) = IF 1 > n THEN 0 ELSE n - 1 + 1
    BY <1>1, FS_Interval, Zenon
  <1> QED
    BY <1>2

\* No more transactions are signed than there are revisions and lapsed
\* transactions: of two for one revision the first has lapsed.
LEMMA FewTransactions == IInv => Len(txs) <= MaxLeaves + MaxFaults
  <1> SUFFICES ASSUME IInv PROVE Len(txs) <= MaxLeaves + MaxFaults
    OBVIOUS
  <1> DEFINE live == DOMAIN txs \ past
  <1> DEFINE f == [t \in live |-> txs[t]]
  <1>1. Typed /\ Len(txs) \in Nat /\ DOMAIN txs = 1 .. Len(txs) /\ faults \in Nat /\ MaxLeaves \in Nat /\ MaxFaults \in Nat /\ faults <= MaxFaults
    BY PublicationAssumption DEF IInv, Typed
  <1>2. IsFiniteSet(DOMAIN txs) /\ Cardinality(DOMAIN txs) = Len(txs)
    BY <1>1, UpTo
  <1>3. IsFiniteSet(Revisions) /\ Cardinality(Revisions) = MaxLeaves
    BY <1>1, UpTo DEF Revisions
  <1>4. f \in Injection(live, Revisions)
    <2>1. ASSUME NEW t \in live PROVE txs[t] \in Revisions
      BY <1>1 DEF IInv, Books, WiresSound, Typed, Revisions
    <2>2. ASSUME NEW s \in live, NEW t \in live, txs[s] = txs[t] PROVE s = t
      <3>1. ~(s < t) /\ ~(t < s)
        BY <2>2 DEF IInv, Books, Replaced
      <3> QED
        BY <1>1, <3>1
    <2> QED
      BY <2>1, <2>2 DEF Injection, IsInjective
  <1>5. IsFiniteSet(live) /\ Cardinality(live) <= MaxLeaves /\ Cardinality(live) \in Nat
    BY <1>3, <1>4, FS_Injection, FS_CardinalityType
  <1>6. IsFiniteSet(past) /\ Cardinality(past) <= faults /\ Cardinality(past) \in Nat
    BY FS_CardinalityType DEF IInv, Books, Counted
  <1>7. live \cup past = DOMAIN txs /\ live \cap past = {}
    BY <1>1 DEF Typed
  <1>8. Cardinality(live \cup past) = Cardinality(live) + Cardinality(past) - Cardinality(live \cap past)
    BY <1>5, <1>6, FS_Union
  <1>9. Cardinality(live \cap past) = 0
    BY <1>7, FS_EmptySet
  <1>10. Len(txs) = Cardinality(live) + Cardinality(past) - 0
    BY <1>2, <1>7, <1>8, <1>9, Zenon
  <1> HIDE DEF live
  <1> QED
    BY <1>1, <1>5, <1>6, <1>10

LEMMA IInvSound == IInv => PublicationSound
  <1> SUFFICES ASSUME IInv PROVE PublicationSound
    OBVIOUS
  <1>0. Typed /\ Len(txs) <= MaxLeaves + MaxFaults
    BY FewTransactions DEF IInv
  <1>1. TypeOK
    <2>1. ASSUME NEW r \in DOMAIN rows PROVE rows[r] \in Row
      <3>1. rows[r] \in RowRecord /\ (rows[r].wire # None => rows[r].wire \in DOMAIN txs)
        BY <1>0 DEF Typed, IInv, Books, WiresSound
      <3>2. DOMAIN txs \subseteq Txs
        BY <1>0, PublicationAssumption, SMTT(40) DEF Typed, Txs
      <3> QED
        BY <3>1, <3>2 DEF RowRecord, Row
    <2>2. txs \in Seq(Revisions)
      <3>1. \A t \in DOMAIN txs : txs[t] \in Revisions
        BY <1>0, PublicationAssumption DEF Typed, IInv, Books, WiresSound, Revisions
      <3> QED
        BY <1>0, <3>1 DEF Typed
    <2>3. step.at \in {"idle", "recheck", "row", "inspect", "expired", "prepare", "send", "confirm"}
      BY <1>0 DEF Typed, StepRecord, Idle
    <2>4. leaves \in 0 .. MaxLeaves
      BY <1>0, PublicationAssumption DEF Typed
    <2> QED
      BY <1>0, <2>1, <2>2, <2>3, <2>4 DEF TypeOK, Typed, Check
  <1>2. OneLiveTransaction
    <2> SUFFICES ASSUME NEW t \in sent \ past, Accepted(t)
                 PROVE  \E r \in Open : rows[r].wire = t /\ Open = {r} /\ \A c \in Confirmed : c < r
      BY DEF OneLiveTransaction
    <2> DEFINE r == txs[t]
    <2>1. t \in DOMAIN txs \ past
      BY <1>0 DEF Typed
    <2>2. /\ r \in DOMAIN rows /\ rows[r].status # "confirmed" /\ rows[r].wire = t
          /\ \A q \in DOMAIN rows : q <= r /\ (q # r => rows[q].status = "confirmed")
      BY <2>1, LiveIsOpen
    <2> HIDE DEF r
    <2>3. r \in Open /\ Open = {r}
      BY <2>2 DEF Open, Confirmed
    <2>4. \A c \in Confirmed : c < r
      <3> SUFFICES ASSUME NEW c \in Confirmed PROVE c < r
        OBVIOUS
      <3>1. c \in DOMAIN rows /\ c # r /\ c <= r
        BY <2>2 DEF Confirmed
      <3>2. c \in Nat /\ r \in Nat
        BY <1>0, <2>2, <3>1 DEF Typed
      <3> QED
        BY <3>1, <3>2
    <2> QED
      BY <2>2, <2>3, <2>4
  <1>3. ConfirmedFinal
    BY DEF IInv, Books, RowsFinal, FinalFor, ConfirmedFinal, Confirmed, ToSet, Finalized
  <1> QED
    BY <1>1, <1>2, <1>3 DEF PublicationSound, IInv, Books

\* Roots reach the chain one at a time and in the order of their revisions, a
\* row is confirmed only when its root is finalized, and the check that is
\* reported is of the latest confirmed revision: whatever calls fail, whatever
\* lapses or forks and wherever the service restarts.
THEOREM RootsPublishedInOrder == Spec => []PublicationSound
  BY AlwaysIInv, IInvSound, PTL

-----------------------------------------------------------------------------
(* Gate 2: the duplicate submission. *)

GatePoints == {"off", "snapshot", "sign", "inspect", "height", "send", "poll", "after", "row", "report"}
GateCommand == [at: GatePoints, action: {"check", "status", "replay", "report", None}, hash: Hashes \cup {None}, current: Nat]

\* From signing on the command works on the journal's observation.
Recovering == {"inspect", "height", "send", "poll", "after", "row"}

GateTyped ==
    /\ gJournal \in Gate2!Duplicate \cup {None} /\ gProc \in GateCommand /\ gBooks \in [Hashes -> Nat]
    /\ gProc.at # "off" => gProc.hash \in Hashes
    /\ gFate \in {"unsigned", "signed", "sent", "lapsed"} \cup Gate2!Outcomes

\* What the running command may rely on.
CommandSound ==
    /\ gProc.at = "sign" => gJournal = None /\ gProc.current <= gBooks[gProc.hash]
    /\ gProc.at \in Recovering => gJournal # None /\ gJournal.hash = gProc.hash
    /\ gProc.at = "after" => gFate = "nullifier"
    /\ gProc.at = "row" => gJournal.state = "rejected"

\* The accounting only counts up: between the two snapshots lies what it was
\* when the duplicate was executed.
BooksRise ==
    /\ gFate = "unsigned" <=> gJournal = None
    /\ gJournal # None => gJournal.before <= gBooks[gJournal.hash]
    /\ gFate \in Gate2!Outcomes => gLanded \in Nat /\ gJournal.before <= gLanded /\ gLanded <= gBooks[gJournal.hash]

GateInv == GateTyped /\ CommandSound /\ BooksRise /\ Gate2!RejectionReal

LEMMA GateConstants == None \notin Hashes /\ None \notin Gate2!Duplicate /\ MaxChanges \in Nat
  BY OperatorAssumption DEF Gate2!Gate2Constants

\* A step that leaves the journal, the cluster and what is on record alone.
LEMMA CommandMoves ==
    ASSUME GateInv, UNCHANGED <<gJournal, gRows, gEvidence, gFate, gBooks, gLanded>>, gProc' \in GateCommand,
           gProc'.at # "off" => gProc'.hash \in Hashes,
           gProc'.at = "sign" => gJournal = None /\ gProc'.current <= gBooks[gProc'.hash],
           gProc'.at \in Recovering => gJournal # None /\ gJournal.hash = gProc'.hash,
           gProc'.at = "after" => gFate = "nullifier",
           gProc'.at = "row" => gJournal.state = "rejected"
    PROVE  GateInv'
  <1>1. GateTyped'
    BY DEF GateInv, GateTyped
  <1>2. CommandSound'
    BY DEF CommandSound
  <1>3. BooksRise'
    BY DEF GateInv, BooksRise
  <1>4. (Gate2!RejectionReal)'
    BY DEF GateInv, Gate2!RejectionReal
  <1> QED
    BY <1>1, <1>2, <1>3, <1>4 DEF GateInv

LEMMA OffCommand == Gate2!Off \in GateCommand /\ Gate2!Off.at = "off" /\ "off" \notin Recovering
  BY DEF Gate2!Off, GateCommand, GatePoints, Recovering

\* The command ends, by itself, by an error or by its death.
LEMMA CommandEnds ==
    ASSUME GateInv, gProc' = Gate2!Off, UNCHANGED <<gJournal, gRows, gEvidence, gFate, gBooks, gLanded>>
    PROVE  GateInv'
  BY OffCommand, CommandMoves

\* The next point of a command, over the same journal.
LEMMA GoFacts ==
    ASSUME GateInv, NEW p \in GatePoints
    PROVE  /\ [gProc EXCEPT !.at = p] \in GateCommand /\ [gProc EXCEPT !.at = p].at = p
           /\ [gProc EXCEPT !.at = p].hash = gProc.hash /\ [gProc EXCEPT !.at = p].current = gProc.current
  BY DEF GateInv, GateTyped, GateCommand

LEMMA SnapshotKeeps == ASSUME GateInv, Gate2!Snapshot PROVE GateInv'
  <1>1. UNCHANGED <<gJournal, gRows, gEvidence, gFate, gBooks, gLanded>> /\ gProc.at = "snapshot"
    BY DEF Gate2!Snapshot, Gate2!cluster, Gate2!At
  <1>2. gProc.hash \in Hashes /\ gBooks[gProc.hash] \in Nat
    BY <1>1 DEF GateInv, GateTyped
  <1>3. CASE gProc' = Gate2!Off
    BY <1>1, <1>3, CommandEnds
  <1>4. ASSUME NEW p \in {"report", "sign", "inspect"}, gProc' = [gProc EXCEPT !.at = p, !.current = gBooks[gProc.hash]],
               p = "sign" => gJournal = None, p = "inspect" => gJournal # None /\ gJournal.hash = gProc.hash
        PROVE  GateInv'
    <2>1. gProc' \in GateCommand /\ gProc'.at = p /\ gProc'.hash = gProc.hash /\ gProc'.current = gBooks[gProc.hash]
      BY <1>2, <1>4 DEF GateInv, GateTyped, GateCommand, GatePoints
    <2>2. gProc'.at = "sign" => gProc'.current <= gBooks[gProc'.hash]
      BY <1>2, <2>1
    <2>3. gProc'.at \in Recovering => gProc'.at = "inspect"
      BY <2>1 DEF Recovering
    <2> QED
      BY <1>1, <1>2, <1>4, <2>1, <2>2, <2>3, CommandMoves
  <1>5. gProc' = Gate2!Off \/ \E p \in {"report", "sign", "inspect"} :
            /\ gProc' = [gProc EXCEPT !.at = p, !.current = gBooks[gProc.hash]]
            /\ p = "sign" => gJournal = None
            /\ p = "inspect" => gJournal # None /\ gJournal.hash = gProc.hash
    <2> DEFINE next == CASE gProc.action = "report" -> "report"
                         [] gProc.action = "replay" /\ gJournal = None -> "sign"
                         [] gProc.action = "replay" /\ Gate2!Matches -> "inspect"
                         [] OTHER -> "done"
    <2>1. next = "done" \/ (next \in {"report", "sign", "inspect"} /\ (next = "sign" => gJournal = None)
                            /\ (next = "inspect" => gJournal # None /\ gJournal.hash = gProc.hash))
      BY DEF Gate2!Matches
    <2>2. \/ next # "done" /\ gProc' = [gProc EXCEPT !.at = next, !.current = gBooks[gProc.hash]]
          \/ gProc' = Gate2!Off
      BY DEF Gate2!Snapshot, Gate2!Quit
    <2> HIDE DEF next
    <2> QED
      BY <2>1, <2>2
  <1> QED
    BY <1>3, <1>4, <1>5

LEMMA SignDuplicateKeeps == ASSUME GateInv, Gate2!Sign PROVE GateInv'
  <1> DEFINE new == [hash |-> gProc.hash, before |-> gProc.current, after |-> None, state |-> "prepared"]
  <1>1. /\ gProc.at = "sign" /\ gJournal' = new /\ gFate' = "signed" /\ gProc' = [gProc EXCEPT !.at = "inspect"]
        /\ UNCHANGED <<gRows, gEvidence, gBooks, gLanded>>
    BY DEF Gate2!Sign, Gate2!At, Gate2!Save, Gate2!Go
  <1>2. /\ gProc.hash \in Hashes /\ gProc.current \in Nat /\ gJournal = None /\ gProc.current <= gBooks[gProc.hash]
        /\ gFate = "unsigned"
    BY <1>1 DEF GateInv, GateTyped, GateCommand, CommandSound, BooksRise
  <1>3. /\ new \in Gate2!Duplicate /\ new.hash = gProc.hash /\ new.before = gProc.current /\ new.state = "prepared"
    BY <1>2 DEF Gate2!Duplicate
  <1> HIDE DEF new
  <1>4. new # None
    BY <1>3, GateConstants
  <1>5. "inspect" \in GatePoints
    BY DEF GatePoints
  <1>6. gProc' \in GateCommand /\ gProc'.at = "inspect" /\ gProc'.hash = gProc.hash
    BY <1>1, <1>5, GoFacts
  <1>7. GateTyped'
    BY <1>1, <1>2, <1>3, <1>6 DEF GateInv, GateTyped
  <1>8. CommandSound'
    BY <1>1, <1>3, <1>4, <1>6 DEF CommandSound
  <1>9. BooksRise'
    BY <1>1, <1>2, <1>3, <1>4 DEF BooksRise, Gate2!Outcomes
  <1>10. gRows = {} /\ gEvidence = None
    BY <1>2 DEF GateInv, Gate2!RejectionReal
  <1>11. (Gate2!RejectionReal)'
    BY <1>1, <1>3, <1>10 DEF Gate2!RejectionReal
  <1> QED
    BY <1>7, <1>8, <1>9, <1>11 DEF GateInv

\* A saved record keeps the observation and the first snapshot.
LEMMA JournalMoves ==
    ASSUME GateInv, NEW p \in GatePoints, gJournal # None, gProc.hash = gJournal.hash, gProc.at # "off",
           gProc' = [gProc EXCEPT !.at = p], UNCHANGED <<gRows, gEvidence, gFate, gBooks, gLanded>>,
           gJournal' \in Gate2!Duplicate, gJournal'.hash = gJournal.hash, gJournal'.before = gJournal.before,
           p # "sign", p = "after" => gFate = "nullifier", p = "row" => gJournal'.state = "rejected",
           gJournal'.state = "rejected" => gFate = "nullifier" /\ gLanded = gJournal.before
    PROVE  GateInv'
  <1>1. gProc' \in GateCommand /\ gProc'.at = p /\ gProc'.hash = gProc.hash
    BY GoFacts
  <1>2. gJournal' # None
    BY GateConstants
  <1>3. GateTyped'
    BY <1>1 DEF GateInv, GateTyped
  <1>4. CommandSound'
    BY <1>1, <1>2 DEF CommandSound
  <1>5. BooksRise'
    BY <1>2 DEF GateInv, BooksRise
  <1>6. (Gate2!RejectionReal)'
    BY <1>2 DEF GateInv, Gate2!RejectionReal
  <1> QED
    BY <1>3, <1>4, <1>5, <1>6 DEF GateInv

LEMMA RecoveryKeeps == ASSUME GateInv, Gate2!Inspect \/ Gate2!Submit \/ Gate2!Poll PROVE GateInv'
  <1>1. UNCHANGED <<gRows, gEvidence, gFate, gBooks, gLanded>> /\ gProc.at \in {"inspect", "height", "poll"}
    BY DEF Gate2!Inspect, Gate2!Submit, Gate2!Poll, Gate2!cluster, Gate2!At
  <1>2. gJournal # None /\ gProc.hash = gJournal.hash /\ gProc.at # "off" /\ gProc.hash \in Hashes
    BY <1>1 DEF GateInv, GateTyped, CommandSound, Recovering
  <1>3. CASE gProc' = Gate2!Off /\ UNCHANGED gJournal
    BY <1>1, <1>3, CommandEnds
  <1>4. ASSUME NEW p \in {"height", "poll", "after"}, gProc' = [gProc EXCEPT !.at = p], UNCHANGED gJournal, p = "after" => gFate = "nullifier"
        PROVE  GateInv'
    <2>1. p \in GatePoints /\ p # "sign" /\ p # "row"
      BY DEF GatePoints
    <2>2. gProc' \in GateCommand /\ gProc'.at = p /\ gProc'.hash = gProc.hash
      BY <1>4, <2>1, GoFacts
    <2> QED
      BY <1>1, <1>2, <1>4, <2>1, <2>2, CommandMoves
  <1>5. CASE gProc' = [gProc EXCEPT !.at = "send"] /\ gJournal' = [gJournal EXCEPT !.state = "submitted"]
    <2>1. gJournal \in Gate2!Duplicate
      BY <1>2 DEF GateInv, GateTyped
    <2>2. gJournal' \in Gate2!Duplicate /\ gJournal'.hash = gJournal.hash /\ gJournal'.before = gJournal.before
          /\ gJournal'.state = "submitted"
      BY <1>5, <2>1 DEF Gate2!Duplicate
    <2>3. "send" \in GatePoints /\ "send" # "sign" /\ "send" # "after" /\ "send" # "row"
      BY DEF GatePoints
    <2> QED
      BY <1>1, <1>2, <1>5, <2>2, <2>3, JournalMoves
  <1>6. CASE Gate2!Inspect
    <2>1. UNCHANGED gJournal /\ (gProc' = [gProc EXCEPT !.at = "height"] \/ gProc' = [gProc EXCEPT !.at = "poll"])
      BY <1>6 DEF Gate2!Inspect, Gate2!Go
    <2> QED
      BY <1>4, <2>1
  <1>7. CASE Gate2!Submit
    BY <1>3, <1>5, <1>7 DEF Gate2!Submit, Gate2!Go, Gate2!Save, Gate2!Quit
  <1>8. CASE Gate2!Poll
    <2>1. PICK status \in Gate2!Statuses : IF Gate2!Settled(status) /\ status.err = "nullifier" THEN Gate2!Go("after") ELSE Gate2!Quit
      BY <1>8 DEF Gate2!Poll
    <2>2. UNCHANGED gJournal
      BY <1>8 DEF Gate2!Poll
    <2>3. Gate2!Settled(status) /\ status.err = "nullifier" => gFate = "nullifier"
      BY DEF Gate2!Statuses, Gate2!Settled
    <2> QED
      BY <1>3, <1>4, <2>1, <2>2, <2>3 DEF Gate2!Go, Gate2!Quit
  <1> QED
    BY <1>6, <1>7, <1>8

LEMMA SendDuplicateKeeps == ASSUME GateInv, Gate2!Send PROVE GateInv'
  <1>1. /\ gProc.at = "send" /\ gProc' = [gProc EXCEPT !.at = "poll"] /\ UNCHANGED <<gJournal, gRows, gEvidence, gBooks, gLanded>>
        /\ gFate' = IF gFate = "signed" THEN "sent" ELSE gFate
    BY DEF Gate2!Send, Gate2!At, Gate2!Go
  <1>2. gJournal # None /\ gJournal.hash = gProc.hash /\ gFate # "unsigned" /\ gProc.hash \in Hashes
    BY <1>1 DEF GateInv, GateTyped, CommandSound, BooksRise, Recovering
  <1>3. "poll" \in GatePoints
    BY DEF GatePoints
  <1>4. gProc' \in GateCommand /\ gProc'.at = "poll" /\ gProc'.hash = gProc.hash
    BY <1>1, <1>3, GoFacts
  <1>5. GateTyped'
    BY <1>1, <1>2, <1>4 DEF GateInv, GateTyped
  <1>6. CommandSound'
    BY <1>1, <1>2, <1>4 DEF CommandSound
  <1>7. BooksRise'
    BY <1>1, <1>2 DEF GateInv, BooksRise, Gate2!Outcomes
  <1>8. (Gate2!RejectionReal)'
    BY <1>1 DEF GateInv, Gate2!RejectionReal
  <1> QED
    BY <1>5, <1>6, <1>7, <1>8 DEF GateInv

\* The second snapshot equals the first, so nothing changed in between, and
\* nothing changed when the duplicate was executed.
LEMMA CompareKeeps == ASSUME GateInv, Gate2!Compare PROVE GateInv'
  <1>1. gProc.at = "after" /\ UNCHANGED <<gRows, gEvidence, gFate, gBooks, gLanded>>
    BY DEF Gate2!Compare, Gate2!At, Gate2!cluster
  <1>2. gJournal # None /\ gJournal.hash = gProc.hash /\ gFate = "nullifier" /\ gProc.hash \in Hashes /\ gJournal \in Gate2!Duplicate
    BY <1>1 DEF GateInv, GateTyped, CommandSound, Recovering
  <1>3. CASE gProc' = Gate2!Off /\ UNCHANGED gJournal
    BY <1>1, <1>3, CommandEnds
  <1>4. CASE /\ gBooks[gProc.hash] = gJournal.before /\ gProc' = [gProc EXCEPT !.at = "row"]
             /\ gJournal' = [gJournal EXCEPT !.after = gBooks[gProc.hash], !.state = "rejected"]
    <2>1. /\ gBooks[gProc.hash] \in Nat /\ gJournal.before \in Nat
          /\ gLanded \in Nat /\ gJournal.before <= gLanded /\ gLanded <= gBooks[gJournal.hash]
      BY <1>2 DEF GateInv, GateTyped, BooksRise, Gate2!Outcomes, Gate2!Duplicate
    <2>2. gLanded = gJournal.before
      BY <1>2, <1>4, <2>1
    <2>3. gJournal' \in Gate2!Duplicate /\ gJournal'.hash = gJournal.hash /\ gJournal'.before = gJournal.before
          /\ gJournal'.state = "rejected"
      BY <1>2, <1>4, <2>1 DEF Gate2!Duplicate
    <2>4. "row" \in GatePoints /\ "row" # "sign" /\ "row" # "after" /\ gProc.at # "off"
      BY <1>1 DEF GatePoints
    <2> QED
      BY <1>1, <1>2, <1>4, <2>2, <2>3, <2>4, JournalMoves
  <1> QED
    BY <1>3, <1>4 DEF Gate2!Compare, Gate2!Save, Gate2!Go, Gate2!Quit

LEMMA RecordKeeps == ASSUME GateInv, Gate2!InsertRow \/ Gate2!Report PROVE GateInv'
  <1>1. UNCHANGED <<gJournal, gFate, gBooks, gLanded>> /\ gProc' = Gate2!Off
    BY DEF Gate2!InsertRow, Gate2!Report, Gate2!Quit, Gate2!cluster
  <1>2. GateTyped'
    BY <1>1, OffCommand DEF GateInv, GateTyped
  <1>3. CommandSound' /\ BooksRise'
    BY <1>1, OffCommand DEF GateInv, CommandSound, BooksRise
  <1>4. CASE Gate2!InsertRow
    <2>1. gProc.at = "row" /\ gRows' = gRows \cup {gProc.hash} /\ UNCHANGED gEvidence
      BY <1>4 DEF Gate2!InsertRow, Gate2!At
    <2>2. gJournal # None /\ gJournal.hash = gProc.hash /\ gJournal.state = "rejected"
      BY <2>1 DEF GateInv, CommandSound, Recovering
    <2>3. (Gate2!RejectionReal)'
      BY <1>1, <2>1, <2>2 DEF GateInv, Gate2!RejectionReal
    <2> QED
      BY <1>2, <1>3, <2>3 DEF GateInv
  <1>5. CASE Gate2!Report
    <2>1. /\ UNCHANGED gRows
          /\ \/ UNCHANGED gEvidence
             \/ /\ gJournal # None /\ gJournal.state = "rejected"
                /\ gEvidence' = [observation |-> gProc.hash, duplicate |-> gJournal.hash]
      BY <1>5 DEF Gate2!Report
    <2>2. (Gate2!RejectionReal)'
      BY <1>1, <2>1 DEF GateInv, Gate2!RejectionReal
    <2> QED
      BY <1>2, <1>3, <2>2 DEF GateInv
  <1> QED
    BY <1>4, <1>5

\* The duplicate lands, lapses, or others change the accounting.
LEMMA BooksKeep ==
    ASSUME GateInv, UNCHANGED <<gJournal, gRows, gEvidence, gProc>>, gBooks' \in [Hashes -> Nat],
           \A h \in Hashes : gBooks[h] <= gBooks'[h],
           gFate' \in {"lapsed"} \cup Gate2!Outcomes \cup {gFate}, gFate' # gFate => gFate \in {"signed", "sent"},
           gFate' # gFate /\ gFate' \in Gate2!Outcomes => gLanded' = gBooks'[gJournal.hash],
           ~(gFate' # gFate /\ gFate' \in Gate2!Outcomes) => UNCHANGED gLanded
    PROVE  GateInv'
  <1>1. GateTyped'
    BY DEF GateInv, GateTyped
  <1>2. \A h \in Hashes : gBooks[h] \in Nat /\ gBooks'[h] \in Nat
    BY DEF GateInv, GateTyped
  <1>3. CommandSound'
    <2>1. gProc.at = "sign" => gProc.current <= gBooks'[gProc.hash]
      <3> SUFFICES ASSUME gProc.at = "sign" PROVE gProc.current <= gBooks'[gProc.hash]
        OBVIOUS
      <3>1. gProc.hash \in Hashes /\ gProc.current \in Nat /\ gProc.current <= gBooks[gProc.hash]
        BY DEF GateInv, GateTyped, CommandSound, GateCommand
      <3> QED
        BY <1>2, <3>1
    <2>2. gProc.at = "after" => gFate' = "nullifier"
      BY DEF GateInv, CommandSound
    <2> QED
      BY <2>1, <2>2 DEF GateInv, CommandSound
  <1>4. gJournal # None => gJournal.hash \in Hashes /\ gJournal.before \in Nat
    BY DEF GateInv, GateTyped, Gate2!Duplicate
  <1>5. BooksRise'
    <2>1. gFate' = "unsigned" <=> gJournal = None
      BY DEF GateInv, BooksRise, Gate2!Outcomes
    <2>2. gJournal # None => gJournal.before <= gBooks'[gJournal.hash]
      BY <1>2, <1>4 DEF GateInv, BooksRise
    <2>3. ASSUME gFate' \in Gate2!Outcomes
          PROVE  gLanded' \in Nat /\ gJournal.before <= gLanded' /\ gLanded' <= gBooks'[gJournal.hash]
      <3>1. gJournal # None
        BY <2>1, <2>3 DEF Gate2!Outcomes
      <3>2. CASE gFate' # gFate
        BY <1>2, <1>4, <2>2, <2>3, <3>1, <3>2
      <3>3. CASE gFate' = gFate
        BY <1>2, <1>4, <2>3, <3>1, <3>3 DEF GateInv, BooksRise
      <3> QED
        BY <3>2, <3>3
    <2> QED
      BY <2>1, <2>2, <2>3 DEF BooksRise
  <1>6. (Gate2!RejectionReal)'
    BY DEF GateInv, Gate2!RejectionReal
  <1> QED
    BY <1>1, <1>3, <1>5, <1>6 DEF GateInv

LEMMA ChainKeeps ==
    ASSUME GateInv, (\E outcome \in Gate2!Outcomes : Gate2!Land(outcome)) \/ Gate2!Lapse
                    \/ (\E S \in SUBSET Hashes : Gate2!Change(S)) \/ \E h \in Hashes : Gate2!Join(h)
    PROVE  GateInv'
  <1>1. gBooks \in [Hashes -> Nat] /\ \A h \in Hashes : gBooks[h] \in Nat /\ gBooks[h] + 1 \in Nat /\ gBooks[h] <= gBooks[h] + 1 /\ gBooks[h] <= gBooks[h]
    BY DEF GateInv, GateTyped
  <1>2. ASSUME NEW outcome \in Gate2!Outcomes, Gate2!Land(outcome) PROVE GateInv'
    <2>1. /\ gFate = "sent" /\ gFate' = outcome /\ gLanded' = gBooks'[gJournal.hash]
          /\ UNCHANGED <<gJournal, gRows, gEvidence, gProc>>
          /\ gBooks' = [h \in Hashes |-> gBooks[h] + 1] \/ gBooks' = gBooks
      BY <1>2 DEF Gate2!Land
    <2>2. gBooks' \in [Hashes -> Nat] /\ \A h \in Hashes : gBooks[h] <= gBooks'[h]
      BY <1>1, <2>1
    <2>3. gFate' # gFate /\ gFate' \in Gate2!Outcomes
      BY <1>2, <2>1 DEF Gate2!Outcomes
    <2> QED
      BY <2>1, <2>2, <2>3, BooksKeep
  <1>3. CASE Gate2!Lapse
    <2>1. /\ gFate \in {"signed", "sent"} /\ gFate' = "lapsed" /\ "lapsed" \notin Gate2!Outcomes
          /\ UNCHANGED <<gJournal, gRows, gEvidence, gProc, gBooks, gLanded>>
      BY <1>3 DEF Gate2!Lapse, Gate2!Outcomes
    <2> QED
      BY <1>1, <2>1, BooksKeep
  <1>4. ASSUME UNCHANGED <<gJournal, gRows, gEvidence, gProc, gFate, gLanded>>, gBooks' \in [Hashes -> Nat],
               \A h \in Hashes : gBooks[h] <= gBooks'[h]
        PROVE  GateInv'
    BY <1>4, BooksKeep
  <1>5. ASSUME NEW S \in SUBSET Hashes, Gate2!Change(S) PROVE GateInv'
    <2>1. /\ UNCHANGED <<gJournal, gRows, gEvidence, gProc, gFate, gLanded>>
          /\ gBooks' = [h \in Hashes |-> IF h \in S THEN gBooks[h] + 1 ELSE gBooks[h]]
      BY <1>5 DEF Gate2!Change
    <2>2. gBooks' \in [Hashes -> Nat] /\ \A h \in Hashes : gBooks[h] <= gBooks'[h]
      BY <1>1, <2>1
    <2> QED
      BY <1>4, <2>1, <2>2
  <1>6. ASSUME NEW h \in Hashes, Gate2!Join(h) PROVE GateInv'
    <2>1. UNCHANGED <<gJournal, gRows, gEvidence, gProc, gFate, gLanded>> /\ gBooks' = [x \in Hashes |-> gBooks[x] + 1]
      BY <1>6 DEF Gate2!Join
    <2>2. gBooks' \in [Hashes -> Nat] /\ \A x \in Hashes : gBooks[x] <= gBooks'[x]
      BY <1>1, <2>1
    <2> QED
      BY <1>4, <2>1, <2>2
  <1> QED
    BY <1>2, <1>3, <1>5, <1>6

LEMMA GateNext == ASSUME GateInv, Gate2!Next \/ UNCHANGED gate2Vars PROVE GateInv'
  <1>1. CASE UNCHANGED gate2Vars
    BY <1>1 DEF gate2Vars, GateInv, GateTyped, CommandSound, BooksRise, Gate2!RejectionReal
  <1>2. ASSUME NEW action \in {"check", "status", "replay", "report"}, NEW h \in Hashes, Gate2!Start(action, h) PROVE GateInv'
    <2>1. /\ gProc' = [at |-> "snapshot", action |-> action, hash |-> h, current |-> 0]
          /\ UNCHANGED <<gJournal, gRows, gEvidence, gFate, gBooks, gLanded>>
      BY <1>2 DEF Gate2!Start, Gate2!cluster
    <2>2. gProc' \in GateCommand /\ gProc'.at = "snapshot" /\ gProc'.hash = h /\ "snapshot" \notin Recovering
      BY <2>1 DEF GateCommand, GatePoints, Recovering
    <2> QED
      BY <2>1, <2>2, CommandMoves
  <1>3. CASE Gate2!Snapshot \/ Gate2!Sign \/ Gate2!Inspect \/ Gate2!Submit \/ Gate2!Send \/ Gate2!Poll \/ Gate2!Compare
    BY <1>3, SnapshotKeeps, SignDuplicateKeeps, RecoveryKeeps, SendDuplicateKeeps, CompareKeeps
  <1>4. CASE Gate2!InsertRow \/ Gate2!Report
    BY <1>4, RecordKeeps
  <1>5. CASE Gate2!Fault \/ Gate2!Die
    BY <1>5, CommandEnds DEF Gate2!Fault, Gate2!Die, Gate2!Quit, Gate2!cluster
  <1>6. CASE Gate2!RemoveLock
    BY <1>6 DEF Gate2!RemoveLock, Gate2!cluster, GateInv, GateTyped, CommandSound, BooksRise, Gate2!RejectionReal
  <1>7. CASE (\E outcome \in Gate2!Outcomes : Gate2!Land(outcome)) \/ Gate2!Lapse \/ \E h \in Hashes : Gate2!Join(h)
    BY <1>7, ChainKeeps
  <1>8. ASSUME NEW S \in {Hashes} \cup {{h} : h \in Hashes}, Gate2!Change(S) PROVE GateInv'
    <2>1. S \in SUBSET Hashes
      BY <1>8
    <2> QED
      BY <1>8, <2>1, ChainKeeps
  <1> QED
    BY <1>1, <1>2, <1>3, <1>4, <1>5, <1>6, <1>7, <1>8 DEF Gate2!Next

LEMMA GateInit == ASSUME Gate2!Init PROVE GateInv
  <1>1. /\ gJournal = None /\ gRows = {} /\ gEvidence = None /\ gProc = Gate2!Off /\ gFate = "unsigned"
        /\ gBooks = [h \in Hashes |-> 0]
    BY DEF Gate2!Init
  <1>2. GateTyped
    BY <1>1, OffCommand DEF GateTyped
  <1>3. CommandSound /\ BooksRise
    BY <1>1, OffCommand DEF CommandSound, BooksRise, Gate2!Outcomes
  <1>4. Gate2!RejectionReal
    BY <1>1 DEF Gate2!RejectionReal
  <1> QED
    BY <1>2, <1>3, <1>4 DEF GateInv

\* Whatever the program does with the duplicate, however often `replay' dies and
\* is run again and whatever others do to the accounting meanwhile: a rejection
\* on record, in the row, the journal or the evidence, was finalized as
\* E_NULLIFIER and left the accounting as it was when the duplicate was signed.
THEOREM RejectionsAreReal == OperatorSpec => []RejectionReal
  <1>1. OperatorInit => GateInv
    BY GateInit DEF OperatorInit
  <1>2. GateInv /\ [OperatorNext]_allVars => GateInv'
    <2>1. [OperatorNext]_allVars => Gate2!Next \/ UNCHANGED gate2Vars
      BY DEF OperatorNext, allVars, Roots, Script, Replay
    <2> QED
      BY <2>1, GateNext
  <1>3. GateInv => RejectionReal
    BY DEF GateInv, RejectionReal
  <1> QED
    BY <1>1, <1>2, <1>3, PTL DEF OperatorSpec

-----------------------------------------------------------------------------
(* The setup script. *)

StepPoints == {"check", "sign", "status", "height", "send", "poll", "verify"}
RunPoints == Setup!InsideTry \cup {"cli", "save", "report"}
ScriptPoints == RunPoints \cup {"off", "import", "copy", "compare", "keys", "manifest", "preflight", "check_only"}
Fates == {"none", "signed", "sent", "final", "failed", "lapsed"}

RunFolder == [lock: BOOLEAN, database: Int, keys: BOOLEAN, manifest: Nat]
ScriptState == [record: [Setup!Names -> {"none", "open", "finalized"}], attempted: BOOLEAN, signature: BOOLEAN,
                complete: BOOLEAN]
ScriptProc == [at: ScriptPoints, step: Nat, seen: Nat, was: BOOLEAN, complete: BOOLEAN, acked: SUBSET Setup!Names]
ScriptChain == [program: {"none", "sent", "confirmed", "final"}, fate: [Setup!Names -> Fates], escrow: Nat, gifts: Nat]

SetupTyped ==
    /\ dFolder \in RunFolder /\ dState \in ScriptState /\ dReport \in {"none", "incomplete", "complete"}
    /\ dProc \in ScriptProc /\ dChain \in ScriptChain
    /\ dSource \in Nat /\ dSigned \in [Setup!Names -> Nat]

\* The journal: a record for each signed transaction, and an acknowledgement
\* only of what is final.
JournalTrue ==
    \A n \in Setup!Names :
        /\ dSigned[n] <= 1
        /\ dState.record[n] = "none" <=> dSigned[n] = 0
        /\ dChain.fate[n] = "none" <=> dSigned[n] = 0
        /\ dState.record[n] = "finalized" => dChain.fate[n] = "final"

\* What a step was for is there.
Made(n) == dChain.fate[n] = "final" \/ (n = "fund_escrow" /\ dChain.gifts >= Setup!Funding)

\* What the running script may rely on.
Underway ==
    /\ dProc.at \in StepPoints => /\ dProc.step \in DOMAIN Setup!Steps
                                  /\ \A i \in 1 .. dProc.step - 1 : Made(Setup!Steps[i])
    /\ dProc.at = "sign" => dState.record[Setup!Step] = "none"
    /\ dProc.at \in {"status", "height", "send", "poll"} => dState.record[Setup!Step] = "open"
    /\ dProc.at = "ack" => \A n \in Setup!Names : Made(n)
    /\ \A n \in dProc.acked : dChain.fate[n] = "final"

\* The escrow holds no more than the funding, once, and what others paid.
EscrowBounded ==
    dChain.escrow <= dChain.gifts + (IF dChain.fate["fund_escrow"] = "final" THEN Setup!Funding ELSE 0)

\* What `complete' means, in the file, in memory and in the report.
Completed ==
    /\ dState.complete => \A n \in Setup!Names :
          \/ dChain.fate[n] = "final" /\ dState.record[n] = "finalized"
          \/ n = "fund_escrow" /\ dChain.gifts >= Setup!Funding
    /\ dProc.complete => \A n \in Setup!Names : Made(n)
    /\ dProc.complete /\ ~dState.complete => dProc.at = "save" /\ Setup!Open \subseteq dProc.acked
    /\ dState.complete /\ dProc.at \in RunPoints => dProc.complete
    /\ dReport = "complete" => dState.complete

\* The database a run works with is the manifest's.
RightDatabase ==
    /\ dProc.at \in RunPoints => dFolder.database = dFolder.manifest
    /\ dProc.at \in RunPoints \cup {"preflight", "check_only"} => dFolder.manifest > 0
    /\ dProc.at = "copy" => dSigned["root"] = 0 \/ dState.complete
    /\ dProc.at \in {"keys", "manifest"} => dFolder.manifest = 0
    /\ dSigned["root"] > 0 => dFolder.manifest > 0 /\ (dState.complete \/ dFolder.database = dFolder.manifest)

SetupInv == SetupTyped /\ JournalTrue /\ Underway /\ EscrowBounded /\ Completed /\ RightDatabase

LEMMA ScriptConstants ==
    /\ DOMAIN Setup!Steps = 1 .. Len(Setup!Steps) /\ Len(Setup!Steps) \in Nat
    /\ {"fund_escrow", "protocol", "root"} \subseteq Setup!Names
    /\ \A i \in DOMAIN Setup!Steps : Setup!Steps[i] \in Setup!Names
  <1> DEFINE Text == STRING \cup {"fund_escrow"}
  <1>1. Before \in Seq(STRING) /\ After \in Seq(STRING) /\ {"protocol", "root"} \subseteq Setup!Names
    BY OperatorAssumption DEF Setup!BootstrapConstants
  <1>2. Before \in Seq(Text) /\ After \in Seq(Text) /\ <<"fund_escrow">> \in Seq(Text)
    BY <1>1
  <1> HIDE DEF Text
  <1>3. Before \o <<"fund_escrow">> \in Seq(Text)
    BY <1>2
  <1>4. Setup!Steps \in Seq(Text)
    BY <1>2, <1>3 DEF Setup!Steps
  <1>5. Len(Before) + 1 \in DOMAIN Setup!Steps /\ Setup!Steps[Len(Before) + 1] = "fund_escrow"
    BY <1>2, <1>3 DEF Setup!Steps
  <1>6. DOMAIN Setup!Steps = 1 .. Len(Setup!Steps) /\ Len(Setup!Steps) \in Nat
    BY <1>4
  <1> QED
    BY <1>1, <1>5, <1>6 DEF Setup!Names

\* A step that leaves the journal, the step transactions and the report alone.
LEMMA ScriptMoves ==
    ASSUME SetupInv,
           dState' \in ScriptState, dState'.record = dState.record, dState'.complete = dState.complete,
           dChain' \in ScriptChain, dChain'.fate = dChain.fate, dChain'.escrow = dChain.escrow,
           dChain'.gifts = dChain.gifts,
           dFolder' \in RunFolder, dFolder'.database = dFolder.database, dFolder'.manifest = dFolder.manifest,
           dReport' = dReport, dSigned' = dSigned, dSource' \in Nat, dProc' \in ScriptProc,
           dProc'.at \in StepPoints => /\ dProc'.step \in DOMAIN Setup!Steps
                                       /\ \A i \in 1 .. dProc'.step - 1 : Made(Setup!Steps[i]),
           dProc'.at = "sign" => dState.record[Setup!Steps[dProc'.step]] = "none",
           dProc'.at \in {"status", "height", "send", "poll"} => dState.record[Setup!Steps[dProc'.step]] = "open",
           dProc'.at = "ack" => \A n \in Setup!Names : Made(n),
           \A n \in dProc'.acked : dChain.fate[n] = "final",
           dProc'.complete => \A n \in Setup!Names : Made(n),
           dProc'.complete /\ ~dState.complete => dProc'.at = "save" /\ Setup!Open \subseteq dProc'.acked,
           dState.complete /\ dProc'.at \in RunPoints => dProc'.complete,
           dProc'.at \in RunPoints => dFolder.database = dFolder.manifest,
           dProc'.at \in RunPoints \cup {"preflight", "check_only"} => dFolder.manifest > 0,
           dProc'.at = "copy" => dSigned["root"] = 0 \/ dState.complete,
           dProc'.at \in {"keys", "manifest"} => dFolder.manifest = 0
    PROVE  SetupInv'
  <1>1. SetupTyped'
    BY DEF SetupInv, SetupTyped
  <1>2. JournalTrue'
    BY DEF SetupInv, JournalTrue
  <1>3. \A n \in Setup!Names : Made(n)' <=> Made(n)
    BY DEF Made
  <1>4. Underway'
    <2>1. \A i \in DOMAIN Setup!Steps : Setup!Steps[i] \in Setup!Names
      BY ScriptConstants
    <2>2. dProc'.at \in StepPoints => \A i \in 1 .. dProc'.step - 1 : i \in DOMAIN Setup!Steps
      BY ScriptConstants DEF ScriptProc
    <2> QED
      BY <1>3, <2>1, <2>2 DEF Underway, Setup!Step
  <1>5. EscrowBounded'
    BY DEF SetupInv, EscrowBounded
  <1>6. Completed'
    BY <1>3 DEF SetupInv, Completed, Setup!Open
  <1>7. RightDatabase'
    BY DEF SetupInv, RightDatabase
  <1> QED
    BY <1>1, <1>2, <1>4, <1>5, <1>6, <1>7 DEF SetupInv

LEMMA OffScript ==
    /\ Setup!Off \in ScriptProc /\ Setup!Off.at = "off" /\ ~Setup!Off.complete /\ Setup!Off.acked = {}
    /\ "off" \notin RunPoints /\ "off" \notin StepPoints
  BY DEF Setup!Off, ScriptProc, ScriptPoints, RunPoints, StepPoints, Setup!InsideTry

\* The script ends, by itself, by an error or by its death.
LEMMA ScriptEnds ==
    ASSUME SetupInv, dProc' = Setup!Off, dFolder' \in {dFolder, [dFolder EXCEPT !.lock = FALSE]},
           UNCHANGED <<dState, dReport, dChain, dSource, dSigned>>
    PROVE  SetupInv'
  <1>1. dFolder' \in RunFolder /\ dFolder'.database = dFolder.database /\ dFolder'.manifest = dFolder.manifest
    BY DEF SetupInv, SetupTyped, RunFolder
  <1>2. dState \in ScriptState /\ dChain \in ScriptChain /\ dSource \in Nat
    BY DEF SetupInv, SetupTyped
  <1> QED
    BY <1>1, <1>2, OffScript, ScriptMoves

\* The next point of a run, over the same journal.
LEMMA ScriptGoes ==
    ASSUME SetupInv, NEW p \in ScriptPoints, dProc' = [dProc EXCEPT !.at = p], dProc.at # "save",
           dState' \in ScriptState, dState'.record = dState.record, dState'.complete = dState.complete,
           dChain' \in ScriptChain, dChain'.fate = dChain.fate, dChain'.escrow = dChain.escrow,
           dChain'.gifts = dChain.gifts,
           UNCHANGED <<dFolder, dReport, dSource, dSigned>>,
           p \in StepPoints => dProc.at \in StepPoints,
           p = "sign" => dState.record[Setup!Step] = "none",
           p \in {"status", "height", "send", "poll"} => dState.record[Setup!Step] = "open",
           p = "ack" => \A n \in Setup!Names : Made(n),
           p \in RunPoints => dProc.at \in RunPoints,
           p \in {"preflight", "check_only"} => dFolder.manifest > 0,
           p = "copy" => dSigned["root"] = 0 \/ dState.complete,
           p \in {"keys", "manifest"} => dFolder.manifest = 0
    PROVE  SetupInv'
  <1>1. /\ dProc' \in ScriptProc /\ dProc'.at = p /\ dProc'.step = dProc.step
        /\ dProc'.complete = dProc.complete /\ dProc'.acked = dProc.acked
    BY DEF SetupInv, SetupTyped, ScriptProc
  <1>2. dFolder \in RunFolder /\ dSource \in Nat
    BY DEF SetupInv, SetupTyped
  <1>3. dProc.complete => dState.complete
    BY DEF SetupInv, Completed
  <1>4. dProc.at \in StepPoints => /\ dProc.step \in DOMAIN Setup!Steps
                                   /\ \A i \in 1 .. dProc.step - 1 : Made(Setup!Steps[i])
    BY DEF SetupInv, Underway
  <1>5. \A n \in dProc.acked : dChain.fate[n] = "final"
    BY DEF SetupInv, Underway
  <1>6. /\ dProc.complete => \A n \in Setup!Names : Made(n)
        /\ dState.complete /\ dProc.at \in RunPoints => dProc.complete
    BY DEF SetupInv, Completed
  <1>7. dProc.at \in RunPoints => dFolder.database = dFolder.manifest /\ dFolder.manifest > 0
    BY DEF SetupInv, RightDatabase
  <1> QED
    BY <1>1, <1>2, <1>3, <1>4, <1>5, <1>6, <1>7, ScriptMoves DEF Setup!Step

LEMMA StepNamed ==
    ASSUME SetupInv, dProc.at \in StepPoints
    PROVE  Setup!Step \in Setup!Names /\ Setup!Steps[dProc.step] = Setup!Step /\ dProc.step \in DOMAIN Setup!Steps
  BY ScriptConstants DEF SetupInv, Underway, Setup!Step

LEMMA StartKeeps ==
    ASSUME SetupInv, NEW p \in {"import", "preflight", "check_only"}, NEW seen \in Nat, Setup!Start(p, seen),
           p # "import" => dFolder.manifest > 0
    PROVE  SetupInv'
  <1>1. /\ dFolder' \in RunFolder /\ dFolder'.database = dFolder.database /\ dFolder'.manifest = dFolder.manifest
        /\ UNCHANGED <<dState, dReport, dChain, dSource, dSigned>>
    BY DEF Setup!Start, SetupInv, SetupTyped, RunFolder
  <1>2. dProc' \in ScriptProc /\ dProc'.at = p /\ ~dProc'.complete /\ dProc'.acked = {}
    BY DEF Setup!Start, Setup!Off, ScriptProc, ScriptPoints
  <1>3. p \notin StepPoints /\ p \notin RunPoints
    BY DEF StepPoints, RunPoints, Setup!InsideTry
  <1>4. dState \in ScriptState /\ dChain \in ScriptChain /\ dSource \in Nat
    BY DEF SetupInv, SetupTyped
  <1> QED
    BY <1>1, <1>2, <1>3, <1>4, ScriptMoves

\* The steps that only move on over an unchanged directory and journal.
LEMMA QuietKeeps ==
    ASSUME SetupInv, UNCHANGED <<dState, dReport, dChain, dSource, dSigned>>,
           \/ Setup!Compare \/ Setup!Preflight \/ Setup!Check \/ Setup!ReadHeight \/ Setup!Verify \/ Setup!Ack
           \/ Setup!Fault \/ Setup!Die \/ Setup!RemoveLock
    PROVE  SetupInv'
  <1> USE DEF Setup!At, Setup!Go, Setup!Throw, Setup!Quit
  <1>t. /\ dFolder \in RunFolder /\ dState \in ScriptState /\ dChain \in ScriptChain /\ dProc \in ScriptProc
        /\ dSource \in Nat
    BY DEF SetupInv, SetupTyped
  <1>p. {"sign", "status", "verify", "check", "height", "send", "ack", "save"} \subseteq RunPoints \cap ScriptPoints
    BY DEF RunPoints, Setup!InsideTry, ScriptPoints
  <1>s. ASSUME dProc.at \in RunPoints \ {"save"}, dFolder' = dFolder, dProc' = [dProc EXCEPT !.at = "save"]
        PROVE  SetupInv'
    BY <1>t, <1>p, <1>s, ScriptGoes DEF StepPoints
  <1>1. CASE Setup!Compare
    <2>1. CASE dProc' = Setup!Off
      BY <1>1, <2>1, ScriptEnds DEF Setup!Compare
    <2>2. CASE dProc' = [dProc EXCEPT !.at = "keys"] /\ dFolder.manifest = 0 /\ dFolder' = dFolder
      <3>1. dProc.at = "compare"
        BY <1>1 DEF Setup!Compare
      <3> QED
        BY <3>1, <2>2, <1>t, ScriptGoes DEF StepPoints, RunPoints, Setup!InsideTry, ScriptPoints
    <2> QED
      BY <1>1, <1>t, <2>1, <2>2 DEF Setup!Compare, Setup!Prepared, RunFolder
  <1>2. CASE Setup!Preflight
    <2>1. dProc.at \in {"preflight", "check_only"} /\ dFolder.manifest > 0
      BY <1>2 DEF Setup!Preflight, SetupInv, RightDatabase
    <2>2. CASE dProc' = Setup!Off
      BY <1>2, <2>2, ScriptEnds DEF Setup!Preflight
    <2>3. CASE /\ dProc' = [dProc EXCEPT !.at = "deploy", !.was = dState.complete, !.complete = dState.complete]
               /\ dFolder' = dFolder /\ dFolder.database = dFolder.manifest
      <3>1. /\ dProc' \in ScriptProc /\ dProc'.at = "deploy" /\ dProc'.complete = dState.complete
            /\ dProc'.acked = dProc.acked
        BY <2>3, <1>t DEF ScriptProc, ScriptState, ScriptPoints, RunPoints, Setup!InsideTry
      <3>2. \A n \in dProc.acked : dChain.fate[n] = "final"
        BY DEF SetupInv, Underway
      <3>3. dState.complete => \A n \in Setup!Names : Made(n)
        BY DEF SetupInv, Completed, Made
      <3>4. "deploy" \notin StepPoints
        BY DEF StepPoints
      <3> QED
        BY <2>1, <2>3, <3>1, <3>2, <3>3, <3>4, <1>t, ScriptMoves
    <2> QED
      BY <1>2, <2>2, <2>3 DEF Setup!Preflight
  <1>3. CASE Setup!Check
    <2>1. dProc.at = "check" /\ dProc.at \in StepPoints /\ dProc.at \in RunPoints \ {"save"}
      BY <1>3, <1>p DEF Setup!Check, StepPoints
    <2>2. Setup!Step \in Setup!Names /\ dState.record[Setup!Step] \in {"none", "open", "finalized"}
      BY <2>1, <1>t, StepNamed DEF ScriptState
    <2>3. CASE dProc' = [dProc EXCEPT !.at = "save"] /\ dFolder' = dFolder
      BY <2>1, <2>3, <1>s
    <2>4. CASE dProc' = [dProc EXCEPT !.at = "verify"] /\ dFolder' = dFolder
      BY <2>1, <2>4, <1>t, <1>p, ScriptGoes
    <2>5. CASE dProc' = [dProc EXCEPT !.at = "sign"] /\ dFolder' = dFolder /\ dState.record[Setup!Step] = "none"
      BY <2>1, <2>5, <1>t, <1>p, ScriptGoes
    <2>6. CASE dProc' = [dProc EXCEPT !.at = "status"] /\ dFolder' = dFolder /\ dState.record[Setup!Step] = "open"
      BY <2>1, <2>6, <1>t, <1>p, ScriptGoes
    <2> QED
      BY <1>3, <2>2, <2>3, <2>4, <2>5, <2>6 DEF Setup!Check, Setup!Record
  <1>4. CASE Setup!ReadHeight
    <2>1. dProc.at = "height" /\ dProc.at \in StepPoints /\ dProc.at \in RunPoints \ {"save"}
      BY <1>4, <1>p DEF Setup!ReadHeight, StepPoints
    <2>2. dState.record[Setup!Step] = "open"
      BY <2>1 DEF SetupInv, Underway
    <2>3. CASE dProc' = [dProc EXCEPT !.at = "save"] /\ dFolder' = dFolder
      BY <2>1, <2>3, <1>s
    <2>4. CASE dProc' = [dProc EXCEPT !.at = "send"] /\ dFolder' = dFolder
      BY <2>1, <2>2, <2>4, <1>t, <1>p, ScriptGoes
    <2> QED
      BY <1>4, <2>3, <2>4 DEF Setup!ReadHeight
  <1>5. CASE Setup!Verify
    <2>1. dProc.at = "verify" /\ dProc.at \in StepPoints /\ dProc.at \in RunPoints \ {"save"}
      BY <1>5, <1>p DEF Setup!Verify, StepPoints
    <2>2. CASE dProc' = [dProc EXCEPT !.at = "save"] /\ dFolder' = dFolder
      BY <2>1, <2>2, <1>s
    <2>3. ASSUME Setup!Verified
          PROVE  Made(Setup!Step)
      <3>1. /\ dChain.escrow \in Nat /\ dChain.gifts \in Nat
            /\ dChain.escrow <= dChain.gifts + (IF dChain.fate["fund_escrow"] = "final" THEN Setup!Funding ELSE 0)
        BY <1>t DEF SetupInv, EscrowBounded, ScriptChain
      <3> QED
        BY <2>3, <3>1 DEF Setup!Verified, Made, Setup!Balance, Setup!Funding
    <2>4. /\ Setup!Step = Setup!Steps[dProc.step] /\ dProc.step \in 1 .. Len(Setup!Steps) /\ Len(Setup!Steps) \in Nat
          /\ \A i \in 1 .. dProc.step - 1 : Made(Setup!Steps[i])
      BY <2>1, StepNamed, ScriptConstants DEF SetupInv, Underway
    <2>5. CASE Setup!Verified /\ dProc.step = Len(Setup!Steps) /\ dProc' = [dProc EXCEPT !.at = "ack"] /\ dFolder' = dFolder
      <3>1. \A n \in Setup!Names : Made(n)
        <4>1. ASSUME NEW i \in 1 .. Len(Setup!Steps) PROVE Made(Setup!Steps[i])
          BY <2>3, <2>4, <2>5
        <4> QED
          BY <4>1, ScriptConstants DEF Setup!Names
      <3> QED
        BY <2>1, <2>5, <3>1, <1>t, <1>p, ScriptGoes DEF StepPoints
    <2>6. CASE /\ Setup!Verified /\ dProc.step # Len(Setup!Steps) /\ dFolder' = dFolder
               /\ dProc' = [dProc EXCEPT !.at = "check", !.step = @ + 1]
      <3>1. /\ dProc' \in ScriptProc /\ dProc'.at = "check" /\ dProc'.step = dProc.step + 1
            /\ dProc'.complete = dProc.complete /\ dProc'.acked = dProc.acked
        <4>1. "check" \in ScriptPoints /\ dProc.step + 1 \in Nat
          BY <1>p, <2>4
        <4> QED
          BY <2>6, <1>t, <4>1 DEF ScriptProc
      <3>2. dProc'.step \in DOMAIN Setup!Steps /\ \A i \in 1 .. dProc'.step - 1 : Made(Setup!Steps[i])
        BY <2>3, <2>4, <2>6, <3>1, ScriptConstants
      <3>3. /\ dProc.complete => dState.complete /\ \A n \in Setup!Names : Made(n)
            /\ dState.complete => dProc.complete
        BY <2>1 DEF SetupInv, Completed
      <3>4. \A n \in dProc.acked : dChain.fate[n] = "final"
        BY DEF SetupInv, Underway
      <3>5. dFolder.database = dFolder.manifest /\ dFolder.manifest > 0
        BY <2>1 DEF SetupInv, RightDatabase
      <3> QED
        BY <2>6, <3>1, <3>2, <3>3, <3>4, <3>5, <1>t, ScriptMoves
    <2> QED
      BY <1>5, <2>2, <2>5, <2>6 DEF Setup!Verify
  <1>6. CASE Setup!Ack
    <2>1. PICK S \in SUBSET Setup!Landed :
             /\ Setup!Landed = Setup!Open => S = Setup!Open
             /\ dProc' = [dProc EXCEPT !.at = "save", !.acked = S, !.complete = @ \/ Setup!Landed = Setup!Open]
      BY <1>6 DEF Setup!Ack
    <2>2. dProc.at = "ack" /\ dFolder' = dFolder
      BY <1>6 DEF Setup!Ack
    <2>3. S \subseteq Setup!Names /\ \A n \in S : dChain.fate[n] = "final"
      <3>1. ASSUME NEW n \in Setup!Landed PROVE n \in Setup!Names /\ dChain.fate[n] = "final"
        <4>1. n \in Setup!Names /\ dState.record[n] = "open" /\ Setup!Statuses(n) = {"finalized"}
          BY DEF Setup!Landed, Setup!Open
        <4>2. dChain.fate[n] \in Fates /\ dChain.fate[n] # "none"
          BY <4>1, <1>t DEF SetupInv, JournalTrue, ScriptChain
        <4> QED
          BY <4>1, <4>2 DEF Setup!Statuses, Fates
      <3> QED
        BY <3>1
    <2>4. /\ dProc' \in ScriptProc /\ dProc'.at = "save" /\ dProc'.acked = S
          /\ dProc'.complete <=> dProc.complete \/ Setup!Landed = Setup!Open
      BY <2>1, <2>3, <1>t, <1>p DEF ScriptProc
    <2>5. /\ \A n \in Setup!Names : Made(n)
          /\ dProc.complete <=> dState.complete
      BY <2>2, <1>p DEF SetupInv, Underway, Completed
    <2>6. dFolder.database = dFolder.manifest /\ dFolder.manifest > 0
      BY <2>2, <1>p DEF SetupInv, RightDatabase
    <2> QED
      BY <2>1, <2>2, <2>3, <2>4, <2>5, <2>6, <1>t, ScriptMoves DEF StepPoints
  <1>7. CASE Setup!Fault
    <2>1. CASE dProc.at \in Setup!InsideTry
      <3>1. dProc.at \in RunPoints \ {"save"}
        BY <2>1 DEF RunPoints, Setup!InsideTry
      <3> QED
        BY <1>7, <2>1, <3>1, <1>s DEF Setup!Fault
    <2>2. CASE dProc.at \notin Setup!InsideTry
      BY <1>7, <2>2, ScriptEnds DEF Setup!Fault
    <2> QED
      BY <2>1, <2>2
  <1>8. CASE Setup!Die
    BY <1>8, ScriptEnds DEF Setup!Die
  <1>9. CASE Setup!RemoveLock
    <2>1. /\ dFolder' \in RunFolder /\ dFolder'.database = dFolder.database /\ dFolder'.manifest = dFolder.manifest
          /\ dProc' = dProc /\ dProc.at = "off"
      BY <1>9, <1>t DEF Setup!RemoveLock, Setup!Running, RunFolder
    <2>2. ~dProc.complete \/ dState.complete
      BY <2>1 DEF SetupInv, Completed
    <2>3. \A n \in dProc.acked : dChain.fate[n] = "final"
      BY DEF SetupInv, Underway
    <2>4. dProc.complete => \A n \in Setup!Names : Made(n)
      BY DEF SetupInv, Completed
    <2> QED
      BY <2>1, <2>2, <2>3, <2>4, <1>t, OffScript, ScriptMoves
  <1> QED
    BY <1>1, <1>2, <1>3, <1>4, <1>5, <1>6, <1>7, <1>8, <1>9

\* The steps of the preparation, which write the directory.
LEMMA FolderKeeps ==
    ASSUME SetupInv, Setup!Import \/ Setup!Copy \/ Setup!WriteKeys \/ Setup!WriteManifest
    PROVE  SetupInv'
  <1> USE DEF Setup!At, Setup!Go, Setup!Quit
  <1>t. /\ dFolder \in RunFolder /\ dState \in ScriptState /\ dChain \in ScriptChain /\ dProc \in ScriptProc
        /\ dSource \in Nat
    BY DEF SetupInv, SetupTyped
  <1>u. UNCHANGED <<dState, dReport, dChain, dSource, dSigned>>
    BY DEF Setup!Import, Setup!Copy, Setup!WriteKeys, Setup!WriteManifest
  <1>p. /\ {"off", "copy", "compare", "keys", "manifest"} \subseteq ScriptPoints
        /\ {"off", "copy", "compare", "keys", "manifest"} \cap RunPoints = {}
        /\ {"off", "copy", "compare", "keys", "manifest"} \cap StepPoints = {}
    BY DEF ScriptPoints, RunPoints, StepPoints, Setup!InsideTry
  <1>g. \A p \in {"off", "copy", "compare", "keys", "manifest"} :
           /\ [dProc EXCEPT !.at = p] \in ScriptProc /\ [dProc EXCEPT !.at = p].at = p
           /\ [dProc EXCEPT !.at = p].complete = dProc.complete /\ [dProc EXCEPT !.at = p].acked = dProc.acked
    BY <1>t, <1>p DEF ScriptProc
  <1>w. ASSUME dProc.at # "save",
               \/ dProc' = Setup!Off
               \/ \E p \in {"copy", "compare", "keys", "manifest"} : dProc' = [dProc EXCEPT !.at = p]
        PROVE  /\ dProc' \in ScriptProc /\ dProc'.at \in {"off", "copy", "compare", "keys", "manifest"}
               /\ JournalTrue' /\ Underway' /\ EscrowBounded' /\ Completed'
    <2>1. dProc' \in ScriptProc /\ dProc'.at \in {"off", "copy", "compare", "keys", "manifest"}
      BY <1>w, <1>g, OffScript, ZenonT(90)
    <2>2. /\ dProc'.complete => dProc.complete
          /\ dProc'.acked \subseteq dProc.acked
      <3>1. CASE dProc' = Setup!Off
        BY <3>1, OffScript
      <3>2. CASE \E p \in {"copy", "compare", "keys", "manifest"} : dProc' = [dProc EXCEPT !.at = p]
        BY <3>2, <1>g
      <3> QED
        BY <1>w, <3>1, <3>2
    <2>3. JournalTrue' /\ EscrowBounded'
      BY <1>u DEF SetupInv, JournalTrue, EscrowBounded
    <2>4. \A n : Made(n)' <=> Made(n)
      BY <1>u DEF Made
    <2>5. Underway'
      BY <1>p, <1>u, <2>1, <2>2 DEF SetupInv, Underway
    <2>6. Completed'
      BY <1>p, <1>u, <1>w, <2>1, <2>2, <2>4 DEF SetupInv, Completed
    <2> QED
      BY <2>1, <2>3, <2>5, <2>6
  <1>d. ASSUME dProc.at # "save", dFolder' \in RunFolder,
               \/ dProc' = Setup!Off
               \/ \E p \in {"copy", "compare", "keys", "manifest"} : dProc' = [dProc EXCEPT !.at = p],
               dProc'.at = "copy" => dSigned["root"] = 0 \/ dState.complete,
               dProc'.at \in {"keys", "manifest"} => dFolder'.manifest = 0,
               dSigned["root"] > 0 => dFolder'.manifest > 0 /\ (dState.complete \/ dFolder'.database = dFolder'.manifest)
        PROVE  SetupInv'
    <2>1. /\ dProc' \in ScriptProc /\ dProc'.at \in {"off", "copy", "compare", "keys", "manifest"}
          /\ JournalTrue' /\ Underway' /\ EscrowBounded' /\ Completed'
      BY <1>d, <1>w
    <2>2. SetupTyped'
      BY <1>d, <1>u, <2>1 DEF SetupInv, SetupTyped
    <2>3. RightDatabase'
      BY <1>d, <1>p, <1>u, <2>1 DEF RightDatabase
    <2> QED
      BY <2>1, <2>2, <2>3 DEF SetupInv
  <1>r. /\ dSigned["root"] > 0 => dFolder.manifest > 0 /\ (dState.complete \/ dFolder.database = dFolder.manifest)
        /\ dProc.at = "copy" => dSigned["root"] = 0 \/ dState.complete
        /\ dProc.at \in {"keys", "manifest"} => dFolder.manifest = 0
        /\ dSigned["root"] \in Nat
    BY ScriptConstants DEF SetupInv, SetupTyped, RightDatabase
  <1>1. CASE Setup!Import
    <2>1. dProc.at = "import"
      BY <1>1 DEF Setup!Import
    <2>2. CASE dProc' = Setup!Off /\ dFolder' = [dFolder EXCEPT !.lock = FALSE]
      BY <1>u, <2>2, ScriptEnds
    <2>3. CASE /\ dFolder.database = 0 /\ dFolder' = [dFolder EXCEPT !.database = -1]
               /\ dProc' = [dProc EXCEPT !.at = "copy"]
      <3>1. dFolder' \in RunFolder /\ dFolder'.manifest = dFolder.manifest
        BY <2>3, <1>t DEF RunFolder
      <3>2. dSigned["root"] = 0 \/ dState.complete
        BY <1>r, <1>t, <2>3 DEF RunFolder
      <3>3. dProc'.at = "copy"
        BY <2>3, <1>g
      <3>4. dSigned["root"] > 0 => dFolder'.manifest > 0 /\ dState.complete
        BY <3>1, <3>2, <1>r
      <3> QED
        BY <2>1, <2>3, <3>1, <3>2, <3>3, <3>4, <1>d
    <2> QED
      BY <1>1, <2>2, <2>3 DEF Setup!Import
  <1>2. CASE Setup!Copy
    <2>1. /\ dProc.at = "copy" /\ dFolder' = [dFolder EXCEPT !.database = dSource]
          /\ dProc' = [dProc EXCEPT !.at = "compare"]
      BY <1>2 DEF Setup!Copy
    <2>2. dFolder' \in RunFolder /\ dFolder'.manifest = dFolder.manifest /\ dProc'.at = "compare"
      BY <2>1, <1>t, <1>g DEF RunFolder
    <2>3. dSigned["root"] > 0 => dFolder'.manifest > 0 /\ dState.complete
      BY <1>r, <2>1, <2>2
    <2> QED
      BY <2>1, <2>2, <2>3, <1>d
  <1>3. CASE Setup!WriteKeys
    <2>1. /\ dProc.at = "keys" /\ dFolder' = [dFolder EXCEPT !.keys = TRUE]
          /\ dProc' = [dProc EXCEPT !.at = "manifest"]
      BY <1>3 DEF Setup!WriteKeys
    <2>2. /\ dFolder' \in RunFolder /\ dFolder'.manifest = dFolder.manifest /\ dProc'.at = "manifest"
          /\ dFolder'.database = dFolder.database
      BY <2>1, <1>t, <1>g DEF RunFolder
    <2> QED
      BY <2>1, <2>2, <1>r, <1>d
  <1>4. CASE Setup!WriteManifest
    <2>1. /\ dProc.at = "manifest" /\ dFolder' = [dFolder EXCEPT !.manifest = dProc.seen, !.lock = FALSE]
          /\ dProc' = Setup!Off
      BY <1>4 DEF Setup!WriteManifest
    <2>2. dFolder' \in RunFolder
      BY <2>1, <1>t DEF RunFolder, ScriptProc
    <2>3. ~(dSigned["root"] > 0)
      BY <2>1, <1>r
    <2>4. dProc'.at = "off"
      BY <2>1, OffScript
    <2> QED
      BY <2>1, <2>2, <2>3, <2>4, <1>d
  <1> QED
    BY <1>1, <1>2, <1>3, <1>4

\* The deployment, which touches neither the records nor the steps.
LEMMA DeployKeeps ==
    ASSUME SetupInv, Setup!Deploy \/ Setup!CallCLI \/ Setup!SaveSignature \/ Setup!Live
    PROVE  SetupInv'
  <1> USE DEF Setup!At, Setup!Go, Setup!Throw
  <1>t. dFolder \in RunFolder /\ dState \in ScriptState /\ dChain \in ScriptChain /\ dProc \in ScriptProc /\ dSource \in Nat
    BY DEF SetupInv, SetupTyped
  <1>p. {"deploy", "cli", "cliAnswer", "live", "save", "check"} \subseteq RunPoints \cap ScriptPoints
    BY DEF RunPoints, Setup!InsideTry, ScriptPoints
  <1>q. {"deploy", "cli", "cliAnswer", "live", "save"} \cap StepPoints = {}
    BY DEF StepPoints
  <1>u. dFolder' = dFolder /\ dReport' = dReport /\ dSource' = dSource /\ dSigned' = dSigned
    BY DEF Setup!Deploy, Setup!CallCLI, Setup!SaveSignature, Setup!Live
  <1>c. /\ dChain' \in ScriptChain /\ dChain'.fate = dChain.fate /\ dChain'.escrow = dChain.escrow
        /\ dChain'.gifts = dChain.gifts
    BY <1>t DEF Setup!Deploy, Setup!CallCLI, Setup!SaveSignature, Setup!Live, ScriptChain
  <1>j. dState' \in ScriptState /\ dState'.record = dState.record /\ dState'.complete = dState.complete
    BY <1>t DEF Setup!Deploy, Setup!CallCLI, Setup!SaveSignature, Setup!Live, ScriptState
  <1>1. CASE \E p \in {"cli", "cliAnswer", "live", "save"} : dProc' = [dProc EXCEPT !.at = p]
    <2>1. PICK p \in {"cli", "cliAnswer", "live", "save"} : dProc' = [dProc EXCEPT !.at = p]
      BY <1>1
    <2>2. dProc.at \in {"deploy", "cli", "cliAnswer", "live"}
      BY DEF Setup!Deploy, Setup!CallCLI, Setup!SaveSignature, Setup!Live
    <2>3. /\ p \in ScriptPoints /\ p \notin StepPoints /\ p # "ack" /\ p # "copy" /\ dProc.at \in RunPoints /\ dProc.at # "save"
          /\ p \notin {"sign", "status", "height", "send", "poll", "preflight", "check_only", "keys", "manifest"}
      BY <2>1, <2>2, <1>p, <1>q
    <2> QED
      BY <2>1, <2>3, <1>u, <1>c, <1>j, ScriptGoes
  <1>2. CASE dProc.at = "live" /\ dProc' = [dProc EXCEPT !.at = "check", !.step = 1]
    <2>1. /\ dProc' \in ScriptProc /\ dProc'.at = "check" /\ dProc'.step = 1
          /\ dProc'.complete = dProc.complete /\ dProc'.acked = dProc.acked
      BY <1>2, <1>t, <1>p DEF ScriptProc
    <2>2. 1 \in DOMAIN Setup!Steps /\ 1 .. (1 - 1) = {}
      <3>1. Setup!Names # {}
        BY ScriptConstants
      <3>2. PICK i \in DOMAIN Setup!Steps : TRUE
        BY <3>1 DEF Setup!Names
      <3> QED
        BY <3>2, ScriptConstants
    <2>3. /\ dProc.complete => dState.complete /\ \A n \in Setup!Names : Made(n)
          /\ dState.complete => dProc.complete
      BY <1>2, <1>p DEF SetupInv, Completed
    <2>4. \A n \in dProc.acked : dChain.fate[n] = "final"
      BY DEF SetupInv, Underway
    <2>5. dFolder.database = dFolder.manifest /\ dFolder.manifest > 0
      BY <1>2, <1>p DEF SetupInv, RightDatabase
    <2> QED
      BY <2>1, <2>2, <2>3, <2>4, <2>5, <1>t, <1>u, <1>c, <1>j, ScriptMoves
  <1> QED
    BY <1>1, <1>2 DEF Setup!Deploy, Setup!CallCLI, Setup!SaveSignature, Setup!Live

\* send marks a record finalized that it has seen finalized.
LEMMA AcknowledgeKeeps ==
    ASSUME SetupInv, dProc.at \in {"status", "poll"}, "finalized" \in Setup!Statuses(Setup!Step), Setup!Acknowledge,
           UNCHANGED <<dReport, dChain, dSource, dSigned>>
    PROVE  SetupInv'
  <1> DEFINE s == Setup!Step
  <1>t. dFolder \in RunFolder /\ dState \in ScriptState /\ dChain \in ScriptChain /\ dProc \in ScriptProc
    BY DEF SetupInv, SetupTyped
  <1>p. dProc.at \in StepPoints /\ dProc.at \in RunPoints /\ "verify" \in StepPoints \cap RunPoints \cap ScriptPoints
    BY DEF StepPoints, RunPoints, ScriptPoints, Setup!InsideTry
  <1>s. s \in Setup!Names /\ dProc.step \in DOMAIN Setup!Steps /\ dState.record[s] = "open"
    BY <1>p, StepNamed DEF SetupInv, Underway
  <1> HIDE DEF s
  <1>f. dChain.fate[s] = "final"
    <2>1. dChain.fate[s] \in Fates /\ dChain.fate[s] # "none"
      BY <1>s, <1>t DEF SetupInv, JournalTrue, ScriptChain
    <2> QED
      BY <2>1 DEF Setup!Statuses, Fates, s
  <1>1. /\ dState' = [dState EXCEPT !.record[s] = "finalized"] /\ dProc' = [dProc EXCEPT !.at = "verify"]
        /\ dFolder' = dFolder
    BY DEF Setup!Acknowledge, Setup!Go, s
  <1>2. /\ dState' \in ScriptState /\ dState'.complete = dState.complete
        /\ \A n \in Setup!Names : dState'.record[n] = IF n = s THEN "finalized" ELSE dState.record[n]
    BY <1>1, <1>t, <1>s DEF ScriptState
  <1>3. /\ dProc' \in ScriptProc /\ dProc'.at = "verify" /\ dProc'.step = dProc.step
        /\ dProc'.complete = dProc.complete /\ dProc'.acked = dProc.acked
    BY <1>1, <1>t, <1>p DEF ScriptProc
  <1>4. \A n : Made(n)' <=> Made(n)
    BY DEF Made
  <1>5. SetupTyped'
    BY <1>1, <1>2, <1>3 DEF SetupInv, SetupTyped
  <1>6. JournalTrue'
    BY <1>2, <1>f, <1>s DEF SetupInv, JournalTrue
  <1>7. Underway'
    BY <1>3, <1>4, <1>p DEF SetupInv, Underway
  <1>8. EscrowBounded'
    BY DEF SetupInv, EscrowBounded
  <1>9. Completed'
    BY <1>2, <1>3, <1>4, <1>f, <1>p DEF SetupInv, Completed
  <1>10. RightDatabase'
    BY <1>1, <1>2, <1>3, <1>p DEF SetupInv, RightDatabase
  <1> QED
    BY <1>5, <1>6, <1>7, <1>8, <1>9, <1>10 DEF SetupInv

LEMMA StatusKeeps == ASSUME SetupInv, Setup!ReadStatus \/ Setup!Poll PROVE SetupInv'
  <1>1. dProc.at \in {"status", "poll"} /\ UNCHANGED <<dReport, dChain, dSource, dSigned>>
    BY DEF Setup!ReadStatus, Setup!Poll, Setup!At
  <1>2. CASE "finalized" \in Setup!Statuses(Setup!Step) /\ Setup!Acknowledge
    BY <1>1, <1>2, AcknowledgeKeeps
  <1>3. CASE UNCHANGED <<dFolder, dState>> /\ \E p \in {"height", "save"} : dProc' = [dProc EXCEPT !.at = p]
    <2>1. PICK p \in {"height", "save"} : dProc' = [dProc EXCEPT !.at = p]
      BY <1>3
    <2>2. /\ p \in ScriptPoints /\ p \in RunPoints /\ dProc.at \in StepPoints /\ dProc.at \in RunPoints
          /\ p \notin {"sign", "status", "send", "poll", "ack", "preflight", "check_only", "copy", "keys", "manifest"}
      BY <1>1 DEF ScriptPoints, RunPoints, StepPoints, Setup!InsideTry
    <2>3. dState.record[Setup!Step] = "open" /\ dState \in ScriptState /\ dChain \in ScriptChain
      BY <1>1 DEF SetupInv, Underway, SetupTyped
    <2> QED
      BY <1>1, <1>3, <2>1, <2>2, <2>3, ScriptGoes
  <1> QED
    BY <1>2, <1>3 DEF Setup!ReadStatus, Setup!Poll, Setup!Go, Setup!Throw

\* A transaction is signed for a step that has none.
LEMMA SignKeeps == ASSUME SetupInv, Setup!Sign PROVE SetupInv'
  <1> DEFINE s == Setup!Step
  <1>t. /\ dFolder \in RunFolder /\ dState \in ScriptState /\ dChain \in ScriptChain /\ dProc \in ScriptProc
        /\ dSigned \in [Setup!Names -> Nat]
    BY DEF SetupInv, SetupTyped
  <1>a. dProc.at = "sign"
    BY DEF Setup!Sign, Setup!At
  <1>p. dProc.at \in StepPoints /\ dProc.at \in RunPoints /\ "send" \in StepPoints \cap RunPoints \cap ScriptPoints
    BY <1>a DEF StepPoints, RunPoints, ScriptPoints, Setup!InsideTry
  <1>s. s \in Setup!Names /\ dProc.step \in DOMAIN Setup!Steps /\ dState.record[s] = "none"
    BY <1>a, <1>p, StepNamed DEF SetupInv, Underway
  <1>1. /\ dState' = [dState EXCEPT !.record[s] = "open"] /\ dProc' = [dProc EXCEPT !.at = "send"]
        /\ dSigned' = [dSigned EXCEPT ![s] = @ + 1] /\ dChain' = [dChain EXCEPT !.fate[s] = "signed"]
        /\ UNCHANGED <<dFolder, dReport, dSource>>
    BY DEF Setup!Sign, Setup!Go, Setup!Journalled
  <1>x. Setup!Step = s /\ Setup!Steps[dProc.step] = s
    BY <1>p, StepNamed
  <1> HIDE DEF s
  <1>f. dSigned[s] = 0 /\ dChain.fate[s] = "none"
    BY <1>s DEF SetupInv, JournalTrue
  <1>2. /\ dState' \in ScriptState /\ dState'.complete = dState.complete
        /\ \A n \in Setup!Names : dState'.record[n] = IF n = s THEN "open" ELSE dState.record[n]
    BY <1>1, <1>t, <1>s DEF ScriptState
  <1>3. /\ dProc' \in ScriptProc /\ dProc'.at = "send" /\ dProc'.step = dProc.step
        /\ dProc'.complete = dProc.complete /\ dProc'.acked = dProc.acked
    BY <1>1, <1>t, <1>p DEF ScriptProc
  <1>4. /\ dChain' \in ScriptChain /\ dChain'.escrow = dChain.escrow /\ dChain'.gifts = dChain.gifts
        /\ \A n \in Setup!Names : dChain'.fate[n] = IF n = s THEN "signed" ELSE dChain.fate[n]
    BY <1>1, <1>t, <1>s DEF ScriptChain, Fates
  <1>5. /\ dSigned' \in [Setup!Names -> Nat]
        /\ \A n \in Setup!Names : dSigned'[n] = IF n = s THEN 1 ELSE dSigned[n]
    BY <1>1, <1>t, <1>s, <1>f
  <1>6. \A n \in Setup!Names : Made(n)' <=> Made(n)
    BY <1>4, <1>f DEF Made
  <1>7. SetupTyped'
    BY <1>1, <1>2, <1>3, <1>4, <1>5 DEF SetupInv, SetupTyped
  <1>8. JournalTrue'
    BY <1>2, <1>4, <1>5 DEF SetupInv, JournalTrue
  <1>9. Underway'
    <2>1. Setup!Step' = s
      BY <1>3, <1>x DEF Setup!Step
    <2>2. \A i \in 1 .. dProc.step - 1 : Setup!Steps[i] \in Setup!Names
      BY <1>s, ScriptConstants
    <2>3. \A i \in 1 .. dProc.step - 1 : Made(Setup!Steps[i])
      BY <1>p DEF SetupInv, Underway
    <2>4. \A n \in dProc.acked : n \in Setup!Names /\ dChain.fate[n] = "final"
      BY <1>t DEF SetupInv, Underway, ScriptProc
    <2> QED
      BY <1>2, <1>3, <1>4, <1>6, <1>f, <1>s, <2>1, <2>2, <2>3, <2>4 DEF Underway
  <1>10. EscrowBounded'
    BY <1>4, <1>f, ScriptConstants DEF SetupInv, EscrowBounded
  <1>11. Completed'
    <2>1. dState.complete => s = "fund_escrow" /\ dChain.gifts >= Setup!Funding
      BY <1>s, <1>f DEF SetupInv, Completed
    <2> QED
      BY <1>1, <1>2, <1>3, <1>4, <1>6, <1>a, <1>p, <2>1 DEF SetupInv, Completed
  <1>12. RightDatabase'
    BY <1>1, <1>2, <1>3, <1>5, <1>p, ScriptConstants DEF SetupInv, RightDatabase
  <1> QED
    BY <1>7, <1>8, <1>9, <1>10, <1>11, <1>12 DEF SetupInv

\* The cluster moves transactions towards their outcome, where they stay.
LEMMA FatesMove ==
    ASSUME SetupInv, UNCHANGED <<dFolder, dState, dReport, dSource, dSigned>>, dChain' \in ScriptChain,
           \A n \in Setup!Names : /\ dChain'.fate[n] = "none" <=> dChain.fate[n] = "none"
                                  /\ dChain.fate[n] = "final" => dChain'.fate[n] = "final",
           dChain'.gifts >= dChain.gifts, EscrowBounded',
           dProc' = dProc \/ (dProc.at = "send" /\ dProc' = [dProc EXCEPT !.at = "poll"])
    PROVE  SetupInv'
  <1>t. /\ dFolder \in RunFolder /\ dState \in ScriptState /\ dChain \in ScriptChain /\ dProc \in ScriptProc
        /\ dSigned \in [Setup!Names -> Nat]
    BY DEF SetupInv, SetupTyped
  <1>p. {"send", "poll"} \subseteq StepPoints \cap RunPoints \cap ScriptPoints
    BY DEF StepPoints, RunPoints, ScriptPoints, Setup!InsideTry
  <1>1. /\ dProc' \in ScriptProc /\ dProc'.step = dProc.step /\ dProc'.complete = dProc.complete
        /\ dProc'.acked = dProc.acked
        /\ dProc'.at = dProc.at \/ (dProc.at = "send" /\ dProc'.at = "poll")
    BY <1>t, <1>p DEF ScriptProc
  <1>2. \A n \in Setup!Names : Made(n) => Made(n)'
    BY <1>t DEF Made, ScriptChain, Setup!Funding
  <1>3. SetupTyped'
    BY <1>1 DEF SetupInv, SetupTyped
  <1>4. JournalTrue'
    BY DEF SetupInv, JournalTrue
  <1>5. Underway'
    <2>1. Setup!Step' = Setup!Step
      BY <1>1 DEF Setup!Step
    <2>2. dProc.at \in StepPoints => \A i \in 1 .. dProc.step - 1 : Setup!Steps[i] \in Setup!Names /\ Made(Setup!Steps[i])
      BY ScriptConstants DEF SetupInv, Underway
    <2>3. \A n \in dProc.acked : n \in Setup!Names /\ dChain.fate[n] = "final"
      BY <1>t DEF SetupInv, Underway, ScriptProc
    <2>4. /\ dProc'.at \in StepPoints => dProc.at \in StepPoints
          /\ dProc'.at = "sign" => dProc.at = "sign"
          /\ dProc'.at = "ack" => dProc.at = "ack"
          /\ dProc'.at \in {"status", "height", "send", "poll"} => dProc.at \in {"status", "height", "send", "poll"}
      BY <1>1, <1>p
    <2> QED
      BY <1>1, <1>2, <2>1, <2>2, <2>3, <2>4 DEF SetupInv, Underway
  <1>6. Completed'
    <2>1. Setup!Open' = Setup!Open
      BY DEF Setup!Open
    <2>2. dChain.gifts >= Setup!Funding => dChain'.gifts >= Setup!Funding
      BY <1>t DEF ScriptChain, Setup!Funding
    <2>3. /\ dProc'.at \in RunPoints => dProc.at \in RunPoints
          /\ dProc.at = "save" => dProc'.at = "save"
      BY <1>1, <1>p
    <2> QED
      BY <1>1, <1>2, <2>1, <2>2, <2>3 DEF SetupInv, Completed
  <1>7. RightDatabase'
    BY <1>1, <1>p DEF SetupInv, RightDatabase
  <1> QED
    BY <1>3, <1>4, <1>5, <1>6, <1>7 DEF SetupInv

LEMMA SendKeeps == ASSUME SetupInv, Setup!Send PROVE SetupInv'
  <1>a. dProc.at = "send" /\ UNCHANGED <<dState, dReport, dSource, dSigned, dFolder>>
    BY DEF Setup!Send, Setup!At, Setup!Throw
  <1>t. dState \in ScriptState /\ dChain \in ScriptChain /\ dState.record[Setup!Step] = "open"
    BY <1>a DEF SetupInv, SetupTyped, Underway
  <1>p. dProc.at \in StepPoints /\ dProc.at \in RunPoints /\ "save" \in ScriptPoints \cap RunPoints /\ "save" \notin StepPoints
    BY <1>a DEF StepPoints, RunPoints, ScriptPoints, Setup!InsideTry
  <1>1. CASE dProc' = [dProc EXCEPT !.at = "save"] /\ dChain' = dChain
    BY <1>1, <1>a, <1>t, <1>p, ScriptGoes
  <1>2. CASE /\ dChain.fate[Setup!Step] \in {"signed", "sent"} /\ dProc' = [dProc EXCEPT !.at = "poll"]
             /\ dChain' = [dChain EXCEPT !.fate[Setup!Step] = "sent"]
    <2>1. Setup!Step \in Setup!Names
      BY <1>p, StepNamed
    <2>2. /\ dChain' \in ScriptChain /\ dChain'.escrow = dChain.escrow /\ dChain'.gifts = dChain.gifts
          /\ \A n \in Setup!Names : dChain'.fate[n] = IF n = Setup!Step THEN "sent" ELSE dChain.fate[n]
      BY <1>2, <1>t, <2>1 DEF ScriptChain, Fates
    <2>3. EscrowBounded'
      BY <1>2, <2>2, ScriptConstants DEF SetupInv, EscrowBounded
    <2>4. dChain'.gifts >= dChain.gifts
      BY <2>2, <1>t DEF ScriptChain
    <2> QED
      BY <1>2, <1>a, <2>2, <2>3, <2>4, FatesMove
  <1> QED
    BY <1>1, <1>2 DEF Setup!Send, Setup!Go, Setup!Throw

\* Steps of the cluster and of others.
LEMMA SettleKeeps == ASSUME SetupInv, NEW m \in Setup!Names, Setup!Settle(m) PROVE SetupInv'
  <1>t. dChain \in ScriptChain /\ dChain.escrow \in Nat /\ dChain.gifts \in Nat
    BY DEF SetupInv, SetupTyped, ScriptChain
  <1>1. dChain.fate[m] \in {"signed", "sent"} /\ UNCHANGED <<dFolder, dState, dReport, dProc, dSource, dSigned>>
    BY DEF Setup!Settle
  <1>2. ASSUME NEW outcome \in {"final", "failed", "lapsed"}, NEW after \in Nat,
               dChain' = [dChain EXCEPT !.fate = [dChain.fate EXCEPT ![m] = outcome], !.escrow = after],
               after = dChain.escrow \/ (m = "fund_escrow" /\ outcome = "final" /\ after = dChain.escrow + Setup!Funding)
        PROVE  SetupInv'
    <2>1. /\ [dChain.fate EXCEPT ![m] = outcome] \in [Setup!Names -> Fates]
          /\ \A n \in Setup!Names : [dChain.fate EXCEPT ![m] = outcome][n] = IF n = m THEN outcome ELSE dChain.fate[n]
      BY <1>t DEF ScriptChain, Fates
    <2>2. /\ dChain' \in ScriptChain /\ dChain'.escrow = after /\ dChain'.gifts = dChain.gifts
          /\ dChain'.fate = [dChain.fate EXCEPT ![m] = outcome]
      BY <1>2, <1>t, <2>1 DEF ScriptChain
    <2>3. EscrowBounded'
      <3>1. dChain.escrow <= dChain.gifts + (IF dChain.fate["fund_escrow"] = "final" THEN Setup!Funding ELSE 0)
        BY DEF SetupInv, EscrowBounded
      <3>2. dChain'.fate["fund_escrow"] = IF m = "fund_escrow" THEN outcome ELSE dChain.fate["fund_escrow"]
        BY <2>1, <2>2, ScriptConstants
      <3> QED
        BY <1>1, <1>2, <1>t, <2>2, <3>1, <3>2 DEF EscrowBounded, Setup!Funding
    <2>4. dChain'.gifts >= dChain.gifts
      BY <2>2, <1>t
    <2> QED
      BY <1>1, <2>1, <2>2, <2>3, <2>4, FatesMove
  <1>3. CASE dChain' = [dChain EXCEPT !.fate[m] = "final",
                                      !.escrow = IF m = "fund_escrow" THEN @ + Setup!Funding ELSE @]
    <2>1. dChain.escrow + Setup!Funding \in Nat
      BY <1>t DEF Setup!Funding
    <2>2. dChain' = [dChain EXCEPT !.fate = [dChain.fate EXCEPT ![m] = "final"],
                                   !.escrow = IF m = "fund_escrow" THEN dChain.escrow + Setup!Funding ELSE dChain.escrow]
      BY <1>3, <1>t DEF ScriptChain
    <2> QED
      BY <1>2, <1>t, <2>1, <2>2
  <1>4. ASSUME NEW outcome \in {"failed", "lapsed"}, dChain' = [dChain EXCEPT !.fate[m] = outcome]
        PROVE  SetupInv'
    <2>1. dChain' = [dChain EXCEPT !.fate = [dChain.fate EXCEPT ![m] = outcome], !.escrow = dChain.escrow]
      BY <1>4, <1>t DEF ScriptChain
    <2> QED
      BY <1>2, <1>t, <2>1
  <1> QED
    BY <1>3, <1>4 DEF Setup!Settle

LEMMA OthersKeep ==
    ASSUME SetupInv, Setup!ProgramMoves \/ Setup!Deposit \/ Setup!Use \/ Setup!SourceGrows
    PROVE  SetupInv'
  <1>t. /\ dFolder \in RunFolder /\ dState \in ScriptState /\ dChain \in ScriptChain /\ dProc \in ScriptProc
        /\ dSource \in Nat /\ dChain.escrow \in Nat /\ dChain.gifts \in Nat
    BY DEF SetupInv, SetupTyped, ScriptChain
  <1>1. CASE Setup!ProgramMoves
    <2>1. /\ dChain' \in ScriptChain /\ dChain'.fate = dChain.fate /\ dChain'.escrow = dChain.escrow
          /\ dChain'.gifts = dChain.gifts /\ UNCHANGED <<dFolder, dState, dReport, dProc, dSource, dSigned>>
      BY <1>1, <1>t DEF Setup!ProgramMoves, ScriptChain
    <2>2. EscrowBounded' /\ dChain'.gifts >= dChain.gifts
      BY <2>1, <1>t DEF SetupInv, EscrowBounded
    <2> QED
      BY <2>1, <2>2, FatesMove
  <1>2. CASE Setup!Deposit
    <2>1. PICK amount \in {1, Setup!Funding} : dChain' = [dChain EXCEPT !.escrow = @ + amount, !.gifts = @ + amount]
      BY <1>2 DEF Setup!Deposit
    <2>2. /\ dChain' \in ScriptChain /\ dChain'.fate = dChain.fate /\ dChain'.escrow = dChain.escrow + amount
          /\ dChain'.gifts = dChain.gifts + amount
      <3>1. dChain.escrow + amount \in Nat /\ dChain.gifts + amount \in Nat
        BY <1>t DEF Setup!Funding
      <3> QED
        BY <2>1, <3>1, <1>t DEF ScriptChain
    <2>3. EscrowBounded' /\ dChain'.gifts >= dChain.gifts
      BY <2>2, <1>t DEF SetupInv, EscrowBounded, Setup!Funding
    <2>4. UNCHANGED <<dFolder, dState, dReport, dProc, dSource, dSigned>>
      BY <1>2 DEF Setup!Deposit
    <2> QED
      BY <2>2, <2>3, <2>4, FatesMove
  <1>3. CASE Setup!Use
    <2>1. dState.complete /\ dProc.at = "off" /\ UNCHANGED <<dState, dReport, dProc, dSource, dSigned>>
      BY <1>3 DEF Setup!Use, Setup!Running
    <2>2. CASE dChain.escrow > 0 /\ dChain' = [dChain EXCEPT !.escrow = @ - 1] /\ dFolder' = dFolder
      <3>1. /\ dChain' \in ScriptChain /\ dChain'.fate = dChain.fate /\ dChain'.escrow = dChain.escrow - 1
            /\ dChain'.gifts = dChain.gifts
        BY <2>2, <1>t DEF ScriptChain
      <3>2. EscrowBounded' /\ dChain'.gifts >= dChain.gifts
        BY <3>1, <1>t DEF SetupInv, EscrowBounded, Setup!Funding
      <3> QED
        BY <2>1, <2>2, <3>1, <3>2, FatesMove
    <2>3. CASE dFolder' = [dFolder EXCEPT !.database = @ + 1] /\ dChain' = dChain
      <3>1. dFolder' \in RunFolder /\ dFolder'.manifest = dFolder.manifest
        BY <2>3, <1>t DEF RunFolder
      <3>2. RightDatabase'
        BY <2>1, <3>1, OffScript DEF SetupInv, RightDatabase
      <3>3. SetupTyped' /\ JournalTrue' /\ EscrowBounded'
        BY <2>1, <2>3, <3>1 DEF SetupInv, SetupTyped, JournalTrue, EscrowBounded
      <3>4. \A n : Made(n)' <=> Made(n)
        BY <2>3 DEF Made
      <3>5. Underway' /\ Completed'
        BY <2>1, <2>3, <3>4 DEF SetupInv, Underway, Completed, Setup!Step, Setup!Open
      <3> QED
        BY <3>2, <3>3, <3>5 DEF SetupInv
    <2> QED
      BY <1>3, <2>2, <2>3 DEF Setup!Use
  <1>4. CASE Setup!SourceGrows
    <2>1. dSource' = 2 /\ UNCHANGED <<dFolder, dState, dReport, dProc, dChain, dSigned>>
      BY <1>4 DEF Setup!SourceGrows
    <2>2. SetupTyped' /\ JournalTrue' /\ EscrowBounded' /\ RightDatabase'
      BY <2>1 DEF SetupInv, SetupTyped, JournalTrue, EscrowBounded, RightDatabase
    <2>3. \A n : Made(n)' <=> Made(n)
      BY <2>1 DEF Made
    <2>4. Underway' /\ Completed'
      BY <2>1, <2>3 DEF SetupInv, Underway, Completed, Setup!Step, Setup!Open
    <2> QED
      BY <2>2, <2>4 DEF SetupInv
  <1> QED
    BY <1>1, <1>2, <1>3, <1>4

LEMMA SaveKeeps == ASSUME SetupInv, Setup!SaveState PROVE SetupInv'
  <1>t. dState \in ScriptState /\ dProc \in ScriptProc
    BY DEF SetupInv, SetupTyped
  <1>1. /\ dProc.at = "save" /\ dProc' = [dProc EXCEPT !.at = "report"]
        /\ dState' = [dState EXCEPT !.complete = dProc.complete,
                          !.record = [n \in Setup!Names |-> IF n \in dProc.acked THEN "finalized" ELSE @[n]]]
        /\ UNCHANGED <<dFolder, dReport, dChain, dSource, dSigned>>
    BY DEF Setup!SaveState, Setup!At, Setup!Go
  <1>p. {"save", "report"} \subseteq RunPoints \cap ScriptPoints /\ "report" \notin StepPoints
    BY DEF StepPoints, RunPoints, ScriptPoints, Setup!InsideTry
  <1>2. /\ dState' \in ScriptState /\ dState'.complete = dProc.complete
        /\ \A n \in Setup!Names : dState'.record[n] = IF n \in dProc.acked THEN "finalized" ELSE dState.record[n]
    BY <1>1, <1>t DEF ScriptState, ScriptProc
  <1>3. /\ dProc' \in ScriptProc /\ dProc'.at = "report" /\ dProc'.complete = dProc.complete /\ dProc'.acked = dProc.acked
    BY <1>1, <1>t, <1>p DEF ScriptProc
  <1>4. \A n : Made(n)' <=> Made(n)
    BY <1>1 DEF Made
  <1>5. \A n \in dProc.acked : n \in Setup!Names /\ dChain.fate[n] = "final"
    BY <1>t DEF SetupInv, Underway, ScriptProc
  <1>6. SetupTyped'
    BY <1>1, <1>2, <1>3 DEF SetupInv, SetupTyped
  <1>7. JournalTrue'
    BY <1>1, <1>2, <1>5 DEF SetupInv, JournalTrue
  <1>8. Underway' /\ EscrowBounded'
    BY <1>1, <1>3, <1>5, <1>p DEF SetupInv, Underway, EscrowBounded
  <1>9. Completed'
    <2>1. ASSUME dProc.complete, NEW n \in Setup!Names
          PROVE  \/ dChain.fate[n] = "final" /\ dState'.record[n] = "finalized"
                 \/ n = "fund_escrow" /\ dChain.gifts >= Setup!Funding
      <3>1. CASE n \in dProc.acked
        BY <3>1, <1>2, <1>5
      <3>2. CASE n \notin dProc.acked /\ dState.complete
        BY <3>2, <1>2 DEF SetupInv, Completed
      <3>3. CASE n \notin dProc.acked /\ ~dState.complete
        <4>1. Made(n) /\ dState.record[n] # "open"
          BY <2>1, <3>3 DEF SetupInv, Completed, Setup!Open
        <4>2. dChain.fate[n] = "final" => dState.record[n] # "none"
          BY DEF SetupInv, JournalTrue
        <4>3. dState.record[n] \in {"none", "open", "finalized"}
          BY <1>t DEF ScriptState
        <4> QED
          BY <3>3, <4>1, <4>2, <4>3, <1>2 DEF Made
      <3> QED
        BY <3>1, <3>2, <3>3
    <2>2. dProc.complete => \A n \in Setup!Names : Made(n)
      BY DEF SetupInv, Completed
    <2>3. dReport = "complete" => dProc.complete
      BY <1>1, <1>p DEF SetupInv, Completed
    <2> QED
      BY <1>1, <1>2, <1>3, <1>4, <2>1, <2>2, <2>3 DEF Completed
  <1>10. RightDatabase'
    <2>1. dFolder.database = dFolder.manifest /\ dFolder.manifest > 0
      BY <1>1, <1>p DEF SetupInv, RightDatabase
    <2> QED
      BY <1>1, <1>3, <2>1 DEF RightDatabase
  <1> QED
    BY <1>6, <1>7, <1>8, <1>9, <1>10 DEF SetupInv

LEMMA ReportKeeps == ASSUME SetupInv, Setup!WriteReport PROVE SetupInv'
  <1>t. dFolder \in RunFolder /\ dProc \in ScriptProc
    BY DEF SetupInv, SetupTyped
  <1>1. /\ dProc.at = "report" /\ dProc' = Setup!Off /\ dFolder' = [dFolder EXCEPT !.lock = FALSE]
        /\ dReport' = IF dProc.was THEN dReport ELSE IF dProc.complete THEN "complete" ELSE "incomplete"
        /\ UNCHANGED <<dState, dChain, dSource, dSigned>>
    BY DEF Setup!WriteReport, Setup!At, Setup!Quit
  <1>2. dFolder' \in RunFolder /\ dFolder'.database = dFolder.database /\ dFolder'.manifest = dFolder.manifest
    BY <1>1, <1>t DEF RunFolder
  <1>3. \A n : Made(n)' <=> Made(n)
    BY <1>1 DEF Made
  <1>4. SetupTyped'
    BY <1>1, <1>2, OffScript DEF SetupInv, SetupTyped
  <1>5. JournalTrue' /\ EscrowBounded'
    BY <1>1 DEF SetupInv, JournalTrue, EscrowBounded
  <1>6. Underway'
    BY <1>1, OffScript DEF Underway
  <1>7. Completed'
    <2>1. dProc.complete => dState.complete
      BY <1>1 DEF SetupInv, Completed
    <2>2. dReport' = "complete" => dState.complete
      BY <1>1, <2>1 DEF SetupInv, Completed
    <2> QED
      BY <1>1, <1>3, <2>2, OffScript DEF SetupInv, Completed
  <1>8. RightDatabase'
    BY <1>1, <1>2, OffScript DEF SetupInv, RightDatabase
  <1> QED
    BY <1>4, <1>5, <1>6, <1>7, <1>8 DEF SetupInv

LEMMA SetupNext == SetupInv /\ (Setup!Next \/ UNCHANGED setupVars) => SetupInv'
  <1> SUFFICES ASSUME SetupInv, Setup!Next \/ UNCHANGED setupVars PROVE SetupInv'
    OBVIOUS
  <1>1. CASE UNCHANGED setupVars
    <2>1. \A n : Made(n)' <=> Made(n)
      BY <1>1 DEF Made, setupVars
    <2>2. SetupTyped' /\ JournalTrue' /\ EscrowBounded' /\ RightDatabase'
      BY <1>1 DEF SetupInv, SetupTyped, JournalTrue, EscrowBounded, RightDatabase, setupVars
    <2>3. Underway' /\ Completed'
      BY <1>1, <2>1 DEF SetupInv, Underway, Completed, Setup!Step, Setup!Open, setupVars
    <2> QED
      BY <2>2, <2>3 DEF SetupInv
  <1>2. CASE Setup!Prepare \/ Setup!ImportEnrollment \/ Setup!Run \/ Setup!RunCheck
    <2>1. dSource \in Nat /\ dFolder.manifest \in Nat
      BY DEF SetupInv, SetupTyped, RunFolder
    <2> QED
      BY <1>2, <2>1, StartKeeps DEF Setup!Prepare, Setup!ImportEnrollment, Setup!Run, Setup!RunCheck, Setup!Prepared
  <1>3. CASE \/ Setup!Compare \/ Setup!Preflight \/ Setup!Check \/ Setup!ReadHeight \/ Setup!Verify \/ Setup!Ack
             \/ Setup!Fault \/ Setup!Die \/ Setup!RemoveLock
    <2>1. UNCHANGED <<dState, dReport, dChain, dSource, dSigned>>
      BY <1>3 DEF Setup!Compare, Setup!Preflight, Setup!Check, Setup!ReadHeight, Setup!Verify, Setup!Ack,
                  Setup!Fault, Setup!Die, Setup!RemoveLock
    <2> QED
      BY <1>3, <2>1, QuietKeeps
  <1>4. CASE Setup!Script
    <2>1. CASE Setup!Import \/ Setup!Copy \/ Setup!WriteKeys \/ Setup!WriteManifest
      BY <2>1, FolderKeeps
    <2>2. CASE Setup!Deploy \/ Setup!CallCLI \/ Setup!SaveSignature \/ Setup!Live
      BY <2>2, DeployKeeps
    <2>3. CASE Setup!ReadStatus \/ Setup!Poll
      BY <2>3, StatusKeeps
    <2> QED
      BY <1>3, <1>4, <2>1, <2>2, <2>3, SignKeeps, SendKeeps, SaveKeeps, ReportKeeps DEF Setup!Script
  <1>5. CASE Setup!Cluster
    BY <1>5, SettleKeeps, OthersKeep DEF Setup!Cluster
  <1>6. CASE Setup!Deposit \/ Setup!Use \/ Setup!SourceGrows
    BY <1>6, OthersKeep
  <1> QED
    BY <1>1, <1>2, <1>3, <1>4, <1>5, <1>6 DEF Setup!Next

LEMMA SetupInit == ASSUME Setup!Init PROVE SetupInv
  <1>1. /\ dFolder \in RunFolder /\ dReport = "none" /\ dProc = Setup!Off /\ dSource = 1
        /\ dState = [record |-> [n \in Setup!Names |-> "none"], attempted |-> FALSE, signature |-> FALSE, complete |-> FALSE]
        /\ dChain = [program |-> "none", fate |-> [n \in Setup!Names |-> "none"], escrow |-> 0, gifts |-> 0]
        /\ dSigned = [n \in Setup!Names |-> 0]
    <2>1. dFolder \in {[lock |-> FALSE, database |-> 0, keys |-> FALSE, manifest |-> 0],
                       [lock |-> FALSE, database |-> 0, keys |-> TRUE, manifest |-> 1]}
      BY DEF Setup!Init
    <2>2. /\ [lock |-> FALSE, database |-> 0, keys |-> FALSE, manifest |-> 0] \in RunFolder
          /\ [lock |-> FALSE, database |-> 0, keys |-> TRUE, manifest |-> 1] \in RunFolder
      BY DEF RunFolder
    <2> QED
      BY <2>1, <2>2 DEF Setup!Init
  <1>2. SetupTyped
    BY <1>1, OffScript DEF SetupTyped, ScriptState, ScriptChain, Fates
  <1>3. JournalTrue /\ Underway /\ EscrowBounded
    BY <1>1, OffScript, ScriptConstants DEF JournalTrue, Underway, EscrowBounded, Setup!Funding
  <1>4. Completed /\ RightDatabase
    BY <1>1, OffScript, ScriptConstants DEF Completed, RightDatabase
  <1> QED
    BY <1>2, <1>3, <1>4 DEF SetupInv

\* However often the setup dies, fails and is resumed, for every list of steps:
\* one transaction is signed for each; a complete state has each of them final and
\* acknowledged, but for an escrow that others have funded; a complete report is
\* of a complete state; the root on its way to the chain is the one of the
\* runtime database.
THEOREM SetupsAreSound == OperatorSpec => []SetupSound
  <1>1. OperatorInit => SetupInv
    BY SetupInit DEF OperatorInit
  <1>2. SetupInv /\ [OperatorNext]_allVars => SetupInv'
    <2>1. [OperatorNext]_allVars => Setup!Next \/ UNCHANGED setupVars
      BY DEF OperatorNext, allVars, Roots, Script, Replay
    <2> QED
      BY <2>1, SetupNext
  <1>3. SetupInv => SetupSound
    <2>1. SetupInv => \A n \in Setup!Names : dSigned[n] <= 1
      BY DEF SetupInv, JournalTrue
    <2>2. SetupInv => /\ dReport = "complete" => dState.complete
                      /\ dState.complete => \A n \in Setup!Names :
                            \/ dChain.fate[n] = "final" /\ dState.record[n] = "finalized"
                            \/ n = "fund_escrow" /\ dChain.gifts >= Setup!Funding
      BY DEF SetupInv, Completed
    <2>3. SetupInv => (dSigned["root"] > 0 /\ ~dState.complete => dFolder.database = dFolder.manifest)
      BY DEF SetupInv, RightDatabase
    <2> QED
      BY <2>1, <2>2, <2>3 DEF SetupSound, Setup!SetupSound
  <1> QED
    BY <1>1, <1>2, <1>3, PTL DEF OperatorSpec

-----------------------------------------------------------------------------
(* Confidence reports. *)

\* What holds of zero and of each number's successor holds up to any bound.
LEMMA Upward ==
    ASSUME NEW N \in Nat, NEW S, 0 \in S, \A n \in 0 .. N - 1 : n \in S => n + 1 \in S
    PROVE  \A n \in 0 .. N : n \in S
  <1> DEFINE bad == {n \in 0 .. N : n \notin S}
  <1> SUFFICES ASSUME bad # {} PROVE FALSE
    OBVIOUS
  <1>1. bad \in SUBSET Nat
    OBVIOUS
  <1>2. PICK m \in bad : \A n \in bad : m <= n
    BY <1>1, LeastOf
  <1>3. m \in 1 .. N
    OBVIOUS
  <1>4. m - 1 \in S
    BY <1>2, <1>3
  <1> QED
    BY <1>3, <1>4

-----------------------------------------------------------------------------
(* The recursive functions of the tree are what their equations say. *)

\* The powers of two exist.
LEMMA PowerExists ==
    ASSUME Depth \in Nat
    PROVE  \E f : f = [l \in 0 .. Depth |-> IF l = 0 THEN 1 ELSE 2 * f[l - 1]]
  <1> DEFINE Upto(d, f) == f = [l \in 0 .. d |-> IF l = 0 THEN 1 ELSE 2 * f[l - 1]]
             S == {d \in 0 .. Depth : \E f : Upto(d, f)}
  <1>1. 0 \in S
    <2>1. Upto(0, [l \in 0 .. 0 |-> 1])
      OBVIOUS
    <2>2. 0 \in 0 .. Depth
      OBVIOUS
    <2> HIDE DEF Upto
    <2> QED
      BY <2>1, <2>2
  <1>2. ASSUME NEW d \in 0 .. Depth - 1, d \in S PROVE d + 1 \in S
    <2>1. PICK f : Upto(d, f)
      BY <1>2
    <2> DEFINE g == [l \in 0 .. d + 1 |-> IF l = d + 1 THEN 2 * f[d] ELSE f[l]]
    <2>2. Upto(d + 1, g)
      BY <2>1
    <2> HIDE DEF g, Upto
    <2> QED
      BY <2>2
  <1> HIDE DEF S
  <1>3. Depth \in S
    <2>1. \A l \in 0 .. Depth : l \in S
      BY <1>1, <1>2, Upward
    <2> QED
      BY <2>1
  <1> QED
    BY <1>3 DEF S

\* The shifted counts exist.
LEMMA ShiftedExists ==
    ASSUME Depth \in Nat, NEW n
    PROVE  \E f : f = [l \in 0 .. Depth |-> IF l = 0 THEN n ELSE f[l - 1] \div 2]
  <1> DEFINE Upto(d, f) == f = [l \in 0 .. d |-> IF l = 0 THEN n ELSE f[l - 1] \div 2]
             S == {d \in 0 .. Depth : \E f : Upto(d, f)}
  <1>1. 0 \in S
    <2>1. Upto(0, [l \in 0 .. 0 |-> n])
      OBVIOUS
    <2>2. 0 \in 0 .. Depth
      OBVIOUS
    <2> HIDE DEF Upto
    <2> QED
      BY <2>1, <2>2
  <1>2. ASSUME NEW d \in 0 .. Depth - 1, d \in S PROVE d + 1 \in S
    <2>1. PICK f : Upto(d, f)
      BY <1>2
    <2> DEFINE g == [l \in 0 .. d + 1 |-> IF l = d + 1 THEN f[d] \div 2 ELSE f[l]]
    <2>2. Upto(d + 1, g)
      BY <2>1
    <2> HIDE DEF g, Upto
    <2> QED
      BY <2>2
  <1> HIDE DEF S
  <1>3. Depth \in S
    <2>1. \A l \in 0 .. Depth : l \in S
      BY <1>1, <1>2, Upward
    <2> QED
      BY <2>1
  <1> QED
    BY <1>3 DEF S

\* The climb exists.
LEMMA PathExists ==
    ASSUME Depth \in Nat, NEW start
    PROVE  \E f : f = [l \in 0 .. Depth |-> IF l = 0 THEN start ELSE Reports!Climb(f[l - 1], l - 1)]
  <1> DEFINE Upto(d, f) == f = [l \in 0 .. d |-> IF l = 0 THEN start ELSE Reports!Climb(f[l - 1], l - 1)]
             S == {d \in 0 .. Depth : \E f : Upto(d, f)}
  <1>1. 0 \in S
    <2>1. Upto(0, [l \in 0 .. 0 |-> start])
      OBVIOUS
    <2>2. 0 \in 0 .. Depth
      OBVIOUS
    <2> HIDE DEF Upto
    <2> QED
      BY <2>1, <2>2
  <1>2. ASSUME NEW d \in 0 .. Depth - 1, d \in S PROVE d + 1 \in S
    <2>1. PICK f : Upto(d, f)
      BY <1>2
    <2> DEFINE g == [l \in 0 .. d + 1 |-> IF l = d + 1 THEN Reports!Climb(f[d], d) ELSE f[l]]
    <2>2. Upto(d + 1, g)
      BY <2>1
    <2> HIDE DEF g, Upto
    <2> QED
      BY <2>2
  <1> HIDE DEF S
  <1>3. Depth \in S
    <2>1. \A l \in 0 .. Depth : l \in S
      BY <1>1, <1>2, Upward
    <2> QED
      BY <2>1
  <1> QED
    BY <1>3 DEF S

\* The level above a level of the complete tree.
Joined(below) == [i \in Nat |-> Reports!Node(below[2 * i], below[2 * i + 1])]

\* The complete tree exists.
LEMMA NodesExists ==
    ASSUME Depth \in Nat, NEW bottom
    PROVE  \E f : f = [l \in 0 .. Depth |-> IF l = 0 THEN bottom ELSE Joined(f[l - 1])]
  <1> DEFINE Upto(d, f) == f = [l \in 0 .. d |-> IF l = 0 THEN bottom ELSE Joined(f[l - 1])]
             S == {d \in 0 .. Depth : \E f : Upto(d, f)}
  <1>1. 0 \in S
    <2>1. Upto(0, [l \in 0 .. 0 |-> bottom])
      OBVIOUS
    <2>2. 0 \in 0 .. Depth
      OBVIOUS
    <2> HIDE DEF Upto
    <2> QED
      BY <2>1, <2>2
  <1>2. ASSUME NEW d \in 0 .. Depth - 1, d \in S PROVE d + 1 \in S
    <2>1. PICK f : Upto(d, f)
      BY <1>2
    <2> DEFINE g == [l \in 0 .. d + 1 |-> IF l = d + 1 THEN Joined(f[d]) ELSE f[l]]
    <2>2. Upto(d + 1, g)
      BY <2>1
    <2> HIDE DEF g, Upto
    <2> QED
      BY <2>2
  <1> HIDE DEF S
  <1>3. Depth \in S
    <2>1. \A l \in 0 .. Depth : l \in S
      BY <1>1, <1>2, Upward
    <2> QED
      BY <2>1
  <1> QED
    BY <1>3 DEF S

\* The rebuilt trees exist.
LEMMA RebuiltExists ==
    ASSUME NEW N \in Nat, NEW order
    PROVE  \E f : f = [l \in 0 .. N |-> IF l = 0 THEN Reports!EmptyTree ELSE Reports!Appended(order[l], f[l - 1])]
  <1> DEFINE Upto(d, f) == f = [l \in 0 .. d |-> IF l = 0 THEN Reports!EmptyTree ELSE Reports!Appended(order[l], f[l - 1])]
             S == {d \in 0 .. N : \E f : Upto(d, f)}
  <1>1. 0 \in S
    <2>1. Upto(0, [l \in 0 .. 0 |-> Reports!EmptyTree])
      OBVIOUS
    <2>2. 0 \in 0 .. N
      OBVIOUS
    <2> HIDE DEF Upto
    <2> QED
      BY <2>1, <2>2
  <1>2. ASSUME NEW d \in 0 .. N - 1, d \in S PROVE d + 1 \in S
    <2>1. PICK f : Upto(d, f)
      BY <1>2
    <2> DEFINE g == [l \in 0 .. d + 1 |-> IF l = d + 1 THEN Reports!Appended(order[d + 1], f[d]) ELSE f[l]]
    <2>2. Upto(d + 1, g)
      BY <2>1
    <2> HIDE DEF g, Upto
    <2> QED
      BY <2>2
  <1> HIDE DEF S
  <1>3. N \in S
    <2>1. \A l \in 0 .. N : l \in S
      BY <1>1, <1>2, Upward
    <2> QED
      BY <2>1
  <1> QED
    BY <1>3 DEF S

LEMMA PowerIs ==
    ASSUME Depth \in Nat
    PROVE  /\ Reports!Power[0] = 1
           /\ \A l \in 1 .. Depth : Reports!Power[l] = 2 * Reports!Power[l - 1]
           /\ \A l \in 0 .. Depth : Reports!Power[l] \in Nat \ {0}
  <1>1. Reports!Power = [l \in 0 .. Depth |-> IF l = 0 THEN 1 ELSE 2 * Reports!Power[l - 1]]
    BY PowerExists, Zenon DEF Reports!Power
  <1> DEFINE p == Reports!Power
             S == {l \in 0 .. Depth : p[l] \in Nat \ {0}}
  <1> HIDE DEF p
  <1>2. p = [l \in 0 .. Depth |-> IF l = 0 THEN 1 ELSE 2 * p[l - 1]]
    BY <1>1, Zenon DEF p
  <1>3. p[0] = 1 /\ \A l \in 1 .. Depth : p[l] = 2 * p[l - 1]
    BY <1>2
  <1>4. 0 \in S /\ \A l \in 0 .. Depth - 1 : l \in S => l + 1 \in S
    BY <1>3
  <1> HIDE DEF S
  <1>5. \A l \in 0 .. Depth : l \in S
    BY <1>4, Upward
  <1> QED
    BY <1>3, <1>5 DEF p, S

LEMMA ShiftedIs ==
    ASSUME Depth \in Nat, NEW n \in Nat
    PROVE  /\ Reports!Shifted(n)[0] = n
           /\ \A l \in 0 .. Depth - 1 : Reports!Shifted(n)[l + 1] = Reports!Shifted(n)[l] \div 2
           /\ \A l \in 0 .. Depth : Reports!Shifted(n)[l] \in Nat
  <1> DEFINE h == Reports!Shifted(n)
             S == {l \in 0 .. Depth : h[l] \in Nat}
  <1>1. h = [l \in 0 .. Depth |-> IF l = 0 THEN n ELSE h[l - 1] \div 2]
    BY ShiftedExists, Zenon DEF Reports!Shifted
  <1> HIDE DEF h
  <1>3. h[0] = n /\ \A l \in 0 .. Depth - 1 : h[l + 1] = h[l] \div 2
    BY <1>1
  <1>4. 0 \in S /\ \A l \in 0 .. Depth - 1 : l \in S => l + 1 \in S
    BY <1>3
  <1> HIDE DEF S
  <1>5. \A l \in 0 .. Depth : l \in S
    BY <1>4, Upward
  <1> QED
    BY <1>3, <1>5 DEF h, S

\* Where a climb starts, and what a level of it changes.
Start(t, state) == [count |-> state.count, node |-> Reports!Leaf(t), zero |-> Reports!Empty, frontier |-> state.frontier]

LEMMA StartIs ==
    ASSUME NEW t, NEW state
    PROVE  /\ Start(t, state).count = state.count /\ Start(t, state).node = Reports!Leaf(t)
           /\ Start(t, state).zero = Reports!Empty /\ Start(t, state).frontier = state.frontier
  BY DEF Start

LEMMA ClimbIs ==
    ASSUME NEW x, NEW l
    PROVE  /\ Reports!Climb(x, l).count = x.count
           /\ Reports!Climb(x, l).zero = Reports!Node(x.zero, x.zero)
           /\ Reports!BitIsClear(x.count, l) =>
                 /\ Reports!Climb(x, l).node = Reports!Node(x.node, x.zero)
                 /\ Reports!Climb(x, l).frontier = [x.frontier EXCEPT ![l] = x.node]
           /\ ~Reports!BitIsClear(x.count, l) =>
                 /\ Reports!Climb(x, l).node = Reports!Node(x.frontier[l], x.node)
                 /\ Reports!Climb(x, l).frontier = x.frontier
  BY DEF Reports!Climb

LEMMA PathIs ==
    ASSUME Depth \in Nat, NEW t, NEW state
    PROVE  /\ Reports!Path(t, state)[0] = Start(t, state)
           /\ \A l \in 0 .. Depth - 1 : Reports!Path(t, state)[l + 1] = Reports!Climb(Reports!Path(t, state)[l], l)
  <1> DEFINE up == Reports!Path(t, state)
             start == Start(t, state)
  <1>1. up = [l \in 0 .. Depth |-> IF l = 0 THEN start ELSE Reports!Climb(up[l - 1], l - 1)]
    BY PathExists, Zenon DEF Reports!Path, Start
  <1> HIDE DEF up, start
  <1>2. up[0] = start /\ \A l \in 0 .. Depth - 1 : up[l + 1] = Reports!Climb(up[l], l)
    BY <1>1
  <1> QED
    BY <1>2 DEF up, start

LEMMA NodesAre ==
    ASSUME Depth \in Nat, NEW order
    PROVE  /\ \A i \in Nat : Reports!Nodes(order)[0][i] = IF i < Len(order) THEN Reports!Leaf(order[i + 1]) ELSE Reports!Empty
           /\ \A l \in 0 .. Depth - 1 : \A i \in Nat :
                 Reports!Nodes(order)[l + 1][i] = Reports!Node(Reports!Nodes(order)[l][2 * i], Reports!Nodes(order)[l][2 * i + 1])
  <1> DEFINE tier == Reports!Nodes(order)
             bottom == [i \in Nat |-> IF i < Len(order) THEN Reports!Leaf(order[i + 1]) ELSE Reports!Empty]
  <1>1. tier = [l \in 0 .. Depth |-> IF l = 0 THEN bottom ELSE Joined(tier[l - 1])]
    <2>1. tier = CHOOSE f : f = [l \in 0 .. Depth |-> IF l = 0 THEN bottom ELSE Joined(f[l - 1])]
      BY Zenon DEF Reports!Nodes, Joined
    <2> HIDE DEF tier, bottom
    <2> QED
      BY <2>1, NodesExists, ZenonT(90)
  <1> HIDE DEF tier, bottom
  <1>2. tier[0] = bottom /\ \A l \in 0 .. Depth - 1 : tier[l + 1] = Joined(tier[l])
    BY <1>1
  <1>3. \A l \in 0 .. Depth - 1 : \A i \in Nat : tier[l + 1][i] = Reports!Node(tier[l][2 * i], tier[l][2 * i + 1])
    BY <1>2 DEF Joined
  <1> QED
    BY <1>2, <1>3 DEF tier, bottom

LEMMA RebuiltIs ==
    ASSUME NEW order, Len(order) \in Nat
    PROVE  /\ Reports!Rebuilt(order)[0] = Reports!EmptyTree
           /\ \A n \in 0 .. Len(order) - 1 : Reports!Rebuilt(order)[n + 1] = Reports!Appended(order[n + 1], Reports!Rebuilt(order)[n])
  <1> DEFINE after == Reports!Rebuilt(order)
  <1>1. after = [n \in 0 .. Len(order) |-> IF n = 0 THEN Reports!EmptyTree ELSE Reports!Appended(order[n], after[n - 1])]
    BY RebuiltExists, ZenonT(90) DEF Reports!Rebuilt
  <1> HIDE DEF after
  <1>2. after[0] = Reports!EmptyTree /\ \A n \in 0 .. Len(order) - 1 : after[n + 1] = Reports!Appended(order[n + 1], after[n])
    BY <1>1
  <1> QED
    BY <1>2 DEF after

-----------------------------------------------------------------------------
(* The frontier computes the root of the complete tree. *)

\* Counting one on moves an index at any level by at most one.
LEMMA ShiftNext ==
    ASSUME Depth \in Nat, NEW n \in Nat
    PROVE  \A l \in 0 .. Depth : Reports!Shifted(n + 1)[l] \in {Reports!Shifted(n)[l], Reports!Shifted(n)[l] + 1}
  <1> DEFINE h == Reports!Shifted(n)
             k == Reports!Shifted(n + 1)
             S == {l \in 0 .. Depth : k[l] \in {h[l], h[l] + 1}}
  <1>1. h[0] = n /\ (\A l \in 0 .. Depth - 1 : h[l + 1] = h[l] \div 2) /\ \A l \in 0 .. Depth : h[l] \in Nat
    BY ShiftedIs, Zenon
  <1>2. k[0] = n + 1 /\ (\A l \in 0 .. Depth - 1 : k[l + 1] = k[l] \div 2) /\ \A l \in 0 .. Depth : k[l] \in Nat
    BY ShiftedIs, n + 1 \in Nat
  <1> HIDE DEF h, k
  <1>3. 0 \in S
    BY <1>1, <1>2
  <1>4. ASSUME NEW l \in 0 .. Depth - 1, l \in S PROVE l + 1 \in S
    <2>1. h[l] \in Nat /\ k[l] \in {h[l], h[l] + 1} /\ h[l + 1] = h[l] \div 2 /\ k[l + 1] = k[l] \div 2 /\ l + 1 \in 0 .. Depth
      BY <1>1, <1>2, <1>4
    <2> QED
      BY <2>1
  <1> HIDE DEF S
  <1>5. \A l \in 0 .. Depth : l \in S
    BY <1>3, <1>4, Upward
  <1> QED
    BY <1>5 DEF S, h, k

\* A count the tree has room for has no bit above the tree.
LEMMA ShiftTop ==
    ASSUME Depth \in Nat, NEW n \in Nat, n <= Reports!MaxCount
    PROVE  Reports!Shifted(n)[Depth] = 0
  <1> DEFINE h == Reports!Shifted(n)
             p == Reports!Power
             S == {l \in 0 .. Depth : h[l] < p[Depth - l]}
  <1>1. h[0] = n /\ (\A l \in 0 .. Depth - 1 : h[l + 1] = h[l] \div 2) /\ \A l \in 0 .. Depth : h[l] \in Nat
    BY ShiftedIs, Zenon
  <1>2. p[0] = 1 /\ (\A l \in 1 .. Depth : p[l] = 2 * p[l - 1]) /\ (\A l \in 0 .. Depth : p[l] \in Nat \ {0})
    BY PowerIs, Zenon
  <1>3. n < p[Depth]
    BY <1>2 DEF Reports!MaxCount
  <1> HIDE DEF h, p
  <1>4. 0 \in S
    BY <1>1, <1>3
  <1>5. ASSUME NEW l \in 0 .. Depth - 1, l \in S PROVE l + 1 \in S
    <2>1. h[l] < p[Depth - l] /\ h[l + 1] = h[l] \div 2 /\ h[l] \in Nat
      BY <1>1, <1>5
    <2>2. Depth - l \in 1 .. Depth /\ (Depth - l) - 1 = Depth - (l + 1) /\ Depth - (l + 1) \in 0 .. Depth
      OBVIOUS
    <2>3. p[Depth - l] = 2 * p[Depth - (l + 1)] /\ p[Depth - (l + 1)] \in Nat
      BY <1>2, <2>2
    <2> QED
      BY <2>1, <2>3
  <1> HIDE DEF S
  <1>6. Depth \in S
    <2>1. \A l \in 0 .. Depth : l \in S
      BY <1>4, <1>5, Upward
    <2> QED
      BY <2>1
  <1>7. h[Depth] < p[Depth - Depth] /\ Depth - Depth = 0 /\ h[Depth] \in Nat
    BY <1>1, <1>6 DEF S
  <1> QED
    BY <1>2, <1>7 DEF h

\* Right of a new leaf's path the tree is empty.
LEMMA EmptyRight ==
    ASSUME Depth \in Nat, NEW n \in Nat, NEW order, Len(order) = n + 1, NEW t, NEW state
    PROVE  \A l \in 0 .. Depth : \A j \in Nat :
              j > Reports!Shifted(n)[l] => Reports!Nodes(order)[l][j] = Reports!Path(t, state)[l].zero
  <1> DEFINE h == Reports!Shifted(n)
             tier == Reports!Nodes(order)
             up == Reports!Path(t, state)
             S == {l \in 0 .. Depth : \A j \in Nat : j > h[l] => tier[l][j] = up[l].zero}
  <1>1. h[0] = n /\ (\A l \in 0 .. Depth - 1 : h[l + 1] = h[l] \div 2) /\ \A l \in 0 .. Depth : h[l] \in Nat
    BY ShiftedIs, Zenon
  <1>2. \A l \in 0 .. Depth - 1 : \A i \in Nat : tier[l + 1][i] = Reports!Node(tier[l][2 * i], tier[l][2 * i + 1])
    BY NodesAre, Zenon
  <1>3. \A i \in Nat : tier[0][i] = IF i < Len(order) THEN Reports!Leaf(order[i + 1]) ELSE Reports!Empty
    BY NodesAre, Zenon
  <1>a. /\ up[0] = Start(t, state)
        /\ \A l \in 0 .. Depth - 1 : up[l + 1] = Reports!Climb(up[l], l)
    BY PathIs, Zenon
  <1> HIDE DEF h, tier, up
  <1>4. up[0].zero = Reports!Empty
    BY <1>a, StartIs
  <1>5. ASSUME NEW l \in 0 .. Depth - 1 PROVE up[l + 1].zero = Reports!Node(up[l].zero, up[l].zero)
    <2>1. up[l + 1] = Reports!Climb(up[l], l)
      BY <1>a
    <2>2. Reports!Climb(up[l], l).zero = Reports!Node(up[l].zero, up[l].zero)
      BY ClimbIs
    <2> QED
      BY <2>1, <2>2
  <1>6. 0 \in S
    BY <1>1, <1>3, <1>4
  <1>7. ASSUME NEW l \in 0 .. Depth - 1, l \in S PROVE l + 1 \in S
    <2> SUFFICES ASSUME NEW j \in Nat, j > h[l + 1] PROVE tier[l + 1][j] = up[l + 1].zero
      OBVIOUS
    <2>1. h[l] \in Nat /\ h[l + 1] = h[l] \div 2
      BY <1>1
    <2>2. 2 * j > h[l] /\ 2 * j + 1 > h[l] /\ 2 * j \in Nat /\ 2 * j + 1 \in Nat
      BY <2>1
    <2>3. tier[l][2 * j] = up[l].zero /\ tier[l][2 * j + 1] = up[l].zero
      BY <1>7, <2>2
    <2> QED
      BY <1>2, <1>5, <2>3
  <1> HIDE DEF S
  <1>8. \A l \in 0 .. Depth : l \in S
    BY <1>6, <1>7, Upward
  <1> QED
    BY <1>8 DEF S, h, tier, up

\* Left of a new leaf's path the tree is as it was.
LEMMA SameLeft ==
    ASSUME Depth \in Nat, NEW T, NEW order \in Seq(T), NEW t
    PROVE  \A l \in 0 .. Depth : \A j \in Nat :
              j < Reports!Shifted(Len(order))[l] => Reports!Nodes(Append(order, t))[l][j] = Reports!Nodes(order)[l][j]
  <1> DEFINE h == Reports!Shifted(Len(order))
             before == Reports!Nodes(order)
             next == Append(order, t)
             after == Reports!Nodes(next)
             S == {l \in 0 .. Depth : \A j \in Nat : j < h[l] => after[l][j] = before[l][j]}
  <1>0. Len(order) \in Nat
    OBVIOUS
  <1>1. h[0] = Len(order) /\ (\A l \in 0 .. Depth - 1 : h[l + 1] = h[l] \div 2) /\ \A l \in 0 .. Depth : h[l] \in Nat
    BY <1>0, ShiftedIs, Zenon
  <1>2. \A l \in 0 .. Depth - 1 : \A i \in Nat : before[l + 1][i] = Reports!Node(before[l][2 * i], before[l][2 * i + 1])
    BY NodesAre, Zenon
  <1>3. \A l \in 0 .. Depth - 1 : \A i \in Nat : after[l + 1][i] = Reports!Node(after[l][2 * i], after[l][2 * i + 1])
    BY NodesAre, Zenon
  <1>4. \A i \in Nat : before[0][i] = IF i < Len(order) THEN Reports!Leaf(order[i + 1]) ELSE Reports!Empty
    BY NodesAre, Zenon
  <1>5. \A i \in Nat : after[0][i] = IF i < Len(next) THEN Reports!Leaf(next[i + 1]) ELSE Reports!Empty
    BY NodesAre, Zenon
  <1>6. Len(next) = Len(order) + 1 /\ \A i \in 1 .. Len(order) : next[i] = order[i]
    OBVIOUS
  <1> HIDE DEF h, before, after, next
  <1>7. 0 \in S
    <2> SUFFICES ASSUME NEW j \in Nat, j < h[0] PROVE after[0][j] = before[0][j]
      OBVIOUS
    <2>1. j < Len(order) /\ j < Len(next) /\ j + 1 \in 1 .. Len(order)
      BY <1>0, <1>1, <1>6
    <2> QED
      BY <1>4, <1>5, <1>6, <2>1
  <1>8. ASSUME NEW l \in 0 .. Depth - 1, l \in S PROVE l + 1 \in S
    <2> SUFFICES ASSUME NEW j \in Nat, j < h[l + 1] PROVE after[l + 1][j] = before[l + 1][j]
      OBVIOUS
    <2>1. h[l] \in Nat /\ h[l + 1] = h[l] \div 2
      BY <1>1
    <2>2. 2 * j < h[l] /\ 2 * j + 1 < h[l] /\ 2 * j \in Nat /\ 2 * j + 1 \in Nat
      BY <2>1
    <2>3. after[l][2 * j] = before[l][2 * j] /\ after[l][2 * j + 1] = before[l][2 * j + 1]
      BY <1>8, <2>2
    <2> QED
      BY <1>2, <1>3, <2>3
  <1> HIDE DEF S
  <1>9. \A l \in 0 .. Depth : l \in S
    BY <1>7, <1>8, Upward
  <1> QED
    BY <1>9 DEF S, h, before, after, next

\* The frontier holds, for each set bit of the count, the complete left sibling
\* on the path of the next leaf.
FrontierFor(order, state) ==
    /\ state.count = Len(order)
    /\ state.frontier = [k \in 0 .. Depth - 1 |-> state.frontier[k]]
    /\ \A k \in 0 .. Depth - 1 :
          ~Reports!BitIsClear(Len(order), k) => state.frontier[k] = Reports!Nodes(order)[k][Reports!Shifted(Len(order))[k] - 1]

\* A climb up to a level has computed the node on its path and kept the left
\* children below.
ClimbedTo(l, order, t, state) ==
    LET x == Reports!Path(t, state)[l]
        tier == Reports!Nodes(Append(order, t))
        h == Reports!Shifted(Len(order))
    IN  /\ x.count = Len(order)
        /\ x.node = tier[l][h[l]]
        /\ x.frontier = [k \in 0 .. Depth - 1 |-> IF k < l /\ Reports!BitIsClear(Len(order), k) THEN tier[k][h[k]] ELSE state.frontier[k]]

LEMMA ClimbKeeps ==
    ASSUME Depth \in Nat, NEW T, NEW order \in Seq(T), NEW t, NEW state, FrontierFor(order, state)
    PROVE  \A l \in 0 .. Depth : ClimbedTo(l, order, t, state)
  <1> DEFINE n == Len(order)
             h == Reports!Shifted(n)
             next == Append(order, t)
             before == Reports!Nodes(order)
             after == Reports!Nodes(next)
             up == Reports!Path(t, state)
             kept(l) == [k \in 0 .. Depth - 1 |-> IF k < l /\ Reports!BitIsClear(n, k) THEN after[k][h[k]] ELSE state.frontier[k]]
             S == {l \in 0 .. Depth : up[l].count = n /\ up[l].node = after[l][h[l]] /\ up[l].frontier = kept(l)}
  <1>0. n \in Nat /\ Len(next) = n + 1 /\ next[n + 1] = t
    OBVIOUS
  <1>1. h[0] = n /\ (\A l \in 0 .. Depth - 1 : h[l + 1] = h[l] \div 2) /\ \A l \in 0 .. Depth : h[l] \in Nat
    BY <1>0, ShiftedIs, Zenon
  <1>2. \A l \in 0 .. Depth - 1 : \A i \in Nat : after[l + 1][i] = Reports!Node(after[l][2 * i], after[l][2 * i + 1])
    BY NodesAre, Zenon
  <1>3. \A i \in Nat : after[0][i] = IF i < Len(next) THEN Reports!Leaf(next[i + 1]) ELSE Reports!Empty
    BY NodesAre, Zenon
  <1>4. up[0] = Start(t, state) /\ \A l \in 0 .. Depth - 1 : up[l + 1] = Reports!Climb(up[l], l)
    BY PathIs, Zenon
  <1>5. \A l \in 0 .. Depth : \A j \in Nat : j > h[l] => after[l][j] = up[l].zero
    <2> HIDE DEF n, next
    <2> QED
      BY <1>0, EmptyRight
  <1>6. \A l \in 0 .. Depth : \A j \in Nat : j < h[l] => after[l][j] = before[l][j]
    BY SameLeft, ZenonT(90)
  <1>7. /\ state.count = n /\ state.frontier = [k \in 0 .. Depth - 1 |-> state.frontier[k]]
        /\ \A k \in 0 .. Depth - 1 : ~Reports!BitIsClear(n, k) => state.frontier[k] = before[k][h[k] - 1]
    BY Zenon DEF FrontierFor
  <1>8. \A k \in 0 .. Depth - 1 : Reports!BitIsClear(n, k) <=> h[k] % 2 = 0
    BY Zenon DEF Reports!BitIsClear
  <1> HIDE DEF n, h, next, before, after, up
  <1>9. 0 \in S
    <2>1. up[0].count = n /\ up[0].node = Reports!Leaf(t) /\ up[0].frontier = state.frontier
      BY <1>4, <1>7, StartIs
    <2>2. after[0][h[0]] = Reports!Leaf(t)
      BY <1>0, <1>1, <1>3
    <2>3. kept(0) = state.frontier
      BY <1>7
    <2> QED
      BY <2>1, <2>2, <2>3
  <1>10. ASSUME NEW l \in 0 .. Depth - 1, l \in S PROVE l + 1 \in S
    <2> DEFINE x == up[l]
               y == up[l + 1]
    <2>1. y = Reports!Climb(x, l) /\ x.count = n /\ x.node = after[l][h[l]] /\ x.frontier = kept(l) /\ l \in 0 .. Depth
      BY <1>4, <1>10
    <2>2. h[l] \in Nat /\ h[l + 1] \in Nat /\ h[l + 1] = h[l] \div 2
      BY <1>1
    <2>3. after[l + 1][h[l + 1]] = Reports!Node(after[l][2 * h[l + 1]], after[l][2 * h[l + 1] + 1])
      BY <1>2, <2>2
    <2> HIDE DEF x, y, kept
    <2>4. CASE Reports!BitIsClear(n, l)
      <3>1. y.count = n /\ y.node = Reports!Node(x.node, x.zero) /\ y.frontier = [x.frontier EXCEPT ![l] = x.node]
        BY <2>1, <2>4, ClimbIs
      <3>2. 2 * h[l + 1] = h[l] /\ 2 * h[l + 1] + 1 > h[l] /\ 2 * h[l + 1] + 1 \in Nat
        BY <1>8, <2>2, <2>4, SMTT(40)
      <3>3. after[l][2 * h[l + 1] + 1] = x.zero
        BY <1>5, <2>1, <3>2 DEF x
      <3>4. y.node = after[l + 1][h[l + 1]]
        BY <2>1, <2>3, <3>1, <3>2, <3>3
      <3>5. [kept(l) EXCEPT ![l] = after[l][h[l]]] = kept(l + 1)
        <4>1. \A k \in 0 .. Depth - 1 : k < l + 1 <=> (k < l \/ k = l)
          OBVIOUS
        <4> QED
          BY <2>4, <4>1 DEF kept
      <3> QED
        BY <2>1, <3>1, <3>4, <3>5 DEF y
    <2>5. CASE ~Reports!BitIsClear(n, l)
      <3>1. y.count = n /\ y.node = Reports!Node(x.frontier[l], x.node) /\ y.frontier = x.frontier
        BY <2>1, <2>5, ClimbIs
      <3>2. 2 * h[l + 1] = h[l] - 1 /\ 2 * h[l + 1] + 1 = h[l] /\ h[l] - 1 \in Nat /\ h[l] - 1 < h[l]
        BY <1>8, <2>2, <2>5, SMTT(40)
      <3>3. after[l][h[l] - 1] = before[l][h[l] - 1]
        BY <1>6, <2>1, <3>2
      <3>4. x.frontier[l] = state.frontier[l]
        BY <2>1 DEF kept
      <3>5. y.node = after[l + 1][h[l + 1]]
        BY <1>7, <2>1, <2>3, <2>5, <3>1, <3>2, <3>3, <3>4
      <3>6. kept(l) = kept(l + 1)
        <4>1. \A k \in 0 .. Depth - 1 : k < l + 1 <=> (k < l \/ k = l)
          OBVIOUS
        <4> QED
          BY <2>5, <4>1 DEF kept
      <3> QED
        BY <2>1, <3>1, <3>5, <3>6 DEF y
    <2> QED
      BY <2>4, <2>5
  <1>11. \A l \in 0 .. Depth : l \in S
    <2> HIDE DEF S
    <2> QED
      BY <1>9, <1>10, Upward
  <1>12. \A l \in 0 .. Depth : up[l].count = n /\ up[l].node = after[l][h[l]] /\ up[l].frontier = kept(l)
    BY <1>11, Zenon
  <1> QED
    BY <1>12, Zenon DEF ClimbedTo, n, h, next, before, after, up

\* Appending a leaf keeps the frontier and gives the root of the complete tree.
LEMMA AppendKeeps ==
    ASSUME Depth \in Nat, NEW T, NEW order \in Seq(T), NEW t, NEW state, FrontierFor(order, state), Len(order) <= Reports!MaxCount
    PROVE  /\ FrontierFor(Append(order, t), Reports!Appended(t, state))
           /\ Reports!Appended(t, state).root = Reports!Complete(Append(order, t))
  <1> DEFINE n == Len(order)
             h == Reports!Shifted(n)
             k == Reports!Shifted(n + 1)
             next == Append(order, t)
             before == Reports!Nodes(order)
             after == Reports!Nodes(next)
             top == Reports!Path(t, state)[Depth]
             new == Reports!Appended(t, state)
             kept == [i \in 0 .. Depth - 1 |-> IF i < Depth /\ Reports!BitIsClear(n, i) THEN after[i][h[i]] ELSE state.frontier[i]]
  <1>0. n \in Nat /\ Len(next) = n + 1
    OBVIOUS
  <1>1. \A l \in 0 .. Depth : h[l] \in Nat /\ k[l] \in {h[l], h[l] + 1}
    BY <1>0, ShiftedIs, ShiftNext, Zenon
  <1>2. h[Depth] = 0
    BY <1>0, ShiftTop, Zenon
  <1>3. top.node = after[Depth][h[Depth]] /\ top.frontier = kept
    <2>1. ClimbedTo(Depth, order, t, state)
      BY ClimbKeeps, Depth \in 0 .. Depth
    <2> QED
      BY <2>1, Zenon DEF ClimbedTo
  <1>4. new = [count |-> state.count + 1, frontier |-> top.frontier, root |-> top.node]
    BY Zenon DEF Reports!Appended
  <1>5. \A l \in 0 .. Depth : \A j \in Nat : j < h[l] => after[l][j] = before[l][j]
    BY SameLeft, ZenonT(90)
  <1>6. /\ state.count = n
        /\ \A i \in 0 .. Depth - 1 : ~Reports!BitIsClear(n, i) => state.frontier[i] = before[i][h[i] - 1]
    BY Zenon DEF FrontierFor
  <1>7. \A i \in 0 .. Depth - 1 : (Reports!BitIsClear(n, i) <=> h[i] % 2 = 0) /\ (Reports!BitIsClear(n + 1, i) <=> k[i] % 2 = 0)
    BY Zenon DEF Reports!BitIsClear
  <1>8. Reports!Complete(next) = after[Depth][0]
    BY Zenon DEF Reports!Complete
  <1> HIDE DEF n, h, k, next, before, after, top, new
  <1>9. new.root = Reports!Complete(next)
    BY <1>2, <1>3, <1>4, <1>8
  <1>10. new.count = n + 1 /\ new.frontier = kept
    BY <1>3, <1>4, <1>6
  <1>11. ASSUME NEW i \in 0 .. Depth - 1, ~Reports!BitIsClear(n + 1, i) PROVE kept[i] = after[i][k[i] - 1]
    <2>1. h[i] \in Nat /\ k[i] \in {h[i], h[i] + 1} /\ k[i] % 2 # 0 /\ i < Depth /\ i \in 0 .. Depth
      BY <1>1, <1>7, <1>11
    <2>2. CASE Reports!BitIsClear(n, i)
      <3>1. k[i] - 1 = h[i]
        BY <1>7, <2>1, <2>2
      <3> QED
        BY <2>1, <2>2, <3>1
    <2>3. CASE ~Reports!BitIsClear(n, i)
      <3>1. k[i] = h[i] /\ h[i] - 1 \in Nat /\ h[i] - 1 < h[i]
        BY <1>7, <2>1, <2>3
      <3>2. after[i][h[i] - 1] = before[i][h[i] - 1]
        BY <1>5, <2>1, <3>1
      <3> QED
        BY <1>6, <2>3, <3>1, <3>2
    <2> QED
      BY <2>2, <2>3
  <1>12. new.frontier = [i \in 0 .. Depth - 1 |-> new.frontier[i]]
    BY <1>10
  <1> HIDE DEF kept
  <1>13. /\ new.count = Len(next)
         /\ \A i \in 0 .. Depth - 1 : ~Reports!BitIsClear(Len(next), i) => new.frontier[i] = after[i][Reports!Shifted(Len(next))[i] - 1]
    BY <1>0, <1>10, <1>11 DEF k
  <1>14. FrontierFor(next, new)
    BY <1>12, <1>13, Zenon DEF FrontierFor, after
  <1> QED
    BY <1>9, <1>14, Zenon DEF next, new

\* The empty tree's count has no bit, so nothing is asked of its frontier.
LEMMA EmptyFrontier ==
    ASSUME Depth \in Nat
    PROVE  FrontierFor(<<>>, Reports!EmptyTree)
  <1> DEFINE h == Reports!Shifted(0)
             S == {l \in 0 .. Depth : h[l] = 0}
  <1>1. h[0] = 0 /\ (\A l \in 0 .. Depth - 1 : h[l + 1] = h[l] \div 2)
    BY ShiftedIs, 0 \in Nat, Zenon
  <1> HIDE DEF h
  <1>2. 0 \in S /\ \A l \in 0 .. Depth - 1 : l \in S => l + 1 \in S
    BY <1>1
  <1> HIDE DEF S
  <1>3. \A l \in 0 .. Depth : l \in S
    BY <1>2, Upward
  <1>4. \A l \in 0 .. Depth - 1 : h[l] % 2 = 0
    BY <1>3 DEF S
  <1>5. \A l \in 0 .. Depth - 1 : Reports!BitIsClear(0, l)
    BY <1>4, Zenon DEF h, Reports!BitIsClear
  <1>6. Len(<<>>) = 0 /\ Reports!EmptyTree.count = 0
        /\ Reports!EmptyTree.frontier = [k \in 0 .. Depth - 1 |-> Reports!EmptyTree.frontier[k]]
    BY DEF Reports!EmptyTree
  <1> QED
    BY <1>5, <1>6, Zenon DEF FrontierFor

LEMMA MaxCountIs ==
    ASSUME Depth \in Nat
    PROVE  Reports!MaxCount \in Nat
  <1>1. Reports!Power[Depth] \in Nat \ {0}
    BY PowerIs, Depth \in 0 .. Depth
  <1> QED
    BY <1>1 DEF Reports!MaxCount

\* The verifier's rebuilt tree has the root of the complete tree over its order.
LEMMA RebuiltSound ==
    ASSUME Depth \in Nat, NEW T, NEW order \in Seq(T), Len(order) <= Reports!MaxCount, Len(order) > 0
    PROVE  Reports!Recomputed(order).root = Reports!Complete(order)
  <1> DEFINE N == Len(order)
             part(n) == SubSeq(order, 1, n)
             after == Reports!Rebuilt(order)
             S == {n \in 0 .. N : FrontierFor(part(n), after[n]) /\ (n > 0 => after[n].root = Reports!Complete(part(n)))}
  <1>0. N \in Nat /\ N > 0
    OBVIOUS
  <1>1. after[0] = Reports!EmptyTree /\ \A n \in 0 .. N - 1 : after[n + 1] = Reports!Appended(order[n + 1], after[n])
    BY <1>0, RebuiltIs, Zenon
  <1>2. part(0) = <<>> /\ part(N) = order
    OBVIOUS
  <1>3. \A n \in 0 .. N - 1 : part(n + 1) = Append(part(n), order[n + 1]) /\ part(n) \in Seq(T) /\ Len(part(n)) = n
    OBVIOUS
  <1>4. \A n \in 0 .. N : n <= Reports!MaxCount
    BY MaxCountIs
  <1> HIDE DEF part, after
  <1>5. 0 \in S
    BY <1>0, <1>1, <1>2, EmptyFrontier
  <1>6. ASSUME NEW n \in 0 .. N - 1, n \in S PROVE n + 1 \in S
    <2> DEFINE s == part(n)
               x == after[n]
               t == order[n + 1]
    <2>1. s \in Seq(T) /\ Len(s) <= Reports!MaxCount /\ FrontierFor(s, x)
      BY <1>3, <1>4, <1>6
    <2>2. part(n + 1) = Append(s, t) /\ after[n + 1] = Reports!Appended(t, x)
      BY <1>1, <1>3
    <2> HIDE DEF s, x, t
    <2>3. FrontierFor(Append(s, t), Reports!Appended(t, x)) /\ Reports!Appended(t, x).root = Reports!Complete(Append(s, t))
      BY <2>1, AppendKeeps
    <2>4. n + 1 \in 0 .. N
      OBVIOUS
    <2>5. FrontierFor(part(n + 1), after[n + 1]) /\ after[n + 1].root = Reports!Complete(part(n + 1))
      BY <2>2, <2>3
    <2> HIDE DEF N
    <2> QED
      BY <2>4, <2>5
  <1> HIDE DEF S, N
  <1>7. N \in S
    <2>1. \A l \in 0 .. N : l \in S
      BY <1>0, <1>5, <1>6, Upward
    <2> QED
      BY <2>1, <1>0
  <1>8. after[N].root = Reports!Complete(order)
    BY <1>0, <1>2, <1>7 DEF S
  <1> QED
    BY <1>8, Zenon DEF N, after, Reports!Recomputed

\* Two histories of one length that fit the tree have one root only if they are
\* the same history.
LEMMA SameRoot ==
    ASSUME Depth \in Nat, NEW T, NEW r \in Seq(T), NEW s \in Seq(T), Len(r) = Len(s), Len(s) <= Reports!MaxCount,
           Reports!Complete(r) = Reports!Complete(s)
    PROVE  r = s
  <1> DEFINE p == Reports!Power
             x == Reports!Nodes(r)
             y == Reports!Nodes(s)
             S == {k \in 0 .. Depth : \A j \in Nat : j < p[k] => x[Depth - k][j] = y[Depth - k][j]}
  <1>1. p[0] = 1 /\ (\A l \in 1 .. Depth : p[l] = 2 * p[l - 1]) /\ (\A l \in 0 .. Depth : p[l] \in Nat \ {0})
    BY PowerIs, Zenon
  <1>2. /\ \A i \in Nat : x[0][i] = IF i < Len(r) THEN Reports!Leaf(r[i + 1]) ELSE Reports!Empty
        /\ \A l \in 0 .. Depth - 1 : \A i \in Nat : x[l + 1][i] = Reports!Node(x[l][2 * i], x[l][2 * i + 1])
    BY NodesAre, Zenon
  <1>3. /\ \A i \in Nat : y[0][i] = IF i < Len(s) THEN Reports!Leaf(s[i + 1]) ELSE Reports!Empty
        /\ \A l \in 0 .. Depth - 1 : \A i \in Nat : y[l + 1][i] = Reports!Node(y[l][2 * i], y[l][2 * i + 1])
    BY NodesAre, Zenon
  <1>4. x[Depth][0] = y[Depth][0]
    BY Zenon DEF Reports!Complete
  <1>5. Len(s) < p[Depth]
    BY <1>1 DEF Reports!MaxCount
  <1> HIDE DEF p, x, y
  <1>6. 0 \in S
    <2>1. Depth - 0 = Depth /\ \A j \in Nat : j < p[0] => j = 0
      BY <1>1
    <2> QED
      BY <1>4, <2>1
  <1>7. ASSUME NEW k \in 0 .. Depth - 1, k \in S PROVE k + 1 \in S
    <2> SUFFICES ASSUME NEW j \in Nat, j < p[k + 1] PROVE x[Depth - (k + 1)][j] = y[Depth - (k + 1)][j]
      OBVIOUS
    <2> DEFINE i == j \div 2
               l == Depth - (k + 1)
    <2>1. i \in Nat /\ (j = 2 * i \/ j = 2 * i + 1) /\ l \in 0 .. Depth - 1 /\ l + 1 = Depth - k
      OBVIOUS
    <2>2. i < p[k]
      <3>1. p[k + 1] = 2 * p[k] /\ p[k] \in Nat
        BY <1>1, k + 1 \in 1 .. Depth, (k + 1) - 1 = k
      <3> QED
        BY <3>1
    <2> HIDE DEF i, l
    <2>3. x[l + 1][i] = y[l + 1][i]
      BY <1>7, <2>1, <2>2
    <2>4. Reports!Node(x[l][2 * i], x[l][2 * i + 1]) = Reports!Node(y[l][2 * i], y[l][2 * i + 1])
      BY <1>2, <1>3, <2>1, <2>3
    <2>5. x[l][2 * i] = y[l][2 * i] /\ x[l][2 * i + 1] = y[l][2 * i + 1]
      BY <2>4 DEF Reports!Node
    <2>6. x[l][j] = y[l][j]
      BY <2>1, <2>5
    <2> QED
      BY <2>6 DEF l
  <1> HIDE DEF S
  <1>8. Depth \in S
    <2>1. \A l \in 0 .. Depth : l \in S
      BY <1>6, <1>7, Upward
    <2> QED
      BY <2>1
  <1>9. ASSUME NEW i \in 1 .. Len(s) PROVE r[i] = s[i]
    <2> DEFINE j == i - 1
    <2>1. j \in Nat /\ j < Len(s) /\ j < Len(r) /\ j < p[Depth] /\ j + 1 = i /\ Depth - Depth = 0
      BY <1>1, <1>5
    <2> HIDE DEF j
    <2>2. x[0][j] = y[0][j]
      BY <1>8, <2>1 DEF S
    <2>3. Reports!Leaf(r[i]) = Reports!Leaf(s[i])
      BY <1>2, <1>3, <2>1, <2>2
    <2> QED
      BY <2>3 DEF Reports!Leaf
  <1> QED
    BY <1>9

-----------------------------------------------------------------------------
(* The inductive invariant of the confidence command. *)

\* A report that lists the first observations of the epoch in tree order.
InTreeOrder(order) ==
    /\ order \in Seq(Transcripts) /\ Len(order) \in 1 .. Len(history)
    /\ \A i \in 1 .. Len(order) : order[i] = history[i]

Filing(r) == Reports!IsReport(r) /\ InTreeOrder(r.order)
FilingOrNone(r) == r = NoReport \/ Filing(r)

JournalShape(j) == j = [report |-> j.report, previous |-> j.previous, last |-> j.last, state |-> j.state]
CommandShape(c) ==
    c = [pc |-> c.pc, action |-> c.action, known |-> c.known, seen |-> c.seen, others |-> c.others, report |-> c.report,
         existing |-> c.existing]

\* A journal against what the cluster knows of its transaction.
JournalFits(j, landing) ==
    /\ JournalShape(j)
    /\ \/ j = Reports!NoJournal /\ landing = "unsent"
       \/ /\ Filing(j.report) /\ FilingOrNone(j.previous) /\ j.last \in Nat
          /\ j.state \in {"prepared", "submitted", "confirmed"}
          /\ j.state = "confirmed" => landing = "finalized"

\* A command against both: it prepares a journal only where there is none, and
\* goes on to verify only what is finalized.
CommandFits(c, j, landing) ==
    /\ CommandShape(c)
    /\ c.pc \in Reports!Points /\ c.action \in Reports!Actions \cup {NoReport}
    /\ c.known \subseteq Transcripts /\ c.seen \in 0 .. Reports!MaxCount /\ c.others \in Nat
    /\ FilingOrNone(c.existing)
    /\ c.pc = "blockhash" => j = Reports!NoJournal /\ Filing(c.report)
    /\ c.pc \in {"inspect", "height", "send", "poll", "verify", "record"} => j # Reports!NoJournal
    /\ c.pc \in {"verify", "record"} => landing = "finalized"

DeskFits(d) ==
    /\ FilingOrNone(computed[d])
    /\ JournalFits(journal[d], transaction[d])
    /\ CommandFits(command[d], journal[d], transaction[d])

EpochGrown ==
    /\ history \in Seq(Transcripts) /\ Len(history) <= Reports!MaxCount
    /\ \A i \in 1 .. Len(history) : history[i] = i
    /\ FrontierFor(history, tree)
    /\ Len(history) > 0 => tree.root = Reports!Complete(history)

Desks ==
    /\ transaction \in [Directories -> Reports!Landing] /\ lock \in [Directories -> BOOLEAN]
    /\ computed = [d \in Directories |-> computed[d]]
    /\ journal = [d \in Directories |-> journal[d]]
    /\ command = [d \in Directories |-> command[d]]
    /\ \A d \in Directories : DeskFits(d)

Shared ==
    /\ policy \in Nat /\ others \in Nat /\ height \in Nat /\ commands \in 0 .. MaxCommands
    /\ inputs \subseteq Transcripts
    /\ FilingOrNone(confidence)

\* The report of a finalized transaction stays in the journal that sent it.
FinalizedBy(d, r) == journal[d] # Reports!NoJournal /\ journal[d].report = r /\ transaction[d] = "finalized"

Published ==
    /\ row = NoReport \/ (row.by \in Directories /\ Filing(row.report) /\ FinalizedBy(row.by, row.report))
    /\ confidence # NoReport => \E d \in Directories : FinalizedBy(d, confidence)

ReportsInv == EpochGrown /\ Shared /\ Desks /\ Published

LEMMA NoJournalIs ==
    /\ JournalShape(Reports!NoJournal) /\ Reports!NoJournal.state = "none" /\ Reports!NoJournal.report = NoReport
  BY DEF JournalShape, Reports!NoJournal

\* A directory has a journal exactly if its journal's state says so.
LEMMA JournaledIs ==
    ASSUME ReportsInv, NEW d \in Directories
    PROVE  /\ Reports!Journaled(d) <=> journal[d] # Reports!NoJournal
           /\ Reports!Journaled(d) =>
                 /\ Filing(journal[d].report) /\ FilingOrNone(journal[d].previous) /\ journal[d].last \in Nat
                 /\ journal[d].state \in {"prepared", "submitted", "confirmed"}
           /\ ~Reports!Journaled(d) => transaction[d] = "unsent"
  <1>1. JournalFits(journal[d], transaction[d])
    BY Zenon DEF ReportsInv, Desks, DeskFits
  <1> QED
    BY <1>1, NoJournalIs DEF JournalFits, Reports!Journaled

\* Of n distinct observations, n are counted.
LEMMA HistoryCounted ==
    ASSUME EpochGrown
    PROVE  /\ Reports!Range(history) = 1 .. Len(history)
           /\ Reports!Cardinality(1 .. Len(history)) = Len(history)
           /\ 1 .. Len(history) \subseteq Transcripts
  <1>1. history \in Seq(Transcripts) /\ \A i \in 1 .. Len(history) : history[i] = i
    BY DEF EpochGrown
  <1>2. Reports!Range(history) = {history[x] : x \in DOMAIN history}
    BY Zenon DEF Reports!Range
  <1>3. DOMAIN history = 1 .. Len(history) /\ Len(history) \in Nat
    BY <1>1
  <1>4. \A i \in 1 .. Len(history) : history[i] \in Transcripts
    BY <1>1
  <1>5. Reports!Cardinality(1 .. Len(history)) = Cardinality(1 .. Len(history))
    BY Zenon DEF Reports!Cardinality, Cardinality, Reports!IsFiniteSet, IsFiniteSet
  <1>6. Cardinality(1 .. Len(history)) = Len(history)
    <2>1. \A n \in Nat : Cardinality(1 .. n) = IF 1 > n THEN 0 ELSE n - 1 + 1
      BY FS_Interval
    <2> QED
      BY <1>3, <2>1
  <1> QED
    BY <1>1, <1>2, <1>3, <1>4, <1>5, <1>6

\* A report that passes the checks of computeConfidence lists the whole epoch
\* in tree order.
LEMMA ComputableInOrder ==
    ASSUME Depth \in Nat, ReportsInv, NEW d \in Directories, NEW order \in Reports!Orders(d), Reports!Computable(d, order)
    PROVE  order = history /\ Len(history) > 0
  <1>1. EpochGrown /\ DeskFits(d)
    BY DEF ReportsInv, Desks
  <1>2. history \in Seq(Transcripts) /\ Len(history) <= Reports!MaxCount /\ tree.count = Len(history)
        /\ (Len(history) > 0 => tree.root = Reports!Complete(history))
    BY <1>1, Zenon DEF EpochGrown, FrontierFor
  <1>3. /\ command[d].seen > 0 /\ command[d].seen = tree.count /\ Len(order) = Reports!Cardinality(Reports!Target(d))
        /\ Reports!Recomputed(order).root = tree.root
    BY Zenon DEF Reports!Computable
  <1>4. Reports!Target(d) = 1 .. Len(history)
    <2>1. SubSeq(history, 1, command[d].seen) = history
      BY <1>2, <1>3
    <2> QED
      BY <1>1, <2>1, HistoryCounted DEF Reports!Target
  <1>5. Len(order) = Len(history) /\ Len(history) \in Nat /\ Len(history) > 0
    BY <1>1, <1>2, <1>3, <1>4, HistoryCounted
  <1>6. order \in Seq(Transcripts)
    <2>1. CASE Reports!Earlier(d) # NoReport
      <3>1. order = Reports!Earlier(d).order
        BY <2>1 DEF Reports!Orders
      <3>2. Filing(Reports!Earlier(d))
        <4>1. FilingOrNone(computed[d])
          BY <1>1 DEF DeskFits
        <4>2. Reports!Journaled(d) => Filing(journal[d].report)
          BY JournaledIs
        <4> QED
          BY <2>1, <4>1, <4>2 DEF Reports!Earlier, FilingOrNone
      <3> QED
        BY <3>1, <3>2 DEF Filing, InTreeOrder
    <2>2. CASE Reports!Earlier(d) = NoReport
      <3>1. order \in Reports!SetToSeqs(1 .. Len(history))
        BY <1>4, <2>2 DEF Reports!Orders
      <3>2. order \in [1 .. Reports!Cardinality(1 .. Len(history)) -> 1 .. Len(history)]
        BY <3>1 DEF Reports!SetToSeqs
      <3>3. order \in [1 .. Len(history) -> Transcripts]
        BY <1>1, <3>2, HistoryCounted
      <3> QED
        BY <1>5, <3>3
    <2> QED
      BY <2>1, <2>2
  <1>7. Reports!Recomputed(order).root = Reports!Complete(order)
    BY <1>2, <1>5, <1>6, RebuiltSound
  <1>8. order = history
    BY <1>2, <1>3, <1>5, <1>6, <1>7, SameRoot
  <1> QED
    BY <1>5, <1>8

-----------------------------------------------------------------------------
(* Every step keeps the invariant. *)

LEMMA NoCommandIs ==
    /\ Reports!NoCommand.pc = "idle" /\ Reports!NoCommand.action = NoReport /\ Reports!NoCommand.known = {}
    /\ Reports!NoCommand.seen = 0 /\ Reports!NoCommand.others = 0 /\ Reports!NoCommand.existing = NoReport
    /\ CommandShape(Reports!NoCommand)
  BY DEF Reports!NoCommand, CommandShape

\* Setting a field of a command leaves a command.
LEMMA CommandSet ==
    ASSUME NEW x, CommandShape(x), NEW v
    PROVE  /\ CommandShape([x EXCEPT !.pc = v])
           /\ CommandShape([x EXCEPT !.action = v])
           /\ CommandShape([x EXCEPT !.known = v])
           /\ CommandShape([x EXCEPT !.seen = v])
           /\ CommandShape([x EXCEPT !.others = v])
           /\ CommandShape([x EXCEPT !.report = v])
           /\ CommandShape([x EXCEPT !.existing = v])
  <1>1. CommandShape([x EXCEPT !.pc = v])
    BY DEF CommandShape
  <1>2. CommandShape([x EXCEPT !.action = v])
    BY DEF CommandShape
  <1>3. CommandShape([x EXCEPT !.known = v])
    BY DEF CommandShape
  <1>4. CommandShape([x EXCEPT !.seen = v])
    BY DEF CommandShape
  <1>5. CommandShape([x EXCEPT !.others = v])
    BY DEF CommandShape
  <1>6. CommandShape([x EXCEPT !.report = v])
    BY DEF CommandShape
  <1>7. CommandShape([x EXCEPT !.existing = v])
    BY DEF CommandShape
  <1> QED
    BY <1>1, <1>2, <1>3, <1>4, <1>5, <1>6, <1>7

\* A command that has forgotten what it read.
LEMMA GotoFits ==
    ASSUME Depth \in Nat, NEW pc \in Reports!Points \ {"blockhash"}, NEW j, NEW landing,
           pc \in {"inspect", "height", "send", "poll", "verify", "record"} => j # Reports!NoJournal,
           pc \in {"verify", "record"} => landing = "finalized"
    PROVE  CommandFits([Reports!NoCommand EXCEPT !.pc = pc], j, landing)
  <1> DEFINE c == [Reports!NoCommand EXCEPT !.pc = pc]
  <1>1. /\ c.pc = pc /\ c.action = NoReport /\ c.known = {} /\ c.seen = 0 /\ c.others = 0 /\ c.existing = NoReport
        /\ CommandShape(c)
    BY DEF Reports!NoCommand, CommandShape
  <1> HIDE DEF c
  <1>2. 0 \in 0 .. Reports!MaxCount
    BY MaxCountIs
  <1>3. CommandFits(c, j, landing)
    BY <1>1, <1>2 DEF CommandFits, FilingOrNone
  <1> QED
    BY <1>3 DEF c

LEMMA IdleFits ==
    ASSUME Depth \in Nat, NEW j, NEW landing
    PROVE  CommandFits(Reports!NoCommand, j, landing)
  <1>1. 0 \in 0 .. Reports!MaxCount
    BY MaxCountIs
  <1>2. "idle" \in Reports!Points
    BY DEF Reports!Points
  <1> QED
    BY <1>1, <1>2, NoCommandIs DEF CommandFits, FilingOrNone

\* What a step of one directory leaves alone.
SharedKept == UNCHANGED <<tree, history, confidence, policy, others, height>>

DeskMoved(d, k, j, x, c) ==
    /\ computed' = [computed EXCEPT ![d] = k] /\ journal' = [journal EXCEPT ![d] = j]
    /\ transaction' = [transaction EXCEPT ![d] = x] /\ command' = [command EXCEPT ![d] = c]

\* A journal with a finalized transaction keeps its report.
ReportKept(d, j, x) == transaction[d] = "finalized" => x = "finalized" /\ j # Reports!NoJournal /\ j.report = journal[d].report

BooksTyped == inputs' \subseteq Transcripts /\ commands' \in 0 .. MaxCommands /\ lock' \in [Directories -> BOOLEAN]

LEMMA EpochKept ==
    ASSUME EpochGrown, UNCHANGED <<tree, history>>
    PROVE  EpochGrown'
  BY DEF EpochGrown, FrontierFor

LEMMA DesksMoved ==
    ASSUME ReportsInv, NEW d \in Directories, NEW k, NEW j, NEW x \in Reports!Landing, NEW c,
           DeskMoved(d, k, j, x, c), history' = history, lock' \in [Directories -> BOOLEAN],
           FilingOrNone(k), JournalFits(j, x), CommandFits(c, j, x)
    PROVE  Desks'
  <1>1. Desks
    BY DEF ReportsInv
  <1>2. /\ transaction' \in [Directories -> Reports!Landing]
        /\ computed' = [e \in Directories |-> computed'[e]]
        /\ journal' = [e \in Directories |-> journal'[e]]
        /\ command' = [e \in Directories |-> command'[e]]
    BY <1>1 DEF Desks, DeskMoved
  <1>3. ASSUME NEW e \in Directories PROVE DeskFits(e)'
    <2>1. CASE e = d
      <3>1. computed'[e] = k /\ journal'[e] = j /\ transaction'[e] = x /\ command'[e] = c
        BY <1>1, <2>1 DEF Desks, DeskMoved
      <3>2. FilingOrNone(computed'[e]) /\ JournalFits(journal'[e], transaction'[e]) /\ CommandFits(command'[e], journal'[e], transaction'[e])
        BY <3>1, SMTT(40)
      <3> QED
        BY <3>2, history' = history DEF DeskFits, FilingOrNone, Filing, InTreeOrder, JournalFits, CommandFits
    <2>2. CASE e # d
      <3>1. computed'[e] = computed[e] /\ journal'[e] = journal[e] /\ transaction'[e] = transaction[e] /\ command'[e] = command[e]
        BY <1>1, <2>2 DEF Desks, DeskMoved
      <3>2. DeskFits(e)
        BY <1>1 DEF Desks
      <3> QED
        BY <3>1, <3>2, history' = history DEF DeskFits, FilingOrNone, Filing, InTreeOrder, JournalFits, CommandFits
    <2> QED
      BY <2>1, <2>2
  <1> QED
    BY <1>2, <1>3 DEF Desks

\* A published report stays published while its journal's report is kept.
LEMMA FinalizedKept ==
    ASSUME ReportsInv, NEW d \in Directories, NEW k, NEW j, NEW x, NEW c, DeskMoved(d, k, j, x, c), ReportKept(d, j, x)
    PROVE  \A e \in Directories : \A r : FinalizedBy(e, r) => journal'[e] # Reports!NoJournal /\ journal'[e].report = r /\ transaction'[e] = "finalized"
  <1>1. Desks
    BY DEF ReportsInv
  <1>2. journal'[d] = j /\ transaction'[d] = x /\ \A e \in Directories \ {d} : journal'[e] = journal[e] /\ transaction'[e] = transaction[e]
    BY <1>1 DEF Desks, DeskMoved
  <1> QED
    BY <1>2 DEF ReportKept, FinalizedBy

LEMMA DeskMoves ==
    ASSUME ReportsInv, NEW d \in Directories, NEW k, NEW j, NEW x \in Reports!Landing, NEW c,
           DeskMoved(d, k, j, x, c), SharedKept, row' = row, BooksTyped,
           FilingOrNone(k), JournalFits(j, x), CommandFits(c, j, x), ReportKept(d, j, x)
    PROVE  ReportsInv'
  <1>1. Desks'
    BY DesksMoved DEF SharedKept, BooksTyped
  <1>2. EpochGrown'
    BY EpochKept DEF ReportsInv, SharedKept
  <1>3. Shared'
    BY DEF ReportsInv, Shared, SharedKept, BooksTyped, FilingOrNone, Filing, InTreeOrder
  <1>4. Published'
    <2>1. \A e \in Directories : \A r : FinalizedBy(e, r) => journal'[e] # Reports!NoJournal /\ journal'[e].report = r /\ transaction'[e] = "finalized"
      BY FinalizedKept
    <2>2. Published /\ row' = row /\ confidence' = confidence /\ history' = history
      BY DEF ReportsInv, SharedKept
    <2> QED
      BY <2>1, <2>2 DEF Published, FinalizedBy, Filing, InTreeOrder
  <1> QED
    BY <1>1, <1>2, <1>3, <1>4 DEF ReportsInv

LEMMA DeskIs ==
    ASSUME ReportsInv, NEW d \in Directories
    PROVE  /\ computed = [computed EXCEPT ![d] = computed[d]] /\ journal = [journal EXCEPT ![d] = journal[d]]
           /\ transaction = [transaction EXCEPT ![d] = transaction[d]] /\ command = [command EXCEPT ![d] = command[d]]
           /\ FilingOrNone(computed[d]) /\ JournalFits(journal[d], transaction[d])
           /\ CommandFits(command[d], journal[d], transaction[d])
           /\ transaction[d] \in Reports!Landing
           /\ ReportKept(d, journal[d], transaction[d])
  <1>1. Desks /\ DeskFits(d)
    BY DEF ReportsInv, Desks
  <1>2. transaction[d] = "finalized" => journal[d] # Reports!NoJournal
    BY JournaledIs
  <1> QED
    BY <1>1, <1>2 DEF Desks, DeskFits, ReportKept

\* A step that moves only the command.
LEMMA DeskCommandMoves ==
    ASSUME ReportsInv, NEW d \in Directories, NEW c, UNCHANGED <<computed, journal, transaction, row>>,
           command' = [command EXCEPT ![d] = c], SharedKept, BooksTyped, CommandFits(c, journal[d], transaction[d])
    PROVE  ReportsInv'
  <1>1. DeskMoved(d, computed[d], journal[d], transaction[d], c)
    BY DeskIs DEF DeskMoved
  <1> QED
    BY <1>1, DeskIs, DeskMoves

LEMMA LocksTyped ==
    ASSUME ReportsInv, NEW d, NEW v \in BOOLEAN
    PROVE  [lock EXCEPT ![d] = v] \in [Directories -> BOOLEAN] /\ lock \in [Directories -> BOOLEAN]
           /\ inputs \subseteq Transcripts /\ commands \in 0 .. MaxCommands
  BY DEF ReportsInv, Desks, Shared

LEMMA DeskCommandEnds ==
    ASSUME Depth \in Nat, ReportsInv, NEW d \in Directories, Reports!Finish(d), UNCHANGED <<computed, journal, transaction, row, inputs, commands>>, SharedKept
    PROVE  ReportsInv'
  <1>1. BooksTyped
    BY LocksTyped DEF Reports!Finish, BooksTyped
  <1>2. CommandFits(Reports!NoCommand, journal[d], transaction[d])
    BY IdleFits
  <1>3. command' = [command EXCEPT ![d] = Reports!NoCommand]
    BY DEF Reports!Finish
  <1> QED
    BY <1>1, <1>2, <1>3, DeskCommandMoves

LEMMA CommandGoes ==
    ASSUME Depth \in Nat, ReportsInv, NEW d \in Directories, NEW pc \in Reports!Points \ {"blockhash"}, Reports!Goto(d, pc),
           UNCHANGED <<computed, journal, transaction, row, inputs, commands, lock>>, SharedKept,
           journal[d] # Reports!NoJournal, pc \in {"verify", "record"} => transaction[d] = "finalized"
    PROVE  ReportsInv'
  <1>1. BooksTyped
    BY LocksTyped, TRUE \in BOOLEAN DEF BooksTyped
  <1> DEFINE c == [Reports!NoCommand EXCEPT !.pc = pc]
  <1>2. CommandFits(c, journal[d], transaction[d])
    BY GotoFits
  <1>3. command' = [command EXCEPT ![d] = c]
    BY DEF Reports!Goto
  <1> HIDE DEF c
  <1> QED
    BY <1>1, <1>2, <1>3, DeskCommandMoves

\* What a command in a step after the journal may rely on.
LEMMA AtWork ==
    ASSUME ReportsInv, NEW d \in Directories
    PROVE  /\ command[d].pc = "blockhash" => journal[d] = Reports!NoJournal /\ Filing(command[d].report) /\ FilingOrNone(command[d].existing)
           /\ command[d].pc \in {"inspect", "height", "send", "poll", "verify", "record"} => journal[d] # Reports!NoJournal /\ Reports!Journaled(d)
           /\ command[d].pc \in {"verify", "record"} => transaction[d] = "finalized"
           /\ CommandShape(command[d]) /\ command[d].known \subseteq Transcripts /\ command[d].seen \in 0 .. Reports!MaxCount
           /\ command[d].others \in Nat /\ command[d].action \in Reports!Actions \cup {NoReport} /\ FilingOrNone(command[d].existing)
  BY DeskIs, JournaledIs DEF CommandFits

LEMMA StartKeepsReports ==
    ASSUME Depth \in Nat, MaxCommands \in Nat, ReportsInv, NEW d \in Directories, NEW action \in Reports!Actions, Reports!Start(d, action)
    PROVE  ReportsInv'
  <1> DEFINE c == [Reports!NoCommand EXCEPT !.pc = "commitments", !.action = action, !.known = inputs]
  <1>1. SharedKept /\ UNCHANGED <<computed, journal, transaction, row, inputs>> /\ command' = [command EXCEPT ![d] = c]
        /\ lock' = [lock EXCEPT ![d] = TRUE] /\ commands < MaxCommands /\ commands' = commands + 1
    BY DEF Reports!Start, SharedKept, Reports!chainVars, Reports!treeVars
  <1>2. BooksTyped
    <2>1. lock' \in [Directories -> BOOLEAN] /\ inputs' \subseteq Transcripts /\ commands \in 0 .. MaxCommands
      BY <1>1, LocksTyped, TRUE \in BOOLEAN
    <2>2. commands' \in 0 .. MaxCommands
      BY <1>1, <2>1
    <2> QED
      BY <2>1, <2>2 DEF BooksTyped
  <1>3. c.pc = "commitments" /\ c.action = action /\ c.known = inputs /\ c.seen = 0 /\ c.others = 0 /\ c.existing = NoReport
    BY DEF Reports!NoCommand
  <1>a. CommandShape(c)
    <2> DEFINE c1 == [Reports!NoCommand EXCEPT !.pc = "commitments"]
               c2 == [c1 EXCEPT !.action = action]
               c3 == [c2 EXCEPT !.known = inputs]
    <2>1. c = c3
      BY DEF Reports!NoCommand
    <2> HIDE DEF c
    <2>2. CommandShape(c1)
      BY NoCommandIs, CommandSet
    <2> HIDE DEF c1
    <2>3. CommandShape(c2)
      BY <2>2, CommandSet
    <2> HIDE DEF c2
    <2>4. CommandShape(c3)
      BY <2>3, CommandSet
    <2> QED
      BY <2>1, <2>4
  <1> HIDE DEF c
  <1>4. CommandFits(c, journal[d], transaction[d])
    <2>1. 0 \in 0 .. Reports!MaxCount
      BY MaxCountIs
    <2>2. inputs \subseteq Transcripts
      BY LocksTyped, TRUE \in BOOLEAN
    <2>3. "commitments" \in Reports!Points
      BY DEF Reports!Points
    <2> QED
      BY <1>3, <1>a, <2>1, <2>2, <2>3 DEF CommandFits, FilingOrNone
  <1> QED
    BY <1>1, <1>2, <1>4, DeskCommandMoves

LEMMA EndsKeepReports ==
    ASSUME Depth \in Nat, ReportsInv, NEW d \in Directories, Reports!CallFails(d) \/ Reports!Crash(d) \/ Reports!RemoveLock(d)
    PROVE  ReportsInv'
  <1> USE DEF SharedKept, Reports!chainVars, Reports!treeVars, Reports!fileVars
  <1>1. CASE Reports!CallFails(d)
    BY <1>1, DeskCommandEnds DEF Reports!CallFails
  <1>2. CASE Reports!Crash(d)
    <2>1. BooksTyped
      BY <1>2, LocksTyped, TRUE \in BOOLEAN DEF Reports!Crash, BooksTyped
    <2>2. command' = [command EXCEPT ![d] = Reports!NoCommand] /\ UNCHANGED <<computed, journal, transaction, row>> /\ SharedKept
      BY <1>2 DEF Reports!Crash
    <2>3. CommandFits(Reports!NoCommand, journal[d], transaction[d])
      BY IdleFits
    <2> QED
      BY <2>1, <2>2, <2>3, DeskCommandMoves
  <1>3. CASE Reports!RemoveLock(d)
    <2>1. BooksTyped
      BY <1>3, LocksTyped DEF Reports!RemoveLock, BooksTyped
    <2>2. command' = [command EXCEPT ![d] = command[d]] /\ UNCHANGED <<computed, journal, transaction, row>> /\ SharedKept
      BY <1>3, DeskIs DEF Reports!RemoveLock
    <2> QED
      BY <2>1, <2>2, DeskIs, DeskCommandMoves
  <1> QED
    BY <1>1, <1>2, <1>3

LEMMA ImportKeepsReports ==
    ASSUME ReportsInv, NEW d \in Directories, NEW t \in Transcripts, Reports!Import(d, t)
    PROVE  ReportsInv'
  <1>1. /\ inputs' = inputs \cup {t} /\ UNCHANGED <<computed, journal, transaction, row, lock, commands, command>>
        /\ SharedKept
    BY DEF Reports!Import, SharedKept, Reports!chainVars, Reports!treeVars, Reports!fileVars
  <1>2. BooksTyped
    BY <1>1, LocksTyped, TRUE \in BOOLEAN DEF BooksTyped
  <1>3. command' = [command EXCEPT ![d] = command[d]]
    BY <1>1, DeskIs
  <1> QED
    BY <1>1, <1>2, <1>3, DeskIs, DeskCommandMoves

LEMMA CommitmentsKeepReports ==
    ASSUME Depth \in Nat, ReportsInv, NEW d \in Directories, Reports!ReadCommitments(d)
    PROVE  ReportsInv'
  <1> DEFINE c == [command[d] EXCEPT !.pc = "accounts", !.seen = Len(history), !.others = others]
  <1>1. /\ command' = [command EXCEPT ![d] = c]
        /\ UNCHANGED <<computed, journal, transaction, row, lock, commands, inputs>> /\ SharedKept
    BY DEF Reports!ReadCommitments, SharedKept, Reports!chainVars, Reports!treeVars, Reports!fileVars
  <1>2. BooksTyped
    BY <1>1, LocksTyped, TRUE \in BOOLEAN DEF BooksTyped
  <1>3. Len(history) \in 0 .. Reports!MaxCount /\ others \in Nat
    BY MaxCountIs DEF ReportsInv, EpochGrown, Shared
  <1>4. /\ c.pc = "accounts" /\ c.action = command[d].action /\ c.known = command[d].known /\ c.seen = Len(history) /\ c.others = others
        /\ c.existing = command[d].existing /\ CommandShape(c)
    <2> DEFINE x == command[d]
               v == Len(history)
    <2>1. CommandShape(x)
      BY AtWork
    <2> HIDE DEF x, v
    <2> DEFINE x1 == [x EXCEPT !.pc = "accounts"]
               x2 == [x1 EXCEPT !.seen = v]
               x3 == [x2 EXCEPT !.others = others]
               y == [x EXCEPT !.pc = "accounts", !.seen = v, !.others = others]
    <2>2. y = x3 /\ y.pc = "accounts" /\ y.seen = v /\ y.others = others /\ y.action = x.action /\ y.known = x.known /\ y.existing = x.existing
      BY <2>1 DEF CommandShape
    <2> HIDE DEF y
    <2>3. CommandShape(x1)
      BY <2>1, CommandSet
    <2> HIDE DEF x1
    <2>4. CommandShape(x2)
      BY <2>3, CommandSet
    <2> HIDE DEF x2
    <2>5. CommandShape(y)
      BY <2>2, <2>4, CommandSet
    <2>6. c = y
      BY Zenon DEF x, v, y
    <2> QED
      BY <2>2, <2>5, <2>6 DEF x, v
  <1> HIDE DEF c
  <1>5. CommandFits(c, journal[d], transaction[d])
    BY <1>3, <1>4, AtWork DEF CommandFits, Reports!Points
  <1> QED
    BY <1>1, <1>2, <1>5, DeskCommandMoves

LEMMA PrepareKeepsReports ==
    ASSUME Depth \in Nat, Validity \in Nat, ReportsInv, NEW d \in Directories, Reports!Prepare(d)
    PROVE  ReportsInv'
  <1> DEFINE j == [report |-> command[d].report, previous |-> command[d].existing, last |-> height + Validity, state |-> "prepared"]
             c == [command[d] EXCEPT !.pc = "inspect", !.report = NoReport]
  <1>1. /\ command[d].pc = "blockhash" /\ journal' = [journal EXCEPT ![d] = j] /\ command' = [command EXCEPT ![d] = c]
        /\ UNCHANGED <<computed, transaction, row, lock, commands, inputs>> /\ SharedKept
    BY DEF Reports!Prepare, SharedKept, Reports!chainVars, Reports!treeVars
  <1>2. BooksTyped
    BY <1>1, LocksTyped, TRUE \in BOOLEAN DEF BooksTyped
  <1>3. journal[d] = Reports!NoJournal /\ transaction[d] = "unsent"
    BY <1>1, AtWork, JournaledIs
  <1>4. j.report = command[d].report /\ j.previous = command[d].existing /\ j.last = height + Validity /\ j.state = "prepared" /\ JournalShape(j)
    BY DEF JournalShape
  <1>5. c.pc = "inspect" /\ c.action = command[d].action /\ c.known = command[d].known /\ c.seen = command[d].seen /\ c.others = command[d].others
        /\ c.existing = command[d].existing /\ CommandShape(c)
    <2> DEFINE x == command[d]
               x1 == [x EXCEPT !.pc = "inspect"]
               x2 == [x1 EXCEPT !.report = NoReport]
               y == [x EXCEPT !.pc = "inspect", !.report = NoReport]
    <2>1. CommandShape(x)
      BY AtWork
    <2> HIDE DEF x
    <2>2. y = x2 /\ y.pc = "inspect" /\ y.seen = x.seen /\ y.others = x.others /\ y.action = x.action /\ y.known = x.known /\ y.existing = x.existing
      BY <2>1 DEF CommandShape
    <2> HIDE DEF y
    <2>3. CommandShape(x1)
      BY <2>1, CommandSet
    <2> HIDE DEF x1
    <2>4. CommandShape(y)
      BY <2>2, <2>3, CommandSet
    <2>5. c = y
      BY Zenon DEF x, y
    <2> QED
      BY <2>2, <2>4, <2>5 DEF x
  <1> HIDE DEF j, c
  <1>6. height + Validity \in Nat
    BY DEF ReportsInv, Shared
  <1>7. JournalFits(j, transaction[d])
    BY <1>1, <1>4, <1>6, AtWork DEF JournalFits
  <1>8. j # Reports!NoJournal
    BY <1>4, NoJournalIs
  <1>9. CommandFits(c, j, transaction[d])
    BY <1>5, <1>8, AtWork DEF CommandFits, Reports!Points
  <1>10. DeskMoved(d, computed[d], j, transaction[d], c)
    BY <1>1, DeskIs DEF DeskMoved
  <1>11. ReportKept(d, j, transaction[d])
    BY <1>3 DEF ReportKept
  <1> QED
    BY <1>1, <1>2, <1>7, <1>9, <1>10, <1>11, DeskIs, DeskMoves

LEMMA InspectKeepsReports ==
    ASSUME Depth \in Nat, ReportsInv, NEW d \in Directories, Reports!Inspect(d)
    PROVE  ReportsInv'
  <1>1. /\ command[d].pc = "inspect" /\ UNCHANGED <<computed, journal, transaction, row, inputs, commands>> /\ SharedKept
        /\ \/ Reports!Goto(d, "poll") /\ UNCHANGED lock
           \/ Reports!Goto(d, "height") /\ UNCHANGED lock
           \/ Reports!Finish(d)
    BY DEF Reports!Inspect, SharedKept, Reports!chainVars, Reports!treeVars
  <1>2. journal[d] # Reports!NoJournal
    BY <1>1, AtWork
  <1>3. "poll" \in Reports!Points \ {"blockhash"} /\ "height" \in Reports!Points \ {"blockhash"}
    BY DEF Reports!Points
  <1>4. CASE Reports!Finish(d)
    BY <1>1, <1>4, DeskCommandEnds
  <1>5. CASE Reports!Goto(d, "poll") /\ UNCHANGED lock
    BY <1>1, <1>2, <1>3, <1>5, CommandGoes
  <1>6. CASE Reports!Goto(d, "height") /\ UNCHANGED lock
    BY <1>1, <1>2, <1>3, <1>6, CommandGoes
  <1> QED
    BY <1>1, <1>4, <1>5, <1>6

\* A step that sets the journal's state and goes on.
LEMMA JournalStateMoves ==
    ASSUME Depth \in Nat, ReportsInv, NEW d \in Directories, NEW state \in {"submitted", "confirmed"}, NEW pc \in {"send", "record"},
           journal[d] # Reports!NoJournal, state = "confirmed" \/ pc = "record" => transaction[d] = "finalized",
           journal' = [journal EXCEPT ![d].state = state], Reports!Goto(d, pc),
           UNCHANGED <<computed, transaction, row, inputs, commands, lock>>, SharedKept
    PROVE  ReportsInv'
  <1> DEFINE x == journal[d]
             j == [x EXCEPT !.state = state]
             c == [Reports!NoCommand EXCEPT !.pc = pc]
  <1>1. BooksTyped
    BY LocksTyped, TRUE \in BOOLEAN DEF BooksTyped
  <1>2. journal' = [journal EXCEPT ![d] = j] /\ command' = [command EXCEPT ![d] = c]
    BY DEF Reports!Goto
  <1>3. JournalShape(x) /\ Filing(x.report) /\ FilingOrNone(x.previous) /\ x.last \in Nat
    BY DeskIs, JournaledIs DEF JournalFits
  <1> HIDE DEF x
  <1>4. j.report = x.report /\ j.previous = x.previous /\ j.last = x.last /\ j.state = state /\ JournalShape(j)
    BY <1>3 DEF JournalShape
  <1> HIDE DEF j
  <1>5. JournalFits(j, transaction[d])
    BY <1>3, <1>4 DEF JournalFits
  <1>6. j # Reports!NoJournal
    BY <1>4, NoJournalIs
  <1>7. pc \in Reports!Points \ {"blockhash"}
    BY DEF Reports!Points
  <1>8. CommandFits(c, j, transaction[d])
    BY <1>6, <1>7, GotoFits
  <1> HIDE DEF c
  <1>9. DeskMoved(d, computed[d], j, transaction[d], c)
    BY <1>2, DeskIs DEF DeskMoved
  <1>10. ReportKept(d, j, transaction[d])
    BY <1>4, <1>6 DEF ReportKept, x
  <1> QED
    BY <1>1, <1>5, <1>8, <1>9, <1>10, DeskIs, DeskMoves

LEMMA CheckHeightKeepsReports ==
    ASSUME Depth \in Nat, ReportsInv, NEW d \in Directories, Reports!CheckHeight(d)
    PROVE  ReportsInv'
  <1>1. /\ command[d].pc = "height" /\ UNCHANGED <<computed, transaction, row, inputs, commands>> /\ SharedKept
        /\ \/ journal' = [journal EXCEPT ![d].state = "submitted"] /\ Reports!Goto(d, "send") /\ UNCHANGED lock
           \/ Reports!Finish(d) /\ UNCHANGED journal
    BY DEF Reports!CheckHeight, SharedKept, Reports!chainVars, Reports!treeVars
  <1>2. journal[d] # Reports!NoJournal
    BY <1>1, AtWork
  <1>3. CASE Reports!Finish(d) /\ UNCHANGED journal
    BY <1>1, <1>3, DeskCommandEnds
  <1>4. CASE journal' = [journal EXCEPT ![d].state = "submitted"] /\ Reports!Goto(d, "send") /\ UNCHANGED lock
    BY <1>1, <1>2, <1>4, JournalStateMoves
  <1> QED
    BY <1>1, <1>3, <1>4

LEMMA VerifyKeepsReports ==
    ASSUME Depth \in Nat, ReportsInv, NEW d \in Directories, Reports!Verify(d)
    PROVE  ReportsInv'
  <1>1. /\ command[d].pc = "verify" /\ UNCHANGED <<computed, transaction, row, inputs, commands>> /\ SharedKept
        /\ \/ journal' = [journal EXCEPT ![d].state = "confirmed"] /\ Reports!Goto(d, "record") /\ UNCHANGED lock
           \/ Reports!Finish(d) /\ UNCHANGED journal
    BY DEF Reports!Verify, SharedKept, Reports!chainVars, Reports!treeVars
  <1>2. journal[d] # Reports!NoJournal /\ transaction[d] = "finalized"
    BY <1>1, AtWork
  <1>3. CASE Reports!Finish(d) /\ UNCHANGED journal
    BY <1>1, <1>3, DeskCommandEnds
  <1>4. CASE journal' = [journal EXCEPT ![d].state = "confirmed"] /\ Reports!Goto(d, "record") /\ UNCHANGED lock
    BY <1>1, <1>2, <1>4, JournalStateMoves
  <1> QED
    BY <1>1, <1>3, <1>4

LEMMA PollKeepsReports ==
    ASSUME Depth \in Nat, ReportsInv, NEW d \in Directories, Reports!Poll(d)
    PROVE  ReportsInv'
  <1>1. /\ command[d].pc = "poll" /\ UNCHANGED <<computed, journal, transaction, row, inputs, commands>> /\ SharedKept
        /\ \/ transaction[d] = "finalized" /\ Reports!Goto(d, "verify") /\ UNCHANGED lock
           \/ Reports!Finish(d)
    BY DEF Reports!Poll, SharedKept, Reports!chainVars, Reports!treeVars
  <1>2. journal[d] # Reports!NoJournal
    BY <1>1, AtWork
  <1>3. "verify" \in Reports!Points \ {"blockhash"}
    BY DEF Reports!Points
  <1>4. CASE Reports!Finish(d)
    BY <1>1, <1>4, DeskCommandEnds
  <1>5. CASE transaction[d] = "finalized" /\ Reports!Goto(d, "verify") /\ UNCHANGED lock
    BY <1>1, <1>2, <1>3, <1>5, CommandGoes
  <1> QED
    BY <1>1, <1>4, <1>5

LEMMA SendKeepsReports ==
    ASSUME Depth \in Nat, ReportsInv, NEW d \in Directories, Reports!Send(d)
    PROVE  ReportsInv'
  <1> DEFINE x == IF transaction[d] = "unsent" THEN "sent" ELSE transaction[d]
             c1 == [Reports!NoCommand EXCEPT !.pc = "poll"]
             c2 == Reports!NoCommand
  <1>1. /\ command[d].pc = "send" /\ UNCHANGED <<computed, journal, row, inputs, commands>> /\ SharedKept
        /\ transaction' = [transaction EXCEPT ![d] = x]
        /\ (Reports!Goto(d, "poll") /\ UNCHANGED lock) \/ Reports!Finish(d)
    BY DEF Reports!Send, SharedKept, Reports!chainVars, Reports!treeVars
  <1>2. /\ (command' = [command EXCEPT ![d] = c1]) \/ (command' = [command EXCEPT ![d] = c2])
        /\ lock' \in [Directories -> BOOLEAN]
    BY <1>1, LocksTyped, FALSE \in BOOLEAN DEF Reports!Goto, Reports!Finish
  <1>3. BooksTyped
    BY <1>1, <1>2, LocksTyped, FALSE \in BOOLEAN DEF BooksTyped
  <1>4. journal[d] # Reports!NoJournal
    BY <1>1, AtWork
  <1>5. x \in Reports!Landing /\ (transaction[d] = "finalized" => x = "finalized")
    BY DeskIs DEF Reports!Landing
  <1> HIDE DEF x
  <1>6. JournalFits(journal[d], x)
    BY <1>4, <1>5, DeskIs DEF JournalFits
  <1>7. ReportKept(d, journal[d], x)
    BY <1>4, <1>5 DEF ReportKept
  <1>8. CommandFits(c1, journal[d], x) /\ CommandFits(c2, journal[d], x)
    <2>1. "poll" \in Reports!Points \ {"blockhash"}
      BY DEF Reports!Points
    <2>2. CommandFits(c1, journal[d], x)
      BY <1>4, <2>1, GotoFits
    <2> QED
      BY <2>2, IdleFits
  <1> HIDE DEF c1, c2
  <1>9. DeskMoved(d, computed[d], journal[d], x, c1) \/ DeskMoved(d, computed[d], journal[d], x, c2)
    BY <1>1, <1>2, DeskIs DEF DeskMoved
  <1>10. CASE DeskMoved(d, computed[d], journal[d], x, c1)
    BY <1>1, <1>3, <1>5, <1>6, <1>7, <1>8, <1>10, DeskIs, DeskMoves
  <1>11. CASE DeskMoved(d, computed[d], journal[d], x, c2)
    BY <1>1, <1>3, <1>5, <1>6, <1>7, <1>8, <1>11, DeskIs, DeskMoves
  <1> QED
    BY <1>9, <1>10, <1>11

LEMMA RecordKeepsReports ==
    ASSUME Depth \in Nat, ReportsInv, NEW d \in Directories, Reports!Record(d)
    PROVE  ReportsInv'
  <1> DEFINE r == [report |-> journal[d].report, by |-> d]
  <1>1. /\ command[d].pc = "record" /\ row' = r /\ UNCHANGED <<computed, journal, transaction, inputs, commands>> /\ SharedKept
        /\ command' = [command EXCEPT ![d] = Reports!NoCommand] /\ lock' = [lock EXCEPT ![d] = FALSE]
    BY DEF Reports!Record, Reports!Finish, SharedKept, Reports!chainVars, Reports!treeVars
  <1>2. BooksTyped
    BY <1>1, LocksTyped, FALSE \in BOOLEAN DEF BooksTyped
  <1>3. journal[d] # Reports!NoJournal /\ transaction[d] = "finalized" /\ Filing(journal[d].report)
    BY <1>1, AtWork, JournaledIs
  <1>4. r.report = journal[d].report /\ r.by = d
    OBVIOUS
  <1> HIDE DEF r
  <1>5. DeskMoved(d, computed[d], journal[d], transaction[d], Reports!NoCommand)
    BY <1>1, DeskIs DEF DeskMoved
  <1>6. CommandFits(Reports!NoCommand, journal[d], transaction[d])
    BY IdleFits
  <1>7. Desks'
    BY <1>1, <1>2, <1>5, <1>6, DeskIs, DesksMoved DEF SharedKept, BooksTyped
  <1>8. EpochGrown'
    BY <1>1, EpochKept DEF ReportsInv, SharedKept
  <1>9. Shared'
    BY <1>1, <1>2 DEF ReportsInv, Shared, SharedKept, BooksTyped, FilingOrNone, Filing, InTreeOrder
  <1>10. Published'
    <2>1. Published /\ history' = history /\ confidence' = confidence
      BY <1>1 DEF ReportsInv, SharedKept
    <2> QED
      BY <1>1, <1>3, <1>4, <2>1 DEF Published, FinalizedBy, Filing, InTreeOrder
  <1> QED
    BY <1>7, <1>8, <1>9, <1>10 DEF ReportsInv

\* Steps of the chain that leave the epoch, the directories and the row alone.
LEMMA ChainMovesKeepReports ==
    ASSUME ReportsInv, Reports!ObserveElsewhere \/ Reports!ChangePolicy \/ Reports!NewBlock
    PROVE  ReportsInv'
  <1>1. /\ UNCHANGED <<tree, history, confidence, transaction, inputs, row, lock, computed, journal, command, commands>>
        /\ policy' \in {policy, policy + 1} /\ others' \in {others, others + 1} /\ height' \in {height, height + 1}
    BY DEF Reports!ObserveElsewhere, Reports!ChangePolicy, Reports!NewBlock, Reports!treeVars, Reports!fileVars
  <1>2. EpochGrown'
    BY <1>1, EpochKept DEF ReportsInv
  <1>3. Shared'
    BY <1>1 DEF ReportsInv, Shared, FilingOrNone, Filing, InTreeOrder
  <1>4. Desks'
    <2>1. Desks
      BY DEF ReportsInv
    <2>2. ASSUME NEW d \in Directories PROVE DeskFits(d)'
      BY <1>1, <2>1 DEF Desks, DeskFits, FilingOrNone, Filing, InTreeOrder, JournalFits, CommandFits
    <2> QED
      BY <1>1, <2>1, <2>2 DEF Desks
  <1>5. Published'
    BY <1>1 DEF ReportsInv, Published, FinalizedBy, Filing, InTreeOrder
  <1> QED
    BY <1>2, <1>3, <1>4, <1>5 DEF ReportsInv

\* A transaction seen in a block, or forgotten with its fork.
LEMMA ForksKeepReports ==
    ASSUME Depth \in Nat, ReportsInv, NEW d \in Directories, Reports!Process(d) \/ Reports!Fork(d)
    PROVE  ReportsInv'
  <1>1. PICK x \in {"processed", "sent"} :
        /\ transaction' = [transaction EXCEPT ![d] = x] /\ transaction[d] \in {"processed", "sent"}
        /\ UNCHANGED <<computed, journal, row, inputs, lock, command, commands>> /\ SharedKept
    BY DEF Reports!Process, Reports!Fork, SharedKept, Reports!chainVars, Reports!treeVars, Reports!fileVars
  <1>2. BooksTyped
    BY <1>1, LocksTyped, TRUE \in BOOLEAN DEF BooksTyped
  <1>3. DeskMoved(d, computed[d], journal[d], x, command[d])
    BY <1>1, DeskIs DEF DeskMoved
  <1>4. x \in Reports!Landing /\ JournalFits(journal[d], x) /\ CommandFits(command[d], journal[d], x) /\ ReportKept(d, journal[d], x)
    BY <1>1, DeskIs DEF JournalFits, CommandFits, ReportKept, Reports!Landing
  <1> QED
    BY <1>1, <1>2, <1>3, <1>4, DeskIs, DeskMoves

LEMMA FinalizeKeepsReports ==
    ASSUME Depth \in Nat, ReportsInv, NEW d \in Directories, Reports!Finalize(d)
    PROVE  ReportsInv'
  <1>1. /\ transaction[d] = "processed" /\ height' = height + 1
        /\ UNCHANGED <<tree, history, policy, others, inputs, row, lock, computed, journal, command, commands>>
        /\ \/ transaction' = [transaction EXCEPT ![d] = "finalized"] /\ confidence' = journal[d].report
           \/ transaction' = [transaction EXCEPT ![d] = "failed"] /\ confidence' = confidence
    BY DEF Reports!Finalize, Reports!treeVars, Reports!fileVars
  <1>2. PICK x \in {"finalized", "failed"} :
        transaction' = [transaction EXCEPT ![d] = x] /\ ((x = "finalized" /\ confidence' = journal[d].report) \/ confidence' = confidence)
    BY <1>1
  <1>3. BooksTyped
    BY <1>1, LocksTyped, TRUE \in BOOLEAN DEF BooksTyped
  <1>4. DeskMoved(d, computed[d], journal[d], x, command[d])
    BY <1>1, <1>2, DeskIs DEF DeskMoved
  <1>5. x \in Reports!Landing /\ JournalFits(journal[d], x) /\ CommandFits(command[d], journal[d], x) /\ ReportKept(d, journal[d], x)
    BY <1>1, <1>2, DeskIs DEF JournalFits, CommandFits, ReportKept, Reports!Landing
  <1>6. journal[d] # Reports!NoJournal /\ Filing(journal[d].report)
    BY <1>1, JournaledIs
  <1>7. Desks'
    BY <1>1, <1>3, <1>4, <1>5, DeskIs, DesksMoved DEF BooksTyped
  <1>8. EpochGrown'
    BY <1>1, EpochKept DEF ReportsInv
  <1>9. Shared'
    <2>1. Shared
      BY DEF ReportsInv
    <2>2. FilingOrNone(confidence)'
      BY <1>1, <1>2, <1>6, <2>1 DEF Shared, FilingOrNone, Filing, InTreeOrder
    <2> QED
      BY <1>1, <2>1, <2>2 DEF Shared
  <1>10. Published'
    <2>1. \A e \in Directories : \A r : FinalizedBy(e, r) => journal'[e] # Reports!NoJournal /\ journal'[e].report = r /\ transaction'[e] = "finalized"
      BY <1>4, <1>5, FinalizedKept
    <2>2. Published /\ row' = row /\ history' = history
      BY <1>1 DEF ReportsInv
    <2>3. confidence' # NoReport => \E e \in Directories : FinalizedBy(e, confidence)'
      <3>1. CASE confidence' = confidence
        BY <2>1, <2>2, <3>1 DEF Published, FinalizedBy
      <3>2. CASE x = "finalized" /\ confidence' = journal[d].report
        <4>1. transaction'[d] = "finalized" /\ journal'[d] = journal[d]
          BY <1>1, <1>2, <3>2 DEF ReportsInv, Desks
        <4> QED
          BY <1>6, <3>2, <4>1 DEF FinalizedBy
      <3> QED
        BY <1>2, <3>1, <3>2
    <2>4. row' = NoReport \/ (row'.by \in Directories /\ Filing(row.report)' /\ FinalizedBy(row.by, row.report)')
      BY <2>1, <2>2 DEF Published, FinalizedBy, Filing, InTreeOrder
    <2> QED
      BY <2>3, <2>4 DEF Published
  <1> QED
    BY <1>7, <1>8, <1>9, <1>10 DEF ReportsInv

LEMMA ObserveKeepsReports ==
    ASSUME Depth \in Nat, ReportsInv, NEW t \in Transcripts, Reports!Observe(t)
    PROVE  ReportsInv'
  <1>1. /\ t = tree.count + 1 /\ tree.count < Reports!MaxCount /\ tree' = Reports!Appended(t, tree) /\ history' = Append(history, t)
        /\ confidence' = NoReport /\ inputs' \in {inputs, inputs \cup {t}}
        /\ UNCHANGED <<policy, others, height, transaction, row, lock, computed, journal, command, commands>>
    BY DEF Reports!Observe, Reports!AppendLeaf, Reports!fileVars
  <1>2. /\ history \in Seq(Transcripts) /\ Len(history) <= Reports!MaxCount /\ FrontierFor(history, tree) /\ tree.count = Len(history)
        /\ \A i \in 1 .. Len(history) : history[i] = i
    BY DEF ReportsInv, EpochGrown, FrontierFor
  <1>3. /\ history' \in Seq(Transcripts) /\ Len(history') = Len(history) + 1
        /\ \A i \in 1 .. Len(history) : history'[i] = history[i]
        /\ history'[Len(history) + 1] = Len(history) + 1
    BY <1>1, <1>2
  <1>4. EpochGrown'
    <2>1. FrontierFor(Append(history, t), Reports!Appended(t, tree)) /\ Reports!Appended(t, tree).root = Reports!Complete(Append(history, t))
      BY <1>2, AppendKeeps
    <2>2. FrontierFor(history', tree') /\ tree'.root = Reports!Complete(history')
      BY <1>1, <2>1
    <2>3. FrontierFor(history, tree)'
      BY <2>2 DEF FrontierFor
    <2>4. Len(history') <= Reports!MaxCount
      BY <1>1, <1>2, <1>3, MaxCountIs
    <2>5. \A i \in 1 .. Len(history') : history'[i] = i
      BY <1>2, <1>3
    <2> QED
      BY <1>3, <2>2, <2>3, <2>4, <2>5 DEF EpochGrown
  <1>5. \A o : InTreeOrder(o) => o \in Seq(Transcripts) /\ Len(o) \in 1 .. Len(history') /\ \A i \in 1 .. Len(o) : o[i] = history'[i]
    BY <1>2, <1>3 DEF InTreeOrder
  <1>6. Shared'
    BY <1>1 DEF ReportsInv, Shared, FilingOrNone
  <1>7. Desks'
    <2>1. Desks
      BY DEF ReportsInv
    <2>2. ASSUME NEW d \in Directories PROVE DeskFits(d)'
      <3> DEFINE k == computed[d]
                 j == journal[d]
                 x == transaction[d]
                 c == command[d]
      <3>1. FilingOrNone(k) /\ JournalFits(j, x) /\ CommandFits(c, j, x)
        BY DeskIs
      <3>2. computed'[d] = k /\ journal'[d] = j /\ transaction'[d] = x /\ command'[d] = c
        BY <1>1
      <3> HIDE DEF k, j, x, c
      <3>3. FilingOrNone(computed[d])'
        BY <1>5, <3>1, <3>2 DEF FilingOrNone, Filing, InTreeOrder
      <3>4. JournalFits(journal[d], transaction[d])'
        BY <1>5, <3>1, <3>2 DEF JournalFits, FilingOrNone, Filing, InTreeOrder
      <3>5. CommandFits(command[d], journal[d], transaction[d])'
        BY <1>5, <3>1, <3>2 DEF CommandFits, FilingOrNone, Filing, InTreeOrder
      <3> QED
        BY <3>3, <3>4, <3>5 DEF DeskFits
    <2> QED
      BY <1>1, <2>1, <2>2 DEF Desks
  <1>8. Published'
    BY <1>1, <1>5 DEF ReportsInv, Published, FinalizedBy, Filing, InTreeOrder
  <1> QED
    BY <1>4, <1>6, <1>7, <1>8 DEF ReportsInv

LEMMA AccountsKeepReports ==
    ASSUME Depth \in Nat, ReportsInv, NEW d \in Directories, Reports!ReadAccounts(d)
    PROVE  ReportsInv'
  <1>1. PICK order \in Reports!Orders(d) :
        LET report == Reports!ReportOf(d, order)
            good == Reports!Computable(d, order) /\ Reports!Earlier(d) \in {NoReport, report}
            next == IF Reports!Journaled(d) THEN "inspect" ELSE "blockhash"
        IN
        \/ /\ good /\ command[d].action = "compute" /\ ~Reports!Journaled(d)
           /\ computed' = [computed EXCEPT ![d] = report]
           /\ Reports!Finish(d)
        \/ /\ good /\ (command[d].action = "publish" \/ (command[d].action = "status" /\ Reports!Journaled(d)))
           /\ command' = [command EXCEPT ![d] = [Reports!NoCommand EXCEPT !.pc = next, !.action = command[d].action, !.existing = confidence,
                               !.report = IF Reports!Journaled(d) THEN NoReport ELSE report]]
           /\ UNCHANGED <<lock, computed, commands>>
        \/ /\ ~good \/ (command[d].action = "compute" /\ Reports!Journaled(d)) \/ (command[d].action = "status" /\ ~Reports!Journaled(d))
           /\ Reports!Finish(d)
           /\ UNCHANGED computed
    BY DEF Reports!ReadAccounts
  <1>2. UNCHANGED <<journal, transaction, row, inputs, commands>> /\ SharedKept
    BY DEF Reports!ReadAccounts, SharedKept, Reports!chainVars, Reports!treeVars
  <1> DEFINE report == Reports!ReportOf(d, order)
             pc == IF Reports!Journaled(d) THEN "inspect" ELSE "blockhash"
             kept == IF Reports!Journaled(d) THEN NoReport ELSE report
             action == command[d].action
             c == [Reports!NoCommand EXCEPT !.pc = pc, !.action = action, !.existing = confidence, !.report = kept]
  <1>3. Reports!Computable(d, order) => Filing(report)
    <2> SUFFICES ASSUME Reports!Computable(d, order) PROVE Filing(report)
      OBVIOUS
    <2>1. order = history /\ Len(history) > 0 /\ history \in Seq(Transcripts)
      BY ComputableInOrder DEF ReportsInv, EpochGrown
    <2>2. policy \in Nat /\ height \in Nat /\ command[d].others \in Nat
      BY AtWork DEF ReportsInv, Shared
    <2>3. Reports!EvaluationTime(d) \in Nat
      <3>1. FilingOrNone(computed[d]) /\ (Reports!Journaled(d) => Filing(journal[d].report))
        BY DeskIs, JournaledIs
      <3>2. Reports!Earlier(d) # NoReport => Filing(Reports!Earlier(d))
        BY <3>1 DEF Reports!Earlier, FilingOrNone
      <3> QED
        BY <2>2, <3>2 DEF Reports!EvaluationTime, Filing, Reports!IsReport
    <2>4. /\ report.order = order /\ report.policy = policy /\ report.others = command[d].others
          /\ report.at = Reports!EvaluationTime(d)
      BY DEF Reports!ReportOf
    <2> HIDE DEF report
    <2> QED
      BY <2>1, <2>2, <2>3, <2>4 DEF Filing, Reports!IsReport, InTreeOrder
  <1>4. \/ Reports!Computable(d, order) /\ computed' = [computed EXCEPT ![d] = report] /\ Reports!Finish(d)
        \/ Reports!Computable(d, order) /\ command' = [command EXCEPT ![d] = c] /\ UNCHANGED <<lock, computed>>
        \/ Reports!Finish(d) /\ UNCHANGED computed
    BY <1>1
  <1> HIDE DEF report, kept, pc, action, c
  <1>5. CASE Reports!Finish(d) /\ UNCHANGED computed
    BY <1>2, <1>5, DeskCommandEnds
  <1>6. CASE Reports!Computable(d, order) /\ computed' = [computed EXCEPT ![d] = report] /\ Reports!Finish(d)
    <2>1. BooksTyped
      BY <1>2, <1>6, LocksTyped, FALSE \in BOOLEAN DEF Reports!Finish, BooksTyped
    <2>2. DeskMoved(d, report, journal[d], transaction[d], Reports!NoCommand)
      BY <1>2, <1>6, DeskIs DEF DeskMoved, Reports!Finish
    <2>3. FilingOrNone(report)
      BY <1>3, <1>6 DEF FilingOrNone
    <2>4. CommandFits(Reports!NoCommand, journal[d], transaction[d])
      BY IdleFits
    <2> QED
      BY <1>2, <2>1, <2>2, <2>3, <2>4, DeskIs, DeskMoves
  <1>7. CASE Reports!Computable(d, order) /\ command' = [command EXCEPT ![d] = c] /\ UNCHANGED <<lock, computed>>
    <2>1. BooksTyped
      BY <1>2, <1>7, LocksTyped, FALSE \in BOOLEAN DEF BooksTyped
    <2>2. c.pc = pc /\ c.action = action /\ c.existing = confidence /\ c.report = kept /\ c.known = {} /\ c.seen = 0 /\ c.others = 0
      BY DEF c, Reports!NoCommand
    <2>3. CommandShape(c)
      <3> DEFINE c1 == [Reports!NoCommand EXCEPT !.pc = pc]
                 c2 == [c1 EXCEPT !.action = action]
                 c3 == [c2 EXCEPT !.existing = confidence]
                 c4 == [c3 EXCEPT !.report = kept]
      <3>1. c = c4
        BY DEF c, Reports!NoCommand
      <3>2. CommandShape(c1)
        BY NoCommandIs, CommandSet
      <3> HIDE DEF c1
      <3>3. CommandShape(c2)
        BY <3>2, CommandSet
      <3> HIDE DEF c2
      <3>4. CommandShape(c3)
        BY <3>3, CommandSet
      <3> HIDE DEF c3
      <3> QED
        BY <3>1, <3>4, CommandSet
    <2>4. 0 \in 0 .. Reports!MaxCount
      BY MaxCountIs
    <2>5. action \in Reports!Actions \cup {NoReport} /\ FilingOrNone(confidence)
      BY AtWork DEF action, ReportsInv, Shared
    <2>6. pc \in Reports!Points
      BY DEF pc, Reports!Points
    <2>7. pc = "blockhash" => journal[d] = Reports!NoJournal /\ Filing(kept)
      BY <1>3, <1>7, JournaledIs DEF pc, kept
    <2>8. pc # "blockhash" => pc = "inspect" /\ journal[d] # Reports!NoJournal
      BY JournaledIs DEF pc
    <2>9. CommandFits(c, journal[d], transaction[d])
      BY <2>2, <2>3, <2>4, <2>5, <2>6, <2>7, <2>8 DEF CommandFits
    <2> QED
      BY <1>2, <1>7, <2>1, <2>9, DeskCommandMoves
  <1> QED
    BY <1>4, <1>5, <1>6, <1>7, SMTT(40)

LEMMA InitReportsInv ==
    ASSUME Reports!PublicationConstants, Reports!Init
    PROVE  ReportsInv
  <1>0. Depth \in Nat /\ MaxCommands \in Nat
    BY DEF Reports!PublicationConstants, Reports!TreeConstants
  <1>1. tree = Reports!EmptyTree /\ history = <<>>
    BY DEF Reports!Init, Reports!TreeInit
  <1>2. EpochGrown
    <2>1. FrontierFor(history, tree)
      BY <1>0, <1>1, EmptyFrontier
    <2>2. history \in Seq(Transcripts) /\ Len(history) = 0
      BY <1>1
    <2>3. Len(history) <= Reports!MaxCount
      BY <1>0, <2>2, MaxCountIs
    <2> QED
      BY <2>1, <2>2, <2>3 DEF EpochGrown
  <1>3. Shared
    BY <1>0 DEF Reports!Init, Shared, FilingOrNone
  <1>4. Desks
    <2>1. \A d \in Directories : computed[d] = NoReport /\ journal[d] = Reports!NoJournal /\ transaction[d] = "unsent" /\ command[d] = Reports!NoCommand
      BY DEF Reports!Init
    <2>2. ASSUME NEW d \in Directories PROVE DeskFits(d)
      <3>1. CommandFits(Reports!NoCommand, Reports!NoJournal, "unsent")
        BY <1>0, IdleFits
      <3>2. JournalFits(Reports!NoJournal, "unsent")
        BY NoJournalIs DEF JournalFits
      <3> QED
        BY <2>1, <3>1, <3>2 DEF DeskFits, FilingOrNone
    <2> QED
      BY <2>2 DEF Reports!Init, Desks, Reports!Landing
  <1>5. Published
    BY DEF Reports!Init, Published
  <1> QED
    BY <1>2, <1>3, <1>4, <1>5 DEF ReportsInv

LEMMA NextReportsInv ==
    ASSUME Reports!PublicationConstants, ReportsInv, [Reports!Next]_Reports!vars
    PROVE  ReportsInv'
  <1>0. Depth \in Nat /\ MaxCommands \in Nat /\ Validity \in Nat
    BY DEF Reports!PublicationConstants, Reports!TreeConstants
  <1>1. ASSUME NEW d \in Directories, Reports!Command(d) PROVE ReportsInv'
    BY <1>0, <1>1, StartKeepsReports, CommitmentsKeepReports, AccountsKeepReports, PrepareKeepsReports, InspectKeepsReports,
       CheckHeightKeepsReports, SendKeepsReports, PollKeepsReports, VerifyKeepsReports, RecordKeepsReports, EndsKeepReports,
       ImportKeepsReports DEF Reports!Command
  <1>2. ASSUME Reports!Cluster PROVE ReportsInv'
    BY <1>0, <1>2, ObserveKeepsReports, ForksKeepReports, FinalizeKeepsReports, ChainMovesKeepReports DEF Reports!Cluster
  <1>3. CASE UNCHANGED Reports!vars
    <2>1. UNCHANGED <<tree, history, confidence, policy, others, height, transaction, inputs, row, lock, computed, journal, command, commands>>
      BY <1>3 DEF Reports!vars, Reports!chainVars, Reports!treeVars, Reports!fileVars
    <2>2. EpochGrown'
      BY <2>1, EpochKept DEF ReportsInv
    <2>3. Desks
      BY DEF ReportsInv
    <2>4. ASSUME NEW d \in Directories PROVE DeskFits(d)'
      BY <2>1, <2>3 DEF Desks, DeskFits, FilingOrNone, Filing, InTreeOrder, JournalFits, CommandFits
    <2>5. Desks'
      BY <2>1, <2>3, <2>4 DEF Desks
    <2>6. Shared' /\ Published'
      BY <2>1 DEF ReportsInv, Shared, Published, FinalizedBy, FilingOrNone, Filing, InTreeOrder
    <2> QED
      BY <2>2, <2>5, <2>6 DEF ReportsInv
  <1> QED
    BY <1>1, <1>2, <1>3 DEF Reports!Next

\* Every file holds reports in tree order, and a journal that says confirmed,
\* a row and the hash on chain each stand for a finalized transaction.
LEMMA AlwaysReportsInv == ReportsSpec => []ReportsInv
  <1>1. ReportsInit => ReportsInv
    BY InitReportsInv, ReportsAssumption DEF ReportsInit
  <1>2. ReportsInv /\ [ReportsNext]_<<side, reportVars, observed>> => ReportsInv'
    <2>1. [ReportsNext]_<<side, reportVars, observed>> => [Reports!Next]_Reports!vars
      BY DEF ReportsNext, reportVars, Reports!vars, Reports!chainVars, Reports!treeVars, Reports!fileVars
    <2> QED
      BY <2>1, NextReportsInv, ReportsAssumption
  <1> QED
    BY <1>1, <1>2, PTL DEF ReportsSpec

\* The files, the database and the chain of the confidence command tell one
\* story (dev39-confidence.ts with confidence-recovery.ts): for every number of
\* directories, commands and events, wherever commands die and however
\* transactions land, a confirmed journal and a recorded report stand for a
\* finalized transaction, and the hash on chain has its report in a journal.
THEOREM JournalStaysSound == ReportsSpec => []JournalSound
  <1>1. ReportsInv => JournalSound
    <2> SUFFICES ASSUME ReportsInv PROVE JournalSound
      OBVIOUS
    <2>0. Reports!PublicationConstants
      BY ReportsAssumption
    <2>1. Reports!TypeOK
      <3>1. ASSUME NEW d \in Directories
            PROVE  /\ computed[d] = NoReport \/ Reports!IsReport(computed[d])
                   /\ journal[d] = Reports!NoJournal \/ Reports!IsJournal(journal[d])
                   /\ command[d].pc \in Reports!Points /\ command[d].action \in Reports!Actions \cup {NoReport}
                   /\ command[d].known \subseteq Transcripts /\ command[d].seen \in 0 .. Reports!MaxCount
        BY DeskIs DEF FilingOrNone, Filing, JournalFits, CommandFits, Reports!IsJournal
      <3> QED
        BY <3>1 DEF ReportsInv, Shared, Desks, Published, FilingOrNone, Filing, Reports!TypeOK
    <2>2. Reports!RecordedFinalized
      <3>1. ASSUME NEW d \in Directories, journal[d].state = "confirmed" PROVE transaction[d] = "finalized"
        BY <3>1, DeskIs, NoJournalIs DEF JournalFits
      <3> QED
        BY <3>1 DEF ReportsInv, Published, FinalizedBy, Reports!RecordedFinalized
    <2>3. Reports!ConfidenceJournaled
      BY JournaledIs DEF ReportsInv, Published, FinalizedBy, Reports!ConfidenceJournaled
    <2> QED
      BY <2>1, <2>2, <2>3 DEF JournalSound, Reports!JournalSound
  <1> QED
    BY <1>1, AlwaysReportsInv, PTL

\* The program's frontier and the reports agree on the tree (append_observation,
\* computeConfidence): for every depth the root is the complete tree's after
\* every append the counter allows, and every report in a file, the database or
\* on chain lists the epoch's first observations in the order of the tree.
THEOREM TreeStaysSound == ReportsSpec => []TreeSound
  <1>1. ReportsInv => TreeSound
    <2> SUFFICES ASSUME ReportsInv PROVE TreeSound
      OBVIOUS
    <2>1. history \in Seq(Transcripts) /\ tree.count = Len(history) /\ (Len(history) > 0 => tree.root = Reports!Complete(history))
      BY DEF ReportsInv, EpochGrown, FrontierFor
    <2>2. Reports!FrontierRoot
      BY <2>1 DEF Reports!FrontierRoot
    <2>3. ASSUME NEW r, Filing(r) PROVE Len(r.order) > 0 /\ Reports!IsPrefix(r.order, history)
      <3>1. r.order \in Seq(Transcripts) /\ Len(r.order) \in 1 .. Len(history) /\ \A i \in 1 .. Len(r.order) : r.order[i] = history[i]
        BY <2>3 DEF Filing, InTreeOrder
      <3>2. SubSeq(r.order, 1, Len(r.order)) = SubSeq(history, 1, Len(r.order))
        BY <2>1, <3>1
      <3> QED
        BY <2>1, <3>1, <3>2 DEF Reports!IsPrefix
    <2>4. ASSUME NEW r \in Reports!Filed, r # NoReport PROVE Filing(r)
      <3>1. \A d \in Directories : FilingOrNone(computed[d]) /\ (Reports!Journaled(d) => Filing(journal[d].report))
        BY DeskIs, JournaledIs
      <3>2. FilingOrNone(confidence) /\ (row # NoReport => Filing(row.report))
        BY DEF ReportsInv, Shared, Published
      <3> QED
        BY <2>4, <3>1, <3>2 DEF Reports!Filed, FilingOrNone
    <2>5. Reports!ReportsInTreeOrder
      BY <2>3, <2>4 DEF Reports!ReportsInTreeOrder
    <2> QED
      BY <2>2, <2>5 DEF TreeSound, Reports!TreeSound
  <1> QED
    BY <1>1, AlwaysReportsInv, PTL

-----------------------------------------------------------------------------
(* The score: minima, quotients and sums. *)

LEMMA SmallestOf ==
    ASSUME NEW S \in SUBSET Nat, S # {}
    PROVE  Scoring!Min(S) \in S /\ \A x \in S : Scoring!Min(S) <= x
  <1>1. \E m \in S : \A n \in S : m <= n
    BY LeastOf
  <1> QED
    BY <1>1 DEF Scoring!Min

LEMMA LargestOf ==
    ASSUME NEW S \in SUBSET Nat, S # {}, NEW b \in Nat, \A x \in S : x <= b
    PROVE  Scoring!Max(S) \in S /\ \A x \in S : x <= Scoring!Max(S)
  <1> DEFINE U == {k \in Nat : \A x \in S : x <= k}
  <1>1. PICK m \in U : \A n \in U : m <= n
    BY LeastOf
  <1>2. m \in S
    <2> SUFFICES ASSUME m \notin S PROVE FALSE
      OBVIOUS
    <2>1. \A x \in S : x <= m - 1 /\ m - 1 \in Nat
      BY <1>1
    <2>2. m - 1 \in U
      BY <2>1
    <2> QED
      BY <1>1, <2>2
  <1>3. m \in S /\ \A x \in S : m >= x
    BY <1>1, <1>2
  <1>4. Scoring!Max(S) \in S /\ \A x \in S : Scoring!Max(S) >= x
    BY <1>3 DEF Scoring!Max
  <1> QED
    BY <1>4

LEMMA SmallerOfTwo ==
    ASSUME NEW a \in Int, NEW b \in Int
    PROVE  Scoring!Min({a, b}) = IF a <= b THEN a ELSE b
  BY DEF Scoring!Min

LEMMA LargerOfTwo ==
    ASSUME NEW a \in Int, NEW b \in Int
    PROVE  Scoring!Max({a, b}) = IF a >= b THEN a ELSE b
  BY DEF Scoring!Max

\* The scale's top is kept as a name.
LEMMA Scale == Scoring!BPS \in Nat
  BY DEF Scoring!BPS

\* The instance counts as the library does.
LEMMA SameCount == ASSUME NEW S PROVE Scoring!Cardinality(S) = Cardinality(S) /\ (Scoring!IsFiniteSet(S) <=> IsFiniteSet(S))
  BY Zenon DEF Scoring!Cardinality, Cardinality, Scoring!IsFiniteSet, IsFiniteSet

LEMMA ClampIs == ASSUME NEW n \in Int PROVE Scoring!Clamp(n) \in 0 .. Scoring!BPS
  <1> DEFINE m == Scoring!Min({Scoring!BPS, n})  c == Scoring!Max({0, m})
  <1>0. Scoring!BPS \in Nat
    BY Scale
  <1>1. m \in Int /\ m <= Scoring!BPS
    BY <1>0, SmallerOfTwo
  <1>2. Scoring!Clamp(n) = c
    BY Zenon DEF Scoring!Clamp
  <1> HIDE DEF m
  <1>3. c = IF 0 >= m THEN 0 ELSE m
    BY <1>1, LargerOfTwo
  <1> HIDE DEF c
  <1> QED
    BY <1>0, <1>1, <1>2, <1>3

\* More members, a smaller minimum.
LEMMA SmallestFalls ==
    ASSUME NEW T \in SUBSET Nat, NEW S \in SUBSET T, S # {}
    PROVE  Scoring!Min(T) <= Scoring!Min(S)
  <1>1. S \in SUBSET Nat /\ T # {}
    OBVIOUS
  <1>2. Scoring!Min(S) \in S
    BY <1>1, SmallestOf
  <1> QED
    BY <1>1, <1>2, SmallestOf

LEMMA Product ==
    ASSUME NEW n \in Nat, NEW a \in Int, NEW b \in Int, a <= b
    PROVE  n * a \in Int /\ n * b \in Int /\ n * a <= n * b
  OBVIOUS

LEMMA Quotient ==
    ASSUME NEW a \in Nat, NEW n \in Nat \ {0}
    PROVE  a \div n \in Nat /\ n * (a \div n) <= a /\ a < n * (a \div n) + n /\ a \div n <= a
  OBVIOUS

LEMMA QuotientRises ==
    ASSUME NEW a \in Nat, NEW b \in Nat, NEW n \in Nat \ {0}, a <= b
    PROVE  a \div n <= b \div n
  <1> DEFINE s == a \div n  t == b \div n
  <1>1. s \in Nat /\ n * s <= a
    BY Quotient
  <1>2. t \in Nat /\ b < n * t + n
    BY Quotient
  <1> HIDE DEF s, t
  <1> SUFFICES ASSUME t + 1 <= s PROVE FALSE
    BY <1>1, <1>2 DEF s, t
  <1>3. n * (t + 1) <= n * s
    BY <1>1, <1>2, Product
  <1>4. n * (t + 1) = n * t + n
    BY <1>2
  <1> QED
    BY <1>1, <1>2, <1>3, <1>4

LEMMA QuotientBounded ==
    ASSUME NEW a \in Nat, NEW b \in Nat, NEW n \in Nat \ {0}, a <= n * b
    PROVE  a \div n \in 0 .. b
  <1> DEFINE s == a \div n
  <1>1. s \in Nat /\ n * s <= a
    BY Quotient
  <1> HIDE DEF s
  <1> SUFFICES ASSUME b + 1 <= s PROVE FALSE
    BY <1>1 DEF s
  <1>2. n * (b + 1) <= n * s
    BY <1>1, Product
  <1>3. n * (b + 1) = n * b + n /\ n * b \in Nat
    OBVIOUS
  <1> QED
    BY <1>1, <1>2, <1>3
\* The units of the first n values of f.
Units(f, n) == {u \in (1 .. n) \X Nat : u[1] \in DOMAIN f /\ u[2] \in 1 .. f[u[1]]}

LEMMA SumsExist ==
    ASSUME Observers \in Nat, NEW f
    PROVE  \E s : s = [n \in 0 .. Observers |-> IF n = 0 THEN 0 ELSE s[n - 1] + (IF n \in DOMAIN f THEN f[n] ELSE 0)]
  <1> DEFINE Upto(d, s) == s = [n \in 0 .. d |-> IF n = 0 THEN 0 ELSE s[n - 1] + (IF n \in DOMAIN f THEN f[n] ELSE 0)]
             S == {d \in 0 .. Observers : \E s : Upto(d, s)}
  <1>1. 0 \in S
    <2>1. Upto(0, [n \in 0 .. 0 |-> 0])
      OBVIOUS
    <2>2. 0 \in 0 .. Observers
      OBVIOUS
    <2> HIDE DEF Upto
    <2> QED
      BY <2>1, <2>2
  <1>2. ASSUME NEW d \in 0 .. Observers - 1, d \in S PROVE d + 1 \in S
    <2>1. PICK s : Upto(d, s)
      BY <1>2
    <2> DEFINE g == [n \in 0 .. d + 1 |-> IF n = d + 1 THEN s[d] + (IF d + 1 \in DOMAIN f THEN f[d + 1] ELSE 0) ELSE s[n]]
    <2>2. Upto(d + 1, g)
      BY <2>1
    <2> HIDE DEF g, Upto
    <2> QED
      BY <2>2
  <1> HIDE DEF S
  <1>3. Observers \in S
    <2>1. \A n \in 0 .. Observers : n \in S
      BY <1>1, <1>2, Upward
    <2> QED
      BY <2>1
  <1> QED
    BY <1>3 DEF S

LEMMA SumsAre ==
    ASSUME Observers \in Nat, NEW f
    PROVE  /\ Scoring!Sums(f)[0] = 0
           /\ \A n \in 0 .. Observers - 1 :
                  Scoring!Sums(f)[n + 1] = Scoring!Sums(f)[n] + (IF n + 1 \in DOMAIN f THEN f[n + 1] ELSE 0)
  <1> DEFINE s == Scoring!Sums(f)
  <1>1. s = [n \in 0 .. Observers |-> IF n = 0 THEN 0 ELSE s[n - 1] + (IF n \in DOMAIN f THEN f[n] ELSE 0)]
    BY SumsExist, Zenon DEF Scoring!Sums
  <1> HIDE DEF s
  <1>2. s[0] = 0 /\ \A n \in 0 .. Observers - 1 : s[n + 1] = s[n] + (IF n + 1 \in DOMAIN f THEN f[n + 1] ELSE 0)
    BY <1>1
  <1> QED
    BY <1>2 DEF s

\* One more value adds its units.
LEMMA UnitsGrow ==
    ASSUME NEW f, NEW n \in Nat, n + 1 \in DOMAIN f => f[n + 1] \in Nat, IsFiniteSet(Units(f, n))
    PROVE  /\ IsFiniteSet(Units(f, n + 1))
           /\ Cardinality(Units(f, n + 1)) = Cardinality(Units(f, n)) + (IF n + 1 \in DOMAIN f THEN f[n + 1] ELSE 0)
  <1>1. CASE n + 1 \notin DOMAIN f
    <2>1. Units(f, n + 1) = Units(f, n)
      BY <1>1 DEF Units
    <2>2. Cardinality(Units(f, n)) \in Nat
      BY FS_CardinalityType
    <2> QED
      BY <1>1, <2>1, <2>2
  <1>2. CASE n + 1 \in DOMAIN f
    <2> DEFINE k == f[n + 1]  here == {n + 1}  upto == 1 .. k  more == here \X upto
    <2>1. k \in Nat
      BY <1>2
    <2>2. Units(f, n + 1) = Units(f, n) \cup more /\ Units(f, n) \cap more = {}
      BY <1>2, <2>1 DEF Units
    <2> HIDE DEF k
    <2>3. IsFiniteSet(here) /\ Cardinality(here) = 1
      BY FS_Singleton
    <2>4. IsFiniteSet(upto) /\ Cardinality(upto) = k
      BY <2>1, FS_Interval, SMTT(40)
    <2> HIDE DEF here, upto
    <2>5. IsFiniteSet(more) /\ Cardinality(more) = k
      BY <2>1, <2>3, <2>4, FS_Product
    <2> HIDE DEF more
    <2>6. IsFiniteSet(Units(f, n) \cup more)
          /\ Cardinality(Units(f, n) \cup more) = Cardinality(Units(f, n)) + Cardinality(more) - Cardinality(Units(f, n) \cap more)
      BY <2>5, FS_Union
    <2>7. Cardinality(Units(f, n) \cap more) = 0 /\ Cardinality(Units(f, n)) \in Nat
      BY <2>2, FS_EmptySet, FS_CardinalityType
    <2>8. IsFiniteSet(Units(f, n + 1)) /\ Cardinality(Units(f, n + 1)) = Cardinality(Units(f, n)) + k
      BY <2>1, <2>2, <2>5, <2>6, <2>7
    <2> QED
      BY <1>2, <2>8 DEF k
  <1> QED
    BY <1>1, <1>2

\* A sum of naturals counts units.
LEMMA TotalCounts ==
    ASSUME Observers \in Nat, NEW f, \A x \in DOMAIN f : f[x] \in Nat
    PROVE  IsFiniteSet(Units(f, Observers)) /\ Scoring!Total(f) = Cardinality(Units(f, Observers))
  <1> DEFINE s == Scoring!Sums(f)
             S == {n \in 0 .. Observers : IsFiniteSet(Units(f, n)) /\ s[n] = Cardinality(Units(f, n))}
  <1>1. s[0] = 0 /\ \A n \in 0 .. Observers - 1 : s[n + 1] = s[n] + (IF n + 1 \in DOMAIN f THEN f[n + 1] ELSE 0)
    BY SumsAre
  <1> HIDE DEF s
  <1>2. 0 \in S
    <2>1. Units(f, 0) = {}
      BY DEF Units
    <2> QED
      BY <1>1, <2>1, FS_EmptySet
  <1>3. ASSUME NEW n \in 0 .. Observers - 1, n \in S PROVE n + 1 \in S
    <2>1. n \in Nat /\ (n + 1 \in DOMAIN f => f[n + 1] \in Nat) /\ IsFiniteSet(Units(f, n))
      BY <1>3
    <2>2. /\ IsFiniteSet(Units(f, n + 1))
          /\ Cardinality(Units(f, n + 1)) = Cardinality(Units(f, n)) + (IF n + 1 \in DOMAIN f THEN f[n + 1] ELSE 0)
      BY <2>1, UnitsGrow
    <2> QED
      BY <1>1, <1>3, <2>2
  <1> HIDE DEF S
  <1>4. \A n \in 0 .. Observers : n \in S
    BY <1>2, <1>3, Upward
  <1>5. Observers \in S
    BY <1>4
  <1> QED
    BY <1>5 DEF S, s, Scoring!Total

\* A sum rises with its terms, in whatever order they are.
LEMMA TotalRises ==
    ASSUME Observers \in Nat, NEW f, NEW g, DOMAIN g \subseteq 1 .. Observers,
           \A x \in DOMAIN f : f[x] \in Nat, \A x \in DOMAIN g : g[x] \in Nat,
           NEW h \in [DOMAIN f -> DOMAIN g], \A x, y \in DOMAIN f : h[x] = h[y] => x = y,
           \A x \in DOMAIN f : f[x] <= g[h[x]]
    PROVE  Scoring!Total(f) \in Nat /\ Scoring!Total(f) <= Scoring!Total(g)
  <1> DEFINE U == Units(f, Observers)  V == Units(g, Observers)
             m == [u \in U |-> <<h[u[1]], u[2]>>]
  <1>1. IsFiniteSet(U) /\ Scoring!Total(f) = Cardinality(U)
    BY TotalCounts
  <1>2. IsFiniteSet(V) /\ Scoring!Total(g) = Cardinality(V)
    BY TotalCounts
  <1>3. m \in [U -> V]
    <2> SUFFICES ASSUME NEW u \in U PROVE <<h[u[1]], u[2]>> \in V
      OBVIOUS
    <2>1. u[1] \in DOMAIN f /\ u[2] \in 1 .. f[u[1]]
      BY DEF Units
    <2>2. h[u[1]] \in DOMAIN g /\ f[u[1]] <= g[h[u[1]]] /\ f[u[1]] \in Nat /\ g[h[u[1]]] \in Nat
      BY <2>1
    <2>3. u[2] \in 1 .. g[h[u[1]]] /\ u[2] \in Nat
      BY <2>1, <2>2
    <2> QED
      BY <2>2, <2>3 DEF Units
  <1>4. \A u, v \in U : m[u] = m[v] => u = v
    <2> SUFFICES ASSUME NEW u \in U, NEW v \in U, m[u] = m[v] PROVE u = v
      OBVIOUS
    <2>1. h[u[1]] = h[v[1]] /\ u[2] = v[2]
      OBVIOUS
    <2>2. u[1] \in DOMAIN f /\ v[1] \in DOMAIN f /\ u = <<u[1], u[2]>> /\ v = <<v[1], v[2]>>
      BY DEF Units
    <2> QED
      BY <2>1, <2>2
  <1> HIDE DEF m, U, V
  <1>5. m \in Injection(U, V)
    BY <1>3, <1>4 DEF Injection, IsInjective
  <1>6. Cardinality(U) <= Cardinality(V)
    BY <1>2, <1>5, FS_Injection
  <1> QED
    BY <1>1, <1>2, <1>6, FS_CardinalityType

LEMMA TotalBounded ==
    ASSUME Observers \in Nat, NEW f, DOMAIN f \subseteq 1 .. Observers, NEW b \in Nat, \A x \in DOMAIN f : f[x] \in 0 .. b
    PROVE  /\ Cardinality(DOMAIN f) \in Nat
           /\ Scoring!Total(f) \in 0 .. Cardinality(DOMAIN f) * b
  <1> DEFINE U == Units(f, Observers)  D == DOMAIN f
  <1>1. IsFiniteSet(U) /\ Scoring!Total(f) = Cardinality(U)
    <2>1. \A x \in DOMAIN f : f[x] \in Nat
      OBVIOUS
    <2> QED
      BY <2>1, TotalCounts
  <1>2. IsFiniteSet(1 .. Observers)
    BY FS_Interval
  <1>3. IsFiniteSet(D)
    BY <1>2, FS_Subset
  <1>4. IsFiniteSet(1 .. b) /\ Cardinality(1 .. b) = b
    BY FS_Interval
  <1>5. U \in SUBSET (D \X (1 .. b))
    BY DEF Units
  <1> HIDE DEF U, D
  <1>6. IsFiniteSet(D \X (1 .. b)) /\ Cardinality(D \X (1 .. b)) = Cardinality(D) * b
    BY <1>3, <1>4, FS_Product
  <1>7. Cardinality(U) <= Cardinality(D) * b /\ Cardinality(U) \in Nat /\ Cardinality(D) \in Nat
    BY <1>1, <1>3, <1>5, <1>6, FS_Subset, FS_CardinalityType
  <1> QED
    BY <1>1, <1>7 DEF D

-----------------------------------------------------------------------------
(* The score: the union-find. *)

\* r gives the root of every element of D, and parents lie ever nearer to it.
Rooted(parent, r, D) ==
    /\ parent \in [D -> D] /\ r \in [D -> D]
    /\ \A x \in D : /\ r[parent[x]] = r[x] /\ parent[r[x]] = r[x]
                    /\ parent[x] = x => r[x] = x
    /\ \E far \in [D -> Nat] : \A x \in D : parent[x] # x => far[parent[x]] < far[x]

LEMMA RootsAre ==
    ASSUME NEW parent, NEW r, NEW D, Rooted(parent, r, D)
    PROVE  \A x \in D : Scoring!Find(parent, x) = r[x]
  <1> DEFINE find == Scoring!Roots(parent)
  <1>1. parent \in [D -> D] /\ r \in [D -> D]
        /\ \A x \in D : r[parent[x]] = r[x] /\ parent[r[x]] = r[x] /\ (parent[x] = x => r[x] = x)
    BY DEF Rooted
  <1>2. PICK far \in [D -> Nat] : \A x \in D : parent[x] # x => far[parent[x]] < far[x]
    BY DEF Rooted
  <1>3. r = [x \in DOMAIN parent |-> IF parent[x] = x THEN x ELSE r[parent[x]]]
    BY <1>1
  <1>4. find = [x \in DOMAIN parent |-> IF parent[x] = x THEN x ELSE find[parent[x]]]
    BY <1>3, Zenon DEF Scoring!Roots
  <1> HIDE DEF find
  <1>5. \A x \in D : find[x] = IF parent[x] = x THEN x ELSE find[parent[x]]
    BY <1>1, <1>4
  <1> DEFINE bad == {x \in D : find[x] # r[x]}  ranks == {far[x] : x \in bad}
  <1>6. bad = {}
    <2> SUFFICES ASSUME bad # {} PROVE FALSE
      OBVIOUS
    <2>1. ranks \in SUBSET Nat /\ ranks # {}
      BY <1>2
    <2> HIDE DEF ranks
    <2>2. PICK m \in ranks : \A n \in ranks : m <= n
      BY <2>1, LeastOf
    <2> USE DEF ranks
    <2>3. PICK x \in bad : far[x] = m
      BY <2>2
    <2>4. \A y \in bad : far[x] <= far[y]
      BY <2>2, <2>3
    <2>5. parent[x] # x
      BY <1>1, <1>5
    <2>6. parent[x] \in D /\ far[parent[x]] < far[x] /\ far[x] \in Nat /\ far[parent[x]] \in Nat
      BY <1>1, <1>2, <2>5
    <2>7. parent[x] \notin bad
      BY <2>4, <2>6
    <2> QED
      BY <1>1, <1>5, <2>5, <2>6, <2>7
  <1> QED
    BY <1>6 DEF Scoring!Find, find

\* A link puts the elements under b's root under a's.
Moved(r, a, b) == [x \in DOMAIN r |-> IF r[x] = r[b] THEN r[a] ELSE r[x]]

LEMMA LinkRoots ==
    ASSUME NEW parent, NEW r, NEW D, Rooted(parent, r, D), NEW a \in D, NEW b \in D
    PROVE  Rooted(Scoring!Link(parent, a, b), Moved(r, a, b), D)
  <1> DEFINE u == r[a]  v == r[b]
             linked == [parent EXCEPT ![v] = u]
             roots == Moved(r, a, b)
  <1>1. parent \in [D -> D] /\ r \in [D -> D]
        /\ \A x \in D : r[parent[x]] = r[x] /\ parent[r[x]] = r[x] /\ (parent[x] = x => r[x] = x)
    BY DEF Rooted
  <1>2. PICK far \in [D -> Nat] : \A x \in D : parent[x] # x => far[parent[x]] < far[x]
    BY DEF Rooted
  <1>3. Scoring!Link(parent, a, b) = linked
    <2>1. Scoring!Find(parent, a) = u /\ Scoring!Find(parent, b) = v
      BY RootsAre
    <2> QED
      BY <2>1 DEF Scoring!Link
  <1>4. u \in D /\ v \in D /\ parent[u] = u /\ parent[v] = v /\ r[u] = u /\ r[v] = v
    BY <1>1
  <1>5. linked \in [D -> D] /\ \A x \in D : linked[x] = IF x = v THEN u ELSE parent[x]
    BY <1>1, <1>4
  <1>6. roots \in [D -> D] /\ \A x \in D : roots[x] = IF r[x] = v THEN u ELSE r[x]
    BY <1>1, <1>4 DEF Moved
  <1> DEFINE away == [x \in D |-> IF r[x] = v /\ u # v THEN far[x] + far[u] + 1 ELSE far[x]]
  <1>7. away \in [D -> Nat]
    BY <1>2, <1>4
  <1> HIDE DEF u, v, linked, roots
  <1>8. ASSUME NEW x \in D
        PROVE  /\ roots[linked[x]] = roots[x] /\ linked[roots[x]] = roots[x]
               /\ linked[x] = x => roots[x] = x
    BY <1>1, <1>4, <1>5, <1>6
  <1>9. ASSUME NEW x \in D, linked[x] # x PROVE away[linked[x]] < away[x]
    <2>1. far[x] \in Nat /\ far[u] \in Nat
      BY <1>2, <1>4
    <2>2. CASE x = v
      <3>1. u # v /\ linked[x] = u
        BY <1>5, <1>9, <2>2
      <3>2. away[x] = far[x] + far[u] + 1 /\ away[u] = far[u]
        BY <1>4, <2>2, <3>1
      <3> QED
        BY <2>1, <3>1, <3>2
    <2>3. CASE x # v
      <3>1. linked[x] = parent[x] /\ parent[x] # x /\ parent[x] \in D /\ r[parent[x]] = r[x]
        BY <1>1, <1>5, <1>9, <2>3
      <3>2. far[parent[x]] < far[x] /\ far[parent[x]] \in Nat
        BY <1>2, <3>1
      <3> QED
        BY <2>1, <3>1, <3>2
    <2> QED
      BY <2>2, <2>3
  <1>10. Rooted(linked, roots, D)
    BY <1>5, <1>6, <1>7, <1>8, <1>9 DEF Rooted
  <1> QED
    BY <1>3, <1>10 DEF roots

\* A set no co-occurring pair leaves.
Closed(slots, A) ==
    A \in SUBSET DOMAIN slots /\ \A p \in A, q \in DOMAIN slots \ A : ~Scoring!Cooccur(slots, p, q)

\* Nobody is in a root's set who is not connected to it, and the pairs up to
\* (i, j) have been merged.
Connected(slots, parent, r, i, j) ==
    /\ Rooted(parent, r, DOMAIN slots)
    /\ \A A : Closed(slots, A) => \A x \in DOMAIN slots : x \in A <=> r[x] \in A
    /\ \A x, y \in DOMAIN slots :
          x < y /\ (x < i \/ (x = i /\ y <= j)) /\ Scoring!Cooccur(slots, x, y) => r[x] = r[y]

Merging(slots, parent, i, j) == \E r : Connected(slots, parent, r, i, j)

LEMMA CooccurTogether ==
    ASSUME NEW slots, NEW p, NEW q
    PROVE  Scoring!Cooccur(slots, p, q) <=> Scoring!Cooccur(slots, q, p)
  <1>1. slots[p] \cap slots[q] = slots[q] \cap slots[p]
        /\ {Cardinality(slots[p]), Cardinality(slots[q])} = {Cardinality(slots[q]), Cardinality(slots[p])}
    OBVIOUS
  <1> QED
    BY <1>1, Zenon DEF Scoring!Cooccur

LEMMA MergeJoins ==
    ASSUME Observers \in Nat, NEW slots, DOMAIN slots \subseteq 1 .. Observers,
           NEW i \in Nat, NEW j \in Nat, NEW parent, Merging(slots, parent, i, j)
    PROVE  Merging(slots, Scoring!Merge(slots, parent, i, j + 1), i, j + 1)
  <1> DEFINE D == DOMAIN slots  k == j + 1
             next == Scoring!Merge(slots, parent, i, k)
             linking == i < k /\ i \in D /\ k \in D /\ Scoring!Cooccur(slots, i, k)
  <1>1. PICK r : Connected(slots, parent, r, i, j)
    BY DEF Merging
  <1>2. CASE ~linking
    <2>1. next = parent
      BY <1>2 DEF Scoring!Merge
    <2>2. ASSUME NEW x \in D, NEW y \in D, x < y, x < i \/ (x = i /\ y <= k), Scoring!Cooccur(slots, x, y) PROVE r[x] = r[y]
      <3>1. x \in Nat /\ y \in Nat
        OBVIOUS
      <3>2. CASE x = i /\ y = k
        BY <1>2, <2>2, <3>2
      <3>3. CASE ~(x = i /\ y = k)
        <4>1. x < i \/ (x = i /\ y <= j)
          BY <2>2, <3>1, <3>3
        <4> QED
          BY <1>1, <2>2, <4>1 DEF Connected
      <3> QED
        BY <3>2, <3>3
    <2>3. Connected(slots, parent, r, i, k)
      BY <1>1, <2>2 DEF Connected
    <2> QED
      BY <2>1, <2>3 DEF Merging
  <1>3. CASE linking
    <2> DEFINE roots == Moved(r, i, k)
    <2>1. next = Scoring!Link(parent, i, k)
      BY <1>3 DEF Scoring!Merge
    <2>2. Rooted(parent, r, D) /\ r \in [D -> D]
      BY <1>1 DEF Connected, Rooted
    <2>3. Rooted(next, roots, D)
      BY <1>3, <2>1, <2>2, LinkRoots
    <2>4. \A x \in D : roots[x] = IF r[x] = r[k] THEN r[i] ELSE r[x]
      BY <2>2 DEF Moved
    <2> HIDE DEF roots
    <2>5. ASSUME NEW A, Closed(slots, A), NEW x \in D PROVE x \in A <=> roots[x] \in A
      <3>1. \A y \in D : y \in A <=> r[y] \in A
        BY <1>1, <2>5 DEF Connected
      <3>2. i \in A <=> k \in A
        BY <1>3, <2>5, CooccurTogether DEF Closed
      <3> QED
        BY <1>3, <2>4, <3>1, <3>2
    <2>6. ASSUME NEW x \in D, NEW y \in D, x < y, x < i \/ (x = i /\ y <= k), Scoring!Cooccur(slots, x, y)
          PROVE  roots[x] = roots[y]
      <3>1. x \in Nat /\ y \in Nat
        OBVIOUS
      <3>2. CASE x = i /\ y = k
        BY <2>4, <3>2
      <3>3. CASE ~(x = i /\ y = k)
        <4>1. x < i \/ (x = i /\ y <= j)
          BY <2>6, <3>1, <3>3
        <4>2. r[x] = r[y]
          BY <1>1, <2>6, <4>1 DEF Connected
        <4> QED
          BY <2>4, <4>2
      <3> QED
        BY <3>2, <3>3
    <2>7. Connected(slots, next, roots, i, k)
      BY <2>3, <2>5, <2>6 DEF Connected
    <2> QED
      BY <2>7 DEF Merging
  <1> QED
    BY <1>2, <1>3

IsRow(slots, parent, i, s) ==
    s = [j \in 0 .. Observers |-> IF j = 0 THEN parent ELSE Scoring!Merge(slots, s[j - 1], i, j)]

LEMMA RowExists ==
    ASSUME Observers \in Nat, NEW slots, NEW parent, NEW i
    PROVE  \E s : IsRow(slots, parent, i, s)
  <1> DEFINE Upto(d, s) == s = [j \in 0 .. d |-> IF j = 0 THEN parent ELSE Scoring!Merge(slots, s[j - 1], i, j)]
             S == {d \in 0 .. Observers : \E s : Upto(d, s)}
  <1>1. 0 \in S
    <2>1. Upto(0, [n \in 0 .. 0 |-> parent])
      OBVIOUS
    <2>2. 0 \in 0 .. Observers
      OBVIOUS
    <2> HIDE DEF Upto
    <2> QED
      BY <2>1, <2>2
  <1>2. ASSUME NEW d \in 0 .. Observers - 1, d \in S PROVE d + 1 \in S
    <2>1. PICK s : Upto(d, s)
      BY <1>2
    <2> DEFINE g == [j \in 0 .. d + 1 |-> IF j = d + 1 THEN Scoring!Merge(slots, s[d], i, d + 1) ELSE s[j]]
    <2>2. Upto(d + 1, g)
      BY <2>1
    <2> HIDE DEF g, Upto
    <2> QED
      BY <2>2
  <1> HIDE DEF S
  <1>3. Observers \in S
    <2>1. \A n \in 0 .. Observers : n \in S
      BY <1>1, <1>2, Upward
    <2> QED
      BY <2>1
  <1> QED
    BY <1>3 DEF S, IsRow

LEMMA RowIs ==
    ASSUME Observers \in Nat, NEW slots, NEW parent, NEW i
    PROVE  /\ Scoring!MergeRow(slots, parent, i)[0] = parent
           /\ \A j \in 0 .. Observers - 1 :
                  Scoring!MergeRow(slots, parent, i)[j + 1] = Scoring!Merge(slots, Scoring!MergeRow(slots, parent, i)[j], i, j + 1)
  <1> DEFINE s == Scoring!MergeRow(slots, parent, i)
  <1>1. s = [j \in 0 .. Observers |-> IF j = 0 THEN parent ELSE Scoring!Merge(slots, s[j - 1], i, j)]
    <2>1. \E t : IsRow(slots, parent, i, t)
      BY RowExists
    <2> QED
      BY <2>1, Zenon DEF Scoring!MergeRow, IsRow
  <1> HIDE DEF s
  <1>2. s[0] = parent /\ \A j \in 0 .. Observers - 1 : s[j + 1] = Scoring!Merge(slots, s[j], i, j + 1)
    BY <1>1
  <1> QED
    BY <1>2 DEF s

LEMMA MergedExists ==
    ASSUME Observers \in Nat, NEW slots
    PROVE  \E s : s = [i \in 0 .. Observers |-> IF i = 0 THEN [p \in DOMAIN slots |-> p]
                                                ELSE Scoring!MergeRow(slots, s[i - 1], i)[Observers]]
  <1> DEFINE Own == [p \in DOMAIN slots |-> p]
             Upto(d, s) == s = [i \in 0 .. d |-> IF i = 0 THEN Own ELSE Scoring!MergeRow(slots, s[i - 1], i)[Observers]]
             S == {d \in 0 .. Observers : \E s : Upto(d, s)}
  <1> HIDE DEF Own
  <1>1. 0 \in S
    <2>1. Upto(0, [n \in 0 .. 0 |-> Own])
      OBVIOUS
    <2>2. 0 \in 0 .. Observers
      OBVIOUS
    <2> HIDE DEF Upto
    <2> QED
      BY <2>1, <2>2
  <1>2. ASSUME NEW d \in 0 .. Observers - 1, d \in S PROVE d + 1 \in S
    <2>1. PICK s : Upto(d, s)
      BY <1>2
    <2> DEFINE g == [i \in 0 .. d + 1 |-> IF i = d + 1 THEN Scoring!MergeRow(slots, s[d], d + 1)[Observers] ELSE s[i]]
    <2>2. Upto(d + 1, g)
      BY <2>1
    <2> HIDE DEF g, Upto
    <2> QED
      BY <2>2
  <1> HIDE DEF S
  <1>3. Observers \in S
    <2>1. \A n \in 0 .. Observers : n \in S
      BY <1>1, <1>2, Upward
    <2> QED
      BY <2>1
  <1> QED
    BY <1>3 DEF S, Own

LEMMA MergedIs ==
    ASSUME Observers \in Nat, NEW slots
    PROVE  /\ Scoring!Merged(slots)[0] = [p \in DOMAIN slots |-> p]
           /\ \A i \in 0 .. Observers - 1 :
                  Scoring!Merged(slots)[i + 1] = Scoring!MergeRow(slots, Scoring!Merged(slots)[i], i + 1)[Observers]
  <1> DEFINE s == Scoring!Merged(slots)  Own == [p \in DOMAIN slots |-> p]
  <1>1. s = [i \in 0 .. Observers |-> IF i = 0 THEN Own ELSE Scoring!MergeRow(slots, s[i - 1], i)[Observers]]
    <2>1. \E t : t = [i \in 0 .. Observers |-> IF i = 0 THEN Own ELSE Scoring!MergeRow(slots, t[i - 1], i)[Observers]]
      BY MergedExists
    <2> QED
      BY <2>1, Zenon DEF Scoring!Merged
  <1> HIDE DEF s, Own
  <1>2. s[0] = Own /\ \A i \in 0 .. Observers - 1 : s[i + 1] = Scoring!MergeRow(slots, s[i], i + 1)[Observers]
    BY <1>1
  <1> QED
    BY <1>2 DEF s, Own

LEMMA RowJoins ==
    ASSUME Observers \in Nat, NEW slots, DOMAIN slots \subseteq 1 .. Observers,
           NEW i \in Nat, NEW parent, Merging(slots, parent, i, Observers)
    PROVE  Merging(slots, Scoring!MergeRow(slots, parent, i + 1)[Observers], i + 1, Observers)
  <1> DEFINE s == Scoring!MergeRow(slots, parent, i + 1)
             S == {j \in 0 .. Observers : Merging(slots, s[j], i + 1, j)}
  <1>1. s[0] = parent /\ \A j \in 0 .. Observers - 1 : s[j + 1] = Scoring!Merge(slots, s[j], i + 1, j + 1)
    BY RowIs
  <1> HIDE DEF s
  <1>2. 0 \in S
    <2>1. PICK r : Connected(slots, parent, r, i, Observers)
      BY DEF Merging
    <2>2. ASSUME NEW x \in DOMAIN slots, NEW y \in DOMAIN slots, x < i + 1 \/ (x = i + 1 /\ y <= 0)
          PROVE  x < i \/ (x = i /\ y <= Observers)
      <3>1. x \in 1 .. Observers /\ y \in 1 .. Observers
        OBVIOUS
      <3> QED
        BY <2>2, <3>1
    <2>3. Connected(slots, parent, r, i + 1, 0)
      BY <2>1, <2>2 DEF Connected
    <2> QED
      BY <1>1, <2>3 DEF Merging
  <1>3. ASSUME NEW j \in 0 .. Observers - 1, j \in S PROVE j + 1 \in S
    <2>1. Merging(slots, s[j], i + 1, j) /\ j \in Nat /\ i + 1 \in Nat
      BY <1>3
    <2>2. Merging(slots, Scoring!Merge(slots, s[j], i + 1, j + 1), i + 1, j + 1)
      BY <2>1, MergeJoins
    <2> QED
      BY <1>1, <2>2
  <1> HIDE DEF S
  <1>4. \A j \in 0 .. Observers : j \in S
    BY <1>2, <1>3, Upward
  <1>5. Observers \in S
    BY <1>4
  <1> QED
    BY <1>5 DEF S, s

LEMMA UnionJoins ==
    ASSUME Observers \in Nat, NEW slots, DOMAIN slots \subseteq 1 .. Observers
    PROVE  Merging(slots, Scoring!Union(slots), Observers, Observers)
  <1> DEFINE s == Scoring!Merged(slots)  Own == [p \in DOMAIN slots |-> p]
             S == {i \in 0 .. Observers : Merging(slots, s[i], i, Observers)}
  <1>1. s[0] = Own /\ \A i \in 0 .. Observers - 1 : s[i + 1] = Scoring!MergeRow(slots, s[i], i + 1)[Observers]
    BY MergedIs
  <1> HIDE DEF s
  <1>2. 0 \in S
    <2>1. Rooted(Own, Own, DOMAIN slots)
      <3>1. [x \in DOMAIN slots |-> 0] \in [DOMAIN slots -> Nat]
        OBVIOUS
      <3> QED
        BY <3>1 DEF Rooted
    <2>2. ASSUME NEW x \in DOMAIN slots, NEW y \in DOMAIN slots PROVE ~(x < 0 \/ (x = 0 /\ y <= Observers))
      OBVIOUS
    <2>3. \A x \in DOMAIN slots : Own[x] = x
      OBVIOUS
    <2> HIDE DEF Own
    <2>4. Connected(slots, Own, Own, 0, Observers)
      BY <2>1, <2>2, <2>3 DEF Connected
    <2> QED
      BY <1>1, <2>4 DEF Merging
  <1> HIDE DEF Own
  <1>3. ASSUME NEW i \in 0 .. Observers - 1, i \in S PROVE i + 1 \in S
    <2>1. Merging(slots, s[i], i, Observers) /\ i \in Nat
      BY <1>3
    <2>2. Merging(slots, Scoring!MergeRow(slots, s[i], i + 1)[Observers], i + 1, Observers)
      BY <2>1, RowJoins
    <2> QED
      BY <1>1, <2>2
  <1> HIDE DEF S
  <1>4. \A i \in 0 .. Observers : i \in S
    BY <1>2, <1>3, Upward
  <1>5. Observers \in S
    BY <1>4
  <1> QED
    BY <1>5 DEF S, s, Scoring!Union

\* The root of each pseudonym once all pairs are merged.
RootOf(slots) == [x \in DOMAIN slots |-> Scoring!Find(Scoring!Union(slots), x)]

\* Two pseudonyms have one root exactly when no closed set tells them apart.
LEMMA RootsConnect ==
    ASSUME Observers \in Nat, NEW slots, DOMAIN slots \subseteq 1 .. Observers
    PROVE  /\ RootOf(slots) \in [DOMAIN slots -> DOMAIN slots]
           /\ \A x, y \in DOMAIN slots : Scoring!Cooccur(slots, x, y) => RootOf(slots)[x] = RootOf(slots)[y]
           /\ \A x, y \in DOMAIN slots :
                  RootOf(slots)[x] = RootOf(slots)[y] <=> \A A : Closed(slots, A) /\ x \in A => y \in A
  <1> DEFINE D == DOMAIN slots
  <1>1. PICK r : Connected(slots, Scoring!Union(slots), r, Observers, Observers)
    BY UnionJoins DEF Merging
  <1>2. Rooted(Scoring!Union(slots), r, D) /\ r \in [D -> D]
    BY <1>1 DEF Connected, Rooted
  <1>3. RootOf(slots) = r
    BY <1>2, RootsAre DEF RootOf
  <1>4. ASSUME NEW x \in D, NEW y \in D, Scoring!Cooccur(slots, x, y), x < y PROVE r[x] = r[y]
    <2>1. x \in 1 .. Observers /\ y \in 1 .. Observers
      OBVIOUS
    <2>2. x < Observers \/ (x = Observers /\ y <= Observers)
      BY <2>1
    <2> QED
      BY <1>1, <1>4, <2>2 DEF Connected
  <1>5. ASSUME NEW x \in D, NEW y \in D, Scoring!Cooccur(slots, x, y) PROVE r[x] = r[y]
    <2>1. x < y \/ x = y \/ y < x
      OBVIOUS
    <2> QED
      BY <1>4, <1>5, <2>1, CooccurTogether
  <1>6. ASSUME NEW x \in D, NEW y \in D, r[x] = r[y], NEW A, Closed(slots, A), x \in A PROVE y \in A
    BY <1>1, <1>6 DEF Connected
  <1>7. ASSUME NEW x \in D, NEW y \in D, \A A : Closed(slots, A) /\ x \in A => y \in A PROVE r[x] = r[y]
    <2> DEFINE A == {z \in D : r[z] = r[x]}
    <2>1. Closed(slots, A)
      BY <1>5 DEF Closed
    <2>2. y \in A
      BY <1>7, <2>1
    <2> QED
      BY <2>2
  <1> QED
    BY <1>2, <1>3, <1>5, <1>6, <1>7

-----------------------------------------------------------------------------
(* The score: groups and facets. *)

LEMMA GroupsAre ==
    ASSUME NEW slots
    PROVE  /\ DOMAIN Scoring!Groups(slots) = {RootOf(slots)[p] : p \in Scoring!Witnesses(slots)}
           /\ \A g \in DOMAIN Scoring!Groups(slots) :
                  Scoring!Groups(slots)[g] = {p \in Scoring!Witnesses(slots) : RootOf(slots)[p] = g}
  <1>1. \A p \in Scoring!Witnesses(slots) : RootOf(slots)[p] = Scoring!Find(Scoring!Union(slots), p)
    BY DEF RootOf, Scoring!Witnesses
  <1> QED
    BY <1>1 DEF Scoring!Groups

LEMMA ComponentsGrouped ==
    ASSUME Observers \in Nat, NEW slots, DOMAIN slots \subseteq 1 .. Observers
    PROVE  Scoring!GroupsConnect(slots)
  <1> DEFINE D == DOMAIN slots  r == RootOf(slots)  W == Scoring!Witnesses(slots)  gm == Scoring!Groups(slots)
             closed == {A \in SUBSET DOMAIN slots : \A p \in A, q \in DOMAIN slots \ A : ~Scoring!Cooccur(slots, p, q)}
  <1>1. \A A : A \in closed <=> Closed(slots, A)
    BY DEF Closed
  <1>2. W \subseteq D
    BY DEF Scoring!Witnesses
  <1>3. \A x, y \in D : r[x] = r[y] <=> \A A : Closed(slots, A) /\ x \in A => y \in A
    BY RootsConnect
  <1>4. DOMAIN gm = {r[p] : p \in W} /\ \A g \in DOMAIN gm : gm[g] = {p \in W : r[p] = g}
    BY GroupsAre
  <1> HIDE DEF r, W, gm, closed
  <1>5. ASSUME NEW p \in W, NEW q \in W
        PROVE  (\E A \in closed : p \in A /\ q \notin A) <=> ~\E g \in DOMAIN gm : {p, q} \subseteq gm[g]
    <2>1. (\E g \in DOMAIN gm : {p, q} \subseteq gm[g]) <=> r[p] = r[q]
      BY <1>4
    <2>2. (\E A \in closed : p \in A /\ q \notin A) <=> ~(r[p] = r[q])
      BY <1>1, <1>2, <1>3
    <2> QED
      BY <2>1, <2>2
  <1> QED
    BY <1>5, Zenon DEF Scoring!GroupsConnect, W, gm, closed

\* A map from roots to sets of witnesses.
IsGrouping(gm, W) == DOMAIN gm \subseteq 1 .. Observers /\ \A g \in DOMAIN gm : gm[g] \in SUBSET W /\ gm[g] # {}

\* Each group's weakest member by v.
Weakest(gm, v) == [g \in DOMAIN gm |-> Scoring!Min({v[p] : p \in gm[g]})]

LEMMA GroupsGroup ==
    ASSUME Observers \in Nat, NEW slots, DOMAIN slots \subseteq 1 .. Observers
    PROVE  IsGrouping(Scoring!Groups(slots), Scoring!Witnesses(slots))
  <1>1. RootOf(slots) \in [DOMAIN slots -> DOMAIN slots]
    BY RootsConnect
  <1>2. Scoring!Witnesses(slots) \subseteq DOMAIN slots
    BY DEF Scoring!Witnesses
  <1> DEFINE r == RootOf(slots)  W == Scoring!Witnesses(slots)  gm == Scoring!Groups(slots)
  <1>3. DOMAIN gm = {r[p] : p \in W} /\ \A g \in DOMAIN gm : gm[g] = {p \in W : r[p] = g}
    BY GroupsAre
  <1> HIDE DEF r, W, gm
  <1>4. r \in [DOMAIN slots -> 1 .. Observers] /\ W \subseteq DOMAIN slots
    BY <1>1, <1>2 DEF r, W
  <1>5. IsGrouping(gm, W)
    BY <1>3, <1>4 DEF IsGrouping
  <1> QED
    BY <1>5 DEF W, gm

LEMMA RecordValues ==
    ASSUME NEW record \in Scoring!Profile
    PROVE  /\ Scoring!Hardware(record) \in 0 .. Scoring!BPS /\ Scoring!Freshness(record) \in 0 .. Scoring!BPS
           /\ Scoring!Service(record) \in 0 .. Scoring!BPS /\ Scoring!Quality(record) \in 0 .. Scoring!BPS
  <1>0. /\ record.class \in 1 .. 3 /\ record.reenrolled \in Nat \cup {-1} /\ record.age \in Nat /\ record.accuracy \in Nat
        /\ record.evidence \in {"none", "present", "wifi"}
    BY DEF Scoring!Profile
  <1>1. Scoring!Hardware(record) \in 0 .. Scoring!BPS
    <2> DEFINE c == Scoring!HardwareClass[record.class]
               k == 1 + (IF record.reenrolled = -1 THEN 0 ELSE record.reenrolled \div 3)
    <2>1. c \in 0 .. Scoring!BPS
      <3>1. record.class = 1 \/ record.class = 2 \/ record.class = 3
        BY <1>0
      <3>2. Scoring!HardwareClass[1] = 10000 /\ Scoring!HardwareClass[2] = 10000 /\ Scoring!HardwareClass[3] = 8000
        BY DEF Scoring!HardwareClass
      <3>3. c \in Nat /\ c <= Scoring!BPS
        BY <3>1, <3>2 DEF Scoring!BPS
      <3> QED
        BY <3>3, Scale
    <2>2. k \in Nat \ {0}
      BY <1>0
    <2>3. Scoring!Hardware(record) = c \div k
      BY DEF Scoring!Hardware
    <2> HIDE DEF c, k
    <2> DEFINE d == c \div k
    <2>4. d \in Nat /\ d <= c
      BY <2>1, <2>2, Quotient
    <2>5. Scoring!Hardware(record) = d
      BY <2>3
    <2> HIDE DEF d
    <2> QED
      BY <2>1, <2>4, <2>5, Scale
  <1>2. Scoring!Freshness(record) \in 0 .. Scoring!BPS
    <2> DEFINE n == Scoring!BPS - (record.age * Scoring!BPS) \div Scoring!EpochLength
    <2>1. n \in Int
      BY <1>0, Scale DEF Scoring!EpochLength, Scoring!AccuracyLimit
    <2>2. Scoring!Freshness(record) = Scoring!Clamp(n)
      BY Zenon DEF Scoring!Freshness
    <2> HIDE DEF n
    <2> QED
      BY <2>1, <2>2, ClampIs
  <1>3. Scoring!Quality(record) \in 0 .. Scoring!BPS
    <2> DEFINE n == Scoring!BPS - (record.accuracy * Scoring!BPS) \div Scoring!AccuracyLimit
    <2>1. n \in Int
      BY <1>0, Scale DEF Scoring!EpochLength, Scoring!AccuracyLimit
    <2>2. Scoring!Quality(record) = Scoring!Clamp(n)
      BY Zenon DEF Scoring!Quality
    <2> HIDE DEF n
    <2> QED
      BY <2>1, <2>2, ClampIs
  <1>4. 2500 <= Scoring!BPS
    BY DEF Scoring!BPS
  <1>5. Scoring!Service(record) \in 0 .. Scoring!BPS
    BY <1>0, Scale, <1>4 DEF Scoring!Service, Scoring!Presence
  <1> QED
    BY <1>1, <1>2, <1>3, <1>5

LEMMA AverageBounded ==
    ASSUME Observers \in Nat, NEW f, DOMAIN f \subseteq 1 .. Observers, NEW b \in Nat, \A x \in DOMAIN f : f[x] \in 0 .. b
    PROVE  Scoring!Average(f) \in 0 .. b
  <1>1. CASE DOMAIN f = {}
    BY <1>1 DEF Scoring!Average
  <1>2. CASE DOMAIN f # {}
    <2> DEFINE n == Cardinality(DOMAIN f)  t == Scoring!Total(f)
    <2>1. n \in Nat /\ t \in 0 .. n * b
      BY TotalBounded
    <2>2. n # 0
      <3>1. IsFiniteSet(1 .. Observers)
        BY FS_Interval
      <3>2. IsFiniteSet(DOMAIN f)
        BY <3>1, FS_Subset
      <3> QED
        BY <1>2, <3>2, FS_EmptySet
    <2>3. Scoring!Average(f) = t \div n
      BY <1>2, SameCount DEF Scoring!Average
    <2> HIDE DEF n, t
    <2>4. t \in Nat /\ t <= n * b
      BY <2>1
    <2> QED
      BY <2>1, <2>2, <2>3, <2>4, QuotientBounded
  <1> QED
    BY <1>1, <1>2

LEMMA WeakestBounded ==
    ASSUME NEW gm, NEW W, IsGrouping(gm, W), NEW v \in [W -> 0 .. Scoring!BPS]
    PROVE  /\ DOMAIN Weakest(gm, v) = DOMAIN gm /\ \A g \in DOMAIN gm : Weakest(gm, v)[g] \in 0 .. Scoring!BPS
           /\ \A g \in DOMAIN gm : Weakest(gm, v)[g] = Scoring!Min({v[p] : p \in gm[g]})
  <1>1. ASSUME NEW g \in DOMAIN gm PROVE Scoring!Min({v[p] : p \in gm[g]}) \in 0 .. Scoring!BPS
    <2> DEFINE S == {v[p] : p \in gm[g]}
    <2>1. S \in SUBSET (0 .. Scoring!BPS) /\ S # {}
      BY DEF IsGrouping
    <2> HIDE DEF S
    <2>2. S \in SUBSET Nat
      BY <2>1, Scale
    <2>3. Scoring!Min(S) \in S
      BY <2>1, <2>2, SmallestOf
    <2>4. Scoring!Min(S) \in 0 .. Scoring!BPS
      BY <2>1, <2>3
    <2> QED
      BY <2>4, Zenon DEF S
  <1>2. DOMAIN Weakest(gm, v) = DOMAIN gm /\ \A g \in DOMAIN gm : Weakest(gm, v)[g] = Scoring!Min({v[p] : p \in gm[g]})
    BY DEF Weakest
  <1> QED
    BY <1>1, <1>2

\* The groups lm are the groups gm without q: h takes each to its own.
Thinned(gm, lm, h, q) ==
    /\ h \in [DOMAIN gm -> DOMAIN lm]
    /\ \A x, y \in DOMAIN gm : h[x] = h[y] => x = y
    /\ \A y \in DOMAIN lm : \E x \in DOMAIN gm : h[x] = y
    /\ \A g \in DOMAIN gm : lm[h[g]] = gm[g] \ {q}

LEMMA ThinnedCount ==
    ASSUME Observers \in Nat, NEW gm, NEW lm, NEW h, NEW q, NEW W, IsGrouping(gm, W), Thinned(gm, lm, h, q)
    PROVE  Cardinality(DOMAIN gm) \in Nat /\ Cardinality(DOMAIN lm) = Cardinality(DOMAIN gm)
           /\ (DOMAIN gm = {} <=> DOMAIN lm = {}) /\ (Cardinality(DOMAIN gm) = 0 <=> DOMAIN gm = {})
  <1>1. IsFiniteSet(1 .. Observers)
    BY FS_Interval
  <1>2. IsFiniteSet(DOMAIN gm)
    BY <1>1, FS_Subset DEF IsGrouping
  <1>3. h \in Bijection(DOMAIN gm, DOMAIN lm)
    BY DEF Thinned, Bijection, Injection, Surjection, IsInjective
  <1>4. ExistsBijection(DOMAIN gm, DOMAIN lm)
    BY <1>3 DEF ExistsBijection
  <1>5. Cardinality(DOMAIN lm) = Cardinality(DOMAIN gm) /\ Cardinality(DOMAIN gm) \in Nat
    BY <1>2, <1>4, FS_Bijection, FS_CardinalityType
  <1>6. Cardinality(DOMAIN gm) = 0 <=> DOMAIN gm = {}
    BY <1>2, FS_EmptySet
  <1>7. DOMAIN gm = {} <=> DOMAIN lm = {}
    BY DEF Thinned
  <1> QED
    BY <1>5, <1>6, <1>7

\* Without q no group is weaker.
LEMMA WeakestRises ==
    ASSUME Observers \in Nat, NEW gm, NEW lm, NEW h, NEW q, NEW W,
           IsGrouping(gm, W), IsGrouping(lm, W \ {q}), Thinned(gm, lm, h, q),
           NEW v \in [W -> 0 .. Scoring!BPS], NEW u \in [W \ {q} -> 0 .. Scoring!BPS], \A p \in W \ {q} : u[p] = v[p],
           NEW g \in DOMAIN gm
    PROVE  Weakest(gm, v)[g] <= Weakest(lm, u)[h[g]]
  <1> DEFINE T == {v[p] : p \in gm[g]}  S == {u[p] : p \in lm[h[g]]}
  <1>1. h[g] \in DOMAIN lm /\ lm[h[g]] = gm[g] \ {q} /\ lm[h[g]] # {} /\ gm[g] \subseteq W
    BY DEF Thinned, IsGrouping
  <1>2. T \in SUBSET (0 .. Scoring!BPS) /\ S \in SUBSET T /\ S # {}
    BY <1>1
  <1>3. Weakest(gm, v)[g] = Scoring!Min(T) /\ Weakest(lm, u)[h[g]] = Scoring!Min(S)
    BY <1>1, WeakestBounded
  <1> HIDE DEF S, T
  <1>4. T \in SUBSET Nat
    BY <1>2, Scale
  <1>5. Scoring!Min(T) <= Scoring!Min(S)
    BY <1>2, <1>4, SmallestFalls
  <1> QED
    BY <1>3, <1>5

LEMMA AverageRises ==
    ASSUME Observers \in Nat, NEW gm, NEW lm, NEW h, NEW q, NEW W,
           IsGrouping(gm, W), IsGrouping(lm, W \ {q}), Thinned(gm, lm, h, q),
           NEW v \in [W -> 0 .. Scoring!BPS], NEW u \in [W \ {q} -> 0 .. Scoring!BPS], \A p \in W \ {q} : u[p] = v[p]
    PROVE  Scoring!Average(Weakest(gm, v)) <= Scoring!Average(Weakest(lm, u))
  <1> DEFINE f == Weakest(gm, v)  k == Weakest(lm, u)
             n == Cardinality(DOMAIN gm)
  <1>1. DOMAIN f = DOMAIN gm /\ DOMAIN k = DOMAIN lm
        /\ (\A x \in DOMAIN gm : f[x] \in 0 .. Scoring!BPS) /\ (\A x \in DOMAIN lm : k[x] \in 0 .. Scoring!BPS)
    BY WeakestBounded
  <1>2. \A x \in DOMAIN gm : f[x] <= k[h[x]]
    BY WeakestRises
  <1>3. /\ n \in Nat /\ Cardinality(DOMAIN lm) = n
        /\ (DOMAIN gm = {} <=> DOMAIN lm = {}) /\ (n = 0 <=> DOMAIN gm = {})
    BY ThinnedCount
  <1> HIDE DEF f, k, n
  <1>4. (\A x \in DOMAIN f : f[x] \in Nat) /\ (\A x \in DOMAIN k : k[x] \in Nat)
    BY <1>1, Scale
  <1>5. h \in [DOMAIN f -> DOMAIN k] /\ (\A x, y \in DOMAIN f : h[x] = h[y] => x = y) /\ DOMAIN k \subseteq 1 .. Observers
        /\ \A x \in DOMAIN f : f[x] <= k[h[x]]
    BY <1>1, <1>2 DEF Thinned, IsGrouping
  <1> DEFINE s == Scoring!Total(f)  t == Scoring!Total(k)
  <1>6. s \in Nat /\ s <= t
    BY <1>4, <1>5, TotalRises
  <1>7. t \in Nat
    BY <1>4, TotalCounts, FS_CardinalityType
  <1>8. CASE DOMAIN gm = {}
    BY <1>1, <1>3, <1>8 DEF f, k, Scoring!Average
  <1>9. CASE DOMAIN gm # {}
    <2>1. Scoring!Average(f) = s \div n /\ Scoring!Average(k) = t \div n
      BY <1>1, <1>3, <1>9, SameCount DEF Scoring!Average, n
    <2> HIDE DEF s, t
    <2>2. n \in Nat \ {0}
      BY <1>3, <1>9
    <2>3. s \div n <= t \div n
      BY <1>6, <1>7, <2>2, QuotientRises
    <2> QED
      BY <2>1, <2>3 DEF f, k
  <1> QED
    BY <1>8, <1>9

-----------------------------------------------------------------------------
(* The score: votes for places. *)

\* What each group gives a place.
Ballot(target, gm, place) ==
    [g \in DOMAIN gm |->
        IF Scoring!VotesFor(target, gm[g], place) THEN Scoring!Min({Scoring!Quality(target[p]) : p \in gm[g]}) ELSE 0]

Qualities(target) == [p \in DOMAIN target |-> Scoring!Quality(target[p])]

LEMMA QualitiesIn ==
    ASSUME Scoring!ScoreConstants, NEW W, NEW target \in [W -> Profiles]
    PROVE  Qualities(target) \in [W -> 0 .. Scoring!BPS]
  <1>1. \A p \in W : target[p] \in Scoring!Profile
    BY DEF Scoring!ScoreConstants
  <1> QED
    BY <1>1, RecordValues DEF Qualities

LEMMA BallotIs ==
    ASSUME Scoring!ScoreConstants, NEW W, NEW target \in [W -> Profiles], NEW gm, IsGrouping(gm, W), NEW place
    PROVE  /\ DOMAIN Ballot(target, gm, place) = DOMAIN gm
           /\ \A g \in DOMAIN gm :
                 /\ Ballot(target, gm, place)[g] \in 0 .. Scoring!BPS
                 /\ Ballot(target, gm, place)[g] =
                        IF Scoring!VotesFor(target, gm[g], place) THEN Weakest(gm, Qualities(target))[g] ELSE 0
           /\ Scoring!Votes(target, gm, place) = Scoring!Total(Ballot(target, gm, place))
  <1> DEFINE v == Qualities(target)
  <1>1. v \in [W -> 0 .. Scoring!BPS] /\ \A p \in W : v[p] = Scoring!Quality(target[p])
    BY QualitiesIn DEF Qualities
  <1>2. \A g \in DOMAIN gm : Weakest(gm, v)[g] \in 0 .. Scoring!BPS /\ Weakest(gm, v)[g] = Scoring!Min({v[p] : p \in gm[g]})
    BY <1>1, WeakestBounded
  <1> HIDE DEF v
  <1>3. ASSUME NEW g \in DOMAIN gm PROVE Scoring!Min({Scoring!Quality(target[p]) : p \in gm[g]}) = Weakest(gm, v)[g]
    <2>1. {Scoring!Quality(target[p]) : p \in gm[g]} = {v[p] : p \in gm[g]}
      BY <1>1 DEF IsGrouping
    <2> QED
      BY <1>2, <2>1, Zenon
  <1>4. \A g \in DOMAIN gm : Ballot(target, gm, place)[g] = IF Scoring!VotesFor(target, gm[g], place) THEN Weakest(gm, v)[g] ELSE 0
    <2> SUFFICES ASSUME NEW g \in DOMAIN gm
                 PROVE  Ballot(target, gm, place)[g] = IF Scoring!VotesFor(target, gm[g], place) THEN Weakest(gm, v)[g] ELSE 0
      OBVIOUS
    <2> DEFINE least == Scoring!Min({Scoring!Quality(target[p]) : p \in gm[g]})
    <2>1. Ballot(target, gm, place)[g] = IF Scoring!VotesFor(target, gm[g], place) THEN least ELSE 0
      BY Zenon DEF Ballot
    <2>2. least = Weakest(gm, v)[g]
      BY <1>3
    <2> HIDE DEF least
    <2> QED
      BY <2>1, <2>2
  <1>5. \A g \in DOMAIN gm : Ballot(target, gm, place)[g] \in 0 .. Scoring!BPS
    <2>1. \A g \in DOMAIN gm : Weakest(gm, v)[g] \in 0 .. Scoring!BPS
      BY <1>2
    <2>2. 0 \in 0 .. Scoring!BPS
      BY Scale
    <2> QED
      BY <1>4, <2>1, <2>2
  <1>6. DOMAIN Ballot(target, gm, place) = DOMAIN gm
    BY DEF Ballot
  <1>7. Scoring!Votes(target, gm, place) = Scoring!Total(Ballot(target, gm, place))
    BY Zenon DEF Scoring!Votes, Ballot
  <1> QED
    BY <1>4, <1>5, <1>6, <1>7 DEF v

LEMMA VotesBounded ==
    ASSUME Scoring!ScoreConstants, NEW W, NEW target \in [W -> Profiles], NEW gm, IsGrouping(gm, W), NEW place
    PROVE  /\ Cardinality(DOMAIN gm) \in Nat
           /\ Scoring!Votes(target, gm, place) \in Nat
           /\ Scoring!Votes(target, gm, place) <= Cardinality(DOMAIN gm) * Scoring!BPS
  <1> DEFINE f == Ballot(target, gm, place)
  <1>0. Observers \in Nat /\ DOMAIN gm \subseteq 1 .. Observers
    BY DEF Scoring!ScoreConstants, IsGrouping
  <1>1. DOMAIN f = DOMAIN gm /\ (\A g \in DOMAIN gm : f[g] \in 0 .. Scoring!BPS) /\ Scoring!Votes(target, gm, place) = Scoring!Total(f)
    BY BallotIs
  <1> HIDE DEF f
  <1>2. Cardinality(DOMAIN gm) \in Nat /\ Scoring!Total(f) \in 0 .. Cardinality(DOMAIN gm) * Scoring!BPS
    BY <1>0, <1>1, Scale, TotalBounded
  <1> QED
    BY <1>1, <1>2, Scale

\* Without q no place loses a vote.
LEMMA VotesRise ==
    ASSUME Scoring!ScoreConstants, NEW gm, NEW lm, NEW h, NEW q, NEW W,
           IsGrouping(gm, W), IsGrouping(lm, W \ {q}), Thinned(gm, lm, h, q),
           NEW target \in [W -> Profiles], NEW alone \in [W \ {q} -> Profiles], \A p \in W \ {q} : alone[p] = target[p],
           NEW place
    PROVE  Scoring!Votes(target, gm, place) <= Scoring!Votes(alone, lm, place)
  <1> DEFINE f == Ballot(target, gm, place)  k == Ballot(alone, lm, place)
             v == Qualities(target)  u == Qualities(alone)
  <1>0. Observers \in Nat /\ DOMAIN lm \subseteq 1 .. Observers
    BY DEF Scoring!ScoreConstants, IsGrouping
  <1>1. /\ DOMAIN f = DOMAIN gm /\ Scoring!Votes(target, gm, place) = Scoring!Total(f)
        /\ \A g \in DOMAIN gm : f[g] \in 0 .. Scoring!BPS
                                /\ f[g] = IF Scoring!VotesFor(target, gm[g], place) THEN Weakest(gm, v)[g] ELSE 0
    BY BallotIs
  <1>2. /\ DOMAIN k = DOMAIN lm /\ Scoring!Votes(alone, lm, place) = Scoring!Total(k)
        /\ \A g \in DOMAIN lm : k[g] \in 0 .. Scoring!BPS
                                /\ k[g] = IF Scoring!VotesFor(alone, lm[g], place) THEN Weakest(lm, u)[g] ELSE 0
    BY BallotIs
  <1>3. v \in [W -> 0 .. Scoring!BPS] /\ u \in [W \ {q} -> 0 .. Scoring!BPS] /\ \A p \in W \ {q} : u[p] = v[p]
    BY QualitiesIn DEF Qualities
  <1> HIDE DEF f, k, v, u
  <1>4. ASSUME NEW g \in DOMAIN gm PROVE f[g] <= k[h[g]]
    <2>1. h[g] \in DOMAIN lm /\ lm[h[g]] = gm[g] \ {q} /\ gm[g] \subseteq W
      BY DEF Thinned, IsGrouping
    <2>2. Weakest(gm, v)[g] <= Weakest(lm, u)[h[g]]
      BY <1>0, <1>3, WeakestRises, SMTT(40)
    <2>3. Scoring!VotesFor(target, gm[g], place) => Scoring!VotesFor(alone, lm[h[g]], place)
      BY <2>1 DEF Scoring!VotesFor
    <2>4. CASE Scoring!VotesFor(target, gm[g], place)
      BY <1>1, <1>2, <2>1, <2>2, <2>3, <2>4
    <2>5. CASE ~Scoring!VotesFor(target, gm[g], place)
      <3>1. f[g] = 0 /\ k[h[g]] \in 0 .. Scoring!BPS
        BY <1>1, <1>2, <2>1, <2>5
      <3> QED
        BY <3>1, Scale
    <2> QED
      BY <2>4, <2>5
  <1>5. (\A x \in DOMAIN f : f[x] \in Nat) /\ (\A x \in DOMAIN k : k[x] \in Nat)
    BY <1>1, <1>2, Scale
  <1>6. h \in [DOMAIN f -> DOMAIN k] /\ (\A x, y \in DOMAIN f : h[x] = h[y] => x = y) /\ DOMAIN k \subseteq 1 .. Observers
        /\ \A x \in DOMAIN f : f[x] <= k[h[x]]
    BY <1>0, <1>1, <1>2, <1>4 DEF Thinned
  <1>7. Scoring!Total(f) <= Scoring!Total(k)
    BY <1>0, <1>5, <1>6, TotalRises
  <1> QED
    BY <1>1, <1>2, <1>7

TopVote(target, gm) == Scoring!Max({0} \cup {Scoring!Votes(target, gm, target[p].place) : p \in DOMAIN target})

\* What Spatial is before the cap.
Agreed(target, gm, claimed) ==
    LET n == Cardinality(DOMAIN gm)
        modal == TopVote(target, gm) \div n
    IN  IF claimed = {} THEN modal
        ELSE (modal * n + Scoring!Votes(target, gm, CHOOSE place \in claimed : TRUE)) \div (2 * n)

LEMMA SpatialIs ==
    ASSUME NEW target, NEW gm, NEW claimed
    PROVE  Scoring!Spatial(target, gm, claimed) =
               IF Cardinality(DOMAIN gm) < Scoring!SpatialWitnesses
               THEN Scoring!Min({Agreed(target, gm, claimed), Scoring!SpatialCap}) ELSE Agreed(target, gm, claimed)
  <1> DEFINE n == Cardinality(DOMAIN gm)  k == Scoring!Cardinality(DOMAIN gm)
             t == TopVote(target, gm)  c == Scoring!Votes(target, gm, CHOOSE place \in claimed : TRUE)
             Vote(m) == IF claimed = {} THEN t \div m ELSE ((t \div m) * m + c) \div (2 * m)
             Capped(m) == IF m < Scoring!SpatialWitnesses THEN Scoring!Min({Vote(m), Scoring!SpatialCap}) ELSE Vote(m)
  <1>1. k = n
    BY SameCount
  <1>2. Scoring!Spatial(target, gm, claimed) = Capped(k)
    BY Zenon DEF Scoring!Spatial, TopVote
  <1>3. Agreed(target, gm, claimed) = Vote(n)
    BY Zenon DEF Agreed
  <1> HIDE DEF n, k, Vote
  <1>4. Scoring!Spatial(target, gm, claimed) = Capped(n)
    BY <1>1, <1>2
  <1> QED
    BY <1>3, <1>4, Zenon DEF n

LEMMA TopVoteIs ==
    ASSUME Scoring!ScoreConstants, NEW W, NEW target \in [W -> Profiles], NEW gm, IsGrouping(gm, W)
    PROVE  /\ TopVote(target, gm) \in Nat /\ TopVote(target, gm) <= Cardinality(DOMAIN gm) * Scoring!BPS
           /\ TopVote(target, gm) = 0 \/ \E p \in W : TopVote(target, gm) = Scoring!Votes(target, gm, target[p].place)
           /\ \A p \in W : Scoring!Votes(target, gm, target[p].place) <= TopVote(target, gm)
  <1> DEFINE S == {0} \cup {Scoring!Votes(target, gm, target[p].place) : p \in DOMAIN target}
             b == Cardinality(DOMAIN gm) * Scoring!BPS
  <1>1. \A place : Scoring!Votes(target, gm, place) \in Nat /\ Scoring!Votes(target, gm, place) <= b
    BY VotesBounded
  <1>2. b \in Nat
    <2>1. Cardinality(DOMAIN gm) \in Nat
      BY VotesBounded
    <2> QED
      BY <2>1, Scale
  <1> HIDE DEF b
  <1>3. S \in SUBSET Nat /\ S # {} /\ \A x \in S : x <= b
    BY <1>1, <1>2
  <1>4. TopVote(target, gm) = Scoring!Max(S)
    BY Zenon DEF TopVote
  <1> HIDE DEF S
  <1>5. Scoring!Max(S) \in S /\ \A x \in S : x <= Scoring!Max(S)
    BY <1>2, <1>3, LargestOf
  <1> DEFINE m == Scoring!Max(S)
  <1> HIDE DEF m
  <1>6. TopVote(target, gm) = m /\ m \in S /\ (\A x \in S : x <= m) /\ m \in Nat /\ m <= b
    BY <1>3, <1>4, <1>5 DEF m
  <1> QED
    BY <1>6 DEF S, b

LEMMA AgreedBounded ==
    ASSUME Scoring!ScoreConstants, NEW W, NEW target \in [W -> Profiles], NEW gm, IsGrouping(gm, W), DOMAIN gm # {}, NEW claimed
    PROVE  Agreed(target, gm, claimed) \in 0 .. Scoring!BPS
  <1> DEFINE n == Cardinality(DOMAIN gm)  t == TopVote(target, gm)  modal == t \div n
             c == Scoring!Votes(target, gm, CHOOSE place \in claimed : TRUE)
  <1>1. n \in Nat \ {0}
    <2>1. IsFiniteSet(1 .. Observers)
      BY FS_Interval DEF Scoring!ScoreConstants
    <2>2. IsFiniteSet(DOMAIN gm)
      BY <2>1, FS_Subset DEF IsGrouping
    <2> QED
      BY <2>2, FS_EmptySet, FS_CardinalityType
  <1>2. t \in Nat /\ t <= n * Scoring!BPS
    BY TopVoteIs
  <1>3. c \in Nat /\ c <= n * Scoring!BPS
    BY VotesBounded
  <1>4. Agreed(target, gm, claimed) = IF claimed = {} THEN modal ELSE (modal * n + c) \div (2 * n)
    BY Zenon DEF Agreed
  <1> HIDE DEF n, t, c
  <1>5. modal \in 0 .. Scoring!BPS
    BY <1>1, <1>2, Scale, QuotientBounded
  <1> HIDE DEF modal
  <1> DEFINE both == modal * n + c  top == n * Scoring!BPS  twice == 2 * n
  <1>6. n * modal <= n * Scoring!BPS /\ n * modal \in Nat /\ top \in Nat
    BY <1>1, <1>5, Scale, Product
  <1>7. modal * n = n * modal
    BY <1>1, <1>5, Scale
  <1>8. both \in Nat /\ both <= 2 * top
    BY <1>3, <1>6, <1>7
  <1>9. 2 * top = twice * Scoring!BPS /\ twice \in Nat \ {0}
    BY <1>1, Scale
  <1> HIDE DEF both, top, twice
  <1>10. both \div twice \in 0 .. Scoring!BPS
    BY <1>8, <1>9, Scale, QuotientBounded
  <1> QED
    BY <1>4, <1>5, <1>10 DEF both, twice

\* Without q the agreement on a place does not fall.
LEMMA TopVoteRises ==
    ASSUME Scoring!ScoreConstants, NEW gm, NEW lm, NEW h, NEW q, NEW W,
           IsGrouping(gm, W), IsGrouping(lm, W \ {q}), Thinned(gm, lm, h, q),
           NEW target \in [W -> Profiles], NEW alone \in [W \ {q} -> Profiles], \A p \in W \ {q} : alone[p] = target[p]
    PROVE  TopVote(target, gm) <= TopVote(alone, lm)
  <1> DEFINE s == TopVote(target, gm)  t == TopVote(alone, lm)
  <1>1. s \in Nat /\ (s = 0 \/ \E p \in W : s = Scoring!Votes(target, gm, target[p].place))
    BY TopVoteIs
  <1>2. t \in Nat /\ \A p \in W \ {q} : Scoring!Votes(alone, lm, alone[p].place) <= t
    BY TopVoteIs
  <1> HIDE DEF s, t
  <1>3. ASSUME NEW p \in W, s = Scoring!Votes(target, gm, target[p].place) PROVE s <= t
    <2> DEFINE place == target[p].place  w == Scoring!Votes(alone, lm, place)
    <2>1. s <= w /\ w \in Nat
      BY <1>3, VotesRise, VotesBounded
    <2>2. CASE \E x \in W \ {q} : target[x].place = place
      <3>1. PICK x \in W \ {q} : target[x].place = place
        BY <2>2
      <3>2. w <= t
        BY <1>2, <3>1
      <3> HIDE DEF w
      <3> QED
        BY <1>1, <1>2, <2>1, <3>2
    <2>3. CASE ~\E x \in W \ {q} : target[x].place = place
      <3> DEFINE f == Ballot(target, gm, place)
      <3>1. DOMAIN f = DOMAIN gm /\ s = Scoring!Total(f)
            /\ \A g \in DOMAIN gm : f[g] = IF Scoring!VotesFor(target, gm[g], place) THEN Weakest(gm, Qualities(target))[g] ELSE 0
        BY <1>3, BallotIs
      <3>2. ASSUME NEW g \in DOMAIN gm PROVE ~Scoring!VotesFor(target, gm[g], place)
        <4>1. PICK x : x \in gm[g] \ {q}
          BY DEF Thinned, IsGrouping
        <4>2. x \in W \ {q}
          BY <4>1 DEF IsGrouping
        <4> QED
          BY <2>3, <4>1, <4>2, SMTT(40) DEF Scoring!VotesFor
      <3> HIDE DEF f
      <3>3. Observers \in Nat /\ DOMAIN f \subseteq 1 .. Observers /\ \A g \in DOMAIN f : f[g] \in 0 .. 0
        BY <3>1, <3>2 DEF IsGrouping, Scoring!ScoreConstants
      <3>4. Cardinality(DOMAIN f) \in Nat /\ s \in 0 .. Cardinality(DOMAIN f) * 0
        BY <3>1, <3>3, TotalBounded
      <3> QED
        BY <1>2, <3>4
    <2> QED
      BY <2>2, <2>3
  <1> QED
    BY <1>1, <1>2, <1>3 DEF s, t

LEMMA AgreedRises ==
    ASSUME Scoring!ScoreConstants, NEW gm, NEW lm, NEW h, NEW q, NEW W, DOMAIN gm # {},
           IsGrouping(gm, W), IsGrouping(lm, W \ {q}), Thinned(gm, lm, h, q),
           NEW target \in [W -> Profiles], NEW alone \in [W \ {q} -> Profiles], \A p \in W \ {q} : alone[p] = target[p],
           NEW claimed
    PROVE  Agreed(target, gm, claimed) <= Agreed(alone, lm, claimed)
  <1> DEFINE n == Cardinality(DOMAIN gm)
             s == TopVote(target, gm)  t == TopVote(alone, lm)
             c == Scoring!Votes(target, gm, CHOOSE place \in claimed : TRUE)
             d == Scoring!Votes(alone, lm, CHOOSE place \in claimed : TRUE)
             u == s \div n  v == t \div n
  <1>1. n \in Nat \ {0} /\ Cardinality(DOMAIN lm) = n
    BY ThinnedCount DEF Scoring!ScoreConstants
  <1>2. s \in Nat /\ t \in Nat /\ s <= t
    BY TopVoteIs, TopVoteRises, ZenonT(90)
  <1>3. c \in Nat /\ d \in Nat /\ c <= d
    BY VotesBounded, VotesRise, ZenonT(90)
  <1>4. Agreed(target, gm, claimed) = IF claimed = {} THEN u ELSE (u * n + c) \div (2 * n)
    BY Zenon DEF Agreed
  <1>5. Agreed(alone, lm, claimed) = IF claimed = {} THEN v ELSE (v * n + d) \div (2 * n)
    <2> DEFINE k == Cardinality(DOMAIN lm)
    <2>1. Agreed(alone, lm, claimed) = IF claimed = {} THEN t \div k ELSE ((t \div k) * k + d) \div (2 * k)
      BY Zenon DEF Agreed
    <2>2. k = n
      BY <1>1
    <2> HIDE DEF k, n, t, d
    <2> QED
      BY <2>1, <2>2, Zenon
  <1> HIDE DEF n, s, t, c, d
  <1>6. u \in Nat /\ v \in Nat /\ u <= v
    BY <1>1, <1>2, Quotient, QuotientRises
  <1> HIDE DEF u, v
  <1> DEFINE a == u * n + c  b == v * n + d  twice == 2 * n
  <1>7. n * u <= n * v /\ n * u \in Nat /\ n * v \in Nat
    BY <1>1, <1>6, Product
  <1>8. u * n = n * u /\ v * n = n * v
    BY <1>1, <1>6
  <1>9. a \in Nat /\ b \in Nat /\ a <= b /\ twice \in Nat \ {0}
    BY <1>1, <1>3, <1>7, <1>8
  <1> HIDE DEF a, b, twice
  <1>10. a \div twice <= b \div twice
    BY <1>9, QuotientRises
  <1> QED
    BY <1>4, <1>5, <1>6, <1>10 DEF a, b, twice

-----------------------------------------------------------------------------
(* The score: all facets. *)

Hardwares(target) == [p \in DOMAIN target |-> Scoring!Hardware(target[p])]
Freshnesses(target) == [p \in DOMAIN target |-> Scoring!Freshness(target[p])]
Services(target) == [p \in DOMAIN target |-> Scoring!Service(target[p])]

LEMMA ValuesIn ==
    ASSUME Scoring!ScoreConstants, NEW W, NEW target \in [W -> Profiles]
    PROVE  /\ Hardwares(target) \in [W -> 0 .. Scoring!BPS] /\ Freshnesses(target) \in [W -> 0 .. Scoring!BPS]
           /\ Services(target) \in [W -> 0 .. Scoring!BPS]
  <1>1. \A p \in W : target[p] \in Scoring!Profile
    BY DEF Scoring!ScoreConstants
  <1> QED
    BY <1>1, RecordValues DEF Hardwares, Freshnesses, Services

LEMMA FacetsAre ==
    ASSUME Scoring!ScoreConstants, NEW W, NEW target \in [W -> Profiles], NEW gm, IsGrouping(gm, W), NEW claimed, NEW behavior
    PROVE  Scoring!Facets(gm, target, claimed, behavior) =
               <<Scoring!Average(Weakest(gm, Hardwares(target))), Scoring!Average(Weakest(gm, Freshnesses(target))),
                 Scoring!Witness(gm), Scoring!Spatial(target, gm, claimed), Scoring!Average(behavior),
                 Scoring!Average(Weakest(gm, Services(target)))>>
  <1> DEFINE Hard == [g \in DOMAIN gm |-> Scoring!Min({Scoring!Hardware(target[p]) : p \in gm[g]})]
             Fresh == [g \in DOMAIN gm |-> Scoring!Min({Scoring!Freshness(target[p]) : p \in gm[g]})]
             Serve == [g \in DOMAIN gm |-> Scoring!Min({Scoring!Service(target[p]) : p \in gm[g]})]
  <1>0. \A g \in DOMAIN gm : gm[g] \subseteq W
    BY DEF IsGrouping
  <1>1. Hard = Weakest(gm, Hardwares(target))
    <2>1. ASSUME NEW g \in DOMAIN gm PROVE {Scoring!Hardware(target[p]) : p \in gm[g]} = {Hardwares(target)[p] : p \in gm[g]}
      BY <1>0 DEF Hardwares
    <2> QED
      BY <2>1, Zenon DEF Weakest
  <1>2. Fresh = Weakest(gm, Freshnesses(target))
    <2>1. ASSUME NEW g \in DOMAIN gm PROVE {Scoring!Freshness(target[p]) : p \in gm[g]} = {Freshnesses(target)[p] : p \in gm[g]}
      BY <1>0 DEF Freshnesses
    <2> QED
      BY <2>1, Zenon DEF Weakest
  <1>3. Serve = Weakest(gm, Services(target))
    <2>1. ASSUME NEW g \in DOMAIN gm PROVE {Scoring!Service(target[p]) : p \in gm[g]} = {Services(target)[p] : p \in gm[g]}
      BY <1>0 DEF Services
    <2> QED
      BY <2>1, Zenon DEF Weakest
  <1>4. Scoring!Facets(gm, target, claimed, behavior) =
            <<Scoring!Average(Hard), Scoring!Average(Fresh), Scoring!Witness(gm), Scoring!Spatial(target, gm, claimed),
              Scoring!Average(behavior), Scoring!Average(Serve)>>
    BY Zenon DEF Scoring!Facets
  <1> HIDE DEF Hard, Fresh, Serve
  <1> QED
    BY <1>1, <1>2, <1>3, <1>4

LEMMA WitnessIn ==
    ASSUME Scoring!ScoreConstants, NEW gm, Cardinality(DOMAIN gm) \in Nat
    PROVE  Scoring!Witness(gm) \in 0 .. Scoring!BPS
  <1> DEFINE n == (Scoring!Cardinality(DOMAIN gm) * DeployerWeight) \div Scoring!WitnessTarget
  <1>1. Scoring!Cardinality(DOMAIN gm) \in Nat /\ DeployerWeight \in Nat
    BY SameCount, Scale DEF Scoring!ScoreConstants
  <1>2. n \in Int
    <2> DEFINE k == Scoring!Cardinality(DOMAIN gm)
    <2>1. k * DeployerWeight \in Nat
      BY <1>1
    <2> QED
      BY <2>1 DEF Scoring!WitnessTarget
  <1>3. Scoring!Witness(gm) = Scoring!Clamp(n)
    BY Zenon DEF Scoring!Witness
  <1> HIDE DEF n
  <1> QED
    BY <1>2, <1>3, ClampIs

LEMMA SpatialIn ==
    ASSUME Scoring!ScoreConstants, NEW W, NEW target \in [W -> Profiles], NEW gm, IsGrouping(gm, W), DOMAIN gm # {}, NEW claimed
    PROVE  Scoring!Spatial(target, gm, claimed) \in 0 .. Scoring!BPS
  <1> DEFINE a == Agreed(target, gm, claimed)  m == Scoring!Min({a, Scoring!SpatialCap})
  <1>1. a \in Int /\ a \in 0 .. Scoring!BPS
    BY AgreedBounded, Scale
  <1>2. Scoring!Spatial(target, gm, claimed) = IF Cardinality(DOMAIN gm) < Scoring!SpatialWitnesses THEN m ELSE a
    BY SpatialIs, Zenon
  <1> HIDE DEF a
  <1>3. m = IF a <= Scoring!SpatialCap THEN a ELSE Scoring!SpatialCap
    BY <1>1, SmallerOfTwo DEF Scoring!SpatialCap
  <1> HIDE DEF m
  <1>4. Scoring!SpatialCap \in Nat /\ Scoring!SpatialCap <= Scoring!BPS
    BY DEF Scoring!SpatialCap, Scoring!BPS
  <1> QED
    BY <1>1, <1>2, <1>3, <1>4, Scale

LEMMA ScoreIn ==
    ASSUME NEW a \in 0 .. Scoring!BPS, NEW b \in 0 .. Scoring!BPS, NEW c \in 0 .. Scoring!BPS,
           NEW d \in 0 .. Scoring!BPS, NEW e \in 0 .. Scoring!BPS, NEW f \in 0 .. Scoring!BPS
    PROVE  Scoring!Score(<<a, b, c, d, e, f>>) \in 0 .. Scoring!BPS
  <1> DEFINE t == a * 2500 + b * 1000 + c * 3000 + d * 1500 + e * 1500 + f * 500
  <1>1. t \in Nat /\ t <= 10000 * Scoring!BPS
    BY Scale
  <1>2. Scoring!Score(<<a, b, c, d, e, f>>) = t \div Scoring!BPS
    BY SMTT(40) DEF Scoring!Score, Scoring!Weights
  <1> HIDE DEF t
  <1>3. 10000 * Scoring!BPS = Scoring!BPS * Scoring!BPS /\ Scoring!BPS \in Nat \ {0}
    BY DEF Scoring!BPS
  <1>4. t <= Scoring!BPS * Scoring!BPS
    BY <1>1, <1>3
  <1>5. t \div Scoring!BPS \in 0 .. Scoring!BPS
    BY <1>1, <1>3, <1>4, Scale, QuotientBounded
  <1> QED
    BY <1>2, <1>5

\* The score rises with five of its facets; the behaviour adds its weight at most.
LEMMA ScoreGain ==
    ASSUME NEW a \in 0 .. Scoring!BPS, NEW b \in 0 .. Scoring!BPS, NEW c \in 0 .. Scoring!BPS,
           NEW d \in 0 .. Scoring!BPS, NEW e \in 0 .. Scoring!BPS, NEW f \in 0 .. Scoring!BPS,
           NEW a2 \in 0 .. Scoring!BPS, NEW b2 \in 0 .. Scoring!BPS,
           NEW d2 \in 0 .. Scoring!BPS, NEW e2 \in 0 .. Scoring!BPS, NEW f2 \in 0 .. Scoring!BPS,
           a <= a2, b <= b2, d <= d2, f <= f2
    PROVE  Scoring!Score(<<a, b, c, d, e, f>>) <= Scoring!Score(<<a2, b2, c, d2, e2, f2>>) + Scoring!Weights[5]
  <1> DEFINE t == a * 2500 + b * 1000 + c * 3000 + d * 1500 + e * 1500 + f * 500
             u == a2 * 2500 + b2 * 1000 + c * 3000 + d2 * 1500 + e2 * 1500 + f2 * 500
  <1>1. t \in Nat /\ u \in Nat /\ t <= u + 1500 * Scoring!BPS
    BY Scale
  <1>2. Scoring!Score(<<a, b, c, d, e, f>>) = t \div Scoring!BPS
    BY SMTT(40) DEF Scoring!Score, Scoring!Weights
  <1>3. Scoring!Score(<<a2, b2, c, d2, e2, f2>>) = u \div Scoring!BPS
    BY SMTT(40) DEF Scoring!Score, Scoring!Weights
  <1>4. Scoring!Weights[5] = 1500
    BY SMTT(40) DEF Scoring!Weights
  <1> HIDE DEF t, u
  <1>5. t \div Scoring!BPS <= u \div Scoring!BPS + 1500
    BY <1>1 DEF Scoring!BPS
  <1> QED
    BY <1>2, <1>3, <1>4, <1>5

LEMMA FacetsBounded ==
    ASSUME Scoring!ScoreConstants, NEW W, NEW target \in [W -> Profiles], NEW gm, IsGrouping(gm, W), DOMAIN gm # {},
           NEW claimed, NEW behavior \in Scoring!Behaviors(gm)
    PROVE  /\ \A i \in DOMAIN Scoring!Facets(gm, target, claimed, behavior) :
                  Scoring!Facets(gm, target, claimed, behavior)[i] \in 0 .. Scoring!BPS
           /\ Scoring!Score(Scoring!Facets(gm, target, claimed, behavior)) \in 0 .. Scoring!BPS
  <1> DEFINE a == Scoring!Average(Weakest(gm, Hardwares(target)))  b == Scoring!Average(Weakest(gm, Freshnesses(target)))
             c == Scoring!Witness(gm)  d == Scoring!Spatial(target, gm, claimed)  e == Scoring!Average(behavior)
             f == Scoring!Average(Weakest(gm, Services(target)))  B == Scoring!BPS
             facets == Scoring!Facets(gm, target, claimed, behavior)
  <1>0. Observers \in Nat /\ DOMAIN gm \subseteq 1 .. Observers
    BY DEF Scoring!ScoreConstants, IsGrouping
  <1>1. ASSUME NEW v \in [W -> 0 .. B] PROVE Scoring!Average(Weakest(gm, v)) \in 0 .. B
    BY <1>0, WeakestBounded, AverageBounded, Scale
  <1>2. a \in 0 .. B /\ b \in 0 .. B /\ f \in 0 .. B
    BY <1>1, ValuesIn
  <1>3. c \in 0 .. B /\ d \in 0 .. B
    <2>1. Cardinality(DOMAIN gm) \in Nat
      BY VotesBounded
    <2> QED
      BY <2>1, WitnessIn, SpatialIn, Scale
  <1>8. e \in 0 .. B
    <2>1. DOMAIN behavior = DOMAIN gm /\ \A g \in DOMAIN gm : behavior[g] \in 0 .. Scoring!BPS
      BY DEF Scoring!Behaviors, Scoring!ScoreConstants
    <2> QED
      BY <1>0, <2>1, AverageBounded, Scale
  <1>4. facets = <<a, b, c, d, e, f>>
    BY FacetsAre
  <1> HIDE DEF a, b, c, d, e, f, B
  <1>5. \A i \in DOMAIN <<a, b, c, d, e, f>> : <<a, b, c, d, e, f>>[i] \in 0 .. B
    BY <1>2, <1>3, <1>8
  <1>6. Scoring!Score(<<a, b, c, d, e, f>>) \in 0 .. B
    BY <1>2, <1>3, <1>8, ScoreIn DEF B
  <1> HIDE DEF facets
  <1>7. (\A i \in DOMAIN facets : facets[i] \in 0 .. B) /\ Scoring!Score(facets) \in 0 .. B
    BY <1>4, <1>5, <1>6
  <1> QED
    BY <1>7 DEF facets, B

\* No facet of the second report is below the first's but the behaviour, its
\* score is below by that weight at most, and it is verified if the first is.
Dominated(gm, facets, lm, less) ==
    /\ \A i \in DOMAIN facets \ {5} : facets[i] <= less[i]
    /\ Scoring!Score(facets) <= Scoring!Score(less) + Scoring!Weights[5]
    /\ Scoring!Verified(gm, facets) => Scoring!Verified(lm, less)

Halved(gm, lm, h, q, W, target, alone, with, without) ==
    /\ DOMAIN gm # {}
    /\ IsGrouping(gm, W) /\ IsGrouping(lm, W \ {q}) /\ Thinned(gm, lm, h, q)
    /\ target \in [W -> Profiles] /\ alone \in [W \ {q} -> Profiles] /\ \A p \in W \ {q} : alone[p] = target[p]
    /\ with \in Scoring!Behaviors(gm) /\ without \in Scoring!Behaviors(lm)

\* A report without q dominates the report with it.
LEMMA FacetsRise ==
    ASSUME Scoring!ScoreConstants, NEW gm, NEW lm, NEW h, NEW q, NEW W, NEW target, NEW alone, NEW claimed,
           NEW with, NEW without, Halved(gm, lm, h, q, W, target, alone, with, without)
    PROVE  Dominated(gm, Scoring!Facets(gm, target, claimed, with), lm, Scoring!Facets(lm, alone, claimed, without))
  <1> DEFINE a == Scoring!Average(Weakest(gm, Hardwares(target)))  b == Scoring!Average(Weakest(gm, Freshnesses(target)))
             c == Scoring!Witness(gm)  d == Scoring!Spatial(target, gm, claimed)  e == Scoring!Average(with)
             f == Scoring!Average(Weakest(gm, Services(target)))
             a2 == Scoring!Average(Weakest(lm, Hardwares(alone)))  b2 == Scoring!Average(Weakest(lm, Freshnesses(alone)))
             c2 == Scoring!Witness(lm)  d2 == Scoring!Spatial(alone, lm, claimed)  e2 == Scoring!Average(without)
             f2 == Scoring!Average(Weakest(lm, Services(alone)))
             B == Scoring!BPS
             facets == Scoring!Facets(gm, target, claimed, with)
             less == Scoring!Facets(lm, alone, claimed, without)
  <1>p. /\ DOMAIN gm # {}
        /\ IsGrouping(gm, W) /\ IsGrouping(lm, W \ {q}) /\ Thinned(gm, lm, h, q)
        /\ target \in [W -> Profiles] /\ alone \in [W \ {q} -> Profiles] /\ \A p \in W \ {q} : alone[p] = target[p]
        /\ with \in Scoring!Behaviors(gm) /\ without \in Scoring!Behaviors(lm)
    BY Zenon DEF Halved
  <1> USE <1>p
  <1>0. Observers \in Nat
    BY DEF Scoring!ScoreConstants
  <1>1. facets = <<a, b, c, d, e, f>> /\ less = <<a2, b2, c2, d2, e2, f2>>
    BY FacetsAre
  <1>2. /\ Cardinality(DOMAIN gm) \in Nat /\ Cardinality(DOMAIN lm) = Cardinality(DOMAIN gm) /\ DOMAIN lm # {}
    BY <1>0, ThinnedCount
  <1>3. \A i \in DOMAIN facets : facets[i] \in 0 .. B
    BY FacetsBounded
  <1>4. \A i \in DOMAIN less : less[i] \in 0 .. B
    BY <1>2, FacetsBounded
  <1>5. a <= a2 /\ b <= b2 /\ f <= f2
    <2>1. /\ Hardwares(target) \in [W -> 0 .. Scoring!BPS] /\ Freshnesses(target) \in [W -> 0 .. Scoring!BPS]
          /\ Services(target) \in [W -> 0 .. Scoring!BPS]
      BY ValuesIn
    <2>2. /\ Hardwares(alone) \in [W \ {q} -> 0 .. Scoring!BPS] /\ Freshnesses(alone) \in [W \ {q} -> 0 .. Scoring!BPS]
          /\ Services(alone) \in [W \ {q} -> 0 .. Scoring!BPS]
      BY ValuesIn
    <2>3. \A p \in W \ {q} : /\ Hardwares(alone)[p] = Hardwares(target)[p] /\ Freshnesses(alone)[p] = Freshnesses(target)[p]
                             /\ Services(alone)[p] = Services(target)[p]
      BY DEF Hardwares, Freshnesses, Services
    <2>4. a <= a2
      BY <1>0, <2>1, <2>2, <2>3, AverageRises
    <2>5. b <= b2
      BY <1>0, <2>1, <2>2, <2>3, AverageRises
    <2>6. f <= f2
      BY <1>0, <2>1, <2>2, <2>3, AverageRises
    <2> QED
      BY <2>4, <2>5, <2>6
  <1>6. Scoring!Cardinality(DOMAIN lm) = Scoring!Cardinality(DOMAIN gm)
    BY <1>2, SameCount
  <1>7. c = c2
    BY <1>6, Zenon DEF Scoring!Witness
  <1>8. d <= d2
    <2> DEFINE x == Agreed(target, gm, claimed)  y == Agreed(alone, lm, claimed)
               m == Scoring!Min({x, Scoring!SpatialCap})  n == Scoring!Min({y, Scoring!SpatialCap})
    <2>a. x \in 0 .. Scoring!BPS
      BY AgreedBounded
    <2>b. y \in 0 .. Scoring!BPS
      <3>1. DOMAIN lm # {}
        BY <1>2
      <3> QED
        BY <3>1, AgreedBounded
    <2>c. x <= y
      BY AgreedRises, ZenonT(90)
    <2>1. x \in Int /\ y \in Int /\ x <= y
      <3> HIDE DEF x, y
      <3> QED
        BY <2>a, <2>b, <2>c, Scale
    <2>2. d = IF Cardinality(DOMAIN gm) < Scoring!SpatialWitnesses THEN m ELSE x
      BY SpatialIs, Zenon
    <2>3. d2 = IF Cardinality(DOMAIN lm) < Scoring!SpatialWitnesses THEN n ELSE y
      BY SpatialIs, Zenon
    <2>4. Scoring!SpatialCap \in Int
      BY DEF Scoring!SpatialCap
    <2> HIDE DEF x, y
    <2>5. m = IF x <= Scoring!SpatialCap THEN x ELSE Scoring!SpatialCap
      BY <2>1, <2>4, SmallerOfTwo
    <2>6. n = IF y <= Scoring!SpatialCap THEN y ELSE Scoring!SpatialCap
      BY <2>1, <2>4, SmallerOfTwo
    <2> HIDE DEF m, n, d, d2
    <2> QED
      BY <1>2, <2>1, <2>2, <2>3, <2>4, <2>5, <2>6
  <1> HIDE DEF a, b, c, d, e, f, a2, b2, c2, d2, e2, f2, B
  <1>9. /\ a \in 0 .. B /\ b \in 0 .. B /\ c \in 0 .. B /\ d \in 0 .. B /\ e \in 0 .. B /\ f \in 0 .. B
        /\ a2 \in 0 .. B /\ b2 \in 0 .. B /\ d2 \in 0 .. B /\ e2 \in 0 .. B /\ f2 \in 0 .. B
    <2>1. /\ DOMAIN facets = 1 .. 6 /\ DOMAIN less = 1 .. 6
          /\ facets[1] = a /\ facets[2] = b /\ facets[3] = c /\ facets[4] = d /\ facets[5] = e /\ facets[6] = f
          /\ less[1] = a2 /\ less[2] = b2 /\ less[4] = d2 /\ less[5] = e2 /\ less[6] = f2
      BY <1>1
    <2> HIDE DEF facets, less
    <2> QED
      BY <1>3, <1>4, <2>1
  <1>10. B \in Nat
    BY Scale DEF B
  <1>11. \A i \in DOMAIN <<a, b, c, d, e, f>> \ {5} : <<a, b, c, d, e, f>>[i] <= <<a2, b2, c2, d2, e2, f2>>[i]
    BY <1>5, <1>7, <1>8, <1>9, <1>10
  <1>14. Scoring!Score(<<a, b, c, d, e, f>>) <= Scoring!Score(<<a2, b2, c2, d2, e2, f2>>) + Scoring!Weights[5]
    <2>1. Scoring!Score(<<a, b, c, d, e, f>>) <= Scoring!Score(<<a2, b2, c, d2, e2, f2>>) + Scoring!Weights[5]
      BY <1>5, <1>8, <1>9, ScoreGain DEF B
    <2> QED
      BY <1>7, <2>1, Zenon
  <1> HIDE DEF facets, less
  <1>12. /\ \A i \in DOMAIN facets \ {5} : facets[i] <= less[i]
         /\ Scoring!Score(facets) <= Scoring!Score(less) + Scoring!Weights[5]
    BY <1>1, <1>11, <1>14, Zenon
  <1>13. ASSUME Scoring!Verified(gm, facets) PROVE Scoring!Verified(lm, less)
    <2>1. facets[1] = a /\ less[1] = a2 /\ facets[3] = c /\ less[3] = c
      BY <1>1, <1>7
    <2>2. Scoring!Cardinality(DOMAIN gm) >= 3 /\ facets[3] >= 5000 /\ facets[1] >= 8000
      BY <1>13 DEF Scoring!Verified
    <2>3. less[1] >= 8000
      BY <1>5, <1>9, <1>10, <2>1, <2>2
    <2> QED
      BY <1>6, <2>1, <2>2, <2>3 DEF Scoring!Verified
  <1> QED
    BY <1>12, <1>13, Zenon DEF facets, less, Dominated

-----------------------------------------------------------------------------
(* The score: copies. *)

LEMMA CopiesCooccur ==
    ASSUME Scoring!ScoreConstants, NEW slots, NEW p, NEW q, slots[p] \in SUBSET Slots, Scoring!Copies(slots, p, q)
    PROVE  Scoring!Cooccur(slots, p, q)
  <1> DEFINE k == Cardinality(slots[p])  B == Scoring!BPS
  <1>1. slots[p] = slots[q] /\ TargetSlot \in slots[p]
    BY DEF Scoring!Copies
  <1>2. IsFiniteSet(slots[p])
    BY SameCount, FS_Subset DEF Scoring!ScoreConstants
  <1>3. k \in Nat \ {0}
    BY <1>1, <1>2, FS_CardinalityType, FS_EmptySet
  <1>4. slots[p] \cap slots[q] = slots[p]
    BY <1>1
  <1>5. Scoring!Cardinality(slots[p]) = k /\ Scoring!Cardinality(slots[q]) = k /\ Scoring!Cardinality(slots[p] \cap slots[q]) = k
    BY <1>1, <1>4, SameCount
  <1>6. Scoring!Max({k, k}) = k
    BY <1>3, LargerOfTwo
  <1>7. k > 0 /\ k * B > k * Threshold
    <2>1. Threshold \in Nat /\ Threshold + 1 <= B /\ B \in Nat
      BY Scale DEF Scoring!ScoreConstants
    <2> HIDE DEF k, B
    <2>2. k * (Threshold + 1) <= k * B
      BY <1>3, <2>1, Product
    <2>3. k * (Threshold + 1) = k * Threshold + k /\ k * Threshold \in Nat /\ k * B \in Nat
      BY <1>3, <2>1
    <2> QED
      BY <1>3, <2>2, <2>3
  <1> HIDE DEF k
  <1> QED
    BY <1>5, <1>6, <1>7, Zenon DEF Scoring!Cooccur

\* Taking a copy away keeps everybody else's roots together or apart.
LEMMA RootsKept ==
    ASSUME Scoring!ScoreConstants, NEW slots \in [1 .. Observers -> SUBSET Slots],
           NEW p \in 1 .. Observers, NEW q \in 1 .. Observers, Scoring!Copies(slots, p, q)
    PROVE  /\ RootOf(slots)[p] = RootOf(slots)[q]
           /\ \A x, y \in (1 .. Observers) \ {q} :
                  RootOf(slots)[x] = RootOf(slots)[y] <=> RootOf(Scoring!Without(slots, q))[x] = RootOf(Scoring!Without(slots, q))[y]
  <1> DEFINE D == 1 .. Observers  s == Scoring!Without(slots, q)  r == RootOf(slots)  l == RootOf(s)
  <1>0. Observers \in Nat /\ DOMAIN slots = D /\ p # q /\ slots[p] = slots[q]
    BY DEF Scoring!ScoreConstants, Scoring!Copies
  <1>1. DOMAIN s = D \ {q} /\ \A x \in D \ {q} : s[x] = slots[x]
    BY <1>0 DEF Scoring!Without
  <1>2. (\A x, y \in D : Scoring!Cooccur(slots, x, y) => r[x] = r[y])
        /\ \A x, y \in D : r[x] = r[y] <=> \A A : Closed(slots, A) /\ x \in A => y \in A
    BY <1>0, RootsConnect, SMTT(40)
  <1> HIDE DEF s, r
  <1>3. \A x, y \in D \ {q} : l[x] = l[y] <=> \A A : Closed(s, A) /\ x \in A => y \in A
    BY <1>0, <1>1, RootsConnect
  <1> HIDE DEF l
  <1>4. \A x, y \in D \ {q} : Scoring!Cooccur(s, x, y) <=> Scoring!Cooccur(slots, x, y)
    <2> SUFFICES ASSUME NEW x \in D \ {q}, NEW y \in D \ {q} PROVE Scoring!Cooccur(s, x, y) <=> Scoring!Cooccur(slots, x, y)
      OBVIOUS
    <2>1. s[x] = slots[x] /\ s[y] = slots[y]
      BY <1>1
    <2> QED
      BY <2>1, Zenon DEF Scoring!Cooccur
  <1>5. \A x : /\ Scoring!Cooccur(slots, q, x) <=> Scoring!Cooccur(slots, p, x)
               /\ Scoring!Cooccur(slots, x, q) <=> Scoring!Cooccur(slots, x, p)
    BY <1>0, Zenon DEF Scoring!Cooccur
  <1>6. Scoring!Cooccur(slots, p, q)
    BY CopiesCooccur
  <1>7. r[p] = r[q]
    BY <1>2, <1>6
  <1>8. ASSUME NEW x \in D \ {q}, NEW y \in D \ {q}, l[x] = l[y] PROVE r[x] = r[y]
    <2> SUFFICES ASSUME NEW A, Closed(slots, A), x \in A PROVE y \in A
      BY <1>2
    <2>1. Closed(s, A \ {q})
      BY <1>0, <1>1, <1>4 DEF Closed
    <2> QED
      BY <1>3, <1>8, <2>1
  <1>9. ASSUME NEW x \in D \ {q}, NEW y \in D \ {q}, r[x] = r[y] PROVE l[x] = l[y]
    <2> SUFFICES ASSUME NEW A, Closed(s, A), x \in A PROVE y \in A
      BY <1>3
    <2> DEFINE E == {z \in D : z \in A \/ (z = q /\ p \in A)}
    <2>1. A \subseteq D \ {q} /\ \A z \in A, w \in (D \ {q}) \ A : ~Scoring!Cooccur(slots, z, w)
      BY <1>1, <1>4 DEF Closed
    <2>2. Closed(slots, E)
      BY <1>0, <1>5, <2>1 DEF Closed
    <2>3. x \in E
      OBVIOUS
    <2>4. y \in E
      BY <1>2, <1>9, <2>2, <2>3
    <2> QED
      BY <2>4
  <1> QED
    BY <1>7, <1>8, <1>9 DEF r, l, s

\* The groups without a copy are the groups, each without it.
LEMMA CopyThins ==
    ASSUME Scoring!ScoreConstants, NEW slots \in [1 .. Observers -> SUBSET Slots],
           NEW p \in Scoring!Witnesses(slots), NEW q \in Scoring!Witnesses(slots), Scoring!Copies(slots, p, q)
    PROVE  /\ Scoring!Witnesses(Scoring!Without(slots, q)) = Scoring!Witnesses(slots) \ {q}
           /\ \E h : Thinned(Scoring!Groups(slots), Scoring!Groups(Scoring!Without(slots, q)), h, q)
  <1> DEFINE D == 1 .. Observers  s == Scoring!Without(slots, q)  r == RootOf(slots)  l == RootOf(s)
             W == Scoring!Witnesses(slots)  V == Scoring!Witnesses(s)
             gm == Scoring!Groups(slots)  lm == Scoring!Groups(s)
  <1>0. W \subseteq D /\ p # q /\ p \in W /\ q \in W
    BY DEF Scoring!Witnesses, Scoring!Copies
  <1>1. V = W \ {q}
    BY DEF Scoring!Witnesses, Scoring!Without
  <1>2. r[p] = r[q] /\ \A x, y \in D \ {q} : r[x] = r[y] <=> l[x] = l[y]
    BY <1>0, RootsKept
  <1>3. DOMAIN gm = {r[x] : x \in W} /\ \A g \in DOMAIN gm : gm[g] = {x \in W : r[x] = g}
    BY GroupsAre
  <1>4. DOMAIN lm = {l[x] : x \in V} /\ \A g \in DOMAIN lm : lm[g] = {x \in V : l[x] = g}
    BY GroupsAre
  <1> HIDE DEF D, s, r, l, W, V, gm, lm
  <1> DEFINE of(g) == CHOOSE x \in V : r[x] = g
             h == [g \in DOMAIN gm |-> l[of(g)]]
  <1>5. ASSUME NEW g \in DOMAIN gm PROVE of(g) \in V /\ r[of(g)] = g
    <2>1. \E x \in V : r[x] = g
      BY <1>0, <1>1, <1>2, <1>3
    <2> QED
      BY <2>1
  <1> HIDE DEF of
  <1>6. \A x, y \in V : r[x] = r[y] <=> l[x] = l[y]
    BY <1>0, <1>1, <1>2
  <1>7. \A g \in DOMAIN gm : h[g] = l[of(g)] /\ h[g] \in DOMAIN lm
    BY <1>4, <1>5
  <1>8. h \in [DOMAIN gm -> DOMAIN lm]
    BY <1>7
  <1> HIDE DEF h
  <1>9. ASSUME NEW x \in DOMAIN gm, NEW y \in DOMAIN gm, h[x] = h[y] PROVE x = y
    BY <1>5, <1>6, <1>7, <1>9
  <1>10. ASSUME NEW y \in DOMAIN lm PROVE \E x \in DOMAIN gm : h[x] = y
    <2>1. PICK w \in V : y = l[w]
      BY <1>4
    <2>2. r[w] \in DOMAIN gm
      BY <1>1, <1>3
    <2>3. h[r[w]] = l[w]
      BY <1>5, <1>6, <1>7, <2>2
    <2> QED
      BY <2>1, <2>2, <2>3
  <1>11. ASSUME NEW g \in DOMAIN gm PROVE lm[h[g]] = gm[g] \ {q}
    <2>1. lm[h[g]] = {x \in V : l[x] = l[of(g)]}
      BY <1>4, <1>7
    <2>2. \A x \in V : l[x] = l[of(g)] <=> r[x] = g
      BY <1>5, <1>6
    <2> QED
      BY <1>1, <1>3, <2>1, <2>2
  <1>12. Thinned(gm, lm, h, q)
    BY <1>8, <1>9, <1>10, <1>11 DEF Thinned
  <1> QED
    BY <1>1, <1>12 DEF V, W, s, gm, lm

-----------------------------------------------------------------------------

Observing == observed \in [1 .. Observers -> SUBSET Slots]

LEMMA ObservingSound == ASSUME Scoring!ScoreConstants, Observing PROVE Scoring!ScoreSound
  <1> DEFINE slots == observed  gm == Scoring!Groups(observed)  W == Scoring!Witnesses(observed)
             targets == [W -> Profiles]
             places == {{}} \cup {{place} : place \in Places}
  <1>0. Observers \in Nat /\ DOMAIN observed = 1 .. Observers
    BY DEF Observing, Scoring!ScoreConstants
  <1>1. Scoring!GroupsConnect(observed)
    BY <1>0, ComponentsGrouped
  <1>2. IsGrouping(gm, W)
    BY <1>0, GroupsGroup
  <1>3. ASSUME DOMAIN gm # {}, NEW target \in targets, NEW claimed \in places, NEW behavior \in Scoring!Behaviors(gm)
        PROVE  LET facets == Scoring!Facets(gm, target, claimed, behavior) IN
               (\A i \in DOMAIN facets : facets[i] \in 0 .. Scoring!BPS) /\ Scoring!Score(facets) \in 0 .. Scoring!BPS
    BY <1>2, <1>3, FacetsBounded
  <1>4. ASSUME NEW p \in W, NEW q \in W, Scoring!Copies(observed, p, q), NEW target \in targets, NEW claimed \in places,
               NEW with \in Scoring!Behaviors(gm),
               NEW without \in Scoring!Behaviors(Scoring!Groups(Scoring!Without(observed, q)))
        PROVE  LET others_1 == Scoring!Groups(Scoring!Without(observed, q))
                   facets == Scoring!Facets(gm, target, claimed, with)
                   alone == Scoring!Facets(others_1, Scoring!Without(target, q), claimed, without)
               IN  /\ \A i \in DOMAIN facets \ {5} : facets[i] <= alone[i]
                   /\ Scoring!Score(facets) <= Scoring!Score(alone) + Scoring!Weights[5]
                   /\ Scoring!Verified(gm, facets) => Scoring!Verified(others_1, alone)
    <2> DEFINE s == Scoring!Without(observed, q)  lm == Scoring!Groups(s)  less == Scoring!Without(target, q)
    <2>1. Scoring!Witnesses(s) = W \ {q} /\ \E h : Thinned(gm, lm, h, q)
      BY <1>4, CopyThins DEF Observing
    <2>2. PICK h : Thinned(gm, lm, h, q)
      BY <2>1
    <2>3. DOMAIN s \subseteq 1 .. Observers
      BY <1>0 DEF Scoring!Without
    <2>4. IsGrouping(lm, W \ {q})
      BY <1>0, <2>1, <2>3, GroupsGroup
    <2>5. less \in [W \ {q} -> Profiles] /\ \A x \in W \ {q} : less[x] = target[x]
      BY DEF Scoring!Without
    <2>6. DOMAIN gm # {}
      <3>1. DOMAIN gm = {RootOf(observed)[x] : x \in W}
        BY GroupsAre, Zenon
      <3>2. p \in W
        BY <1>4
      <3> HIDE DEF gm, W
      <3>3. RootOf(observed)[p] \in DOMAIN gm
        BY <3>1, <3>2, Zenon
      <3> QED
        BY <3>3, Zenon
    <2>8. target \in [W -> Profiles] /\ with \in Scoring!Behaviors(gm) /\ without \in Scoring!Behaviors(lm)
      BY <1>4
    <2>9. Scoring!ScoreConstants
      BY DEF Observing
    <2> HIDE DEF s, lm, less, gm, W
    <2>7. Dominated(gm, Scoring!Facets(gm, target, claimed, with), lm, Scoring!Facets(lm, less, claimed, without))
      <3>1. Halved(gm, lm, h, q, W, target, less, with, without)
        BY <1>2, <2>2, <2>4, <2>5, <2>6, <2>8, Zenon DEF Halved
      <3> QED
        BY <2>9, <3>1, FacetsRise, Zenon
    <2> QED
      BY <2>7, Zenon DEF s, lm, less, gm, Dominated
  <1> HIDE DEF gm, W, targets, places
  <1> QED
    BY <1>1, <1>3, <1>4, Zenon DEF Scoring!ScoreSound, gm, W, targets, places

\* The score is sound (computeConfidence): for every number of pseudonyms,
\* every history over any slots, every claim, every profile of the target's
\* observations and every behaviour of the groups, the groups are the connected
\* components of co-occurrence, facets and score stay on the scale, and a copy
\* of another's slots raises no facet but the behaviour, adds no more than its
\* weight to the score and makes no report verified.
THEOREM ScoreStaysSound == ReportsSpec => []ScoreSound
  <1>1. ReportsInit => Observing
    BY DEF ReportsInit, Scoring!Init, Observing
  <1>2. Observing /\ [ReportsNext]_<<side, reportVars, observed>> => Observing'
    <2> SUFFICES ASSUME Observing, [ReportsNext]_<<side, reportVars, observed>> PROVE Observing'
      OBVIOUS
    <2>1. CASE UNCHANGED observed
      BY <2>1 DEF Observing
    <2>2. CASE Scoring!Next
      BY <2>2 DEF Observing, Scoring!Next, Scoring!Record
    <2> QED
      BY <2>1, <2>2 DEF ReportsNext
  <1>3. Observing => ScoreSound
    BY ReportsAssumption, ObservingSound DEF ScoreSound
  <1> QED
    BY <1>1, <1>2, <1>3, PTL DEF ReportsSpec

=============================================================================
