------------------------ MODULE DensityScannerProofs ------------------------
(***************************************************************************)
(* Theorems about DensityScanner, for every registry, every set of         *)
(* peripherals and every limit.                                            *)
(***************************************************************************)
EXTENDS DensityScanner, FiniteSetTheorems, WellFoundedInduction, TLAPS

\* The registry's fields.
LEMMA RegistryFacts ==
  /\ Rules \subseteq Nat \ {0}
  /\ Category \in [Rules -> Categories \ {"unknown"}]
  /\ Confidence \in [Rules -> {0, 1}]
  /\ Priority \in [Rules -> Nat]
BY RegistryAssumption DEF AcceptedRegistry

\* The winner of a non-empty set of matching rules is one of the rules with
\* the highest priority and is preferred to all of them.
LEMMA WinnerFacts ==
  ASSUME NEW S \in SUBSET Rules, S # {}
  PROVE  /\ Winner(S) \in Contenders(S)
         /\ \A q \in Contenders(S) : Wins(Winner(S), q)
BY FiniteRegistry DEF Winner

\* The preference between rules of one priority and category is a total order.
LEMMA WinsOrder ==
  ASSUME NEW p \in Rules, NEW q \in Rules, NEW r \in Rules
  PROVE  /\ Wins(p, q) \/ Wins(q, p)
         /\ Wins(p, q) /\ Wins(q, p) => p = q
         /\ Wins(p, q) /\ Wins(q, r) => Wins(p, r)
<1>1. /\ p \in Nat /\ q \in Nat /\ r \in Nat
      /\ Confidence[p] \in Int /\ Confidence[q] \in Int /\ Confidence[r] \in Int
  BY RegistryFacts
<1>2. QED
  BY <1>1 DEF Wins

\* A rule of highest priority that is preferred to the others is the winner.
LEMMA WinnerUnique ==
  ASSUME NEW S \in SUBSET Rules, NEW w \in Contenders(S),
         \A q \in Contenders(S) : Wins(w, q)
  PROVE  Winner(S) = w
<1>1. S # {} /\ w \in Rules
  BY DEF Contenders
<1>2. Winner(S) \in Contenders(S) /\ Wins(Winner(S), w)
  BY <1>1, WinnerFacts
<1>3. Winner(S) \in Rules
  BY <1>2 DEF Contenders
<1>4. QED
  BY <1>1, <1>2, <1>3, WinsOrder

\* Rules of lower priority do not take part.
LEMMA HigherPrevails ==
  ASSUME NEW S \in SUBSET Rules, NEW T \in SUBSET Rules, S # {}, T # {},
         Priority[Winner(T)] > Priority[Winner(S)]
  PROVE  Classify(S \cup T) = Classify(T) /\ Classify(T \cup S) = Classify(T)
<1>1. Winner(S) \in Contenders(S) /\ Winner(T) \in Contenders(T)
  BY WinnerFacts
<1>2. \A r \in Rules : Priority[r] \in Nat
  BY RegistryFacts
<1>3. Contenders(S \cup T) = Contenders(T)
  BY <1>1, <1>2 DEF Contenders
<1>4. Winner(S \cup T) = Winner(T) /\ (Conflicted(S \cup T) <=> Conflicted(T))
  BY <1>3 DEF Winner, Conflicted
<1>5. S \cup T # {} /\ T \cup S = S \cup T
  OBVIOUS
<1>6. QED
  BY <1>4, <1>5 DEF Classify

\* At one priority the rules of both sets contend.
LEMMA EqualContend ==
  ASSUME NEW S \in SUBSET Rules, NEW T \in SUBSET Rules, S # {}, T # {},
         Priority[Winner(T)] = Priority[Winner(S)]
  PROVE  /\ Contenders(S \cup T) = Contenders(S) \cup Contenders(T)
         /\ Priority[Winner(S \cup T)] = Priority[Winner(S)]
<1>1. Winner(S) \in Contenders(S) /\ Winner(T) \in Contenders(T)
  BY WinnerFacts
<1>2. \A r \in Rules : Priority[r] \in Nat
  BY RegistryFacts
<1>3. Contenders(S \cup T) = Contenders(S) \cup Contenders(T)
  BY <1>1, <1>2 DEF Contenders
<1>4. Winner(S \cup T) \in Contenders(S \cup T)
  BY WinnerFacts, S \cup T \in SUBSET Rules, S \cup T # {}
<1>5. /\ \A r \in Contenders(S) : Priority[r] = Priority[Winner(S)]
      /\ \A r \in Contenders(T) : Priority[r] = Priority[Winner(T)]
  BY <1>1, <1>2 DEF Contenders
<1>6. QED
  BY <1>3, <1>4, <1>5

\* The fields that merging looks at.
LEMMA ClassifyFields ==
  ASSUME NEW S \in SUBSET Rules
  PROVE  /\ S = {} => Classify(S) = Unmatched
         /\ S # {} => /\ Winner(S) \in Rules
                      /\ Classify(S).priority = Priority[Winner(S)]
                      /\ Classify(S).priority \in Nat
                      /\ Classify(S).reason = "ambiguous-match" <=> Conflicted(S)
         /\ Classify(S).reason # "absent"
<1>1. CASE S = {}
  BY <1>1 DEF Classify, Unmatched
<1>2. CASE S # {}
  <2>1. Winner(S) \in Rules
    BY <1>2, WinnerFacts DEF Contenders
  <2>2. Priority[Winner(S)] \in Nat
    BY <2>1, RegistryFacts
  <2>3. CASE Conflicted(S)
    BY <1>2, <2>1, <2>2, <2>3 DEF Classify, Ambiguous
  <2>4. CASE ~Conflicted(S)
    BY <1>2, <2>1, <2>2, <2>4 DEF Classify, Matched
  <2>5. QED
    BY <2>3, <2>4
<1>3. QED
  BY <1>1, <1>2

\* "Merging is commutative and idempotent over a peripheral's sightings"
\* (AdvertisementClassifier.swift): merging the verdicts of two sets of
\* sightings is classifying them together, for every registry.
THEOREM MergingIsClassification ==
  ASSUME NEW S \in SUBSET Rules, NEW T \in SUBSET Rules
  PROVE  Merging(Classify(S), Classify(T)) = Classify(S \cup T)
<1> DEFINE own == Classify(S)
           sighting == Classify(T)
           s == Winner(S)
           t == Winner(T)
<1>1. CASE T = {}
  <2>1. sighting.priority = NoPriority /\ S \cup T = S
    BY <1>1, ClassifyFields DEF Unmatched
  <2>2. QED
    BY <2>1 DEF Merging
<1>2. CASE T # {} /\ S = {}
  <2>1. sighting.priority # NoPriority /\ own.priority = NoPriority /\ S \cup T = T
    BY <1>2, ClassifyFields DEF Unmatched, NoPriority
  <2>2. QED
    BY <2>1 DEF Merging
<1>3. CASE S # {} /\ T # {}
  <2>1. /\ s \in Rules /\ own.priority = Priority[s] /\ own.priority \in Nat
        /\ t \in Rules /\ sighting.priority = Priority[t] /\ sighting.priority \in Nat
        /\ own.reason = "ambiguous-match" <=> Conflicted(S)
        /\ sighting.reason = "ambiguous-match" <=> Conflicted(T)
    BY <1>3, ClassifyFields
  <2>2. own.priority # NoPriority /\ sighting.priority # NoPriority
    BY <2>1 DEF NoPriority
  <2>3. CASE Priority[t] > Priority[s]
    <3>1. Merging(own, sighting) = sighting
      BY <2>1, <2>2, <2>3 DEF Merging
    <3>2. QED
      BY <1>3, <2>3, <3>1, HigherPrevails
  <2>4. CASE Priority[t] < Priority[s]
    <3>1. Merging(own, sighting) = own
      BY <2>1, <2>2, <2>4 DEF Merging
    <3>2. Priority[s] > Priority[t]
      BY <2>1, <2>4
    <3>3. QED
      BY <1>3, <3>1, <3>2, HigherPrevails
  <2>5. CASE Priority[t] = Priority[s]
    <3> DEFINE U == S \cup T
    <3>1. /\ Contenders(U) = Contenders(S) \cup Contenders(T)
          /\ Priority[Winner(U)] = Priority[s]
          /\ s \in Contenders(S) /\ t \in Contenders(T)
          /\ U # {} /\ U \in SUBSET Rules
      BY <1>3, <2>5, EqualContend, WinnerFacts
    <3>2. CASE Conflicted(S)
      <4>1. Conflicted(U)
        BY <3>1, <3>2 DEF Conflicted
      <4>2. Merging(own, sighting) = own
        BY <2>1, <2>2, <2>5, <3>2 DEF Merging
      <4>3. own = Ambiguous(Priority[s]) /\ Classify(U) = Ambiguous(Priority[s])
        BY <1>3, <3>1, <3>2, <4>1 DEF Classify
      <4>4. QED
        BY <4>2, <4>3
    <3>3. CASE ~Conflicted(S) /\ Conflicted(T)
      <4>1. Conflicted(U)
        BY <3>1, <3>3 DEF Conflicted
      <4>2. Merging(own, sighting) = sighting
        BY <2>1, <2>2, <2>5, <3>3 DEF Merging
      <4>3. sighting = Ambiguous(Priority[s]) /\ Classify(U) = Ambiguous(Priority[s])
        BY <1>3, <2>5, <3>1, <3>3, <4>1 DEF Classify
      <4>4. QED
        BY <4>2, <4>3
    <3>4. CASE ~Conflicted(S) /\ ~Conflicted(T)
      <4>1. own = Matched(s) /\ sighting = Matched(t)
        BY <1>3, <3>4 DEF Classify
      <4>2. /\ own.category = Category[s] /\ sighting.category = Category[t]
            /\ own.confidence = Confidence[s] /\ sighting.confidence = Confidence[t]
            /\ own.rule = s /\ sighting.rule = t
        BY <4>1 DEF Matched
      <4>3. CASE Category[s] # Category[t]
        <5>1. Conflicted(U)
          BY <3>1, <4>3 DEF Conflicted
        <5>2. Merging(own, sighting) = Ambiguous(Priority[s])
          BY <2>1, <2>2, <2>5, <3>4, <4>2, <4>3 DEF Merging
        <5>3. QED
          BY <3>1, <5>1, <5>2 DEF Classify
      <4>4. CASE Category[s] = Category[t]
        <5>1. ~Conflicted(U)
          BY <3>1, <3>4, <4>4 DEF Conflicted
        <5>2. Merging(own, sighting) = IF Wins(s, t) THEN own ELSE sighting
          <6>1. Confidence[s] \in {0, 1} /\ Confidence[t] \in {0, 1} /\ s \in Nat /\ t \in Nat
            BY <2>1, RegistryFacts
          <6>2. Merging(own, sighting) =
                  IF Confidence[t] # Confidence[s]
                    THEN IF Confidence[t] > Confidence[s] THEN sighting ELSE own
                  ELSE IF t < s THEN sighting ELSE own
            BY <2>1, <2>2, <2>5, <3>4, <4>2, <4>4 DEF Merging
          <6>3. QED
            BY <6>1, <6>2 DEF Wins
        <5>3. CASE Wins(s, t)
          <6>1. \A q \in Contenders(U) : Wins(s, q)
            BY <1>3, <2>1, <3>1, <5>3, WinnerFacts, WinsOrder DEF Contenders
          <6>2. Winner(U) = s
            BY <3>1, <6>1, WinnerUnique
          <6>3. QED
            BY <3>1, <4>1, <5>1, <5>2, <5>3, <6>2 DEF Classify
        <5>4. CASE ~Wins(s, t)
          <6>0. Wins(t, s)
            BY <2>1, <5>4, WinsOrder
          <6>1. \A q \in Contenders(U) : Wins(t, q)
            BY <1>3, <2>1, <3>1, <6>0, WinnerFacts, WinsOrder DEF Contenders
          <6>2. Winner(U) = t
            BY <3>1, <6>1, WinnerUnique
          <6>3. QED
            BY <3>1, <4>1, <5>1, <5>2, <5>4, <6>2 DEF Classify
        <5>5. QED
          BY <5>3, <5>4
      <4>5. QED
        BY <4>3, <4>4
    <3>5. QED
      BY <3>2, <3>3, <3>4
  <2>6. QED
    BY <2>1, <2>3, <2>4, <2>5
<1>4. QED
  BY <1>1, <1>2, <1>3

-----------------------------------------------------------------------------

Outcomes == {Absent} \cup {Classify(S) : S \in SUBSET Rules}

\* What is held for the peripherals is an outcome of the classifier.
Held ==
  /\ outcomes \in [Peripherals -> Outcomes]
  /\ heard \in [Peripherals -> SUBSET Rules]

VerdictInv == Held /\ VerdictOfAllHeard

\* Only a sighting changes what is held; a discarded session and a new process
\* start from nothing.
LEMMA StepsOfOutcomes ==
  ASSUME [Next]_vars
  PROVE  \/ UNCHANGED counters
         \/ FreshCounters
         \/ \E p \in Peripherals, S \in SUBSET Rules : Record(p, S)
<1>1. CASE UNCHANGED vars
  BY <1>1 DEF vars, session, counters
<1>2. CASE Acknowledge \/ CancelPendingStart \/ StartUncleared \/ DiscardUncleared
           \/ Export \/ ExportFails \/ RadioMoves \/ ClockMoves
  BY <1>2 DEF Acknowledge, CancelPendingStart, StartUncleared, DiscardUncleared, Export,
              ExportFails, RadioMoves, ClockMoves, session, counters
<1>3. CASE Start \/ Pause \/ Resume \/ Stop \/ Activate
  BY <1>3 DEF Start, Pause, Resume, Stop, Activate, Interrupt
<1>4. CASE DiscardResult \/ StartNewSession \/ Relaunch
  BY <1>4 DEF DiscardResult, StartNewSession, Relaunch
<1>5. CASE Deactivate \/ DidUpdateState
  BY <1>5 DEF Deactivate, DidUpdateState, LosesRadio, RadioAnswers, Holds, Interrupt,
              session, counters
<1>6. QED
  BY <1>1, <1>2, <1>3, <1>4, <1>5 DEF Next, Sightings

\* The outcome that a sighting leaves is the verdict of everything heard.
LEMMA VerdictIs ==
  ASSUME VerdictInv, NEW p \in Peripherals, NEW S \in SUBSET Rules,
         ~(outcomes[p] = Absent /\ Cardinality(Retained) >= AdvertiserLimit)
  PROVE  /\ Verdict(outcomes[p], Classify(S)) = Classify(heard[p] \cup S)
         /\ Verdict(outcomes[p], Classify(S)) # Absent
<1> USE DEF VerdictInv, Held
<1>1. CASE outcomes[p] = Absent
  <2>1. p \in Peripherals \ Retained
    BY <1>1 DEF Retained
  <2>2. heard[p] = {}
    BY <1>1, <2>1 DEF VerdictOfAllHeard
  <2>3. QED
    BY <1>1, <2>2, ClassifyFields DEF Verdict, Absent, Unmatched
<1>2. CASE outcomes[p] # Absent
  <2>1. outcomes[p] = Classify(heard[p]) /\ heard[p] \in SUBSET Rules
    BY <1>2 DEF Retained, VerdictOfAllHeard
  <2>2. Verdict(outcomes[p], Classify(S)) = Classify(heard[p] \cup S)
    BY <1>2, <2>1, MergingIsClassification DEF Verdict
  <2>3. heard[p] \cup S \in SUBSET Rules
    BY <2>1
  <2>4. QED
    BY <2>2, <2>3, ClassifyFields DEF Absent, Unmatched
<1>3. QED
  BY <1>1, <1>2

\* A sighting keeps the verdicts: of a peripheral that is retained, of one that
\* is now, and of one that is dropped.
LEMMA RecordKeepsVerdicts ==
  ASSUME VerdictInv, NEW p \in Peripherals, NEW S \in SUBSET Rules, Record(p, S)
  PROVE  VerdictInv'
<1> USE DEF VerdictInv, Held
<1>1. /\ heard' = [heard EXCEPT ![p] = heard[p] \cup S]
      /\ heard' \in [Peripherals -> SUBSET Rules]
  BY DEF Record
<1>2. \A T \in SUBSET Rules : Classify(T) # Absent
  BY ClassifyFields DEF Absent, Unmatched
<1>3. CASE outcomes[p] = Absent /\ Cardinality(Retained) >= AdvertiserLimit
  <2>1. outcomes' = outcomes /\ Retained' = Retained
    BY <1>3 DEF Record, Retained
  <2>2. p \notin Retained
    BY <1>3 DEF Retained
  <2>3. \A q \in Retained : heard'[q] = heard[q]
    BY <1>1, <2>2 DEF Retained
  <2>4. QED
    BY <1>1, <1>3, <2>1, <2>2, <2>3 DEF VerdictOfAllHeard
<1>4. CASE ~(outcomes[p] = Absent /\ Cardinality(Retained) >= AdvertiserLimit)
  <2>1. outcomes' = [outcomes EXCEPT ![p] = Verdict(outcomes[p], Classify(S))]
    BY <1>4 DEF Record
  <2>2. Verdict(outcomes[p], Classify(S)) = Classify(heard[p] \cup S)
    BY <1>4, VerdictIs
  <2>3. heard[p] \cup S \in SUBSET Rules
    OBVIOUS
  <2>4. /\ outcomes' \in [Peripherals -> Outcomes]
        /\ outcomes'[p] = Classify(heard'[p])
        /\ outcomes'[p] # Absent
    BY <1>1, <1>2, <2>1, <2>2, <2>3 DEF Outcomes
  <2>5. \A q \in Peripherals \ {p} : outcomes'[q] = outcomes[q] /\ heard'[q] = heard[q]
    BY <1>1, <2>1
  <2>6. Retained' = Retained \cup {p}
    BY <2>4, <2>5 DEF Retained
  <2>7. \A q \in Retained' : outcomes'[q] = Classify(heard'[q])
    BY <2>4, <2>5, <2>6 DEF VerdictOfAllHeard, Retained
  <2>8. ASSUME NEW q \in Peripherals \ Retained', heard'[q] # {}
        PROVE  Cardinality(Retained') >= AdvertiserLimit
    <3>1. q \in Peripherals \ Retained /\ q # p /\ heard[q] # {}
      BY <2>5, <2>6, <2>8
    <3>2. Cardinality(Retained) >= AdvertiserLimit
      BY <3>1 DEF VerdictOfAllHeard
    <3>3. Retained' = Retained
      BY <1>4, <2>6, <3>2 DEF Retained
    <3>4. QED
      BY <3>2, <3>3
  <2>9. QED
    BY <1>1, <2>4, <2>7, <2>8 DEF VerdictOfAllHeard
<1>5. QED
  BY <1>3, <1>4

\* Every step of the app keeps the verdicts.
LEMMA VerdictStep == VerdictInv /\ [Next]_vars => VerdictInv'
<1> SUFFICES ASSUME VerdictInv, [Next]_vars PROVE VerdictInv'
  OBVIOUS
<1>1. CASE UNCHANGED counters
  BY <1>1 DEF counters, VerdictInv, Held, VerdictOfAllHeard, Retained
<1>2. CASE FreshCounters
  BY <1>2 DEF FreshCounters, VerdictInv, Held, Outcomes, VerdictOfAllHeard, Retained
<1>3. CASE \E p \in Peripherals, S \in SUBSET Rules : Record(p, S)
  BY <1>3, RecordKeepsVerdicts
<1>4. QED
  BY <1>1, <1>2, <1>3, StepsOfOutcomes

\* However its advertisements were grouped and ordered, an advertiser holds the
\* classification of everything heard from it in the session, and only a full
\* session drops one (SessionAccumulator.record).
THEOREM VerdictsIndependentOfOrder == Spec => []VerdictOfAllHeard
<1>1. Init => VerdictInv
  BY DEF Init, VerdictInv, Held, Outcomes, VerdictOfAllHeard, Retained
<1>2. QED
  BY <1>1, VerdictStep, PTL DEF Spec, VerdictInv

-----------------------------------------------------------------------------

\* What ControllerHonest needs to be inductive: which of its two reasons a
\* scanning session has, a pending Start in an inactive scene, and the limits
\* of the interruption counter.
Honesty ==
  /\ shown = state
  /\ ticking = (state = "scanning")
  /\ state = "scanning" => active /\ ~awaiting /\ interruptions < MaxInterruptions
  /\ state = "scanning" /\ radio = "on" => isScanning
  /\ state = "scanning" /\ radio # "on" => undelivered
  /\ isScanning => state = "scanning"
  /\ awaiting => state = "idle"
  /\ awaiting /\ radio = "off" => undelivered
  /\ awaiting /\ radio = "on" /\ active => undelivered
  /\ radio # "unknown" => hasCentral
  /\ state = "idle" => interruptions = 0

HonestInv == TypeOK /\ Honesty

\* Every outcome of the classifier is a well-formed one.
LEMMA OutcomesTyped == Outcomes \subseteq Outcome
<1>1. Absent \in Outcome /\ Unmatched \in Outcome
  BY DEF Absent, Unmatched, Outcome, Categories, NoRule, NoPriority
<1>2. ASSUME NEW S \in SUBSET Rules PROVE Classify(S) \in Outcome
  <2>1. CASE S = {}
    BY <1>1, <2>1 DEF Classify
  <2>2. CASE S # {}
    <3>1. Winner(S) \in Rules
      BY <2>2, ClassifyFields
    <3> DEFINE w == Winner(S)
    <3>2. Priority[w] \in Nat /\ Confidence[w] \in {0, 1} /\ Category[w] \in Categories
      BY <3>1, RegistryFacts
    <3>3. Ambiguous(Priority[w]) \in Outcome
      BY <3>2 DEF Ambiguous, Outcome, Categories
    <3>4. Matched(Winner(S)) \in Outcome
      BY <3>1, <3>2 DEF Matched, Outcome
    <3>5. QED
      BY <2>2, <3>3, <3>4 DEF Classify
  <2>3. QED
    BY <2>1, <2>2
<1>3. QED
  BY <1>1, <1>2 DEF Outcomes

\* Closing and opening segments keeps the durations natural numbers.
LEMMA SegmentsTyped ==
  ASSUME TypeOK
  PROVE  /\ OpenSegmentTicks \in Nat
         /\ CloseSegment => wall' \in Nat /\ foreground' \in Nat
         /\ \A b \in BOOLEAN : OpenSegment(b) =>
              segment' \in 0 .. MaxClock \cup {NoSegment} /\ scanningSegment' \in BOOLEAN
<1>1. OpenSegmentTicks \in Nat
  BY BoundsAssumption DEF TypeOK, SessionTypeOK, OpenSegmentTicks, NoSegment
<1>2. CloseSegment => wall' \in Nat /\ foreground' \in Nat
  BY <1>1 DEF CloseSegment, TypeOK, SessionTypeOK
<1>3. QED
  BY <1>1, <1>2 DEF TypeOK, SessionTypeOK, OpenSegment

\* Counting an outcome in or out keeps the counters integers.
LEMMA ApplyTyped ==
  ASSUME TypeOK, NEW was, NEW is, Apply(was, is)
  PROVE  categoryCounts' \in [Categories -> Int] /\ ruleCounts' \in [Rules -> Int]
<1>1. \A h, w, i : Delta(h, w, i) \in Int
  BY DEF Delta
<1>2. QED
  BY <1>1 DEF TypeOK, SessionTypeOK, Apply

LEMMA FreshTyped ==
  ASSUME FreshCounters
  PROVE  /\ categoryCounts' \in [Categories -> Int] /\ ruleCounts' \in [Rules -> Int]
         /\ uncounted' \in 0 .. MaxUncounted /\ interruptions' = 0
         /\ interruptions' \in 0 .. MaxInterruptions
BY BoundsAssumption DEF FreshCounters

\* What beginSession leaves, when the radio was read as ready.
LEMMA BeginFacts ==
  ASSUME TypeOK, NEW now \in Radio, NEW pending \in BOOLEAN, NEW scanning \in BOOLEAN,
         radio = "on", BeginSession(now, pending, scanning)
  PROVE  /\ state' = "scanning" /\ shown' = "scanning"
         /\ ticking' = TRUE /\ awaiting' = FALSE
         /\ wall' \in Nat /\ foreground' \in Nat
         /\ segment' \in 0 .. MaxClock \cup {NoSegment} /\ scanningSegment' \in BOOLEAN
         /\ radio' \in Radio /\ isScanning' \in BOOLEAN /\ undelivered' \in BOOLEAN
         /\ radio' = "on" => isScanning'
         /\ radio' # "on" => undelivered'
<1>1. /\ state' = "scanning" /\ shown' = "scanning" /\ ticking' = TRUE /\ awaiting' = FALSE
      /\ wall' \in Nat /\ foreground' \in Nat
  BY DEF BeginSession, Refresh
<1>2. segment' \in 0 .. MaxClock \cup {NoSegment} /\ scanningSegment' \in BOOLEAN
  BY SegmentsTyped DEF BeginSession
<1>3. /\ radio' = now /\ isScanning' = (scanning \/ now = "on")
      /\ undelivered' = (pending \/ now # radio)
  BY DEF BeginSession, Drift
<1>4. QED
  BY <1>1, <1>2, <1>3

\* What interrupting a scanning session leaves.
LEMMA InterruptFacts ==
  ASSUME HonestInv, state = "scanning", Interrupt
  PROVE  /\ state' = "interrupted" /\ shown' = "interrupted"
         /\ ticking' = FALSE /\ isScanning' = FALSE
         /\ wall' \in Nat /\ foreground' \in Nat
         /\ segment' \in 0 .. MaxClock \cup {NoSegment} /\ scanningSegment' \in BOOLEAN
         /\ interruptions' \in 0 .. MaxInterruptions
         /\ UNCHANGED <<categoryCounts, ruleCounts, uncounted>>
<1>1. /\ state' = "interrupted" /\ shown' = "interrupted"
      /\ ticking' = FALSE /\ isScanning' = FALSE
      /\ UNCHANGED <<categoryCounts, ruleCounts, uncounted>>
  BY DEF Interrupt, Refresh, counters
<1>2. wall' \in Nat /\ foreground' \in Nat
  BY SegmentsTyped DEF HonestInv, Interrupt
<1>3. segment' \in 0 .. MaxClock \cup {NoSegment} /\ scanningSegment' \in BOOLEAN
  BY SegmentsTyped DEF HonestInv, Interrupt
<1>4. interruptions' \in 0 .. MaxInterruptions
  BY BoundsAssumption DEF HonestInv, TypeOK, SessionTypeOK, Honesty, Interrupt
<1>5. QED
  BY <1>1, <1>2, <1>3, <1>4

\* Each action keeps the inductive invariant of the screen.
LEMMA HonestStep ==
  ASSUME HonestInv, VerdictInv', [Next]_vars
  PROVE  HonestInv'
<1>0. /\ outcomes' \in [Peripherals -> Outcome]
      /\ heard' \in [Peripherals -> SUBSET Rules]
  BY OutcomesTyped DEF VerdictInv, Held
<1> USE <1>0, BoundsAssumption DEF HonestInv, TypeOK, States, Radio, Files, NoSegment
<1>s. state \in States
  BY DEF SessionTypeOK
<1>1. CASE UNCHANGED vars
  BY <1>1 DEF vars, session, counters, segments, screen, bluetooth, export, Honesty,
              SessionTypeOK, ControllerTypeOK
<1>2. ASSUME NEW p \in Peripherals, NEW S \in SUBSET Rules, Record(p, S)
      PROVE  HonestInv'
  <2>1. categoryCounts' \in [Categories -> Int] /\ ruleCounts' \in [Rules -> Int]
    BY <1>2, ApplyTyped DEF Record, SessionTypeOK
  <2>2. uncounted' \in 0 .. MaxUncounted
    BY <1>2 DEF Record, SessionTypeOK
  <2>3. SessionTypeOK'
    BY <1>2, <2>1, <2>2 DEF Record, segments, SessionTypeOK
  <2>4. ControllerTypeOK' /\ Honesty'
    BY <1>2 DEF Record, segments, screen, bluetooth, export, ControllerTypeOK, Honesty
  <2>5. QED
    BY <2>3, <2>4
<1>3. CASE Acknowledge
  <2>1. SessionTypeOK'
    BY <1>3, SegmentsTyped, FreshTyped DEF Acknowledge, session, counters, segments, screen,
       bluetooth, export, SessionTypeOK
  <2>2. ControllerTypeOK'
    BY <1>3 DEF Acknowledge, session, counters, segments, screen, bluetooth, export,
       SessionTypeOK, ControllerTypeOK
  <2>3. Honesty'
    BY <1>3, FreshTyped DEF Acknowledge, session, counters, segments, screen, bluetooth,
       export, Honesty
  <2>4. QED
    BY <2>1, <2>2, <2>3
<1>4. CASE Start
  <2>0. /\ UNCHANGED <<categoryCounts, ruleCounts, uncounted, interruptions, clock,
                       acknowledged, active>>
        /\ cached' = "none" /\ exportURL' = "none" /\ exportFailure' = FALSE
        /\ state = "idle" /\ active
    BY <1>4 DEF Start, MayStart, Cleared, counters
  <2>1. CASE AwaitRadio(shown, isScanning)
    <3>1. UNCHANGED segments /\ UNCHANGED <<radio, undelivered, availability, isScanning>>
      BY <1>4, <2>1 DEF Start, AwaitRadio
    <3>2. /\ hasCentral' = TRUE /\ awaiting' = TRUE /\ state' = "idle" /\ shown' = shown
          /\ ticking' = FALSE /\ (~hasCentral \/ radio = "unknown")
      BY <2>1 DEF AwaitRadio
    <3>3. SessionTypeOK'
      BY <2>0, <3>1, <3>2 DEF SessionTypeOK, segments
    <3>4. ControllerTypeOK'
      BY <2>0, <3>1, <3>2 DEF ControllerTypeOK
    <3>5. Honesty'
      BY <2>0, <3>1, <3>2 DEF Honesty
    <3>6. QED
      BY <3>3, <3>4, <3>5
  <2>2. CASE RefuseStart(isScanning)
    <3>1. /\ UNCHANGED segments /\ UNCHANGED <<radio, undelivered, hasCentral, isScanning>>
          /\ availability' = radio
      BY <1>4, <2>2 DEF Start, RefuseStart
    <3>2. /\ awaiting' = FALSE /\ state' = "idle" /\ shown' = "idle" /\ ticking' = FALSE
          /\ hasCentral
      BY <2>2 DEF RefuseStart, Refresh
    <3>3. SessionTypeOK'
      BY <2>0, <3>1, <3>2 DEF SessionTypeOK, segments
    <3>4. ControllerTypeOK'
      BY <2>0, <3>1, <3>2 DEF ControllerTypeOK
    <3>5. Honesty'
      BY <2>0, <3>1, <3>2 DEF Honesty
    <3>6. QED
      BY <3>3, <3>4, <3>5
  <2>3. CASE StartNow(isScanning)
    <3>1. PICK now \in Radio : BeginSession(now, undelivered, isScanning)
      BY <2>3 DEF StartNow
    <3>2. radio = "on" /\ hasCentral /\ hasCentral' = hasCentral /\ availability' = radio
      BY <2>3 DEF StartNow
    <3> HIDE DEF Radio
    <3>3. undelivered \in BOOLEAN /\ isScanning \in BOOLEAN
      BY DEF ControllerTypeOK
    <3> DEFINE Begun == /\ state' = "scanning" /\ shown' = "scanning"
                        /\ ticking' = TRUE /\ awaiting' = FALSE
                        /\ radio' \in Radio /\ isScanning' \in BOOLEAN
                        /\ undelivered' \in BOOLEAN
                        /\ radio' = "on" => isScanning'
                        /\ radio' # "on" => undelivered'
               Timed == /\ wall' \in Nat /\ foreground' \in Nat
                        /\ segment' \in 0 .. MaxClock \cup {NoSegment}
                        /\ scanningSegment' \in BOOLEAN
    <3>4. Begun /\ Timed
      BY <3>1, <3>2, <3>3, BeginFacts
    <3> HIDE DEF Begun, Timed
    <3>5. SessionTypeOK'
      BY <2>0, <3>4 DEF SessionTypeOK, Begun, Timed
    <3>6. ControllerTypeOK'
      BY <2>0, <3>2, <3>4 DEF ControllerTypeOK, Begun
    <3>7. Honesty'
      <4>1. interruptions' < MaxInterruptions
        BY <2>0 DEF Honesty, SessionTypeOK
      <4>2. QED
        BY <2>0, <3>2, <3>4, <4>1 DEF Honesty, Begun
    <3>8. QED
      BY <3>5, <3>6, <3>7
  <2>4. QED
    BY <1>4, <2>1, <2>2, <2>3 DEF Start, Starting
<1>5. CASE StartUncleared
  <2>1. SessionTypeOK'
    BY <1>5, SegmentsTyped, FreshTyped DEF StartUncleared, ClearFails, session, counters,
       segments, screen, bluetooth, SessionTypeOK
  <2>2. ControllerTypeOK'
    BY <1>5 DEF StartUncleared, ClearFails, session, counters, segments, screen, bluetooth,
       SessionTypeOK, ControllerTypeOK
  <2>3. Honesty'
    BY <1>5, FreshTyped DEF StartUncleared, ClearFails, session, counters, segments, screen,
       bluetooth, Honesty
  <2>4. QED
    BY <2>1, <2>2, <2>3
<1>6. CASE CancelPendingStart
  <2>0. /\ UNCHANGED <<state, categoryCounts, ruleCounts, uncounted, interruptions>>
        /\ UNCHANGED <<segment, scanningSegment, wall, foreground, clock>>
        /\ UNCHANGED <<acknowledged, active, availability, ticking>>
        /\ UNCHANGED <<hasCentral, radio, isScanning, undelivered>>
        /\ UNCHANGED <<cached, exportURL, exportFailure>>
        /\ awaiting' = FALSE /\ shown' = state
    BY <1>6 DEF CancelPendingStart, Refresh, session, counters, segments, bluetooth, export
  <2>1. SessionTypeOK'
    BY <2>0 DEF SessionTypeOK
  <2>2. ControllerTypeOK'
    <3>1. shown' \in States /\ cached' \in Files /\ radio' \in Radio /\ availability' \in Radio
      BY <1>s, <2>0 DEF ControllerTypeOK
    <3> HIDE DEF States, Files, Radio
    <3>2. QED
      BY <1>s, <2>0, <3>1 DEF ControllerTypeOK
  <2>3. Honesty'
    BY <2>0 DEF Honesty
  <2>4. QED
    BY <2>1, <2>2, <2>3
<1>7. CASE Pause
  <2>a. state = "scanning" /\ Interrupt
    BY <1>7 DEF Pause
  <2>b. /\ state' = "interrupted" /\ shown' = "interrupted"
        /\ ticking' = FALSE /\ isScanning' = FALSE
        /\ wall' \in Nat /\ foreground' \in Nat
        /\ segment' \in 0 .. MaxClock \cup {NoSegment} /\ scanningSegment' \in BOOLEAN
        /\ interruptions' \in 0 .. MaxInterruptions
        /\ UNCHANGED <<categoryCounts, ruleCounts, uncounted>>
    BY <2>a, InterruptFacts
  <2>c. /\ UNCHANGED <<clock, acknowledged, active, awaiting, availability>>
        /\ UNCHANGED <<hasCentral, radio, undelivered, cached, exportURL, exportFailure>>
    BY <1>7 DEF Pause, export
  <2>1. SessionTypeOK'
    BY <2>a, <2>b, <2>c DEF SessionTypeOK
  <2>2. ControllerTypeOK'
    <3>1. shown' \in States /\ cached' \in Files /\ radio' \in Radio /\ availability' \in Radio
      BY <1>s, <2>a, <2>b, <2>c DEF ControllerTypeOK
    <3> HIDE DEF States, Files, Radio
    <3>2. QED
      BY <1>s, <2>a, <2>b, <2>c, <3>1 DEF ControllerTypeOK
  <2>3. Honesty'
    BY <2>a, <2>b, <2>c DEF Honesty
  <2>4. QED
    BY <2>1, <2>2, <2>3
<1>8. CASE Resume
  <2>1. SessionTypeOK'
    BY <1>8, SegmentsTyped, FreshTyped DEF Resume, Drift, Refresh, counters, export,
       SessionTypeOK
  <2>2. ControllerTypeOK'
    BY <1>8 DEF Resume, Drift, Refresh, counters, export, SessionTypeOK, ControllerTypeOK
  <2>3. Honesty'
    BY <1>8, FreshTyped DEF Resume, Drift, Refresh, counters, export, Honesty
  <2>4. QED
    BY <2>1, <2>2, <2>3
<1>9. CASE Stop
  <2>1. SessionTypeOK'
    BY <1>9, SegmentsTyped, FreshTyped DEF Stop, Refresh, counters, export, SessionTypeOK,
       Outcome
  <2>2. ControllerTypeOK'
    BY <1>9, ZenonT(90) DEF Stop, Refresh, counters, export, SessionTypeOK, ControllerTypeOK
  <2>3. Honesty'
    BY <1>9, FreshTyped DEF Stop, Refresh, counters, export, Honesty
  <2>4. QED
    BY <2>1, <2>2, <2>3
<1>10. CASE DiscardResult
  <2>1. SessionTypeOK'
    BY <1>10, SegmentsTyped, FreshTyped DEF DiscardResult, Cleared, FreshSegments, Refresh,
       SessionTypeOK
  <2>2. ControllerTypeOK'
    BY <1>10 DEF DiscardResult, Cleared, FreshSegments, Refresh, SessionTypeOK,
       ControllerTypeOK
  <2>3. Honesty'
    BY <1>10, FreshTyped DEF DiscardResult, Cleared, FreshSegments, Refresh, Honesty
  <2>4. QED
    BY <2>1, <2>2, <2>3
<1>11. CASE DiscardUncleared
  <2>0. /\ UNCHANGED <<state, categoryCounts, ruleCounts, uncounted, interruptions>>
        /\ UNCHANGED <<segment, scanningSegment, wall, foreground, clock>>
        /\ UNCHANGED <<acknowledged, active, awaiting, availability>>
        /\ UNCHANGED <<hasCentral, radio, undelivered, exportURL>>
        /\ cached' \in {cached, "empty"} /\ exportFailure' = TRUE
        /\ isScanning' = FALSE /\ ticking' = FALSE /\ shown' = state /\ shown = "finished"
    BY <1>11 DEF DiscardUncleared, ClearFails, Refresh, session, counters, segments
  <2>1. SessionTypeOK'
    BY <2>0 DEF SessionTypeOK
  <2>2. ControllerTypeOK'
    <3>1. shown' \in States /\ cached' \in Files /\ radio' \in Radio /\ availability' \in Radio
      BY <1>s, <2>0 DEF ControllerTypeOK
    <3> HIDE DEF States, Files, Radio
    <3>2. QED
      BY <1>s, <2>0, <3>1 DEF ControllerTypeOK
  <2>3. Honesty'
    BY <2>0 DEF Honesty
  <2>4. QED
    BY <2>1, <2>2, <2>3
<1>12. CASE StartNewSession
  <2>0. /\ categoryCounts' \in [Categories -> Int] /\ ruleCounts' \in [Rules -> Int]
        /\ uncounted' \in 0 .. MaxUncounted /\ interruptions' = 0
        /\ UNCHANGED <<clock, acknowledged, active>>
        /\ cached' = "none" /\ exportURL' = "none" /\ exportFailure' = FALSE
        /\ state = "finished" /\ active
    BY <1>12, FreshTyped DEF StartNewSession, Cleared, Honesty
  <2>1. CASE AwaitRadio("idle", FALSE)
    <3>1. FreshSegments /\ UNCHANGED <<radio, undelivered, availability>>
      BY <1>12, <2>1 DEF StartNewSession, AwaitRadio
    <3>2. /\ hasCentral' = TRUE /\ awaiting' = TRUE /\ state' = "idle" /\ shown' = "idle"
          /\ isScanning' = FALSE
          /\ ticking' = FALSE /\ (~hasCentral \/ radio = "unknown")
      BY <2>1 DEF AwaitRadio
    <3>3. SessionTypeOK'
      <4>1. /\ interruptions' \in 0 .. MaxInterruptions /\ clock' \in 0 .. MaxClock
            /\ wall' \in Nat /\ foreground' \in Nat
        BY <2>0, <3>1 DEF SessionTypeOK, FreshSegments
      <4>2. QED
        BY <2>0, <3>1, <3>2, <4>1 DEF SessionTypeOK, FreshSegments
    <3>4. ControllerTypeOK'
      BY <2>0, <3>1, <3>2 DEF ControllerTypeOK
    <3>5. Honesty'
      BY <2>0, <3>1, <3>2 DEF Honesty
    <3>6. QED
      BY <3>3, <3>4, <3>5
  <2>2. CASE RefuseStart(FALSE)
    <3>1. /\ FreshSegments /\ UNCHANGED <<radio, undelivered, hasCentral>>
          /\ availability' = radio
      BY <1>12, <2>2 DEF StartNewSession, RefuseStart
    <3>2. /\ awaiting' = FALSE /\ state' = "idle" /\ shown' = "idle" /\ ticking' = FALSE
          /\ hasCentral /\ isScanning' = FALSE
      BY <2>2 DEF RefuseStart, Refresh
    <3>3. SessionTypeOK'
      <4>1. /\ interruptions' \in 0 .. MaxInterruptions /\ clock' \in 0 .. MaxClock
            /\ wall' \in Nat /\ foreground' \in Nat
        BY <2>0, <3>1 DEF SessionTypeOK, FreshSegments
      <4>2. QED
        BY <2>0, <3>1, <3>2, <4>1 DEF SessionTypeOK, FreshSegments
    <3>4. ControllerTypeOK'
      BY <2>0, <3>1, <3>2 DEF ControllerTypeOK
    <3>5. Honesty'
      BY <2>0, <3>1, <3>2 DEF Honesty
    <3>6. QED
      BY <3>3, <3>4, <3>5
  <2>3. CASE StartNow(FALSE)
    <3>1. PICK now \in Radio : BeginSession(now, undelivered, FALSE)
      BY <2>3 DEF StartNow
    <3>2. radio = "on" /\ hasCentral /\ hasCentral' = hasCentral /\ availability' = radio
      BY <2>3 DEF StartNow
    <3> HIDE DEF Radio
    <3>3. undelivered \in BOOLEAN
      BY DEF ControllerTypeOK
    <3> DEFINE Begun == /\ state' = "scanning" /\ shown' = "scanning"
                        /\ ticking' = TRUE /\ awaiting' = FALSE
                        /\ radio' \in Radio /\ isScanning' \in BOOLEAN
                        /\ undelivered' \in BOOLEAN
                        /\ radio' = "on" => isScanning'
                        /\ radio' # "on" => undelivered'
               Timed == /\ wall' \in Nat /\ foreground' \in Nat
                        /\ segment' \in 0 .. MaxClock \cup {NoSegment}
                        /\ scanningSegment' \in BOOLEAN
    <3>4. Begun /\ Timed
      BY <3>1, <3>2, <3>3, BeginFacts
    <3> HIDE DEF Begun, Timed
    <3>5. SessionTypeOK'
      BY <2>0, <3>4 DEF SessionTypeOK, Begun, Timed
    <3>6. ControllerTypeOK'
      BY <2>0, <3>2, <3>4 DEF ControllerTypeOK, Begun
    <3>7. Honesty'
      <4>1. interruptions' < MaxInterruptions
        BY <2>0 DEF Honesty, SessionTypeOK
      <4>2. QED
        BY <2>0, <3>2, <3>4, <4>1 DEF Honesty, Begun
    <3>8. QED
      BY <3>5, <3>6, <3>7
  <2>4. QED
    BY <1>12, <2>1, <2>2, <2>3 DEF StartNewSession, Starting
<1>13. CASE Export
  <2>1. SessionTypeOK'
    BY <1>13, SegmentsTyped, FreshTyped DEF Export, session, counters, segments, screen,
       bluetooth, SessionTypeOK
  <2>2. ControllerTypeOK'
    BY <1>13, ZenonT(90) DEF Export, session, counters, segments, screen, bluetooth, SessionTypeOK,
       ControllerTypeOK
  <2>3. Honesty'
    BY <1>13, FreshTyped DEF Export, session, counters, segments, screen, bluetooth, Honesty
  <2>4. QED
    BY <2>1, <2>2, <2>3
<1>14. CASE ExportFails
  <2>1. SessionTypeOK'
    BY <1>14, SegmentsTyped, FreshTyped DEF ExportFails, session, counters, segments,
       screen, bluetooth, SessionTypeOK
  <2>2. ControllerTypeOK'
    BY <1>14 DEF ExportFails, session, counters, segments, screen, bluetooth, SessionTypeOK,
       ControllerTypeOK
  <2>3. Honesty'
    BY <1>14, FreshTyped DEF ExportFails, session, counters, segments, screen, bluetooth,
       Honesty
  <2>4. QED
    BY <2>1, <2>2, <2>3
<1>15. CASE Activate
  <2>0. /\ UNCHANGED <<categoryCounts, ruleCounts, uncounted, interruptions, clock>>
        /\ UNCHANGED <<acknowledged, availability, hasCentral>>
        /\ active' = TRUE /\ ~active
    BY <1>15 DEF Activate, counters
  <2>1. CASE awaiting /\ hasCentral /\ radio = "on" /\ state = "idle"
    <3>1. PICK now \in Radio : BeginSession(now, undelivered, isScanning)
      BY <1>15, <2>1 DEF Activate
    <3>2. undelivered \in BOOLEAN /\ isScanning \in BOOLEAN
      BY DEF ControllerTypeOK
    <3>3. /\ cached' = Renamed(cached) /\ exportURL' = Renamed(exportURL)
          /\ exportFailure' = exportFailure
      BY <1>15, <2>1 DEF Activate, NewIdentifier
    <3> HIDE DEF Radio
    <3> DEFINE Begun == /\ state' = "scanning" /\ shown' = "scanning"
                        /\ ticking' = TRUE /\ awaiting' = FALSE
                        /\ radio' \in Radio /\ isScanning' \in BOOLEAN
                        /\ undelivered' \in BOOLEAN
                        /\ radio' = "on" => isScanning'
                        /\ radio' # "on" => undelivered'
               Timed == /\ wall' \in Nat /\ foreground' \in Nat
                        /\ segment' \in 0 .. MaxClock \cup {NoSegment}
                        /\ scanningSegment' \in BOOLEAN
    <3>4. Begun /\ Timed
      BY <2>1, <3>1, <3>2, BeginFacts
    <3> HIDE DEF Begun, Timed
    <3>5. SessionTypeOK'
      BY <2>0, <3>4 DEF SessionTypeOK, Begun, Timed
    <3>6. ControllerTypeOK'
      BY <2>0, <3>3, <3>4 DEF ControllerTypeOK, Begun, Renamed
    <3>7. Honesty'
      <4>1. interruptions' < MaxInterruptions
        BY <2>0, <2>1 DEF Honesty, SessionTypeOK
      <4>2. QED
        BY <2>0, <2>1, <3>4, <4>1 DEF Honesty, Begun
    <3>8. QED
      BY <3>5, <3>6, <3>7
  <2>2. CASE ~(awaiting /\ hasCentral /\ radio = "on" /\ state = "idle")
    <3>a. /\ UNCHANGED <<state, segment, scanningSegment, wall, foreground>>
          /\ UNCHANGED <<awaiting, ticking, radio, isScanning, undelivered>>
          /\ UNCHANGED <<cached, exportURL, exportFailure>> /\ shown' = state
      BY <1>15, <2>2 DEF Activate, Refresh, segments, export
    <3>1. SessionTypeOK'
      BY <2>0, <2>2, <3>a DEF SessionTypeOK
    <3>2. ControllerTypeOK'
      BY <1>s, <2>0, <2>2, <3>a DEF ControllerTypeOK
    <3>3. Honesty'
      BY <2>0, <2>2, <3>a DEF Honesty
    <3>4. QED
      BY <3>1, <3>2, <3>3
  <2>3. QED
    BY <2>1, <2>2
<1>16. CASE Deactivate
  <2>0. /\ UNCHANGED <<clock, acknowledged, awaiting, availability>>
        /\ UNCHANGED <<hasCentral, radio, undelivered, cached, exportURL, exportFailure>>
        /\ active' = FALSE
    BY <1>16 DEF Deactivate, export
  <2>1. CASE state = "scanning"
    <3>a. Interrupt
      BY <1>16, <2>1 DEF Deactivate
    <3>b. /\ state' = "interrupted" /\ shown' = "interrupted"
          /\ ticking' = FALSE /\ isScanning' = FALSE
          /\ wall' \in Nat /\ foreground' \in Nat
          /\ segment' \in 0 .. MaxClock \cup {NoSegment} /\ scanningSegment' \in BOOLEAN
          /\ interruptions' \in 0 .. MaxInterruptions
          /\ UNCHANGED <<categoryCounts, ruleCounts, uncounted>>
      BY <2>1, <3>a, InterruptFacts
    <3>1. SessionTypeOK'
      BY <2>0, <2>1, <3>b DEF SessionTypeOK
    <3>2. ControllerTypeOK'
      BY <1>s, <2>0, <2>1, <3>b, ZenonT(90) DEF ControllerTypeOK
    <3>3. Honesty'
      BY <2>0, <2>1, <3>b DEF Honesty
    <3>4. QED
      BY <3>1, <3>2, <3>3
  <2>2. CASE state # "scanning"
    <3>a. /\ UNCHANGED <<state, categoryCounts, ruleCounts, uncounted, interruptions>>
          /\ UNCHANGED <<segment, scanningSegment, wall, foreground>>
          /\ UNCHANGED <<shown, ticking, isScanning>>
      BY <1>16, <2>2 DEF Deactivate, session, counters, segments, screen
    <3>1. SessionTypeOK'
      BY <2>0, <2>2, <3>a DEF SessionTypeOK
    <3>2. ControllerTypeOK'
      <4>1. shown' \in States /\ cached' \in Files /\ radio' \in Radio /\ availability' \in Radio
        BY <1>s, <2>0, <2>2, <3>a DEF ControllerTypeOK
      <4> HIDE DEF States, Files, Radio
      <4>2. QED
        BY <1>s, <2>0, <2>2, <3>a, <4>1 DEF ControllerTypeOK
    <3>3. Honesty'
      BY <2>0, <2>2, <3>a DEF Honesty
    <3>4. QED
      BY <3>1, <3>2, <3>3
  <2>3. QED
    BY <2>1, <2>2
<1>17. CASE DidUpdateState
  <2>0. /\ UNCHANGED <<clock, acknowledged, active, hasCentral>>
        /\ availability' = radio /\ undelivered
    BY <1>17 DEF DidUpdateState
  <2>1. CASE LosesRadio
    <3>a. /\ state = "scanning" /\ Interrupt
          /\ radio # "on" /\ awaiting' = FALSE /\ undelivered' = FALSE /\ radio' = radio
          /\ UNCHANGED <<cached, exportURL, exportFailure>>
      BY <2>1 DEF LosesRadio, export
    <3>b. /\ state' = "interrupted" /\ shown' = "interrupted"
          /\ ticking' = FALSE /\ isScanning' = FALSE
          /\ wall' \in Nat /\ foreground' \in Nat
          /\ segment' \in 0 .. MaxClock \cup {NoSegment} /\ scanningSegment' \in BOOLEAN
          /\ interruptions' \in 0 .. MaxInterruptions
          /\ UNCHANGED <<categoryCounts, ruleCounts, uncounted>>
      BY <3>a, InterruptFacts
    <3>1. SessionTypeOK'
      BY <2>0, <3>a, <3>b DEF SessionTypeOK
    <3>2. ControllerTypeOK'
      BY <1>s, <2>0, <3>a, <3>b DEF ControllerTypeOK
    <3>3. Honesty'
      BY <2>0, <3>a, <3>b DEF Honesty
    <3>4. QED
      BY <3>1, <3>2, <3>3
  <2>2. CASE RadioAnswers
    <3>1. PICK now \in Radio : BeginSession(now, FALSE, isScanning)
      BY <2>2 DEF RadioAnswers
    <3>2. isScanning \in BOOLEAN
      BY DEF ControllerTypeOK
    <3>3. /\ cached' = Renamed(cached) /\ exportURL' = Renamed(exportURL)
          /\ UNCHANGED <<exportFailure, categoryCounts, ruleCounts, uncounted, interruptions>>
          /\ radio = "on" /\ state = "idle" /\ active
      BY <2>2 DEF RadioAnswers, NewIdentifier, counters
    <3> HIDE DEF Radio
    <3> DEFINE Begun == /\ state' = "scanning" /\ shown' = "scanning"
                        /\ ticking' = TRUE /\ awaiting' = FALSE
                        /\ radio' \in Radio /\ isScanning' \in BOOLEAN
                        /\ undelivered' \in BOOLEAN
                        /\ radio' = "on" => isScanning'
                        /\ radio' # "on" => undelivered'
               Timed == /\ wall' \in Nat /\ foreground' \in Nat
                        /\ segment' \in 0 .. MaxClock \cup {NoSegment}
                        /\ scanningSegment' \in BOOLEAN
    <3>4. Begun /\ Timed
      BY <3>1, <3>2, <3>3, BeginFacts
    <3> HIDE DEF Begun, Timed
    <3>5. SessionTypeOK'
      BY <2>0, <3>3, <3>4 DEF SessionTypeOK, Begun, Timed
    <3>6. ControllerTypeOK'
      BY <2>0, <3>3, <3>4 DEF ControllerTypeOK, Begun, Renamed
    <3>7. Honesty'
      <4>1. interruptions' < MaxInterruptions /\ hasCentral
        BY <3>3 DEF Honesty, SessionTypeOK
      <4>2. QED
        BY <2>0, <3>3, <3>4, <4>1 DEF Honesty, Begun
    <3>8. QED
      BY <3>5, <3>6, <3>7
  <2>3. CASE Holds
    <3>a. /\ UNCHANGED <<state, categoryCounts, ruleCounts, uncounted, interruptions>>
          /\ UNCHANGED <<segment, scanningSegment, wall, foreground>>
          /\ UNCHANGED <<ticking, radio, isScanning, cached, exportURL, exportFailure>>
          /\ undelivered' = FALSE /\ shown' = state
          /\ awaiting' = (awaiting /\ radio # "off")
          /\ \/ radio # "on" /\ state # "scanning"
             \/ radio = "on" /\ ~(awaiting /\ state = "idle" /\ active)
      BY <2>3 DEF Holds, Refresh, session, counters, segments, export
    <3>1. SessionTypeOK'
      BY <2>0, <3>a DEF SessionTypeOK
    <3>2. ControllerTypeOK'
      <4>1. shown' \in States /\ cached' \in Files /\ radio' \in Radio /\ availability' \in Radio
        BY <1>s, <2>0, <3>a DEF ControllerTypeOK
      <4> HIDE DEF States, Files, Radio
      <4>2. QED
        BY <1>s, <2>0, <3>a, <4>1 DEF ControllerTypeOK
    <3>3. Honesty'
      BY <2>0, <3>a DEF Honesty
    <3>4. QED
      BY <3>1, <3>2, <3>3
  <2>4. QED
    BY <1>17, <2>1, <2>2, <2>3 DEF DidUpdateState
<1>18. CASE RadioMoves
  <2>1. SessionTypeOK'
    BY <1>18, SegmentsTyped, FreshTyped DEF RadioMoves, session, counters, segments, screen,
       export, SessionTypeOK
  <2>2. ControllerTypeOK'
    BY <1>18 DEF RadioMoves, session, counters, segments, screen, export, SessionTypeOK,
       ControllerTypeOK
  <2>3. Honesty'
    BY <1>18, FreshTyped DEF RadioMoves, session, counters, segments, screen, export,
       Honesty
  <2>4. QED
    BY <2>1, <2>2, <2>3
<1>19. CASE ClockMoves
  <2>1. SessionTypeOK'
    BY <1>19, SegmentsTyped, FreshTyped DEF ClockMoves, session, counters, segments, screen,
       bluetooth, export, SessionTypeOK
  <2>2. ControllerTypeOK'
    BY <1>19 DEF ClockMoves, session, counters, segments, screen, bluetooth, export,
       SessionTypeOK, ControllerTypeOK
  <2>3. Honesty'
    BY <1>19, FreshTyped DEF ClockMoves, session, counters, segments, screen, bluetooth,
       export, Honesty
  <2>4. QED
    BY <2>1, <2>2, <2>3
<1>20. CASE Relaunch
  <2>0. /\ state' = "idle" /\ FreshCounters /\ FreshSegments /\ clock' = 0
    BY <1>20 DEF Relaunch
  <2>1. SessionTypeOK'
    <3>1. clock' \in 0 .. MaxClock
      BY <2>0
    <3>2. QED
      BY <2>0, <3>1, FreshTyped DEF FreshSegments, SessionTypeOK
  <2>2. ControllerTypeOK'
    BY <1>20 DEF Relaunch, Renamed, Refresh, ControllerTypeOK
  <2>3. Honesty'
    BY <1>20, FreshTyped DEF Relaunch, Refresh, Honesty
  <2>4. QED
    BY <2>1, <2>2, <2>3
<1>21. QED
  BY <1>1, <1>2, <1>3, <1>4, <1>5, <1>6, <1>7, <1>8, <1>9, <1>10, <1>11, <1>12, <1>13,
     <1>14, <1>15, <1>16, <1>17, <1>18, <1>19, <1>20 DEF Next, Sightings

\* The initial state is one of the invariant's.
LEMMA HonestInit == Init => HonestInv /\ VerdictInv
<1> SUFFICES ASSUME Init PROVE HonestInv /\ VerdictInv
  OBVIOUS
<1>1. VerdictInv
  BY DEF Init, VerdictInv, Held, Outcomes, VerdictOfAllHeard, Retained
<1>2. outcomes \in [Peripherals -> Outcome]
  BY <1>1, OutcomesTyped DEF VerdictInv, Held
<1>3. SessionTypeOK
  <2>1. categoryCounts \in [Categories -> Int] /\ ruleCounts \in [Rules -> Int]
    BY DEF Init
  <2>2. heard \in [Peripherals -> SUBSET Rules]
    BY DEF Init
  <2>3. /\ uncounted \in 0 .. MaxUncounted /\ interruptions \in 0 .. MaxInterruptions
        /\ clock \in 0 .. MaxClock /\ segment \in 0 .. MaxClock \cup {NoSegment}
        /\ wall \in Nat /\ foreground \in Nat /\ scanningSegment \in BOOLEAN
        /\ state \in States
    <3>1. /\ uncounted = 0 /\ interruptions = 0 /\ clock = 0 /\ segment = NoSegment
          /\ wall = 0 /\ foreground = 0 /\ state = "idle"
      BY DEF Init
    <3>2. scanningSegment \in BOOLEAN
      BY DEF Init
    <3>3. QED
      BY <3>1, <3>2, BoundsAssumption DEF States
  <2>4. QED
    BY <1>2, <2>1, <2>2, <2>3 DEF SessionTypeOK
<1>4. ControllerTypeOK
  BY DEF Init, ControllerTypeOK, States, Radio, Files
<1>5. Honesty
  BY DEF Init, Honesty
<1>6. QED
  BY <1>1, <1>3, <1>4, <1>5 DEF HonestInv, TypeOK

\* "The app never reports scanning it is not doing" (RadioGate.swift), for every
\* registry and every bound: with the radio moving at any time, also between
\* two reads of one handler, a session that is shown as scanning is scanned or
\* about to be interrupted, nothing is scanned behind another state, and a
\* Start does not wait for a radio that has answered.
THEOREM ScreenHonest == Spec => []ControllerHonest
<1>1. HonestInv /\ VerdictInv /\ [Next]_vars => HonestInv' /\ VerdictInv'
  BY VerdictStep, HonestStep
<1>2. HonestInv => ControllerHonest
  BY DEF HonestInv, Honesty, ControllerHonest, TypeOK, ControllerTypeOK, Radio
<1>3. QED
  BY HonestInit, <1>1, <1>2, PTL DEF Spec
-----------------------------------------------------------------------------
(* Exports. *)

\* Every set of natural numbers has a least element.
LEMMA LeastOf == ASSUME NEW S \in SUBSET Nat, S # {} PROVE \E m \in S : \A n \in S : m <= n
<1> DEFINE R == {ss \in Nat \X Nat : ss[1] < ss[2]}
<1>1. IsWellFoundedOn(R, Nat)
  BY NatLessThanWellFounded DEF OpToRel
<1>2. PICK m \in S : \A y \in S : ~ (<<y, m>> \in R)
  BY <1>1, WFMin
<1>3. ASSUME NEW n \in S PROVE m <= n
  <2>1. <<n, m>> \in Nat \X Nat /\ <<n, m>>[1] = n /\ <<n, m>>[2] = m
    OBVIOUS
  <2>2. ~ (n < m)
    BY <1>2, <2>1
  <2>3. QED
    BY <2>2
<1>4. QED
  BY <1>3

\* How many members of R have key x, and how many a key in T.
Keyed(R, h, x)  == Cardinality({p \in R : h[p] = x})
Within(R, h, T) == Cardinality({p \in R : h[p] \in T})

\* Taking one key out of a set of keys takes its members out of their count.
LEMMA CountSplits ==
  ASSUME NEW R, IsFiniteSet(R), NEW h, NEW T, NEW x \in T
  PROVE  Cardinality({p \in R : h[p] \in T})
           = Cardinality({p \in R : h[p] = x}) + Cardinality({p \in R : h[p] \in T \ {x}})
<1> DEFINE A == {p \in R : h[p] = x}
           B == {p \in R : h[p] \in T \ {x}}
           C == {p \in R : h[p] \in T}
<1>1. C = A \cup B /\ A \cap B = {} /\ A \subseteq R /\ B \subseteq R
  OBVIOUS
<1> HIDE DEF A, B, C
<1>2. IsFiniteSet(A) /\ IsFiniteSet(B)
  BY <1>1, FS_Subset
<1>3. Cardinality(A \cup B) = Cardinality(A) + Cardinality(B) - Cardinality(A \cap B)
  BY <1>2, FS_Union
<1>4. Cardinality(A \cap B) = 0 /\ Cardinality(A) \in Nat /\ Cardinality(B) \in Nat
  BY <1>1, <1>2, FS_EmptySet, FS_CardinalityType
<1>5. Cardinality(C) = Cardinality(A) + Cardinality(B)
  BY <1>1, <1>3, <1>4
<1>6. QED
  BY <1>5 DEF A, B, C

\* What Total adds up: the function of its recursion, for one set of keys.
Sums(f, counts, S) ==
  f = [T \in SUBSET S |->
         IF T = {} THEN 0 ELSE LET x == CHOOSE x \in T : TRUE IN counts[x] + f[T \ {x}]]

\* Counters that count the members with each key add up to the members.
LEMMA TotalCounts ==
  ASSUME NEW S, IsFiniteSet(S), NEW R, IsFiniteSet(R), NEW h, NEW counts,
         \A x \in S : counts[x] = Keyed(R, h, x)
  PROVE  Total(counts, S) = Within(R, h, S)
<1> DEFINE count(T) == Cardinality({p \in R : h[p] \in T})
           pick(T) == CHOOSE x \in T : TRUE
           g == [T \in SUBSET S |-> count(T)]
           sum == CHOOSE f : Sums(f, counts, S)
<1>1. count({}) = 0
  <2>1. {p \in R : h[p] \in {}} = {}
    OBVIOUS
  <2>2. QED
    BY <2>1, FS_EmptySet
<1>2. \A T \in SUBSET S : T # {} => pick(T) \in T
  OBVIOUS
<1>3. ASSUME NEW T \in SUBSET S, T # {}
      PROVE  count(T) = counts[pick(T)] + count(T \ {pick(T)})
  <2>1. pick(T) \in T /\ pick(T) \in S
    BY <1>2, <1>3
  <2> DEFINE x == pick(T)
  <2> HIDE DEF pick
  <2>2. counts[x] = Cardinality({p \in R : h[p] = x})
    BY <2>1 DEF Keyed
  <2> HIDE DEF x
  <2>3. Cardinality({p \in R : h[p] \in T})
           = Cardinality({p \in R : h[p] = x}) + Cardinality({p \in R : h[p] \in T \ {x}})
    BY <2>1, CountSplits DEF x
  <2>4. QED
    BY <2>2, <2>3 DEF x
<1> HIDE DEF count, pick
<1>4. Sums(g, counts, S)
  <2>1. ASSUME NEW T \in SUBSET S
        PROVE  g[T] = IF T = {} THEN 0 ELSE counts[pick(T)] + g[T \ {pick(T)}]
    <3>1. g[T] = count(T) /\ g[T \ {pick(T)}] = count(T \ {pick(T)})
      OBVIOUS
    <3> HIDE DEF g
    <3>2. QED
      BY <1>1, <1>3, <3>1
  <2>2. g = [T \in SUBSET S |-> g[T]]
    OBVIOUS
  <2> HIDE DEF g
  <2>3. g = [T \in SUBSET S |-> IF T = {} THEN 0 ELSE counts[pick(T)] + g[T \ {pick(T)}]]
    BY <2>1, <2>2
  <2>4. QED
    BY <2>3 DEF Sums, pick
<1>5. Sums(sum, counts, S)
  <2> HIDE DEF g
  <2>1. QED
    BY <1>4, Zenon
<1>6. \A T \in SUBSET S : sum[T] = IF T = {} THEN 0 ELSE counts[pick(T)] + sum[T \ {pick(T)}]
  <2> HIDE DEF sum
  <2>1. QED
    BY <1>5 DEF Sums, pick
<1>7. Total(counts, S) = sum[S]
  BY Zenon DEF Total, Sums
<1> HIDE DEF sum
<1>8. \A T \in SUBSET S : IsFiniteSet(T) /\ Cardinality(T) \in Nat
  BY FS_Subset, FS_CardinalityType
<1>9. \A T \in SUBSET S : sum[T] = count(T)
  <2> DEFINE bad == {n \in Nat : \E T \in SUBSET S : Cardinality(T) = n /\ sum[T] # count(T)}
  <2> SUFFICES ASSUME bad # {} PROVE FALSE
    BY <1>8
  <2>1. PICK m \in bad : \A n \in bad : m <= n
    BY LeastOf, bad \in SUBSET Nat
  <2>2. PICK T \in SUBSET S : Cardinality(T) = m /\ sum[T] # count(T)
    BY <2>1
  <2>3. T # {}
    BY <1>1, <1>6, <2>2
  <2> DEFINE U == T \ {pick(T)}
  <2>4. U \in SUBSET S /\ Cardinality(U) = m - 1 /\ Cardinality(U) \in Nat
    <3>1. pick(T) \in T /\ IsFiniteSet(T)
      BY <1>2, <1>8, <2>3
    <3>2. Cardinality(T \ {pick(T)}) = Cardinality(T) - 1
      BY <3>1, FS_RemoveElement
    <3>3. QED
      BY <1>8, <2>2, <3>2
  <2> HIDE DEF U
  <2>5. sum[U] = count(U)
    BY <2>1, <2>4
  <2>6. QED
    BY <1>3, <1>6, <2>2, <2>3, <2>5 DEF U
<1>10. QED
  BY <1>7, <1>9 DEF count, Within

\* A finite set and the same set without one member.
LEMMA WithoutOne ==
  ASSUME NEW A, IsFiniteSet(A), NEW p
  PROVE  /\ Cardinality(A \ {p}) \in Nat
         /\ Cardinality(A) = Cardinality(A \ {p}) + (IF p \in A THEN 1 ELSE 0)
<1>1. IsFiniteSet(A \ {p}) /\ Cardinality(A) \in Nat
  BY FS_Subset, FS_CardinalityType
<1>2. Cardinality(A \ {p}) \in Nat
  BY <1>1, FS_CardinalityType
<1>3. CASE p \in A
  <2>1. Cardinality(A \ {p}) = Cardinality(A) - 1
    BY <1>3, FS_RemoveElement
  <2>2. QED
    BY <1>1, <1>2, <1>3, <2>1
<1>4. CASE p \notin A
  <2>1. Cardinality(A \ {p}) = Cardinality(A)
    BY <1>4, FS_RemoveElement
  <2>2. QED
    BY <1>1, <1>2, <1>4, <2>1
<1>5. QED
  BY <1>3, <1>4

\* Whether p is one of the members of R that have key x.
Has(p, R, h, x) == IF p \in R /\ h[p] = x THEN 1 ELSE 0

\* What giving one member of a set a new key, or adding it to the set, does to
\* the number of members with key x.
LEMMA Recounted ==
  ASSUME NEW R, IsFiniteSet(R), NEW p, NEW h, NEW g, NEW x, \A q \in R \ {p} : g[q] = h[q]
  PROVE  Keyed(R \cup {p}, g, x)
           = Keyed(R, h, x) + Has(p, R \cup {p}, g, x) - Has(p, R, h, x)
<1> DEFINE A == {q \in R : h[q] = x}
           B == {q \in R \cup {p} : g[q] = x}
<1>1. /\ A \subseteq R /\ B \subseteq R \cup {p} /\ A \ {p} = B \ {p}
      /\ p \in A <=> p \in R /\ h[p] = x
      /\ p \in B <=> g[p] = x
  OBVIOUS
<1> HIDE DEF A, B
<1>2. IsFiniteSet(A) /\ IsFiniteSet(B)
  BY <1>1, FS_Subset, FS_AddElement
<1>3. /\ Cardinality(A \ {p}) \in Nat
      /\ Cardinality(A) = Cardinality(A \ {p}) + (IF p \in A THEN 1 ELSE 0)
  BY <1>2, WithoutOne
<1>4. Cardinality(B) = Cardinality(B \ {p}) + (IF p \in B THEN 1 ELSE 0)
  BY <1>2, WithoutOne
<1>5. Cardinality(B) = Cardinality(A) + (IF g[p] = x THEN 1 ELSE 0)
                       - (IF p \in R /\ h[p] = x THEN 1 ELSE 0)
  BY <1>1, <1>3, <1>4
<1>6. QED
  BY <1>5 DEF A, B, Keyed, Has

\* A category other than unknown comes with the rule that gave it.
LEMMA RuleOrUnknown ==
  ASSUME NEW S \in SUBSET Rules
  PROVE  /\ Classify(S).category \in Categories
         /\ Classify(S).category # "unknown" <=> Classify(S).rule \in Rules
<1>1. NoRule \notin Rules /\ "unknown" \in Categories
  BY RegistryFacts DEF NoRule, Categories
<1>2. CASE S = {} \/ Conflicted(S)
  BY <1>1, <1>2 DEF Classify, Unmatched, Ambiguous
<1>3. CASE S # {} /\ ~Conflicted(S)
  <2>1. Classify(S) = Matched(Winner(S)) /\ Winner(S) \in Rules
    BY <1>3, ClassifyFields DEF Classify
  <2>2. Category[Winner(S)] \in Categories \ {"unknown"}
    BY <2>1, RegistryFacts
  <2>3. QED
    BY <2>1, <2>2 DEF Matched
<1>4. QED
  BY <1>2, <1>3

\* The counters kept beside the outcomes count them, and no more of them are
\* retained than the limit allows.
Counted ==
  /\ IsFiniteSet(Retained) /\ Cardinality(Retained) <= AdvertiserLimit
  /\ \A c \in Categories :
       categoryCounts[c] = Cardinality({p \in Retained : outcomes[p].category = c})
  /\ \A r \in Rules :
       ruleCounts[r] = Cardinality({p \in Retained : outcomes[p].rule = r})

\* The outcome taken out and the one put in change the counters of their
\* category and rule, whichever of the two the peripheral had.
LEMMA RecordKeepsCounts ==
  ASSUME VerdictInv, Counted, NEW p \in Peripherals, NEW S \in SUBSET Rules, Record(p, S)
  PROVE  Counted'
<1>1. CASE outcomes[p] = Absent /\ Cardinality(Retained) >= AdvertiserLimit
  BY <1>1 DEF Record, Counted, Retained
<1>2. CASE ~(outcomes[p] = Absent /\ Cardinality(Retained) >= AdvertiserLimit)
  <2> DEFINE was == outcomes[p]
             is == Verdict(outcomes[p], Classify(S))
  <2>1. /\ outcomes' = [outcomes EXCEPT ![p] = is]
        /\ Apply(was, is) /\ outcomes \in [Peripherals -> Outcomes]
    BY <1>2 DEF Record, VerdictInv, Held
  <2>2. is # Absent
    BY <1>2, VerdictIs
  <2> HIDE DEF is
  <2>3. /\ outcomes'[p] = is
        /\ \A q \in Peripherals \ {p} : outcomes'[q] = outcomes[q]
    BY <2>1
  <2>4. Retained' = Retained \cup {p} /\ (p \in Retained <=> was # Absent)
    BY <2>2, <2>3 DEF Retained
  <2>5. IsFiniteSet(Retained) /\ Cardinality(Retained) \in Nat
        /\ Cardinality(Retained) <= AdvertiserLimit
    BY FS_CardinalityType DEF Counted
  <2>6. IsFiniteSet(Retained') /\ Cardinality(Retained') <= AdvertiserLimit
    <3>1. /\ IsFiniteSet(Retained \cup {p})
          /\ Cardinality(Retained \cup {p}) =
               IF p \in Retained THEN Cardinality(Retained) ELSE Cardinality(Retained) + 1
      BY <2>5, FS_AddElement
    <3>2. QED
      BY <1>2, <2>4, <2>5, <3>1, BoundsAssumption
  <2>7. ASSUME NEW c \in Categories
        PROVE  categoryCounts'[c] = Cardinality({q \in Retained' : outcomes'[q].category = c})
    <3> DEFINE h == [q \in Peripherals |-> outcomes[q].category]
               g == [q \in Peripherals |-> outcomes'[q].category]
    <3>1. categoryCounts'[c] = categoryCounts[c] + (IF is.category = c THEN 1 ELSE 0)
                               - (IF p \in Retained /\ was.category = c THEN 1 ELSE 0)
      BY <2>1, <2>2, <2>4, <2>7 DEF Apply, Delta, Counted
    <3>2. /\ {q \in Retained : outcomes[q].category = c} = {q \in Retained : h[q] = c}
          /\ {q \in Retained' : outcomes'[q].category = c} = {q \in Retained \cup {p} : g[q] = c}
      BY <2>4 DEF Retained
    <3>3. /\ \A q \in Retained \ {p} : g[q] = h[q]
          /\ g[p] = is.category /\ h[p] = was.category
      BY <2>3 DEF Retained
    <3> HIDE DEF g, h, was
    <3>4. Keyed(Retained \cup {p}, g, c)
           = Keyed(Retained, h, c) + Has(p, Retained \cup {p}, g, c)
             - Has(p, Retained, h, c)
      <4>1. IsFiniteSet(Retained) /\ \A q \in Retained \ {p} : g[q] = h[q]
        BY <2>5, <3>3
      <4>2. QED
        BY <4>1, Recounted
    <3>5. categoryCounts[c] = Cardinality({q \in Retained : outcomes[q].category = c})
      BY DEF Counted
    <3>6. QED
      BY <3>1, <3>2, <3>3, <3>4, <3>5 DEF Keyed, Has
  <2>8. ASSUME NEW r \in Rules
        PROVE  ruleCounts'[r] = Cardinality({q \in Retained' : outcomes'[q].rule = r})
    <3> DEFINE h == [q \in Peripherals |-> outcomes[q].rule]
               g == [q \in Peripherals |-> outcomes'[q].rule]
    <3>1. ruleCounts'[r] = ruleCounts[r] + (IF is.rule = r THEN 1 ELSE 0)
                           - (IF p \in Retained /\ was.rule = r THEN 1 ELSE 0)
      BY <2>1, <2>2, <2>4, <2>8 DEF Apply, Delta, Counted
    <3>2. /\ {q \in Retained : outcomes[q].rule = r} = {q \in Retained : h[q] = r}
          /\ {q \in Retained' : outcomes'[q].rule = r} = {q \in Retained \cup {p} : g[q] = r}
      BY <2>4 DEF Retained
    <3>3. /\ \A q \in Retained \ {p} : g[q] = h[q]
          /\ g[p] = is.rule /\ h[p] = was.rule
      BY <2>3 DEF Retained
    <3> HIDE DEF g, h, was
    <3>4. Keyed(Retained \cup {p}, g, r)
           = Keyed(Retained, h, r) + Has(p, Retained \cup {p}, g, r)
             - Has(p, Retained, h, r)
      <4>1. IsFiniteSet(Retained) /\ \A q \in Retained \ {p} : g[q] = h[q]
        BY <2>5, <3>3
      <4>2. QED
        BY <4>1, Recounted
    <3>5. ruleCounts[r] = Cardinality({q \in Retained : outcomes[q].rule = r})
      BY DEF Counted
    <3>6. QED
      BY <3>1, <3>2, <3>3, <3>4, <3>5 DEF Keyed, Has
  <2>9. QED
    BY <2>6, <2>7, <2>8 DEF Counted
<1>3. QED
  BY <1>1, <1>2
\* The counters count in every reachable state.
LEMMA CountedStep == VerdictInv /\ Counted /\ [Next]_vars => Counted'
<1> SUFFICES ASSUME VerdictInv, Counted, [Next]_vars PROVE Counted'
  OBVIOUS
<1>1. CASE UNCHANGED counters
  BY <1>1 DEF counters, Counted, Retained
<1>2. CASE FreshCounters
  <2>1. /\ Retained' = {}
        /\ \A c \in Categories : categoryCounts'[c] = 0
        /\ \A r \in Rules : ruleCounts'[r] = 0
    BY <1>2 DEF FreshCounters, Retained
  <2>2. QED
    BY <2>1, FS_EmptySet, BoundsAssumption DEF Counted
<1>3. CASE \E p \in Peripherals, S \in SUBSET Rules : Record(p, S)
  BY <1>3, RecordKeepsCounts
<1>4. QED
  BY <1>1, <1>2, <1>3, StepsOfOutcomes

\* No more time is counted as scanned than has passed.
Timely == foreground <= wall

\* Which session the files and the published export belong to.  A Start that
\* waits for the radio has cleared the directory.
Filed ==
  /\ exportURL # "stale"
  /\ exportURL = "current" => state = "finished"
  /\ state # "idle" => cached # "stale"
  /\ awaiting => cached = "none"

\* A segment adds to the scanned time no more than to the time passed.
LEMMA TimelyStep == HonestInv /\ Timely /\ [Next]_vars => Timely'
<1> SUFFICES ASSUME HonestInv, Timely, [Next]_vars PROVE Timely'
  OBVIOUS
<1>1. wall \in Nat /\ foreground \in Nat /\ OpenSegmentTicks \in Nat
  BY SegmentsTyped DEF HonestInv, TypeOK, SessionTypeOK
<1>2. CASE UNCHANGED <<wall, foreground>>
  BY <1>2 DEF Timely
<1>3. CASE wall' = 0 /\ foreground' = 0
  BY <1>3 DEF Timely
<1>4. CASE CloseSegment
  BY <1>1, <1>4 DEF Timely, CloseSegment
<1>5. \/ UNCHANGED <<wall, foreground>>
      \/ wall' = 0 /\ foreground' = 0
      \/ CloseSegment
  <2>1. CASE UNCHANGED vars
    BY <2>1 DEF vars, session, segments
  <2>2. ASSUME NEW p \in Peripherals, NEW S \in Sightings, Record(p, S)
        PROVE  UNCHANGED <<wall, foreground>>
    BY <2>2 DEF Record, segments
  <2>3. CASE Acknowledge \/ StartUncleared \/ CancelPendingStart \/ DiscardUncleared
             \/ Export \/ ExportFails \/ RadioMoves \/ ClockMoves
    BY <2>3 DEF Acknowledge, StartUncleared, CancelPendingStart, DiscardUncleared, Export,
                ExportFails, RadioMoves, ClockMoves, session, segments
  <2>4. CASE Start \/ StartNewSession
    BY <2>4 DEF Start, StartNewSession, Starting, AwaitRadio, RefuseStart, StartNow,
                BeginSession, FreshSegments, segments
  <2>5. CASE Pause \/ Resume \/ Stop
    BY <2>5 DEF Pause, Resume, Stop, Interrupt
  <2>6. CASE DiscardResult \/ Relaunch
    BY <2>6 DEF DiscardResult, Relaunch, FreshSegments
  <2>7. CASE Activate \/ Deactivate \/ DidUpdateState
    BY <2>7 DEF Activate, Deactivate, DidUpdateState, LosesRadio, RadioAnswers, Holds,
                Interrupt, BeginSession, session, segments
  <2>8. QED
    BY <2>1, <2>2, <2>3, <2>4, <2>5, <2>6, <2>7 DEF Next
<1>6. QED
  BY <1>2, <1>3, <1>4, <1>5

\* Each action keeps the files with their session.
LEMMA FiledStep == HonestInv /\ Filed /\ [Next]_vars => Filed'
<1> SUFFICES ASSUME HonestInv, Filed, [Next]_vars PROVE Filed'
  OBVIOUS
<1>0. /\ shown = state /\ (awaiting => state = "idle")
      /\ exportURL \in {"none", "current", "stale"} /\ cached \in Files
      /\ awaiting \in BOOLEAN
  BY DEF HonestInv, Honesty, TypeOK, ControllerTypeOK
<1> USE <1>0 DEF Filed
<1>1. CASE UNCHANGED vars
  BY <1>1 DEF vars, session, export
<1>2. ASSUME NEW p \in Peripherals, NEW S \in Sightings, Record(p, S)
      PROVE  Filed'
  BY <1>2 DEF Record, export
<1>3. CASE Acknowledge \/ CancelPendingStart \/ RadioMoves \/ ClockMoves
  BY <1>3 DEF Acknowledge, CancelPendingStart, RadioMoves, ClockMoves, session, export
<1>4. CASE Start \/ StartNewSession \/ DiscardResult
  BY <1>4 DEF Start, StartNewSession, DiscardResult, Cleared
<1>5. CASE StartUncleared \/ DiscardUncleared
  <2>1. /\ UNCHANGED <<state, awaiting, exportURL>> /\ ~awaiting
        /\ cached' = cached \/ cached' = "empty"
    BY <1>5 DEF StartUncleared, DiscardUncleared, MayStart, ClearFails, session
  <2>2. QED
    BY <2>1
<1>6. CASE Pause \/ Resume \/ Stop
  <2>1. /\ UNCHANGED <<awaiting, cached, exportURL>>
        /\ state \in {"scanning", "interrupted"}
    BY <1>6 DEF Pause, Resume, Stop, export
  <2>2. QED
    BY <2>1
<1>7. CASE Export \/ ExportFails
  BY <1>7 DEF Export, ExportFails, session
<1>8. CASE Activate
  BY <1>8 DEF Activate, BeginSession, NewIdentifier, Renamed, export
<1>9. CASE Deactivate
  BY <1>9 DEF Deactivate, Interrupt, session, export
<1>10. CASE DidUpdateState
  <2>1. CASE LosesRadio
    BY <2>1 DEF LosesRadio, Interrupt, export
  <2>2. CASE RadioAnswers
    BY <2>2 DEF RadioAnswers, BeginSession, NewIdentifier, Renamed
  <2>3. CASE Holds
    BY <2>3 DEF Holds, session, export
  <2>4. QED
    BY <1>10, <2>1, <2>2, <2>3 DEF DidUpdateState
<1>11. CASE Relaunch
  BY <1>11 DEF Relaunch
<1>12. QED
  BY <1>1, <1>2, <1>3, <1>4, <1>5, <1>6, <1>7, <1>8, <1>9, <1>10, <1>11 DEF Next

\* Whole seconds of a shorter time are not more.
LEMMA SecondsMonotone ==
  ASSUME NEW a \in Nat, NEW b \in Nat, a <= b
  PROVE  WholeSeconds(a) <= WholeSeconds(b)
BY BoundsAssumption DEF WholeSeconds

\* With counters that count the outcomes, makeDocument's two sums hold: the
\* categories add up to the advertisers, and the rules listed to those that
\* have a category.
LEMMA SumsAgree ==
  ASSUME VerdictInv, Counted
  PROVE  /\ Total(categoryCounts, Categories) = Cardinality(Retained)
         /\ Total(ruleCounts, ByRule) = Total(categoryCounts, Categories \ {"unknown"})
<1> DEFINE kinds == Categories \ {"unknown"}
           h == [p \in Retained |-> outcomes[p].category]
           g == [p \in Retained |-> outcomes[p].rule]
<1>1. ASSUME NEW p \in Retained
      PROVE  /\ h[p] \in Categories
             /\ h[p] # "unknown" <=> g[p] \in Rules
  <2>1. outcomes[p] = Classify(heard[p]) /\ heard[p] \in SUBSET Rules
    BY DEF VerdictInv, Held, VerdictOfAllHeard, Retained
  <2>2. QED
    BY <2>1, RuleOrUnknown
<1>2. /\ \A c \in Categories : categoryCounts[c] = Keyed(Retained, h, c)
      /\ \A r \in Rules : ruleCounts[r] = Keyed(Retained, g, r)
  <2>1. /\ \A c : {p \in Retained : outcomes[p].category = c} = {p \in Retained : h[p] = c}
        /\ \A r : {p \in Retained : outcomes[p].rule = r} = {p \in Retained : g[p] = r}
    OBVIOUS
  <2>2. QED
    BY <2>1 DEF Counted, Keyed
<1>3. IsFiniteSet(Retained)
  BY DEF Counted
<1>4. IsFiniteSet(Categories) /\ IsFiniteSet(kinds)
  <2>1. Categories = ((({} \cup {"helium"}) \cup {"wifi"}) \cup {"ev"}) \cup {"unknown"}
    BY DEF Categories
  <2>2. IsFiniteSet(Categories)
    BY <2>1, FS_EmptySet, FS_AddElement
  <2>3. QED
    BY <2>2, FS_Subset
<1>5. ByRule = {g[p] : p \in {q \in Retained : h[q] \in kinds}}
  <2>1. ASSUME NEW r \in ByRule
        PROVE  \E p \in Retained : h[p] \in kinds /\ g[p] = r
    <3>1. r \in Rules /\ ruleCounts[r] > 0
      BY DEF ByRule
    <3>2. {p \in Retained : g[p] = r} # {}
      BY <1>2, <3>1, FS_EmptySet DEF Keyed
    <3>3. QED
      BY <1>1, <3>1, <3>2
  <2>2. ASSUME NEW p \in Retained, h[p] \in kinds
        PROVE  g[p] \in ByRule
    <3> DEFINE same == {q \in Retained : g[q] = g[p]}
    <3>1. g[p] \in Rules /\ p \in same /\ same \subseteq Retained
      BY <1>1, <2>2
    <3>2. ruleCounts[g[p]] = Cardinality(same)
      BY <1>2, <3>1 DEF Keyed
    <3> HIDE DEF same
    <3>3. Cardinality(same) \in Nat /\ Cardinality(same) # 0
      BY <1>3, <3>1, FS_Subset, FS_CardinalityType, FS_EmptySet
    <3>4. QED
      BY <3>1, <3>2, <3>3 DEF ByRule
  <2>3. ByRule \subseteq {g[p] : p \in {q \in Retained : h[q] \in kinds}}
    <3> HIDE DEF g, h, kinds
    <3>1. QED
      BY <2>1
  <2>4. {g[p] : p \in {q \in Retained : h[q] \in kinds}} \subseteq ByRule
    <3> HIDE DEF g, h, kinds
    <3>1. QED
      BY <2>2
  <2>5. QED
    BY <2>3, <2>4
<1>6. IsFiniteSet(ByRule)
  <2> DEFINE named == {q \in Retained : h[q] \in kinds}
             f == [p \in named |-> g[p]]
  <2>1. IsFiniteSet(named)
    BY <1>3, FS_Subset
  <2>2. f \in Surjection(named, ByRule)
    BY <1>5 DEF Surjection
  <2>3. QED
    BY <2>1, <2>2, FS_Surjection
<1>7. {p \in Retained : h[p] \in Categories} = Retained
  BY <1>1
<1>8. {p \in Retained : g[p] \in ByRule} = {p \in Retained : h[p] \in kinds}
  BY <1>1, <1>5 DEF ByRule
<1> HIDE DEF g, h
<1>9. Total(categoryCounts, Categories) = Within(Retained, h, Categories)
  BY <1>2, <1>3, <1>4, TotalCounts
<1>10. Total(categoryCounts, kinds) = Within(Retained, h, kinds)
  <2>1. \A c \in kinds : categoryCounts[c] = Keyed(Retained, h, c)
    BY <1>2
  <2> HIDE DEF kinds
  <2>2. QED
    BY <1>3, <1>4, <2>1, TotalCounts
<1>11. Total(ruleCounts, ByRule) = Within(Retained, g, ByRule)
  <2>1. \A r \in ByRule : ruleCounts[r] = Keyed(Retained, g, r)
    BY <1>2 DEF ByRule
  <2>2. QED
    BY <1>3, <1>6, <2>1, TotalCounts
<1>12. QED
  BY <1>7, <1>8, <1>9, <1>10, <1>11 DEF Within

\* Every finished session passes all of makeDocument's checks, and the files on
\* disk and on screen are those of the session (SessionAccumulator,
\* DensityExport, BLEScanController), for every registry, every set of
\* advertisers and every limit.
THEOREM ExportsStaySound == Spec => []ExportsSound
<1> DEFINE Inv == HonestInv /\ VerdictInv /\ Counted /\ Timely /\ Filed
<1>1. Init => Inv
  <2> SUFFICES ASSUME Init PROVE Inv
    OBVIOUS
  <2>1. Retained = {}
    BY DEF Init, Retained
  <2>2. Counted
    BY <2>1, FS_EmptySet, BoundsAssumption DEF Init, Counted
  <2>3. Timely /\ Filed
    BY DEF Init, Timely, Filed
  <2>4. QED
    BY <2>2, <2>3, HonestInit
<1>2. Inv /\ [Next]_vars => Inv'
  BY VerdictStep, HonestStep, CountedStep, TimelyStep, FiledStep
<1>3. Inv => ExportsSound
  <2> SUFFICES ASSUME Inv PROVE ExportsSound
    OBVIOUS
  <2>1. WholeSeconds(foreground) <= WholeSeconds(wall)
    BY SecondsMonotone DEF HonestInv, TypeOK, SessionTypeOK, Timely
  <2>2. state = "finished" => Exportable
    BY <2>1, SumsAgree DEF Exportable, Counted
  <2>3. QED
    BY <2>2 DEF ExportsSound, Filed
<1>4. QED
  BY <1>1, <1>2, <1>3, PTL DEF Spec

=============================================================================
