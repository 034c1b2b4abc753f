--------------------------- MODULE DensityScanner ---------------------------
(***************************************************************************)
(* The density study on the phone: one foreground Bluetooth scan that      *)
(* counts advertisers by category, and the export of its counters.         *)
(*                                                                         *)
(* BLEScanController drives a SessionAccumulator from the main actor.  Its *)
(* handlers are taps, scene phases and CoreBluetooth callbacks.  The       *)
(* radio's state moves on its own: central.state may already differ from   *)
(* the last delivered callback, and may move between two reads of one      *)
(* handler.  A sighting is the set of rules that its advertisement         *)
(* matches; a rule's identifier is a number, smaller meaning               *)
(* lexicographically smaller.                                              *)
(***************************************************************************)
EXTENDS Integers, FiniteSets

CONSTANTS Rules,           \* the accepted registry's rule identifiers
          Category,        \* a rule's category
          Confidence,      \* the rank of a rule's confidence
          Priority,        \* a rule's priority
          Peripherals,     \* the advertisers in range
          AdvertiserLimit, \* how many identities a session retains
          MaxUncounted,    \* the limit of the dropped-sighting counter, Int.max
          TicksPerSecond,  \* readings of the monotonic clock per second
          MaxClock,        \* bound: the clock's readings
          MaxInterruptions \* bound: interruptions of a session

Categories == {"helium", "wifi", "ev", "unknown"}

\* What ClassificationRegistry.init accepts.
AcceptedRegistry ==
  /\ Rules \subseteq Nat \ {0}
  /\ Category \in [Rules -> Categories \ {"unknown"}]
  /\ Confidence \in [Rules -> {0, 1}]
  /\ Priority \in [Rules -> Nat]

ASSUME RegistryAssumption == AcceptedRegistry

\* An advertisement is narrowed to the fields that rules look at, and may match
\* any of them.
Sightings == SUBSET Rules

Contenders(S) == {r \in S : \A q \in S : Priority[q] <= Priority[r]}

\* The order in which classify and merging prefer rules of one category.
Wins(r, q) == \/ Confidence[r] > Confidence[q]
              \/ Confidence[r] = Confidence[q] /\ r <= q

\* The registry is a finite list: matching rules have a highest priority, and
\* those that share it a preferred one.
ASSUME FiniteRegistry ==
  \A S \in SUBSET Rules :
    S # {} => /\ Contenders(S) # {}
              /\ \E r \in Contenders(S) : \A q \in Contenders(S) : Wins(r, q)

ASSUME BoundsAssumption ==
  /\ AdvertiserLimit \in Nat
  /\ MaxUncounted \in Nat
  /\ TicksPerSecond \in Nat \ {0}
  /\ MaxClock \in Nat
  /\ MaxInterruptions \in Nat \ {0}

-----------------------------------------------------------------------------
(* Classification: ClassificationOutcome and AdvertisementClassifier.      *)

NoRule     == 0
NoPriority == -1

Unmatched == [category |-> "unknown", rule |-> NoRule, confidence |-> -1,
              priority |-> NoPriority, reason |-> "no-match"]

Ambiguous(p) == [category |-> "unknown", rule |-> NoRule, confidence |-> -1,
                 priority |-> p, reason |-> "ambiguous-match"]

Matched(r) == [category |-> Category[r], rule |-> r, confidence |-> Confidence[r],
               priority |-> Priority[r], reason |-> "matched"]

\* No outcome is held for the peripheral.
Absent == [Unmatched EXCEPT !.reason = "absent"]

Outcome == [category : Categories, rule : Rules \cup {NoRule}, confidence : -1 .. 1,
            priority : Nat \cup {NoPriority},
            reason : {"matched", "no-match", "ambiguous-match", "absent"}]

Winner(S) == CHOOSE r \in Contenders(S) : \A q \in Contenders(S) : Wins(r, q)

Conflicted(S) == \E q, r \in Contenders(S) : Category[q] # Category[r]

\* classify(_:) of an advertisement that the rules in S match.
Classify(S) ==
  IF S = {} THEN Unmatched
  ELSE IF Conflicted(S) THEN Ambiguous(Priority[Winner(S)])
  ELSE Matched(Winner(S))

MergingByConfidence(own, sighting) ==
  IF sighting.priority = NoPriority THEN own
  ELSE IF own.priority = NoPriority THEN sighting
  ELSE IF sighting.priority > own.priority THEN sighting
  ELSE IF sighting.priority < own.priority THEN own
  ELSE IF own.reason = "ambiguous-match" THEN own
  ELSE IF sighting.reason = "ambiguous-match" THEN sighting
  ELSE IF sighting.confidence # own.confidence
    THEN IF sighting.confidence > own.confidence THEN sighting ELSE own
  ELSE IF own.category # sighting.category THEN Ambiguous(own.priority)
  ELSE IF sighting.rule < own.rule THEN sighting ELSE own

\* merging(_:): the same verdict however sightings are grouped or ordered.
Merging(own, sighting) ==
  IF sighting.priority = NoPriority THEN own
  ELSE IF own.priority = NoPriority THEN sighting
  ELSE IF sighting.priority > own.priority THEN sighting
  ELSE IF sighting.priority < own.priority THEN own
  ELSE IF own.reason = "ambiguous-match" THEN own
  ELSE IF sighting.reason = "ambiguous-match" THEN sighting
  ELSE IF own.category # sighting.category THEN Ambiguous(own.priority)
  ELSE IF sighting.confidence # own.confidence
    THEN IF sighting.confidence > own.confidence THEN sighting ELSE own
  ELSE IF sighting.rule < own.rule THEN sighting ELSE own

-----------------------------------------------------------------------------
VARIABLES
  state,           \* SessionAccumulator.state
  outcomes,        \* the outcome held for each peripheral, or Absent
  categoryCounts, ruleCounts,   \* the counters kept beside the outcomes
  uncounted,       \* uncountedSightings
  interruptions,   \* interruptionCount
  clock,           \* the monotonic reading
  segment,         \* segmentStartedAtReading, NoSegment for nil
  scanningSegment, \* isScanningSegment
  wall, foreground,\* closedWallSeconds, closedForegroundSeconds, in ticks
  heard,           \* history: the rules matched while the session scanned
  acknowledged,    \* hasAcknowledgedDisclosure
  active,          \* isSceneActive
  awaiting,        \* isAwaitingRadio
  availability,    \* the state the last applied callback reported
  shown,           \* the state in the published summary
  ticking,         \* whether the one-second ticker runs
  hasCentral,      \* whether the central manager was created
  radio,           \* central.state
  isScanning,      \* central.isScanning
  undelivered,     \* whether a state callback is on its way
  cached,          \* the export directory: see Files
  exportURL,       \* the published export
  exportFailure    \* whether an export failure is published

counters   == <<outcomes, categoryCounts, ruleCounts, uncounted, heard>>
segments   == <<segment, scanningSegment, wall, foreground>>
session    == <<state, counters, segments, interruptions>>
bluetooth  == <<hasCentral, radio, isScanning, undelivered>>
screen     == <<shown, ticking>>
export     == <<cached, exportURL, exportFailure>>
vars == <<session, clock, acknowledged, active, awaiting, availability, screen,
          bluetooth, export>>

States    == {"idle", "scanning", "interrupted", "finished"}
\* "off" stands for unsupported, unauthorized, poweredOff and resetting: every
\* state that is an answer, and a negative one.
Radio     == {"unknown", "off", "on"}
\* The directory is absent, or it is empty, or it holds the export of the
\* session the accumulator is in, or of an earlier one.
Files     == {"none", "empty", "current", "stale"}
NoSegment == -1

Retained == {p \in Peripherals : outcomes[p] # Absent}

SessionTypeOK ==
  /\ state \in States
  /\ outcomes \in [Peripherals -> Outcome]
  /\ heard \in [Peripherals -> SUBSET Rules]
  /\ categoryCounts \in [Categories -> Int] /\ ruleCounts \in [Rules -> Int]
  /\ uncounted \in 0 .. MaxUncounted /\ interruptions \in 0 .. MaxInterruptions
  /\ clock \in 0 .. MaxClock /\ segment \in 0 .. MaxClock \cup {NoSegment}
  /\ wall \in Nat /\ foreground \in Nat /\ scanningSegment \in BOOLEAN

ControllerTypeOK ==
  /\ acknowledged \in BOOLEAN /\ active \in BOOLEAN /\ awaiting \in BOOLEAN
  /\ shown \in States /\ ticking \in BOOLEAN
  /\ availability \in Radio /\ radio \in Radio
  /\ hasCentral \in BOOLEAN /\ isScanning \in BOOLEAN /\ undelivered \in BOOLEAN
  /\ cached \in Files /\ exportURL \in {"none", "current", "stale"}
  /\ exportFailure \in BOOLEAN

TypeOK == SessionTypeOK /\ ControllerTypeOK

-----------------------------------------------------------------------------
(* The accumulator.                                                        *)

\* reset(), but for the state.
FreshCounters ==
  /\ outcomes' = [p \in Peripherals |-> Absent]
  /\ categoryCounts' = [c \in Categories |-> 0]
  /\ ruleCounts' = [r \in Rules |-> 0]
  /\ heard' = [p \in Peripherals |-> {}]
  /\ uncounted' = 0 /\ interruptions' = 0

FreshSegments ==
  /\ wall' = 0 /\ foreground' = 0
  /\ segment' = NoSegment /\ scanningSegment' = FALSE

OpenSegmentTicks ==
  IF segment = NoSegment \/ clock < segment THEN 0 ELSE clock - segment

CloseSegment ==
  /\ wall' = wall + OpenSegmentTicks
  /\ foreground' = foreground + (IF scanningSegment THEN OpenSegmentTicks ELSE 0)

OpenSegment(scanning) == segment' = clock /\ scanningSegment' = scanning

\* apply(_:delta:) of the outcome left and of the one entered; Absent stands
\* for no outcome on that side.
Delta(holds, was, is) == (IF is # Absent /\ holds[is] THEN 1 ELSE 0)
                         - (IF was # Absent /\ holds[was] THEN 1 ELSE 0)

ApplyUnchecked(was, is) ==
  /\ categoryCounts' = [c \in Categories |->
       categoryCounts[c] + Delta([o \in {was, is} |-> o.category = c], was, is)]
  /\ ruleCounts' = [r \in Rules |->
       ruleCounts[r] + Delta([o \in {was, is} |-> o.rule = r], Absent, is)]

Apply(was, is) ==
  /\ categoryCounts' = [c \in Categories |->
       categoryCounts[c] + Delta([o \in {was, is} |-> o.category = c], was, is)]
  /\ ruleCounts' = [r \in Rules |->
       ruleCounts[r] + Delta([o \in {was, is} |-> o.rule = r], was, is)]

\* The outcome a sighting leaves for a peripheral held with outcome known.
Verdict(known, sighting) ==
  IF known = Absent THEN sighting ELSE Merging(known, sighting)

Record(p, S) ==
  /\ state = "scanning"
  /\ heard' = [heard EXCEPT ![p] = @ \cup S]
  /\ IF outcomes[p] = Absent /\ Cardinality(Retained) >= AdvertiserLimit
       THEN /\ uncounted' = IF uncounted < MaxUncounted THEN uncounted + 1 ELSE uncounted
            /\ UNCHANGED <<outcomes, categoryCounts, ruleCounts>>
       ELSE /\ outcomes' = [outcomes EXCEPT ![p] = Verdict(@, Classify(S))]
            /\ Apply(outcomes[p], Verdict(outcomes[p], Classify(S)))
            /\ UNCHANGED uncounted
  /\ UNCHANGED <<state, segments, interruptions, clock, acknowledged, active,
                 awaiting, availability, screen, bluetooth, export>>

WholeSeconds(ticks) == ticks \div TicksPerSecond

Total(counts, S) ==
  LET sum[T \in SUBSET S] ==
        IF T = {} THEN 0
        ELSE LET x == CHOOSE x \in T : TRUE IN counts[x] + sum[T \ {x}]
  IN  sum[S]

\* The rules of the summary: rows that are not positive are left out of it.
ByRule == {r \in Rules : ruleCounts[r] > 0}

\* The checks of DensityExport.makeDocument on the summary of a session.
Exportable ==
  /\ state = "finished"
  /\ Cardinality(Retained) <= AdvertiserLimit
  /\ WholeSeconds(foreground) <= WholeSeconds(wall)
  /\ Total(categoryCounts, Categories) = Cardinality(Retained)
  /\ Total(ruleCounts, ByRule) = Total(categoryCounts, Categories \ {"unknown"})

-----------------------------------------------------------------------------
(* The controller's parts.                                                 *)

\* What an export becomes once the accumulator has a new session identifier.
Renamed(file) == IF file = "current" THEN "stale" ELSE file

NewIdentifier ==
  /\ cached' = Renamed(cached) /\ exportURL' = Renamed(exportURL)
  /\ UNCHANGED exportFailure

\* The radio may move to now while the handler runs, unless the callback of its
\* last move is still pending.
Drift(now, pending) ==
  /\ pending => now = radio
  /\ radio' = now
  /\ undelivered' = (pending \/ now # radio)

Refresh == shown' = state'

\* beginSession, after which beginScanIfPossible reads central.state as now;
\* scanning is what central.isScanning was.  start() clears the two durations
\* and no counter.
BeginSession(now, pending, scanning) ==
  /\ awaiting' = FALSE
  /\ state' = "scanning"
  /\ wall' = 0 /\ foreground' = 0
  /\ OpenSegment(TRUE)
  /\ Drift(now, pending)
  /\ isScanning' = (scanning \/ now = "on")
  /\ ticking' = TRUE
  /\ Refresh

\* clearCachedExport: removing the directory may fail, before or after its
\* file is gone; there is nothing to fail on when there is no directory.
ClearFails ==
  /\ cached # "none"
  /\ cached' \in {cached, "empty"}
  /\ exportFailure' = TRUE
  /\ UNCHANGED exportURL

Cleared ==
  /\ cached' = "none" /\ exportURL' = "none" /\ exportFailure' = FALSE

\* start() once the cached export is gone, for an idle accumulator: view is
\* what the screen shows, scanning what central.isScanning is.
AwaitRadio(view, scanning) ==
  /\ ~hasCentral \/ radio = "unknown"
  /\ hasCentral' = TRUE
  /\ awaiting' = TRUE /\ state' = "idle" /\ isScanning' = scanning
  /\ shown' = view /\ ticking' = FALSE
  /\ UNCHANGED <<availability, radio, undelivered>>

RefuseStart(scanning) ==
  /\ hasCentral /\ radio = "off"
  /\ availability' = radio
  /\ awaiting' = FALSE /\ state' = "idle" /\ isScanning' = scanning
  /\ ticking' = FALSE
  /\ Refresh
  /\ UNCHANGED <<hasCentral, radio, undelivered>>

StartNow(scanning) ==
  /\ hasCentral /\ radio = "on"
  /\ availability' = radio
  /\ \E now \in Radio : BeginSession(now, undelivered, scanning)
  /\ UNCHANGED hasCentral

Starting(view, scanning) ==
  AwaitRadio(view, scanning) \/ RefuseStart(scanning) \/ StartNow(scanning)

\* interrupt(reason:) of a scanning session; stopScan stops the manager when
\* it is still scanning.
Interrupt ==
  /\ isScanning' = FALSE
  /\ ticking' = FALSE
  /\ CloseSegment /\ OpenSegment(FALSE)
  /\ interruptions' = interruptions + 1
  /\ state' = "interrupted"
  /\ Refresh
  /\ UNCHANGED counters

-----------------------------------------------------------------------------
(* Taps.                                                                   *)

Acknowledge ==
  /\ ~acknowledged
  /\ acknowledged' = TRUE
  /\ UNCHANGED <<session, clock, active, awaiting, availability, screen, bluetooth, export>>

MayStart == acknowledged /\ state = "idle" /\ ~awaiting /\ active

Start ==
  /\ MayStart
  /\ Cleared
  /\ Starting(shown, isScanning)
  /\ state' = "idle" => UNCHANGED segments
  /\ UNCHANGED <<counters, interruptions, clock, acknowledged, active>>

StartUncleared ==
  /\ MayStart
  /\ ClearFails
  /\ UNCHANGED <<session, clock, acknowledged, active, awaiting, availability, screen,
                 bluetooth>>

CancelPendingStart ==
  /\ awaiting
  /\ awaiting' = FALSE
  /\ UNCHANGED <<session, clock, acknowledged, active, availability, ticking, bluetooth,
                 export>>
  /\ Refresh

Pause ==
  /\ state = "scanning"
  /\ Interrupt
  /\ UNCHANGED <<clock, acknowledged, active, awaiting, availability, hasCentral, radio,
                 undelivered, export>>

\* isRadioReadyNow is read first, central.state again by beginScanIfPossible.
Resume ==
  /\ state = "interrupted" /\ interruptions < MaxInterruptions
  /\ availability = "on" /\ radio = "on"
  /\ active
  /\ CloseSegment /\ OpenSegment(TRUE)
  /\ state' = "scanning"
  /\ \E now \in Radio :
       /\ Drift(now, undelivered)
       /\ isScanning' = (isScanning \/ now = "on")
  /\ ticking' = TRUE
  /\ Refresh
  /\ UNCHANGED <<counters, interruptions, clock, acknowledged, active, awaiting,
                 availability, hasCentral, export>>

Stop ==
  /\ state \in {"scanning", "interrupted"}
  /\ isScanning' = FALSE
  /\ ticking' = FALSE
  /\ CloseSegment
  /\ segment' = NoSegment /\ scanningSegment' = FALSE
  /\ state' = "finished"
  /\ Refresh
  /\ UNCHANGED <<counters, interruptions, clock, acknowledged, active, awaiting,
                 availability, hasCentral, radio, undelivered, export>>

\* Offered once the session is finished, as New session and Export are.
DiscardResult ==
  /\ shown = "finished"
  /\ Cleared
  /\ isScanning' = FALSE /\ ticking' = FALSE
  /\ awaiting' = FALSE
  /\ state' = "idle"
  /\ FreshCounters /\ FreshSegments
  /\ Refresh
  /\ UNCHANGED <<clock, acknowledged, active, availability, hasCentral, radio, undelivered>>

\* discardResult stops before the reset; New session then stops as well.
DiscardUncleared ==
  /\ shown = "finished"
  /\ ClearFails
  /\ isScanning' = FALSE /\ ticking' = FALSE
  /\ UNCHANGED <<session, clock, acknowledged, active, awaiting, availability, hasCentral,
                 radio, undelivered>>
  /\ Refresh

\* Discard, then start: its second clear finds no directory.
StartNewSession ==
  /\ shown = "finished"
  /\ acknowledged /\ active
  /\ Cleared
  /\ FreshCounters
  /\ Starting("idle", FALSE)
  /\ state' = "idle" => FreshSegments
  /\ UNCHANGED <<clock, acknowledged, active>>

\* makeDocument and encode, then write: clear, create the directory, write.
Export ==
  /\ state = "finished"
  /\ Exportable
  /\ cached' = "current" /\ exportURL' = "current" /\ exportFailure' = FALSE
  /\ UNCHANGED <<session, clock, acknowledged, active, awaiting, availability, screen,
                 bluetooth>>

ExportFails ==
  /\ state = "finished"
  /\ cached' \in IF Exportable THEN {cached, "empty", "none"} ELSE {cached}
  /\ exportURL' = "none" /\ exportFailure' = TRUE
  /\ UNCHANGED <<session, clock, acknowledged, active, awaiting, availability, screen,
                 bluetooth>>

-----------------------------------------------------------------------------
(* Scene phases, callbacks, the radio, the clock, the process.             *)

Activate ==
  /\ ~active
  /\ active' = TRUE
  /\ IF awaiting /\ hasCentral /\ radio = "on" /\ state = "idle"
       THEN /\ \E now \in Radio : BeginSession(now, undelivered, isScanning)
            /\ NewIdentifier
       ELSE /\ UNCHANGED <<state, segments, awaiting, ticking, radio, isScanning,
                           undelivered, export>>
            /\ Refresh
  /\ UNCHANGED <<counters, interruptions, clock, acknowledged, availability, hasCentral>>

Deactivate ==
  /\ active
  /\ active' = FALSE
  /\ IF state = "scanning" THEN Interrupt
     ELSE UNCHANGED <<session, screen, isScanning>>
  /\ UNCHANGED <<clock, acknowledged, awaiting, availability, hasCentral, radio,
                 undelivered, export>>

\* centralManagerDidUpdateState: applyRadioState of central.state as it is
\* when the callback runs, and what RadioGate.decide makes of it.
LosesRadioToAnswer ==
  /\ radio # "on" /\ state = "scanning"
  /\ awaiting' = FALSE
  /\ IF radio = "off" THEN Interrupt ELSE UNCHANGED <<session, screen, isScanning>>
  /\ undelivered' = FALSE
  /\ UNCHANGED <<radio, export>>

\* Losing readiness to "unknown" interrupts a scan as any other loss does.
LosesRadio ==
  /\ radio # "on" /\ state = "scanning"
  /\ awaiting' = FALSE
  /\ Interrupt
  /\ undelivered' = FALSE
  /\ UNCHANGED <<radio, export>>

RadioAnswers ==
  /\ radio = "on" /\ awaiting /\ state = "idle" /\ active
  /\ \E now \in Radio : BeginSession(now, FALSE, isScanning)
  /\ NewIdentifier
  /\ UNCHANGED <<counters, interruptions>>

\* A negative answer drops a pending Start.
Holds ==
  /\ \/ radio # "on" /\ state # "scanning"
     \/ radio = "on" /\ ~(awaiting /\ state = "idle" /\ active)
  /\ awaiting' = (awaiting /\ radio # "off")
  /\ undelivered' = FALSE
  /\ UNCHANGED <<session, ticking, radio, isScanning, export>>
  /\ Refresh

DidUpdateState ==
  /\ undelivered
  /\ availability' = radio
  /\ LosesRadio \/ RadioAnswers \/ Holds
  /\ UNCHANGED <<clock, acknowledged, active, hasCentral>>

\* CoreBluetooth's side: central.state changes before its callback is delivered
\* on the main queue, and not again before that.  A manager that leaves "on"
\* may or may not end the scan it was running.
RadioMoves ==
  /\ hasCentral /\ ~undelivered
  /\ \E now \in Radio \ {radio} :
       /\ radio' = now
       /\ isScanning' \in {isScanning, isScanning /\ now = "on"}
  /\ undelivered' = TRUE
  /\ UNCHANGED <<session, clock, acknowledged, active, awaiting, availability, screen,
                 hasCentral, export>>

\* The clock's contract is that it never goes back; the accumulator does not
\* rely on it.
ClockMoves ==
  /\ segment # NoSegment
  /\ \E t \in 0 .. MaxClock : t # clock /\ clock' = t
  /\ UNCHANGED <<session, acknowledged, active, awaiting, availability, screen, bluetooth,
                 export>>

\* iOS ends the process and the app is launched again; init clears the cache
\* and goes on when that fails.
Relaunch ==
  /\ state' = "idle" /\ FreshCounters /\ FreshSegments
  /\ clock' = 0
  /\ acknowledged' = FALSE /\ active' = TRUE /\ awaiting' = FALSE
  /\ availability' = "unknown"
  /\ ticking' = FALSE /\ Refresh
  /\ hasCentral' = FALSE /\ radio' = "unknown" /\ isScanning' = FALSE /\ undelivered' = FALSE
  /\ exportURL' = "none"
  /\ \/ cached' = "none" /\ exportFailure' = FALSE
     \/ /\ cached # "none"
        /\ cached' \in {Renamed(cached), "empty"}
        /\ exportFailure' = TRUE

Init ==
  /\ state = "idle" /\ shown = "idle" /\ ticking = FALSE
  /\ outcomes = [p \in Peripherals |-> Absent]
  /\ heard = [p \in Peripherals |-> {}]
  /\ categoryCounts = [c \in Categories |-> 0]
  /\ ruleCounts = [r \in Rules |-> 0]
  /\ uncounted = 0 /\ interruptions = 0
  /\ clock = 0 /\ segment = NoSegment /\ scanningSegment = FALSE
  /\ wall = 0 /\ foreground = 0
  /\ acknowledged = FALSE /\ active = TRUE /\ awaiting = FALSE
  /\ availability = "unknown" /\ hasCentral = FALSE /\ radio = "unknown"
  /\ isScanning = FALSE /\ undelivered = FALSE
  /\ cached = "none" /\ exportURL = "none" /\ exportFailure = FALSE

Next ==
  \/ \E p \in Peripherals, S \in Sightings : Record(p, S)
  \/ Acknowledge \/ Start \/ StartUncleared \/ CancelPendingStart
  \/ Pause \/ Resume \/ Stop
  \/ DiscardResult \/ DiscardUncleared \/ StartNewSession \/ Export \/ ExportFails
  \/ Activate \/ Deactivate \/ DidUpdateState \/ RadioMoves \/ ClockMoves \/ Relaunch

Spec == Init /\ [][Next]_vars

-----------------------------------------------------------------------------
(* Properties.                                                             *)

\* The state is well formed, and "the app never reports scanning it is not doing": while the screen says
\* scanning the scene is active, the ticker runs and either the manager scans
\* or the callback that will interrupt the session is on its way; the manager
\* never scans outside a scanning session; and no Start is left waiting for a
\* radio that has already answered.
ControllerHonest ==
  /\ TypeOK
  /\ shown = state
  /\ ticking = (state = "scanning")
  /\ state = "scanning" => active /\ ~awaiting /\ (isScanning \/ undelivered)
  /\ isScanning => state = "scanning"
  /\ awaiting => state = "idle" /\ (active /\ radio # "unknown" => undelivered)

\* Merging is independent of how advertisements were grouped or ordered: every
\* advertiser retained holds the classification of everything heard from it
\* in the session, and one that is not retained was dropped because the
\* session was full.
VerdictOfAllHeard ==
  /\ \A p \in Retained : outcomes[p] = Classify(heard[p])
  /\ \A p \in Peripherals \ Retained :
       heard[p] # {} => Cardinality(Retained) >= AdvertiserLimit

\* Every finished session passes all of makeDocument's checks, however its
\* outcomes were reclassified, its scan interrupted and its clock turned back;
\* the disk never holds an earlier session's export once a session has begun,
\* and only a finished session publishes one.
ExportsSound ==
  /\ state = "finished" => Exportable
  /\ state # "idle" => cached # "stale"
  /\ exportURL = "current" => state = "finished"
  /\ exportURL # "stale"

=============================================================================
