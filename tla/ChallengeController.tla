------------------------- MODULE ChallengeController -------------------------
(***************************************************************************)
(* The iPhone's challenge session: ChallengeBLEController drives Core      *)
(* Bluetooth and the preflight requests, ChallengeSession checks the three *)
(* answers, and a completed observation goes to the ObservationCache.      *)
(* Everything runs on the main actor, one callback, timer or task at a     *)
(* time.  A callback that the guards of its handler ignore changes nothing *)
(* and is left out; so are the labels the view shows, the round trip times *)
(* and the local sensors.                                                  *)
(***************************************************************************)
EXTENDS Integers, Sequences, FiniteSets

CONSTANTS
    Devices, Epochs, None,
    Counting,   \* devices whose INFO claims capability bit 1, the monotonic counter
    MaxSessions, MaxInterruptions   \* bounds of the model

Ended == {"idle", "finished", "failed", "interrupted"}
Stages == Ended \cup {"preparingService", "waitingForRadio", "scanning", "connecting", "services",
    "characteristics", "info", "preflight", "subscribing", "pacing", "challenge", "readFallback"}

Errors == {"radio", "timeout", "service", "ineligible", "connect", "disconnected", "gatt", "short", "signals",
           "malformed", "noPendingChallenge", "invalidSignature", "nonIncreasingCounter", "tooSoon", "capture"}

ASSUME ControllerAssumption ==
    /\ Counting \subseteq Devices
    /\ None \notin Devices /\ None \notin Epochs /\ None \notin Stages \cup Errors
    /\ None \notin [device: Devices, epoch: Epochs] /\ None \notin [nonce: Nat, epoch: Epochs \cup {None}]
    /\ MaxSessions \in Nat /\ MaxInterruptions \in Nat

VARIABLES
    phone,     \* the controller with its ChallengeSession
    tasks,     \* requests whose Task has not resumed, those of ended sessions too
    scene,     \* ScenePhase
    radio,     \* CBManagerState
    links,     \* peripherals whose state is not disconnected
    air,       \* answers of the connected device that may arrive, once or again
    counters,  \* the counter each device signed last
    cache,     \* completed captures by key
    interruptions

vars == <<phone, tasks, scene, radio, links, air, counters, cache, interruptions>>

Challenges == 3

Keys == [device: Devices, epoch: Epochs]
Challenge == [nonce: Nat, epoch: Epochs \cup {None}]
Response == [device: Devices, challenge: Challenge, counter: Nat]
Task == [kind: {"prepare", "resolve"}, generation: Nat, device: Devices \cup {None}]

Blank ==
    [stage |-> "idle", running |-> FALSE, observation |-> FALSE, generation |-> 0, prepared |-> FALSE,
     peripheral |-> None, notifying |-> FALSE, rssi |-> FALSE, key |-> None, timer |-> None, error |-> None,
     info |-> None, results |-> <<>>, pending |-> None, spaced |-> TRUE, drawn |-> 0]

\* The controller runs exactly outside its four end stages, and never holds the
\* three results of a finished session.
TypeOK ==
    /\ phone \in [stage: Stages, running: BOOLEAN, observation: BOOLEAN, generation: Nat, prepared: BOOLEAN,
                  peripheral: Devices \cup {None}, notifying: BOOLEAN, rssi: BOOLEAN, key: Keys \cup {None},
                  timer: Stages \cup {None}, error: Errors \cup {None},
                  info: Devices \cup {None}, results: Seq(Response), pending: Challenge \cup {None},
                  spaced: BOOLEAN, drawn: Nat]
    /\ phone.running <=> phone.stage \notin Ended
    /\ Len(phone.results) < Challenges
    /\ tasks \subseteq Task
    /\ scene \in {"active", "inactive", "background"} /\ radio \in {"unknown", "on", "off"}
    /\ links \subseteq Devices /\ air \subseteq Response
    /\ counters \in [Devices -> Nat]
    /\ cache \in [Keys -> Seq(Response)]
    /\ interruptions \in Nat

Init ==
    /\ phone = Blank /\ tasks = {}
    /\ scene = "active" /\ radio = "unknown"
    /\ links = {} /\ air = {}
    /\ counters = [d \in Devices |-> 0]
    /\ cache = [k \in Keys |-> <<>>]
    /\ interruptions = 0

-----------------------------------------------------------------------------
(* Steps the handlers share, as functions of the controller's record.  Only  *)
(* a stage with a timer is entered through Enter.                            *)

Enter(p, stage) == [p EXCEPT !.stage = stage, !.timer = stage]

\* stopConnection and a fresh start: every end changes the generation.
Stop(p, stage) == [Blank EXCEPT !.stage = stage, !.generation = p.generation + 1, !.drawn = p.drawn]

Fail(p, error) == [Stop(p, "failed") EXCEPT !.error = error]

\* handleRadioState
Radio(p, state, phase) ==
    CASE ~p.running -> p
      [] p.running /\ state = "off" -> Fail(p, "radio")
      [] p.running /\ state = "unknown" -> IF p.stage = "waitingForRadio" THEN p ELSE Fail(p, "radio")
      [] p.running /\ state = "on" ->
            IF p.stage = "waitingForRadio" /\ phase = "active" THEN Enter(p, "scanning") ELSE p

BeginBluetooth(p, phase) == Radio(Enter(p, "waitingForRadio"), radio, phase)

\* sendNextChallenge with beginChallenge, whose nonce is always new
Send(p) ==
    IF ~p.spaced THEN Fail(p, "tooSoon")
    ELSE [Enter(p, "challenge") EXCEPT !.drawn = @ + 1, !.spaced = FALSE,
            !.pending = [nonce |-> p.drawn, epoch |-> IF p.key = None THEN None ELSE p.key.epoch]]

\* scheduleNextChallenge
NextChallenge(p) == IF p.spaced THEN Send(p) ELSE [p EXCEPT !.stage = "pacing", !.timer = None]

-----------------------------------------------------------------------------
(* Starting, stopping, and what happens around the app. *)

\* start and startObservation
Start(observation) ==
    LET p == [Stop(phone, "idle") EXCEPT !.running = TRUE, !.observation = observation] IN
    /\ ~phone.running /\ scene = "active"
    /\ phone.generation < 2 * MaxSessions
    /\ IF observation
       THEN /\ phone' = Enter(p, "preparingService")
            /\ tasks' = tasks \cup {[kind |-> "prepare", generation |-> p.generation, device |-> None]}
       ELSE /\ phone' = BeginBluetooth(p, scene)
            /\ UNCHANGED tasks
    /\ UNCHANGED <<scene, radio, links, air, counters, cache, interruptions>>

Cancel ==
    /\ phone.running
    /\ phone' = Stop(phone, "interrupted")
    /\ UNCHANGED <<tasks, scene, radio, links, air, counters, cache, interruptions>>

\* The timer runs again when the app comes back.
Resumed(p) ==
    CASE p.running /\ p.stage = "preparingService" /\ p.prepared -> BeginBluetooth(p, "active")
      [] p.running /\ p.stage = "waitingForRadio" -> Radio(Enter(p, "waitingForRadio"), radio, "active")
      [] OTHER -> p

\* A permission alert makes the scene inactive and must not end the session.
Left(p, phase) ==
    CASE p.running /\ phase = "inactive" /\ p.stage \in {"waitingForRadio", "preparingService"} -> [p EXCEPT !.timer = None]
      [] p.running /\ ~(phase = "inactive" /\ p.stage \in {"waitingForRadio", "preparingService"}) -> Stop(p, "interrupted")
      [] OTHER -> p

\* handleScenePhase
Resume ==
    /\ scene # "active"
    /\ scene' = "active"
    /\ phone' = Resumed(phone)
    /\ UNCHANGED <<tasks, radio, links, air, counters, cache, interruptions>>

Leave(phase) ==
    /\ phase # scene /\ interruptions < MaxInterruptions
    /\ scene' = phase
    /\ interruptions' = interruptions + 1
    /\ phone' = Left(phone, phase)
    /\ UNCHANGED <<tasks, radio, links, air, counters, cache>>

RadioChanges(state) ==
    /\ state # radio
    /\ radio' = state
    /\ phone' = Radio(phone, state, scene)
    /\ UNCHANGED <<tasks, scene, links, air, counters, cache, interruptions>>

\* The block of setTimeout, and the session's expirePending.
TimerFires ==
    /\ phone.timer # None
    /\ phone' = IF phone.running /\ phone.timer = phone.stage THEN Fail(phone, "timeout") ELSE [phone EXCEPT !.timer = None]
    /\ UNCHANGED <<tasks, scene, radio, links, air, counters, cache, interruptions>>

-----------------------------------------------------------------------------
(* Requests to the service. *)

CurrentByStage(task) == phone.running /\ phone.stage = (IF task.kind = "prepare" THEN "preparingService" ELSE "preflight")

\* A Task that resumes after its session ended must not touch the next one.
Current(task) == phone.running /\ phone.generation = task.generation

Prepared(task) ==
    /\ task \in tasks /\ task.kind = "prepare"
    /\ tasks' = tasks \ {task}
    /\ phone' = IF ~Current(task) THEN phone
                ELSE IF scene = "active" THEN BeginBluetooth([phone EXCEPT !.prepared = TRUE], scene)
                ELSE [phone EXCEPT !.prepared = TRUE]
    /\ UNCHANGED <<scene, radio, links, air, counters, cache, interruptions>>

RequestFailsQuietly(task) ==
    /\ task \in tasks
    /\ tasks' = tasks \ {task}
    /\ UNCHANGED <<phone, scene, radio, links, air, counters, cache, interruptions>>

RequestFails(task) ==
    /\ task \in tasks
    /\ tasks' = tasks \ {task}
    /\ phone' = IF Current(task) THEN Fail(phone, "service") ELSE phone
    /\ UNCHANGED <<scene, radio, links, air, counters, cache, interruptions>>

\* cache.completed
Stored(key) == cache[key] # <<>>

EligibleAwaiting(key) == [Enter(phone, "subscribing") EXCEPT !.key = key]

\* Both the subscription and the answer are needed, in either order.
EligibleNow(key) ==
    LET p == [Enter(phone, "subscribing") EXCEPT !.key = key] IN
    IF p.notifying THEN NextChallenge(p) ELSE p

\* beginObservationPreflight after resolve: a capture of this epoch is
\* restored; otherwise the device must be registered and the visit permitted.
Resolved(task, epoch) ==
    LET key == [device |-> task.device, epoch |-> epoch] IN
    /\ task \in tasks /\ task.kind = "resolve"
    /\ tasks' = tasks \ {task}
    /\ \/ ~Current(task) /\ UNCHANGED phone
       \/ Current(task) /\ phone' = Fail(phone, "ineligible")
       \/ Current(task) /\ Stored(key) /\ phone' = Stop(phone, "finished")
       \/ Current(task) /\ ~Stored(key) /\ phone' = EligibleNow(key)
    /\ UNCHANGED <<scene, radio, links, air, counters, cache, interruptions>>

-----------------------------------------------------------------------------
(* Core Bluetooth. *)

\* connect: a peripheral still disconnecting is let go and may be found again.
ConnectTo(d) ==
    IF d \in links
    THEN phone' = [phone EXCEPT !.peripheral = None] /\ UNCHANGED links
    ELSE phone' = [Enter(phone, "connecting") EXCEPT !.peripheral = d] /\ links' = links \cup {d}

\* didDiscover; without service data the first candidate waits for the grace
\* timer, which runs as long as there is a candidate.
Discover(d) ==
    /\ phone.stage = "scanning"
    /\ \/ ConnectTo(d)
       \/ /\ phone.peripheral = None
          /\ phone' = [phone EXCEPT !.peripheral = d]
          /\ UNCHANGED links
    /\ UNCHANGED <<tasks, scene, radio, air, counters, cache, interruptions>>

GraceEnds ==
    /\ phone.stage = "scanning" /\ phone.peripheral # None
    /\ ConnectTo(phone.peripheral)
    /\ UNCHANGED <<tasks, scene, radio, air, counters, cache, interruptions>>

\* didConnect, didDiscoverServices, didDiscoverCharacteristicsFor, each with
\* its error.
Discovered ==
    /\ \/ phone.stage = "connecting" /\ phone' = Enter(phone, "services")
       \/ phone.stage = "services" /\ phone' = Enter(phone, "characteristics")
       \/ phone.stage = "characteristics" /\ phone' = Enter(phone, "info")
       \/ phone.stage \in {"services", "characteristics"} /\ phone' = Fail(phone, "gatt")
    /\ UNCHANGED <<tasks, scene, radio, links, air, counters, cache, interruptions>>

DidFailToConnect ==
    /\ phone.stage = "connecting"
    /\ phone' = Fail(phone, "connect")
    /\ links' = links \ {phone.peripheral}
    /\ UNCHANGED <<tasks, scene, radio, air, counters, cache, interruptions>>

\* didDisconnectPeripheral, also the late one of an ended session
Disconnected(d) ==
    /\ d \in links
    /\ links' = links \ {d}
    /\ air' = {r \in air : r.device # d}
    /\ phone' = IF phone.running /\ phone.peripheral = d /\ phone.stage \notin {"scanning", "waitingForRadio"}
                THEN Fail(phone, "disconnected") ELSE phone
    /\ UNCHANGED <<tasks, scene, radio, counters, cache, interruptions>>

\* A failed read, subscription or write.
GattFails ==
    /\ phone.stage \in {"info", "preflight", "subscribing", "pacing", "challenge", "readFallback"}
    /\ phone' = Fail(phone, "gatt")
    /\ UNCHANGED <<tasks, scene, radio, links, air, counters, cache, interruptions>>

\* INFO: the device is known, and an observation asks the service about it
\* while the subscription is made.
InfoRead ==
    LET p == [phone EXCEPT !.info = phone.peripheral] IN
    /\ phone.stage = "info"
    /\ IF phone.observation
       THEN /\ phone' = Enter(p, "preflight")
            /\ tasks' = tasks \cup {[kind |-> "resolve", generation |-> p.generation, device |-> p.info]}
       ELSE /\ phone' = Enter(p, "subscribing")
            /\ UNCHANGED tasks
    /\ UNCHANGED <<scene, radio, links, air, counters, cache, interruptions>>

\* didUpdateNotificationStateFor
Subscribed ==
    /\ phone.stage \in {"preflight", "subscribing"}
    /\ phone' = LET p == [phone EXCEPT !.notifying = TRUE] IN
                IF p.stage = "preflight" THEN p ELSE NextChallenge(p)
    /\ UNCHANGED <<tasks, scene, radio, links, air, counters, cache, interruptions>>

DidReadRSSI ==
    /\ phone.observation /\ phone.peripheral # None /\ phone.stage \notin {"scanning", "connecting"}
    /\ phone' = [phone EXCEPT !.rssi = TRUE]
    /\ UNCHANGED <<tasks, scene, radio, links, air, counters, cache, interruptions>>

SpacingPasses ==
    /\ phone.running /\ ~phone.spaced
    /\ phone' = [phone EXCEPT !.spaced = TRUE]
    /\ UNCHANGED <<tasks, scene, radio, links, air, counters, cache, interruptions>>

PacingFires ==
    /\ phone.stage = "pacing" /\ phone.spaced
    /\ phone' = NextChallenge(phone)
    /\ UNCHANGED <<tasks, scene, radio, links, air, counters, cache, interruptions>>

\* The device signs what was written to it.  Its counter may fail to rise:
\* one that claims a counter is caught, of the others it means nothing.
DeviceAnswers ==
    /\ phone.pending # None /\ phone.peripheral \in links
    /\ \A r \in air : r.challenge # phone.pending
    /\ \E counter \in {counters[phone.peripheral], counters[phone.peripheral] + 1} :
        /\ air' = air \cup {[device |-> phone.peripheral, challenge |-> phone.pending, counter |-> counter]}
        /\ counters' = [counters EXCEPT ![phone.peripheral] = counter]
    /\ UNCHANGED <<phone, tasks, scene, radio, links, cache, interruptions>>

AcceptedNone(r) == FALSE

\* acceptedResponses
Accepted(r) == \E i \in DOMAIN phone.results : phone.results[i] = r

LastCounter == IF phone.results = <<>> THEN 0 ELSE phone.results[Len(phone.results)].counter

\* ChallengeSession.receive, for an answer it did not accept before
Rejection(r) ==
    CASE phone.pending = None -> "noPendingChallenge"
      [] phone.pending # None /\ (r.challenge # phone.pending \/ r.device # phone.info) -> "invalidSignature"
      [] /\ phone.pending = r.challenge /\ r.device = phone.info
         /\ phone.info \in Counting /\ r.counter <= LastCounter -> "nonIncreasingCounter"
      [] OTHER -> None

Verified(r) == [phone EXCEPT !.results = Append(@, r), !.pending = None]

Listening == phone.stage \in {"challenge", "readFallback"}

\* handleResponse with one of the first two answers, a late one or a bad one
Receive(r) ==
    /\ Listening /\ r \in air /\ r.device = phone.peripheral
    /\ \/ Accepted(r) /\ UNCHANGED phone
       \/ ~Accepted(r) /\ Rejection(r) # None /\ phone' = Fail(phone, Rejection(r))
       \/ ~Accepted(r) /\ Rejection(r) = None /\ phone.observation /\ ~phone.rssi /\ phone' = Fail(phone, "signals")
       \/ /\ ~Accepted(r) /\ Rejection(r) = None /\ (phone.observation => phone.rssi)
          /\ Len(phone.results) + 1 < Challenges
          /\ phone' = NextChallenge(Verified(r))
    /\ UNCHANGED <<tasks, scene, radio, links, air, counters, cache, interruptions>>

\* ObservationCapture.init and validate
Valid(results) ==
    /\ \A i \in DOMAIN results : results[i].challenge.epoch = phone.key.epoch /\ results[i].device = phone.info
    /\ phone.info \in Counting => results[1].counter > 0
    /\ \A i, j \in DOMAIN results : i < j =>
        /\ results[i].challenge # results[j].challenge
        /\ phone.info \in Counting => results[i].counter < results[j].counter

\* FileObservationCache.save: the entries of epochs long past go, and beyond
\* 256 the oldest; which ones a save drops is left open.
Save(key, results, dropped) ==
    [k \in Keys |-> IF k \in dropped THEN <<>> ELSE IF k = key THEN results ELSE cache[k]]

\* The third answer and finish: the capture is saved before success is shown.
\* The capture may be found invalid or the save may fail.
Complete(r) ==
    LET results == Verified(r).results IN
    /\ Listening /\ r \in air /\ r.device = phone.peripheral
    /\ ~Accepted(r) /\ Rejection(r) = None /\ (phone.observation => phone.rssi)
    /\ Len(results) = Challenges
    /\ \/ ~phone.observation /\ phone' = Stop(phone, "finished") /\ UNCHANGED cache
       \/ /\ phone.observation
          /\ Valid(results)
          /\ \E dropped \in SUBSET Keys : cache' = Save(phone.key, results, dropped)
          /\ phone' = Stop(phone, "finished")
       \/ phone.observation /\ phone' = Fail(phone, "capture") /\ UNCHANGED cache
    /\ UNCHANGED <<tasks, scene, radio, links, air, counters, interruptions>>

\* A notification cut by the MTU: an observation needs it whole, otherwise
\* the answer is read once.
ShortNotification ==
    /\ Listening /\ air # {}
    /\ phone' = IF phone.observation THEN Fail(phone, "short")
                ELSE IF phone.stage = "challenge" THEN Enter(phone, "readFallback")
                ELSE Fail(phone, "short")
    /\ UNCHANGED <<tasks, scene, radio, links, air, counters, cache, interruptions>>

\* Bytes that are no response, or INFO that is none or not the advertised one.
Malformed ==
    /\ Listening \/ phone.stage = "info"
    /\ phone' = Fail(phone, "malformed")
    /\ UNCHANGED <<tasks, scene, radio, links, air, counters, cache, interruptions>>

-----------------------------------------------------------------------------
RequestEnds == \E t \in tasks : Prepared(t) \/ RequestFails(t) \/ \E e \in Epochs : Resolved(t, e)

Next ==
    \/ \E observation \in BOOLEAN : Start(observation)
    \/ Cancel \/ Resume \/ TimerFires \/ PacingFires \/ SpacingPasses
    \/ \E phase \in {"inactive", "background"} : Leave(phase)
    \/ \E state \in {"unknown", "on", "off"} : RadioChanges(state)
    \/ RequestEnds
    \/ \E d \in Devices : Discover(d) \/ Disconnected(d)
    \/ GraceEnds \/ Discovered \/ DidFailToConnect \/ GattFails
    \/ InfoRead \/ Subscribed \/ DidReadRSSI
    \/ DeviceAnswers
    \/ \E r \in air : Receive(r) \/ Complete(r)
    \/ ShortNotification \/ Malformed

Spec == Init /\ [][Next]_vars

\* Timers fire, requests end (they time out after ten seconds), and an app is
\* not left inactive for ever.  Nothing is assumed of Bluetooth or the user.
Fairness ==
    /\ WF_vars(TimerFires) /\ WF_vars(PacingFires) /\ WF_vars(SpacingPasses)
    /\ WF_vars(RequestEnds) /\ WF_vars(Resume)

FairSpec == Spec /\ Fairness

-----------------------------------------------------------------------------
(* Properties. *)

\* What the cache holds for a device and an epoch are three answers of that
\* very device to fresh challenges of that epoch, whatever requests of earlier
\* sessions came back meanwhile; the counter of a device that claims one rises.
CaptureSound ==
    \A k \in Keys : Stored(k) =>
        /\ Len(cache[k]) = Challenges
        /\ \A i \in 1 .. Challenges : cache[k][i].device = k.device /\ cache[k][i].challenge.epoch = k.epoch
        /\ \A i, j \in 1 .. Challenges : i < j =>
            /\ k.device \in Counting => cache[k][i].counter < cache[k][j].counter
            /\ cache[k][i].challenge.nonce < cache[k][j].challenge.nonce

\* A device whose capture of an epoch is in the cache is not challenged for that
\* epoch; one whose capture a later save dropped may be.
NotChallengedAgain == phone.pending # None /\ phone.key # None => cache[phone.key] = <<>>

\* A running session has a timer for the stage it is in.  Only pacing has its
\* own, and only while the app is inactive, or its first request is pending,
\* may there be none.
TimerArmed ==
    phone.running =>
        \/ phone.timer = phone.stage
        \/ phone.stage \in {"pacing", "preparingService"}
        \/ phone.stage = "waitingForRadio" /\ scene = "inactive"

\* Once both the subscription and the permission are there the first challenge
\* is sent, whichever came first.
SubscribedOnce == phone.stage = "subscribing" => ~phone.notifying

\* Late and repeated answers of an honest radio never fail a session, and the
\* phone never writes before the device's rate limit allows it.
NoSpuriousFailure == phone.error \notin {"noPendingChallenge", "invalidSignature", "tooSoon"}

\* Every session ends.
SessionEnds == phone.running ~> ~phone.running

\* In every stage the controller has what that stage needs: its timer, a
\* subscription still to come, a device whose capture is not in the cache.
ControllerConsistent == TypeOK /\ TimerArmed /\ SubscribedOnce /\ NotChallengedAgain
==============================================================================
