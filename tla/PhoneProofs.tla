------------------------------ MODULE PhoneProofs ------------------------------
(* Theorems about the iPhone app: ChallengeController, for any devices and     *)
(* epochs and any number of sessions and interruptions; and, as instances that *)
(* share nothing with it, the withdrawals of PayoutRecovery and the submission *)
(* queue of ObservationOutbox, for any limits.                                 *)
EXTENDS ChallengeController, MCPhoneFiles, FiniteSetTheorems, WellFoundedInduction, TLAPS

-----------------------------------------------------------------------------
(* The challenge controller: the inductive invariant. *)

Phone == [stage: Stages, running: BOOLEAN, observation: BOOLEAN, generation: Nat, prepared: BOOLEAN,
          peripheral: Devices \cup {None}, notifying: BOOLEAN, rssi: BOOLEAN, key: Keys \cup {None},
          timer: Stages \cup {None}, error: Errors \cup {None},
          info: Devices \cup {None}, results: Seq(Response), pending: Challenge \cup {None},
          spaced: BOOLEAN, drawn: Nat]

Before == {"preparingService", "waitingForRadio", "scanning"}
Linking == {"connecting", "services", "characteristics", "info"}
Asking == {"preflight", "subscribing"}
Awaiting == {"challenge", "readFallback"}
Visiting == Awaiting \cup {"pacing"}

Spurious == {"noPendingChallenge", "invalidSignature", "tooSoon"}

\* Nothing of a session is left, or there yet.
NoAnswers(p) == p.results = <<>> /\ p.pending = None /\ p.spaced
NoDevice(p) == p.info = None /\ p.key = None /\ ~p.notifying /\ NoAnswers(p)

\* What the controller holds in each stage.
Shape(p) ==
    /\ p.running <=> p.stage \notin Ended
    /\ p.error \notin Spurious
    /\ p.stage \in Ended => NoDevice(p) /\ p.peripheral = None /\ p.timer = None /\ ~p.observation
    /\ p.stage \in Before \cup Linking => NoDevice(p)
    /\ p.stage \in {"preparingService", "waitingForRadio"} => p.peripheral = None
    /\ p.stage \in Linking \cup Asking \cup Visiting => p.peripheral # None
    /\ p.stage \in Asking => NoAnswers(p)
    /\ p.stage \in Asking \cup Visiting => p.info = p.peripheral
    /\ p.stage = "preflight" => p.observation /\ p.key = None
    /\ p.stage \in {"subscribing"} \cup Visiting => (p.observation <=> p.key # None)
    /\ p.stage = "subscribing" => ~p.notifying
    /\ p.key # None => p.key.device = p.info
    /\ p.pending # None <=> p.stage \in Awaiting

\* Each answer was to a later challenge than the ones before it.
Ordered(p) ==
    /\ Len(p.results) < Challenges
    /\ \A i, j \in 1 .. Len(p.results) : i < j => p.results[i].challenge.nonce < p.results[j].challenge.nonce
    /\ \A i \in 1 .. Len(p.results) : p.results[i].challenge.nonce < p.drawn
    /\ p.pending # None =>
          /\ p.pending.nonce < p.drawn
          /\ \A i \in 1 .. Len(p.results) : p.results[i].challenge.nonce < p.pending.nonce

Clock(p, phase) ==
    p.running =>
        /\ p.timer \in {None, p.stage}
        /\ \/ p.timer = p.stage
           \/ p.stage \in {"pacing", "preparingService"}
           \/ p.stage = "waitingForRadio" /\ phase = "inactive"

\* A request of the running session is the one its stage waits for.
Requests(p, waiting) ==
    \A t \in waiting :
        /\ t.generation <= p.generation
        /\ t.kind = "prepare" => t.device = None
        /\ t.generation = p.generation =>
              /\ p.running
              /\ t.kind = "prepare" => p.stage = "preparingService" /\ ~p.prepared
              /\ t.kind = "resolve" => p.stage = "preflight" /\ t.device = p.info

\* Of the device that is visited nothing is in the air but the answer to the
\* pending challenge, and answers accepted before.
Air(p, answers, linked) ==
    /\ \A r \in answers : r.device \in linked /\ r.challenge.nonce < p.drawn
    /\ p.stage \in Linking \cup Asking => \A r \in answers : r.device # p.peripheral
    /\ p.stage \in Visiting =>
          \A r \in answers : r.device = p.peripheral =>
              \/ p.pending # None /\ r.challenge = p.pending
              \/ \E i \in 1 .. Len(p.results) : p.results[i] = r
    /\ p.pending # None =>
          \A r, s \in answers : r.challenge = p.pending /\ s.challenge = p.pending => r = s

Uncaptured(p, captures) == p.key # None => captures[p.key] = <<>>

Typed ==
    /\ phone \in Phone
    /\ tasks \subseteq Task
    /\ scene \in {"active", "inactive", "background"} /\ radio \in {"unknown", "on", "off"}
    /\ links \subseteq Devices /\ air \subseteq Response
    /\ counters \in [Devices -> Nat]
    /\ cache \in [Keys -> Seq(Response)]
    /\ interruptions \in Nat

IInv ==
    /\ Typed
    /\ Shape(phone) /\ Ordered(phone) /\ Clock(phone, scene)
    /\ Requests(phone, tasks) /\ Air(phone, air, links) /\ Uncaptured(phone, cache)
    /\ CaptureSound

-----------------------------------------------------------------------------
(* The controller's record. *)

\* The invariant without the types: everything it says of one controller.
Good(p, waiting, answers, linked, captures, phase) ==
    /\ Shape(p) /\ Ordered(p) /\ Clock(p, phase)
    /\ Requests(p, waiting) /\ Air(p, answers, linked) /\ Uncaptured(p, captures)

LEMMA NoneDistinct ==
    /\ None \notin Devices /\ None \notin Epochs /\ None \notin Stages /\ None \notin Errors
    /\ None \notin Keys /\ None \notin Challenge
  BY ControllerAssumption DEF Keys, Challenge

LEMMA EnterFields ==
    ASSUME NEW p \in Phone, NEW s \in Stages
    PROVE  /\ Enter(p, s) \in Phone /\ Enter(p, s).stage = s /\ Enter(p, s).timer = s
           /\ Enter(p, s).running = p.running /\ Enter(p, s).observation = p.observation /\ Enter(p, s).generation = p.generation
           /\ Enter(p, s).peripheral = p.peripheral /\ Enter(p, s).notifying = p.notifying /\ Enter(p, s).rssi = p.rssi
           /\ Enter(p, s).key = p.key /\ Enter(p, s).error = p.error /\ Enter(p, s).info = p.info
           /\ Enter(p, s).results = p.results /\ Enter(p, s).pending = p.pending
           /\ Enter(p, s).spaced = p.spaced /\ Enter(p, s).drawn = p.drawn /\ Enter(p, s).prepared = p.prepared
  BY DEF Enter, Phone

LEMMA SendFields ==
    ASSUME NEW p \in Phone, NEW n \in Nat, NEW c \in Challenge
    PROVE  [p EXCEPT !.drawn = n, !.spaced = FALSE, !.pending = c] \in Phone
  BY DEF Phone

\* The end of a session.
Halted(p, q) ==
    /\ q \in Phone /\ q.stage \in Ended /\ ~q.running
    /\ NoDevice(q) /\ q.peripheral = None /\ q.timer = None /\ ~q.observation /\ ~q.prepared /\ q.error \notin Spurious
    /\ q.generation = p.generation + 1 /\ q.drawn = p.drawn

LEMMA BlankFacts ==
    /\ Blank \in Phone /\ ~Blank.running /\ ~Blank.observation /\ Blank.peripheral = None /\ ~Blank.notifying
    /\ Blank.key = None /\ Blank.timer = None /\ Blank.error = None /\ Blank.info = None
    /\ Blank.results = <<>> /\ Blank.pending = None /\ Blank.spaced /\ ~Blank.prepared
    /\ Blank.stage = "idle" /\ Blank.generation = 0 /\ Blank.drawn = 0
  <1>1. "idle" \in Stages /\ <<>> \in Seq(Response)
    BY DEF Stages, Ended
  <1>2. Blank \in Phone
    BY <1>1 DEF Blank, Phone
  <1> QED
    BY <1>2 DEF Blank

LEMMA StopHalts == ASSUME NEW p \in Phone, NEW s \in Ended PROVE Halted(p, Stop(p, s))
  <1> DEFINE q == Stop(p, s)
  <1>1. p.generation + 1 \in Nat /\ p.drawn \in Nat /\ s \in Stages
    BY DEF Phone, Stages
  <1>2. q = [Blank EXCEPT !.stage = s, !.generation = p.generation + 1, !.drawn = p.drawn]
    BY DEF Stop
  <1> HIDE DEF q
  <1>3. q \in Phone
    BY <1>1, <1>2, BlankFacts DEF Phone
  <1>4. /\ q.stage = s /\ q.generation = p.generation + 1 /\ q.drawn = p.drawn
        /\ ~q.running /\ ~q.observation /\ q.peripheral = None /\ ~q.notifying
        /\ q.key = None /\ q.timer = None /\ q.error = None /\ q.info = None
        /\ q.results = <<>> /\ q.pending = None /\ q.spaced /\ ~q.prepared
    BY <1>2, BlankFacts DEF Phone
  <1>5. None \notin Spurious
    BY NoneDistinct DEF Spurious, Errors
  <1>6. Halted(p, q)
    BY <1>3, <1>4, <1>5 DEF Halted, NoDevice, NoAnswers
  <1> QED
    BY <1>6 DEF q

LEMMA FailHalts == ASSUME NEW p \in Phone, NEW e \in Errors \ Spurious PROVE Halted(p, Fail(p, e))
  <1> DEFINE q == Stop(p, "failed")
  <1>1. "failed" \in Ended
    BY DEF Ended
  <1>2. Halted(p, q)
    BY <1>1, StopHalts
  <1>3. Fail(p, e) = [q EXCEPT !.error = e]
    BY DEF Fail
  <1> HIDE DEF q
  <1>4. [q EXCEPT !.error = e] \in Phone
    BY <1>2 DEF Halted, Phone
  <1> QED
    BY <1>2, <1>3, <1>4 DEF Halted, NoDevice, NoAnswers, Phone

LEMMA HaltedGood ==
    ASSUME NEW p \in Phone, NEW q, Halted(p, q), NEW T \in SUBSET Task, NEW A, NEW L, NEW C, NEW ph,
           Requests(p, T), \A r \in A : r.device \in L /\ r.challenge.nonce < p.drawn
    PROVE  Good(q, T, A, L, C, ph)
  <1>1. q.stage \in Ended /\ ~q.running /\ q.generation = p.generation + 1 /\ q.drawn = p.drawn
    BY DEF Halted
  <1>2. /\ q.stage \notin Before \cup Linking \cup Asking \cup Visiting /\ q.stage # "preflight" /\ q.stage # "subscribing"
        /\ q.stage \notin Awaiting /\ q.stage \notin {"preparingService", "waitingForRadio"}
    BY <1>1 DEF Ended, Before, Linking, Asking, Visiting, Awaiting
  <1>3. NoDevice(q) /\ q.peripheral = None /\ q.timer = None /\ ~q.observation /\ q.error \notin Spurious
    BY DEF Halted
  <1>4. q.key = None /\ q.pending = None /\ q.results = <<>>
    BY <1>3 DEF NoDevice, NoAnswers
  <1>5. Shape(q)
    BY <1>1, <1>2, <1>3, <1>4 DEF Shape, Visiting
  <1>6. Ordered(q)
    BY <1>4 DEF Ordered, Challenges
  <1>7. Clock(q, ph) /\ Uncaptured(q, C)
    BY <1>1, <1>4 DEF Clock, Uncaptured
  <1>8. Requests(q, T)
    <2> SUFFICES ASSUME NEW t \in T
                 PROVE  t.generation <= q.generation /\ t.generation # q.generation /\ (t.kind = "prepare" => t.device = None)
      BY DEF Requests
    <2>1. t.generation \in Nat /\ p.generation \in Nat
      BY DEF Task, Phone
    <2>2. t.generation <= p.generation /\ (t.kind = "prepare" => t.device = None)
      BY DEF Requests
    <2> QED
      BY <1>1, <2>1, <2>2
  <1>9. Air(q, A, L)
    BY <1>1, <1>2, <1>4 DEF Air
  <1> QED
    BY <1>5, <1>6, <1>7, <1>8, <1>9 DEF Good

\* What does not concern answers, requests or the timer keeps the order.
LEMMA SameOrder ==
    ASSUME NEW p, NEW q, Ordered(p), q.results = p.results, q.pending = p.pending, q.drawn = p.drawn
    PROVE  Ordered(q)
  BY DEF Ordered

LEMMA SameAir ==
    ASSUME NEW p, NEW q, NEW A, NEW L, Air(p, A, L), q.stage = p.stage, q.peripheral = p.peripheral,
           q.results = p.results, q.pending = p.pending, q.drawn = p.drawn
    PROVE  Air(q, A, L)
  BY DEF Air

\* Nothing was asked of the service in this session, or it has answered.
NoneCurrent(p, waiting) ==
    \A t \in waiting : t.generation < p.generation /\ (t.kind = "prepare" => t.device = None)

LEMMA NoneCurrentRequests ==
    ASSUME NEW p \in Phone, NEW T \in SUBSET Task, NoneCurrent(p, T)
    PROVE  Requests(p, T)
  <1> SUFFICES ASSUME NEW t \in T
               PROVE  t.generation <= p.generation /\ t.generation # p.generation /\ (t.kind = "prepare" => t.device = None)
    BY DEF Requests
  <1>1. t.generation \in Nat /\ p.generation \in Nat /\ t.generation < p.generation /\ (t.kind = "prepare" => t.device = None)
    BY DEF Task, Phone, NoneCurrent
  <1> QED
    BY <1>1

LEMMA OthersCurrent ==
    ASSUME NEW p \in Phone, NEW T \in SUBSET Task, Requests(p, T), p.stage \notin {"preparingService", "preflight"}
    PROVE  NoneCurrent(p, T)
  <1> SUFFICES ASSUME NEW t \in T PROVE t.generation < p.generation /\ (t.kind = "prepare" => t.device = None)
    BY DEF NoneCurrent
  <1>1. t.generation \in Nat /\ p.generation \in Nat /\ t.kind \in {"prepare", "resolve"}
    BY DEF Task, Phone
  <1>2. t.generation <= p.generation /\ t.generation # p.generation /\ (t.kind = "prepare" => t.device = None)
    BY <1>1 DEF Requests
  <1> QED
    BY <1>1, <1>2

\* Before a device is found: the stages up to scanning.
LEMMA EnterBefore ==
    ASSUME NEW p \in Phone, NEW s \in {"waitingForRadio", "scanning"}, p.running, p.error \notin Spurious,
           NoDevice(p), p.peripheral = None, NEW T \in SUBSET Task, NoneCurrent(p, T),
           NEW A, NEW L, NEW C, NEW ph, \A r \in A : r.device \in L /\ r.challenge.nonce < p.drawn
    PROVE  Enter(p, s) \in Phone /\ Good(Enter(p, s), T, A, L, C, ph)
  <1> DEFINE q == Enter(p, s)
  <1>1. s \in Stages /\ s \notin Ended /\ s \in Before /\ s \notin Linking \cup Asking \cup Visiting /\ s \notin Awaiting
        /\ s # "preflight" /\ s # "subscribing"
    BY DEF Stages, Ended, Before, Linking, Asking, Visiting, Awaiting
  <1>2. /\ q \in Phone /\ q.stage = s /\ q.timer = s /\ q.running = p.running /\ q.generation = p.generation
        /\ q.peripheral = p.peripheral /\ q.notifying = p.notifying /\ q.key = p.key /\ q.error = p.error /\ q.info = p.info
        /\ q.results = p.results /\ q.pending = p.pending /\ q.spaced = p.spaced /\ q.drawn = p.drawn
    BY <1>1, EnterFields, ZenonT(90)
  <1> HIDE DEF q
  <1>3. NoDevice(q) /\ q.key = None /\ q.pending = None /\ q.results = <<>> /\ q.running
    BY <1>2 DEF NoDevice, NoAnswers
  <1>4. Shape(q)
    BY <1>1, <1>2, <1>3 DEF Shape
  <1>5. Ordered(q)
    BY <1>3 DEF Ordered, Challenges
  <1>6. Clock(q, ph) /\ Uncaptured(q, C)
    BY <1>2, <1>3 DEF Clock, Uncaptured
  <1>7. Requests(q, T)
    BY <1>2, NoneCurrentRequests DEF NoneCurrent
  <1>8. Air(q, A, L)
    BY <1>1, <1>2, <1>3 DEF Air
  <1>9. q \in Phone /\ Good(q, T, A, L, C, ph)
    BY <1>2, <1>4, <1>5, <1>6, <1>7, <1>8 DEF Good
  <1> QED
    BY <1>9 DEF q

\* handleRadioState keeps a good controller good.
LEMMA RadioGood ==
    ASSUME NEW p \in Phone, NEW state \in {"unknown", "on", "off"}, NEW phase,
           NEW T \in SUBSET Task, NEW A, NEW L, NEW C, Good(p, T, A, L, C, phase)
    PROVE  Radio(p, state, phase) \in Phone /\ Good(Radio(p, state, phase), T, A, L, C, phase)
  <1>1. /\ Requests(p, T) /\ \A r \in A : r.device \in L /\ r.challenge.nonce < p.drawn
        /\ Shape(p)
    BY DEF Good, Air
  <1>2. CASE Radio(p, state, phase) = p
    BY <1>2
  <1>3. CASE Radio(p, state, phase) = Fail(p, "radio")
    <2>1. "radio" \in Errors \ Spurious
      BY DEF Errors, Spurious
    <2>2. Halted(p, Radio(p, state, phase))
      BY <1>3, <2>1, FailHalts
    <2>3. Radio(p, state, phase) \in Phone
      BY <2>2 DEF Halted
    <2>4. Good(Radio(p, state, phase), T, A, L, C, phase)
      BY <1>1, <2>2, HaltedGood
    <2> QED
      BY <2>3, <2>4
  <1>4. CASE p.running /\ p.stage = "waitingForRadio" /\ Radio(p, state, phase) = Enter(p, "scanning")
    <2>1. p.stage \in Before /\ p.stage \in {"preparingService", "waitingForRadio"} /\ p.stage \notin {"preparingService", "preflight"}
      BY <1>4 DEF Before
    <2>2. NoDevice(p) /\ p.peripheral = None /\ p.error \notin Spurious
      BY <1>1, <2>1 DEF Shape
    <2>3. NoneCurrent(p, T)
      BY <1>1, <2>1, OthersCurrent
    <2>4. "scanning" \in {"waitingForRadio", "scanning"}
      OBVIOUS
    <2>5. Enter(p, "scanning") \in Phone /\ Good(Enter(p, "scanning"), T, A, L, C, phase)
      BY <1>1, <1>4, <2>2, <2>3, <2>4, EnterBefore
    <2> QED
      BY <1>4, <2>5
  <1>5. \/ Radio(p, state, phase) = p \/ Radio(p, state, phase) = Fail(p, "radio")
        \/ p.running /\ p.stage = "waitingForRadio" /\ Radio(p, state, phase) = Enter(p, "scanning")
    <2>1. CASE ~p.running
      <3>1. Radio(p, state, phase) = p
        BY <2>1 DEF Radio
      <3> QED
        BY <3>1
    <2>2. CASE p.running /\ state = "off"
      <3>1. Radio(p, state, phase) = Fail(p, "radio")
        BY <2>2 DEF Radio
      <3> QED
        BY <3>1
    <2>3. CASE p.running /\ state = "unknown"
      <3>1. Radio(p, state, phase) = IF p.stage = "waitingForRadio" THEN p ELSE Fail(p, "radio")
        BY <2>3 DEF Radio
      <3> QED
        BY <3>1
    <2>4. CASE p.running /\ state = "on"
      <3>1. Radio(p, state, phase) = IF p.stage = "waitingForRadio" /\ phase = "active" THEN Enter(p, "scanning") ELSE p
        BY <2>4 DEF Radio
      <3> QED
        BY <2>4, <3>1
    <2> QED
      BY <2>1, <2>2, <2>3, <2>4
  <1> QED
    BY <1>2, <1>3, <1>4, <1>5

\* sendNextChallenge or a pause, once the device is known and permitted.
LEMMA NextChallengeGood ==
    ASSUME NEW p \in Phone, p.running, p.error \notin Spurious, p.peripheral # None, p.info = p.peripheral,
           p.observation <=> p.key # None, p.key # None => p.key.device = p.info, p.pending = None, Ordered(p),
           NEW T \in SUBSET Task, NoneCurrent(p, T),
           NEW A, NEW L, \A r \in A : r.device \in L /\ r.challenge.nonce < p.drawn /\ r.challenge \in Challenge,
           \A r \in A : r.device = p.peripheral => \E i \in 1 .. Len(p.results) : p.results[i] = r,
           NEW C, Uncaptured(p, C), NEW phase
    PROVE  NextChallenge(p) \in Phone /\ Good(NextChallenge(p), T, A, L, C, phase)
  <1> DEFINE q == NextChallenge(p)
  <1>1. CASE ~p.spaced
    <2>1. q = [p EXCEPT !.stage = "pacing", !.timer = None]
      BY <1>1 DEF NextChallenge
    <2> HIDE DEF q
    <2>2. "pacing" \in Stages
      BY DEF Stages
    <2>3. /\ q \in Phone /\ q.stage = "pacing" /\ q.timer = None /\ q.running = p.running /\ q.observation = p.observation
          /\ q.generation = p.generation /\ q.peripheral = p.peripheral /\ q.key = p.key /\ q.error = p.error /\ q.info = p.info
          /\ q.results = p.results /\ q.pending = p.pending /\ q.drawn = p.drawn
      BY <2>1, <2>2, ZenonT(90) DEF Phone
    <2>4. /\ q.stage \notin Ended /\ q.stage \notin Before \cup Linking \cup Asking \cup Awaiting /\ q.stage \in Visiting
          /\ q.stage # "preflight" /\ q.stage # "subscribing" /\ q.stage \notin {"preparingService", "waitingForRadio"}
      BY <2>3 DEF Ended, Before, Linking, Asking, Visiting, Awaiting
    <2>5. Shape(q)
      BY <2>3, <2>4 DEF Shape
    <2>6. Ordered(q)
      BY <2>3, SameOrder
    <2>7. Clock(q, phase) /\ Uncaptured(q, C)
      BY <2>3 DEF Clock, Uncaptured
    <2>8. Requests(q, T)
      BY <2>3, NoneCurrentRequests DEF NoneCurrent
    <2>9. Air(q, A, L)
      BY <2>3, <2>4 DEF Air
    <2> QED
      BY <2>3, <2>5, <2>6, <2>7, <2>8, <2>9 DEF Good, q
  <1>2. CASE p.spaced
    <2> DEFINE c == [nonce |-> p.drawn, epoch |-> IF p.key = None THEN None ELSE p.key.epoch]
               e == Enter(p, "challenge")
    <2>1. q = [e EXCEPT !.drawn = @ + 1, !.spaced = FALSE, !.pending = c]
      BY <1>2 DEF NextChallenge, Send
    <2>2. c \in Challenge /\ c.nonce = p.drawn /\ p.drawn \in Nat
      <3>1. p.drawn \in Nat /\ p.key \in Keys \cup {None}
        BY DEF Phone
      <3>2. p.key # None => p.key.epoch \in Epochs
        BY <3>1 DEF Keys
      <3> QED
        BY <3>1, <3>2 DEF Challenge
    <2>3. c # None
      BY <2>2, NoneDistinct
    <2>4. "challenge" \in Stages
      BY DEF Stages
    <2>5. /\ e \in Phone /\ e.stage = "challenge" /\ e.timer = "challenge" /\ e.running = p.running /\ e.observation = p.observation
          /\ e.generation = p.generation /\ e.peripheral = p.peripheral /\ e.key = p.key /\ e.error = p.error /\ e.info = p.info
          /\ e.results = p.results /\ e.drawn = p.drawn
      BY <2>4, EnterFields
    <2> HIDE DEF q, c, e
    <2>6. q \in Phone
      <3>1. e.drawn + 1 \in Nat
        BY <2>2, <2>5
      <3>2. q = [e EXCEPT !.drawn = e.drawn + 1, !.spaced = FALSE, !.pending = c]
        BY <2>1
      <3> QED
        BY <2>2, <2>5, <3>1, <3>2, SendFields
    <2>7. /\ q.stage = "challenge" /\ q.timer = "challenge" /\ q.running = p.running /\ q.observation = p.observation
          /\ q.generation = p.generation /\ q.peripheral = p.peripheral /\ q.key = p.key /\ q.error = p.error /\ q.info = p.info
          /\ q.results = p.results /\ q.pending = c /\ q.drawn = p.drawn + 1
      BY <2>1, <2>5 DEF Phone
    <2>8. /\ q.stage \notin Ended /\ q.stage \notin Before \cup Linking \cup Asking /\ q.stage \in Awaiting /\ q.stage \in Visiting
          /\ q.stage # "preflight" /\ q.stage # "subscribing" /\ q.stage \notin {"preparingService", "waitingForRadio"}
      BY <2>7 DEF Ended, Before, Linking, Asking, Visiting, Awaiting
    <2>9. Shape(q)
      BY <2>3, <2>7, <2>8 DEF Shape
    <2>10. Ordered(q)
      <3>1. \A i \in 1 .. Len(p.results) : p.results[i].challenge.nonce < p.drawn /\ p.results[i].challenge.nonce \in Nat
        <4>1. p.results \in Seq(Response)
          BY DEF Phone
        <4>2. \A i \in 1 .. Len(p.results) : p.results[i] \in Response
          BY <4>1
        <4> QED
          BY <4>2 DEF Ordered, Response, Challenge
      <3>2. \A i \in 1 .. Len(p.results) : p.results[i].challenge.nonce < p.drawn + 1
        BY <2>2, <3>1
      <3>3. q.pending.nonce < q.drawn /\ \A i \in 1 .. Len(q.results) : q.results[i].challenge.nonce < q.pending.nonce
        BY <2>2, <2>7, <3>1
      <3>4. \A i \in 1 .. Len(q.results) : q.results[i].challenge.nonce < q.drawn
        BY <2>7, <3>2
      <3>5. /\ Len(q.results) < Challenges
            /\ \A i, j \in 1 .. Len(q.results) : i < j => q.results[i].challenge.nonce < q.results[j].challenge.nonce
        BY <2>7 DEF Ordered
      <3> QED
        BY <3>3, <3>4, <3>5 DEF Ordered
    <2>11. Clock(q, phase) /\ Uncaptured(q, C)
      BY <2>7 DEF Clock, Uncaptured
    <2>12. Requests(q, T)
      BY <2>6, <2>7, NoneCurrentRequests DEF NoneCurrent
    <2>13. Air(q, A, L)
      <3>1. \A r \in A : r.challenge.nonce < q.drawn /\ r.challenge # c
        BY <2>2, <2>7 DEF Challenge
      <3> QED
        BY <2>7, <2>8, <3>1 DEF Air
    <2> QED
      BY <2>6, <2>9, <2>10, <2>11, <2>12, <2>13 DEF Good, q
  <1> QED
    BY <1>1, <1>2

-----------------------------------------------------------------------------
(* One lemma per action: it keeps the invariant. *)

Phases == {"active", "inactive", "background"}

LEMMA IInvFacts ==
    ASSUME IInv
    PROVE  /\ Typed /\ phone \in Phone /\ tasks \in SUBSET Task /\ scene \in Phases /\ radio \in {"unknown", "on", "off"}
           /\ Good(phone, tasks, air, links, cache, scene) /\ Requests(phone, tasks) /\ Shape(phone)
           /\ \A r \in air : r.device \in links /\ r.challenge.nonce < phone.drawn /\ r \in Response
           /\ CaptureSound
  BY DEF IInv, Typed, Good, Air, Phases

LEMMA CapturesStay == ASSUME CaptureSound, UNCHANGED cache PROVE CaptureSound'
  BY DEF CaptureSound, Stored

\* A step that changes the controller, its requests, the scene and the radio.
LEMMA ControllerStep ==
    ASSUME IInv, UNCHANGED <<links, air, counters, cache, interruptions>>,
           tasks' \in SUBSET Task, scene' \in Phases, radio' \in {"unknown", "on", "off"},
           phone' \in Phone, Good(phone', tasks', air, links, cache, scene')
    PROVE  IInv'
  <1>1. Typed'
    BY DEF IInv, Typed, Phases
  <1>2. CaptureSound'
    BY CapturesStay DEF IInv
  <1> QED
    BY <1>1, <1>2 DEF IInv, Good

LEMMA HaltStep ==
    ASSUME IInv, UNCHANGED <<scene, radio, links, air, counters, cache, interruptions>>, tasks' \subseteq tasks, Halted(phone, phone')
    PROVE  IInv'
  <1>1. /\ tasks' \in SUBSET Task /\ scene' \in Phases /\ radio' \in {"unknown", "on", "off"} /\ phone' \in Phone
    BY IInvFacts DEF Halted
  <1>2. Requests(phone, tasks')
    BY IInvFacts DEF Requests
  <1>3. Good(phone', tasks', air, links, cache, scene')
    BY <1>1, <1>2, IInvFacts, HaltedGood
  <1> QED
    BY <1>1, <1>3, ControllerStep

\* Late requests of ended sessions leave the controller alone.
LEMMA RequestsGone ==
    ASSUME IInv, UNCHANGED <<phone, scene, radio, links, air, counters, cache, interruptions>>, tasks' \subseteq tasks
    PROVE  IInv'
  <1>1. /\ tasks' \in SUBSET Task /\ scene' \in Phases /\ radio' \in {"unknown", "on", "off"} /\ phone' \in Phone
    BY IInvFacts
  <1>2. Good(phone', tasks', air, links, cache, scene')
    BY IInvFacts DEF Good, Requests
  <1> QED
    BY <1>1, <1>2, ControllerStep

LEMMA StartKeeps == ASSUME IInv, NEW o \in BOOLEAN, Start(o) PROVE IInv'
  <1> DEFINE z == Stop(phone, "idle")
             p == [z EXCEPT !.running = TRUE, !.observation = o]
  <1>1. Halted(phone, z)
    <2>1. "idle" \in Ended
      BY DEF Ended
    <2> QED
      BY <2>1, IInvFacts, StopHalts
  <1>2. /\ IF o THEN /\ phone' = Enter(p, "preparingService")
                     /\ tasks' = tasks \cup {[kind |-> "prepare", generation |-> p.generation, device |-> None]}
           ELSE phone' = Radio(Enter(p, "waitingForRadio"), radio, scene) /\ tasks' = tasks
        /\ UNCHANGED <<scene, radio, links, air, counters, cache, interruptions>>
    BY DEF Start, BeginBluetooth
  <1> HIDE DEF z
  <1>3. p \in Phone
    BY <1>1 DEF Halted, Phone
  <1>4. /\ p.running = TRUE /\ p.observation = o /\ p.generation = phone.generation + 1 /\ p.drawn = phone.drawn /\ p.error \notin Spurious
        /\ NoDevice(p) /\ p.peripheral = None /\ ~p.prepared
    BY <1>1 DEF Halted, Phone, NoDevice, NoAnswers
  <1> HIDE DEF p
  <1>5. NoneCurrent(p, tasks) /\ phone.generation \in Nat
    <2> SUFFICES ASSUME NEW t \in tasks PROVE t.generation < p.generation /\ (t.kind = "prepare" => t.device = None)
      BY IInvFacts DEF NoneCurrent, Phone
    <2>1. t.generation \in Nat /\ phone.generation \in Nat /\ t.generation <= phone.generation /\ (t.kind = "prepare" => t.device = None)
      BY IInvFacts DEF Task, Phone, Requests
    <2> QED
      BY <1>4, <2>1
  <1>6. CASE ~o
    <2> DEFINE w == Enter(p, "waitingForRadio")
    <2>1. w \in Phone /\ Good(w, tasks, air, links, cache, scene)
      <3>1. "waitingForRadio" \in {"waitingForRadio", "scanning"}
        OBVIOUS
      <3> QED
        BY <1>3, <1>4, <1>5, <3>1, IInvFacts, EnterBefore
    <2> HIDE DEF w
    <2>2. Radio(w, radio, scene) \in Phone /\ Good(Radio(w, radio, scene), tasks, air, links, cache, scene)
      BY <2>1, IInvFacts, RadioGood
    <2>3. phone' = Radio(w, radio, scene) /\ tasks' = tasks
      BY <1>2, <1>6 DEF w
    <2>4. tasks' \in SUBSET Task /\ scene' \in Phases /\ radio' \in {"unknown", "on", "off"}
      BY <1>2, <2>3, IInvFacts
    <2>5. phone' \in Phone /\ Good(phone', tasks', air, links, cache, scene')
      BY <1>2, <2>2, <2>3
    <2> QED
      BY <1>2, <2>4, <2>5, ControllerStep
  <1>7. CASE o
    <2> DEFINE s == "preparingService"
               new == [kind |-> "prepare", generation |-> p.generation, device |-> None]
    <2>1. s \in Stages /\ s \in Before /\ s \notin Ended /\ s \notin Linking \cup Asking \cup Visiting /\ s \notin Awaiting
          /\ s # "preflight" /\ s # "subscribing"
      BY DEF Stages, Ended, Before, Linking, Asking, Visiting, Awaiting
    <2>2. phone' = Enter(p, s) /\ tasks' = tasks \cup {new}
      BY <1>2, <1>7
    <2>3. /\ phone' \in Phone /\ phone'.stage = s /\ phone'.timer = s /\ phone'.running = TRUE /\ phone'.generation = p.generation
          /\ phone'.peripheral = None /\ phone'.error = p.error /\ phone'.drawn = phone.drawn /\ ~phone'.prepared
          /\ phone'.info = p.info /\ phone'.key = p.key /\ phone'.notifying = p.notifying /\ phone'.results = p.results
          /\ phone'.pending = p.pending /\ phone'.spaced = p.spaced
      BY <1>3, <1>4, <2>1, <2>2, EnterFields
    <2>4. NoDevice(phone') /\ phone'.key = None /\ phone'.pending = None /\ phone'.results = <<>>
      BY <1>4, <2>3 DEF NoDevice, NoAnswers
    <2>5. new \in Task /\ new.kind = "prepare" /\ new.generation = p.generation /\ new.device = None
      BY <1>4, <1>5 DEF Task
    <2> HIDE DEF new
    <2>6. Requests(phone', tasks')
      <3> SUFFICES ASSUME NEW t \in tasks'
                   PROVE  /\ t.generation <= p.generation
                          /\ t.kind = "prepare" => t.device = None
                          /\ t.generation = p.generation => t.kind = "prepare"
        BY <2>3 DEF Requests
      <3>1. CASE t = new
        BY <1>4, <1>5, <2>5, <3>1
      <3>2. CASE t \in tasks
        <4>1. t.generation \in Nat /\ p.generation \in Nat /\ t.generation < p.generation /\ (t.kind = "prepare" => t.device = None)
          BY <1>4, <1>5, <3>2, IInvFacts DEF Task, NoneCurrent
        <4> QED
          BY <4>1
      <3> QED
        BY <2>2, <3>1, <3>2
    <2> HIDE DEF s
    <2>7. Shape(phone')
      BY <1>4, <2>1, <2>3, <2>4 DEF Shape
    <2>8. Ordered(phone') /\ Clock(phone', scene') /\ Uncaptured(phone', cache)
      BY <2>3, <2>4 DEF Ordered, Challenges, Clock, Uncaptured
    <2>9. Air(phone', air, links)
      BY <2>1, <2>3, <2>4, IInvFacts DEF Air
    <2>10. tasks' \in SUBSET Task /\ scene' \in Phases /\ radio' \in {"unknown", "on", "off"}
      BY <1>2, <2>2, <2>5, IInvFacts
    <2>11. Good(phone', tasks', air, links, cache, scene')
      BY <2>6, <2>7, <2>8, <2>9 DEF Good
    <2> QED
      BY <1>2, <2>3, <2>10, <2>11, ControllerStep
  <1> QED
    BY <1>6, <1>7

LEMMA EndKeeps == ASSUME IInv, Cancel \/ GattFails \/ Malformed \/ TimerFires PROVE IInv'
  <1>1. {"gatt", "malformed", "timeout"} \subseteq Errors \ Spurious /\ "interrupted" \in Ended
    BY DEF Errors, Spurious, Ended
  <1>2. CASE Cancel
    <2>1. Halted(phone, phone')
      BY <1>1, <1>2, IInvFacts, StopHalts DEF Cancel
    <2> QED
      BY <1>2, <2>1, HaltStep DEF Cancel
  <1>3. CASE GattFails
    <2>1. Halted(phone, phone')
      BY <1>1, <1>3, IInvFacts, FailHalts DEF GattFails
    <2> QED
      BY <1>3, <2>1, HaltStep DEF GattFails
  <1>4. CASE Malformed
    <2>1. Halted(phone, phone')
      BY <1>1, <1>4, IInvFacts, FailHalts DEF Malformed
    <2> QED
      BY <1>4, <2>1, HaltStep DEF Malformed
  <1>5. CASE TimerFires
    <2>1. phone.timer # None
      BY <1>5 DEF TimerFires
    <2>2. phone.running /\ phone.timer = phone.stage
      BY <2>1, IInvFacts DEF Good, Shape, Clock
    <2>3. Halted(phone, phone')
      BY <1>1, <1>5, <2>2, IInvFacts, FailHalts DEF TimerFires
    <2> QED
      BY <1>5, <2>3, HaltStep DEF TimerFires
  <1> QED
    BY <1>2, <1>3, <1>4, <1>5

LEMMA RadioChangesKeeps == ASSUME IInv, NEW state \in {"unknown", "on", "off"}, RadioChanges(state) PROVE IInv'
  <1>1. Radio(phone, state, scene) \in Phone /\ Good(Radio(phone, state, scene), tasks, air, links, cache, scene)
    BY IInvFacts, RadioGood
  <1>2. phone' = Radio(phone, state, scene) /\ radio' = state /\ UNCHANGED <<tasks, scene, links, air, counters, cache, interruptions>>
    BY DEF RadioChanges
  <1>3. tasks' \in SUBSET Task /\ scene' \in Phases /\ radio' \in {"unknown", "on", "off"}
    BY <1>2, IInvFacts
  <1>4. phone' \in Phone /\ Good(phone', tasks', air, links, cache, scene')
    BY <1>1, <1>2
  <1> QED
    BY <1>2, <1>3, <1>4, ControllerStep

\* Bluetooth is begun from the stages before it, with a timer of its own.
LEMMA BeginGood ==
    ASSUME NEW p \in Phone, p.running, p.error \notin Spurious, NoDevice(p), p.peripheral = None,
           NEW T \in SUBSET Task, NoneCurrent(p, T),
           NEW A, NEW L, NEW C, NEW ph, \A r \in A : r.device \in L /\ r.challenge.nonce < p.drawn,
           NEW state \in {"unknown", "on", "off"}
    PROVE  /\ Radio(Enter(p, "waitingForRadio"), state, ph) \in Phone
           /\ Good(Radio(Enter(p, "waitingForRadio"), state, ph), T, A, L, C, ph)
  <1> DEFINE w == Enter(p, "waitingForRadio")
  <1>1. "waitingForRadio" \in {"waitingForRadio", "scanning"}
    OBVIOUS
  <1>2. w \in Phone /\ Good(w, T, A, L, C, ph)
    BY <1>1, EnterBefore
  <1> HIDE DEF w
  <1>3. Radio(w, state, ph) \in Phone /\ Good(Radio(w, state, ph), T, A, L, C, ph)
    BY <1>2, RadioGood
  <1> QED
    BY <1>3 DEF w

\* Everything a good controller has before Bluetooth is begun.
LEMMA BeforeFacts ==
    ASSUME IInv, phone.running, phone.stage \in {"preparingService", "waitingForRadio"}
    PROVE  phone.error \notin Spurious /\ NoDevice(phone) /\ phone.peripheral = None
  <1>1. phone.stage \in Before \cup Linking
    BY DEF Before
  <1> QED
    BY <1>1, IInvFacts DEF Shape

LEMMA ResumeKeeps == ASSUME IInv, Resume PROVE IInv'
  <1>1. scene' = "active" /\ phone' = Resumed(phone) /\ UNCHANGED <<tasks, radio, links, air, counters, cache, interruptions>>
    BY DEF Resume
  <1>2. tasks' \in SUBSET Task /\ scene' \in Phases /\ radio' \in {"unknown", "on", "off"}
    BY <1>1, IInvFacts DEF Phases
  <1>3. CASE phone.running /\ phone.stage = "preparingService" /\ phone.prepared
    <2>1. phone' = Radio(Enter(phone, "waitingForRadio"), radio, "active")
      BY <1>1, <1>3 DEF Resumed, BeginBluetooth
    <2>2. NoneCurrent(phone, tasks)
      <3> SUFFICES ASSUME NEW t \in tasks PROVE t.generation < phone.generation /\ (t.kind = "prepare" => t.device = None)
        BY DEF NoneCurrent
      <3>1. t.generation \in Nat /\ phone.generation \in Nat /\ t.kind \in {"prepare", "resolve"}
        BY IInvFacts DEF Task, Phone
      <3>2. t.generation <= phone.generation /\ t.generation # phone.generation /\ (t.kind = "prepare" => t.device = None)
        BY <1>3, <3>1, IInvFacts DEF Requests
      <3> QED
        BY <3>1, <3>2
    <2>3. phone' \in Phone /\ Good(phone', tasks, air, links, cache, "active")
      BY <1>3, <2>1, <2>2, BeforeFacts, IInvFacts, BeginGood
    <2> QED
      BY <1>1, <1>2, <2>3, ControllerStep
  <1>4. CASE phone.running /\ phone.stage = "waitingForRadio"
    <2>1. phone' = Radio(Enter(phone, "waitingForRadio"), radio, "active")
      BY <1>1, <1>4 DEF Resumed
    <2>2. NoneCurrent(phone, tasks)
      BY <1>4, IInvFacts, OthersCurrent
    <2>3. phone' \in Phone /\ Good(phone', tasks, air, links, cache, "active")
      BY <1>4, <2>1, <2>2, BeforeFacts, IInvFacts, BeginGood
    <2> QED
      BY <1>1, <1>2, <2>3, ControllerStep
  <1>5. CASE /\ ~(phone.running /\ phone.stage = "preparingService" /\ phone.prepared)
             /\ ~(phone.running /\ phone.stage = "waitingForRadio")
    <2>1. phone' = phone
      BY <1>1, <1>5 DEF Resumed
    <2>2. Clock(phone, "active")
      BY <1>5, IInvFacts DEF Good, Clock
    <2>3. Good(phone', tasks', air, links, cache, scene') /\ phone' \in Phone
      BY <1>1, <2>1, <2>2, IInvFacts DEF Good
    <2> QED
      BY <1>1, <1>2, <2>3, ControllerStep
  <1> QED
    BY <1>3, <1>4, <1>5

LEMMA LeaveKeeps == ASSUME IInv, NEW phase \in {"inactive", "background"}, Leave(phase) PROVE IInv'
  <1>1. /\ scene' = phase /\ phone' = Left(phone, phase) /\ interruptions' = interruptions + 1
        /\ UNCHANGED <<tasks, radio, links, air, counters, cache>>
    BY DEF Leave
  <1>2. phone' \in Phone /\ Good(phone', tasks, air, links, cache, phase)
    <2>1. CASE phone.running /\ phase = "inactive" /\ phone.stage \in {"waitingForRadio", "preparingService"}
      <3>1. phone' = [phone EXCEPT !.timer = None]
        BY <1>1, <2>1 DEF Left
      <3>2. /\ phone' \in Phone /\ phone'.timer = None /\ phone'.stage = phone.stage /\ phone'.running = phone.running
            /\ phone'.observation = phone.observation /\ phone'.generation = phone.generation /\ phone'.peripheral = phone.peripheral
            /\ phone'.notifying = phone.notifying /\ phone'.key = phone.key /\ phone'.error = phone.error /\ phone'.info = phone.info
            /\ phone'.results = phone.results /\ phone'.pending = phone.pending /\ phone'.spaced = phone.spaced
            /\ phone'.drawn = phone.drawn /\ phone'.prepared = phone.prepared
        BY <3>1, IInvFacts DEF Phone
      <3>3. phone.stage \notin Ended
        BY <2>1 DEF Ended
      <3>4. Shape(phone')
        BY <3>2, <3>3, IInvFacts DEF Shape, NoDevice, NoAnswers
      <3>5. Ordered(phone') /\ Air(phone', air, links)
        BY <3>2, IInvFacts, SameOrder, SameAir DEF Good
      <3>6. Clock(phone', phase) /\ Requests(phone', tasks) /\ Uncaptured(phone', cache)
        BY <2>1, <3>2, IInvFacts DEF Good, Clock, Requests, Uncaptured
      <3> QED
        BY <3>2, <3>4, <3>5, <3>6 DEF Good
    <2>2. CASE phone.running /\ ~(phase = "inactive" /\ phone.stage \in {"waitingForRadio", "preparingService"})
      <3>1. phone' = Stop(phone, "interrupted")
        BY <1>1, <2>2 DEF Left
      <3>2. "interrupted" \in Ended
        BY DEF Ended
      <3>3. Halted(phone, phone')
        BY <3>1, <3>2, IInvFacts, StopHalts
      <3>4. phone' \in Phone
        BY <3>3 DEF Halted
      <3>5. Good(phone', tasks, air, links, cache, phase)
        BY <3>3, IInvFacts, HaltedGood
      <3> QED
        BY <3>4, <3>5
    <2>3. CASE ~phone.running
      <3>1. phone' = phone
        BY <1>1, <2>3 DEF Left
      <3> QED
        BY <2>3, <3>1, IInvFacts DEF Good, Clock
    <2> QED
      BY <2>1, <2>2, <2>3
  <1>3. Typed'
    BY <1>1, <1>2 DEF IInv, Typed
  <1>4. CaptureSound'
    BY <1>1, IInvFacts, CapturesStay
  <1> QED
    BY <1>1, <1>2, <1>3, <1>4 DEF IInv, Good

LEMMA TaskEqual ==
    ASSUME NEW t \in Task, NEW u \in Task, t.kind = u.kind, t.generation = u.generation, t.device = u.device
    PROVE  t = u
  BY DEF Task

\* Once the current request has ended there is no other of this session.
LEMMA OnlyCurrent ==
    ASSUME IInv, NEW task \in tasks, Current(task)
    PROVE  NoneCurrent(phone, tasks \ {task})
  <1> SUFFICES ASSUME NEW t \in tasks \ {task} PROVE t.generation < phone.generation /\ (t.kind = "prepare" => t.device = None)
    BY DEF NoneCurrent
  <1>1. t \in Task /\ task \in Task /\ phone.generation \in Nat
    BY IInvFacts DEF Phone
  <1>2. t.generation \in Nat /\ t.kind \in {"prepare", "resolve"} /\ task.kind \in {"prepare", "resolve"} /\ task.generation = phone.generation
    BY <1>1 DEF Task, Current
  <1>3. t.generation <= phone.generation /\ (t.kind = "prepare" => t.device = None) /\ (task.kind = "prepare" => task.device = None)
    BY IInvFacts DEF Requests
  <1>4. t.generation # phone.generation
    <2> SUFFICES ASSUME t.generation = phone.generation PROVE FALSE
      OBVIOUS
    <2>1. /\ t.kind = "prepare" => phone.stage = "preparingService"
          /\ t.kind = "resolve" => phone.stage = "preflight" /\ t.device = phone.info
          /\ task.kind = "prepare" => phone.stage = "preparingService"
          /\ task.kind = "resolve" => phone.stage = "preflight" /\ task.device = phone.info
      BY <1>2, IInvFacts DEF Requests
    <2>2. t.kind = task.kind /\ t.device = task.device
      BY <1>2, <1>3, <2>1
    <2>3. t = task
      BY <1>1, <1>2, <2>2, TaskEqual
    <2> QED
      BY <2>3
  <1> QED
    BY <1>1, <1>2, <1>3, <1>4

LEMMA PreparedKeeps == ASSUME IInv, NEW task \in tasks, Prepared(task) PROVE IInv'
  <1>1. tasks' = tasks \ {task} /\ task.kind = "prepare" /\ UNCHANGED <<scene, radio, links, air, counters, cache, interruptions>>
    BY DEF Prepared
  <1>2. tasks' \in SUBSET Task /\ scene' \in Phases /\ radio' \in {"unknown", "on", "off"} /\ tasks' \subseteq tasks
    BY <1>1, IInvFacts
  <1>3. CASE ~Current(task)
    <2>1. phone' = phone
      BY <1>3 DEF Prepared
    <2> QED
      BY <1>1, <1>2, <2>1, RequestsGone
  <1>4. CASE Current(task)
    <2> DEFINE p == [phone EXCEPT !.prepared = TRUE]
    <2>1. phone.running /\ phone.stage = "preparingService"
      BY <1>1, <1>4, IInvFacts DEF Current, Requests
    <2>2. NoneCurrent(phone, tasks')
      BY <1>1, <1>4, OnlyCurrent
    <2>3. phone' = IF scene = "active" THEN Radio(Enter(p, "waitingForRadio"), radio, scene) ELSE p
      BY <1>4 DEF Prepared, BeginBluetooth
    <2>4. /\ p \in Phone /\ p.timer = phone.timer /\ p.stage = phone.stage /\ p.running = phone.running
          /\ p.observation = phone.observation /\ p.generation = phone.generation /\ p.peripheral = phone.peripheral
          /\ p.notifying = phone.notifying /\ p.key = phone.key /\ p.error = phone.error /\ p.info = phone.info
          /\ p.results = phone.results /\ p.pending = phone.pending /\ p.spaced = phone.spaced /\ p.drawn = phone.drawn
      BY IInvFacts DEF Phone
    <2> HIDE DEF p
    <2>5. p.running /\ p.error \notin Spurious /\ NoDevice(p) /\ p.peripheral = None /\ NoneCurrent(p, tasks')
      BY <2>1, <2>2, <2>4, BeforeFacts DEF NoDevice, NoAnswers, NoneCurrent
    <2>6. CASE scene = "active"
      <3>1. \A r \in air : r.device \in links /\ r.challenge.nonce < p.drawn
        BY <2>4, IInvFacts
      <3>2. /\ Radio(Enter(p, "waitingForRadio"), radio, scene) \in Phone
            /\ Good(Radio(Enter(p, "waitingForRadio"), radio, scene), tasks', air, links, cache, scene)
        BY <1>2, <2>4, <2>5, <3>1, IInvFacts, BeginGood
      <3>3. phone' \in Phone /\ Good(phone', tasks', air, links, cache, scene')
        BY <1>1, <2>3, <2>6, <3>2
      <3> QED
        BY <1>1, <1>2, <3>3, ControllerStep
    <2>7. CASE scene # "active"
      <3>1. phone' = p
        BY <2>3, <2>7
      <3>2. Shape(p)
        BY <2>4, IInvFacts DEF Shape, NoDevice, NoAnswers
      <3>3. Ordered(p) /\ Air(p, air, links)
        BY <2>4, IInvFacts, SameOrder, SameAir DEF Good
      <3>4. Clock(p, scene) /\ Uncaptured(p, cache)
        BY <2>4, IInvFacts DEF Good, Clock, Uncaptured
      <3>5. Requests(p, tasks')
        BY <1>2, <2>4, <2>5, NoneCurrentRequests
      <3>6. phone' \in Phone /\ Good(phone', tasks', air, links, cache, scene')
        BY <1>1, <2>4, <3>1, <3>2, <3>3, <3>4, <3>5 DEF Good
      <3> QED
        BY <1>1, <1>2, <3>6, ControllerStep
    <2> QED
      BY <2>6, <2>7
  <1> QED
    BY <1>3, <1>4

LEMMA RequestFailsKeeps == ASSUME IInv, NEW task \in tasks, RequestFails(task) PROVE IInv'
  <1>1. tasks' \subseteq tasks /\ UNCHANGED <<scene, radio, links, air, counters, cache, interruptions>>
    BY DEF RequestFails
  <1>2. CASE Current(task)
    <2>1. "service" \in Errors \ Spurious /\ phone' = Fail(phone, "service")
      BY <1>2 DEF Errors, Spurious, RequestFails
    <2>2. Halted(phone, phone')
      BY <2>1, IInvFacts, FailHalts
    <2> QED
      BY <1>1, <2>2, HaltStep
  <1>3. CASE ~Current(task)
    <2>1. phone' = phone
      BY <1>3 DEF RequestFails
    <2> QED
      BY <1>1, <2>1, RequestsGone
  <1> QED
    BY <1>2, <1>3

LEMMA ResolvedKeeps == ASSUME IInv, NEW task \in tasks, NEW e \in Epochs, Resolved(task, e) PROVE IInv'
  <1> DEFINE key == [device |-> task.device, epoch |-> e]
  <1>1. /\ tasks' = tasks \ {task} /\ task.kind = "resolve" /\ UNCHANGED <<scene, radio, links, air, counters, cache, interruptions>>
        /\ \/ phone' = phone
           \/ phone' = Fail(phone, "ineligible")
           \/ phone' = Stop(phone, "finished")
           \/ Current(task) /\ ~Stored(key) /\ phone' = EligibleNow(key)
    BY DEF Resolved
  <1>2. tasks' \in SUBSET Task /\ scene' \in Phases /\ radio' \in {"unknown", "on", "off"} /\ tasks' \subseteq tasks
    BY <1>1, IInvFacts
  <1>3. CASE phone' = phone
    BY <1>1, <1>2, <1>3, RequestsGone
  <1>4. CASE phone' = Fail(phone, "ineligible") \/ phone' = Stop(phone, "finished")
    <2>1. "ineligible" \in Errors \ Spurious /\ "finished" \in Ended
      BY DEF Errors, Spurious, Ended
    <2>2. Halted(phone, phone')
      BY <1>4, <2>1, IInvFacts, FailHalts, StopHalts
    <2> QED
      BY <1>1, <1>2, <2>2, HaltStep
  <1>5. CASE Current(task) /\ ~Stored(key) /\ phone' = EligibleNow(key)
    <2> DEFINE n == Enter(phone, "subscribing")
               p == [n EXCEPT !.key = key]
    <2>1. phone.running /\ phone.stage = "preflight" /\ task.device = phone.info
      BY <1>1, <1>5, IInvFacts DEF Current, Requests
    <2>2. phone.stage \in Asking /\ phone.stage \in Asking \cup Visiting /\ phone.stage \in Linking \cup Asking \cup Visiting
          /\ phone.stage \in Linking \cup Asking
      BY <2>1 DEF Asking
    <2>3. /\ NoAnswers(phone) /\ phone.info = phone.peripheral /\ phone.peripheral # None /\ phone.observation
          /\ phone.error \notin Spurious
      BY <2>1, <2>2, IInvFacts DEF Shape
    <2>4. key \in Keys /\ key # None /\ key.device = phone.info
      <3>1. phone.info \in Devices
        BY <2>3, IInvFacts DEF Phone
      <3>2. key \in Keys /\ key.device = phone.info
        BY <2>1, <3>1 DEF Keys
      <3> QED
        BY <3>2, NoneDistinct
    <2>5. phone' = IF p.notifying THEN NextChallenge(p) ELSE p
      BY <1>5 DEF EligibleNow
    <2>6. cache[key] = <<>>
      BY <1>5 DEF Stored
    <2> HIDE DEF key
    <2>7. "subscribing" \in Stages
      BY DEF Stages
    <2>8. /\ n \in Phone /\ n.stage = "subscribing" /\ n.timer = "subscribing" /\ n.running = phone.running
          /\ n.observation = phone.observation /\ n.generation = phone.generation /\ n.peripheral = phone.peripheral
          /\ n.error = phone.error /\ n.info = phone.info
          /\ n.results = phone.results /\ n.pending = phone.pending /\ n.spaced = phone.spaced /\ n.drawn = phone.drawn
      BY <2>7, IInvFacts, EnterFields
    <2> HIDE DEF n
    <2>9. p \in Phone
      BY <2>4, <2>8 DEF Phone
    <2>10. /\ p.stage = "subscribing" /\ p.timer = "subscribing" /\ p.running = phone.running
           /\ p.observation = phone.observation /\ p.generation = phone.generation /\ p.peripheral = phone.peripheral
           /\ p.error = phone.error /\ p.info = phone.info /\ p.key = key
           /\ p.results = phone.results /\ p.pending = phone.pending /\ p.spaced = phone.spaced /\ p.drawn = phone.drawn
      BY <2>8 DEF Phone
    <2> HIDE DEF p
    <2>11. NoAnswers(p) /\ p.pending = None /\ Ordered(p) /\ Uncaptured(p, cache)
      BY <2>3, <2>6, <2>10, IInvFacts, SameOrder DEF NoAnswers, Uncaptured, Good
    <2>12. NoneCurrent(p, tasks')
      BY <1>1, <1>5, <2>10, OnlyCurrent DEF NoneCurrent
    <2>13. \A r \in air : r.device \in links /\ r.challenge.nonce < p.drawn /\ r.challenge \in Challenge /\ r.device # p.peripheral
      BY <2>2, <2>10, IInvFacts DEF Good, Air, Response
    <2>14. CASE p.notifying
      <3>1. phone' = NextChallenge(p)
        BY <2>5, <2>14
      <3>2. /\ p.running /\ p.error \notin Spurious /\ p.peripheral # None /\ p.info = p.peripheral
            /\ p.observation <=> p.key # None
            /\ p.key # None => p.key.device = p.info
        BY <2>1, <2>3, <2>4, <2>10
      <3>3. NextChallenge(p) \in Phone /\ Good(NextChallenge(p), tasks', air, links, cache, scene)
        BY <1>2, <2>9, <2>11, <2>12, <2>13, <3>2, NextChallengeGood
      <3>4. phone' \in Phone /\ Good(phone', tasks', air, links, cache, scene')
        BY <1>1, <3>1, <3>3
      <3> QED
        BY <1>1, <1>2, <3>4, ControllerStep
    <2>15. CASE ~p.notifying
      <3>1. phone' = p
        BY <2>5, <2>15
      <3>2. /\ p.stage \notin Ended /\ p.stage \notin Before \cup Linking \cup Awaiting \cup Visiting
            /\ p.stage # "preflight" /\ p.stage \notin {"preparingService", "waitingForRadio"}
        BY <2>10 DEF Ended, Before, Linking, Awaiting, Visiting
      <3>3. Shape(p)
        BY <2>1, <2>3, <2>4, <2>10, <2>11, <2>15, <3>2 DEF Shape
      <3>4. Clock(p, scene)
        BY <2>10 DEF Clock
      <3>5. Requests(p, tasks')
        BY <1>2, <2>9, <2>12, NoneCurrentRequests
      <3>6. Air(p, air, links)
        BY <2>11, <2>13, <3>2 DEF Air
      <3>7. phone' \in Phone /\ Good(phone', tasks', air, links, cache, scene')
        BY <1>1, <2>9, <2>11, <3>1, <3>3, <3>4, <3>5, <3>6 DEF Good
      <3> QED
        BY <1>1, <1>2, <3>7, ControllerStep
    <2> QED
      BY <2>14, <2>15
  <1> QED
    BY <1>1, <1>3, <1>4, <1>5

LEMMA LinkingStages ==
    ASSUME NEW s \in Linking
    PROVE  /\ s \in Stages /\ s \notin Ended /\ s \notin Asking \cup Visiting /\ s \notin Awaiting
           /\ s # "preflight" /\ s # "subscribing" /\ s \notin {"preparingService", "waitingForRadio"}
  BY DEF Linking, Stages, Ended, Asking, Visiting, Awaiting

\* The stages from connecting to INFO, with a peripheral nothing was heard of.
LEMMA LinkingGood ==
    ASSUME NEW p \in Phone, NEW s \in Linking, p.running, p.error \notin Spurious, NoDevice(p), p.peripheral # None,
           NEW T \in SUBSET Task, NoneCurrent(p, T),
           NEW A, NEW L, NEW C, NEW ph, \A r \in A : r.device \in L /\ r.challenge.nonce < p.drawn /\ r.device # p.peripheral
    PROVE  Enter(p, s) \in Phone /\ Good(Enter(p, s), T, A, L, C, ph)
  <1> DEFINE q == Enter(p, s)
  <1>1. /\ s \in Stages /\ s \notin Ended /\ s \notin Asking \cup Visiting /\ s \notin Awaiting
        /\ s # "preflight" /\ s # "subscribing" /\ s \notin {"preparingService", "waitingForRadio"}
    BY LinkingStages
  <1>2. /\ q \in Phone /\ q.stage = s /\ q.timer = s /\ q.running = p.running /\ q.generation = p.generation
        /\ q.peripheral = p.peripheral /\ q.notifying = p.notifying /\ q.key = p.key /\ q.error = p.error /\ q.info = p.info
        /\ q.results = p.results /\ q.pending = p.pending /\ q.spaced = p.spaced /\ q.drawn = p.drawn
    BY <1>1, EnterFields, ZenonT(90)
  <1> HIDE DEF q
  <1>3. NoDevice(q) /\ q.key = None /\ q.pending = None /\ q.results = <<>> /\ q.running
    BY <1>2 DEF NoDevice, NoAnswers
  <1>4. Shape(q)
    BY <1>1, <1>2, <1>3 DEF Shape
  <1>5. Ordered(q) /\ Clock(q, ph) /\ Uncaptured(q, C)
    BY <1>2, <1>3 DEF Ordered, Challenges, Clock, Uncaptured
  <1>6. Requests(q, T)
    BY <1>2, NoneCurrentRequests DEF NoneCurrent
  <1>7. Air(q, A, L)
    BY <1>1, <1>2, <1>3 DEF Air
  <1>8. q \in Phone /\ Good(q, T, A, L, C, ph)
    BY <1>2, <1>4, <1>5, <1>6, <1>7 DEF Good
  <1> QED
    BY <1>8 DEF q

LEMMA ScanningFacts ==
    ASSUME IInv, phone.stage = "scanning"
    PROVE  phone.running /\ phone.error \notin Spurious /\ NoDevice(phone) /\ NoneCurrent(phone, tasks)
  <1>1. phone.stage \in Before \cup Linking /\ phone.stage \notin Ended /\ phone.stage \notin {"preparingService", "preflight"}
    BY DEF Before, Linking, Ended
  <1> QED
    BY <1>1, IInvFacts, OthersCurrent DEF Shape

\* While scanning the candidate is kept or let go.
LEMMA CandidateKeeps ==
    ASSUME IInv, phone.stage = "scanning", NEW d \in Devices \cup {None}, phone' = [phone EXCEPT !.peripheral = d],
           UNCHANGED <<tasks, scene, radio, links, air, counters, cache, interruptions>>
    PROVE  IInv'
  <1>1. /\ phone' \in Phone /\ phone'.timer = phone.timer /\ phone'.stage = "scanning" /\ phone'.running = phone.running
        /\ phone'.observation = phone.observation /\ phone'.generation = phone.generation
        /\ phone'.notifying = phone.notifying /\ phone'.key = phone.key /\ phone'.error = phone.error /\ phone'.info = phone.info
        /\ phone'.results = phone.results /\ phone'.pending = phone.pending /\ phone'.spaced = phone.spaced
        /\ phone'.drawn = phone.drawn /\ phone'.prepared = phone.prepared
    BY IInvFacts DEF Phone
  <1>2. phone'.stage \notin Ended \cup Linking \cup Asking \cup Visiting
    BY <1>1 DEF Ended, Linking, Asking, Visiting, Awaiting
  <1>3. NoDevice(phone') /\ phone'.running /\ phone'.error \notin Spurious /\ phone'.key = None /\ phone'.pending = None
    BY <1>1, ScanningFacts DEF NoDevice, NoAnswers
  <1>4. Shape(phone')
    BY <1>1, <1>2, <1>3 DEF Shape, Before, Linking, Asking, Awaiting, Visiting
  <1>5. Ordered(phone')
    BY <1>1, IInvFacts, SameOrder DEF Good
  <1>6. Clock(phone', scene) /\ Requests(phone', tasks) /\ Uncaptured(phone', cache)
    BY <1>1, IInvFacts DEF Good, Clock, Requests, Uncaptured
  <1>7. Air(phone', air, links)
    BY <1>1, <1>2, <1>3, IInvFacts DEF Air
  <1>8. Good(phone', tasks', air, links, cache, scene')
    BY <1>4, <1>5, <1>6, <1>7 DEF Good
  <1>9. tasks' \in SUBSET Task /\ scene' \in Phases /\ radio' \in {"unknown", "on", "off"}
    BY IInvFacts
  <1> QED
    BY <1>1, <1>8, <1>9, ControllerStep

\* A peripheral that is connected to was disconnected: nothing of it is in the
\* air.
LEMMA ConnectKeeps ==
    ASSUME IInv, phone.stage = "scanning", NEW d \in Devices, ConnectTo(d),
           UNCHANGED <<tasks, scene, radio, air, counters, cache, interruptions>>
    PROVE  IInv'
  <1>1. CASE d \in links
    <2>1. phone' = [phone EXCEPT !.peripheral = None] /\ UNCHANGED links
      BY <1>1 DEF ConnectTo
    <2> QED
      BY <2>1, CandidateKeeps
  <1>2. CASE d \notin links
    <2> DEFINE p == [phone EXCEPT !.peripheral = d]
    <2>1. phone' = [Enter(phone, "connecting") EXCEPT !.peripheral = d] /\ links' = links \cup {d}
      BY <1>2 DEF ConnectTo
    <2>2. phone' = Enter(p, "connecting")
      BY <2>1, IInvFacts DEF Enter, Phone
    <2>3. /\ p \in Phone /\ p.running = phone.running /\ p.generation = phone.generation /\ p.peripheral = d
          /\ p.notifying = phone.notifying /\ p.key = phone.key /\ p.error = phone.error /\ p.info = phone.info
          /\ p.results = phone.results /\ p.pending = phone.pending /\ p.spaced = phone.spaced /\ p.drawn = phone.drawn
      BY IInvFacts DEF Phone
    <2> HIDE DEF p
    <2>4. p.running /\ p.error \notin Spurious /\ NoDevice(p) /\ p.peripheral # None /\ NoneCurrent(p, tasks)
      BY <2>3, ScanningFacts, NoneDistinct DEF NoDevice, NoAnswers, NoneCurrent
    <2>5. \A r \in air : r.device \in links' /\ r.challenge.nonce < p.drawn /\ r.device # p.peripheral
      BY <1>2, <2>1, <2>3, IInvFacts
    <2>6. "connecting" \in Linking
      BY DEF Linking
    <2>7. phone' \in Phone /\ Good(phone', tasks, air, links', cache, scene)
      BY <2>2, <2>3, <2>4, <2>5, <2>6, IInvFacts, LinkingGood
    <2>8. Typed'
      BY <2>1, <2>7 DEF IInv, Typed
    <2>9. CaptureSound'
      BY IInvFacts, CapturesStay
    <2> QED
      BY <2>7, <2>8, <2>9 DEF IInv, Good
  <1> QED
    BY <1>1, <1>2

LEMMA DiscoverKeeps == ASSUME IInv, (\E d \in Devices : Discover(d)) \/ GraceEnds PROVE IInv'
  <1>1. ASSUME NEW d \in Devices, Discover(d) PROVE IInv'
    <2>1. phone.stage = "scanning" /\ UNCHANGED <<tasks, scene, radio, air, counters, cache, interruptions>>
      BY <1>1 DEF Discover
    <2>2. CASE ConnectTo(d)
      BY <2>1, <2>2, ConnectKeeps
    <2>3. CASE phone' = [phone EXCEPT !.peripheral = d] /\ UNCHANGED links
      BY <2>1, <2>3, CandidateKeeps
    <2> QED
      BY <1>1, <2>2, <2>3 DEF Discover
  <1>2. ASSUME GraceEnds PROVE IInv'
    <2>1. phone.stage = "scanning" /\ phone.peripheral \in Devices /\ UNCHANGED <<tasks, scene, radio, air, counters, cache, interruptions>>
      BY <1>2, IInvFacts DEF GraceEnds, Phone
    <2>2. PICK d \in Devices : d = phone.peripheral
      BY <2>1
    <2>3. ConnectTo(d)
      BY <1>2, <2>2 DEF GraceEnds
    <2> QED
      BY <2>1, <2>3, ConnectKeeps
  <1> QED
    BY <1>1, <1>2

LEMMA LinkingFacts ==
    ASSUME IInv, phone.stage \in Linking
    PROVE  /\ phone.running /\ phone.error \notin Spurious /\ NoDevice(phone) /\ phone.peripheral # None /\ NoneCurrent(phone, tasks)
           /\ \A r \in air : r.device \in links /\ r.challenge.nonce < phone.drawn /\ r.device # phone.peripheral /\ r \in Response
  <1>1. phone.stage \notin Ended /\ phone.stage \notin {"preparingService", "preflight"}
    BY LinkingStages
  <1>2. phone.running /\ phone.error \notin Spurious /\ NoDevice(phone) /\ phone.peripheral # None
    BY <1>1, IInvFacts DEF Shape
  <1>3. NoneCurrent(phone, tasks)
    BY <1>1, IInvFacts, OthersCurrent
  <1> QED
    BY <1>2, <1>3, IInvFacts DEF Good, Air

LEMMA DiscoveredKeeps == ASSUME IInv, Discovered PROVE IInv'
  <1>1. UNCHANGED <<tasks, scene, radio, links, air, counters, cache, interruptions>>
    BY DEF Discovered
  <1>2. CASE phone' = Fail(phone, "gatt")
    <2>1. "gatt" \in Errors \ Spurious
      BY DEF Errors, Spurious
    <2>2. Halted(phone, phone')
      BY <1>2, <2>1, IInvFacts, FailHalts
    <2> QED
      BY <1>1, <2>2, HaltStep
  <1>3. ASSUME NEW s \in Linking, phone.stage \in Linking, phone' = Enter(phone, s) PROVE IInv'
    <2>1. phone' \in Phone /\ Good(phone', tasks, air, links, cache, scene)
      BY <1>3, IInvFacts, LinkingFacts, LinkingGood
    <2>2. tasks' \in SUBSET Task /\ scene' \in Phases /\ radio' \in {"unknown", "on", "off"}
      BY <1>1, IInvFacts
    <2>3. Good(phone', tasks', air, links, cache, scene')
      BY <1>1, <2>1
    <2> QED
      BY <1>1, <2>1, <2>2, <2>3, ControllerStep
  <1>4. {"connecting", "services", "characteristics", "info"} \subseteq Linking
    BY DEF Linking
  <1> QED
    BY <1>2, <1>3, <1>4 DEF Discovered

LEMMA LinkLostKeeps == ASSUME IInv, DidFailToConnect \/ \E d \in Devices : Disconnected(d) PROVE IInv'
  <1>1. {"connect", "disconnected"} \subseteq Errors \ Spurious
    BY DEF Errors, Spurious
  <1>2. ASSUME Halted(phone, phone'), links' \subseteq links, air' \subseteq air, \A r \in air' : r.device \in links',
               UNCHANGED <<tasks, scene, radio, counters, cache, interruptions>>
        PROVE  IInv'
    <2>1. phone' \in Phone
      BY <1>2 DEF Halted
    <2>2. Good(phone', tasks, air', links', cache, scene)
      BY <1>2, IInvFacts, HaltedGood
    <2>3. Typed'
      BY <1>2, <2>1 DEF IInv, Typed
    <2>4. CaptureSound'
      BY <1>2, IInvFacts, CapturesStay
    <2> QED
      BY <1>2, <2>2, <2>3, <2>4 DEF IInv, Good
  <1>3. CASE DidFailToConnect
    <2>1. /\ phone.stage = "connecting" /\ phone' = Fail(phone, "connect") /\ links' = links \ {phone.peripheral}
          /\ UNCHANGED <<tasks, scene, radio, air, counters, cache, interruptions>>
      BY <1>3 DEF DidFailToConnect
    <2>2. phone.stage \in Linking
      BY <2>1 DEF Linking
    <2>3. Halted(phone, phone')
      BY <1>1, <2>1, IInvFacts, FailHalts
    <2>4. \A r \in air' : r.device \in links'
      BY <2>1, <2>2, LinkingFacts
    <2> QED
      BY <1>2, <2>1, <2>3, <2>4
  <1>4. ASSUME NEW d \in Devices, Disconnected(d) PROVE IInv'
    <2>1. /\ links' = links \ {d} /\ air' = {r \in air : r.device # d}
          /\ UNCHANGED <<tasks, scene, radio, counters, cache, interruptions>>
          /\ phone' = Fail(phone, "disconnected") \/ phone' = phone
      BY <1>4 DEF Disconnected
    <2>2. links' \subseteq links /\ air' \subseteq air /\ \A r \in air' : r.device \in links'
      BY <2>1, IInvFacts
    <2>3. CASE phone' = Fail(phone, "disconnected")
      <3>1. Halted(phone, phone')
        BY <1>1, <2>3, IInvFacts, FailHalts
      <3> QED
        BY <1>2, <2>1, <2>2, <3>1
    <2>4. CASE phone' = phone
      <3>1. Air(phone, air', links')
        BY <2>2, IInvFacts DEF Good, Air
      <3>2. Typed'
        BY <2>1, <2>2, <2>4 DEF IInv, Typed
      <3>3. CaptureSound'
        BY <2>1, IInvFacts, CapturesStay
      <3> QED
        BY <2>1, <2>4, <3>1, <3>2, <3>3 DEF IInv
    <2> QED
      BY <2>1, <2>3, <2>4
  <1> QED
    BY <1>3, <1>4

LEMMA InfoReadKeeps == ASSUME IInv, InfoRead PROVE IInv'
  <1> DEFINE p == [phone EXCEPT !.info = phone.peripheral]
  <1>1. /\ phone.stage = "info" /\ phone.stage \in Linking /\ UNCHANGED <<scene, radio, links, air, counters, cache, interruptions>>
        /\ IF phone.observation
           THEN /\ phone' = Enter(p, "preflight")
                /\ tasks' = tasks \cup {[kind |-> "resolve", generation |-> p.generation, device |-> p.info]}
           ELSE phone' = Enter(p, "subscribing") /\ tasks' = tasks
    BY DEF InfoRead, Linking
  <1>2. /\ p \in Phone /\ p.running = phone.running /\ p.observation = phone.observation /\ p.generation = phone.generation
        /\ p.peripheral = phone.peripheral /\ p.info = phone.peripheral /\ p.notifying = phone.notifying /\ p.key = phone.key
        /\ p.error = phone.error /\ p.results = phone.results /\ p.pending = phone.pending /\ p.spaced = phone.spaced
        /\ p.drawn = phone.drawn
    BY IInvFacts DEF Phone
  <1> HIDE DEF p
  <1>3. /\ phone.running /\ phone.error \notin Spurious /\ NoDevice(phone) /\ phone.peripheral # None /\ NoneCurrent(phone, tasks)
        /\ \A r \in air : r.device \in links /\ r.challenge.nonce < phone.drawn /\ r.device # phone.peripheral
    BY <1>1, LinkingFacts
  <1>4. ASSUME NEW s \in Asking, phone' = Enter(p, s), s = "preflight" <=> phone.observation, tasks' \in SUBSET Task, Requests(phone', tasks')
        PROVE  IInv'
    <2>1. /\ s \in Stages /\ s \notin Ended /\ s \notin Before \cup Linking \cup Visiting /\ s \notin Awaiting
          /\ s \notin {"preparingService", "waitingForRadio"}
      BY DEF Asking, Stages, Ended, Before, Linking, Visiting, Awaiting
    <2>2. /\ phone' \in Phone /\ phone'.stage = s /\ phone'.timer = s /\ phone'.running = phone.running
          /\ phone'.observation = phone.observation
          /\ phone'.peripheral = phone.peripheral /\ phone'.info = phone.peripheral /\ phone'.notifying = phone.notifying
          /\ phone'.key = phone.key /\ phone'.error = phone.error /\ phone'.results = phone.results
          /\ phone'.pending = phone.pending /\ phone'.spaced = phone.spaced /\ phone'.drawn = phone.drawn
      BY <1>2, <1>4, <2>1, EnterFields
    <2>3. NoAnswers(phone') /\ phone'.key = None /\ ~phone'.notifying /\ phone'.pending = None /\ phone'.results = <<>>
      BY <1>3, <2>2 DEF NoDevice, NoAnswers
    <2>4. Shape(phone')
      BY <1>3, <1>4, <2>1, <2>2, <2>3 DEF Shape
    <2>5. Ordered(phone') /\ Clock(phone', scene) /\ Uncaptured(phone', cache)
      BY <2>2, <2>3 DEF Ordered, Challenges, Clock, Uncaptured
    <2>6. Air(phone', air, links)
      BY <1>3, <2>1, <2>2, <2>3 DEF Air
    <2>7. scene' \in Phases /\ radio' \in {"unknown", "on", "off"}
      BY <1>1, IInvFacts
    <2>8. Good(phone', tasks', air, links, cache, scene')
      BY <1>1, <1>4, <2>4, <2>5, <2>6 DEF Good
    <2> QED
      BY <1>1, <1>4, <2>2, <2>7, <2>8, ControllerStep
  <1>5. "preflight" \in Stages /\ "subscribing" \in Stages /\ "preflight" \in Asking /\ "subscribing" \in Asking
    BY DEF Stages, Asking
  <1>6. CASE phone.observation
    <2> DEFINE new == [kind |-> "resolve", generation |-> p.generation, device |-> p.info]
    <2>1. phone' = Enter(p, "preflight") /\ tasks' = tasks \cup {new}
      BY <1>1, <1>6
    <2>2. phone'.stage = "preflight" /\ phone'.running /\ phone'.generation = phone.generation /\ phone'.info = phone.peripheral
      BY <1>2, <1>3, <1>5, <2>1, EnterFields
    <2>3. phone.generation \in Nat /\ phone.peripheral \in Devices
      BY <1>3, IInvFacts DEF Phone
    <2>4. new \in Task /\ new.kind = "resolve" /\ new.generation = phone.generation /\ new.device = phone.peripheral
      BY <1>2, <2>3 DEF Task
    <2> HIDE DEF new
    <2>5. Requests(phone', tasks')
      <3> SUFFICES ASSUME NEW t \in tasks'
                   PROVE  /\ t.generation <= phone.generation
                          /\ t.kind = "prepare" => t.device = None
                          /\ t.generation = phone.generation => t.kind = "resolve" /\ t.device = phone.peripheral
        BY <2>2 DEF Requests
      <3>1. CASE t = new
        BY <2>3, <2>4, <3>1
      <3>2. CASE t \in tasks
        <4>1. t.generation \in Nat /\ t.generation < phone.generation /\ (t.kind = "prepare" => t.device = None)
          BY <1>3, <3>2, IInvFacts DEF Task, NoneCurrent
        <4> QED
          BY <2>3, <4>1
      <3> QED
        BY <2>1, <3>1, <3>2
    <2>6. tasks' \in SUBSET Task
      BY <2>1, <2>4, IInvFacts
    <2> QED
      BY <1>4, <1>5, <1>6, <2>1, <2>5, <2>6
  <1>7. CASE ~phone.observation
    <2>1. phone' = Enter(p, "subscribing") /\ tasks' = tasks /\ tasks' \in SUBSET Task
      BY <1>1, <1>7, IInvFacts
    <2>2. phone' \in Phone /\ phone'.generation = phone.generation
      BY <1>2, <1>5, <2>1, EnterFields
    <2>3. Requests(phone', tasks')
      BY <1>3, <2>1, <2>2, NoneCurrentRequests DEF NoneCurrent
    <2>4. "subscribing" # "preflight"
      OBVIOUS
    <2> QED
      BY <1>4, <1>5, <1>7, <2>1, <2>3, <2>4
  <1> QED
    BY <1>6, <1>7

\* A step that changes nothing but whether signals were read, the subscription
\* of a session that waits for the service, or the spacing.
LEMMA SmallChange ==
    ASSUME IInv, UNCHANGED <<tasks, scene, radio, links, air, counters, cache, interruptions>>, phone' \in Phone,
           phone'.stage = phone.stage, phone'.timer = phone.timer, phone'.running = phone.running,
           phone'.observation = phone.observation, phone'.generation = phone.generation, phone'.peripheral = phone.peripheral,
           phone'.key = phone.key, phone'.error = phone.error, phone'.info = phone.info, phone'.results = phone.results,
           phone'.pending = phone.pending, phone'.drawn = phone.drawn, phone'.prepared = phone.prepared,
           phone.spaced => phone'.spaced,
           phone'.notifying => phone.notifying \/ phone.stage = "preflight"
    PROVE  IInv'
  <1>1. tasks' \in SUBSET Task /\ scene' \in Phases /\ radio' \in {"unknown", "on", "off"}
    BY IInvFacts
  <1>2. NoAnswers(phone) => NoAnswers(phone')
    BY DEF NoAnswers
  <1>3. phone.stage # "preflight" /\ NoDevice(phone) => NoDevice(phone')
    BY <1>2 DEF NoDevice
  <1>4. "preflight" \notin Ended \cup Before \cup Linking
    BY DEF Ended, Before, Linking
  <1>5. Shape(phone')
    BY <1>2, <1>3, <1>4, IInvFacts DEF Shape
  <1>6. Ordered(phone') /\ Air(phone', air, links)
    BY IInvFacts, SameOrder, SameAir DEF Good
  <1>7. Clock(phone', scene) /\ Requests(phone', tasks) /\ Uncaptured(phone', cache)
    BY IInvFacts DEF Good, Clock, Requests, Uncaptured
  <1>8. Good(phone', tasks', air, links, cache, scene')
    BY <1>5, <1>6, <1>7 DEF Good
  <1> QED
    BY <1>1, <1>8, ControllerStep

LEMMA SignalsKeep == ASSUME IInv, DidReadRSSI \/ SpacingPasses PROVE IInv'
  <1>1. UNCHANGED <<tasks, scene, radio, links, air, counters, cache, interruptions>>
    BY DEF DidReadRSSI, SpacingPasses
  <1>2. phone' = [phone EXCEPT !.rssi = TRUE] \/ phone' = [phone EXCEPT !.spaced = TRUE]
    BY DEF DidReadRSSI, SpacingPasses
  <1>3. /\ phone' \in Phone
        /\ phone'.stage = phone.stage /\ phone'.timer = phone.timer /\ phone'.running = phone.running
        /\ phone'.observation = phone.observation /\ phone'.generation = phone.generation /\ phone'.peripheral = phone.peripheral
        /\ phone'.key = phone.key /\ phone'.error = phone.error /\ phone'.info = phone.info /\ phone'.results = phone.results
        /\ phone'.pending = phone.pending /\ phone'.drawn = phone.drawn /\ phone'.prepared = phone.prepared
        /\ phone.spaced => phone'.spaced
        /\ phone'.notifying => phone.notifying
    BY <1>2, IInvFacts, ZenonT(90) DEF Phone
  <1> QED
    BY <1>1, <1>3, SmallChange

\* The first or next challenge of a device that is known and permitted.
LEMMA NextChallengeKeeps ==
    ASSUME IInv, NEW p \in Phone, phone' = NextChallenge(p), phone.stage \in {"subscribing"} \cup Visiting,
           UNCHANGED <<tasks, scene, radio, links, air, counters, cache, interruptions>>,
           p.running = phone.running, p.observation = phone.observation, p.generation = phone.generation,
           p.peripheral = phone.peripheral, p.key = phone.key, p.error = phone.error, p.info = phone.info,
           p.drawn = phone.drawn, p.pending = None, Ordered(p),
           \A r \in air : r.device = phone.peripheral => \E i \in 1 .. Len(p.results) : p.results[i] = r
    PROVE  IInv'
  <1>1. /\ phone.stage \in Asking \cup Visiting /\ phone.stage \in Linking \cup Asking \cup Visiting /\ phone.stage \notin Ended
        /\ phone.stage \notin {"preparingService", "preflight"}
    BY DEF Asking, Visiting, Awaiting, Ended
  <1>2. /\ p.running /\ p.error \notin Spurious /\ p.peripheral # None /\ p.info = p.peripheral
        /\ p.observation <=> p.key # None
        /\ p.key # None => p.key.device = p.info
    BY <1>1, IInvFacts DEF Shape
  <1>3. NoneCurrent(p, tasks)
    BY <1>1, IInvFacts, OthersCurrent DEF NoneCurrent
  <1>4. \A r \in air : r.device \in links /\ r.challenge.nonce < p.drawn /\ r.challenge \in Challenge
    BY IInvFacts DEF Response
  <1>5. \A r \in air : r.device = p.peripheral => \E i \in 1 .. Len(p.results) : p.results[i] = r
    OBVIOUS
  <1>6. Uncaptured(p, cache)
    BY IInvFacts DEF Good, Uncaptured
  <1>7. NextChallenge(p) \in Phone /\ Good(NextChallenge(p), tasks, air, links, cache, scene)
    BY <1>2, <1>3, <1>4, <1>5, <1>6, IInvFacts, NextChallengeGood
  <1>8. phone' \in Phone /\ Good(phone', tasks', air, links, cache, scene')
    BY <1>7
  <1>9. tasks' \in SUBSET Task /\ scene' \in Phases /\ radio' \in {"unknown", "on", "off"}
    BY IInvFacts
  <1> QED
    BY <1>8, <1>9, ControllerStep

LEMMA SubscribedKeeps == ASSUME IInv, Subscribed PROVE IInv'
  <1> DEFINE p == [phone EXCEPT !.notifying = TRUE]
  <1>1. /\ phone.stage \in {"preflight", "subscribing"} /\ phone' = (IF p.stage = "preflight" THEN p ELSE NextChallenge(p))
        /\ UNCHANGED <<tasks, scene, radio, links, air, counters, cache, interruptions>>
    BY DEF Subscribed
  <1>2. /\ p \in Phone
        /\ p.stage = phone.stage /\ p.timer = phone.timer /\ p.running = phone.running
        /\ p.observation = phone.observation /\ p.generation = phone.generation /\ p.peripheral = phone.peripheral
        /\ p.key = phone.key /\ p.error = phone.error /\ p.info = phone.info /\ p.results = phone.results
        /\ p.pending = phone.pending /\ p.drawn = phone.drawn /\ p.prepared = phone.prepared /\ p.spaced = phone.spaced
    BY IInvFacts DEF Phone
  <1> HIDE DEF p
  <1>3. CASE phone.stage = "preflight"
    <2>1. phone' = p
      BY <1>1, <1>2, <1>3
    <2> QED
      BY <1>1, <1>2, <1>3, <2>1, SmallChange
  <1>4. CASE phone.stage = "subscribing"
    <2>1. phone' = NextChallenge(p)
      BY <1>1, <1>2, <1>4
    <2>2. phone.stage \in Asking /\ phone.stage \in Linking \cup Asking /\ phone.stage \in {"subscribing"} \cup Visiting
      BY <1>4 DEF Asking
    <2>3. p.pending = None
      BY <1>2, <2>2, IInvFacts DEF Shape, NoAnswers
    <2>4. Ordered(p)
      BY <1>2, IInvFacts, SameOrder DEF Good
    <2>5. \A r \in air : r.device = phone.peripheral => \E i \in 1 .. Len(p.results) : p.results[i] = r
      BY <2>2, IInvFacts DEF Good, Air
    <2> QED
      BY <1>1, <1>2, <2>1, <2>2, <2>3, <2>4, <2>5, NextChallengeKeeps
  <1> QED
    BY <1>1, <1>3, <1>4

LEMMA PacingFiresKeeps == ASSUME IInv, PacingFires PROVE IInv'
  <1>1. /\ phone.stage = "pacing" /\ phone' = NextChallenge(phone)
        /\ UNCHANGED <<tasks, scene, radio, links, air, counters, cache, interruptions>>
    BY DEF PacingFires
  <1>2. phone.stage \in Visiting /\ phone.stage \notin Awaiting /\ phone.stage \in {"subscribing"} \cup Visiting
    BY <1>1 DEF Visiting, Awaiting
  <1>3. phone.pending = None
    BY <1>2, IInvFacts DEF Shape
  <1>4. \A r \in air : r.device = phone.peripheral => \E i \in 1 .. Len(phone.results) : phone.results[i] = r
    BY <1>2, <1>3, IInvFacts DEF Good, Air
  <1>5. Ordered(phone) /\ phone \in Phone
    BY IInvFacts DEF Good
  <1> QED
    BY <1>1, <1>2, <1>3, <1>4, <1>5, NextChallengeKeeps

LEMMA AwaitingFacts ==
    ASSUME IInv, phone.stage \in Awaiting
    PROVE  /\ phone.running /\ phone.pending # None /\ phone.pending \in Challenge /\ phone.peripheral \in Devices
           /\ phone.info = phone.peripheral /\ phone.error \notin Spurious /\ (phone.observation <=> phone.key # None)
           /\ phone.stage \in Visiting /\ phone.stage \notin Ended \cup Before \cup Linking \cup Asking /\ phone.stage # "pacing"
           /\ phone.pending.nonce < phone.drawn
           /\ \A i \in 1 .. Len(phone.results) : phone.results[i].challenge.nonce < phone.pending.nonce
           /\ NoneCurrent(phone, tasks)
  <1>1. /\ phone.stage \in Visiting /\ phone.stage \notin Ended \cup Before \cup Linking \cup Asking /\ phone.stage # "pacing"
        /\ phone.stage \notin {"preparingService", "preflight"}
    BY DEF Awaiting, Visiting, Ended, Before, Linking, Asking
  <1>2. /\ phone.running /\ phone.pending # None /\ phone.peripheral # None /\ phone.info = phone.peripheral
        /\ phone.error \notin Spurious /\ (phone.observation <=> phone.key # None)
    BY <1>1, IInvFacts DEF Shape
  <1>3. phone.pending \in Challenge /\ phone.peripheral \in Devices
    BY <1>2, IInvFacts DEF Phone
  <1>4. phone.pending.nonce < phone.drawn /\ \A i \in 1 .. Len(phone.results) : phone.results[i].challenge.nonce < phone.pending.nonce
    BY <1>2, IInvFacts DEF Good, Ordered
  <1>5. NoneCurrent(phone, tasks)
    BY <1>1, IInvFacts, OthersCurrent
  <1> QED
    BY <1>1, <1>2, <1>3, <1>4, <1>5

\* The device answers a challenge once.
LEMMA DeviceAnswersKeeps == ASSUME IInv, DeviceAnswers PROVE IInv'
  <1>1. /\ phone.pending # None /\ phone.peripheral \in links /\ \A r \in air : r.challenge # phone.pending
        /\ UNCHANGED <<phone, tasks, scene, radio, links, cache, interruptions>>
    BY DEF DeviceAnswers
  <1>2. phone.stage \in Awaiting
    BY <1>1, IInvFacts DEF Shape
  <1>3. phone.peripheral \in Devices /\ counters \in [Devices -> Nat] /\ air \subseteq Response
    BY <1>2, IInvFacts, AwaitingFacts DEF Typed
  <1>4. PICK counter \in {counters[phone.peripheral], counters[phone.peripheral] + 1} :
            /\ air' = air \cup {[device |-> phone.peripheral, challenge |-> phone.pending, counter |-> counter]}
            /\ counters' = [counters EXCEPT ![phone.peripheral] = counter]
    BY DEF DeviceAnswers
  <1>5. counter \in Nat /\ counters' \in [Devices -> Nat]
    BY <1>3, <1>4
  <1> DEFINE new == [device |-> phone.peripheral, challenge |-> phone.pending, counter |-> counter]
  <1>6. new \in Response /\ new.device = phone.peripheral /\ new.challenge = phone.pending /\ air' = air \cup {new}
    BY <1>2, <1>3, <1>4, <1>5, AwaitingFacts DEF Response
  <1> HIDE DEF new
  <1>7. Air(phone, air, links)
    BY IInvFacts DEF Good
  <1>8. Air(phone, air', links)
    <2>1. \A r \in air' : r.device \in links /\ r.challenge.nonce < phone.drawn
      BY <1>1, <1>2, <1>6, IInvFacts, AwaitingFacts
    <2>2. phone.stage \notin Linking \cup Asking
      BY <1>2, AwaitingFacts
    <2>3. \A r \in air' : r.device = phone.peripheral =>
              \/ phone.pending # None /\ r.challenge = phone.pending
              \/ \E i \in 1 .. Len(phone.results) : phone.results[i] = r
      BY <1>1, <1>2, <1>6, <1>7, AwaitingFacts DEF Air
    <2>4. \A r, s \in air' : r.challenge = phone.pending /\ s.challenge = phone.pending => r = s
      BY <1>1, <1>6
    <2> QED
      BY <2>1, <2>2, <2>3, <2>4 DEF Air
  <1>9. Typed'
    BY <1>1, <1>3, <1>5, <1>6 DEF IInv, Typed
  <1>10. CaptureSound'
    BY <1>1, IInvFacts, CapturesStay
  <1> QED
    BY <1>1, <1>8, <1>9, <1>10 DEF IInv

\* An answer that was not accepted before is the one that is waited for: only
\* its counter can be wrong.
LEMMA AnswerFacts ==
    ASSUME IInv, Listening, NEW r \in air, r.device = phone.peripheral, ~Accepted(r)
    PROVE  /\ phone.stage \in Awaiting /\ r \in Response /\ r.challenge = phone.pending /\ r.device = phone.info
           /\ Rejection(r) # None => Rejection(r) = "nonIncreasingCounter"
  <1>1. phone.stage \in Awaiting /\ r \in Response
    BY IInvFacts DEF Listening, Awaiting
  <1>2. Air(phone, air, links) /\ phone.results \in Seq(Response)
    BY IInvFacts DEF Good, Phone
  <1>3. ~\E i \in 1 .. Len(phone.results) : phone.results[i] = r
    BY <1>2 DEF Accepted
  <1>4. phone.pending # None /\ r.challenge = phone.pending /\ r.device = phone.info
    BY <1>1, <1>2, <1>3, AwaitingFacts DEF Air
  <1>5. Rejection(r) = "nonIncreasingCounter" \/ Rejection(r) = None
    BY <1>4 DEF Rejection
  <1> QED
    BY <1>1, <1>4, <1>5

LEMMA VerifiedFields ==
    ASSUME phone \in Phone, NEW r \in Response
    PROVE  /\ Verified(r) \in Phone /\ Verified(r).running = phone.running /\ Verified(r).observation = phone.observation
           /\ Verified(r).generation = phone.generation /\ Verified(r).peripheral = phone.peripheral /\ Verified(r).key = phone.key
           /\ Verified(r).error = phone.error /\ Verified(r).info = phone.info /\ Verified(r).drawn = phone.drawn
           /\ Verified(r).pending = None /\ Verified(r).results = Append(phone.results, r)
  <1>1. phone.results \in Seq(Response)
    BY DEF Phone
  <1>2. Append(phone.results, r) \in Seq(Response)
    BY <1>1
  <1>3. Verified(r) = [phone EXCEPT !.results = Append(phone.results, r), !.pending = None]
    BY DEF Verified
  <1> QED
    BY <1>2, <1>3 DEF Phone

LEMMA AppendFacts ==
    ASSUME NEW s \in Seq(Response), NEW r \in Response
    PROVE  /\ Append(s, r) \in Seq(Response) /\ Len(s) \in Nat /\ Len(Append(s, r)) = Len(s) + 1 /\ Append(s, r)[Len(s) + 1] = r
           /\ \A i \in 1 .. Len(s) : Append(s, r)[i] = s[i] /\ s[i] \in Response
           /\ \A i \in 1 .. Len(s) + 1 : i \in 1 .. Len(s) \/ i = Len(s) + 1
  OBVIOUS

\* The answers with the new one are still in the order of their challenges.
LEMMA NoncesRise ==
    ASSUME IInv, NEW r \in Response, phone.stage \in Awaiting, r.challenge = phone.pending, NEW s, s = Append(phone.results, r)
    PROVE  /\ s \in Seq(Response) /\ Len(s) = Len(phone.results) + 1
           /\ \A i, j \in 1 .. Len(s) : i < j => s[i].challenge.nonce < s[j].challenge.nonce
           /\ \A i \in 1 .. Len(s) : s[i].challenge.nonce < phone.drawn
  <1> DEFINE old == phone.results
  <1>1. /\ old \in Seq(Response) /\ phone.drawn \in Nat
        /\ \A i, j \in 1 .. Len(old) : i < j => old[i].challenge.nonce < old[j].challenge.nonce
        /\ \A i \in 1 .. Len(old) : old[i].challenge.nonce < phone.drawn
    BY IInvFacts DEF Good, Phone, Ordered
  <1>2. r.challenge.nonce < phone.drawn /\ \A i \in 1 .. Len(old) : old[i].challenge.nonce < r.challenge.nonce
    BY AwaitingFacts
  <1> HIDE DEF old
  <1>3. s = Append(old, r)
    BY DEF old
  <1>4. /\ s \in Seq(Response) /\ Len(old) \in Nat /\ Len(s) = Len(old) + 1 /\ s[Len(old) + 1] = r
        /\ \A i \in 1 .. Len(old) : s[i] = old[i]
        /\ \A i \in 1 .. Len(old) + 1 : i \in 1 .. Len(old) \/ i = Len(old) + 1
    BY <1>1, <1>3, AppendFacts
  <1>5. \A i \in 1 .. Len(s) : s[i].challenge.nonce < phone.drawn
    BY <1>1, <1>2, <1>4
  <1>6. ASSUME NEW i \in 1 .. Len(s), NEW j \in 1 .. Len(s), i < j PROVE s[i].challenge.nonce < s[j].challenge.nonce
    <2>1. i \in 1 .. Len(old)
      BY <1>4, <1>6
    <2>2. CASE j \in 1 .. Len(old)
      BY <1>1, <1>4, <1>6, <2>1, <2>2
    <2>3. CASE j = Len(old) + 1
      BY <1>2, <1>4, <2>1, <2>3
    <2> QED
      BY <1>4, <2>2, <2>3
  <1>7. Len(s) = Len(phone.results) + 1
    BY <1>4 DEF old
  <1> QED
    BY <1>4, <1>5, <1>6, <1>7

LEMMA ReceiveKeeps == ASSUME IInv, NEW r \in air, Receive(r) PROVE IInv'
  <1>1. Listening /\ r.device = phone.peripheral /\ UNCHANGED <<tasks, scene, radio, links, air, counters, cache, interruptions>>
    BY DEF Receive
  <1>2. {"nonIncreasingCounter", "signals"} \subseteq Errors \ Spurious
    BY DEF Errors, Spurious
  <1>3. CASE UNCHANGED phone
    BY <1>1, <1>3, RequestsGone
  <1>4. ASSUME NEW e \in Errors \ Spurious, phone' = Fail(phone, e) PROVE IInv'
    <2>1. Halted(phone, phone')
      BY <1>4, IInvFacts, FailHalts
    <2> QED
      BY <1>1, <2>1, HaltStep
  <1>5. CASE ~Accepted(r) /\ Rejection(r) # None /\ phone' = Fail(phone, Rejection(r))
    <2>1. phone' = Fail(phone, "nonIncreasingCounter")
      BY <1>1, <1>5, AnswerFacts
    <2> QED
      BY <1>2, <1>4, <2>1
  <1>6. CASE phone' = Fail(phone, "signals")
    BY <1>2, <1>4, <1>6
  <1>7. CASE ~Accepted(r) /\ Len(phone.results) + 1 < Challenges /\ phone' = NextChallenge(Verified(r))
    <2> DEFINE p == Verified(r)
    <2>1. phone.stage \in Awaiting /\ r \in Response /\ r.challenge = phone.pending /\ r.device = phone.info
      BY <1>1, <1>7, AnswerFacts
    <2>2. /\ p \in Phone /\ p.running = phone.running /\ p.observation = phone.observation
          /\ p.generation = phone.generation /\ p.peripheral = phone.peripheral /\ p.key = phone.key
          /\ p.error = phone.error /\ p.info = phone.info /\ p.drawn = phone.drawn
          /\ p.pending = None /\ p.results = Append(phone.results, r)
      BY <2>1, IInvFacts, VerifiedFields
    <2>3. phone' = NextChallenge(p)
      BY <1>7
    <2> HIDE DEF p
    <2>4. /\ Len(p.results) = Len(phone.results) + 1
          /\ \A i, j \in 1 .. Len(p.results) : i < j => p.results[i].challenge.nonce < p.results[j].challenge.nonce
          /\ \A i \in 1 .. Len(p.results) : p.results[i].challenge.nonce < phone.drawn
      BY <2>1, <2>2, NoncesRise
    <2>5. Ordered(p)
      BY <1>7, <2>2, <2>4 DEF Ordered
    <2>6. \A s \in air : s.device = phone.peripheral => \E i \in 1 .. Len(p.results) : p.results[i] = s
      <3> SUFFICES ASSUME NEW s \in air, s.device = phone.peripheral
                   PROVE  \E i \in 1 .. Len(p.results) : p.results[i] = s
        OBVIOUS
      <3>1. phone.results \in Seq(Response)
        BY IInvFacts DEF Phone
      <3>2. /\ Len(phone.results) \in Nat /\ p.results[Len(phone.results) + 1] = r
            /\ \A i \in 1 .. Len(phone.results) : p.results[i] = phone.results[i]
        BY <2>1, <2>2, <3>1, AppendFacts
      <3>3. Air(phone, air, links) /\ phone.pending # None /\ phone.stage \in Visiting
        BY <2>1, IInvFacts, AwaitingFacts DEF Good
      <3>4. CASE s.challenge = phone.pending
        <4>1. s = r
          BY <2>1, <3>3, <3>4 DEF Air
        <4> QED
          BY <2>4, <3>2, <4>1
      <3>5. CASE \E i \in 1 .. Len(phone.results) : phone.results[i] = s
        BY <2>4, <3>2, <3>5
      <3> QED
        BY <3>3, <3>4, <3>5 DEF Air
    <2>7. phone.stage \in {"subscribing"} \cup Visiting
      BY <2>1, AwaitingFacts
    <2> QED
      BY <1>1, <2>2, <2>3, <2>5, <2>6, <2>7, NextChallengeKeeps
  <1> QED
    BY <1>3, <1>5, <1>6, <1>7 DEF Receive

\* The third answer: what is saved is what CaptureSound asks of a capture.
LEMMA CompleteKeeps == ASSUME IInv, NEW r \in air, Complete(r) PROVE IInv'
  <1> DEFINE results == Verified(r).results
  <1>1. /\ Listening /\ r.device = phone.peripheral /\ ~Accepted(r) /\ Len(results) = Challenges
        /\ UNCHANGED <<tasks, scene, radio, links, air, counters, interruptions>>
    BY DEF Complete
  <1>2. \/ phone' = Stop(phone, "finished") /\ UNCHANGED cache
        \/ /\ phone.observation /\ Valid(results) /\ \E dropped \in SUBSET Keys : cache' = Save(phone.key, results, dropped)
           /\ phone' = Stop(phone, "finished")
        \/ phone' = Fail(phone, "capture") /\ UNCHANGED cache
    BY DEF Complete
  <1>3. "finished" \in Ended /\ "capture" \in Errors \ Spurious
    BY DEF Ended, Errors, Spurious
  <1>4. Halted(phone, phone')
    BY <1>2, <1>3, IInvFacts, StopHalts, FailHalts
  <1>5. CASE UNCHANGED cache
    BY <1>1, <1>4, <1>5, HaltStep
  <1>6. CASE phone.observation /\ Valid(results) /\ \E dropped \in SUBSET Keys : cache' = Save(phone.key, results, dropped)
    <2>1. phone.stage \in Awaiting /\ r \in Response /\ r.challenge = phone.pending
      BY <1>1, AnswerFacts
    <2>2. results = Append(phone.results, r)
      BY <2>1, IInvFacts, VerifiedFields
    <2> HIDE DEF results
    <2>3. /\ results \in Seq(Response)
          /\ \A i, j \in 1 .. Len(results) : i < j => results[i].challenge.nonce < results[j].challenge.nonce
      BY <2>1, <2>2, NoncesRise
    <2>4. DOMAIN results = 1 .. Challenges
      BY <1>1, <2>3
    <2>5. phone.key # None /\ phone.key \in Keys /\ phone.key.device = phone.info
      BY <1>6, <2>1, IInvFacts, AwaitingFacts DEF Shape, Phone
    <2>6. cache \in [Keys -> Seq(Response)]
      BY IInvFacts DEF Typed
    <2>7. /\ cache' \in [Keys -> Seq(Response)]
          /\ \A k \in Keys : cache'[k] # <<>> => cache'[k] = IF k = phone.key THEN results ELSE cache[k]
      <3>1. PICK dropped \in SUBSET Keys : cache' = Save(phone.key, results, dropped)
        BY <1>6
      <3>2. cache' = [k \in Keys |-> IF k \in dropped THEN <<>> ELSE IF k = phone.key THEN results ELSE cache[k]]
        BY <3>1 DEF Save
      <3>3. <<>> \in Seq(Response)
        OBVIOUS
      <3> QED
        BY <2>3, <2>6, <3>2, <3>3
    <2>8. CaptureSound'
      <3> SUFFICES ASSUME NEW k \in Keys, cache'[k] # <<>>
                   PROVE  /\ Len(cache'[k]) = Challenges
                          /\ \A i \in 1 .. Challenges : cache'[k][i].device = k.device /\ cache'[k][i].challenge.epoch = k.epoch
                          /\ \A i, j \in 1 .. Challenges : i < j =>
                                /\ k.device \in Counting => cache'[k][i].counter < cache'[k][j].counter
                                /\ cache'[k][i].challenge.nonce < cache'[k][j].challenge.nonce
        BY DEF CaptureSound, Stored
      <3>1. CASE k = phone.key
        <4>1. /\ \A i \in 1 .. Challenges : results[i].challenge.epoch = k.epoch /\ results[i].device = k.device
              /\ k.device \in Counting => \A i, j \in 1 .. Challenges : i < j => results[i].counter < results[j].counter
          BY <1>6, <2>4, <2>5, <3>1 DEF Valid
        <4> QED
          BY <1>1, <2>3, <2>7, <3>1, <4>1
      <3>2. CASE k # phone.key
        BY <2>7, <3>2, IInvFacts DEF CaptureSound, Stored
      <3> QED
        BY <3>1, <3>2
    <2>9. phone' \in Phone
      BY <1>4 DEF Halted
    <2>10. Good(phone', tasks, air, links, cache', scene)
      BY <1>4, IInvFacts, HaltedGood
    <2>11. Typed'
      BY <1>1, <2>7, <2>9 DEF IInv, Typed
    <2> QED
      BY <1>1, <2>8, <2>10, <2>11 DEF IInv, Good
  <1> QED
    BY <1>2, <1>5, <1>6

LEMMA ShortNotificationKeeps == ASSUME IInv, ShortNotification PROVE IInv'
  <1>1. /\ phone.stage \in Awaiting /\ UNCHANGED <<tasks, scene, radio, links, air, counters, cache, interruptions>>
        /\ phone' = Fail(phone, "short") \/ phone' = Enter(phone, "readFallback")
    BY DEF ShortNotification, Listening, Awaiting
  <1>2. CASE phone' = Fail(phone, "short")
    <2>1. "short" \in Errors \ Spurious
      BY DEF Errors, Spurious
    <2>2. Halted(phone, phone')
      BY <1>2, <2>1, IInvFacts, FailHalts
    <2> QED
      BY <1>1, <2>2, HaltStep
  <1>3. CASE phone' = Enter(phone, "readFallback")
    <2>1. "readFallback" \in Stages
      BY DEF Stages
    <2>2. /\ phone' \in Phone /\ phone'.stage = "readFallback" /\ phone'.timer = "readFallback"
          /\ phone'.running = phone.running /\ phone'.observation = phone.observation /\ phone'.generation = phone.generation
          /\ phone'.peripheral = phone.peripheral /\ phone'.notifying = phone.notifying
          /\ phone'.key = phone.key /\ phone'.error = phone.error /\ phone'.info = phone.info
          /\ phone'.results = phone.results /\ phone'.pending = phone.pending
          /\ phone'.spaced = phone.spaced /\ phone'.drawn = phone.drawn
      BY <1>3, <2>1, IInvFacts, EnterFields
    <2>3. /\ phone'.stage \in Awaiting /\ phone'.stage \in Visiting /\ phone'.stage \notin Ended \cup Before \cup Linking \cup Asking
          /\ phone'.stage \notin {"preparingService", "waitingForRadio", "preflight", "subscribing"}
      BY <2>2 DEF Awaiting, Visiting, Ended, Before, Linking, Asking
    <2>4. phone.key # None => phone.key.device = phone.info
      BY IInvFacts DEF Shape
    <2>5. phone'.peripheral # None
      BY <1>1, <2>2, AwaitingFacts, NoneDistinct
    <2>6. Shape(phone')
      BY <1>1, <2>2, <2>3, <2>4, <2>5, AwaitingFacts DEF Shape
    <2>7. Ordered(phone')
      BY <2>2, IInvFacts, SameOrder DEF Good
    <2>8. Clock(phone', scene) /\ Uncaptured(phone', cache)
      BY <2>2, IInvFacts DEF Good, Clock, Uncaptured
    <2>9. Requests(phone', tasks)
      BY <1>1, <2>2, IInvFacts, AwaitingFacts, NoneCurrentRequests DEF NoneCurrent
    <2>10. Air(phone', air, links)
      BY <1>1, <2>2, <2>3, IInvFacts, AwaitingFacts DEF Good, Air
    <2>11. Good(phone', tasks', air, links, cache, scene')
      BY <1>1, <2>6, <2>7, <2>8, <2>9, <2>10 DEF Good
    <2>12. tasks' \in SUBSET Task /\ scene' \in Phases /\ radio' \in {"unknown", "on", "off"}
      BY <1>1, IInvFacts
    <2> QED
      BY <1>1, <2>2, <2>11, <2>12, ControllerStep
  <1> QED
    BY <1>1, <1>2, <1>3

-----------------------------------------------------------------------------
(* The theorems. *)

LEMMA InitIInv == ASSUME Init PROVE IInv
  <1>1. phone = Blank /\ tasks = {} /\ air = {} /\ cache = [k \in Keys |-> <<>>]
    BY DEF Init
  <1>2. Typed
    BY <1>1, BlankFacts DEF Init, Typed
  <1>3. /\ phone.stage \in Ended /\ phone.stage \notin Before \cup Linking \cup Asking \cup Visiting /\ phone.stage \notin Awaiting
        /\ phone.stage \notin {"preflight", "subscribing", "preparingService", "waitingForRadio"} /\ None \notin Spurious
    BY <1>1, BlankFacts, NoneDistinct DEF Ended, Before, Linking, Asking, Visiting, Awaiting, Spurious, Errors
  <1>4. Shape(phone)
    BY <1>1, <1>3, BlankFacts DEF Shape, NoDevice, NoAnswers, Visiting
  <1>5. Ordered(phone) /\ Clock(phone, scene) /\ Requests(phone, tasks) /\ Air(phone, air, links) /\ Uncaptured(phone, cache)
    BY <1>1, <1>3, BlankFacts DEF Ordered, Challenges, Clock, Requests, Air, Uncaptured
  <1>6. CaptureSound
    BY <1>1 DEF CaptureSound, Stored
  <1> QED
    BY <1>2, <1>4, <1>5, <1>6 DEF IInv

LEMMA NextIInv == ASSUME IInv, [Next]_vars PROVE IInv'
  <1>1. CASE UNCHANGED vars
    BY <1>1, RequestsGone DEF vars
  <1>2. CASE \E o \in BOOLEAN : Start(o)
    BY <1>2, StartKeeps
  <1>3. CASE Cancel \/ GattFails \/ Malformed \/ TimerFires
    BY <1>3, EndKeeps
  <1>4. CASE Resume \/ \E phase \in {"inactive", "background"} : Leave(phase)
    BY <1>4, ResumeKeeps, LeaveKeeps
  <1>5. CASE \E state \in {"unknown", "on", "off"} : RadioChanges(state)
    BY <1>5, RadioChangesKeeps
  <1>6. CASE RequestEnds
    BY <1>6, PreparedKeeps, RequestFailsKeeps, ResolvedKeeps DEF RequestEnds
  <1>7. CASE (\E d \in Devices : Discover(d)) \/ GraceEnds
    BY <1>7, DiscoverKeeps
  <1>8. CASE DidFailToConnect \/ \E d \in Devices : Disconnected(d)
    BY <1>8, LinkLostKeeps
  <1>9. CASE Discovered \/ InfoRead
    BY <1>9, DiscoveredKeeps, InfoReadKeeps
  <1>10. CASE Subscribed \/ PacingFires \/ DidReadRSSI \/ SpacingPasses
    BY <1>10, SubscribedKeeps, PacingFiresKeeps, SignalsKeep
  <1>11. CASE DeviceAnswers \/ ShortNotification
    BY <1>11, DeviceAnswersKeeps, ShortNotificationKeeps
  <1>12. CASE \E r \in air : Receive(r) \/ Complete(r)
    BY <1>12, ReceiveKeeps, CompleteKeeps
  <1> QED
    BY <1>1, <1>2, <1>3, <1>4, <1>5, <1>6, <1>7, <1>8, <1>9, <1>10, <1>11, <1>12 DEF Next

\* The controller's inductive invariant holds in every reachable state.
THEOREM AlwaysIInv == Spec => []IInv
  <1>1. Init => IInv
    BY InitIInv
  <1>2. IInv /\ [Next]_vars => IInv'
    BY NextIInv
  <1> QED
    BY <1>1, <1>2, PTL DEF Spec

\* In every stage the controller has what that stage needs, whatever callbacks,
\* requests of ended sessions and interruptions come in between: its timer, a
\* subscription still to come, a device whose capture is not in the cache.
THEOREM EveryStageServed == Spec => []ControllerConsistent
  <1>1. ASSUME IInv PROVE ControllerConsistent
    <2>1. TypeOK
      BY <1>1 DEF IInv, Typed, Phone, Shape, Ordered, TypeOK
    <2>2. TimerArmed
      BY <1>1 DEF IInv, Clock, TimerArmed
    <2>3. SubscribedOnce
      BY <1>1 DEF IInv, Shape, SubscribedOnce
    <2>4. NotChallengedAgain
      BY <1>1 DEF IInv, Uncaptured, NotChallengedAgain
    <2> QED
      BY <2>1, <2>2, <2>3, <2>4 DEF ControllerConsistent
  <1> QED
    BY <1>1, AlwaysIInv, PTL

\* What the observation cache holds for a device and an epoch are three answers
\* of that device to three challenges of that epoch, each new, and with a rising
\* counter if the device claims one.
THEOREM CapturesAreThreeAnswers == Spec => []CaptureSound
  <1>1. IInv => CaptureSound
    BY DEF IInv
  <1> QED
    BY <1>1, AlwaysIInv, PTL

\* A late or repeated answer never fails a session: no error but a counter that
\* does not rise comes out of ChallengeSession.receive, and beginChallenge is
\* never called too soon.
THEOREM LateAnswersHarmless == Spec => []NoSpuriousFailure
  <1>1. IInv => NoSpuriousFailure
    BY DEF IInv, Shape, Spurious, NoSpuriousFailure
  <1> QED
    BY <1>1, AlwaysIInv, PTL

-----------------------------------------------------------------------------
(* Withdrawals. *)

OpPoints == {"idle", "balance", "quote", "authorize", "save", "reread", "status", "height", "decide", "send"}
Preparing == {"balance", "quote", "authorize", "save"}
Reconciling == {"status", "height", "decide", "send"}
Fates == {"signed", "sent", "ok", "failed"}

Operation == [at: OpPoints, tx: Nat \cup {Nothing}, read: [nonce: Nat, available: Int],
              status: {"absent", "pending", "failed", "finalized"}, height: Nat]
Withdrawal == [nonce: Nat, amount: Int, last: Nat, legacy: BOOLEAN]
Account == [height: Nat, nonce: Nat, available: Int, credited: Nat]

PayoutTyped ==
    /\ Payouts!PayoutConstants
    /\ txs \in Seq(Withdrawal) /\ fate \in Seq(Fates) /\ Len(fate) = Len(txs)
    /\ saved \in (1 .. Len(txs)) \cup {Nothing} /\ op \in [Screens -> Operation]
    /\ chain \in Account /\ overlap \in BOOLEAN /\ told \subseteq (1 .. Len(txs)) \X {"completed", "replaced"}

\* A transaction that paid was executed at its nonce, which has passed; what was
\* declared replaced can no longer pay.
PaidOnce ==
    \A t \in 1 .. Len(txs) :
        /\ fate[t] = "ok" => txs[t].nonce < chain.nonce
        /\ <<t, "replaced">> \in told => fate[t] # "ok" /\ ~Payouts!Live(t)

\* What an operation holds: a saved transaction, and a height that has been finalized.
Held ==
    \A s \in Screens :
        /\ op[s].at \in Reconciling => op[s].tx \in 1 .. Len(txs)
        /\ op[s].at = "decide" => op[s].height <= chain.height

\* With one operation at a time: a new withdrawal is prepared while there is no
\* file, so that the nonce it read stays; a saved one is reconciled while it is
\* in the file; what can still pay is in the file; and the file's nonce passes
\* only when its own transaction has paid.
Exclusive == \A s, other \in Screens : s # other => op[s].at = "idle" \/ op[other].at = "idle"
Attached ==
    \A s \in Screens :
        /\ op[s].at \in Preparing => saved = Nothing
        /\ op[s].at \in {"quote", "authorize", "save"} => op[s].read.nonce = chain.nonce
        /\ op[s].at \in Reconciling => saved = op[s].tx
Tracked ==
    /\ \A t \in 1 .. Len(txs) : Payouts!Live(t) => saved = t
    /\ \A t \in 1 .. Len(txs) : <<t, "completed">> \in told => fate[t] = "ok"
    /\ saved # Nothing =>
          /\ txs[saved].nonce <= chain.nonce
          /\ txs[saved].nonce < chain.nonce => fate[saved] = "ok"
OneAtATime == ~overlap => Exclusive /\ Attached /\ Tracked

PayoutInv == PayoutTyped /\ PaidOnce /\ Held /\ OneAtATime

LEMMA PayoutInit == Payouts!PayoutConstants /\ Payouts!Init => PayoutInv
  <1> SUFFICES ASSUME Payouts!PayoutConstants, Payouts!Init PROVE PayoutInv
    OBVIOUS
  <1>1. Lifetime \in Nat /\ Nothing \notin Nat /\ MaxHeight \in Nat
    BY DEF Payouts!PayoutConstants
  <1>2. Payouts!Idle \in Operation /\ Payouts!Idle.at = "idle"
    BY DEF Payouts!Idle, Operation, OpPoints
  <1>3. /\ op = [s \in Screens |-> Payouts!Idle] /\ overlap = FALSE /\ told = {}
        /\ chain = [height |-> 0, nonce |-> 0, available |-> 1, credited |-> 1]
    BY DEF Payouts!Init
  <1>4. /\ txs \in Seq(Withdrawal) /\ fate \in Seq(Fates) /\ Len(fate) = Len(txs)
        /\ saved \in (1 .. Len(txs)) \cup {Nothing}
        /\ \A t \in 1 .. Len(txs) : saved = t /\ txs[t].nonce = 0 /\ fate[t] # "ok"
        /\ saved # Nothing => saved = 1 /\ Len(txs) = 1
    <2>1. CASE saved = Nothing /\ txs = <<>> /\ fate = <<>>
      BY <2>1
    <2>2. CASE /\ saved = 1 /\ fate \in {<<"signed">>, <<"sent">>}
               /\ txs = <<[nonce |-> 0, amount |-> 1, last |-> Lifetime, legacy |-> TRUE]>>
      <3> DEFINE t == [nonce |-> 0, amount |-> 1, last |-> Lifetime, legacy |-> TRUE]
      <3>1. t \in Withdrawal /\ t.nonce = 0
        BY <1>1 DEF Withdrawal
      <3> HIDE DEF t
      <3>2. txs = <<t>>
        BY <2>2 DEF t
      <3>3. txs \in Seq(Withdrawal) /\ Len(txs) = 1 /\ txs[1] = t
        BY <3>1, <3>2
      <3>4. fate \in Seq(Fates) /\ Len(fate) = 1 /\ fate[1] # "ok"
        <4>1. PICK f \in {"signed", "sent"} : fate = <<f>>
          BY <2>2
        <4>2. <<f>> \in Seq(Fates) /\ Len(<<f>>) = 1 /\ <<f>>[1] = f
          BY DEF Fates
        <4> QED
          BY <4>1, <4>2
      <3> QED
        BY <2>2, <3>1, <3>3, <3>4
    <2> QED
      BY <2>1, <2>2 DEF Payouts!Init
  <1>5. PayoutTyped
    <2>1. op \in [Screens -> Operation] /\ overlap \in BOOLEAN /\ told \subseteq (1 .. Len(txs)) \X {"completed", "replaced"}
      BY <1>2, <1>3
    <2>2. chain \in Account
      BY <1>3 DEF Account
    <2> QED
      BY <1>4, <2>1, <2>2 DEF PayoutTyped
  <1>6. PaidOnce
    BY <1>3, <1>4 DEF PaidOnce
  <1>7. Held /\ Exclusive /\ Attached
    BY <1>2, <1>3 DEF Held, Exclusive, Attached, Reconciling, Preparing
  <1>8. Tracked
    BY <1>1, <1>3, <1>4 DEF Tracked
  <1> QED
    BY <1>5, <1>6, <1>7, <1>8 DEF PayoutInv, OneAtATime

\* One operation moves and nothing else does.
LEMMA OperationMoves ==
    ASSUME PayoutInv, NEW s \in Screens, NEW o \in Operation,
           op' = [op EXCEPT ![s] = o], UNCHANGED <<saved, txs, fate, chain, told>>,
           o.at \in Reconciling => o.tx \in 1 .. Len(txs),
           o.at = "decide" => o.height <= chain.height,
           \/ overlap' = overlap /\ (o.at = "idle" \/ op[s].at # "idle")
           \/ overlap' = (overlap \/ \E other \in Screens \ {s} : op[other].at # "idle"),
           ~overlap => /\ o.at \in Preparing => saved = Nothing
                       /\ o.at \in {"quote", "authorize", "save"} => o.read.nonce = chain.nonce
                       /\ o.at \in Reconciling => saved = o.tx
    PROVE  PayoutInv'
  <1>1. op \in [Screens -> Operation] /\ overlap \in BOOLEAN
    BY DEF PayoutInv, PayoutTyped
  <1>2. op' \in [Screens -> Operation] /\ op'[s] = o /\ \A x \in Screens : x # s => op'[x] = op[x]
    BY <1>1
  <1>3. overlap' \in BOOLEAN /\ (~overlap' => ~overlap)
    BY <1>1
  <1>4. PayoutTyped'
    BY <1>2, <1>3 DEF PayoutInv, PayoutTyped, Payouts!PayoutConstants
  <1>5. PaidOnce'
    BY DEF PayoutInv, PaidOnce, Payouts!Live
  <1>6. Held'
    BY <1>2 DEF PayoutInv, Held
  <1>7. ASSUME ~overlap' PROVE Exclusive' /\ Attached' /\ Tracked'
    <2>1. Exclusive /\ Attached /\ Tracked
      BY <1>3, <1>7 DEF PayoutInv, OneAtATime
    <2>2. o.at = "idle" \/ \A x \in Screens : x # s => op[x].at = "idle"
      BY <1>7, <2>1 DEF Exclusive
    <2>3. Exclusive'
      BY <1>2, <2>1, <2>2 DEF Exclusive
    <2>4. Attached'
      BY <1>2, <1>3, <1>7, <2>1 DEF Attached
    <2>5. Tracked'
      BY <2>1 DEF Tracked, Payouts!Live
    <2> QED
      BY <2>3, <2>4, <2>5
  <1> QED
    BY <1>4, <1>5, <1>6, <1>7 DEF PayoutInv, OneAtATime

\* What each screen's record holds.
LEMMA OperationFields ==
    ASSUME PayoutInv, NEW s \in Screens
    PROVE  /\ op \in [Screens -> Operation] /\ op[s] \in Operation /\ Payouts!Idle \in Operation
           /\ Payouts!Idle.at = "idle" /\ chain \in Account
  BY DEF PayoutInv, PayoutTyped, Operation, OpPoints, Payouts!Idle

LEMMA OperationStarts ==
    ASSUME PayoutInv, NEW s \in Screens, Payouts!Withdraw(s) \/ Payouts!RetrySaved(s)
    PROVE  PayoutInv'
  <1>1. PICK p \in {"balance", "reread"} : Payouts!Start(s, p) /\ (p = "balance" => saved = Nothing)
    BY DEF Payouts!Withdraw, Payouts!RetrySaved
  <1> DEFINE o == [op[s] EXCEPT !.at = p]
  <1>2. o \in Operation /\ o.at = p
    BY <1>1, OperationFields DEF Operation, OpPoints
  <1>3. /\ op' = [op EXCEPT ![s] = o] /\ UNCHANGED <<saved, txs, fate, chain, told>>
        /\ overlap' = (overlap \/ \E other \in Screens \ {s} : op[other].at # "idle")
    BY <1>1 DEF Payouts!Start, Payouts!To, Payouts!At
  <1> HIDE DEF o
  <1>4. p \notin Reconciling /\ p # "decide" /\ p \notin {"quote", "authorize", "save"}
    BY <1>1 DEF Reconciling
  <1>5. /\ o.at \notin Reconciling /\ o.at # "decide" /\ o.at \notin {"quote", "authorize", "save"}
        /\ o.at \in Preparing => saved = Nothing
    BY <1>1, <1>2, <1>4 DEF Preparing
  <1> QED
    BY <1>2, <1>3, <1>5, OperationMoves

\* Everything an operation reads before it signs.
LEMMA PreparationKeeps ==
    ASSUME PayoutInv, NEW s \in Screens, Payouts!ReadBalance(s) \/ Payouts!Quote(s) \/ Payouts!Authorize(s)
    PROVE  PayoutInv'
  <1>0. op[s] \in Operation /\ chain \in Account /\ Lifetime \in Nat
    BY OperationFields DEF PayoutInv, PayoutTyped, Payouts!PayoutConstants
  <1>1. /\ op[s].at \in {"balance", "quote", "authorize"}
        /\ UNCHANGED <<saved, txs, fate, chain, told, overlap>>
    BY DEF Payouts!ReadBalance, Payouts!Quote, Payouts!Authorize, Payouts!At
  <1>2. PICK o \in Operation : /\ op' = [op EXCEPT ![s] = o] /\ o.at \in {"quote", "authorize", "save"}
                               /\ o.read.nonce = chain.nonce
    <2>1. CASE Payouts!ReadBalance(s)
      <3> DEFINE o == [op[s] EXCEPT !.at = "quote", !.read = Payouts!View]
      <3>1. Payouts!View \in [nonce: Nat, available: Int] /\ Payouts!View.nonce = chain.nonce
        BY <1>0 DEF Payouts!View, Account
      <3>2. o \in Operation /\ o.at = "quote" /\ o.read.nonce = chain.nonce
        BY <1>0, <3>1 DEF Operation, OpPoints
      <3>3. op' = [op EXCEPT ![s] = o]
        BY <2>1, OperationFields DEF Payouts!ReadBalance
      <3> QED
        BY <3>2, <3>3
    <2>2. CASE Payouts!Quote(s)
      <3> DEFINE o == [op[s] EXCEPT !.at = "authorize"]
      <3>1. o \in Operation /\ o.at = "authorize" /\ o.read = op[s].read
        BY <1>0 DEF Operation, OpPoints
      <3>2. op' = [op EXCEPT ![s] = o] /\ Payouts!View = op[s].read
        BY <2>2, OperationFields DEF Payouts!Quote, Payouts!To, Payouts!Claimable
      <3>3. o.read.nonce = chain.nonce
        BY <3>1, <3>2 DEF Payouts!View
      <3> QED
        BY <3>1, <3>2, <3>3
    <2>3. CASE Payouts!Authorize(s)
      <3> DEFINE o == [op[s] EXCEPT !.at = "save", !.height = chain.height + Lifetime]
      <3>1. chain.height + Lifetime \in Nat
        BY <1>0 DEF Account
      <3>2. o \in Operation /\ o.at = "save" /\ o.read = op[s].read
        BY <1>0, <3>1 DEF Operation, OpPoints
      <3>3. op' = [op EXCEPT ![s] = o] /\ Payouts!View = op[s].read
        BY <2>3, OperationFields DEF Payouts!Authorize, Payouts!Claimable
      <3>4. o.read.nonce = chain.nonce
        BY <3>2, <3>3 DEF Payouts!View
      <3> QED
        BY <3>2, <3>3, <3>4
    <2> QED
      BY <2>1, <2>2, <2>3
  <1>3. ~overlap => saved = Nothing
    BY <1>1 DEF PayoutInv, OneAtATime, Attached, Preparing
  <1>4. o.at \notin Reconciling /\ o.at # "decide" /\ op[s].at # "idle"
    BY <1>1, <1>2 DEF Reconciling
  <1> QED
    BY <1>1, <1>2, <1>3, <1>4, OperationMoves

\* Reading the file of a withdrawal whose nonce has not passed, its status and
\* the height, and sending it or giving up.
LEMMA ReconciliationKeeps ==
    ASSUME PayoutInv, NEW s \in Screens, NEW o \in Operation,
           op' = [op EXCEPT ![s] = o], UNCHANGED <<saved, txs, fate, chain, told, overlap>>,
           op[s].at # "idle",
           o.at = "idle" \/ (o.at \in Reconciling /\ o.tx \in 1 .. Len(txs) /\ (~overlap => saved = o.tx)),
           o.at = "decide" => o.height <= chain.height
    PROVE  PayoutInv'
  <1>1. o.at \notin Preparing /\ o.at \notin {"quote", "authorize", "save"} /\ (o.at \in Reconciling => o.at # "idle")
    BY DEF Preparing, Reconciling
  <1> QED
    BY <1>1, OperationMoves

LEMMA ReadKeeps ==
    ASSUME PayoutInv, NEW s \in Screens, Payouts!ReadStatus(s) \/ Payouts!ReadHeight(s)
    PROVE  PayoutInv'
  <1>0. op[s] \in Operation /\ chain \in Account /\ op \in [Screens -> Operation]
    BY OperationFields
  <1>1. op[s].at \in {"status", "height"} /\ UNCHANGED <<saved, txs, fate, chain, told, overlap>>
    BY DEF Payouts!ReadStatus, Payouts!ReadHeight, Payouts!At
  <1>2. op[s].tx \in 1 .. Len(txs) /\ (~overlap => saved = op[s].tx)
    BY <1>1 DEF PayoutInv, Held, OneAtATime, Attached, Reconciling
  <1>3. CASE Payouts!ReadStatus(s)
    <2>1. PICK status \in Payouts!StatusOf(op[s].tx) : op' = [op EXCEPT ![s].at = "height", ![s].status = status]
      BY <1>3 DEF Payouts!ReadStatus
    <2>2. status \in {"absent", "pending", "failed", "finalized"}
      BY <2>1 DEF Payouts!StatusOf
    <2> DEFINE o == [op[s] EXCEPT !.at = "height", !.status = status]
    <2>3. o \in Operation /\ o.at = "height" /\ o.tx = op[s].tx
      BY <1>0, <2>2 DEF Operation, OpPoints
    <2>4. op' = [op EXCEPT ![s] = o]
      BY <1>0, <2>1
    <2> HIDE DEF o
    <2>5. o.at \in Reconciling /\ o.at # "decide" /\ op[s].at # "idle"
      BY <1>1, <2>3 DEF Reconciling
    <2> QED
      BY <1>1, <1>2, <2>3, <2>4, <2>5, ReconciliationKeeps
  <1>4. CASE Payouts!ReadHeight(s)
    <2> DEFINE o == [op[s] EXCEPT !.at = "decide", !.height = chain.height]
    <2>1. chain.height \in Nat
      BY <1>0 DEF Account
    <2>3. o \in Operation /\ o.at = "decide" /\ o.tx = op[s].tx /\ o.height = chain.height
      BY <1>0, <2>1 DEF Operation, OpPoints
    <2>4. op' = [op EXCEPT ![s] = o]
      BY <1>0, <1>4 DEF Payouts!ReadHeight
    <2> HIDE DEF o
    <2>5. o.at \in Reconciling /\ o.height <= chain.height /\ op[s].at # "idle"
      BY <1>1, <2>1, <2>3 DEF Reconciling
    <2> QED
      BY <1>1, <1>2, <2>3, <2>4, <2>5, ReconciliationKeeps
  <1> QED
    BY <1>3, <1>4

LEMMA FailKeeps ==
    ASSUME PayoutInv, NEW s \in Screens, op[s].at # "idle", Payouts!Stop(s), UNCHANGED <<saved, txs, fate, chain, told, overlap>>
    PROVE  PayoutInv'
  BY OperationFields, ReconciliationKeeps DEF Payouts!Stop

\* The verdict on a saved withdrawal: it is true, the file goes, and nothing that
\* can still pay was in it.
LEMMA ResolveKeeps ==
    ASSUME PayoutInv, NEW s \in Screens, NEW t \in 1 .. Len(txs), NEW verdict \in {"completed", "replaced"},
           Payouts!Resolve(s, t, verdict), UNCHANGED <<txs, fate, chain, overlap>>, op[s].at # "idle",
           ~overlap => saved = t,
           verdict = "replaced" => fate[t] # "ok" /\ ~Payouts!Live(t),
           verdict = "completed" => chain.nonce > txs[t].nonce
    PROVE  PayoutInv'
  <1>1. /\ op' = [op EXCEPT ![s] = Payouts!Idle] /\ saved' = Nothing
        /\ told' = (IF saved = Nothing THEN told ELSE told \cup {<<t, verdict>>})
    BY DEF Payouts!Resolve, Payouts!Stop
  <1>2. /\ op' \in [Screens -> Operation] /\ op'[s].at = "idle" /\ \A x \in Screens : x # s => op'[x] = op[x]
        /\ overlap \in BOOLEAN /\ Nothing \notin Nat /\ Len(txs) \in Nat
        /\ saved \in (1 .. Len(txs)) \cup {Nothing}
    BY <1>1, OperationFields DEF PayoutInv, PayoutTyped, Payouts!PayoutConstants
  <1>3. told' \subseteq (1 .. Len(txs)) \X {"completed", "replaced"}
    BY <1>1 DEF PayoutInv, PayoutTyped
  <1>4. PayoutTyped'
    BY <1>1, <1>2, <1>3 DEF PayoutInv, PayoutTyped, Payouts!PayoutConstants
  <1>5. \A u : \A v : <<u, v>> \in told' => <<u, v>> \in told \/ (u = t /\ v = verdict)
    BY <1>1
  <1>6. PaidOnce'
    <2> SUFFICES ASSUME NEW u \in 1 .. Len(txs)
                 PROVE  /\ fate[u] = "ok" => txs[u].nonce < chain.nonce
                        /\ <<u, "replaced">> \in told' => fate[u] # "ok" /\ ~Payouts!Live(u)
      BY DEF PaidOnce, Payouts!Live
    <2> QED
      BY <1>5 DEF PayoutInv, PaidOnce
  <1>7. Held'
    BY <1>2 DEF PayoutInv, Held, Reconciling
  <1>8. ASSUME ~overlap' PROVE Exclusive' /\ Attached' /\ Tracked'
    <2>1. Exclusive /\ Attached /\ Tracked /\ saved = t /\ saved # Nothing
      BY <1>2, <1>8 DEF PayoutInv, OneAtATime
    <2>2. \A x \in Screens : op'[x].at = "idle"
      BY <1>2, <2>1 DEF Exclusive
    <2>3. Exclusive' /\ Attached'
      BY <2>2 DEF Exclusive, Attached, Preparing, Reconciling
    <2>4. t \in Nat /\ txs[t] \in Withdrawal /\ chain \in Account
      BY DEF PayoutInv, PayoutTyped
    <2>5. txs[t].nonce < chain.nonce => fate[t] = "ok"
      BY <2>1 DEF Tracked
    <2>6. verdict = "completed" => fate[t] = "ok"
      BY <2>4, <2>5 DEF Withdrawal, Account
    <2>7. ~Payouts!Live(t)
      BY <2>6 DEF Payouts!Live
    <2>8. \A u \in 1 .. Len(txs) : ~Payouts!Live(u)
      BY <2>1, <2>7 DEF Tracked
    <2>9. \A u \in 1 .. Len(txs) : <<u, "completed">> \in told' => fate[u] = "ok"
      BY <1>5, <2>1, <2>6 DEF Tracked
    <2>10. Tracked'
      BY <1>1, <2>8, <2>9 DEF Tracked, Payouts!Live
    <2> QED
      BY <2>3, <2>10
  <1> QED
    BY <1>4, <1>6, <1>7, <1>8 DEF PayoutInv, OneAtATime

LEMMA ReadSavedKeeps ==
    ASSUME PayoutInv, NEW s \in Screens, Payouts!ReadSaved(s)
    PROVE  PayoutInv'
  <1>1. op[s].at = "reread" /\ UNCHANGED <<txs, fate, chain, overlap>>
    BY DEF Payouts!ReadSaved, Payouts!At
  <1>2. saved # Nothing => saved \in 1 .. Len(txs)
    BY DEF PayoutInv, PayoutTyped
  <1>3. CASE Payouts!Stop(s) /\ UNCHANGED <<saved, told>>
    BY <1>1, <1>3, FailKeeps
  <1>4. CASE saved # Nothing /\ chain.nonce > txs[saved].nonce /\ Payouts!Resolve(s, saved, "completed")
    BY <1>1, <1>2, <1>4, ResolveKeeps
  <1>5. CASE saved # Nothing /\ op' = [op EXCEPT ![s].at = "status", ![s].tx = saved] /\ UNCHANGED <<saved, told>>
    <2> DEFINE o == [op[s] EXCEPT !.at = "status", !.tx = saved]
    <2>1. op[s] \in Operation /\ saved \in Nat /\ op \in [Screens -> Operation]
      BY <1>2, <1>5, OperationFields DEF PayoutInv, PayoutTyped
    <2>2. o \in Operation /\ o.at = "status" /\ o.tx = saved
      BY <2>1 DEF Operation, OpPoints
    <2>3. op' = [op EXCEPT ![s] = o]
      BY <1>5, <2>1
    <2> HIDE DEF o
    <2>4. o.at \in Reconciling /\ o.at # "decide" /\ op[s].at # "idle"
      BY <1>1, <2>2 DEF Reconciling
    <2> QED
      BY <1>1, <1>2, <1>5, <2>2, <2>3, <2>4, ReconciliationKeeps
  <1> QED
    BY <1>3, <1>4, <1>5 DEF Payouts!ReadSaved

\* retrySaved's switch.  An expired transaction that was replaced cannot pay any
\* more: the height was read before, and the nonce has not moved since.
LEMMA DecideKeeps ==
    ASSUME PayoutInv, NEW s \in Screens, Payouts!Decide(s)
    PROVE  PayoutInv'
  <1> DEFINE t == op[s].tx
             action == Payouts!RecoveryAction(op[s].status, op[s].height, txs[t], chain.nonce)
  <1>0. op[s] \in Operation /\ chain \in Account /\ op \in [Screens -> Operation]
    BY OperationFields
  <1>1. op[s].at = "decide" /\ UNCHANGED <<txs, fate, chain, overlap>>
    BY DEF Payouts!Decide, Payouts!At
  <1>2. t \in 1 .. Len(txs) /\ op[s].height <= chain.height /\ (~overlap => saved = t)
    BY <1>1 DEF PayoutInv, Held, OneAtATime, Attached, Reconciling
  <1>3. /\ txs[t] \in Withdrawal /\ chain.nonce \in Nat /\ chain.height \in Nat /\ op[s].height \in Nat
        /\ txs[t].nonce \in Nat /\ txs[t].last \in Nat
    <2>1. txs \in Seq(Withdrawal)
      BY DEF PayoutInv, PayoutTyped
    <2>2. txs[t] \in Withdrawal
      BY <1>2, <2>1
    <2> HIDE DEF t
    <2> QED
      BY <1>0, <2>2 DEF Withdrawal, Account, Operation
  <1>4. action = "completed" => chain.nonce > txs[t].nonce
    BY DEF Payouts!RecoveryAction
  <1>5. action = "replace" => chain.nonce = txs[t].nonce /\ op[s].height > txs[t].last
    BY DEF Payouts!RecoveryAction
  <1>6. \/ action = "completed" /\ Payouts!Resolve(s, t, "completed")
        \/ action = "replace" /\ Payouts!Resolve(s, t, "replaced")
        \/ Payouts!To(s, "send") /\ UNCHANGED <<saved, told>>
        \/ Payouts!Stop(s) /\ UNCHANGED <<saved, told>>
    BY DEF Payouts!Decide
  <1> HIDE DEF action, t
  <1>7. CASE action = "completed" /\ Payouts!Resolve(s, t, "completed")
    BY <1>1, <1>2, <1>4, <1>7, ResolveKeeps
  <1>8. CASE action = "replace" /\ Payouts!Resolve(s, t, "replaced")
    <2>0. fate[t] = "ok" => txs[t].nonce < chain.nonce
      BY <1>2 DEF PayoutInv, PaidOnce
    <2>1. fate[t] # "ok"
      BY <1>3, <1>5, <1>8, <2>0
    <2>2. ~Payouts!Live(t)
      BY <1>2, <1>3, <1>5, <1>8 DEF Payouts!Live
    <2> QED
      BY <1>1, <1>2, <1>8, <2>1, <2>2, ResolveKeeps
  <1>9. CASE Payouts!To(s, "send") /\ UNCHANGED <<saved, told>>
    <2> DEFINE o == [op[s] EXCEPT !.at = "send"]
    <2>1. o \in Operation /\ o.at = "send" /\ o.tx = t
      BY <1>0 DEF Operation, OpPoints, t
    <2>2. op' = [op EXCEPT ![s] = o]
      BY <1>0, <1>9 DEF Payouts!To
    <2> HIDE DEF o
    <2>3. o.at \in Reconciling /\ o.at # "decide" /\ op[s].at # "idle"
      BY <1>1, <2>1 DEF Reconciling
    <2> QED
      BY <1>1, <1>2, <1>9, <2>1, <2>2, <2>3, ReconciliationKeeps
  <1>10. CASE Payouts!Stop(s) /\ UNCHANGED <<saved, told>>
    BY <1>1, <1>10, FailKeeps
  <1> QED
    BY <1>6, <1>7, <1>8, <1>9, <1>10

\* The new withdrawal is the only one that can still pay, and it is in the file.
LEMMA SaveKeeps ==
    ASSUME PayoutInv, NEW s \in Screens, Payouts!Save(s)
    PROVE  PayoutInv'
  <1> DEFINE x == [nonce |-> op[s].read.nonce, amount |-> op[s].read.available, last |-> op[s].height, legacy |-> FALSE]
             o == [Payouts!Idle EXCEPT !.at = "reread"]
             n == Len(txs)
  <1>1. /\ op[s].at = "save" /\ txs' = Append(txs, x) /\ fate' = Append(fate, "signed") /\ saved' = Len(txs')
        /\ op' = [op EXCEPT ![s] = o] /\ UNCHANGED <<chain, overlap, told>>
    BY DEF Payouts!Save, Payouts!At
  <1>2. /\ op[s] \in Operation /\ chain \in Account /\ op \in [Screens -> Operation] /\ overlap \in BOOLEAN
        /\ txs \in Seq(Withdrawal) /\ fate \in Seq(Fates) /\ Len(fate) = n /\ n \in Nat /\ Nothing \notin Nat
        /\ told \subseteq (1 .. n) \X {"completed", "replaced"} /\ saved \in (1 .. n) \cup {Nothing}
    BY OperationFields DEF PayoutInv, PayoutTyped, Payouts!PayoutConstants
  <1>3. x \in Withdrawal /\ x.nonce = op[s].read.nonce
    BY <1>2 DEF Operation, Withdrawal
  <1>4. o \in Operation /\ o.at = "reread"
    BY DEF Operation, OpPoints, Payouts!Idle
  <1> HIDE DEF x, o
  <1>5. /\ txs' \in Seq(Withdrawal) /\ Len(txs') = n + 1 /\ txs'[n + 1] = x /\ \A t \in 1 .. n : txs'[t] = txs[t]
        /\ fate' \in Seq(Fates) /\ Len(fate') = n + 1 /\ fate'[n + 1] = "signed" /\ \A t \in 1 .. n : fate'[t] = fate[t]
    BY <1>1, <1>2, <1>3 DEF Fates
  <1>6. op' \in [Screens -> Operation] /\ op'[s].at = "reread" /\ \A y \in Screens : y # s => op'[y] = op[y]
    BY <1>1, <1>2, <1>4
  <1>7. \A t \in 1 .. (n + 1) : t \in 1 .. n \/ t = n + 1
    BY <1>2
  <1>8. \A v : <<n + 1, v>> \notin told
    BY <1>2
  <1> HIDE DEF n
  <1>9. PayoutTyped'
    <2>1. saved' \in (1 .. Len(txs')) \cup {Nothing} /\ told' \subseteq (1 .. Len(txs')) \X {"completed", "replaced"}
      BY <1>1, <1>2, <1>5
    <2> QED
      BY <1>1, <1>2, <1>5, <1>6, <2>1 DEF PayoutInv, PayoutTyped, Payouts!PayoutConstants
  <1>10. \A t \in 1 .. n : Payouts!Live(t)' <=> Payouts!Live(t)
    BY <1>1, <1>5 DEF Payouts!Live
  <1>11. PaidOnce'
    <2> SUFFICES ASSUME NEW t \in 1 .. (n + 1)
                 PROVE  /\ fate'[t] = "ok" => txs'[t].nonce < chain.nonce
                        /\ <<t, "replaced">> \in told => fate'[t] # "ok" /\ ~(Payouts!Live(t)')
      BY <1>1, <1>5 DEF PaidOnce
    <2>1. CASE t = n + 1
      BY <1>5, <1>8, <2>1
    <2>2. CASE t \in 1 .. n
      BY <1>5, <1>10, <2>2 DEF PayoutInv, PaidOnce, n
    <2> QED
      BY <1>7, <2>1, <2>2
  <1>12. Held'
    <2>1. \A t \in 1 .. n : t \in 1 .. (n + 1)
      BY <1>2
    <2> QED
      BY <1>1, <1>5, <1>6, <2>1 DEF PayoutInv, Held, Reconciling, n
  <1>13. ASSUME ~overlap' PROVE Exclusive' /\ Attached' /\ Tracked'
    <2>1. Exclusive /\ Attached /\ Tracked /\ saved = Nothing /\ op[s].read.nonce = chain.nonce
      BY <1>1, <1>13 DEF PayoutInv, OneAtATime, Attached, Preparing
    <2>2. \A y \in Screens : y # s => op[y].at = "idle"
      BY <1>1, <2>1 DEF Exclusive
    <2>3. Exclusive'
      BY <1>6, <2>2 DEF Exclusive
    <2>4. Attached'
      BY <1>6, <2>2 DEF Attached, Preparing, Reconciling
    <2>5. \A t \in 1 .. n : ~Payouts!Live(t)
      BY <1>2, <2>1 DEF Tracked, n
    <2>6. \A t \in 1 .. Len(txs') : Payouts!Live(t)' => saved' = t
      BY <1>1, <1>5, <1>7, <1>10, <2>5
    <2>7. \A t \in 1 .. Len(txs') : <<t, "completed">> \in told' => fate'[t] = "ok"
      BY <1>1, <1>5, <1>7, <1>8, <2>1 DEF Tracked, n
    <2>8. saved' = n + 1 /\ txs'[saved'].nonce = chain'.nonce /\ chain'.nonce \in Nat
      BY <1>1, <1>2, <1>3, <1>5, <2>1 DEF Account
    <2>9. Tracked'
      BY <2>6, <2>7, <2>8 DEF Tracked
    <2> QED
      BY <2>3, <2>4, <2>9
  <1> QED
    BY <1>9, <1>11, <1>12, <1>13 DEF PayoutInv, OneAtATime

\* Sending changes a signed transaction to a sent one, which can pay as before.
LEMMA SendKeeps ==
    ASSUME PayoutInv, NEW s \in Screens, Payouts!Send(s)
    PROVE  PayoutInv'
  <1> DEFINE t == op[s].tx
  <1>1. /\ op[s].at = "send" /\ fate' = [fate EXCEPT ![t] = IF @ = "signed" THEN "sent" ELSE @]
        /\ op' = [op EXCEPT ![s] = Payouts!Idle] /\ UNCHANGED <<saved, txs, chain, overlap, told>>
    BY DEF Payouts!Send, Payouts!At, Payouts!Stop
  <1>2. /\ t \in 1 .. Len(txs) /\ op \in [Screens -> Operation] /\ fate \in Seq(Fates) /\ Len(fate) = Len(txs)
        /\ Payouts!Idle \in Operation /\ Payouts!Idle.at = "idle" /\ txs \in Seq(Withdrawal)
    BY <1>1, OperationFields DEF PayoutInv, PayoutTyped, Held, Reconciling
  <1> HIDE DEF t
  <1>3. /\ fate' \in Seq(Fates) /\ Len(fate') = Len(txs)
        /\ \A u \in 1 .. Len(txs) : /\ fate'[u] = "ok" <=> fate[u] = "ok"
                                    /\ fate'[u] \in {"signed", "sent"} <=> fate[u] \in {"signed", "sent"}
    <2>1. (IF fate[t] = "signed" THEN "sent" ELSE fate[t]) \in Fates
      BY <1>2 DEF Fates
    <2>2. /\ fate' \in Seq(Fates) /\ Len(fate') = Len(txs)
          /\ fate'[t] = IF fate[t] = "signed" THEN "sent" ELSE fate[t]
          /\ \A u \in 1 .. Len(txs) : u # t => fate'[u] = fate[u]
      BY <1>1, <1>2, <2>1
    <2> QED
      BY <2>2
  <1>4. \A u \in 1 .. Len(txs) : Payouts!Live(u)' <=> Payouts!Live(u)
    BY <1>1, <1>3 DEF Payouts!Live
  <1>5. op' \in [Screens -> Operation] /\ op'[s].at = "idle" /\ \A y \in Screens : y # s => op'[y] = op[y]
    BY <1>1, <1>2
  <1>6. PayoutTyped'
    BY <1>1, <1>3, <1>5 DEF PayoutInv, PayoutTyped, Payouts!PayoutConstants
  <1>7. PaidOnce'
    BY <1>1, <1>3, <1>4 DEF PayoutInv, PaidOnce
  <1>8. Held'
    BY <1>1, <1>5 DEF PayoutInv, Held, Reconciling
  <1>9. ASSUME ~overlap' PROVE Exclusive' /\ Attached' /\ Tracked'
    <2>1. Exclusive /\ Attached /\ Tracked
      BY <1>1, <1>9 DEF PayoutInv, OneAtATime
    <2>2. Exclusive'
      BY <1>5, <2>1 DEF Exclusive
    <2>3. Attached'
      BY <1>1, <1>5, <2>1 DEF Attached, Preparing, Reconciling
    <2>4. saved # Nothing => saved \in 1 .. Len(txs)
      BY DEF PayoutInv, PayoutTyped
    <2>5. Tracked'
      BY <1>1, <1>3, <1>4, <2>1, <2>4 DEF Tracked
    <2> QED
      BY <2>2, <2>3, <2>5
  <1> QED
    BY <1>6, <1>7, <1>8, <1>9 DEF PayoutInv, OneAtATime

\* The app is killed: no operation is left, the file stays.
LEMMA KillKeeps == PayoutInv /\ Payouts!Kill => PayoutInv'
  <1> SUFFICES ASSUME PayoutInv, Payouts!Kill PROVE PayoutInv'
    OBVIOUS
  <1>1. op' = [s \in Screens |-> Payouts!Idle] /\ UNCHANGED <<saved, txs, fate, chain, overlap, told>>
    BY DEF Payouts!Kill
  <1>2. op' \in [Screens -> Operation] /\ \A s \in Screens : op'[s].at = "idle"
    BY <1>1 DEF Payouts!Idle, Operation, OpPoints
  <1>3. PayoutTyped' /\ PaidOnce'
    BY <1>1, <1>2 DEF PayoutInv, PayoutTyped, PaidOnce, Payouts!PayoutConstants, Payouts!Live
  <1>4. Held' /\ Exclusive' /\ Attached'
    BY <1>2 DEF Held, Exclusive, Attached, Preparing, Reconciling
  <1>5. ~overlap' => Tracked'
    BY <1>1 DEF PayoutInv, OneAtATime, Tracked, Payouts!Live
  <1> QED
    BY <1>3, <1>4, <1>5 DEF PayoutInv, OneAtATime

\* A block or a reward without a withdrawal: the nonce stays and the height does
\* not fall, so what could not pay cannot pay now.
LEMMA ChainMoves ==
    ASSUME PayoutInv, UNCHANGED <<saved, op, txs, fate, overlap, told>>, chain' \in Account,
           chain'.nonce = chain.nonce, chain'.height >= chain.height
    PROVE  PayoutInv'
  <1>1. chain.height \in Nat /\ chain'.height \in Nat
    BY DEF PayoutInv, PayoutTyped, Account
  <1>2. txs \in Seq(Withdrawal) /\ \A t \in 1 .. Len(txs) : txs[t].last \in Nat
    <2>1. txs \in Seq(Withdrawal)
      BY DEF PayoutInv, PayoutTyped
    <2>2. \A t \in 1 .. Len(txs) : txs[t] \in Withdrawal
      BY <2>1
    <2> QED
      BY <2>1, <2>2 DEF Withdrawal
  <1>3. \A t \in 1 .. Len(txs) : Payouts!Live(t)' => Payouts!Live(t)
    BY <1>1, <1>2 DEF Payouts!Live
  <1>4. PayoutTyped'
    BY DEF PayoutInv, PayoutTyped, Payouts!PayoutConstants
  <1>5. PaidOnce'
    BY <1>3 DEF PayoutInv, PaidOnce
  <1>6. Held'
    <2>1. \A s \in Screens : op[s].height \in Nat
      BY DEF PayoutInv, PayoutTyped, Operation
    <2> QED
      BY <1>1, <2>1 DEF PayoutInv, Held
  <1>7. ~overlap' => Exclusive' /\ Attached' /\ Tracked'
    BY <1>3 DEF PayoutInv, OneAtATime, Exclusive, Attached, Tracked
  <1> QED
    BY <1>4, <1>5, <1>6, <1>7 DEF PayoutInv, OneAtATime

\* A block with a withdrawal that was sent and can still pay: it pays at its
\* nonce, or fails.
LEMMA BlockExecutes ==
    ASSUME PayoutInv, UNCHANGED <<saved, op, txs, overlap, told>>,
           NEW t \in 1 .. Len(txs), fate[t] = "sent", Payouts!Live(t),
           NEW result \in {"ok", "failed"}, fate' = [fate EXCEPT ![t] = result],
           chain' \in Account, chain'.height = chain.height + 1,
           result = "ok" => txs[t].nonce = chain.nonce /\ chain'.nonce = chain.nonce + 1,
           result = "failed" => chain'.nonce = chain.nonce
    PROVE  PayoutInv'
  <1>1. /\ chain.height \in Nat /\ chain.nonce \in Nat /\ chain'.nonce \in Nat /\ chain'.nonce >= chain.nonce
        /\ txs \in Seq(Withdrawal) /\ fate \in Seq(Fates) /\ Len(fate) = Len(txs) /\ Nothing \notin Nat
        /\ saved \in (1 .. Len(txs)) \cup {Nothing}
    BY DEF PayoutInv, PayoutTyped, Account, Payouts!PayoutConstants
  <1>2. \A u \in 1 .. Len(txs) : txs[u].last \in Nat /\ txs[u].nonce \in Nat
    <2>1. \A u \in 1 .. Len(txs) : txs[u] \in Withdrawal
      BY <1>1
    <2> QED
      BY <2>1 DEF Withdrawal
  <1>3. /\ fate' \in Seq(Fates) /\ Len(fate') = Len(txs) /\ fate'[t] = result
        /\ \A u \in 1 .. Len(txs) : u # t => fate'[u] = fate[u]
    BY <1>1 DEF Fates
  <1>4. \A u \in 1 .. Len(txs) : Payouts!Live(u)' => Payouts!Live(u) /\ u # t
    BY <1>1, <1>2, <1>3 DEF Payouts!Live
  <1>5. PayoutTyped'
    BY <1>3 DEF PayoutInv, PayoutTyped, Payouts!PayoutConstants
  <1>6. PaidOnce'
    <2> SUFFICES ASSUME NEW u \in 1 .. Len(txs)
                 PROVE  /\ fate'[u] = "ok" => txs[u].nonce < chain'.nonce
                        /\ <<u, "replaced">> \in told => fate'[u] # "ok" /\ ~(Payouts!Live(u)')
      BY DEF PaidOnce
    <2>1. /\ fate[u] = "ok" => txs[u].nonce < chain.nonce
          /\ <<u, "replaced">> \in told => fate[u] # "ok" /\ ~Payouts!Live(u)
      BY DEF PayoutInv, PaidOnce
    <2>2. CASE u = t
      BY <1>1, <1>2, <1>3, <2>1, <2>2
    <2>3. CASE u # t
      BY <1>1, <1>2, <1>3, <1>4, <2>1, <2>3
    <2> QED
      BY <2>2, <2>3
  <1>7. Held'
    <2>1. \A s \in Screens : op[s].height \in Nat
      BY DEF PayoutInv, PayoutTyped, Operation
    <2> QED
      BY <1>1, <2>1 DEF PayoutInv, Held
  <1>8. ASSUME ~overlap' PROVE Exclusive' /\ Attached' /\ Tracked'
    <2>1. Exclusive /\ Attached /\ Tracked
      BY <1>8 DEF PayoutInv, OneAtATime
    <2>2. saved = t /\ saved # Nothing
      BY <1>1, <2>1 DEF Tracked
    <2>3. Exclusive' /\ Attached'
      BY <2>1, <2>2 DEF Exclusive, Attached, Preparing
    <2>4. \A u \in 1 .. Len(txs) : Payouts!Live(u)' => saved = u
      BY <1>4, <2>1 DEF Tracked
    <2>5. \A u \in 1 .. Len(txs) : <<u, "completed">> \in told => fate'[u] = "ok"
      BY <1>3, <2>1 DEF Tracked
    <2>6. txs[t].nonce <= chain.nonce /\ (txs[t].nonce < chain.nonce => fate[t] = "ok")
      BY <2>1, <2>2 DEF Tracked
    <2>7. txs[t].nonce <= chain'.nonce /\ (txs[t].nonce < chain'.nonce => fate'[t] = "ok")
      BY <1>1, <1>2, <1>3, <2>6
    <2>8. Tracked'
      BY <2>2, <2>4, <2>5, <2>7 DEF Tracked
    <2> QED
      BY <2>3, <2>8
  <1> QED
    BY <1>5, <1>6, <1>7, <1>8 DEF PayoutInv, OneAtATime

LEMMA ClusterKeeps == PayoutInv /\ (Payouts!Finalize \/ Payouts!Reward) => PayoutInv'
  <1> SUFFICES ASSUME PayoutInv, Payouts!Finalize \/ Payouts!Reward PROVE PayoutInv'
    OBVIOUS
  <1>1. chain \in Account /\ chain.height \in Nat /\ chain.nonce \in Nat /\ chain.available \in Int /\ chain.credited \in Nat
    BY DEF PayoutInv, PayoutTyped, Account
  <1>2. txs \in Seq(Withdrawal)
    BY DEF PayoutInv, PayoutTyped
  <1>3. CASE Payouts!Reward
    <2>1. chain' = [chain EXCEPT !.available = chain.available + 1, !.credited = chain.credited + 1]
      BY <1>3 DEF Payouts!Reward
    <2>2. chain' \in Account /\ chain'.nonce = chain.nonce /\ chain'.height = chain.height
      <3> DEFINE v == chain.available + 1
                 c == chain.credited + 1
      <3>1. v \in Int /\ c \in Nat
        BY <1>1
      <3>2. chain' = [chain EXCEPT !.available = v, !.credited = c]
        BY <2>1
      <3> HIDE DEF v, c
      <3>3. \A b : b = [chain EXCEPT !.available = v, !.credited = c]
                       => b \in Account /\ b.nonce = chain.nonce /\ b.height = chain.height
        <4> SUFFICES ASSUME NEW b, b = [chain EXCEPT !.available = v, !.credited = c]
                     PROVE  b \in Account /\ b.nonce = chain.nonce /\ b.height = chain.height
          OBVIOUS
        <4>1. chain \in Account
          BY <1>1
        <4> QED
          BY <3>1, <4>1 DEF Account
      <3> QED
        BY <3>2, <3>3, Zenon
    <2> QED
      BY <1>1, <1>3, <2>2, ChainMoves DEF Payouts!Reward
  <1>4. CASE Payouts!Finalize
    <2>1. UNCHANGED <<saved, op, txs, overlap, told>>
      BY <1>4 DEF Payouts!Finalize
    <2>2. CASE chain' = [chain EXCEPT !.height = @ + 1] /\ UNCHANGED fate
      <3>1. chain' \in Account /\ chain'.nonce = chain.nonce /\ chain'.height >= chain.height
        BY <1>1, <2>2 DEF Account
      <3> QED
        BY <2>1, <2>2, <3>1, ChainMoves
    <2>3. ASSUME NEW t \in DOMAIN txs, fate[t] = "sent", Payouts!Live(t), txs[t].nonce = chain.nonce,
                 fate' = [fate EXCEPT ![t] = "ok"],
                 chain' = [chain EXCEPT !.height = @ + 1, !.nonce = @ + 1, !.available = @ - txs[t].amount]
          PROVE  PayoutInv'
      <3>1. t \in 1 .. Len(txs) /\ txs[t] \in Withdrawal
        BY <1>2, <2>3
      <3>3. txs[t].amount \in Int
        BY <3>1 DEF Withdrawal
      <3>2. chain' \in Account /\ chain'.nonce = chain.nonce + 1 /\ chain'.height = chain.height + 1
        <4> DEFINE h == chain.height + 1
                   n == chain.nonce + 1
                   v == chain.available - txs[t].amount
        <4>1. h \in Nat /\ n \in Nat /\ v \in Int
          BY <1>1, <3>3
        <4>2. chain' = [chain EXCEPT !.height = h, !.nonce = n, !.available = v]
          BY <1>1, <2>3 DEF Account
        <4>3. h = chain.height + 1 /\ n = chain.nonce + 1
          OBVIOUS
        <4> HIDE DEF h, n, v
        <4>4. \A b : b = [chain EXCEPT !.height = h, !.nonce = n, !.available = v]
                         => b \in Account /\ b.nonce = n /\ b.height = h
          <5> SUFFICES ASSUME NEW b, b = [chain EXCEPT !.height = h, !.nonce = n, !.available = v]
                       PROVE  b \in Account /\ b.nonce = n /\ b.height = h
            OBVIOUS
          <5>1. chain \in Account
            BY <1>1
          <5> QED
            BY <4>1, <5>1 DEF Account
        <4>5. chain' \in Account /\ chain'.nonce = n /\ chain'.height = h
          BY <4>2, <4>4, Zenon
        <4> QED
          BY <4>3, <4>5
      <3> QED
        BY <2>1, <2>3, <3>1, <3>2, BlockExecutes
    <2>4. ASSUME NEW t \in DOMAIN txs, fate[t] = "sent", Payouts!Live(t), fate' = [fate EXCEPT ![t] = "failed"],
                 chain' = [chain EXCEPT !.height = @ + 1]
          PROVE  PayoutInv'
      <3>1. t \in 1 .. Len(txs)
        BY <1>2, <2>4
      <3>2. chain' \in Account /\ chain'.nonce = chain.nonce /\ chain'.height = chain.height + 1
        BY <1>1, <2>4 DEF Account
      <3> QED
        BY <2>1, <2>4, <3>1, <3>2, BlockExecutes
    <2> QED
      BY <1>4, <2>2, <2>3, <2>4 DEF Payouts!Finalize
  <1> QED
    BY <1>3, <1>4

LEMMA PayoutNext == PayoutInv /\ [Payouts!Next]_Payouts!vars => PayoutInv'
  <1> SUFFICES ASSUME PayoutInv, [Payouts!Next]_Payouts!vars PROVE PayoutInv'
    OBVIOUS
  <1>1. ASSUME NEW s \in Screens, Payouts!Fail(s) PROVE PayoutInv'
    BY <1>1, FailKeeps DEF Payouts!Fail, Payouts!At
  <1>2. CASE UNCHANGED Payouts!vars
    <2>1. UNCHANGED <<saved, op, txs, fate, chain, overlap, told>>
      BY <1>2 DEF Payouts!vars
    <2>2. chain \in Account /\ chain.height \in Nat
      BY DEF PayoutInv, PayoutTyped, Account
    <2> QED
      BY <2>1, <2>2, ChainMoves
  <1> QED
    BY <1>1, <1>2, OperationStarts, PreparationKeeps, SaveKeeps, ReadSavedKeeps, ReadKeeps, DecideKeeps, SendKeeps,
       KillKeeps, ClusterKeeps DEF Payouts!Next

\* For any number of screens, withdrawals and blocks and any lifetime of a
\* blockhash: a signed withdrawal that can still pay is in the file, unless two
\* operations ran at the same time, and no verdict the screen gave was wrong.
THEOREM WithdrawalsTracked == PhoneSpec => []WithdrawalTracked
  <1>1. PayoutInv => WithdrawalTracked
    <2> SUFFICES ASSUME PayoutInv PROVE WithdrawalTracked
      OBVIOUS
    <2>1. DOMAIN txs = 1 .. Len(txs)
      BY DEF PayoutInv, PayoutTyped
    <2> QED
      BY <2>1 DEF PayoutInv, PaidOnce, OneAtATime, Tracked, WithdrawalTracked, Payouts!WithdrawalTracked
  <1>2. PhoneInit => PayoutInv
    BY PayoutInit, PhoneAssumption DEF PhoneInit
  <1>3. PayoutInv /\ [PhoneNext]_phoneVars => PayoutInv'
    <2>1. [PhoneNext]_phoneVars => [Payouts!Next]_Payouts!vars
      BY DEF PhoneNext, phoneVars, payoutVars, Payouts!vars
    <2> QED
      BY <2>1, PayoutNext
  <1> QED
    BY <1>1, <1>2, <1>3, PTL DEF PhoneSpec

-----------------------------------------------------------------------------
(* Filtering a queue. *)

\* A set of naturals has a least element.
LEMMA LeastIn == ASSUME NEW S \in SUBSET Nat, S # {} PROVE \E m \in S : \A n \in S : m <= n
  <1> DEFINE R == {ss \in Nat \X Nat : ss[1] < ss[2]}
  <1>1. IsWellFoundedOn(R, Nat)
    BY NatLessThanWellFounded DEF OpToRel
  <1>2. PICK m \in S : \A y \in S : ~ (<<y, m>> \in R)
    BY <1>1, WFMin
  <1>3. ASSUME NEW n \in S PROVE m <= n
    <2>1. <<n, m>> \in Nat \X Nat /\ <<n, m>>[1] = n /\ <<n, m>>[2] = m
      OBVIOUS
    <2>2. ~ (n < m)
      BY <1>2, <2>1
    <2> QED
      BY <2>2
  <1> QED
    BY <1>3

\* Counting the indices kept up to each: every number up to their count is the
\* rank of one of them.
CountsUpTo(rank, kept, N) == \A i \in 0 .. N : rank[i] = Cardinality({j \in kept : j <= i})
RanksAll(rank, kept, N) ==
    /\ Cardinality(kept) \in Nat /\ Cardinality(kept) <= N
    /\ \A i \in kept : rank[i] \in 1 .. Cardinality(kept)
    /\ \A i, k \in kept : i < k => rank[i] < rank[k]
    /\ \A n \in 1 .. Cardinality(kept) : \E i \in kept : rank[i] = n

LEMMA Ranking ==
    ASSUME NEW N \in Nat, NEW kept \in SUBSET (1 .. N), NEW rank, CountsUpTo(rank, kept, N)
    PROVE  RanksAll(rank, kept, N)
  <1> DEFINE upto == [i \in 0 .. N |-> {j \in kept : j <= i}]
             size == Cardinality(kept)
  <1>1. IsFiniteSet(kept) /\ size \in Nat /\ size <= N
    <2>1. IsFiniteSet(1 .. N) /\ Cardinality(1 .. N) = N
      <3>1. 1 \in Int /\ N \in Int /\ N - 1 + 1 = N /\ (1 > N => N = 0)
        OBVIOUS
      <3> QED
        BY <3>1, FS_Interval
    <2>2. kept \subseteq 1 .. N
      OBVIOUS
    <2>3. IsFiniteSet(kept) /\ Cardinality(kept) <= Cardinality(1 .. N)
      BY <2>1, <2>2, FS_Subset
    <2> QED
      BY <2>1, <2>3, FS_CardinalityType
  <1>2. \A i \in 0 .. N : /\ upto[i] = {j \in kept : j <= i} /\ rank[i] = Cardinality(upto[i])
                          /\ IsFiniteSet(upto[i]) /\ rank[i] \in Nat
    BY <1>1, FS_Subset, FS_CardinalityType DEF CountsUpTo
  <1>3. \A j \in kept : j \in 1 .. N /\ j \in 0 .. N
    OBVIOUS
  <1> HIDE DEF upto, size
  <1>4. rank[0] = 0 /\ rank[N] = size
    <2>1. 0 \in 0 .. N /\ N \in 0 .. N /\ {j \in kept : j <= 0} = {} /\ {j \in kept : j <= N} = kept
      <3>1. 0 \in 0 .. N /\ N \in 0 .. N /\ \A j \in kept : ~(j <= 0) /\ j <= N
        BY <1>3
      <3> QED
        BY <3>1, Zenon
    <2>2. upto[0] = {} /\ upto[N] = kept
      BY <1>2, <2>1
    <2> QED
      BY <1>2, <2>1, <2>2, FS_EmptySet DEF size
  <1>5. ASSUME NEW i \in 1 .. N
        PROVE  rank[i] <= rank[i - 1] + 1 /\ (i \notin kept => rank[i] = rank[i - 1])
    <2>0. i \in 0 .. N /\ i - 1 \in 0 .. N
      OBVIOUS
    <2>1. CASE i \in kept
      <3>1. upto[i] = upto[i - 1] \cup {i}
        <4>1. \A j \in kept : j <= i <=> j <= i - 1 \/ j = i
          BY <1>3
        <4> QED
          BY <1>2, <2>0, <2>1, <4>1, ZenonT(90)
      <3>2. Cardinality(upto[i - 1] \cup {i}) = IF i \in upto[i - 1] THEN Cardinality(upto[i - 1]) ELSE Cardinality(upto[i - 1]) + 1
        BY <1>2, <2>0, FS_AddElement
      <3>3. /\ rank[i] = Cardinality(upto[i]) /\ rank[i - 1] = Cardinality(upto[i - 1])
            /\ rank[i] \in Nat /\ rank[i - 1] \in Nat
        BY <1>2, <2>0
      <3>4. rank[i] = IF i \in upto[i - 1] THEN rank[i - 1] ELSE rank[i - 1] + 1
        BY <3>1, <3>2, <3>3, Zenon
      <3> QED
        BY <2>1, <3>3, <3>4
    <2>2. CASE i \notin kept
      <3>1. \A j \in kept : j <= i <=> j <= i - 1
        BY <1>3, <2>2
      <3>2. upto[i] = upto[i - 1]
        BY <1>2, <2>0, <3>1
      <3> QED
        BY <1>2, <2>0, <2>2, <3>2
    <2> QED
      BY <2>1, <2>2
  <1>6. ASSUME NEW i \in kept, NEW k \in kept, i < k PROVE rank[i] < rank[k]
    <2>0. i \in 0 .. N /\ k \in 0 .. N
      BY <1>3
    <2>1. upto[i] \cup {k} \subseteq upto[k] /\ k \notin upto[i]
      <3>1. \A j \in kept : j <= i => j <= k
        BY <1>3, <1>6
      <3>2. ~(k <= i) /\ k <= k
        BY <1>3, <1>6
      <3> QED
        BY <1>2, <2>0, <3>1, <3>2
    <2>2. Cardinality(upto[i] \cup {k}) = Cardinality(upto[i]) + 1
      BY <1>2, <2>0, <2>1, FS_AddElement
    <2>3. Cardinality(upto[i] \cup {k}) <= Cardinality(upto[k])
      BY <1>2, <2>0, <2>1, FS_Subset
    <2> QED
      BY <1>2, <2>0, <2>2, <2>3
  <1>7. ASSUME NEW i \in kept PROVE rank[i] \in 1 .. size
    <2>0. i \in 0 .. N /\ i <= i
      BY <1>3
    <2>1. upto[i] \subseteq kept /\ i \in upto[i]
      BY <1>2, <2>0
    <2>2. Cardinality(upto[i]) <= size
      BY <1>1, <2>1, FS_Subset DEF size
    <2>3. Cardinality(upto[i]) # 0
      BY <1>2, <2>0, <2>1, FS_EmptySet
    <2> QED
      BY <1>1, <1>2, <2>0, <2>2, <2>3
  <1>8. ASSUME NEW n \in 1 .. size PROVE \E i \in kept : rank[i] = n
    <2> DEFINE above == {i \in 0 .. N : rank[i] >= n}
    <2>1. above \in SUBSET Nat /\ above # {}
      <3>1. N \in 0 .. N /\ rank[N] >= n
        BY <1>1, <1>4
      <3> QED
        BY <3>1
    <2> HIDE DEF above
    <2>2. PICK i \in above : \A k \in above : i <= k
      BY <2>1, LeastIn
    <2>3. i \in 0 .. N /\ rank[i] >= n /\ i \in Nat
      BY <2>2 DEF above
    <2>4. i # 0 /\ i \in 1 .. N
      BY <1>1, <1>4, <2>3
    <2>5. i - 1 \in 0 .. N /\ i - 1 \notin above
      BY <2>2, <2>3, <2>4
    <2>6. ~(rank[i - 1] >= n)
      BY <2>5 DEF above
    <2>7. rank[i - 1] \in Nat /\ rank[i] \in Nat /\ n \in Nat
      BY <1>1, <1>2, <2>3, <2>5
    <2>8. rank[i] <= rank[i - 1] + 1 /\ (i \notin kept => rank[i] = rank[i - 1])
      BY <1>5, <2>4
    <2> QED
      BY <2>3, <2>6, <2>7, <2>8
  <1> QED
    BY <1>1, <1>6, <1>7, <1>8 DEF size, RanksAll

LEMMA SameCardinality == \A S : Outbox!Cardinality(S) = Cardinality(S)
  BY Zenon DEF Outbox!Cardinality, Cardinality, Outbox!IsFiniteSet, IsFiniteSet

\* The entries kept are those of the queue that are in the set, each once and in
\* the queue's order: `at' says where each stood.
KeptAt(at, result, queue, entries) ==
    /\ \A n \in DOMAIN at : result[n] = queue[at[n]] /\ queue[at[n]] \in entries
    /\ \A m, n \in DOMAIN at : m < n => at[m] < at[n]
    /\ \A i \in 1 .. Len(queue) : queue[i] \in entries => \E n \in DOMAIN at : at[n] = i

LEMMA OnlyIs ==
    ASSUME NEW S, NEW queue \in Seq(S), NEW entries
    PROVE  /\ Outbox!Only(queue, entries) \in Seq(S) /\ Len(Outbox!Only(queue, entries)) <= Len(queue)
           /\ \E at \in [1 .. Len(Outbox!Only(queue, entries)) -> 1 .. Len(queue)] :
                 KeptAt(at, Outbox!Only(queue, entries), queue, entries)
  <1> DEFINE kept == {i \in DOMAIN queue : queue[i] \in entries}
             size == Outbox!Cardinality(kept)
             rank == [i \in 0 .. Len(queue) |-> Outbox!Cardinality({j \in kept : j <= i})]
             nth(n) == CHOOSE i \in kept : Outbox!Cardinality({j \in kept : j <= i}) = n
             at == [n \in 1 .. size |-> nth(n)]
             result == [n \in 1 .. size |-> queue[nth(n)]]
  <1>1. Outbox!Only(queue, entries) = result
    BY Zenon DEF Outbox!Only
  <1>2. kept \in SUBSET (1 .. Len(queue)) /\ Len(queue) \in Nat /\ (\A i \in 1 .. Len(queue) : i \in kept <=> queue[i] \in entries)
    OBVIOUS
  <1>3. \A i \in 0 .. Len(queue) : rank[i] = Outbox!Cardinality({j \in kept : j <= i})
    OBVIOUS
  <1>4. \A n \in 1 .. size : at[n] = CHOOSE i \in kept : Outbox!Cardinality({j \in kept : j <= i}) = n
    OBVIOUS
  <1>5. DOMAIN at = 1 .. size /\ DOMAIN result = 1 .. size /\ \A n \in 1 .. size : result[n] = queue[at[n]]
    OBVIOUS
  <1>6. \A j \in kept : j \in 1 .. Len(queue) /\ j \in 0 .. Len(queue)
    BY <1>2
  <1> HIDE DEF kept
  <1> HIDE DEF rank, at, result, nth
  <1>7. /\ Outbox!Cardinality(kept) \in Nat /\ Outbox!Cardinality(kept) <= Len(queue)
        /\ \A i \in kept : rank[i] \in 1 .. Outbox!Cardinality(kept)
        /\ \A i, k \in kept : i < k => rank[i] < rank[k]
        /\ \A n \in 1 .. Outbox!Cardinality(kept) : \E i \in kept : rank[i] = n
    <2>1. CountsUpTo(rank, kept, Len(queue))
      BY <1>3, SameCardinality, Zenon DEF CountsUpTo
    <2>2. RanksAll(rank, kept, Len(queue))
      BY <1>2, <2>1, Ranking
    <2>3. Outbox!Cardinality(kept) = Cardinality(kept)
      BY SameCardinality
    <2> QED
      BY <2>2, <2>3 DEF RanksAll
  <1>8. ASSUME NEW n \in 1 .. size PROVE at[n] \in kept /\ rank[at[n]] = n
    <2>1. PICK i \in kept : rank[i] = n
      BY <1>7
    <2>2. Outbox!Cardinality({j \in kept : j <= i}) = n
      BY <1>3, <1>6, <2>1
    <2>3. at[n] \in kept /\ Outbox!Cardinality({j \in kept : j <= at[n]}) = n
      BY <1>4, <2>2
    <2> QED
      BY <1>3, <1>6, <2>3
  <1>9. ASSUME NEW i \in kept PROVE rank[i] \in 1 .. size /\ at[rank[i]] = i
    <2>1. rank[i] \in 1 .. size
      BY <1>7
    <2>2. at[rank[i]] \in kept /\ rank[at[rank[i]]] = rank[i]
      BY <1>8, <2>1
    <2>3. at[rank[i]] \in Nat /\ i \in Nat /\ rank[i] \in Nat
      BY <1>6, <1>7, <2>2
    <2>4. ~(at[rank[i]] < i) /\ ~(i < at[rank[i]])
      BY <1>7, <2>2, <2>3
    <2> QED
      BY <2>1, <2>3, <2>4
  <1>10. ASSUME NEW m \in 1 .. size, NEW n \in 1 .. size, m < n PROVE at[m] < at[n]
    <2>1. at[m] \in kept /\ rank[at[m]] = m /\ at[n] \in kept /\ rank[at[n]] = n
      BY <1>8
    <2>2. at[m] \in Nat /\ at[n] \in Nat /\ m \in Nat /\ n \in Nat
      BY <1>6, <1>7, <2>1
    <2>3. ~(at[n] < at[m]) /\ at[m] # at[n]
      BY <1>7, <1>10, <2>1, <2>2
    <2> QED
      BY <2>2, <2>3
  <1>11. at \in [1 .. size -> 1 .. Len(queue)]
    <2>1. \A n \in 1 .. size : at[n] \in 1 .. Len(queue)
      BY <1>6, <1>8
    <2>2. at = [n \in 1 .. size |-> at[n]]
      BY DEF at
    <2> QED
      BY <2>1, <2>2
  <1>12. result \in Seq(S) /\ Len(result) = size
    <2>1. \A n \in 1 .. size : queue[at[n]] \in S
      BY <1>6, <1>8
    <2>2. result = [n \in 1 .. size |-> queue[at[n]]]
      BY DEF result, at
    <2>3. size \in Nat
      BY <1>7
    <2> HIDE DEF size
    <2> QED
      BY <2>1, <2>2, <2>3
  <1>13. \A n \in 1 .. size : queue[at[n]] \in entries
    BY <1>2, <1>6, <1>8
  <1>14. \A i \in 1 .. Len(queue) : queue[i] \in entries => \E n \in 1 .. size : at[n] = i
    BY <1>2, <1>9
  <1>15. size <= Len(queue)
    BY <1>7
  <1> HIDE DEF size
  <1>16. Len(Outbox!Only(queue, entries)) = size
    BY <1>1, <1>12
  <1>17. \A n \in DOMAIN at : Outbox!Only(queue, entries)[n] = queue[at[n]] /\ queue[at[n]] \in entries
    BY <1>1, <1>5, <1>13
  <1>18. \A m, n \in DOMAIN at : m < n => at[m] < at[n]
    BY <1>5, <1>10
  <1>19. \A i \in 1 .. Len(queue) : queue[i] \in entries => \E n \in DOMAIN at : at[n] = i
    BY <1>5, <1>14
  <1>20. at \in [1 .. Len(Outbox!Only(queue, entries)) -> 1 .. Len(queue)]
    BY <1>11, <1>16
  <1>21. Outbox!Only(queue, entries) \in Seq(S) /\ Len(Outbox!Only(queue, entries)) <= Len(queue)
    BY <1>1, <1>12, <1>15
  <1>22. KeptAt(at, Outbox!Only(queue, entries), queue, entries)
    BY <1>17, <1>18, <1>19 DEF KeptAt
  <1> QED
    BY <1>20, <1>21, <1>22
-----------------------------------------------------------------------------
(* The submission queue. *)

QueueEntry == Outbox!Entry
QueueFile == [pending: Seq(QueueEntry), received: Seq(Outbox!Receipt), validated: SUBSET Outbox!Receipt]
Submission == [job: Outbox!Jobs, endpoint: Endpoints \cup {Nothing}, hash: Hashes \cup {Nothing}, counter: Nat, todo: Seq(QueueEntry),
               sending: QueueEntry \cup {Nothing}]
Served == [counter: Nat, taken: SUBSET Hashes]

\* The submission at work, as long as there is at most one.
WorkOf(ms) == IF \E s \in Submitters : ms[s] # Outbox!Idle THEN ms[CHOOSE s \in Submitters : ms[s] # Outbox!Idle] ELSE Outbox!Idle
work == WorkOf(models)

OutboxTyped ==
    /\ file \in QueueFile /\ Len(file.pending) <= MaxPending /\ Len(file.received) <= MaxReceived
    /\ work \in Submission /\ wire \subseteq Outbox!Request /\ service \in [Endpoints -> Served]
    /\ apple \in Nat /\ elsewhere \in Nat

\* No counter is ahead of the Secure Enclave's, and a receipt is for something taken.
Counted ==
    /\ \A r \in wire : r.counter <= apple
    /\ \A i \in DOMAIN file.pending : file.pending[i].counter <= apple
    /\ \A e \in Endpoints : service[e].counter <= apple
    /\ work.counter <= apple
Honest == \A r \in wire : r.answer \in {"received", "validated"} => r.hash \in service[r.endpoint].taken

\* An observation is queued once, and for each service at most one entry is not rejected.
Once(queue) ==
    \A i, j \in DOMAIN queue : queue[i].endpoint = queue[j].endpoint /\ queue[i].hash = queue[j].hash => i = j
Single(queue) ==
    \A i, j \in DOMAIN queue :
        queue[i].endpoint = queue[j].endpoint /\ ~queue[i].rejected /\ ~queue[j].rejected => i = j

\* What a submission holds: of the entries of its service that wait at most one,
\* which is in the queue as long as it is being sent; nothing waits while a new
\* one is prepared.
MatchIn(queue, x) ==
    \E j \in DOMAIN queue :
        queue[j].endpoint = x.endpoint /\ queue[j].hash = x.hash /\ queue[j].counter = x.counter /\ ~queue[j].rejected
NoneWaits(queue, e) == \A j \in DOMAIN queue : queue[j].endpoint = e => queue[j].rejected
DrainShape(a, queue) ==
    /\ Len(a.todo) <= 1
    /\ a.sending # Nothing => a.todo = <<>> /\ a.job \in Outbox!Drains /\ MatchIn(queue, a.sending)
    /\ \A i \in DOMAIN a.todo : MatchIn(queue, a.todo[i])
    /\ a.job \notin Outbox!Drains => a.todo = <<>>
    /\ a.job \in {"path", "prove", "enqueue"} => NoneWaits(queue, a.endpoint)
    /\ a.job # "idle" => a.endpoint \in Endpoints
    /\ a.job \notin {"idle", "drainRetry"} => a.hash \in Hashes

\* A request on its way was made no later than what waits for its service, and
\* one with the same counter is for the same observation; the new assertion is
\* later than them all.
InOrder ==
    /\ \A r \in wire : \A i \in DOMAIN file.pending :
          r.endpoint = file.pending[i].endpoint /\ ~file.pending[i].rejected =>
              /\ r.counter <= file.pending[i].counter
              /\ r.counter = file.pending[i].counter => r.hash = file.pending[i].hash
    /\ work.job = "enqueue" => \A r \in wire : r.counter < work.counter
Ahead ==
    elsewhere = 0 => /\ Outbox!NeverOvertaken
                     /\ work.job = "enqueue" => service[work.endpoint].counter < work.counter

\* What holds as long as the screens submit one after the other.
Serial ==
    /\ Outbox!OutboxConstants /\ OutboxTyped
    /\ file.validated \subseteq Outbox!Range(file.received) /\ Once(file.pending) /\ Single(file.pending)
    /\ Counted /\ Honest /\ DrainShape(work, file.pending) /\ InOrder /\ Ahead

OneAtWork == \A s, other \in Submitters : s # other => models[s] = Outbox!Idle \/ models[other] = Outbox!Idle

\* What holds of the file and of each screen's submission whatever the others do.
FileSound(f) ==
    /\ f \in QueueFile /\ Len(f.pending) <= MaxPending /\ Len(f.received) <= MaxReceived
    /\ f.validated \subseteq Outbox!Range(f.received) /\ Once(f.pending)
Fits(m) ==
    /\ m \in Submission
    /\ m.job = "idle" => m = Outbox!Idle
    /\ m.job # "idle" => m.endpoint \in Endpoints
    /\ m.job \notin {"idle", "drainRetry"} => m.hash \in Hashes
Sound ==
    /\ Outbox!OutboxConstants /\ FileSound(file)
    /\ models \in [Submitters -> Submission] /\ \A s \in Submitters : Fits(models[s])
    /\ wire \subseteq Outbox!Request /\ service \in [Endpoints -> Served]
    /\ apple \in Nat /\ elsewhere \in Nat /\ overlapped \in BOOLEAN
    /\ Honest

OutboxInv == Sound /\ (~overlapped => OneAtWork /\ Serial)

LEMMA OutboxInvConsistent == OutboxInv => Outbox!OutboxConsistent
  <1> SUFFICES ASSUME OutboxInv PROVE Outbox!OutboxConsistent
    OBVIOUS
  <1>1. Outbox!TypeOK
    BY DEF OutboxInv, Sound, FileSound, Outbox!TypeOK, QueueFile, QueueEntry, Submission, Served
  <1>2. Outbox!LoadsAgain
    BY DEF OutboxInv, Sound, FileSound, Outbox!LoadsAgain, Once
  <1>3. elsewhere = 0 /\ ~overlapped => Outbox!NeverOvertaken
    BY DEF OutboxInv, Serial, Ahead
  <1> QED
    BY <1>1, <1>2, <1>3 DEF Outbox!OutboxConsistent

\* The one at work is the screen that acts, if the others rest.
LEMMA AtWork ==
    ASSUME NEW ms, NEW s \in Submitters, \A t \in Submitters : t # s => ms[t] = Outbox!Idle
    PROVE  WorkOf(ms) = ms[s]
  <1>1. CASE ms[s] = Outbox!Idle
    BY <1>1 DEF WorkOf
  <1>2. CASE ms[s] # Outbox!Idle
    <2> DEFINE c == CHOOSE t \in Submitters : ms[t] # Outbox!Idle
    <2>1. c \in Submitters /\ ms[c] # Outbox!Idle
      BY <1>2
    <2>2. c = s
      BY <2>1
    <2> QED
      BY <1>2, <2>2 DEF WorkOf
  <1> QED
    BY <1>1, <1>2

\* A screen acts and is the one at work.
Acts(s) == s \in Submitters /\ models \in [Submitters -> Submission] /\ work = models[s] /\ work' = models'[s]

\* An idle screen holds nothing.
Resting(a) == a \in Submission /\ a.job = "idle" /\ a.counter = 0 /\ a.todo = <<>> /\ a.sending = Nothing

LEMMA RestingShape ==
    ASSUME NEW a, NEW queue, Resting(a)
    PROVE  DrainShape(a, queue)
  BY DEF Resting, DrainShape, Outbox!Drains

LEMMA IdleRests == Resting(Outbox!Idle)
  <1>1. <<>> \in Seq(QueueEntry)
    OBVIOUS
  <1> QED
    BY <1>1 DEF Resting, Outbox!Idle, Submission, Outbox!Jobs

LEMMA IdleIsIdle == Outbox!Idle.job = "idle" /\ Outbox!Idle.sending = Nothing
  BY DEF Outbox!Idle

LEMMA IdleFits == Outbox!Idle \in Submission /\ Fits(Outbox!Idle)
  BY IdleRests DEF Resting, Fits

LEMMA AllRest == ASSUME models = [s \in Submitters |-> Outbox!Idle] PROVE work = Outbox!Idle
  BY DEF work, WorkOf

LEMMA ActsBecomes ==
    ASSUME NEW s, Acts(s), NEW m, Outbox!Becomes(s, m)
    PROVE  work' = m
  BY DEF Acts, Outbox!Becomes

LEMMA OutboxInit == Outbox!OutboxConstants /\ Outbox!Init => OutboxInv
  <1> SUFFICES ASSUME Outbox!OutboxConstants, Outbox!Init PROVE OutboxInv
    OBVIOUS
  <1>0. models = [s \in Submitters |-> Outbox!Idle] /\ overlapped = FALSE
    BY DEF Outbox!Init
  <1>1. /\ file = [pending |-> <<>>, received |-> <<>>, validated |-> {}] /\ work = Outbox!Idle /\ wire = {}
        /\ service = [e \in Endpoints |-> [counter |-> 0, taken |-> {}]] /\ apple = 0 /\ elsewhere = 0
    BY <1>0, AllRest DEF Outbox!Init
  <1>2. Resting(work) /\ DrainShape(work, file.pending)
    BY <1>1, IdleRests, RestingShape
  <1>3. file.pending = <<>> /\ file.received = <<>> /\ file.validated = {} /\ file \in QueueFile /\ MaxPending \in Nat /\ MaxReceived \in Nat
    <2>1. <<>> \in Seq(QueueEntry) /\ <<>> \in Seq(Outbox!Receipt)
      OBVIOUS
    <2> QED
      BY <1>1, <2>1 DEF QueueFile, Outbox!OutboxConstants
  <1>4. OutboxTyped
    <2>1. service \in [Endpoints -> Served]
      BY <1>1 DEF Served
    <2>2. work \in Submission
      BY <1>2 DEF Resting
    <2>3. Len(file.pending) = 0 /\ Len(file.received) = 0
      BY <1>3
    <2> QED
      BY <1>1, <1>3, <2>1, <2>2, <2>3 DEF OutboxTyped
  <1>5. Once(file.pending) /\ Single(file.pending) /\ DOMAIN file.pending = {}
    <2>1. DOMAIN file.pending = {}
      BY <1>3
    <2> QED
      BY <2>1 DEF Once, Single
  <1>6. Counted /\ Honest
    BY <1>1, <1>2, <1>5 DEF Counted, Honest, Resting
  <1>7. InOrder /\ Ahead
    BY <1>1, <1>2, <1>5 DEF InOrder, Ahead, Outbox!NeverOvertaken, Resting
  <1>8. Serial
    BY <1>2, <1>3, <1>4, <1>5, <1>6, <1>7 DEF Serial
  <1>9. Sound
    <2>1. FileSound(file)
      BY <1>3, <1>4, <1>5 DEF FileSound, OutboxTyped
    <2>2. models \in [Submitters -> Submission] /\ \A s \in Submitters : Fits(models[s])
      BY <1>0, IdleFits
    <2> QED
      BY <1>0, <1>4, <1>6, <2>1, <2>2 DEF Sound, OutboxTyped
  <1>10. OneAtWork
    BY <1>0 DEF OneAtWork
  <1> QED
    BY <1>8, <1>9, <1>10 DEF OutboxInv

\* One queue is what is left of another: its entries stood there, apart, with the
\* same observation and counter, and what was rejected stays so.
SameEntry(x, y) == x.endpoint = y.endpoint /\ x.hash = y.hash /\ x.counter = y.counter
LeftOf(new, old) ==
    \E at \in [DOMAIN new -> DOMAIN old] :
        /\ \A n \in DOMAIN new : SameEntry(new[n], old[at[n]]) /\ (old[at[n]].rejected => new[n].rejected)
        /\ \A m, n \in DOMAIN new : at[m] = at[n] => m = n

LEMMA LeftIsSame == \A queue : LeftOf(queue, queue)
  <1> SUFFICES ASSUME NEW queue PROVE LeftOf(queue, queue)
    OBVIOUS
  <1> DEFINE at == [n \in DOMAIN queue |-> n]
  <1>1. at \in [DOMAIN queue -> DOMAIN queue] /\ \A n \in DOMAIN queue : at[n] = n
    OBVIOUS
  <1> HIDE DEF at
  <1> QED
    BY <1>1 DEF LeftOf, SameEntry

LEMMA LeftKeeps ==
    ASSUME NEW old, NEW new, LeftOf(new, old)
    PROVE  /\ (Once(old) => Once(new)) /\ (Single(old) => Single(new))
           /\ \A e : NoneWaits(old, e) => NoneWaits(new, e)
  <1>1. PICK at \in [DOMAIN new -> DOMAIN old] :
            /\ \A n \in DOMAIN new : SameEntry(new[n], old[at[n]]) /\ (old[at[n]].rejected => new[n].rejected)
            /\ \A m, n \in DOMAIN new : at[m] = at[n] => m = n
    BY DEF LeftOf
  <1>2. \A n \in DOMAIN new : at[n] \in DOMAIN old
    BY <1>1
  <1>3. Once(old) => Once(new)
    BY <1>1, <1>2 DEF Once, SameEntry
  <1>4. Single(old) => Single(new)
    BY <1>1, <1>2 DEF Single, SameEntry
  <1>5. \A e : NoneWaits(old, e) => NoneWaits(new, e)
    BY <1>1, <1>2 DEF NoneWaits, SameEntry
  <1> QED
    BY <1>3, <1>4, <1>5

LEMMA WaitingIs ==
    ASSUME NEW queue \in Seq(QueueEntry), Single(queue), NEW e
    PROVE  /\ Outbox!Waiting(queue, e) \in Seq(QueueEntry) /\ Len(Outbox!Waiting(queue, e)) <= 1
           /\ \A i \in DOMAIN Outbox!Waiting(queue, e) : MatchIn(queue, Outbox!Waiting(queue, e)[i])
  <1> DEFINE entries == {x \in Outbox!Range(queue) : x.endpoint = e /\ ~x.rejected}
             waiting == Outbox!Only(queue, entries)
  <1>1. Outbox!Waiting(queue, e) = waiting
    BY DEF Outbox!Waiting
  <1>2. \A x \in entries : x.endpoint = e /\ ~x.rejected
    OBVIOUS
  <1> HIDE DEF entries
  <1>3. waiting \in Seq(QueueEntry)
    BY OnlyIs
  <1>4. PICK at \in [1 .. Len(waiting) -> 1 .. Len(queue)] :
            KeptAt(at, waiting, queue, entries)
    BY OnlyIs
  <1> HIDE DEF waiting
  <1>5. DOMAIN waiting = 1 .. Len(waiting) /\ DOMAIN queue = 1 .. Len(queue) /\ DOMAIN at = 1 .. Len(waiting) /\ Len(waiting) \in Nat
    BY <1>3, <1>4
  <1>6. \A n \in DOMAIN waiting : /\ at[n] \in DOMAIN queue /\ at[n] \in Nat /\ waiting[n] = queue[at[n]]
                                  /\ queue[at[n]].endpoint = e /\ ~queue[at[n]].rejected
    BY <1>2, <1>4, <1>5 DEF KeptAt
  <1>7. Len(waiting) <= 1
    <2> SUFFICES ASSUME Len(waiting) > 1 PROVE FALSE
      BY <1>5
    <2>1. 1 \in DOMAIN waiting /\ 2 \in DOMAIN waiting
      BY <1>5
    <2>2. /\ at[1] \in DOMAIN queue /\ queue[at[1]].endpoint = e /\ ~queue[at[1]].rejected /\ at[1] \in Nat
          /\ at[2] \in DOMAIN queue /\ queue[at[2]].endpoint = e /\ ~queue[at[2]].rejected /\ at[2] \in Nat
      BY <1>6, <2>1
    <2>3. at[1] = at[2]
      BY <2>2, Zenon DEF Single
    <2>4. at[1] < at[2]
      <3>1. 1 \in DOMAIN at /\ 2 \in DOMAIN at /\ 1 < 2
        BY <1>5, <2>1
      <3> QED
        BY <1>4, <3>1 DEF KeptAt
    <2> QED
      BY <2>2, <2>3, <2>4
  <1>8. \A n \in DOMAIN waiting : MatchIn(queue, waiting[n])
    BY <1>6 DEF MatchIn
  <1> QED
    BY <1>1, <1>3, <1>7, <1>8

LEMMA NoneWaiting ==
    ASSUME NEW queue \in Seq(QueueEntry), Single(queue), NEW e \in Endpoints, NoneWaits(queue, e)
    PROVE  Outbox!Waiting(queue, e) = <<>>
  <1> DEFINE entries == {x \in Outbox!Range(queue) : x.endpoint = e /\ ~x.rejected}
             waiting == Outbox!Only(queue, entries)
  <1>1. Outbox!Waiting(queue, e) = waiting
    BY DEF Outbox!Waiting
  <1>2. \A x \in entries : x.endpoint = e /\ ~x.rejected
    OBVIOUS
  <1> HIDE DEF entries
  <1>3. waiting \in Seq(QueueEntry)
    BY OnlyIs
  <1>4. PICK at \in [1 .. Len(waiting) -> 1 .. Len(queue)] :
            KeptAt(at, waiting, queue, entries)
    BY OnlyIs
  <1> HIDE DEF waiting
  <1>5. Len(waiting) = 0
    <2>1. Len(waiting) \in Nat /\ DOMAIN at = 1 .. Len(waiting) /\ DOMAIN queue = 1 .. Len(queue)
      BY <1>3, <1>4
    <2> SUFFICES ASSUME Len(waiting) >= 1 PROVE FALSE
      BY <2>1
    <2>2. at[1] \in DOMAIN queue /\ queue[at[1]].endpoint = e /\ ~queue[at[1]].rejected
      BY <1>2, <1>4, <2>1 DEF KeptAt
    <2> QED
      BY <2>2 DEF NoneWaits
  <1> QED
    BY <1>1, <1>3, <1>5

LEMMA WithoutIs ==
    ASSUME NEW queue \in Seq(QueueEntry), NEW e, NEW h
    PROVE  LET left == Outbox!Without(queue, e, h) IN
           /\ left \in Seq(QueueEntry) /\ Len(left) <= Len(queue) /\ LeftOf(left, queue)
           /\ \A i \in DOMAIN queue :
                 queue[i].endpoint # e \/ queue[i].hash # h => \E n \in DOMAIN left : SameEntry(left[n], queue[i])
  <1> DEFINE entries == {x \in Outbox!Range(queue) : x.endpoint # e \/ x.hash # h}
             left == Outbox!Only(queue, entries)
  <1>1. Outbox!Without(queue, e, h) = left
    BY DEF Outbox!Without
  <1>2. \A i \in DOMAIN queue : queue[i].endpoint # e \/ queue[i].hash # h => queue[i] \in entries
    BY DEF Outbox!Range
  <1> HIDE DEF entries
  <1>3. left \in Seq(QueueEntry) /\ Len(left) <= Len(queue)
    BY OnlyIs
  <1>4. PICK at \in [1 .. Len(left) -> 1 .. Len(queue)] :
            KeptAt(at, left, queue, entries)
    BY OnlyIs
  <1> HIDE DEF left
  <1>5. DOMAIN left = 1 .. Len(left) /\ DOMAIN queue = 1 .. Len(queue) /\ DOMAIN at = 1 .. Len(left) /\ Len(left) \in Nat
    BY <1>3, <1>4
  <1>6. at \in [DOMAIN left -> DOMAIN queue]
    BY <1>4, <1>5
  <1>7. \A m, n \in DOMAIN left : at[m] = at[n] => m = n
    <2> SUFFICES ASSUME NEW m \in DOMAIN left, NEW n \in DOMAIN left, m # n PROVE at[m] # at[n]
      OBVIOUS
    <2>1. m \in Nat /\ n \in Nat /\ at[m] \in Nat /\ at[n] \in Nat
      BY <1>4, <1>5
    <2>2. m < n \/ n < m
      BY <2>1
    <2> QED
      BY <1>4, <1>5, <2>1, <2>2 DEF KeptAt
  <1>8. LeftOf(left, queue)
    BY <1>4, <1>5, <1>6, <1>7 DEF LeftOf, SameEntry, KeptAt
  <1>9. \A i \in DOMAIN queue : queue[i].endpoint # e \/ queue[i].hash # h => \E n \in DOMAIN left : SameEntry(left[n], queue[i])
    BY <1>2, <1>4, <1>5, SMTT(40) DEF SameEntry, KeptAt
  <1> QED
    BY <1>1, <1>3, <1>8, <1>9

\* What is left of the queue waits for no more than before: a step that takes
\* from the queue and the wire keeps the invariant if the submission still fits.
LEMMA QueueKeeps ==
    ASSUME Serial, UNCHANGED <<service, apple, elsewhere>>, wire' \subseteq wire,
           file' \in QueueFile, Len(file'.pending) <= MaxPending, Len(file'.received) <= MaxReceived,
           file'.validated \subseteq Outbox!Range(file'.received), LeftOf(file'.pending, file.pending),
           work' \in Submission, work'.counter <= apple, DrainShape(work', file'.pending),
           work'.job = "enqueue" => work' = work
    PROVE  Serial'
  <1>1. OutboxTyped'
    BY DEF Serial, OutboxTyped
  <1>2. Once(file'.pending) /\ Single(file'.pending)
    BY LeftKeeps DEF Serial
  <1>3. PICK at \in [DOMAIN file'.pending -> DOMAIN file.pending] :
            \A n \in DOMAIN file'.pending :
                SameEntry(file'.pending[n], file.pending[at[n]]) /\ (file.pending[at[n]].rejected => file'.pending[n].rejected)
    BY DEF LeftOf
  <1>4. \A n \in DOMAIN file'.pending : at[n] \in DOMAIN file.pending
    BY <1>3
  <1>5. Counted'
    <2>1. \A n \in DOMAIN file'.pending : file'.pending[n].counter <= apple
      BY <1>3, <1>4 DEF Serial, Counted, SameEntry
    <2> QED
      BY <2>1 DEF Serial, Counted
  <1>6. Honest'
    BY DEF Serial, Honest
  <1>7. InOrder'
    <2>1. ASSUME NEW r \in wire', NEW n \in DOMAIN file'.pending,
                 r.endpoint = file'.pending[n].endpoint, ~file'.pending[n].rejected
          PROVE  /\ r.counter <= file'.pending[n].counter
                 /\ r.counter = file'.pending[n].counter => r.hash = file'.pending[n].hash
      <3>1. r \in wire /\ at[n] \in DOMAIN file.pending /\ r.endpoint = file.pending[at[n]].endpoint /\ ~file.pending[at[n]].rejected
        BY <1>3, <1>4, <2>1 DEF SameEntry
      <3>2. /\ r.counter <= file.pending[at[n]].counter
            /\ r.counter = file.pending[at[n]].counter => r.hash = file.pending[at[n]].hash
        BY <3>1 DEF Serial, InOrder
      <3> QED
        BY <1>3, <3>2 DEF SameEntry
    <2>2. work'.job = "enqueue" => \A r \in wire' : r.counter < work'.counter
      BY DEF Serial, InOrder
    <2> QED
      BY <2>1, <2>2 DEF InOrder
  <1>8. Ahead'
    <2>1. ASSUME elsewhere = 0, NEW n \in DOMAIN file'.pending, ~file'.pending[n].rejected
          PROVE  LET x == file'.pending[n] IN service[x.endpoint].counter < x.counter \/ x.hash \in service[x.endpoint].taken
      <3>1. at[n] \in DOMAIN file.pending /\ ~file.pending[at[n]].rejected
        BY <1>3, <1>4, <2>1
      <3>2. LET x == file.pending[at[n]] IN service[x.endpoint].counter < x.counter \/ x.hash \in service[x.endpoint].taken
        BY <2>1, <3>1 DEF Serial, Ahead, Outbox!NeverOvertaken
      <3> QED
        BY <1>3, <3>2 DEF SameEntry
    <2>2. elsewhere = 0 => (work'.job = "enqueue" => service[work'.endpoint].counter < work'.counter)
      BY DEF Serial, Ahead
    <2> QED
      BY <2>1, <2>2 DEF Ahead, Outbox!NeverOvertaken
  <1> QED
    BY <1>1, <1>2, <1>5, <1>6, <1>7, <1>8 DEF Serial, Outbox!OutboxConstants

\* Only the submission moves.
LEMMA SubmissionMoves ==
    ASSUME Serial, UNCHANGED <<file, wire, service, apple, elsewhere>>,
           work' \in Submission, work'.counter <= apple, DrainShape(work', file.pending), work'.job # "enqueue"
    PROVE  Serial'
  <1>1. /\ file' \in QueueFile /\ Len(file'.pending) <= MaxPending /\ Len(file'.received) <= MaxReceived
        /\ file'.validated \subseteq Outbox!Range(file'.received)
    BY DEF Serial, OutboxTyped
  <1>2. LeftOf(file'.pending, file.pending)
    BY LeftIsSame
  <1> QED
    BY <1>1, <1>2, QueueKeeps

LEMMA SubmissionRests ==
    ASSUME Serial, UNCHANGED <<file, wire, service, apple, elsewhere>>, Resting(work')
    PROVE  Serial'
  <1>1. apple \in Nat
    BY DEF Serial, OutboxTyped
  <1>2. work' \in Submission /\ work'.counter <= apple /\ work'.job # "enqueue"
    BY <1>1 DEF Resting
  <1>3. DrainShape(work', file.pending)
    BY RestingShape
  <1> QED
    BY <1>2, <1>3, SubmissionMoves

LEMMA PendingFacts ==
    ASSUME Serial
    PROVE  /\ file \in QueueFile /\ file.pending \in Seq(QueueEntry) /\ Single(file.pending) /\ Once(file.pending)
           /\ work \in Submission /\ apple \in Nat /\ work.counter \in Nat /\ work.counter <= apple
           /\ \A e : ~Outbox!HasPending(e) <=> NoneWaits(file.pending, e)
  <1>1. file \in QueueFile /\ Single(file.pending) /\ Once(file.pending) /\ work \in Submission /\ apple \in Nat /\ work.counter <= apple
    BY DEF Serial, OutboxTyped, Counted
  <1>2. file.pending \in Seq(QueueEntry) /\ work.counter \in Nat
    BY <1>1 DEF QueueFile, Submission
  <1>3. \A e : ~Outbox!HasPending(e) <=> NoneWaits(file.pending, e)
    BY DEF Outbox!HasPending, NoneWaits
  <1> QED
    BY <1>1, <1>2, <1>3

\* A submission that starts with a drain, of what waits for its service.
LEMMA DrainStarts ==
    ASSUME NEW queue \in Seq(QueueEntry), Single(queue), NEW a \in Submission,
           a.job \in Outbox!Drains, a.endpoint \in Endpoints, a.job # "drainRetry" => a.hash \in Hashes,
           a.sending = Nothing, a.todo = Outbox!Waiting(queue, a.endpoint)
    PROVE  DrainShape(a, queue) /\ a.job # "enqueue"
  <1>1. Len(a.todo) <= 1 /\ \A i \in DOMAIN a.todo : MatchIn(queue, a.todo[i])
    BY WaitingIs
  <1>2. a.job \notin {"idle", "path", "prove", "enqueue"}
    BY DEF Outbox!Drains
  <1> QED
    BY <1>1, <1>2 DEF DrainShape

LEMMA PrepareKeeps ==
    ASSUME Serial, NEW s, Acts(s), NEW e \in Endpoints, NEW h \in Hashes, Outbox!Prepare(s, e, h)
    PROVE  Serial'
  <1> DEFINE start == [Outbox!Idle EXCEPT !.endpoint = e, !.hash = h]
             todo == Outbox!Waiting(file.pending, e)
  <1>1. /\ UNCHANGED <<file, wire, service, apple, elsewhere>>
        /\ work' = IF Outbox!HasPending(e) THEN [start EXCEPT !.job = "drainFirst", !.todo = todo] ELSE [start EXCEPT !.job = "path"]
    BY ActsBecomes DEF Outbox!Prepare, Outbox!Begins, Outbox!Snapshot
  <1>2. /\ file.pending \in Seq(QueueEntry) /\ Single(file.pending) /\ apple \in Nat
        /\ ~Outbox!HasPending(e) <=> NoneWaits(file.pending, e)
    BY PendingFacts
  <1>3. todo \in Seq(QueueEntry)
    BY <1>2, WaitingIs
  <1>4. start \in Submission /\ start.endpoint = e /\ start.hash = h /\ start.counter = 0 /\ start.todo = <<>> /\ start.sending = Nothing
    BY IdleRests DEF Resting, Submission
  <1> HIDE DEF start, todo
  <1>5. CASE Outbox!HasPending(e)
    <2>1. work' = [start EXCEPT !.job = "drainFirst", !.todo = todo]
      BY <1>1, <1>5
    <2>2. /\ work' \in Submission /\ work'.job = "drainFirst" /\ work'.todo = todo /\ work'.endpoint = e /\ work'.hash = h
          /\ work'.counter = 0 /\ work'.sending = Nothing
      BY <1>3, <1>4, <2>1 DEF Submission, Outbox!Jobs, Outbox!Drains
    <2>3. DrainShape(work', file.pending) /\ work'.job # "enqueue"
      BY <1>2, <2>2, DrainStarts DEF todo, Outbox!Drains
    <2> QED
      BY <1>1, <1>2, <2>2, <2>3, SubmissionMoves
  <1>6. CASE ~Outbox!HasPending(e)
    <2>1. work' = [start EXCEPT !.job = "path"]
      BY <1>1, <1>6
    <2>2. /\ work' \in Submission /\ work'.job = "path" /\ work'.todo = <<>> /\ work'.endpoint = e /\ work'.hash = h
          /\ work'.counter = 0 /\ work'.sending = Nothing
      BY <1>4, <2>1 DEF Submission, Outbox!Jobs
    <2>3. DrainShape(work', file.pending)
      BY <1>2, <1>6, <2>2 DEF DrainShape
    <2> QED
      BY <1>1, <1>2, <2>2, <2>3, SubmissionMoves
  <1> QED
    BY <1>5, <1>6

LEMMA RetryKeeps ==
    ASSUME Serial, NEW s, Acts(s), NEW e \in Endpoints, Outbox!Retry(s, e)
    PROVE  Serial'
  <1> DEFINE todo == Outbox!Waiting(file.pending, e)
             idle == Outbox!Idle
  <1>1. /\ UNCHANGED <<file, wire, service, apple, elsewhere>>
        /\ work' = [idle EXCEPT !.job = "drainRetry", !.endpoint = e, !.todo = todo]
    BY ActsBecomes DEF Outbox!Retry, Outbox!Begins, Outbox!Snapshot
  <1>2. file.pending \in Seq(QueueEntry) /\ Single(file.pending) /\ apple \in Nat
    BY PendingFacts
  <1>3. todo \in Seq(QueueEntry)
    BY <1>2, WaitingIs
  <1>4. Resting(idle)
    BY IdleRests
  <1> HIDE DEF idle, todo
  <1>5. /\ work' \in Submission /\ work'.job = "drainRetry" /\ work'.todo = todo /\ work'.endpoint = e
        /\ work'.counter = 0 /\ work'.sending = Nothing
    BY <1>1, <1>3, <1>4 DEF Resting, Submission, Outbox!Jobs, Outbox!Drains
  <1>6. DrainShape(work', file.pending) /\ work'.job # "enqueue"
    BY <1>2, <1>5, DrainStarts DEF todo, Outbox!Drains
  <1> QED
    BY <1>1, <1>2, <1>5, <1>6, SubmissionMoves

LEMMA StopKeeps ==
    ASSUME Serial, Outbox!Killed \/ \E s : Acts(s) /\ Outbox!GivesUp(s)
    PROVE  Serial'
  <1>1. UNCHANGED <<file, wire, service, apple, elsewhere>>
    BY DEF Outbox!GivesUp, Outbox!Killed
  <1>2. work' = Outbox!Idle
    <2>1. CASE Outbox!Killed
      BY <2>1 DEF Outbox!Killed, work, WorkOf
    <2>2. CASE \E s : Acts(s) /\ Outbox!GivesUp(s)
      BY <2>2, ActsBecomes DEF Outbox!GivesUp
    <2> QED
      BY <2>1, <2>2
  <1> QED
    BY <1>1, <1>2, IdleRests, SubmissionRests

LEMMA DrainEndsKeeps ==
    ASSUME Serial, NEW s, Acts(s), Outbox!DrainEnds(s)
    PROVE  Serial'
  <1>1. /\ UNCHANGED <<file, wire, service, apple, elsewhere>> /\ work.job \in Outbox!Drains /\ work.sending = Nothing
        /\ work' = IF work.job = "drainFirst" /\ ~Outbox!HasPending(work.endpoint)
                   THEN [work EXCEPT !.job = "path", !.todo = <<>>] ELSE Outbox!Idle
    BY ActsBecomes DEF Outbox!DrainEnds, Outbox!Draining, Acts
  <1>2. work \in Submission /\ DrainShape(work, file.pending)
    BY PendingFacts DEF Serial
  <1>3. CASE work.job = "drainFirst" /\ ~Outbox!HasPending(work.endpoint)
    <2>1. work' = [work EXCEPT !.job = "path", !.todo = <<>>]
      BY <1>1, <1>3
    <2>2. <<>> \in Seq(QueueEntry)
      OBVIOUS
    <2>3. /\ work' \in Submission /\ work'.job = "path" /\ work'.todo = <<>> /\ work'.endpoint = work.endpoint /\ work'.hash = work.hash
          /\ work'.counter = work.counter /\ work'.sending = Nothing
      <3>1. work \in Submission /\ work.sending = Nothing
        BY <1>1, <1>2
      <3> QED
        BY <2>1, <2>2, <3>1 DEF Submission, Outbox!Jobs
    <2>4. NoneWaits(file.pending, work.endpoint) /\ work.endpoint \in Endpoints /\ work.hash \in Hashes
      BY <1>2, <1>3, PendingFacts DEF DrainShape
    <2>5. DrainShape(work', file.pending)
      BY <2>3, <2>4 DEF DrainShape
    <2> QED
      BY <1>1, <2>3, <2>5, PendingFacts, SubmissionMoves
  <1>4. CASE ~(work.job = "drainFirst" /\ ~Outbox!HasPending(work.endpoint))
    <2>1. Resting(work')
      BY <1>1, <1>4, IdleRests
    <2> QED
      BY <1>1, <2>1, SubmissionRests
  <1> QED
    BY <1>3, <1>4

\* A queue rewritten in place: every entry keeps its observation and counter.
LEMMA LeftInPlace ==
    ASSUME NEW old \in Seq(QueueEntry), NEW new \in Seq(QueueEntry), DOMAIN new = DOMAIN old,
           \A i \in DOMAIN old : SameEntry(new[i], old[i]) /\ (old[i].rejected => new[i].rejected)
    PROVE  LeftOf(new, old)
  <1> DEFINE at == [n \in DOMAIN new |-> n]
  <1>1. at \in [DOMAIN new -> DOMAIN old] /\ \A n \in DOMAIN new : at[n] = n
    OBVIOUS
  <1> HIDE DEF at
  <1> QED
    BY <1>1 DEF LeftOf

LEMMA FailedIs ==
    ASSUME file \in QueueFile, NEW x, NEW rejected \in BOOLEAN
    PROVE  LET new == Outbox!Failed(x, rejected) IN
           /\ new \in QueueFile /\ new.received = file.received /\ new.validated = file.validated
           /\ Len(new.pending) = Len(file.pending) /\ DOMAIN new.pending = DOMAIN file.pending
           /\ \A i \in DOMAIN file.pending : SameEntry(new.pending[i], file.pending[i])
           /\ LeftOf(new.pending, file.pending)
  <1> DEFINE queue == file.pending
             failed(y) == [y EXCEPT !.due = FALSE, !.rejected = y.rejected \/ rejected]
             left == [i \in DOMAIN queue |->
                         IF queue[i].endpoint = x.endpoint /\ queue[i].hash = x.hash THEN failed(queue[i]) ELSE queue[i]]
  <1>1. Outbox!Failed(x, rejected) = [file EXCEPT !.pending = left]
    BY Zenon DEF Outbox!Failed
  <1>2. queue \in Seq(QueueEntry)
    BY DEF QueueFile
  <1>3. \A y \in QueueEntry : failed(y) \in QueueEntry /\ SameEntry(failed(y), y) /\ (y.rejected => failed(y).rejected)
    <2> SUFFICES ASSUME NEW y \in QueueEntry PROVE failed(y) \in QueueEntry /\ SameEntry(failed(y), y) /\ (y.rejected => failed(y).rejected)
      OBVIOUS
    <2>1. y.rejected \in BOOLEAN
      BY DEF QueueEntry, Outbox!Entry
    <2> DEFINE b == y.rejected \/ rejected
    <2>2. b \in BOOLEAN /\ (y.rejected => b)
      BY <2>1
    <2> HIDE DEF b
    <2>3. failed(y) = [y EXCEPT !.due = FALSE, !.rejected = b]
      BY DEF b
    <2> HIDE DEF failed
    <2> QED
      BY <2>2, <2>3 DEF QueueEntry, Outbox!Entry, SameEntry
  <1>4. \A i \in DOMAIN queue : queue[i] \in QueueEntry
    BY <1>2
  <1> HIDE DEF queue, failed
  <1>5. /\ DOMAIN left = DOMAIN queue
        /\ \A i \in DOMAIN queue :
              /\ left[i] \in QueueEntry
              /\ SameEntry(left[i], queue[i]) /\ (queue[i].rejected => left[i].rejected)
    BY <1>3, <1>4 DEF SameEntry
  <1>6. left \in Seq(QueueEntry) /\ Len(left) = Len(queue)
    <2>1. left = [i \in 1 .. Len(queue) |-> left[i]] /\ Len(queue) \in Nat
      BY <1>2, <1>5
    <2> HIDE DEF left
    <2>2. \A i \in 1 .. Len(queue) : left[i] \in QueueEntry
      BY <1>2, <1>5
    <2> QED
      BY <2>1, <2>2
  <1> HIDE DEF left
  <1>7. LeftOf(left, queue)
    BY <1>2, <1>5, <1>6, LeftInPlace
  <1>8. /\ [file EXCEPT !.pending = left] \in QueueFile
        /\ [file EXCEPT !.pending = left].received = file.received
        /\ [file EXCEPT !.pending = left].validated = file.validated
        /\ [file EXCEPT !.pending = left].pending = left
    BY <1>6 DEF QueueFile
  <1> QED
    BY <1>1, <1>5, <1>6, <1>7, <1>8 DEF queue

LEMMA FileFacts ==
    ASSUME Serial
    PROVE  /\ file \in QueueFile /\ Len(file.pending) <= MaxPending /\ Len(file.received) <= MaxReceived
           /\ file.validated \subseteq Outbox!Range(file.received) /\ LeftOf(file.pending, file.pending)
           /\ MaxPending \in Nat /\ MaxReceived \in Nat \ {0} /\ FileSound(file)
  BY LeftIsSame DEF Serial, OutboxTyped, Outbox!OutboxConstants, FileSound

LEMMA FailureKeeps ==
    ASSUME Serial, NEW s, Acts(s), Outbox!SendFails(s) \/ \E r \in wire : r.from = s /\ Outbox!RejectionArrives(r)
    PROVE  Serial'
  <1>1. PICK rejected \in BOOLEAN :
            /\ file' = Outbox!Failed(work.sending, rejected) /\ work' = Outbox!Idle
            /\ wire' \subseteq wire /\ UNCHANGED <<service, apple, elsewhere>>
    <2>1. CASE Outbox!SendFails(s)
      BY <2>1, ActsBecomes DEF Outbox!SendFails, Acts
    <2>2. CASE \E r \in wire : r.from = s /\ Outbox!RejectionArrives(r)
      BY <2>2, ActsBecomes DEF Outbox!RejectionArrives, Outbox!Sending, Acts
    <2> QED
      BY <2>1, <2>2
  <1>2. work \in Submission /\ apple \in Nat
    BY PendingFacts
  <1>3. Resting(work') /\ DrainShape(work', file'.pending)
    BY <1>1, IdleRests, RestingShape
  <1>4. /\ file' \in QueueFile /\ Len(file'.pending) <= MaxPending /\ Len(file'.received) <= MaxReceived
        /\ file'.validated \subseteq Outbox!Range(file'.received) /\ LeftOf(file'.pending, file.pending)
    BY <1>1, FileFacts, FailedIs
  <1>5. work' \in Submission /\ work'.counter <= apple /\ work'.job # "enqueue"
    BY <1>2, <1>3 DEF Resting
  <1> QED
    BY <1>1, <1>3, <1>4, <1>5, QueueKeeps

LEMMA LoseKeeps ==
    ASSUME Serial, NEW r, Outbox!Lose(r)
    PROVE  Serial'
  <1>1. UNCHANGED <<file, work, service, apple, elsewhere>> /\ wire' \subseteq wire
    BY DEF Outbox!Lose, work
  <1>2. work \in Submission /\ work.counter <= apple /\ DrainShape(work, file.pending)
    BY PendingFacts DEF Serial
  <1> QED
    BY <1>1, <1>2, FileFacts, QueueKeeps

\* A receipt: its observation leaves the queue, and what is validated stays among
\* the received.
LEMMA RecordedIs ==
    ASSUME FileSound(file), MaxPending \in Nat, MaxReceived \in Nat \ {0}, NEW x \in QueueEntry, NEW validated \in BOOLEAN
    PROVE  LET new == Outbox!Recorded(x, validated) IN
           /\ new \in QueueFile /\ Len(new.pending) <= MaxPending /\ Len(new.received) <= MaxReceived
           /\ new.validated \subseteq Outbox!Range(new.received)
           /\ new.pending = Outbox!Without(file.pending, x.endpoint, x.hash)
           /\ LeftOf(new.pending, file.pending)
  <1>1. /\ file.pending \in Seq(QueueEntry) /\ file.received \in Seq(Outbox!Receipt) /\ file.validated \subseteq Outbox!Receipt
        /\ Len(file.pending) <= MaxPending /\ Len(file.received) <= MaxReceived /\ MaxPending \in Nat /\ MaxReceived \in Nat \ {0}
    BY DEF FileSound, QueueFile
  <1> DEFINE y == <<x.endpoint, x.hash>>
             received == Append(file.received, y)
             kept == IF Len(received) > MaxReceived THEN Tail(received) ELSE received
             named == file.validated \cup (IF validated THEN {y} ELSE {})
             left == Outbox!Without(file.pending, x.endpoint, x.hash)
  <1>2. Outbox!Recorded(x, validated) = [pending |-> left, received |-> kept, validated |-> named \cap Outbox!Range(kept)]
    BY DEF Outbox!Recorded
  <1>3. y \in Outbox!Receipt
    BY DEF QueueEntry, Outbox!Entry, Outbox!Receipt
  <1>4. named \subseteq Outbox!Receipt
    BY <1>1, <1>3
  <1> HIDE DEF y, left, named
  <1>5. kept \in Seq(Outbox!Receipt) /\ Len(kept) <= MaxReceived
    <2>1. received \in Seq(Outbox!Receipt) /\ Len(received) = Len(file.received) + 1 /\ Len(file.received) \in Nat
      BY <1>1, <1>3
    <2> HIDE DEF received
    <2>2. received # <<>>
      BY <2>1
    <2>3. Tail(received) \in Seq(Outbox!Receipt) /\ Len(Tail(received)) = Len(received) - 1
      BY <2>1, <2>2
    <2> QED
      BY <1>1, <2>1, <2>3
  <1>6. left \in Seq(QueueEntry) /\ Len(left) <= Len(file.pending) /\ LeftOf(left, file.pending) /\ Len(left) \in Nat
    BY <1>1, WithoutIs DEF left
  <1> HIDE DEF kept
  <1>7. [pending |-> left, received |-> kept, validated |-> named \cap Outbox!Range(kept)] \in QueueFile
    BY <1>4, <1>5, <1>6 DEF QueueFile
  <1>8. Len(left) <= MaxPending
    BY <1>1, <1>6
  <1> QED
    BY <1>2, <1>5, <1>6, <1>7, <1>8 DEF left

LEMMA ReceiptKeeps ==
    ASSUME Serial, NEW r \in wire, Acts(r.from), Outbox!ReceiptArrives(r)
    PROVE  Serial'
  <1>1. /\ file' = Outbox!Recorded(work.sending, r.answer = "validated")
        /\ work' = [work EXCEPT !.sending = Nothing]
        /\ wire' \subseteq wire /\ UNCHANGED <<service, apple, elsewhere>> /\ work.sending # Nothing
    BY ActsBecomes DEF Outbox!ReceiptArrives, Outbox!Answers, Outbox!Sending, Acts
  <1>2. work \in Submission /\ apple \in Nat /\ work.counter <= apple
    BY PendingFacts
  <1>3. DrainShape(work, file.pending)
    BY DEF Serial
  <1>4. work.sending \in QueueEntry
    BY <1>1, <1>2 DEF Submission
  <1>5. /\ file' \in QueueFile /\ Len(file'.pending) <= MaxPending /\ Len(file'.received) <= MaxReceived
        /\ file'.validated \subseteq Outbox!Range(file'.received) /\ LeftOf(file'.pending, file.pending)
    BY <1>1, <1>4, FileFacts, RecordedIs
  <1>6. /\ work' \in Submission /\ work'.job = work.job /\ work'.counter = work.counter /\ work'.todo = work.todo /\ work'.sending = Nothing
        /\ work'.endpoint = work.endpoint /\ work'.hash = work.hash
    <2>1. work' = [work EXCEPT !.sending = Nothing]
      BY <1>1
    <2> QED
      BY <1>2, <2>1 DEF Submission
  <1>7. work.todo = <<>> /\ work.job \in Outbox!Drains
    BY <1>1, <1>3 DEF DrainShape
  <1>8. work.job # "enqueue" /\ DrainShape(work', file'.pending)
    <2>1. work.job \notin {"idle", "path", "prove", "enqueue"}
      BY <1>7 DEF Outbox!Drains
    <2> QED
      BY <1>3, <1>6, <1>7, <2>1 DEF DrainShape
  <1> QED
    BY <1>1, <1>2, <1>5, <1>6, <1>8, QueueKeeps

\* A backoff passes: the queue is rewritten in place.
LEMMA BackoffIs ==
    ASSUME file \in QueueFile, NEW i, Outbox!BackoffPasses(i)
    PROVE  /\ file' \in QueueFile /\ file'.received = file.received /\ file'.validated = file.validated
           /\ Len(file'.pending) = Len(file.pending) /\ DOMAIN file'.pending = DOMAIN file.pending
           /\ \A k \in DOMAIN file.pending :
                 SameEntry(file'.pending[k], file.pending[k]) /\ file'.pending[k].rejected = file.pending[k].rejected
           /\ LeftOf(file'.pending, file.pending)
  <1> DEFINE queue == file.pending
             new == [queue EXCEPT ![i].due = TRUE]
  <1>1. i \in DOMAIN queue /\ file' = [file EXCEPT !.pending = new]
    BY DEF Outbox!BackoffPasses
  <1>2. queue \in Seq(QueueEntry)
    BY DEF QueueFile
  <1>3. \A k \in DOMAIN queue : queue[k] \in QueueEntry
    BY <1>2
  <1> HIDE DEF queue
  <1>4. /\ DOMAIN new = DOMAIN queue
        /\ \A k \in DOMAIN queue : new[k] \in QueueEntry /\ SameEntry(new[k], queue[k]) /\ new[k].rejected = queue[k].rejected
    <2>1. DOMAIN new = DOMAIN queue /\ new[i] = [queue[i] EXCEPT !.due = TRUE] /\ \A k \in DOMAIN queue : k # i => new[k] = queue[k]
      BY <1>1
    <2> HIDE DEF new
    <2>2. new[i] \in QueueEntry /\ SameEntry(new[i], queue[i]) /\ new[i].rejected = queue[i].rejected
      BY <1>1, <1>3, <2>1 DEF QueueEntry, Outbox!Entry, SameEntry
    <2> QED
      BY <1>3, <2>1, <2>2 DEF SameEntry
  <1>5. new \in Seq(QueueEntry) /\ Len(new) = Len(queue)
    <2>0. new = [k \in DOMAIN queue |-> new[k]]
      BY Zenon
    <2>1. new = [k \in 1 .. Len(queue) |-> new[k]] /\ Len(queue) \in Nat
      <3>1. DOMAIN queue = 1 .. Len(queue) /\ Len(queue) \in Nat
        BY <1>2
      <3> HIDE DEF new
      <3> QED
        BY <2>0, <3>1
    <2> HIDE DEF new
    <2>2. \A k \in 1 .. Len(queue) : new[k] \in QueueEntry
      BY <1>2, <1>4
    <2> QED
      BY <2>1, <2>2
  <1> HIDE DEF new
  <1>6. LeftOf(new, queue)
    BY <1>2, <1>4, <1>5, LeftInPlace
  <1>7. file' \in QueueFile /\ file'.pending = new /\ file'.received = file.received /\ file'.validated = file.validated
    BY <1>1, <1>5 DEF QueueFile
  <1> QED
    BY <1>4, <1>5, <1>6, <1>7 DEF queue

LEMMA BackoffKeeps ==
    ASSUME Serial, NEW i, Outbox!BackoffPasses(i)
    PROVE  Serial'
  <1> DEFINE queue == file.pending
             new == file'.pending
  <1>1. UNCHANGED <<work, wire, service, apple, elsewhere>>
    BY DEF Outbox!BackoffPasses, work
  <1>2. /\ file' \in QueueFile /\ file'.received = file.received /\ file'.validated = file.validated
        /\ Len(new) = Len(queue) /\ DOMAIN new = DOMAIN queue /\ LeftOf(new, queue)
        /\ \A k \in DOMAIN queue : SameEntry(new[k], queue[k]) /\ new[k].rejected = queue[k].rejected
    BY PendingFacts, BackoffIs
  <1>3. work \in Submission /\ work.counter <= apple /\ DrainShape(work, queue)
    BY PendingFacts DEF Serial
  <1> HIDE DEF queue, new
  <1>4. \A x : MatchIn(queue, x) => MatchIn(new, x)
    BY <1>2 DEF MatchIn, SameEntry
  <1>5. \A e : NoneWaits(queue, e) => NoneWaits(new, e)
    BY <1>2 DEF NoneWaits, SameEntry
  <1>6. DrainShape(work, new)
    BY <1>3, <1>4, <1>5 DEF DrainShape
  <1>7. Len(new) <= MaxPending /\ Len(file'.received) <= MaxReceived /\ file'.validated \subseteq Outbox!Range(file'.received)
    BY <1>2, FileFacts DEF queue
  <1> QED
    BY <1>1, <1>2, <1>3, <1>6, <1>7, QueueKeeps DEF queue, new

LEMMA ServiceFacts ==
    ASSUME Serial, NEW e \in Endpoints
    PROVE  service \in [Endpoints -> Served] /\ service[e] \in Served /\ service[e].counter \in Nat /\ service[e].counter <= apple
  <1>1. service \in [Endpoints -> Served] /\ service[e].counter <= apple
    BY DEF Serial, OutboxTyped, Counted
  <1>2. service[e] \in Served
    BY <1>1
  <1> QED
    BY <1>1, <1>2 DEF Served

LEMMA EntryFacts ==
    ASSUME Serial
    PROVE  /\ \A i \in DOMAIN file.pending :
                 /\ file.pending[i] \in QueueEntry /\ file.pending[i].endpoint \in Endpoints
                 /\ file.pending[i].counter \in Nat /\ file.pending[i].counter <= apple
           /\ \A r \in wire : r \in Outbox!Request /\ r.counter \in Nat /\ r.counter <= apple /\ r.endpoint \in Endpoints
  <1>1. file.pending \in Seq(QueueEntry)
    BY PendingFacts
  <1>2. \A i \in DOMAIN file.pending : file.pending[i] \in QueueEntry
    BY <1>1
  <1>3. \A i \in DOMAIN file.pending : file.pending[i].endpoint \in Endpoints /\ file.pending[i].counter \in Nat
    BY <1>2 DEF QueueEntry, Outbox!Entry
  <1>4. \A r \in wire : r \in Outbox!Request
    BY DEF Serial, OutboxTyped
  <1>5. \A r \in wire : r.counter \in Nat /\ r.endpoint \in Endpoints
    BY <1>4 DEF Outbox!Request
  <1> QED
    BY <1>2, <1>3, <1>4, <1>5 DEF Serial, Counted

\* An assertion is made: it is later than all others, and a service that sees it
\* has nothing of this queue waiting, or it was made by another screen.
LEMMA AssertionMade ==
    ASSUME Serial, UNCHANGED <<file, wire>>, apple' = apple + 1, NEW e \in Endpoints,
           UNCHANGED service \/ service' = [service EXCEPT ![e].counter = apple'],
           elsewhere' \in Nat, elsewhere' = 0 => elsewhere = 0 /\ NoneWaits(file.pending, e),
           work' \in Submission, work'.counter <= apple', DrainShape(work', file.pending),
           work'.job = "enqueue" =>
               /\ \A r \in wire : r.counter < work'.counter
               /\ elsewhere' = 0 => service'[work'.endpoint].counter < work'.counter
    PROVE  Serial'
  <1>1. apple \in Nat /\ apple' \in Nat
    BY PendingFacts
  <1>2. service \in [Endpoints -> Served]
    BY ServiceFacts
  <1>3. /\ service' \in [Endpoints -> Served] /\ service'[e].counter \in Nat /\ service'[e].counter <= apple' /\ service'[e].taken = service[e].taken
        /\ \A o \in Endpoints : o # e => service'[o] = service[o]
    <2>1. CASE UNCHANGED service
      BY <1>1, <2>1, ServiceFacts
    <2>2. CASE service' = [service EXCEPT ![e].counter = apple']
      <3>1. service[e] \in Served
        BY ServiceFacts
      <3> DEFINE s == [service[e] EXCEPT !.counter = apple']
      <3>2. s \in Served /\ s.counter = apple' /\ s.taken = service[e].taken
        BY <1>1, <3>1 DEF Served
      <3>3. service' = [service EXCEPT ![e] = s]
        BY <1>2, <2>2
      <3> HIDE DEF s
      <3> QED
        BY <1>1, <1>2, <3>2, <3>3
    <2> QED
      BY <2>1, <2>2
  <1>4. OutboxTyped'
    BY <1>1, <1>3 DEF Serial, OutboxTyped
  <1>5. Counted'
    <2>1. \A o \in Endpoints : service'[o].counter <= apple'
      <3> SUFFICES ASSUME NEW o \in Endpoints, o # e PROVE service'[o].counter <= apple'
        BY <1>3
      <3>1. service'[o] = service[o] /\ service[o].counter <= apple /\ service[o].counter \in Nat
        BY <1>3, ServiceFacts
      <3> QED
        BY <1>1, <3>1
    <2>2. (\A r \in wire : r.counter <= apple') /\ (\A i \in DOMAIN file.pending : file.pending[i].counter <= apple')
      BY <1>1, EntryFacts
    <2> QED
      BY <2>1, <2>2 DEF Counted
  <1>6. Honest'
    <2>1. \A r \in wire : r.endpoint \in Endpoints
      BY EntryFacts
    <2> QED
      BY <1>3, <2>1 DEF Serial, Honest
  <1>7. InOrder'
    BY DEF Serial, InOrder
  <1>8. Ahead'
    <2> SUFFICES ASSUME elsewhere' = 0 PROVE Outbox!NeverOvertaken'
      BY DEF Ahead
    <2> SUFFICES ASSUME NEW i \in DOMAIN file.pending, ~file.pending[i].rejected
                 PROVE  LET x == file.pending[i] IN service'[x.endpoint].counter < x.counter \/ x.hash \in service'[x.endpoint].taken
      BY DEF Outbox!NeverOvertaken
    <2>1. file.pending[i].endpoint \in Endpoints /\ file.pending[i].endpoint # e
      BY EntryFacts DEF NoneWaits
    <2>2. LET x == file.pending[i] IN service[x.endpoint].counter < x.counter \/ x.hash \in service[x.endpoint].taken
      BY DEF Serial, Ahead, Outbox!NeverOvertaken
    <2> QED
      BY <1>3, <2>1, <2>2
  <1> QED
    BY <1>4, <1>5, <1>6, <1>7, <1>8 DEF Serial, Outbox!OutboxConstants

LEMMA AssertElsewhereKeeps ==
    ASSUME Serial, NEW e \in Endpoints, Outbox!AssertElsewhere(e)
    PROVE  Serial'
  <1>1. /\ elsewhere' = elsewhere + 1 /\ apple' = apple + 1 /\ service' = [service EXCEPT ![e].counter = apple']
        /\ UNCHANGED <<file, work, wire>>
    BY DEF Outbox!AssertElsewhere, Outbox!MakeAssertion, work
  <1>2. elsewhere \in Nat /\ elsewhere' \in Nat /\ elsewhere' # 0
    BY <1>1 DEF Serial, OutboxTyped
  <1>3. work' \in Submission /\ work'.counter <= apple' /\ DrainShape(work', file.pending)
    BY <1>1, PendingFacts DEF Serial
  <1>4. work'.job = "enqueue" => \A r \in wire : r.counter < work'.counter
    BY <1>1 DEF Serial, InOrder
  <1> QED
    BY <1>1, <1>2, <1>3, <1>4, AssertionMade

LEMMA RefreshKeeps ==
    ASSUME Serial, NEW s, Acts(s), Outbox!RefreshPath(s)
    PROVE  Serial'
  <1> DEFINE e == work.endpoint
  <1>1. /\ work.job = "path" /\ apple' = apple + 1 /\ UNCHANGED <<file, wire, elsewhere>>
        /\ UNCHANGED service \/ service' = [service EXCEPT ![e].counter = apple']
        /\ work' = [work EXCEPT !.job = "prove"] \/ work' = Outbox!Idle
    <2>1. /\ models[s].job = "path" /\ apple' = apple + 1 /\ UNCHANGED <<file, wire, elsewhere>>
          /\ UNCHANGED service \/ service' = [service EXCEPT ![models[s].endpoint].counter = apple']
          /\ Outbox!Becomes(s, [models[s] EXCEPT !.job = "prove"]) \/ Outbox!Becomes(s, Outbox!Idle)
      BY DEF Outbox!RefreshPath, Outbox!MakeAssertion, Outbox!PathRefreshed
    <2>2. work = models[s]
      BY DEF Acts
    <2> QED
      BY <2>1, <2>2, ActsBecomes
  <1>2. DrainShape(work, file.pending) /\ work \in Submission /\ apple \in Nat /\ work.counter \in Nat /\ work.counter <= apple
    BY PendingFacts DEF Serial
  <1>3. e \in Endpoints /\ NoneWaits(file.pending, e)
    BY <1>1, <1>2 DEF DrainShape
  <1>4. work' \in Submission /\ work'.counter <= apple' /\ DrainShape(work', file.pending) /\ work'.job # "enqueue"
    <2>1. CASE work' = [work EXCEPT !.job = "prove"]
      <3>1. /\ work' \in Submission /\ work'.job = "prove" /\ work'.counter = work.counter /\ work'.todo = work.todo
            /\ work'.sending = work.sending /\ work'.endpoint = work.endpoint /\ work'.hash = work.hash
        <4>1. work \in Submission
          BY <1>2
        <4> QED
          BY <2>1, <4>1 DEF Submission, Outbox!Jobs
      <3>2. work.todo = <<>> /\ work.sending = Nothing /\ work.hash \in Hashes
        BY <1>1, <1>2 DEF DrainShape, Outbox!Drains
      <3>3. DrainShape(work', file.pending)
        BY <1>3, <3>1, <3>2 DEF DrainShape
      <3> QED
        BY <1>1, <1>2, <3>1, <3>3
    <2>2. CASE work' = Outbox!Idle
      <3>1. Resting(work')
        BY <2>2, IdleRests
      <3>2. DrainShape(work', file.pending)
        BY <3>1, RestingShape
      <3> QED
        BY <1>1, <1>2, <3>1, <3>2 DEF Resting
    <2> QED
      BY <1>1, <2>1, <2>2
  <1>5. elsewhere' \in Nat /\ (elsewhere' = 0 => elsewhere = 0)
    BY <1>1 DEF Serial, OutboxTyped
  <1> HIDE DEF e
  <1> QED
    BY <1>1, <1>3, <1>4, <1>5, AssertionMade

LEMMA ProveKeeps ==
    ASSUME Serial, NEW s, Acts(s), Outbox!Prove(s)
    PROVE  Serial'
  <1>1. /\ work.job = "prove" /\ apple' = apple + 1 /\ UNCHANGED <<file, wire, service, elsewhere>>
        /\ work' = [work EXCEPT !.job = "enqueue", !.counter = apple']
    BY ActsBecomes DEF Outbox!Prove, Outbox!MakeAssertion, Acts
  <1>2. DrainShape(work, file.pending) /\ work \in Submission /\ apple \in Nat
    BY PendingFacts DEF Serial
  <1>3. work.endpoint \in Endpoints /\ NoneWaits(file.pending, work.endpoint) /\ work.todo = <<>> /\ work.sending = Nothing /\ work.hash \in Hashes
    BY <1>1, <1>2 DEF DrainShape, Outbox!Drains
  <1>4. /\ work' \in Submission /\ work'.job = "enqueue" /\ work'.counter = apple' /\ work'.todo = work.todo
        /\ work'.sending = work.sending /\ work'.endpoint = work.endpoint /\ work'.hash = work.hash
    <2>1. work \in Submission /\ apple' \in Nat
      BY <1>1, <1>2
    <2>2. work' = [work EXCEPT !.job = "enqueue", !.counter = apple']
      BY <1>1
    <2> QED
      BY <2>1, <2>2 DEF Submission, Outbox!Jobs
  <1>5. DrainShape(work', file.pending)
    BY <1>3, <1>4 DEF DrainShape
  <1>6. \A r \in wire : r.counter < work'.counter
    BY <1>1, <1>2, <1>4, EntryFacts
  <1>7. service'[work'.endpoint].counter < work'.counter
    <2>1. service[work.endpoint].counter \in Nat /\ service[work.endpoint].counter <= apple
      BY <1>3, ServiceFacts
    <2> QED
      BY <1>1, <1>2, <1>4, <2>1
  <1>8. elsewhere' \in Nat /\ (elsewhere' = 0 => elsewhere = 0) /\ work'.counter <= apple'
    BY <1>1, <1>2, <1>4 DEF Serial, OutboxTyped
  <1> QED
    BY <1>1, <1>3, <1>4, <1>5, <1>6, <1>7, <1>8, AssertionMade

\* What enqueue writes: the queue as it was, or with the new entry at its end.
LEMMA EnqueuedIs ==
    ASSUME FileSound(file), NEW e \in Endpoints, NEW h \in Hashes, NEW counter \in Nat
    PROVE  LET new == Outbox!Enqueued(e, h, counter) IN
           /\ new \in QueueFile /\ Once(new.pending) /\ new.received = file.received /\ new.validated = file.validated
           /\ \A i \in DOMAIN file.pending : i \in DOMAIN new.pending /\ new.pending[i] = file.pending[i]
           /\ \A i \in DOMAIN new.pending :
                  \/ i \in DOMAIN file.pending /\ new.pending[i] = file.pending[i]
                  \/ /\ i = Len(file.pending) + 1
                     /\ new.pending[i].endpoint = e /\ new.pending[i].hash = h /\ new.pending[i].counter = counter
  <1> DEFINE queue == file.pending
             new == Outbox!Enqueued(e, h, counter)
  <1>1. queue \in Seq(QueueEntry) /\ Once(queue) /\ file \in QueueFile
    BY DEF FileSound, QueueFile
  <1>2. CASE Outbox!InQueue(e, h)
    <2>1. new = file
      BY <1>2 DEF Outbox!Enqueued
    <2> QED
      BY <1>1, <2>1
  <1>3. CASE ~Outbox!InQueue(e, h)
    <2> DEFINE x == [endpoint |-> e, hash |-> h, counter |-> counter, due |-> TRUE, rejected |-> FALSE]
               left == Append(queue, x)
    <2>1. new = [file EXCEPT !.pending = left]
      BY <1>3 DEF Outbox!Enqueued
    <2>2. x \in QueueEntry /\ x.endpoint = e /\ x.hash = h /\ x.counter = counter
      BY DEF QueueEntry, Outbox!Entry
    <2> HIDE DEF x
    <2>3. /\ left \in Seq(QueueEntry) /\ DOMAIN left = 1 .. (Len(queue) + 1) /\ left[Len(queue) + 1] = x
          /\ DOMAIN queue = 1 .. Len(queue) /\ Len(queue) \in Nat
          /\ \A i \in DOMAIN queue : left[i] = queue[i]
      BY <1>1, <2>2
    <2> HIDE DEF left
    <2>4. \A i \in DOMAIN left : (i \in DOMAIN queue /\ left[i] = queue[i]) \/ (i = Len(queue) + 1 /\ left[i] = x)
      <3> SUFFICES ASSUME NEW i \in 1 .. (Len(queue) + 1)
                   PROVE  i \in 1 .. Len(queue) \/ i = Len(queue) + 1
        BY <2>3
      <3> QED
        BY <2>3
    <2>5. new \in QueueFile /\ new.pending = left /\ new.received = file.received /\ new.validated = file.validated
      <3>1. left \in Seq(QueueEntry) /\ file \in QueueFile
        BY <1>1, <2>3
      <3> QED
        BY <2>1, <3>1 DEF QueueFile
    <2>6. \A i \in DOMAIN queue : ~(queue[i].endpoint = e /\ queue[i].hash = h)
      BY <1>3 DEF Outbox!InQueue
    <2>7. Once(left)
      BY <1>1, <2>2, <2>4, <2>6 DEF Once
    <2>8. \A i \in DOMAIN queue : i \in DOMAIN left
      BY <2>3
    <2> HIDE DEF new
    <2>9. /\ new \in QueueFile /\ Once(new.pending) /\ new.received = file.received /\ new.validated = file.validated
          /\ \A i \in DOMAIN file.pending : i \in DOMAIN new.pending /\ new.pending[i] = file.pending[i]
      BY <2>3, <2>5, <2>7, <2>8
    <2>10. \A i \in DOMAIN new.pending :
              \/ i \in DOMAIN file.pending /\ new.pending[i] = file.pending[i]
              \/ /\ i = Len(file.pending) + 1
                 /\ new.pending[i].endpoint = e /\ new.pending[i].hash = h /\ new.pending[i].counter = counter
      BY <2>2, <2>4, <2>5
    <2> QED
      BY <2>9, <2>10 DEF new
  <1> QED
    BY <1>2, <1>3

\* The new entry goes to the end of a queue that has nothing waiting for its service.
LEMMA EnqueueKeeps ==
    ASSUME Serial, NEW s, Acts(s), Outbox!Enqueue(s)
    PROVE  Serial'
  <1> DEFINE e == work.endpoint
             queue == file.pending
             new == Outbox!Enqueued(e, work.hash, work.counter)
             todo == Outbox!Waiting(new.pending, e)
  <1>1. /\ work.job = "enqueue" /\ UNCHANGED <<wire, service, apple, elsewhere>>
        /\ \/ work' = Outbox!Idle /\ UNCHANGED file
           \/ /\ ~(Len(new.pending) > MaxPending)
              /\ file' = new /\ work' = [work EXCEPT !.job = "drainNew", !.todo = todo]
    <2>1. work = models[s]
      BY DEF Acts
    <2>2. /\ work.job = "enqueue" /\ UNCHANGED <<wire, service, apple, elsewhere>>
          /\ \/ Outbox!Becomes(s, Outbox!Idle) /\ UNCHANGED file
             \/ /\ ~(Len(new.pending) > MaxPending)
                /\ file' = new /\ Outbox!Becomes(s, [work EXCEPT !.job = "drainNew", !.todo = todo])
      BY <2>1 DEF Outbox!Enqueue
    <2> HIDE DEF new, todo
    <2> QED
      BY <2>2, ActsBecomes
  <1>2. DrainShape(work, queue) /\ work \in Submission /\ apple \in Nat /\ work.counter \in Nat /\ work.counter <= apple
    BY PendingFacts DEF Serial
  <1>3. e \in Endpoints /\ NoneWaits(queue, e) /\ work.todo = <<>> /\ work.sending = Nothing /\ work.hash \in Hashes
    BY <1>1, <1>2 DEF DrainShape, Outbox!Drains
  <1>4. queue \in Seq(QueueEntry) /\ Single(queue) /\ Once(queue) /\ file \in QueueFile
    BY PendingFacts
  <1>5. CASE work' = Outbox!Idle /\ UNCHANGED file
    BY <1>1, <1>5, IdleRests, SubmissionRests
  <1>6. ASSUME ~(Len(new.pending) > MaxPending), file' = new, work' = [work EXCEPT !.job = "drainNew", !.todo = todo],
               new \in QueueFile, Once(new.pending), Single(new.pending), new.received = file.received, new.validated = file.validated,
               \A i \in DOMAIN new.pending :
                   \/ i \in DOMAIN queue /\ new.pending[i] = queue[i]
                   \/ /\ new.pending[i].endpoint = e /\ new.pending[i].hash = work.hash /\ new.pending[i].counter = work.counter
        PROVE  Serial'
    <2>1. new.pending \in Seq(QueueEntry) /\ Len(new.pending) \in Nat
      BY <1>6 DEF QueueFile
    <2>2. todo \in Seq(QueueEntry)
      BY <1>6, <2>1, WaitingIs
    <2> DEFINE left == new.pending
    <2>3. /\ work' \in Submission /\ work'.job = "drainNew" /\ work'.todo = todo /\ work'.endpoint = e /\ work'.hash = work.hash
          /\ work'.counter = work.counter /\ work'.sending = Nothing
      <3>1. work \in Submission /\ work.sending = Nothing
        BY <1>2, <1>3
      <3>2. work' = [work EXCEPT !.job = "drainNew", !.todo = todo]
        BY <1>6
      <3> HIDE DEF todo
      <3> QED
        BY <2>2, <3>1, <3>2 DEF Submission, Outbox!Jobs, Outbox!Drains
    <2> HIDE DEF new
    <2>4. DrainShape(work', left)
      BY <1>3, <1>6, <2>1, <2>3, DrainStarts DEF Outbox!Drains
    <2>5. OutboxTyped'
      <3>1. Len(left) <= MaxPending
        BY <1>6, <2>1, FileFacts
      <3> QED
        BY <1>1, <1>6, <2>3, <3>1 DEF Serial, OutboxTyped
    <2>6. file'.validated \subseteq Outbox!Range(file'.received)
      BY <1>6, FileFacts
    <2>7. Counted'
      <3>1. \A i \in DOMAIN left : left[i].counter <= apple
        BY <1>2, <1>6, EntryFacts
      <3> QED
        BY <1>1, <1>2, <1>6, <2>3, <3>1 DEF Serial, Counted
    <2>8. Honest'
      BY <1>1 DEF Serial, Honest
    <2>9. InOrder'
      <3>1. ASSUME NEW r \in wire, NEW i \in DOMAIN left, r.endpoint = left[i].endpoint, ~left[i].rejected
            PROVE  r.counter <= left[i].counter /\ (r.counter = left[i].counter => r.hash = left[i].hash)
        <4>1. CASE i \in DOMAIN queue /\ left[i] = queue[i]
          BY <3>1, <4>1 DEF Serial, InOrder
        <4>2. CASE left[i].counter = work.counter
          <5>1. r.counter < work.counter
            BY <1>1 DEF Serial, InOrder
          <5>2. r.counter \in Nat
            BY EntryFacts
          <5> QED
            BY <1>2, <4>2, <5>1, <5>2
        <4> QED
          BY <1>6, <4>1, <4>2
      <3> QED
        BY <1>1, <1>6, <2>3, <3>1 DEF InOrder
    <2>10. Ahead'
      <3> SUFFICES ASSUME elsewhere = 0, NEW i \in DOMAIN left, ~left[i].rejected
                   PROVE  LET x == left[i] IN service[x.endpoint].counter < x.counter \/ x.hash \in service[x.endpoint].taken
        BY <1>1, <1>6, <2>3 DEF Ahead, Outbox!NeverOvertaken
      <3>1. CASE i \in DOMAIN queue /\ left[i] = queue[i]
        BY <3>1 DEF Serial, Ahead, Outbox!NeverOvertaken
      <3>2. CASE left[i].endpoint = e /\ left[i].counter = work.counter
        <4>1. service[e].counter < work.counter
          BY <1>1 DEF Serial, Ahead
        <4> QED
          BY <3>2, <4>1
      <3> QED
        BY <1>6, <3>1, <3>2
    <2> QED
      BY <1>6, <2>4, <2>5, <2>6, <2>7, <2>8, <2>9, <2>10 DEF Serial, Outbox!OutboxConstants
  <1>7. /\ new \in QueueFile /\ Once(new.pending) /\ Single(new.pending) /\ new.received = file.received /\ new.validated = file.validated
        /\ \A i \in DOMAIN new.pending :
               \/ i \in DOMAIN queue /\ new.pending[i] = queue[i]
               \/ /\ new.pending[i].endpoint = e /\ new.pending[i].hash = work.hash /\ new.pending[i].counter = work.counter
    <2>1. /\ new \in QueueFile /\ Once(new.pending) /\ new.received = file.received /\ new.validated = file.validated
          /\ \A i \in DOMAIN new.pending :
                 \/ i \in DOMAIN queue /\ new.pending[i] = queue[i]
                 \/ /\ i = Len(queue) + 1
                    /\ new.pending[i].endpoint = e /\ new.pending[i].hash = work.hash /\ new.pending[i].counter = work.counter
      BY <1>2, <1>3, FileFacts, EnqueuedIs
    <2> HIDE DEF new
    <2>2. Single(new.pending)
      BY <1>3, <1>4, <2>1 DEF Single, NoneWaits
    <2> QED
      BY <2>1, <2>2
  <1> HIDE DEF new, todo
  <1> QED
    BY <1>1, <1>5, <1>6, <1>7

\* The head of the drain is sent: it is in the queue, which has no other of its
\* service waiting.
LEMMA SendKeepsOrder ==
    ASSUME Serial, NEW s, Acts(s), Outbox!Send(s)
    PROVE  Serial'
  <1> DEFINE x == Head(work.todo)
             request == [from |-> s, endpoint |-> x.endpoint, hash |-> x.hash, counter |-> x.counter, answer |-> Nothing]
  <1>1. /\ work.job \in Outbox!Drains /\ work.sending = Nothing /\ work.todo # <<>>
        /\ work' = [work EXCEPT !.sending = x, !.todo = Tail(work.todo)]
        /\ wire' = {r \in wire : r.from # s \/ r.answer = Nothing} \cup {request}
        /\ UNCHANGED <<file, service, apple, elsewhere>> /\ s \in Submitters
    <2>1. work = models[s] /\ s \in Submitters
      BY DEF Acts
    <2>2. /\ work.job \in Outbox!Drains /\ work.sending = Nothing /\ work.todo # <<>>
          /\ Outbox!Becomes(s, [work EXCEPT !.sending = x, !.todo = Tail(work.todo)])
          /\ wire' = {r \in wire : r.from # s \/ r.answer = Nothing} \cup {request}
          /\ UNCHANGED <<file, service, apple, elsewhere>>
      BY <2>1 DEF Outbox!Send, Outbox!Draining, Outbox!NextIsDue
    <2> HIDE DEF x, request
    <2> QED
      BY <2>1, <2>2, ActsBecomes
  <1>2. DrainShape(work, file.pending) /\ work \in Submission /\ apple \in Nat /\ work.counter <= apple
    BY PendingFacts DEF Serial
  <1>3. work.todo \in Seq(QueueEntry) /\ Len(work.todo) <= 1 /\ Nothing \notin QueueEntry /\ Nothing \notin {"received", "validated", "rejected"}
    BY <1>2 DEF DrainShape, Submission, Serial, Outbox!OutboxConstants, QueueEntry
  <1>4. x \in QueueEntry /\ Tail(work.todo) = <<>> /\ MatchIn(file.pending, x)
    <2> DEFINE todo == work.todo
    <2>1. todo \in Seq(QueueEntry) /\ Len(todo) <= 1 /\ todo # <<>> /\ \A i \in DOMAIN todo : MatchIn(file.pending, todo[i])
      BY <1>1, <1>2, <1>3 DEF DrainShape
    <2> HIDE DEF todo
    <2>2. Len(todo) = 1 /\ 1 \in DOMAIN todo
      <3>1. todo \in Seq(QueueEntry) /\ todo # <<>> /\ Len(todo) <= 1
        BY <2>1
      <3>2. Len(todo) \in Nat /\ Len(todo) # 0 /\ DOMAIN todo = 1 .. Len(todo)
        BY <3>1
      <3> QED
        BY <3>1, <3>2
    <2>3. Head(todo) = todo[1] /\ todo[1] \in QueueEntry /\ Tail(todo) = <<>>
      <3>1. todo \in Seq(QueueEntry) /\ todo # <<>>
        BY <2>1
      <3>2. Tail(todo) \in Seq(QueueEntry) /\ Len(Tail(todo)) = Len(todo) - 1
        BY <3>1
      <3>3. Tail(todo) = <<>>
        <4> DEFINE t == Tail(todo)
        <4>1. t \in Seq(QueueEntry) /\ Len(t) = 0
          BY <2>2, <3>2
        <4> HIDE DEF t
        <4>2. t = <<>>
          BY <4>1
        <4> QED
          BY <4>2 DEF t
      <3> QED
        BY <2>2, <3>1, <3>3
    <2> QED
      BY <2>1, <2>2, <2>3 DEF todo
  <1> DEFINE rest == Tail(work.todo)
  <1>5. rest = <<>> /\ rest \in Seq(QueueEntry)
    <2>1. <<>> \in Seq(QueueEntry)
      OBVIOUS
    <2> QED
      BY <1>4, <2>1, Zenon
  <1>6. request \in Outbox!Request /\ request.endpoint = x.endpoint /\ request.hash = x.hash /\ request.counter = x.counter /\ request.answer = Nothing
    <2>1. x \in QueueEntry /\ s \in Submitters
      BY <1>1, <1>4
    <2> HIDE DEF x
    <2> QED
      BY <2>1 DEF QueueEntry, Outbox!Entry, Outbox!Request
  <1>7. /\ work' \in Submission /\ work'.job = work.job /\ work'.todo = <<>> /\ work'.endpoint = work.endpoint /\ work'.hash = work.hash
        /\ work'.counter = work.counter /\ work'.sending = x
    <2>1. work \in Submission /\ x \in QueueEntry /\ rest = <<>> /\ rest \in Seq(QueueEntry)
      BY <1>2, <1>4, <1>5
    <2>2. work' = [work EXCEPT !.sending = x, !.todo = rest]
      BY <1>1
    <2> HIDE DEF x, rest
    <2> QED
      BY <2>1, <2>2 DEF Submission
  <1> HIDE DEF x, rest, request
  <1>8. PICK j \in DOMAIN file.pending : SameEntry(x, file.pending[j]) /\ ~file.pending[j].rejected
    BY <1>4 DEF MatchIn, SameEntry
  <1>9. DrainShape(work', file.pending) /\ work'.job \notin {"idle", "path", "prove", "enqueue"}
    BY <1>1, <1>2, <1>4, <1>7 DEF DrainShape, Outbox!Drains
  <1>10. \A r \in wire' : r = request \/ r \in wire
    BY <1>1
  <1>11. OutboxTyped'
    BY <1>1, <1>6, <1>7 DEF Serial, OutboxTyped
  <1>12. Counted'
    <2>1. request.counter <= apple
      BY <1>6, <1>8, EntryFacts DEF SameEntry
    <2> QED
      BY <1>1, <1>2, <1>7, <1>10, <2>1 DEF Serial, Counted
  <1>13. Honest'
    BY <1>1, <1>3, <1>6, <1>10 DEF Serial, Honest
  <1>14. InOrder'
    <2>1. ASSUME NEW i \in DOMAIN file.pending, request.endpoint = file.pending[i].endpoint, ~file.pending[i].rejected
          PROVE  /\ request.counter <= file.pending[i].counter
                 /\ request.counter = file.pending[i].counter => request.hash = file.pending[i].hash
      <3>1. i = j
        BY <1>6, <1>8, <2>1, PendingFacts DEF Single, SameEntry
      <3>2. file.pending[j].counter \in Nat
        BY EntryFacts
      <3> QED
        BY <1>6, <1>8, <3>1, <3>2 DEF SameEntry
    <2> QED
      BY <1>1, <1>9, <1>10, <2>1 DEF Serial, InOrder
  <1>15. Ahead'
    BY <1>1, <1>9 DEF Serial, Ahead, Outbox!NeverOvertaken
  <1> QED
    BY <1>1, <1>9, <1>11, <1>12, <1>13, <1>14, <1>15 DEF Serial, Outbox!OutboxConstants

\* A service answers: what it takes was made no later than what waits for it.
LEMMA ServeKeeps ==
    ASSUME Serial, NEW r \in wire, Outbox!Serve(r)
    PROVE  Serial'
  <1> DEFINE e == r.endpoint
             s == service[e]
  <1>0. r \in Outbox!Request /\ r.counter \in Nat /\ r.counter <= apple /\ e \in Endpoints /\ r.hash \in Hashes
    <2>1. r \in Outbox!Request /\ r.counter \in Nat /\ r.counter <= apple /\ e \in Endpoints
      BY EntryFacts
    <2> QED
      BY <2>1 DEF Outbox!Request
  <1>1. PICK a \in {"received", "validated", "rejected"} :
            /\ wire' = (wire \ {r}) \cup {[r EXCEPT !.answer = a]}
            /\ UNCHANGED <<file, models, apple, elsewhere>>
            /\ \/ r.hash \in s.taken /\ UNCHANGED service
               \/ r.counter > s.counter /\ service' = [service EXCEPT ![e] = [counter |-> r.counter, taken |-> s.taken \cup {r.hash}]]
               \/ a = "rejected" /\ UNCHANGED service
    BY DEF Outbox!Serve
  <1>12. UNCHANGED work
    BY <1>1 DEF work
  <1> DEFINE answered == [r EXCEPT !.answer = a]
  <1>2. /\ answered \in Outbox!Request /\ answered.endpoint = e /\ answered.hash = r.hash /\ answered.counter = r.counter
        /\ answered.answer = a
    BY <1>0 DEF Outbox!Request
  <1>3. \A q \in wire' : q = answered \/ q \in wire
    BY <1>1
  <1> HIDE DEF answered
  <1>4. s \in Served /\ s.counter \in Nat /\ service \in [Endpoints -> Served] /\ s.taken \subseteq Hashes
    <2>1. s \in Served /\ s.counter \in Nat /\ service \in [Endpoints -> Served]
      BY <1>0, ServiceFacts
    <2> QED
      BY <2>1 DEF Served
  <1>5. /\ service' \in [Endpoints -> Served] /\ service'[e].counter \in Nat /\ service'[e].counter <= apple
        /\ s.taken \subseteq service'[e].taken /\ (a # "rejected" => r.hash \in service'[e].taken)
        /\ service'[e].counter = s.counter \/ (service'[e].counter = r.counter /\ r.hash \in service'[e].taken)
        /\ \A o \in Endpoints : o # e => service'[o] = service[o]
    <2>1. CASE UNCHANGED service /\ (r.hash \in s.taken \/ a = "rejected")
      BY <1>0, <1>4, <2>1, ServiceFacts
    <2>2. CASE service' = [service EXCEPT ![e] = [counter |-> r.counter, taken |-> s.taken \cup {r.hash}]]
      <3> DEFINE t == [counter |-> r.counter, taken |-> s.taken \cup {r.hash}]
      <3>1. t \in Served /\ t.counter = r.counter /\ t.taken = s.taken \cup {r.hash}
        BY <1>0, <1>4 DEF Served
      <3>2. service' = [service EXCEPT ![e] = t]
        BY <2>2
      <3> HIDE DEF t
      <3>3. service' \in [Endpoints -> Served] /\ service'[e] = t /\ \A o \in Endpoints : o # e => service'[o] = service[o]
        BY <1>0, <1>4, <3>1, <3>2
      <3> QED
        BY <1>0, <3>1, <3>3
    <2> QED
      BY <1>1, <2>1, <2>2
  <1>6. OutboxTyped'
    <2>1. wire' \subseteq Outbox!Request
      BY <1>2, <1>3, EntryFacts
    <2> QED
      BY <1>1, <1>5, <1>12, <2>1 DEF Serial, OutboxTyped
  <1>7. Counted'
    <2>1. \A q \in wire' : q.counter <= apple
      BY <1>0, <1>2, <1>3, EntryFacts
    <2>2. \A o \in Endpoints : service'[o].counter <= apple
      BY <1>5, ServiceFacts
    <2> QED
      BY <1>1, <1>12, <2>1, <2>2 DEF Serial, Counted
  <1>8. Honest'
    <2> SUFFICES ASSUME NEW q \in wire', q.answer \in {"received", "validated"} PROVE q.hash \in service'[q.endpoint].taken
      BY DEF Honest
    <2>1. CASE q = answered
      BY <1>2, <1>5, <2>1
    <2>2. CASE q \in wire
      <3>1. q.hash \in service[q.endpoint].taken /\ q.endpoint \in Endpoints
        BY <2>2, EntryFacts DEF Serial, Honest
      <3> QED
        BY <1>5, <3>1
    <2> QED
      BY <1>3, <2>1, <2>2
  <1>9. InOrder'
    <2>1. ASSUME NEW q \in wire' PROVE \E p \in wire : q.endpoint = p.endpoint /\ q.hash = p.hash /\ q.counter = p.counter
      BY <1>2, <1>3, <2>1
    <2> QED
      BY <1>1, <1>12, <2>1 DEF Serial, InOrder
  <1>10. Ahead'
    <2> SUFFICES ASSUME elsewhere = 0 PROVE Outbox!NeverOvertaken' /\ (work.job = "enqueue" => service'[work.endpoint].counter < work.counter)
      BY <1>1, <1>12 DEF Ahead
    <2>1. ASSUME NEW i \in DOMAIN file.pending, ~file.pending[i].rejected
          PROVE  LET x == file.pending[i] IN service'[x.endpoint].counter < x.counter \/ x.hash \in service'[x.endpoint].taken
      <3>1. LET x == file.pending[i] IN service[x.endpoint].counter < x.counter \/ x.hash \in service[x.endpoint].taken
        BY <2>1 DEF Serial, Ahead, Outbox!NeverOvertaken
      <3>2. file.pending[i].endpoint \in Endpoints /\ file.pending[i].counter \in Nat
        BY EntryFacts
      <3>3. CASE file.pending[i].endpoint # e
        BY <1>5, <3>1, <3>2, <3>3
      <3>4. CASE file.pending[i].endpoint = e
        <4>1. r.counter <= file.pending[i].counter /\ (r.counter = file.pending[i].counter => r.hash = file.pending[i].hash)
          BY <2>1, <3>4 DEF Serial, InOrder
        <4>2. CASE service'[e].counter = s.counter
          BY <1>5, <3>1, <3>4, <4>2
        <4>3. CASE service'[e].counter = r.counter /\ r.hash \in service'[e].taken
          BY <1>0, <3>2, <3>4, <4>1, <4>3
        <4> QED
          BY <1>5, <4>2, <4>3
      <3> QED
        BY <3>3, <3>4
    <2>2. ASSUME work.job = "enqueue" PROVE service'[work.endpoint].counter < work.counter
      <3>1. service[work.endpoint].counter < work.counter /\ r.counter < work.counter
        BY <2>2 DEF Serial, Ahead, InOrder
      <3>2. work.endpoint \in Endpoints
        BY <2>2 DEF Serial, DrainShape
      <3> QED
        BY <1>5, <3>1, <3>2
    <2> QED
      BY <1>1, <2>1, <2>2 DEF Outbox!NeverOvertaken
  <1> QED
    BY <1>1, <1>6, <1>7, <1>8, <1>9, <1>10, <1>12 DEF Serial, Outbox!OutboxConstants

-----------------------------------------------------------------------------
(* Whatever the screens do together: the file and each submission stay sound. *)

LEMMA SoundFacts ==
    ASSUME Sound
    PROVE  /\ FileSound(file) /\ file \in QueueFile /\ file.pending \in Seq(QueueEntry)
           /\ models \in [Submitters -> Submission] /\ \A s \in Submitters : models[s] \in Submission /\ Fits(models[s])
           /\ service \in [Endpoints -> Served] /\ apple \in Nat /\ elsewhere \in Nat /\ overlapped \in BOOLEAN
           /\ MaxPending \in Nat /\ MaxReceived \in Nat \ {0}
           /\ \A r \in wire : r \in Outbox!Request /\ r.from \in Submitters /\ r.endpoint \in Endpoints /\ r.hash \in Hashes /\ r.counter \in Nat
  <1>1. FileSound(file) /\ file \in QueueFile /\ file.pending \in Seq(QueueEntry)
    BY DEF Sound, FileSound, QueueFile
  <1>2. \A r \in wire : r \in Outbox!Request
    BY DEF Sound
  <1>3. \A r \in wire : r.from \in Submitters /\ r.endpoint \in Endpoints /\ r.hash \in Hashes /\ r.counter \in Nat
    BY <1>2 DEF Outbox!Request
  <1> QED
    BY <1>1, <1>2, <1>3 DEF Sound, Outbox!OutboxConstants

LEMMA FileLeft ==
    ASSUME FileSound(file), NEW f \in QueueFile, Len(f.pending) <= MaxPending, Len(f.received) <= MaxReceived,
           f.validated \subseteq Outbox!Range(f.received), LeftOf(f.pending, file.pending)
    PROVE  FileSound(f)
  BY LeftKeeps DEF FileSound

\* One screen's submission moves; file, wire and services are as they should be.
LEMMA SoundStep ==
    ASSUME Sound, NEW s \in Submitters, NEW m, Fits(m), Outbox!Becomes(s, m), FileSound(file'),
           wire' \subseteq Outbox!Request, service' \in [Endpoints -> Served],
           apple' \in Nat, elsewhere' \in Nat, overlapped' \in BOOLEAN, Honest'
    PROVE  Sound'
  <1>1. models \in [Submitters -> Submission] /\ \A t \in Submitters : Fits(models[t])
    BY DEF Sound
  <1>2. models' = [models EXCEPT ![s] = m] /\ m \in Submission
    BY DEF Outbox!Becomes, Fits
  <1>3. models' \in [Submitters -> Submission] /\ \A t \in Submitters : models'[t] = IF t = s THEN m ELSE models[t]
    BY <1>1, <1>2
  <1>4. \A t \in Submitters : Fits(models'[t])
    BY <1>1, <1>3
  <1> QED
    BY <1>3, <1>4 DEF Sound, Outbox!OutboxConstants

\* No submission moves.
LEMMA SoundAround ==
    ASSUME Sound, UNCHANGED models, FileSound(file'), wire' \subseteq Outbox!Request, service' \in [Endpoints -> Served],
           apple' \in Nat, elsewhere' \in Nat, overlapped' \in BOOLEAN, Honest'
    PROVE  Sound'
  BY DEF Sound, Outbox!OutboxConstants

LEMMA SoundMove ==
    ASSUME Sound, NEW s \in Submitters, NEW m, Fits(m), Outbox!Becomes(s, m), FileSound(file'), wire' \subseteq wire,
           UNCHANGED <<service, apple, elsewhere>>, overlapped' \in BOOLEAN
    PROVE  Sound'
  <1>1. Honest' /\ wire' \subseteq Outbox!Request
    BY DEF Sound, Honest
  <1>2. service' \in [Endpoints -> Served] /\ apple' \in Nat /\ elsewhere' \in Nat
    BY SoundFacts
  <1> QED
    BY <1>1, <1>2, SoundStep

LEMMA WaitingTyped ==
    ASSUME NEW queue \in Seq(QueueEntry), NEW e
    PROVE  Outbox!Waiting(queue, e) \in Seq(QueueEntry)
  <1> DEFINE entries == {x \in Outbox!Range(queue) : x.endpoint = e /\ ~x.rejected}
  <1>1. Outbox!Waiting(queue, e) = Outbox!Only(queue, entries)
    BY DEF Outbox!Waiting
  <1> HIDE DEF entries
  <1> QED
    BY <1>1, OnlyIs

LEMMA SoundBegins ==
    ASSUME Sound, NEW s \in Submitters, NEW e \in Endpoints, Outbox!Retry(s, e) \/ \E h \in Hashes : Outbox!Prepare(s, e, h)
    PROVE  Sound'
  <1> DEFINE todo == Outbox!Waiting(file.pending, e)
             idle == Outbox!Idle
             retry == [idle EXCEPT !.job = "drainRetry", !.endpoint = e, !.todo = todo]
             start(h) == [idle EXCEPT !.endpoint = e, !.hash = h]
             drain(h) == [start(h) EXCEPT !.job = "drainFirst", !.todo = todo]
             path(h) == [start(h) EXCEPT !.job = "path"]
  <1>1. todo \in Seq(QueueEntry) /\ idle \in Submission
    BY SoundFacts, WaitingTyped, IdleFits, SMTT(40)
  <1>2. /\ UNCHANGED <<file, wire, service, apple, elsewhere>> /\ overlapped' \in BOOLEAN
        /\ Outbox!Becomes(s, retry) \/ \E h \in Hashes : Outbox!Becomes(s, drain(h)) \/ Outbox!Becomes(s, path(h))
    <2>1. overlapped \in BOOLEAN
      BY SoundFacts
    <2> QED
      BY <2>1 DEF Outbox!Retry, Outbox!Prepare, Outbox!Begins, Outbox!Snapshot
  <1> HIDE DEF todo, idle
  <1>3. Fits(retry)
    BY <1>1 DEF Fits, Submission, Outbox!Jobs, Outbox!Drains
  <1>4. ASSUME NEW h \in Hashes PROVE Fits(drain(h)) /\ Fits(path(h))
    <2>1. start(h) \in Submission /\ start(h).endpoint = e /\ start(h).hash = h
      BY <1>1 DEF Submission
    <2> HIDE DEF start
    <2> QED
      BY <1>1, <2>1 DEF Fits, Submission, Outbox!Jobs, Outbox!Drains
  <1>5. FileSound(file')
    BY <1>2, SoundFacts
  <1> HIDE DEF retry, drain, path
  <1> QED
    BY <1>2, <1>3, <1>4, <1>5, SoundMove

LEMMA SoundStops ==
    ASSUME Sound, NEW s \in Submitters, Outbox!GivesUp(s) \/ Outbox!DrainEnds(s)
    PROVE  Sound'
  <1> DEFINE m == models[s]
             path == [m EXCEPT !.job = "path", !.todo = <<>>]
  <1>1. /\ UNCHANGED <<file, wire, service, apple, elsewhere, overlapped>>
        /\ \/ Outbox!Becomes(s, Outbox!Idle)
           \/ m.job = "drainFirst" /\ Outbox!Becomes(s, path)
    BY DEF Outbox!GivesUp, Outbox!DrainEnds
  <1>2. m \in Submission /\ Fits(m)
    BY SoundFacts
  <1>3. FileSound(file') /\ overlapped' \in BOOLEAN
    BY <1>1, SoundFacts
  <1> HIDE DEF m
  <1>4. ASSUME m.job = "drainFirst" PROVE Fits(path)
    <2>1. <<>> \in Seq(QueueEntry)
      OBVIOUS
    <2>2. m \in Submission /\ m.endpoint \in Endpoints /\ m.hash \in Hashes
      BY <1>2, <1>4 DEF Fits
    <2> QED
      BY <2>1, <2>2 DEF Fits, Submission, Outbox!Jobs
  <1> HIDE DEF path
  <1> QED
    BY <1>1, <1>3, <1>4, IdleFits, SoundMove

LEMMA SoundKilled ==
    ASSUME Sound, Outbox!Killed
    PROVE  Sound'
  <1>1. models' = [s \in Submitters |-> Outbox!Idle] /\ UNCHANGED <<file, wire, service, apple, elsewhere, overlapped>>
    BY DEF Outbox!Killed
  <1>2. models' \in [Submitters -> Submission] /\ \A s \in Submitters : Fits(models'[s])
    BY <1>1, IdleFits
  <1> QED
    BY <1>1, <1>2 DEF Sound, Honest, Outbox!OutboxConstants

\* A service that sees an assertion counts it and takes nothing.
LEMMA AssertionSeen ==
    ASSUME Sound, NEW e \in Endpoints, apple' \in Nat, UNCHANGED service \/ service' = [service EXCEPT ![e].counter = apple']
    PROVE  service' \in [Endpoints -> Served] /\ \A o \in Endpoints : service'[o].taken = service[o].taken
  <1>1. service \in [Endpoints -> Served] /\ service[e] \in Served
    BY SoundFacts
  <1>2. CASE service' = [service EXCEPT ![e].counter = apple']
    <2> DEFINE seen == [service[e] EXCEPT !.counter = apple']
    <2>1. seen \in Served /\ seen.taken = service[e].taken
      BY <1>1 DEF Served
    <2>2. service' = [service EXCEPT ![e] = seen]
      BY <1>1, <1>2
    <2> HIDE DEF seen
    <2> QED
      BY <1>1, <2>1, <2>2
  <1> QED
    BY <1>1, <1>2

LEMMA SoundAsserts ==
    ASSUME Sound, NEW s \in Submitters, Outbox!RefreshPath(s) \/ Outbox!Prove(s)
    PROVE  Sound'
  <1> DEFINE m == models[s]
             prove == [m EXCEPT !.job = "prove"]
             enqueue == [m EXCEPT !.job = "enqueue", !.counter = apple']
  <1>1. /\ m.job \in {"path", "prove"} /\ apple' = apple + 1 /\ UNCHANGED <<file, wire, elsewhere, overlapped>>
        /\ UNCHANGED service \/ service' = [service EXCEPT ![m.endpoint].counter = apple']
        /\ Outbox!Becomes(s, Outbox!Idle) \/ Outbox!Becomes(s, prove) \/ Outbox!Becomes(s, enqueue)
    <2>1. CASE Outbox!RefreshPath(s)
      BY <2>1 DEF Outbox!RefreshPath, Outbox!PathRefreshed, Outbox!MakeAssertion
    <2>2. CASE Outbox!Prove(s)
      BY <2>2 DEF Outbox!Prove, Outbox!MakeAssertion
    <2> QED
      BY <2>1, <2>2
  <1>2. m \in Submission /\ Fits(m) /\ apple' \in Nat
    BY <1>1, SoundFacts
  <1> HIDE DEF m
  <1>3. m.endpoint \in Endpoints /\ m.hash \in Hashes
    BY <1>1, <1>2 DEF Fits
  <1>4. Fits(prove) /\ Fits(enqueue)
    BY <1>2, <1>3 DEF Fits, Submission, Outbox!Jobs
  <1>5. service' \in [Endpoints -> Served] /\ \A o \in Endpoints : service'[o].taken = service[o].taken
    BY <1>1, <1>2, <1>3, AssertionSeen
  <1>6. Honest'
    BY <1>1, <1>5, SoundFacts DEF Sound, Honest
  <1>7. FileSound(file') /\ wire' \subseteq Outbox!Request /\ elsewhere' \in Nat /\ overlapped' \in BOOLEAN
    BY <1>1 DEF Sound
  <1> HIDE DEF prove, enqueue
  <1> QED
    BY <1>1, <1>2, <1>4, <1>5, <1>6, <1>7, IdleFits, SoundStep

LEMMA SoundElsewhere ==
    ASSUME Sound, NEW e \in Endpoints, Outbox!AssertElsewhere(e)
    PROVE  Sound'
  <1>1. /\ elsewhere' = elsewhere + 1 /\ apple' = apple + 1 /\ service' = [service EXCEPT ![e].counter = apple']
        /\ UNCHANGED <<file, models, wire, overlapped>>
    BY DEF Outbox!AssertElsewhere, Outbox!MakeAssertion
  <1>2. apple' \in Nat /\ elsewhere' \in Nat
    BY <1>1, SoundFacts
  <1>3. service' \in [Endpoints -> Served] /\ \A o \in Endpoints : service'[o].taken = service[o].taken
    BY <1>1, <1>2, AssertionSeen
  <1>4. Honest'
    BY <1>1, <1>3, SoundFacts DEF Sound, Honest
  <1>5. FileSound(file') /\ wire' \subseteq Outbox!Request /\ overlapped' \in BOOLEAN
    BY <1>1 DEF Sound
  <1> QED
    BY <1>1, <1>2, <1>3, <1>4, <1>5, SoundAround

LEMMA SoundEnqueue ==
    ASSUME Sound, NEW s \in Submitters, Outbox!Enqueue(s)
    PROVE  Sound'
  <1> DEFINE m == models[s]
             new == Outbox!Enqueued(m.endpoint, m.hash, m.counter)
             todo == Outbox!Waiting(new.pending, m.endpoint)
             drain == [m EXCEPT !.job = "drainNew", !.todo = todo]
  <1>1. /\ m.job = "enqueue" /\ UNCHANGED <<wire, service, apple, elsewhere, overlapped>>
        /\ \/ Outbox!Becomes(s, Outbox!Idle) /\ UNCHANGED file
           \/ ~(Len(new.pending) > MaxPending) /\ file' = new /\ Outbox!Becomes(s, drain)
    BY DEF Outbox!Enqueue
  <1>2. m \in Submission /\ Fits(m) /\ FileSound(file)
    BY SoundFacts
  <1> HIDE DEF m
  <1>3. m.endpoint \in Endpoints /\ m.hash \in Hashes /\ m.counter \in Nat
    BY <1>1, <1>2 DEF Fits, Submission
  <1>4. /\ new \in QueueFile /\ Once(new.pending) /\ new.received = file.received /\ new.validated = file.validated
    BY <1>2, <1>3, EnqueuedIs
  <1> HIDE DEF new
  <1>5. new.pending \in Seq(QueueEntry)
    BY <1>4 DEF QueueFile
  <1>6. todo \in Seq(QueueEntry)
    BY <1>5, WaitingTyped
  <1> HIDE DEF todo
  <1>7. Fits(drain)
    BY <1>2, <1>3, <1>6 DEF Fits, Submission, Outbox!Jobs, Outbox!Drains
  <1>8. ~(Len(new.pending) > MaxPending) => FileSound(new)
    <2>1. Len(new.pending) \in Nat /\ MaxPending \in Nat
      BY <1>5, SoundFacts
    <2> QED
      BY <1>2, <1>4, <2>1 DEF FileSound
  <1>9. overlapped' \in BOOLEAN
    BY <1>1, SoundFacts
  <1> HIDE DEF drain
  <1> QED
    BY <1>1, <1>2, <1>7, <1>8, <1>9, IdleFits, SoundMove

LEMMA SoundSend ==
    ASSUME Sound, NEW s \in Submitters, Outbox!Send(s)
    PROVE  Sound'
  <1> DEFINE m == models[s]
             x == Head(m.todo)
             rest == Tail(m.todo)
             sending == [m EXCEPT !.sending = x, !.todo = rest]
             request == [from |-> s, endpoint |-> x.endpoint, hash |-> x.hash, counter |-> x.counter, answer |-> Nothing]
  <1>1. /\ m.job # "idle" /\ m.todo # <<>> /\ Outbox!Becomes(s, sending)
        /\ wire' = {r \in wire : r.from # s \/ r.answer = Nothing} \cup {request}
        /\ UNCHANGED <<file, service, apple, elsewhere, overlapped>>
    BY DEF Outbox!Send, Outbox!NextIsDue, Outbox!Draining, Outbox!Drains
  <1>2. m \in Submission /\ Fits(m)
    BY SoundFacts
  <1> HIDE DEF m
  <1>3. m.todo \in Seq(QueueEntry)
    BY <1>2 DEF Submission
  <1>4. x \in QueueEntry /\ rest \in Seq(QueueEntry)
    BY <1>1, <1>3
  <1> HIDE DEF x, rest
  <1>5. Fits(sending)
    BY <1>1, <1>2, <1>4 DEF Fits, Submission
  <1>6. request \in Outbox!Request /\ request.answer = Nothing
    BY <1>4 DEF QueueEntry, Outbox!Entry, Outbox!Request
  <1> HIDE DEF request, sending
  <1>7. \A r \in wire' : r = request \/ r \in wire
    BY <1>1
  <1>8. Nothing \notin {"received", "validated"}
    BY DEF Sound, Outbox!OutboxConstants
  <1>9. Honest'
    BY <1>1, <1>6, <1>7, <1>8 DEF Sound, Honest
  <1>10. wire' \subseteq Outbox!Request
    BY <1>6, <1>7, SoundFacts
  <1>11. FileSound(file') /\ service' \in [Endpoints -> Served] /\ apple' \in Nat /\ elsewhere' \in Nat /\ overlapped' \in BOOLEAN
    BY <1>1 DEF Sound
  <1> QED
    BY <1>1, <1>5, <1>9, <1>10, <1>11, SoundStep

LEMMA SoundFails ==
    ASSUME Sound, (\E s \in Submitters : Outbox!SendFails(s)) \/ \E r \in wire : Outbox!RejectionArrives(r)
    PROVE  Sound'
  <1>1. PICK s \in Submitters, rejected \in BOOLEAN :
            /\ file' = Outbox!Failed(models[s].sending, rejected) /\ Outbox!Becomes(s, Outbox!Idle)
            /\ wire' \subseteq wire /\ UNCHANGED <<service, apple, elsewhere, overlapped>>
    <2>1. CASE \E s \in Submitters : Outbox!SendFails(s)
      BY <2>1 DEF Outbox!SendFails
    <2>2. CASE \E r \in wire : Outbox!RejectionArrives(r)
      <3>1. PICK r \in wire : Outbox!RejectionArrives(r)
        BY <2>2
      <3>2. r.from \in Submitters
        BY SoundFacts
      <3> QED
        BY <3>1, <3>2 DEF Outbox!RejectionArrives, Outbox!Sending
    <2> QED
      BY <2>1, <2>2
  <1>2. FileSound(file')
    <2> DEFINE f == Outbox!Failed(models[s].sending, rejected)
    <2>1. /\ f \in QueueFile /\ f.received = file.received /\ f.validated = file.validated
          /\ Len(f.pending) = Len(file.pending) /\ LeftOf(f.pending, file.pending)
      BY SoundFacts, FailedIs
    <2> HIDE DEF f
    <2>2. FileSound(f)
      BY <2>1, SoundFacts, FileLeft DEF FileSound
    <2> QED
      BY <1>1, <2>2 DEF f
  <1>3. overlapped' \in BOOLEAN
    BY <1>1, SoundFacts
  <1> QED
    BY <1>1, <1>2, <1>3, IdleFits, SoundMove

LEMMA SoundReceipt ==
    ASSUME Sound, NEW r \in wire, Outbox!ReceiptArrives(r)
    PROVE  /\ Sound' /\ models[r.from].sending \in QueueEntry
           /\ file'.pending = Outbox!Without(file.pending, r.endpoint, r.hash)
  <1> DEFINE s == r.from
             m == models[s]
             x == m.sending
             done == [m EXCEPT !.sending = Nothing]
             f == Outbox!Recorded(x, r.answer = "validated")
  <1>1. /\ file' = f /\ Outbox!Becomes(s, done) /\ x # Nothing /\ r.endpoint = x.endpoint /\ r.hash = x.hash
        /\ wire' \subseteq wire /\ UNCHANGED <<service, apple, elsewhere, overlapped>>
    BY DEF Outbox!ReceiptArrives, Outbox!Answers, Outbox!Sending
  <1>2. s \in Submitters /\ m \in Submission /\ Fits(m)
    BY SoundFacts
  <1>3. x \in QueueEntry
    BY <1>1, <1>2 DEF Submission
  <1>4. Fits(done)
    <2>1. m.job # "idle"
      BY <1>1, <1>2, IdleIsIdle DEF Fits
    <2> HIDE DEF m
    <2> QED
      BY <1>2, <2>1 DEF Fits, Submission
  <1>5. /\ f \in QueueFile /\ Len(f.pending) <= MaxPending /\ Len(f.received) <= MaxReceived
        /\ f.validated \subseteq Outbox!Range(f.received) /\ LeftOf(f.pending, file.pending)
        /\ f.pending = Outbox!Without(file.pending, x.endpoint, x.hash)
    BY <1>3, SoundFacts, RecordedIs
  <1> HIDE DEF f, done, x, m
  <1>6. FileSound(f)
    BY <1>5, SoundFacts, FileLeft
  <1>7. overlapped' \in BOOLEAN
    BY <1>1, SoundFacts
  <1>8. Sound'
    BY <1>1, <1>2, <1>4, <1>6, <1>7, SoundMove
  <1> QED
    BY <1>1, <1>3, <1>5, <1>8 DEF x, m

LEMMA SoundServe ==
    ASSUME Sound, NEW r \in wire, Outbox!Serve(r)
    PROVE  Sound'
  <1> DEFINE e == r.endpoint
             t == [counter |-> r.counter, taken |-> service[e].taken \cup {r.hash}]
  <1>0. r \in Outbox!Request /\ r.counter \in Nat /\ e \in Endpoints /\ r.hash \in Hashes /\ service \in [Endpoints -> Served]
    BY SoundFacts
  <1>1. PICK a \in {"received", "validated", "rejected"} :
            /\ wire' = (wire \ {r}) \cup {[r EXCEPT !.answer = a]}
            /\ UNCHANGED <<file, models, apple, elsewhere, overlapped>>
            /\ \/ r.hash \in service[e].taken /\ UNCHANGED service
               \/ service' = [service EXCEPT ![e] = t]
               \/ a = "rejected" /\ UNCHANGED service
    BY DEF Outbox!Serve
  <1> DEFINE answered == [r EXCEPT !.answer = a]
  <1>2. answered \in Outbox!Request /\ answered.endpoint = e /\ answered.hash = r.hash /\ answered.answer = a
    BY <1>0 DEF Outbox!Request
  <1>3. \A q \in wire' : q = answered \/ q \in wire
    BY <1>1
  <1> HIDE DEF answered
  <1>4. t \in Served /\ service[e].taken \subseteq t.taken /\ r.hash \in t.taken
    <2>1. service[e] \in Served
      BY <1>0
    <2> QED
      BY <1>0, <2>1 DEF Served
  <1> HIDE DEF t
  <1>5. /\ service' \in [Endpoints -> Served] /\ (a # "rejected" => r.hash \in service'[e].taken)
        /\ \A o \in Endpoints : service[o].taken \subseteq service'[o].taken
    <2>1. CASE UNCHANGED service /\ (r.hash \in service[e].taken \/ a = "rejected")
      BY <1>0, <2>1
    <2>2. CASE service' = [service EXCEPT ![e] = t]
      <3>1. service' \in [Endpoints -> Served] /\ service'[e] = t /\ \A o \in Endpoints : o # e => service'[o] = service[o]
        BY <1>0, <1>4, <2>2
      <3> QED
        BY <1>0, <1>4, <3>1
    <2> QED
      BY <1>1, <2>1, <2>2
  <1>6. Honest'
    <2> SUFFICES ASSUME NEW q \in wire', q.answer \in {"received", "validated"} PROVE q.hash \in service'[q.endpoint].taken
      BY DEF Honest
    <2>1. CASE q = answered
      BY <1>2, <1>5, <2>1
    <2>2. CASE q \in wire
      <3>1. q.hash \in service[q.endpoint].taken /\ q.endpoint \in Endpoints
        BY <2>2, SoundFacts DEF Sound, Honest
      <3> QED
        BY <1>5, <3>1
    <2> QED
      BY <1>3, <2>1, <2>2
  <1>7. wire' \subseteq Outbox!Request
    BY <1>2, <1>3, SoundFacts
  <1>8. FileSound(file') /\ apple' \in Nat /\ elsewhere' \in Nat /\ overlapped' \in BOOLEAN
    BY <1>1 DEF Sound
  <1> QED
    BY <1>1, <1>5, <1>6, <1>7, <1>8, SoundAround

LEMMA SoundNext == ASSUME Sound, [Outbox!Next]_Outbox!vars PROVE Sound'
  <1>1. CASE UNCHANGED Outbox!vars
    BY <1>1 DEF Outbox!vars, Sound, Honest, Outbox!OutboxConstants
  <1>2. CASE \E s \in Submitters, e \in Endpoints : Outbox!Retry(s, e) \/ \E h \in Hashes : Outbox!Prepare(s, e, h)
    BY <1>2, SoundBegins
  <1>3. CASE \E s \in Submitters : Outbox!RefreshPath(s) \/ Outbox!Prove(s) \/ Outbox!Enqueue(s) \/ Outbox!GivesUp(s)
    BY <1>3, SoundAsserts, SoundEnqueue, SoundStops
  <1>4. CASE \E s \in Submitters : Outbox!Send(s) \/ Outbox!DrainEnds(s)
    BY <1>4, SoundSend, SoundStops
  <1>5. CASE Outbox!Killed
    BY <1>5, SoundKilled
  <1>6. CASE \E e \in Endpoints : Outbox!AssertElsewhere(e)
    BY <1>6, SoundElsewhere
  <1>7. CASE \E i \in 1 .. MaxPending : Outbox!BackoffPasses(i)
    <2>1. PICK i \in 1 .. MaxPending : Outbox!BackoffPasses(i)
      BY <1>7
    <2>2. /\ file' \in QueueFile /\ file'.received = file.received /\ file'.validated = file.validated
          /\ Len(file'.pending) = Len(file.pending) /\ LeftOf(file'.pending, file.pending)
      BY <2>1, SoundFacts, BackoffIs
    <2>3. FileSound(file')
      BY <2>2, SoundFacts, FileLeft DEF FileSound
    <2>4. UNCHANGED <<models, wire, service, apple, elsewhere, overlapped>>
      BY <2>1 DEF Outbox!BackoffPasses
    <2> QED
      BY <2>3, <2>4 DEF Sound, Honest, Outbox!OutboxConstants
  <1>8. CASE (\E s \in Submitters : Outbox!SendFails(s)) \/ \E r \in wire : Outbox!RejectionArrives(r)
    BY <1>8, SoundFails
  <1>9. CASE \E r \in wire : Outbox!ReceiptArrives(r) \/ Outbox!Serve(r)
    BY <1>9, SoundReceipt, SoundServe
  <1>10. CASE \E r \in wire : Outbox!Lose(r)
    <2>1. UNCHANGED <<file, models, service, apple, elsewhere, overlapped>> /\ wire' \subseteq wire
      BY <1>10 DEF Outbox!Lose
    <2> QED
      BY <2>1 DEF Sound, Honest, Outbox!OutboxConstants
  <1> QED
    BY <1>1, <1>2, <1>3, <1>4, <1>5, <1>6, <1>7, <1>8, <1>9, <1>10 DEF Outbox!Next

-----------------------------------------------------------------------------
(* One after the other. *)

\* The screen that moves is the one at work, and stays the only one.
LEMMA MoverActs ==
    ASSUME Sound, OneAtWork, NEW s \in Submitters, NEW m, Outbox!Becomes(s, m),
           models[s] # Outbox!Idle \/ \A t \in Submitters : t # s => models[t] = Outbox!Idle
    PROVE  Acts(s) /\ OneAtWork'
  <1>1. \A t \in Submitters : t # s => models[t] = Outbox!Idle
    BY DEF OneAtWork
  <1>2. models \in [Submitters -> Submission] /\ models' = [models EXCEPT ![s] = m]
    BY SoundFacts DEF Outbox!Becomes
  <1>3. \A t \in Submitters : t # s => models'[t] = Outbox!Idle
    BY <1>1, <1>2
  <1>4. work = models[s] /\ work' = models'[s]
    BY <1>1, <1>3, AtWork DEF work
  <1>5. OneAtWork'
    BY <1>3 DEF OneAtWork
  <1> QED
    BY <1>2, <1>4, <1>5 DEF Acts

LEMMA SerialBegins ==
    ASSUME Sound, OneAtWork, Serial, NEW s \in Submitters, NEW e \in Endpoints, ~overlapped',
           Outbox!Retry(s, e) \/ \E h \in Hashes : Outbox!Prepare(s, e, h)
    PROVE  OneAtWork' /\ Serial'
  <1>1. PICK m : Outbox!Begins(s, m)
    BY DEF Outbox!Retry, Outbox!Prepare
  <1>2. Outbox!Becomes(s, m) /\ models[s].job = "idle" /\ Outbox!Others(s) = {}
    <2>1. overlapped' = (overlapped \/ Outbox!Others(s) # {}) /\ overlapped' \in BOOLEAN
      BY <1>1, SoundFacts DEF Outbox!Begins
    <2> QED
      BY <1>1, <2>1 DEF Outbox!Begins
  <1>3. \A t \in Submitters : t # s => models[t].job = "idle"
    BY <1>2 DEF Outbox!Others
  <1>4. \A t \in Submitters : t # s => models[t] = Outbox!Idle
    BY <1>3, SoundFacts DEF Fits
  <1>5. Acts(s) /\ OneAtWork'
    BY <1>2, <1>4, MoverActs
  <1> QED
    BY <1>5, PrepareKeeps, RetryKeeps

\* A screen whose submission is not idle moves.
LEMMA SerialWorks ==
    ASSUME Sound, OneAtWork, Serial, NEW s \in Submitters,
           \/ Outbox!RefreshPath(s) \/ Outbox!Prove(s) \/ Outbox!Enqueue(s) \/ Outbox!GivesUp(s)
           \/ Outbox!Send(s) \/ Outbox!DrainEnds(s) \/ Outbox!SendFails(s)
           \/ \E r \in wire : r.from = s /\ (Outbox!ReceiptArrives(r) \/ Outbox!RejectionArrives(r))
    PROVE  OneAtWork' /\ Serial'
  <1>1. models[s] # Outbox!Idle
    <2>1. models[s].job # "idle" \/ models[s].sending # Nothing
      BY DEF Outbox!RefreshPath, Outbox!Prove, Outbox!Enqueue, Outbox!GivesUp, Outbox!Send, Outbox!DrainEnds, Outbox!SendFails,
             Outbox!ReceiptArrives, Outbox!RejectionArrives, Outbox!Answers, Outbox!Sending, Outbox!Draining, Outbox!Drains
    <2> QED
      BY <2>1, IdleIsIdle
  <1>2. \E m : Outbox!Becomes(s, m)
    BY DEF Outbox!RefreshPath, Outbox!PathRefreshed, Outbox!Prove, Outbox!Enqueue, Outbox!GivesUp, Outbox!Send, Outbox!DrainEnds,
           Outbox!SendFails, Outbox!ReceiptArrives, Outbox!RejectionArrives
  <1>3. Acts(s) /\ OneAtWork'
    BY <1>1, <1>2, MoverActs
  <1>4. CASE Outbox!RefreshPath(s) \/ Outbox!Prove(s) \/ Outbox!Enqueue(s) \/ Outbox!GivesUp(s)
    BY <1>3, <1>4, RefreshKeeps, ProveKeeps, EnqueueKeeps, StopKeeps
  <1>5. CASE Outbox!Send(s) \/ Outbox!DrainEnds(s)
    BY <1>3, <1>5, SendKeepsOrder, DrainEndsKeeps
  <1>6. CASE Outbox!SendFails(s) \/ \E r \in wire : r.from = s /\ Outbox!RejectionArrives(r)
    BY <1>3, <1>6, FailureKeeps
  <1>7. CASE \E r \in wire : r.from = s /\ Outbox!ReceiptArrives(r)
    BY <1>3, <1>7, ReceiptKeeps
  <1> QED
    BY <1>3, <1>4, <1>5, <1>6, <1>7

LEMMA SerialNext ==
    ASSUME Sound, OneAtWork, Serial, ~overlapped', [Outbox!Next]_Outbox!vars
    PROVE  OneAtWork' /\ Serial'
  <1>0. ASSUME UNCHANGED models PROVE OneAtWork'
    BY <1>0 DEF OneAtWork
  <1>1. CASE UNCHANGED Outbox!vars
    <2>1. UNCHANGED <<file, models, wire, service, apple, elsewhere>>
      BY <1>1 DEF Outbox!vars
    <2>2. UNCHANGED work
      BY <2>1 DEF work
    <2>3. work \in Submission /\ work.counter <= apple /\ DrainShape(work, file.pending)
      BY PendingFacts DEF Serial
    <2> QED
      BY <1>0, <2>1, <2>2, <2>3, FileFacts, QueueKeeps
  <1>2. CASE \E s \in Submitters, e \in Endpoints : Outbox!Retry(s, e) \/ \E h \in Hashes : Outbox!Prepare(s, e, h)
    BY <1>2, SerialBegins
  <1>3. CASE \E s \in Submitters : \/ Outbox!RefreshPath(s) \/ Outbox!Prove(s) \/ Outbox!Enqueue(s) \/ Outbox!GivesUp(s)
                                   \/ Outbox!Send(s) \/ Outbox!DrainEnds(s) \/ Outbox!SendFails(s)
    BY <1>3, SerialWorks
  <1>4. CASE \E r \in wire : Outbox!ReceiptArrives(r) \/ Outbox!RejectionArrives(r)
    <2>1. PICK r \in wire : Outbox!ReceiptArrives(r) \/ Outbox!RejectionArrives(r)
      BY <1>4
    <2>2. r.from \in Submitters
      BY SoundFacts
    <2> QED
      BY <2>1, <2>2, SerialWorks
  <1>5. CASE Outbox!Killed
    <2>1. OneAtWork'
      BY <1>5 DEF Outbox!Killed, OneAtWork
    <2> QED
      BY <1>5, <2>1, StopKeeps
  <1>6. CASE \E e \in Endpoints : Outbox!AssertElsewhere(e)
    <2>1. UNCHANGED models
      BY <1>6 DEF Outbox!AssertElsewhere
    <2> QED
      BY <1>0, <1>6, <2>1, AssertElsewhereKeeps
  <1>7. CASE \E i \in 1 .. MaxPending : Outbox!BackoffPasses(i)
    <2>1. UNCHANGED models
      BY <1>7 DEF Outbox!BackoffPasses
    <2> QED
      BY <1>0, <1>7, <2>1, BackoffKeeps
  <1>8. CASE \E r \in wire : Outbox!Serve(r) \/ Outbox!Lose(r)
    <2>1. UNCHANGED models
      BY <1>8, SMTT(40) DEF Outbox!Serve, Outbox!Lose
    <2> QED
      BY <1>0, <1>8, <2>1, ServeKeeps, LoseKeeps
  <1> QED
    BY <1>1, <1>2, <1>3, <1>4, <1>5, <1>6, <1>7, <1>8 DEF Outbox!Next

\* What has overlapped once is remembered.
LEMMA OverlapStays == ASSUME overlapped, [Outbox!Next]_Outbox!vars PROVE overlapped'
  BY DEF Outbox!Next, Outbox!vars, Outbox!Prepare, Outbox!Retry, Outbox!Begins, Outbox!AssertElsewhere, Outbox!RefreshPath, Outbox!Prove,
         Outbox!Enqueue, Outbox!GivesUp, Outbox!Killed, Outbox!Send, Outbox!DrainEnds, Outbox!SendFails, Outbox!BackoffPasses,
         Outbox!ReceiptArrives, Outbox!RejectionArrives, Outbox!Serve, Outbox!Lose

LEMMA OutboxNext == OutboxInv /\ [Outbox!Next]_Outbox!vars => OutboxInv'
  BY SoundNext, SerialNext, OverlapStays DEF OutboxInv

\* A step of the phone is a step of the outbox or leaves it alone.
LEMMA OutboxStep == [PhoneNext]_phoneVars => [Outbox!Next]_Outbox!vars
  BY DEF PhoneNext, phoneVars, outboxVars, Outbox!vars

LEMMA AlwaysOutboxInv == PhoneSpec => []OutboxInv
  <1>1. PhoneInit => OutboxInv
    BY OutboxInit, PhoneAssumption DEF PhoneInit
  <1>2. OutboxInv /\ [PhoneNext]_phoneVars => OutboxInv'
    BY OutboxNext, OutboxStep
  <1> QED
    BY <1>1, <1>2, PTL DEF PhoneSpec

\* The outbox writes only files it can read again, however many screens work on
\* it, whatever the limits, the requests lost or answered late, and the points at
\* which the app is killed.  As long as the screens prepare and retry one after
\* the other they keep the App Attest assertions in order: at most one entry
\* waits for each service, and what is on its way there was made no later.
THEOREM OutboxStaysConsistent == PhoneSpec => []OutboxConsistent
  <1>1. OutboxInv => OutboxConsistent
    BY OutboxInvConsistent DEF OutboxConsistent
  <1> QED
    BY <1>1, AlwaysOutboxInv, PTL

\* An entry leaves the queue only on a receipt, and a receipt is for something taken.
LEMMA StaysQueued ==
    ASSUME NEW e, NEW h, Outbox!InQueue(e, h),
           \A i \in DOMAIN file.pending : file.pending[i].endpoint = e /\ file.pending[i].hash = h =>
               \E n \in DOMAIN file'.pending : SameEntry(file'.pending[n], file.pending[i])
    PROVE  Outbox!InQueue(e, h)'
  BY DEF Outbox!InQueue, SameEntry

LEMMA DroppedTaken ==
    ASSUME Sound, [Outbox!Next]_Outbox!vars, NEW e \in Endpoints, NEW h \in Hashes,
           Outbox!InQueue(e, h), ~Outbox!InQueue(e, h)'
    PROVE  h \in service[e].taken
  <1>1. ASSUME UNCHANGED file PROVE FALSE
    BY <1>1 DEF Outbox!InQueue
  <1>2. ASSUME NEW x, NEW rejected \in BOOLEAN, file' = Outbox!Failed(x, rejected) PROVE FALSE
    <2>1. \A i \in DOMAIN file.pending : i \in DOMAIN file'.pending /\ SameEntry(file'.pending[i], file.pending[i])
      BY <1>2, SoundFacts, FailedIs
    <2> QED
      BY <2>1, StaysQueued
  <1>3. ASSUME NEW i, Outbox!BackoffPasses(i) PROVE FALSE
    <2>1. \A k \in DOMAIN file.pending : k \in DOMAIN file'.pending /\ SameEntry(file'.pending[k], file.pending[k])
      BY <1>3, SoundFacts, BackoffIs
    <2> QED
      BY <2>1, StaysQueued
  <1>4. ASSUME NEW s \in Submitters, Outbox!Enqueue(s) PROVE FALSE
    <2> DEFINE m == models[s]
               new == Outbox!Enqueued(m.endpoint, m.hash, m.counter)
    <2>1. m.job = "enqueue" /\ (UNCHANGED file \/ file' = new)
      BY <1>4 DEF Outbox!Enqueue
    <2>2. m \in Submission /\ Fits(m) /\ FileSound(file)
      BY SoundFacts
    <2>3. m.endpoint \in Endpoints /\ m.hash \in Hashes /\ m.counter \in Nat
      BY <2>1, <2>2 DEF Fits, Submission
    <2>4. \A k \in DOMAIN file.pending : k \in DOMAIN new.pending /\ new.pending[k] = file.pending[k]
      BY <2>2, <2>3, EnqueuedIs
    <2> HIDE DEF new
    <2>5. CASE file' = new
      BY <2>4, <2>5, StaysQueued DEF SameEntry
    <2> QED
      BY <1>1, <2>1, <2>5
  <1>5. ASSUME NEW r \in wire, Outbox!ReceiptArrives(r) PROVE h \in service[e].taken
    <2>1. r.answer \in {"received", "validated"}
      BY <1>5 DEF Outbox!ReceiptArrives
    <2>2. r.hash \in service[r.endpoint].taken
      BY <2>1 DEF Sound, Honest
    <2>3. CASE r.endpoint = e /\ r.hash = h
      BY <2>2, <2>3
    <2>4. CASE ~(r.endpoint = e /\ r.hash = h)
      <3>1. file'.pending = Outbox!Without(file.pending, r.endpoint, r.hash) /\ file.pending \in Seq(QueueEntry)
        BY <1>5, SoundReceipt, SoundFacts
      <3>2. \A i \in DOMAIN file.pending :
                file.pending[i].endpoint # r.endpoint \/ file.pending[i].hash # r.hash =>
                    \E n \in DOMAIN file'.pending : SameEntry(file'.pending[n], file.pending[i])
        BY <3>1, WithoutIs
      <3> QED
        BY <2>4, <3>2, StaysQueued
    <2> QED
      BY <2>3, <2>4
  <1>6. CASE (\E s \in Submitters : Outbox!SendFails(s)) \/ \E r \in wire : Outbox!RejectionArrives(r)
    <2>1. \E x, rejected : rejected \in BOOLEAN /\ file' = Outbox!Failed(x, rejected)
      BY <1>6 DEF Outbox!SendFails, Outbox!RejectionArrives
    <2> QED
      BY <1>2, <2>1
  <1>7. UNCHANGED file \/ (\E s \in Submitters : Outbox!Enqueue(s)) \/ (\E i \in 1 .. MaxPending : Outbox!BackoffPasses(i))
            \/ (\E r \in wire : Outbox!ReceiptArrives(r))
            \/ (\E s \in Submitters : Outbox!SendFails(s)) \/ (\E r \in wire : Outbox!RejectionArrives(r))
    BY DEF Outbox!Next, Outbox!vars, Outbox!Prepare, Outbox!Retry, Outbox!Begins, Outbox!AssertElsewhere, Outbox!RefreshPath, Outbox!Prove,
           Outbox!GivesUp, Outbox!Killed, Outbox!Send, Outbox!DrainEnds, Outbox!Serve, Outbox!Lose
  <1> QED
    BY <1>1, <1>3, <1>4, <1>5, <1>6, <1>7

\* An observation leaves the queue only when its service has taken it: a receipt
\* the screen acts on is the answer to what it is sending, and only a service
\* that took an observation gives one.
THEOREM OutboxDropsNothing == PhoneSpec => NothingDropped
  <1>1. OutboxInv /\ [PhoneNext]_phoneVars =>
            [\A e \in Endpoints, h \in Hashes : Outbox!InQueue(e, h) /\ ~Outbox!InQueue(e, h)' => h \in service[e].taken]_Outbox!vars
    BY DroppedTaken, OutboxStep DEF OutboxInv
  <1> QED
    BY <1>1, AlwaysOutboxInv, PTL DEF PhoneSpec, NothingDropped, Outbox!NothingDropped
===============================================================================
