-------------------------- MODULE ObservationOutbox --------------------------
(***************************************************************************)
(* The iPhone's submission queue: ObservationOutbox keeps envelopes and    *)
(* receipts in a file, ObservationSubmissionModel prepares an observation, *)
(* queues it and drains the queue.  Every opening of the screen makes a    *)
(* model and an outbox of its own, whose busy and draining guard only      *)
(* themselves, and a preparation goes on after its screen was left: several *)
(* may work on the one file.  An envelope carries an App Attest assertion  *)
(* whose counter the service only accepts in rising order, so it must not  *)
(* be overtaken.  An observation is named by the hash of its transcript,   *)
(* which neither the proof nor the assertion changes.  A request may be    *)
(* lost, served late, or served although its answer is lost; the app may   *)
(* be killed at any time.                                                  *)
(***************************************************************************)
EXTENDS Integers, Sequences, FiniteSets, SequencesExt

CONSTANTS
    Hashes, Endpoints, None,
    Screens,        \* the screens' models that exist at a time
    MaxPending,     \* 128
    MaxReceived,    \* 1024
    MaxAssertions, MaxElsewhere   \* bounds: App Attest assertions, and those of other screens

VARIABLES
    file,        \* the State on disk: pending, received and validated
    models,      \* each screen's running prepare or retry
    wire,        \* requests on their way to a service
    service,     \* per endpoint the key's counter and the observations taken
    apple,       \* the counter of the last assertion of the App Attest key
    elsewhere,   \* assertions made by the app's other screens
    overlapped   \* a prepare or retry began while another screen's was running

vars == <<file, models, wire, service, apple, elsewhere, overlapped>>

Receipt == Endpoints \X Hashes
Entry == [endpoint: Endpoints, hash: Hashes, counter: Nat, due: BOOLEAN, rejected: BOOLEAN]
Request == [from: Screens, endpoint: Endpoints, hash: Hashes, counter: Nat, answer: {None, "received", "validated", "rejected"}]
Drains == {"drainFirst", "drainNew", "drainRetry"}
Jobs == {"idle", "path", "prove", "enqueue"} \cup Drains

OutboxConstants ==
    /\ None \notin Hashes \cup Endpoints \cup Entry \cup {"received", "validated", "rejected"}
    /\ MaxPending \in Nat \ {0} /\ MaxReceived \in Nat \ {0}
    /\ MaxAssertions \in Nat /\ MaxElsewhere \in Nat

Idle == [job |-> "idle", endpoint |-> None, hash |-> None, counter |-> 0, todo |-> <<>>, sending |-> None]

\* The queue and the list of received hashes never grow past their limits.
TypeOK ==
    /\ file \in [pending: Seq(Entry), received: Seq(Receipt), validated: SUBSET Receipt]
    /\ Len(file.pending) <= MaxPending /\ Len(file.received) <= MaxReceived
    /\ models \in [Screens -> [job: Jobs, endpoint: Endpoints \cup {None}, hash: Hashes \cup {None}, counter: Nat,
                               todo: Seq(Entry), sending: Entry \cup {None}]]
    /\ wire \subseteq Request
    /\ service \in [Endpoints -> [counter: Nat, taken: SUBSET Hashes]]
    /\ apple \in Nat /\ elsewhere \in Nat /\ overlapped \in BOOLEAN

Init ==
    /\ file = [pending |-> <<>>, received |-> <<>>, validated |-> {}]
    /\ models = [s \in Screens |-> Idle] /\ wire = {}
    /\ service = [e \in Endpoints |-> [counter |-> 0, taken |-> {}]]
    /\ apple = 0 /\ elsewhere = 0 /\ overlapped = FALSE

-----------------------------------------------------------------------------
(* The queue. *)

HasPendingDue(e) == \E i \in DOMAIN file.pending : file.pending[i].endpoint = e /\ ~file.pending[i].rejected /\ file.pending[i].due

\* hasPending
HasPending(e) == \E i \in DOMAIN file.pending : file.pending[i].endpoint = e /\ ~file.pending[i].rejected

\* wasReceived
WasReceived(e, h) == <<e, h>> \in Range(file.received)

InQueue(e, h) == \E i \in DOMAIN file.pending : file.pending[i].endpoint = e /\ file.pending[i].hash = h

\* The entries of a queue that are in a set, in the queue's order.
Only(queue, entries) ==
    LET kept == {i \in DOMAIN queue : queue[i] \in entries}
        nth(n) == CHOOSE i \in kept : Cardinality({j \in kept : j <= i}) = n
    IN [n \in 1 .. Cardinality(kept) |-> queue[nth(n)]]

\* The entries a drain goes through: this service's, not rejected, in order.
Waiting(queue, e) == Only(queue, {x \in Range(queue) : x.endpoint = e /\ ~x.rejected})

Snapshot(e) == Waiting(file.pending, e)

\* The queue without an observation.
Without(queue, e, h) == Only(queue, {x \in Range(queue) : x.endpoint # e \/ x.hash # h})

\* What drain writes after a receipt.
RecordedUnfiltered(x, validated) ==
    LET received == Append(file.received, <<x.endpoint, x.hash>>) IN
    [pending |-> Without(file.pending, x.endpoint, x.hash),
     received |-> IF Len(received) > MaxReceived THEN Tail(received) ELSE received,
     validated |-> file.validated \cup (IF validated THEN {<<x.endpoint, x.hash>>} ELSE {})]

Recorded(x, validated) ==
    LET received == Append(file.received, <<x.endpoint, x.hash>>)
        kept == IF Len(received) > MaxReceived THEN Tail(received) ELSE received
        named == file.validated \cup (IF validated THEN {<<x.endpoint, x.hash>>} ELSE {})
    IN [pending |-> Without(file.pending, x.endpoint, x.hash),
        received |-> kept,
        validated |-> named \cap Range(kept)]

FailedDropping(x, rejected) ==
    [file EXCEPT !.pending = IF rejected THEN Without(@, x.endpoint, x.hash) ELSE @]

\* What drain writes after a failure: the entry stays, in backoff, and a 4xx
\* other than 408 and 429 rejects it for good.
Failed(x, rejected) ==
    LET queue == file.pending
        failed(y) == [y EXCEPT !.due = FALSE, !.rejected = y.rejected \/ rejected] IN
    [file EXCEPT !.pending = [i \in DOMAIN queue |->
        IF queue[i].endpoint = x.endpoint /\ queue[i].hash = x.hash THEN failed(queue[i]) ELSE queue[i]]]

\* enqueue; an observation already queued is left as it is
Enqueued(e, h, counter) ==
    IF InQueue(e, h) THEN file
    ELSE [file EXCEPT !.pending = Append(@, [endpoint |-> e, hash |-> h, counter |-> counter, due |-> TRUE, rejected |-> FALSE])]

BackoffPasses(i) ==
    /\ i \in DOMAIN file.pending
    /\ ~file.pending[i].due /\ ~file.pending[i].rejected
    /\ file' = [file EXCEPT !.pending[i].due = TRUE]
    /\ UNCHANGED <<models, wire, service, apple, elsewhere, overlapped>>

-----------------------------------------------------------------------------
(* Preparing and retrying; a screen's busy lets one of its own run. *)

\* What a screen's model does; the others are not asked.
Becomes(s, model) == models' = [models EXCEPT ![s] = model]

Others(s) == {t \in Screens \ {s} : models[t].job # "idle"}

Begins(s, model) ==
    /\ models[s].job = "idle"
    /\ Becomes(s, model)
    /\ overlapped' = (overlapped \/ Others(s) # {})
    /\ UNCHANGED <<file, wire, service, apple, elsewhere>>

\* prepareImpl: what waits for this service goes first.
Prepare(s, e, h) ==
    LET start == [Idle EXCEPT !.endpoint = e, !.hash = h] IN
    Begins(s, IF HasPending(e) THEN [start EXCEPT !.job = "drainFirst", !.todo = Snapshot(e)] ELSE [start EXCEPT !.job = "path"])

Retry(s, e) ==
    /\ file.pending # <<>>
    /\ Begins(s, [Idle EXCEPT !.job = "drainRetry", !.endpoint = e, !.todo = Snapshot(e)])

\* AppAttestClient.assert: the Secure Enclave counts every assertion.
MakeAssertion ==
    /\ apple < MaxAssertions
    /\ apple' = apple + 1

\* The transcript is bound to the path; one the service has is not proved again.
PathRefreshed(s) ==
    LET m == models[s] IN
    Becomes(s, IF WasReceived(m.endpoint, m.hash) THEN Idle ELSE [m EXCEPT !.job = "prove"])

\* refreshPath makes an assertion of its own, which the service takes; the
\* request may fail before or after that.
RefreshPath(s) ==
    LET e == models[s].endpoint IN
    /\ models[s].job = "path"
    /\ MakeAssertion
    /\ \/ service' = [service EXCEPT ![e].counter = apple'] /\ PathRefreshed(s)
       \/ /\ \/ service' = [service EXCEPT ![e].counter = apple']
             \/ UNCHANGED service
          /\ Becomes(s, Idle)
    /\ UNCHANGED <<file, wire, elsewhere, overlapped>>

\* ObservationSubmission.prepare: the proof, then the assertion
Prove(s) ==
    /\ models[s].job = "prove"
    /\ MakeAssertion
    /\ Becomes(s, [models[s] EXCEPT !.job = "enqueue", !.counter = apple'])
    /\ UNCHANGED <<file, wire, service, elsewhere, overlapped>>

\* enqueue again refuses what was received; a full queue is an error.
Enqueue(s) ==
    LET m == models[s]
        queued == Enqueued(m.endpoint, m.hash, m.counter)
    IN
    /\ m.job = "enqueue"
    /\ IF WasReceived(m.endpoint, m.hash) \/ Len(queued.pending) > MaxPending
       THEN Becomes(s, Idle) /\ UNCHANGED file
       ELSE /\ file' = queued
            /\ Becomes(s, [m EXCEPT !.job = "drainNew", !.todo = Waiting(queued.pending, m.endpoint)])
    /\ UNCHANGED <<wire, service, apple, elsewhere, overlapped>>

\* A failure or a cancelled preparation, at any of the points that check for it.
GivesUp(s) ==
    /\ models[s].job \in Jobs \ {"idle", "drainRetry"} /\ models[s].sending = None
    /\ Becomes(s, Idle)
    /\ UNCHANGED <<file, wire, service, apple, elsewhere, overlapped>>

Killed ==
    /\ \E s \in Screens : models[s].job # "idle"
    /\ models' = [s \in Screens |-> Idle]
    /\ UNCHANGED <<file, wire, service, apple, elsewhere, overlapped>>

-----------------------------------------------------------------------------
(* drain *)

Draining(m) == m.job \in Drains /\ m.sending = None

NextIsDue(m) == m.todo # <<>> /\ Head(m.todo).due

\* What was answered to an earlier attempt of this screen is gone.
Send(s) ==
    LET m == models[s]
        x == Head(m.todo)
    IN
    /\ Draining(m) /\ NextIsDue(m)
    /\ Becomes(s, [m EXCEPT !.sending = x, !.todo = Tail(m.todo)])
    /\ wire' = {r \in wire : r.from # s \/ r.answer = None}
                 \cup {[from |-> s, endpoint |-> x.endpoint, hash |-> x.hash, counter |-> x.counter, answer |-> None]}
    /\ UNCHANGED <<file, service, apple, elsewhere, overlapped>>

\* The queue is through, or its first entry is still in backoff.
DrainEnds(s) ==
    LET m == models[s] IN
    /\ Draining(m) /\ ~NextIsDue(m)
    /\ Becomes(s, IF m.job = "drainFirst" /\ ~HasPending(m.endpoint) THEN [m EXCEPT !.job = "path", !.todo = <<>>] ELSE Idle)
    /\ UNCHANGED <<file, wire, service, apple, elsewhere, overlapped>>

\* What the screen that made a request was sending with it.
Sending(r) == models[r.from].sending

Answers(r) == Sending(r) # None /\ r.endpoint = Sending(r).endpoint /\ r.hash = Sending(r).hash

\* Another screen may have recorded the same observation before.
ReceiptArrives(r) ==
    /\ r \in wire /\ Answers(r) /\ r.answer \in {"received", "validated"}
    /\ wire' = wire \ {r}
    /\ file' = Recorded(Sending(r), r.answer = "validated")
    /\ Becomes(r.from, [models[r.from] EXCEPT !.sending = None])
    /\ UNCHANGED <<service, apple, elsewhere, overlapped>>

RejectionArrives(r) ==
    /\ r \in wire /\ Answers(r) /\ r.answer = "rejected"
    /\ wire' = wire \ {r}
    /\ file' = Failed(Sending(r), TRUE)
    /\ Becomes(r.from, Idle)
    /\ UNCHANGED <<service, apple, elsewhere, overlapped>>

\* A timeout, a 5xx, 408 or 429, an invalid receipt; the request may still be
\* on its way.
SendFails(s) ==
    /\ models[s].sending # None
    /\ file' = Failed(models[s].sending, FALSE)
    /\ Becomes(s, Idle)
    /\ UNCHANGED <<wire, service, apple, elsewhere, overlapped>>

-----------------------------------------------------------------------------
(* The service and the other screens. *)

\* The verifier answers a retry with the receipt it gave, takes a rising
\* counter, and may reject by policy.
Serve(r) ==
    LET s == service[r.endpoint]
        answer(a) == (wire \ {r}) \cup {[r EXCEPT !.answer = a]}
    IN
    /\ r \in wire /\ r.answer = None
    /\ \/ /\ r.hash \in s.taken
          /\ \E a \in {"received", "validated"} : wire' = answer(a)
          /\ UNCHANGED service
       \/ /\ r.hash \notin s.taken /\ r.counter > s.counter
          /\ service' = [service EXCEPT ![r.endpoint] = [counter |-> r.counter, taken |-> s.taken \cup {r.hash}]]
          /\ \E a \in {"received", "validated"} : wire' = answer(a)
       \/ /\ r.hash \notin s.taken
          /\ wire' = answer("rejected")
          /\ UNCHANGED service
    /\ UNCHANGED <<file, models, apple, elsewhere, overlapped>>

Lose(r) ==
    /\ r \in wire
    /\ wire' = wire \ {r}
    /\ UNCHANGED <<file, models, service, apple, elsewhere, overlapped>>

\* A withdrawal or a refresh of the enrollment screen: the same App Attest key,
\* the same service, and no look at the queue.
AssertElsewhere(e) ==
    /\ elsewhere < MaxElsewhere
    /\ elsewhere' = elsewhere + 1
    /\ MakeAssertion
    /\ service' = [service EXCEPT ![e].counter = apple']
    /\ UNCHANGED <<file, models, wire, overlapped>>

-----------------------------------------------------------------------------
Next ==
    \/ \E s \in Screens, e \in Endpoints : Retry(s, e) \/ \E h \in Hashes : Prepare(s, e, h)
    \/ \E s \in Screens : RefreshPath(s) \/ Prove(s) \/ Enqueue(s) \/ GivesUp(s)
    \/ \E s \in Screens : Send(s) \/ DrainEnds(s) \/ SendFails(s)
    \/ Killed \/ \E e \in Endpoints : AssertElsewhere(e)
    \/ \E i \in 1 .. MaxPending : BackoffPasses(i)
    \/ \E r \in wire : ReceiptArrives(r) \/ RejectionArrives(r) \/ Serve(r) \/ Lose(r)

Spec == Init /\ [][Next]_vars

-----------------------------------------------------------------------------
(* Properties. *)

\* What the outbox writes it can read again: load refuses a file with a
\* validated receipt that is no longer among the received ones, and a queue
\* never holds an observation twice.
LoadsAgain ==
    /\ file.validated \subseteq Range(file.received)
    /\ \A i, j \in DOMAIN file.pending :
        file.pending[i].endpoint = file.pending[j].endpoint /\ file.pending[i].hash = file.pending[j].hash => i = j

\* An observation leaves the queue only when the service it was queued for has
\* taken it, whatever answers were lost, late or repeated and however many
\* screens work on the file.
NothingDropped ==
    [][\A e \in Endpoints, h \in Hashes : InQueue(e, h) /\ ~InQueue(e, h)' => h \in service[e].taken]_vars

\* "Apple assertions must reach the service serially": while an envelope waits
\* its service has seen no newer counter, unless it has taken the observation.
NeverOvertaken ==
    \A i \in DOMAIN file.pending :
        LET x == file.pending[i] IN
        ~x.rejected => service[x.endpoint].counter < x.counter \/ x.hash \in service[x.endpoint].taken

\* The queue file is within its limits and load accepts it, whatever the screens
\* do; and as long as they prepare and retry one after the other, and no other
\* screen of the app makes an assertion, none overtakes one that waits.
OutboxConsistent ==
    /\ TypeOK /\ LoadsAgain
    /\ elsewhere = 0 /\ ~overlapped => NeverOvertaken
==============================================================================
