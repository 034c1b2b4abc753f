# Pathnod: TLA+ models, model checking and proofs

Pathnod lets a phone report that it was near a registered device. The phone
challenges the device over Bluetooth, proves in zero knowledge that it is an
enrolled observer, and sends the observation to a verifier; the verifier checks
it and a relay takes it to a Solana program that counts it, pays for it, and
carries a published confidence for each device and epoch.

This directory holds a TLA+ module for each part of that chain which keeps
state, TLC configurations that check small instances, and theorems about
the modules that TLAPS proves for every instance. Every definition is taken from
the code; `PROJECT.json` maps it to the lines it stands for. Paths below are
relative to the repository's root; `verifier/` stands for `packages/verifier/`.

* [1 Inventory](#1-inventory): the parts, their state, and what makes each correct
* [2 Modules](#2-modules-and-how-they-follow-the-code)
* [3 Runs](#3-runs): what TLC checks, with which bounds
* [4 Fairness](#4-fairness)
* [5 Theorems](#5-theorems)
* [6 Where code and text disagree](#6-where-code-and-text-disagree)
* [7 What is not modelled](#7-what-is-not-modelled)
* [8 Plan](#8-plan)
* [9 Running it](#9-running-it)

## 1 Inventory

### 1.1 The parts

| Part | State it keeps | Operations | What makes it correct |
|---|---|---|---|
| Solana program (`programs/pathnod`) | registry, protocol configuration, ring of four observer roots, commitments by nullifier, device epochs, escrows, payout accounts and vaults, confidence hashes | ten instructions, and the three kinds of verifier signature they consume | vaults cover balances; a withdrawal key is bound once and by a verifier; exactly the last four roots count; a published confidence is current, is never one that was replaced before, and is final after the epoch |
| Device-epoch tree (`observation.rs`, `packages/solana/src/observation.ts`) | leaf count, frontier of left siblings, root | append | the root is that of the whole padded tree |
| Observation policy (`verifier/src/observation-policy.ts`) | receipts, device counters, App Attest counters, revocations, payout owners, relay queue, sealed inputs | `receive`, `authorizeClaim` | one acceptance per nullifier, counter and assertion; all rows of an acceptance or none |
| App Attest gate (`app-attest-gate.ts`) | one-time challenges, keys and counters | issue, attest, assert, trial | a challenge counts once; counters only rise |
| Observer enrollment (`observer-enrollment.ts`) | its own challenge table, enrollments, tree revisions, events | challenge, enroll, tree path | tree and enrollments agree; a crash between the two stores harms neither |
| Root publication (`root-publication.ts`) | a row per tree revision, last chain check | tick, recheck, publish | rows land in order; only what is final is confirmed; every leaf gets published |
| Observation relay (`observation-relay.ts`) | queue rows, owner row | open, tick, process, close | never two live transactions; confirmed means on chain; every job is settled |
| Device eligibility (`device-eligibility.ts`) | none | quote slots and reward for a device epoch | the program pays what was quoted |
| Confidence score (`confidence.ts`) | none | group observers, facets, score, verdict | a copied history is no witness and gains at most the weight of the behaviour facet; everything stays on the scale |
| Setup script (`scripts/dev37-demo.ts`, `demo-safety.ts`, `demo-enrollment-import.ts`) | lock, runtime database, keys, manifest, journal of step transactions, report | prepare, import, run, check | a resumed setup signs each step once; complete means complete |
| Gate 2 commands (`scripts/dev38-gate2.ts`, `gate2-recovery.ts`, `gate2-evidence.ts`) | lock, journal of the duplicate, row, report | status, replay, report | a rejection on record was final and left the accounting alone |
| Confidence command (`scripts/dev39-confidence.ts`, `confidence-chain.ts`, `confidence-recovery.ts`) | lock, computed report, journal; sealed inputs and report rows in the database | import, compute, publish, status, report | a report describes the tree in its order; only what is final is recorded |
| Device firmware (`firmware/esp32/main`) | seed and counter in flash; nonce table, rate window, connection in RAM | boot, connect, write, read | one identity; a counter never repeats; a nonce is answered once |
| Challenge controller (`ChallengeBLEController.swift` and core) | session stage, timers, peripheral, results, cache | Bluetooth callbacks, timers, network answers, scene phases | a capture is three fresh answers of one device in one epoch; sessions end |
| Outbox (`ObservationSubmission.swift`, `ObservationSessionView.swift`) | queue file, receipts, running drain | prepare, enqueue, drain, retry | the file loads; nothing disappears; screens that take turns do not overtake one another |
| Density scanner (`App/DensityScan`, `PathnodDensityCore`) | session counters, outcomes by advertiser, radio and scene, export cache | start, pause, resume, stop, discard, export, callbacks | the screen is honest; verdicts do not depend on order; exports are sound |
| Phone withdrawals (`EarningsView.swift`, `PayoutClaim.swift`) | pending file | withdraw, reconcile or retry | a withdrawal that can still pay is in the file; what the screen says of it is true |
| Phone enrollment | App Attest key record | attest, assert | see the plan |

### 1.2 How they interact

* The **phone** asks the enrollment service for a membership path (an App Attest
  assertion), visits a device over Bluetooth (controller and firmware), proves,
  asserts, and puts the envelope in its outbox.
* The **verifier** process is one HTTP service over one SQLite file: gate,
  enrollment and policy are separate transactions on shared tables. The App
  Attest counter of a key is shared by enrollment, observations and withdrawals.
* An accepted observation is a **relay** row in the same file; the relay worker,
  possibly another process, signs, saves and sends a transaction.
* The enrollment tree's revisions are rows the **root publisher** puts on chain;
  the program accepts proofs against its last four roots.
* The **confidence command** reads the chain twice, recomputes the tree, and
  journals a transaction before sending it.
* The **phone** asks the service for a quote before it visits a device, and for
  a quote, an authorization and a blockhash before it withdraws; it sends the
  withdrawal and follows its outcome through its own RPC endpoint.
* The **operator** sets everything up with one script, which hands its report and
  its runtime database to the verifier and to the gate 2 commands.
* What all of them share is the **cluster**: it may forget a processed block,
  answer late or not at all, and lets a transaction die with its blockhash.

### 1.3 What is hard here

Almost every component is a small protocol between a durable store and an
unreliable peer, so the same hazards return: state read before an `await` and
used after it; a crash between two commits; an answer that is lost although the
request took effect; a transaction that is neither confirmed nor dead; a
counter whose order matters; a handler that runs for a session that has ended.
`PROJECT.json` lists the hazards at their lines with the properties that
cover them; section 3 says which run reaches them.

## 2 Modules and how they follow the code

| Module | Models | Uses |
|---|---|---|
| `PathnodProgram`, `MCPathnodProgram` | the on-chain program | |
| `DeviceEligibility` | the service's quote of a device epoch | `PathnodProgram` |
| `PathnodProgramProofs` | theorems about both | `DeviceEligibility` |
| `EpochTree` | the tree of a device epoch | |
| `ConfidencePublication` | the confidence command, composed with the tree it recomputes | `EpochTree` |
| `ConfidenceScore` | grouping, facets and score of a report | |
| `MCConfidenceReports` | both, for the run `Reports` | instantiates the two |
| `ObservationDelivery` | what the relay promises (abstract) | |
| `ObservationRelay`, `MC...` | the relay workers and the cluster | instantiates `ObservationDelivery` |
| `ObservationRelayProofs` | its theorems and the refinement | `ObservationRelay` |
| `ObservationPolicy`, `MC...` | `receive` and `authorizeClaim` | |
| `ObservationPolicyProofs` | its theorems | `ObservationPolicy` |
| `AppAttestGate` | the gate | |
| `ObserverEnrollment`, `MC...` | enrollment composed with the gate | `AppAttestGate` |
| `ObserverEnrollmentProofs` | theorems about enrollment and the gate | `ObserverEnrollment` |
| `RootPublication` | the root publisher and the cluster | |
| `DemoBootstrap` | the setup script and the cluster | |
| `Gate2Replay` | the gate 2 commands and the cluster | |
| `MCOperator` | the three, for the run `Operator` | |
| `OperatorProofs` | theorems about the three, and about the confidence command, its tree and its score | `MCOperator`, `MCConfidenceReports` |
| `DeviceFirmware`, `MC...` | the ESP32 firmware | |
| `DeviceFirmwareProofs` | its theorems | `DeviceFirmware` |
| `ChallengeController`, `MC...` | the phone's session | |
| `ObservationOutbox` | the phone's queue and the service as it sees it | |
| `PayoutRecovery` | the phone's withdrawals, the payout routes and the cluster | |
| `MCPhoneFiles` | both, for the run `PhoneFiles` | instantiates the two |
| `PhoneProofs` | theorems about the session and the two files | `ChallengeController`, `MCPhoneFiles` |
| `DensityScanner`, `MC...` | the density scanner | |
| `DensityScannerProofs` | its theorems | `DensityScanner` |

Three conventions hold everywhere.

* **Steps.** On chain an instruction is one action, enabled exactly when it
  succeeds: a failed `require!` rolls back. In TypeScript a step runs from one
  `await` to the next, and a `BEGIN IMMEDIATE` transaction is one step; waiting for
  its lock is an `await` too, because another process may hold it. On the phone a
  step is one main-actor callback; in the firmware one GATT callback, with
  power loss between any two flash writes.
* **Data.** Hashes, signatures and proofs are symbolic. A nullifier *is* the tuple
  the circuit hashes; a root *is* the set or sequence it commits to; an
  advertisement *is* the set of rules it matches. What this assumes is collision
  resistance and the soundness of Groth16 and Ed25519.
* **Bounds.** Constants named `Max...` under "bounds of the model" exist only for TLC.
  Limits of the code (`RootWindow`, `Capacity`, `BatchLimit`, ...) are constants
  with the code's name or a comment giving its value.

### 2.1 PathnodProgram

One variable per account type, a function from what the PDA is derived from.
Every instruction of `registry.rs`, `observation.rs`, `payments.rs` and
`confidence.rs` is an action. Off-chain signatures that instructions consume are
variables too (`claims`, `reports`, authorizations of observations), signed by
actions of their own, so that they can be submitted late, by anyone, and in any
order. A report is made in two steps, as in `dev39-confidence.ts`: `ComputeReport` evaluates the
epoch and files the result (`computed.json`); `SignReport`, any time later, signs that evaluation
if the chain still reproduces it, and only then reads the confidence it is to
replace. A confidence evaluated earlier can therefore replace one evaluated later. An
evaluation names its run directory by its time: no two directories are supposed to evaluate one
epoch in the same millisecond. The observation root is its sequence of leaves. `Fee` is the integer
division of `split_reward`. Time is the cluster's clock; an epoch is open between
the bounds `ClockSlack` (600 s) gives.

`DeviceEligibility` adds `Quote`, what `device-eligibility.ts` computes from one
finalized read of these accounts, and relates it to the program's steps.

### 2.2 EpochTree and ConfidencePublication

`Appended` is `append_observation` and `appendObservationTree`: `Path` is the climb
from the new leaf, one `Climb` for each level, with symbolic hashes. `Complete` is
the reference: `Nodes` are the nodes of the padded tree by level and index, from the
leaves alone.

`ConfidencePublication` runs `main` of the confidence command in several run
directories. Each has a lock, a computed report and a journal that survive a
crash; all share the database and the chain. `ReadCommitments` and `ReadAccounts` are
the two RPC reads of `readConfidenceSnapshot`, between which the epoch may grow; the
order of the report is any order the timestamps or the configuration suggest,
and `Computable` is the check of `computeConfidence` that rebuilds the root.
`Prepare`, `Inspect`, `CheckHeight`, `Send`, `Poll` and `Verify` are
`recoverConfidencePublication`; `Record` is the row and `report.json`. A score is a
function of the report's scope and history, so a report stands for its hash;
other devices' observations, which enter the score, are a counter. Block height
is also the commands' clock. The program's check that a report is not from the
future is always met by reports of that clock.

`ConfidenceScore` is the rest of `computeConfidence`. `history` gives each pseudonym
the slots it observed, and `Record` adds one. `Union` is the loop over the sorted
pairs, row by row (`Merged`, `MergeRow`), whose step `Link` is `parent.set(find(b), find(a))`;
`Groups` are the classes with a witness of the target, by their root; the facets are averages over groups of
their weakest member, with the policy's numbers. What an observation says of
itself (class, age, place, accuracy, evidence) ranges over `Profiles`, any set of such records. What
the entropies of a group's history come to is any member of `Entropies`, chosen for each group, and
nothing ties a group's value with a member to its value without: a copy's own hours and geohashes
enter the history (`confidence.ts:370-393`) and can move it either way. Against it stands `GroupsConnect`, which defines the
connected components without a union-find: two witnesses are apart when some
set closed under co-occurrence holds one and not the other.

### 2.3 ObservationRelay

`row`, `owner` and `worker` are the table, the ownership row and a process's memory.
The points of a worker are the awaits of `#process`. `txs` are the transactions
signed so far: `Include` puts one in a block up to its last valid height,
`Abandon` forks an unfinalized block away, `FinalizeBlock` makes one final,
`IncludeOther` is another relay's submission under the same nullifier, of the same observation or
of another one, `ChangePolicy` a change of verifier key, policy version or root. `confirm` finds a
commitment that matches (`CommitmentFinalized`), one that does not and on which it throws (`Mismatched`), or
none (`Free`). `Delivery` maps a
row to an outcome of the abstract module.

### 2.4 ObservationPolicy

A call's `pc` is its next await: chain snapshot, checks, proof, commit, and the
same for a claim. `CommitVerdict` is what the transaction checks again, `Store` all
the rows it writes. `Environment` holds the writers outside this class
(`Enroll`, `AcceptAssertion` and `Revoke` on the same App Attest keys) and what the
chain does meanwhile.

### 2.5 AppAttestGate and ObserverEnrollment

The gate's operators are its transactions; enrollment composes them with its own
tables. An operation is a chain of commits (`GateConsume`, `GateAccept`, `Enroll`, ...)
and `Crash` may fall between any two. A challenge whose row cannot be stored (`InsertFails`) is discarded
from the gate in a step of its own (`Discard`). `vouched` is a history of which key answered for
which commitment.

### 2.6 RootPublication

Rows by revision with their wire and last valid height; `txs`, `sent`, `chain` and
`past` are the cluster's side. `Land`, `Fork`, `Finalize` and `Lapse` are the
cluster; `CallFails` is any RPC error of any step. The ring of roots is the chain's
suffix.

**DemoBootstrap.** `folder` and `state` are the run directory and `state.json`, `proc` the
point the script is at. The steps of `run` differ in their account and
instruction only, so one loop (`Check`, `Sign`, `ReadStatus`, `ReadHeight`, `Send`,
`Poll`, `Verify`) runs through the names in order; the funding of the escrow, which
compares balances, is told apart. `MustDeploy` is the decision to call the CLI, whose
answer may be lost with the deployment made or not (`CallCLI`). An error inside
`run` goes through its `finally` block (`SaveState`, `WriteReport`), a death does not and
leaves the lock. `Ack` is the loop over the records that are still open: what it
acknowledges is in memory (`acked`) until `SaveState`, and stays acknowledged when a later
record fails the loop. Outside the script transactions settle, someone pays part of the
funding or all of it into the escrow (`gifts`), the verifier is used, and the source
database grows.

**Gate2Replay.** One journal, one duplicate. `Inspect` to `Compare` are
`recoverGate2Replay`. The commands exist to test the program, so `Land` lets the
cluster do anything with the duplicate, accept it included; `books` counts
changes of what a snapshot reads, and `landed` is what it was when the duplicate was executed.

### 2.7 DeviceFirmware

`nvs` is flash, everything else is lost with power. `Reserve` and `Partial` give the
states flash can be left in by an interrupted reservation or first boot.
The nonce table with its eviction and the rate window are those of `guard.c`: a
table by slot, and the times of recent attempts without the order of their slots,
which nothing reads.

### 2.8 ChallengeController

`phone` is the controller and its `ChallengeSession`. `tasks` holds requests
whose `Task` has not resumed, those of ended sessions too; `generation` tells
them apart as in the code. `air` holds answers that may arrive once, again, or
never. `Counting` are the devices that claim capability bit 1, the monotonic counter: only
theirs is compared (`ChallengeSession.swift:104-109`, `ObservationCapture.swift:61-63`). A save drops
captures of past epochs and, beyond 256, the oldest (`ObservationCache.swift:33-37`); which ones `Save`
drops is left open. A callback whose handler returns at its first guard changes nothing and
is left out.

### 2.9 ObservationOutbox

`file` is what survives a kill. `models` has, for each opening of the submission screen, its
`ObservationSubmissionModel` with its own outbox: `busy` and `draining` are theirs
(`ObservationSessionView.swift:204`, `ObservationSubmission.swift:230`) and the preparation's `Task` outlives the screen, so
two of them can work on the one file. `overlapped` records that one began while another was
at work. A drain works on the snapshot it took while
the file changes under it. `service` is external: per endpoint the counter it
has seen and the observations it took. `AssertElsewhere` is a withdrawal or
another screen's refresh of the path: same key, same service, no look at the
queue. `Only`, the filter behind the loop's `where` and `removeAll`, keeps the entries by rank:
`SelectSeq` is a primitive to the provers, which cannot say what it returns.

**PayoutRecovery.** `op` is the await a screen's operation is at and what it has read
so far. `ReadSaved`, `ReadStatus`, `ReadHeight`, `Decide` and `Send` are `retrySaved`, in the
order that matters: the nonce on which `RecoveryAction` decides is read after the
block height. A file of an earlier version, without a last valid height, is an initial
state. `Kill` ends the app between any two awaits, before and after the file
is written.

### 2.10 DensityScanner

The accumulator's counters, segments of two clocks, the radio as CoreBluetooth
reports it (`availability`, the last callback) and as it is (`radio`), and the
export cache (`cached`, `exportURL`). One assumption about CoreBluetooth is
built in: its state does not change a second time before the callback for the last
change has run (`undelivered` is a Boolean). `heard` is a history of everything
heard from an advertiser.

## 3 Runs

Times are with two workers on a small machine.

| Run | States | Time | Result |
|---|---|---|---|
| `Payments` | 1.4 M | 125 s | pass |
| `Confidence` | 439 k | 55 s | pass |
| `Reports` | 1.1 M | 110 s | pass |
| `Relay` | 605 k | 80 s | pass, with liveness and refinement |
| `RelayRace` | 150 | 1 s | violation, see 6.1 |
| `Policy` | 1.6 M | 130 s | pass |
| `Enrollment` | 1.1 M | 140 s | pass |
| `Operator` | 473 k | 150 s | pass, with liveness |
| `Device` | 4.2 M | 130 s | pass |
| `Challenge` | 1.3 M | 110 s | pass, with liveness |
| `PhoneFiles` | 1.7 M | 130 s | pass |
| `Density` | 898 k | 50 s | pass |

`Reports`, `Operator` and `PhoneFiles` each check modules that belong to one part of the
system and share no state. A variable of the MC module (`side`, `process`, `part`), chosen
in the initial state, says which of them moves, so that the states add up and do not multiply;
each module is explored exactly as it would be by itself. Three instances have a state constraint
beside their constants: `Focused` (`Confidence`), `Paired` (`Reports`) and `Bounded` (`PhoneFiles`), defined in the MC modules;
the theorems are without them.

Deadlock is not checked where the bounds let a model run out of events; no
component waits for another in a cycle, and where something must happen a
liveness property says so. `Density` checks it.

**Payments.** Two observers and two withdrawal keys, one device, two epochs, two
rewards, the initial fee of 20 % and one of 100 %, escrows funded once, twice or not
at all (the larger reward takes a whole deposit), one paid slot, two claim signatures. `Solvent`,
`AccountsBalance` (tokens are conserved; epoch counters agree with the
commitments), `KeyAuthorized` and `KeyNeverRebound` hold although fees and
rewards change between an observation and its withdrawal and a claim is
signed for either key. `QuoteHonoured` compares the service's quote with each observation:
paid exactly when a slot was quoted, with the net reward quoted, and one slot fewer afterwards,
at the last slot and with an escrow that cannot pay too. `MaxAmount` of 6 makes the overflow checks refuse.

**Confidence.** Two observers, two epochs with overlapping windows; three evaluations, each signed
at any later time and submitted in any order, perhaps long after the tree has grown or after a
later evaluation was published; five roots through a ring of four, so that it fills and wraps. `Focused` keeps
the two questions apart: the ring turns over before anything is evaluated, beside one observation at most.
`RootRing`; `ConfidenceCurrent`; `NeverRestored` (a confidence that was replaced, or withdrawn by an
observation, does not come back, although every signed report stays good for anyone to submit); `ClosedEpochFinal`.
That confidence moves forward in time is *not* true and not claimed, see 6.2.

**Reports.** Two run directories, three commands in all, up to three observations
(depth 2, so both a carry and an empty sibling occur) of which the first has no
sealed input, and four observations and blocks, or two of them and one policy change or observation
elsewhere; a blockhash lives for one block. That is enough for
a first publication, its replacement from the other directory after the epoch has grown, an epoch that
grows between the two reads, a transaction that lapses, is forked away or lands
after its command died. `TreeSound`: the frontier computes the tree, and every
report anywhere lists it in its order. `JournalSound`: a confirmed journal and a
recorded row stand for a finalized transaction, and the report behind the hash on
chain is in a journal. `ScoreSound` holds for every history of three pseudonyms over
three slots and every combination of four profiles: groups are the components of
the co-occurrence graph, facets and score stay within 0 and 10000, and a pseudonym
that copies another's slots, whatever it claims, adds no witness, earns no verdict, raises none of the five facets
beside behaviour, and gains at most that facet's weight (1500 of 10000), with behaviours of 0 and
10000 for every group.
Two numbers are not the policy's there: a threshold of one half (the policy: 0.8), so
that three slots are enough for a chain of two pairs, and a weight of 1 for an
unknown deployer (the policy: 0.2), so that three groups reach the verdict
(with the policy's weight it takes eight).

**Relay.** One job, two processes, another relay with a matching or a foreign commitment, one fault, one stop, two
transaction generations, two blocks between inclusion and finality. `TransactionsTracked`
(one live transaction at most, and its outcome is not thrown away) and `RowsConsistent`
are the safety of the recovery; `EverySettled`
and the refinement `ImplementsDelivery` its promise. `EverySettled` excepts the job whose nullifier is taken by a commitment to another
observation: `confirm` throws on it (`observation-adapter.ts:71-84`), the catch of `tick` backs off, and this
repeats for ever. Jobs do not interact except
through the batch, which one job does not fill; that a full batch of retried jobs lets others
pass follows from `retry_at` and is not checked here.

**Policy.** Six envelopes that collide pairwise in transcript, nullifier, assertion,
device counter or pseudonym, one with a bad proof, two claims, two slots (the
service's limit), one foreign event, tables at their capacity. `ReceiptsSound` (nullifiers,
counters and assertions are spent once, and all rows of an acceptance are there),
`AnswersConsistent`, `RevocationHolds`.

**Enrollment.** Two keys, two commitments, four challenges with pending tables of
three (a trial alone takes three), one expiry, a crash between any two commits.
`EnrolledByVoucher` (with a challenge accepted at most once), `StoresConsistent`, `NothingUndone`.

**Operator.** *Publisher*: three leaves in batches of two, a ring of one, two faults among lost
answers, lapses, forks and restarts. `PublicationSound` (roots land in order, one live
transaction, confirmed means final, the cached check is of the latest row),
`EveryLeafPublished`. *Setup*: four steps around and with the funding, two faults among
failed requests, lost CLI answers, deaths and foreign deposits, a source that grows while it is
copied, an empty directory or one prepared without a database. `SetupSound`: one transaction signed
for each step, complete means complete (only the escrow's funding may have come from others,
see 6.2), and the root published is that of the database in the directory. `SetupResolved`: resumed often enough, the setup writes its complete
report or reaches `NeedsInspection`, the states in which the script stops for the operator, provided
that no report is lost (`ReportLost`, see 6.2): after that one interruption no resumption writes it.
*Gate 2*: two observations, two faults, one change of the accounting by others and one second observer.
`RejectionReal`: row, journal and evidence stand for a duplicate that was finalized
as E_NULLIFIER with the accounting as it was when it was signed.

**Device.** Three nonces over a table of two, the code's relation between table, rate
and lifetime kept (`CapacityAssumption`: the lifetime is a whole number of windows and the
table holds what they admit, 300 = 30 per minute for ten minutes), three boots, reservations of two counters and a counter that runs
out. `DeviceSound` (one identity, a device that starts again, no nonce answered twice, no stale
answer), `CounterForward`.

**Challenge.** Two devices, one that claims a monotonic counter and one that does not, two epochs, two sessions, two
interruptions, a cache whose saves drop any captures. `CaptureSound`
is the property the session exists for (three fresh answers of one device in one epoch, with rising
counters if the device claims them; `ChallengeCoreTests.swift:301-305` accepts a repeated one otherwise); `NoSpuriousFailure` says an honest
radio's repetitions never fail it; `ControllerConsistent` that every stage
has its timer; `SessionEnds`.

**PhoneFiles.** *Outbox*: two observations, two services, two submission screens (both at once for one service, one
for both), a queue of two and one receipt, four
assertions of which one is made elsewhere. `OutboxConsistent` (the file loads again whatever the screens do;
and those that take turns do not overtake one another), `NothingDropped`, for two at once as well. *Withdrawals*: two
screens, two signed withdrawals or one and a saved one of an earlier version, a blockhash that lives for one of
four blocks, rewards in between. `WithdrawalTracked`: a signed transaction that can still take
effect is the one in the file, and "expired" and "finalized" are said only of
transactions that are. The first part has the premise that no two withdrawals ran at once, see 6.2.

**Density.** Four rules with a conflict, a tie broken by confidence and a higher
priority; two advertisers of which one is retained; a clock that goes back; two
interruptions. `ControllerHonest`, `VerdictOfAllHeard`, `ExportsSound`.

Every property has a mutant in `PROJECT.json`: a definition changed the way a
plausible bug would change it, under which TLC finds the property violated.

## 4 Fairness

* **Relay** (`FairSpec`): a supervisor reopens the worker under a free pid
  (`docs/dev34-verifier-signature-relayer.md` says what happens if it is the dead
  owner's), the scheduler keeps calling `tick`, every request ends within its
  timeout, `retry_at` passes, the cluster goes on finalizing. Faults and stops are
  finite. Nothing is assumed about whether a transaction is ever included:
  lapse and the generation limit settle the job.
* **Publisher**: timers tick, calls return, delays pass, and the network
  lands and finalizes what is sent to it. Faults are finite. Without the last
  assumption no publisher could promise anything, as there is no limit on
  retries.
* **Setup**: the operator resumes it whenever it stops ("Resume an interrupted run
  with the **same** command/configuration", `docs/dev37-reproducible-demo.md:98`) and removes the
  lock of a dead process; the process takes its steps; the cluster settles what
  was sent. Running and importing are strongly fair, because another command may hold the
  lock again and again. Deaths and faults are finite.
* **Challenge**: timers fire, requests end (ten-second timeouts), and an app does
  not stay inactive for ever, since iOS makes it active again or moves it to the
  background, which ends the session. Nothing is assumed of Bluetooth or the user.

## 5 Theorems

What TLC checks on a small instance, TLAPS proves for every value of the
constants, bounds of the model included. Each proof module states its inductive
invariant first (`IInv` or the names below); TLC has checked every one of them as an
invariant of its run's instance before it was proved. An invariant is proved from three facts,
that `Init` implies it, that each action preserves it (one lemma per action or group of actions
that change the same state), and that it implies the property; an action property is proved from
the invariant and one step.

The constants' assumptions are the named `ASSUME`s of the modules, which TLC evaluates
on every run. Most say that a number is a natural number or that `None` is none of the
values it stands beside. The others are named below.

### 5.1 PathnodProgramProofs

For every set of protocols, devices, observers, roots and keys, every reward, rate
and bound, from `SetsAssumption` and `NumbersAssumption`:

| Theorem | Statement |
|---|---|
| `TypeCorrect` | `Spec => []TypeOK` |
| `VaultsSolvent` | `Spec => []Solvent` |
| `WithdrawalsAuthorized` | `Spec => []KeyAuthorized` |
| `KeysPermanent` | `Spec => KeyNeverRebound` |
| `ConfidenceNeverStale` | `Spec => []ConfidenceCurrent` |
| `ConfidenceNeverRestored` | `Spec => []NeverRestored` |
| `ClosedEpochsFinal` | `Spec => ClosedEpochFinal` |
| `LastFourRootsActive` | `Spec => []RootRing` |
| `CountersExact` | `Spec => []EpochAccounting` |
| `BooksBalance` | `Spec => []AccountsBalance` |
| `QuotesHonoured` | `Spec => QuoteHonoured` |

`Typed` = `TypeOK /\ Registered` is the inductive invariant under all of them:
`TypeOK` alone does not say that a protocol that exists has a real verifier and a
version, which the types of what it signs need. `FeeBounds`, `CreditTyped`, `DebitTyped` and
`AppendTyped` are facts about the operators. `PayoutChanges`, `KeyChanges`, `EpochChanges`,
`RootChanges` and `ConfidenceChanges` reduce a step of any of the sixteen actions to the few ways it can
change a payout, an epoch or the ring; each safety theorem is then a short argument from
one of them. `Solvent`, `KeyAuthorized` and `ConfidenceCurrent` are inductive with
`Typed`. `NeverRestored` is not: a signed report stays good for as long as its predecessor is
the published confidence, so one has to know that its predecessor does not return either. `ChainInv` says so:
an evaluation is signed once (`SignedOnce`, the journal); a report whose evaluation has been published
replaced nothing or what is history now (`ReplacedIsHistory`); and what is history was
signed, belongs to the present tree or a shorter one, and to the present one only while a confidence is
published (`HistorySound`).

`RootRing` says that the active roots are the last `RootWindow` published. `RingInv` says where:
publication `j` is at place `(j - 1) % RootWindow` as long as it is among the last
`RootWindow`, and no root is published twice. That a new root overwrites the oldest and
no other is a fact about remainders, for every size of the ring.

`EpochAccounting` is the part of `AccountsBalance` about epochs: counters are the numbers of
the commitments stored and paid for. `CountInv` adds that these sets are finite, so that a commitment
adds exactly one. `QuoteHonoured` uses it and `Priced` (a protocol with paid slots has
a reward): the slots quoted are counted from commitments, those paid from the epoch's byte.

The other part of `AccountsBalance` is that tokens are conserved, an equation of sums over all
accounts. A sum is stated as the number of its units (`Units`, `Total`), so that a credit of
`n` adds `n` units and a sum changes as a cardinality does, without an induction over the accounts.
`BookInv` adds that each of these sets of units is finite, whatever the sets of accounts are.

### 5.2 ObservationRelayProofs

From `RelayAssumption`, for any number of jobs, processes, batches, generations and faults:

| Theorem | Statement |
|---|---|
| `RowsAgreeWithChain` | `Spec => []RowsConsistent` |
| `NothingLostSightOf` | `Spec => []TransactionsTracked` |
| `RelayImplementsDelivery` | `Spec => ImplementsDelivery`, the refinement of `ObservationDelivery` |

The three safety invariants are not inductive: why the row's transaction may be
replaced depends on what the worker saw several awaits ago. `IInv` adds `OneOwner` (a process that
runs has the owner row), `BatchSound` (the batch in memory still agrees with the rows, except for
the job that is being sent), `WorkersSound` with `Knows` (what a worker may rely on at each await: a "failed" it
was told is true; a transaction is set aside only when it has expired and did not succeed),
`TxsSound` (an included transaction was included before it expired) and `RowsSound` (as many
transactions were signed as the row has generations). The step to remember is `Prepare`: two live
transactions are excluded because the second look at the old one came after its expiry.

The refinement maps a row to an outcome. Each action either leaves all outcomes alone or is one step of
the abstract module (`Finalize`, `Confirm` or `Fail`), which only settles open jobs: that is `BatchSound`'s
fact that the jobs of a batch are live. It is the safety part of the abstract module that is
implemented; its fairness is `EverySettled`, a matter of TLC.

### 5.3 ObservationPolicyProofs

From `PolicyAssumption`, for any set of envelopes and claims and any number of
requests side by side:

| Theorem | Statement |
|---|---|
| `ReceiptsCountOnce` | `Spec => []ReceiptsSound` |
| `RevokedKeysRefused` | `Spec => RevocationHolds` |
| `AnswersTrue` | `Spec => AnswersConsistent` |

`IInv` = `TypeOK`, `Tables`, `CallsSound`. The tables need `Placed` (a receipt is stored under its own
transcript), `TicksKept` (a device's accepted counters lie up to the one stored) and `OwnersObserved`; `CallAt` says
what a request has established at each await, in particular that a counter read
before the proof check is below the assertion, which the transaction compares again.

### 5.4 ObserverEnrollmentProofs

From `GateAssumption` and `EnrollmentAssumption`, for any keys, commitments,
lifetimes and table limits:

| Theorem | Statement |
|---|---|
| `IdentitiesVouched` | `Spec => []EnrolledByVoucher` |
| `StoresAgree` | `Spec => []StoresConsistent` |
| `NothingTakenBack` | `Spec => NothingUndone` |

`Gate` is about challenges: ids are fresh, an id is in one table entry at most and accepted once
at most, a live enrollment row still has its gate challenge (`PendingBacked`), and `CallSound` says
what the operation under way holds between two commits, which is where a crash may end it. `Tree` is
about revisions: the leaves are numbered without gaps, root `r` holds the leaves below `r`, and one first
enrollment is recorded for each revision.

### 5.5 OperatorProofs

About the three processes of `MCOperator`, from `PublicationAssumption` and `OperatorAssumption`, and about the
confidence command, from `ReportsAssumption`:

| Theorem | Statement |
|---|---|
| `RootsPublishedInOrder` | `Spec => []PublicationSound` (`RootPublication`) |
| `RejectionsAreReal` | `OperatorSpec => []RejectionReal` (`Gate2Replay`) |
| `SetupsAreSound` | `OperatorSpec => []SetupSound` (`DemoBootstrap`) |
| `TreeStaysSound` | `ReportsSpec => []TreeSound` (`ConfidencePublication`, `EpochTree`) |
| `JournalStaysSound` | `ReportsSpec => []JournalSound` (`ConfidencePublication`) |
| `ScoreStaysSound` | `ReportsSpec => []ScoreSound` (`ConfidenceScore`) |

*Publisher*, for every batch and ring size and number of leaves and faults: `Replaced`, `WiresSound` and `OneOpen` say that only the latest
row is open and keeps its transaction until that has lapsed; therefore a transaction that lands
publishes a later revision than all that landed before.

*Gate 2*, for every set of observations: `GateInv` adds to the property that the accounting only counts up (`BooksRise`). It lies
between the journal's snapshot before and the one after; when the two agree, so does what it was
when the duplicate was executed. `CommandSound` ties the running command to the journal's observation.

*Setup*, for every list of steps before and after the funding: `SetupInv` has `JournalTrue` (a record for each signature, an
acknowledgement only of what is final), `Underway` (the steps behind the current one have been made, and
the record is what the point of `send` supposes), `EscrowBounded`, `Completed` (a
complete state in memory that is not on disk has just passed `Ack`) and `RightDatabase`. The attempt to prove
`SetupSound` as it was first stated failed for a reason TLC's bounds had hidden: with two faults nobody could pay the
whole funding. The model now lets others pay any part of it in one step, and the property
names the exception (6.2). It also showed that the model acknowledged records in a run
that had not reached `Ack`; `SaveState` now saves what `Ack` acknowledged.

*Confidence command*, for every depth of the tree and any number of directories, commands and
events, with one invariant `ReportsInv` for both theorems. `EpochGrown` is about the tree: `FrontierFor` says that the frontier
holds, for each set bit of the count, the node of the complete tree that is the left sibling on
the next leaf's path. `ClimbKeeps` follows an append up the levels: below the level reached the path's node is
the complete tree's (`SameLeft`: nodes left of the path do not change; `EmptyRight`: those right of it are empty),
which gives the root, and `AppendKeeps` the frontier for the next leaf, where the count's carry
(`ShiftNext`) decides which siblings are new. The command's rebuilt root equals the chain's only if its order is the tree's, because symbolic
hashes do not collide (`RebuiltSound`, `SameRoot`), so every report that is filed is `InTreeOrder`. `Desks` says what
each directory's computed report, journal, transaction and command have to do with one another at every
await, and `Published` that the row and the hash on chain are the report of some directory's finalized transaction;
a journal is not replaced before its transaction is settled, which is what keeps `Published`.

*Score*, for every number of pseudonyms, any finite set of slots, every history and every set of profiles; of the
policy's numbers it needs that the threshold is below 10000 (the policy: 8000) and the deployer's weight at most that.
Nothing is assumed of the histories, so the invariant is their type (`Observing`) and the work is in what the
operators compute. The union-find: `Rooted` gives a parent function a map to roots and a distance that falls towards
them, so that `find` ends (`RootsAre`); `Connected` says that the pairs up to (i, j) have one root and that no
`Closed` set, one no co-occurring pair leaves, holds a root and not its members. `MergeJoins` carries it over one pair,
`UnionJoins` over the loops, and `RootsConnect` concludes that two pseudonyms have one root exactly when no closed set
separates them. The scale: a sum of naturals is the number of its units (`TotalCounts`), from which it rises
with its terms in whatever order they come (`TotalRises`), and the averages are between their bounds. Copies: a copy co-occurs with what it copied (here
the threshold matters), so taking it away leaves everybody else's roots together or apart
(`RootsKept`) and the groups correspond one to one to the groups without it (`CopyThins`, `Thinned`); a group
with fewer members has no smaller minimum and loses no vote. `FacetsRise` concludes that the report without the
copy dominates the one with it (`Dominated`): five facets are no smaller, the witness facet is the same, the score is
smaller by the behaviour's weight at most (`ScoreGain`), and the verdict is kept. Of the behaviours nothing is
assumed but their scale.

### 5.6 DeviceFirmwareProofs

For every number of nonces, boots and attempts, every window, counter width and reservation, from `FirmwareAssumption` and
`CapacityAssumption`. The latter is the relation the firmware's constants have (ten windows of one
minute, thirty attempts in each, three hundred places); with a smaller table the theorem is false.

| Theorem | Statement |
|---|---|
| `OneDeviceOneAnswer` | `Spec => []DeviceSound` |
| `CountersGoUp` | `Spec => CounterForward` |

`CounterSound` relates three places: what was signed lies below the counter in
memory, that below the reservation in flash, through every interrupted write. That a nonce is
answered once is a counting argument: each entry of the table was an attempt, so a window of time holds at most `GlobalLimit`
of them (`TableSparse`), so the entries still alive do not fill the table when a new one is admitted, so the place taken is free or its
entry is dead, so what was signed within the lifetime is still there (`Remembered`) and its
repetition is refused.

### 5.7 PhoneProofs

For any devices, epochs, sessions and interruptions, from `ControllerAssumption`, and for any limits, hashes,
services, screens, withdrawals and blocks, from `PhoneAssumption`:

| Theorem | Statement |
|---|---|
| `EveryStageServed` | `Spec => []ControllerConsistent` |
| `CapturesAreThreeAnswers` | `Spec => []CaptureSound` |
| `LateAnswersHarmless` | `Spec => []NoSpuriousFailure` |
| `OutboxStaysConsistent` | `PhoneSpec => []OutboxConsistent` (`ObservationOutbox`) |
| `OutboxDropsNothing` | `PhoneSpec => NothingDropped` (`ObservationOutbox`) |
| `WithdrawalsTracked` | `PhoneSpec => []WithdrawalTracked` (`PayoutRecovery`) |

*Session.* `Shape` says what the controller holds in each stage and `Clock` which timer runs. `Requests` says that a
request carrying the running session's generation is the one its stage waits for, so that those of ended
sessions do nothing. `Air` says that of the device being visited nothing is in the air but the answer to
the pending challenge and answers already accepted; this is what makes repeated
notifications harmless, and it holds because a disconnected device's answers go with its link. `Ordered`
(each challenge is newer than those before it) makes the three answers of a capture distinct; the counters are what
`Valid` compares, for `Counting`, which is any set of devices. A save may drop any captures.

*Outbox.* `OutboxInv` has two parts. `Sound` holds whatever the screens do: the file has its form, each model
knows what it works on (`Fits`), and only a service which took an observation answers with a
receipt (`Honest`), which is why nothing is dropped. That assertions are not overtaken depends on what is on its way, and holds
only until two models have been at work at once (`overlapped`); until then at most one is (`OneAtWork`), and
`Serial` is about that one. It says that at most one entry waits for
each service (`Single`); that a drain sends what still waits in the file, and that nothing waits
while a new observation is prepared (`DrainShape`); that a request on the wire is no newer than the entry that waits for its
service, and older than the one in preparation (`InOrder`, `Ahead`). The lemmas about `Only` (`KeptAt`) say that a filtered
queue has the kept entries in their order.

*Withdrawals.* `PaidOnce` says that a transaction that paid has its nonce behind it and that what was declared
replaced cannot pay any more; `Held` that the height on which an operation decides has been finalized. The rest holds only
while no two operations have overlapped (`OneAtATime`): a new withdrawal is prepared while there is no file, so the nonce it read
stays current, a saved one is reconciled while it is in the file (`Attached`), and the file's nonce passes only
when its own transaction has paid (`Tracked`).

### 5.8 DensityScannerProofs

From `RegistryAssumption` (what `ClassificationRegistry.init` accepts),
`FiniteRegistry` (the registry is a finite list, so matching rules have a
preferred one) and `BoundsAssumption`:

| Theorem | Statement |
|---|---|
| `MergingIsClassification` | merging the verdicts of two sets of sightings is the verdict of their union |
| `VerdictsIndependentOfOrder` | `Spec => []VerdictOfAllHeard` |
| `ScreenHonest` | `Spec => []ControllerHonest` |
| `ExportsStaySound` | `Spec => []ExportsSound` |

The first is the algebra: `HigherPrevails` and `EqualContend` split on the priorities of
the two winners. The second adds `Held` (outcomes and history have their types) and
follows from it for `Record`, the only action that changes an outcome. The third
is by cases over the handlers with `HonestInv` = `TypeOK /\ Honesty`. The property
itself is not inductive: it says that a scanning session has one of two reasons
(the manager scans, or a callback is on its way) and `Honesty` says which, by the
radio's state; it also says what a pending Start looks like in an inactive scene
and that a scanning session is below its limit of interruptions. `VerdictInv` gives
the types of the outcomes after a step.

The fourth is about counters kept beside the data they count. `Counted` says that each is the
number of retained outcomes with that category or rule, and `Recounted` what replacing one
outcome does to these numbers. `makeDocument` compares sums of counters: `TotalCounts` (by the least set that
would be a counterexample) turns a sum over keys into the number of outcomes with those keys, and
`RuleOrUnknown`, that an outcome has a rule exactly when its category is not unknown, makes the two sums agree. It uses
the second theorem: an outcome is a verdict of the classifier. `Timely` is the comparison of the two
durations; `Filed` adds that a Start which waits for the radio has cleared the directory.

### 5.9 Only model-checked

Liveness, which rests on fairness and `ENABLED`: `EverySettled`, `EveryLeafPublished`,
`SetupResolved`, `SessionEnds`. Every invariant and action property of the passing runs is proved.

The library's induction theorems take an operator as a parameter, which the provers cannot
instantiate. Where a proof needs an induction over data (levels of a tree, sets of counters, lengths of
a queue, pairs of a union-find), it takes the least counterexample instead (`LeastOf`, from the library's theorem on
well-founded relations), and recursive functions are shown to satisfy their equations the same way.

## 6 Where code and text disagree

### 6.1 A queued job is failed although its commitment is on chain

`RelayRace` violates `NeverFailsCommitted`. A queued job finds no matching
commitment (`observation-relay.ts:143`); another relay's submission of the same
observation is finalized; `eligible` (line 144) then sees the nullifier as used,
and line 149 marks the job failed. `verifier/tests/observation-relay.test.ts:169`
says "an externally finalized matching commitment resolves queued and
failed-signature jobs". The window is one RPC call wide, and a failed row is not
looked at again. The observation itself is not lost: it is on chain.

### 6.2 Observations without a run

* `ObservationSubmission.swift:289` says "An older assertion in backoff must not be
  overtaken by a newer counter." One opening of the submission screen keeps to it by its own
  `busy` and `draining`. Two do not: leaving "Observe a device" and opening it again while a preparation runs gives a
  second model on the same file, which sees an empty queue, refreshes its path or queues an envelope
  with a newer counter, and the first one's envelope is refused. Nor does the rest of the app: a
  withdrawal (`EarningsView.swift:132`) and the
  enrollment screen (`ObserverEnrollmentClient.swift:80`) assert with the same key
  without looking at the queue. `OutboxConsistent` therefore claims the order under the premises
  `~overlapped` and `elsewhere = 0`; without either of them TLC finds the overtaking in a few steps.
* `dev39-confidence.ts` takes `evaluatedAt` from `computed.json` (lines 328-334) and the commitment to replace from
  the chain when it publishes (347, 378), and `confidence.rs` compares no evaluation times. With two run directories
  over one tree an older evaluation can replace a newer one. `NeverRestored` is what remains true.
* A job whose nullifier is taken by a commitment to another observation is never settled: `confirm` throws
  (`observation-adapter.ts:71-84`) before `eligible` could fail it. It takes another authorization of the verifier key
  under the same nullifier, which `observation-policy.ts` does not give as long as it keeps its receipts; without the last
  disjunct of `EverySettled` TLC finds it.
* An observation the service has rejected stays in the queue, and preparing it
  again reports it as queued (`ObservationSubmission.swift:279`,
  `ObservationSessionView.swift:306`), while `docs/dev32-observation-submission.md:97`
  says such entries are "retained and labelled rejected, not automatically
  retried".
* Two run directories of the confidence command write one database row per
  epoch. A command that has verified its publication and not yet written the row
  can overwrite the row of a newer one; `JournalSound` still holds (the row is of
  a finalized transaction), and a reader who compares its hash with the chain
  sees that it is stale.
* The setup script saves a complete state (`dev37-demo.ts:326`) before it writes the
  report (line 343) and does not write the report of a setup that it finds complete.
  A process that dies in between leaves none, or an incomplete one, for good, and
  the gate 2 commands require `report.complete` (`dev38-gate2.ts:107`), while
  `docs/dev37-reproducible-demo.md:98` says to "Resume an interrupted run". `ReportLost` is this state, and `SetupResolved` has
  its absence as a premise; without the premise TLC finds it violated.
* Anyone may pay into the escrow, and the script only compares its balance
  (`dev37-demo.ts:283-290`). A setup whose whole funding came from others completes without
  a `fund_escrow` transaction; if the escrow is used up later, a run of that complete setup
  signs one then. `SetupSound` makes this one exception, for `gifts` of the funding or more.
* `report` of gate 2 requires a rejected journal and does not compare its `hash` with
  the selected transcript (`dev38-gate2.ts:363`); with another `transcriptHash` in the
  configuration it names one observation and another's duplicate.
  `RejectionReal` says of the evidence that its duplicate was real, not that
  the two agree.
* `busy` of `EarningsView` belongs to the view, and its `Task` outlives it. Leaving the
  screen and opening it again can run two withdrawals at once, and one can then
  remove or replace the file of the other while its transaction is live. The claim nonce
  still lets only one of them pay. `overlap` marks these behaviours.
* `computeConfidence` counts co-occurrence within the 30-day window only. For a target
  epoch older than that the sets are empty, no pseudonyms are merged, and copies count as
  witnesses, while `docs/dev39-confidence.md` says that "the complete target epoch
  is included even when it is older than that window". `ScoreSound` is about a target
  inside the window.

## 7 What is not modelled

* **Cryptography**: circuits, Groth16, Poseidon, certificate chains, CBOR and DER,
  sealing. They appear as what they guarantee.
* **Entropies** (`confidence.ts:104-134`): Q24 logarithms by squaring 49-bit numbers
  are beyond TLC's 32-bit integers; a group's behaviour is any value of the scale, so nothing is said of how far a copy
  moves that facet.
* **Encodings and transaction layouts**, pinned by shared vectors.
* **HTTP**: routing, parsing, status codes; only the limit of two concurrent
  validations matters to the policy and is there as `Slots`.
* **Status answers** (`observation-status.ts`): read-only.
* **Informational parts of the program**: the proof spikes of DEV-15 and DEV-16 and
  the informational verifier account, which nothing else reads.
* **Validation scripts** (`dev35-submit.ts`, `dev27-registry.ts`): end-to-end tests against a
  local validator, straight-line code without a journal, a retry or a recovery.
* **The device simulator**: a test double (the dashboard's directory is empty).
* **Two endpoints**: the phone reads heights from its own RPC and balances through the
  service. `PayoutRecovery` assumes that finalized reads do not go back from one to the
  other; an endpoint that lags by more than a blockhash's life could make the phone
  replace a withdrawal that has paid, which the nonce would stop.
* **Sensors, labels, round-trip times** of the phone's session: shown, not acted on.

## 8 Plan

The modules above are in the order they were built: the program first,
because all value is there; then the three services whose recovery is subtle
(relay, policy with gate and enrollment, root publication); then the device and
the phone; then the confidence command; then withdrawals, quotes, the score and
the operator's scripts.

Next, model:

1. `AttestClient`: the phone's key record (`AppAttestClient.swift`) composed with
   `AppAttestGate`: a key is never left unusable by a kill between attesting and saving,
   and what the phone takes for attested the gate accepts.
2. The relay with two jobs and a batch of one: a job that is retried does not
   starve the next.

## 9 Running it

    tlc -workers 2 -config Payments.cfg MCPathnodProgram
    tlapm PathnodProgramProofs.tla

The module of each run is in `PROJECT.json`. `Relay`, `Operator` and `Challenge`
check liveness and use no symmetry.
