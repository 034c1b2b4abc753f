--------------------------- MODULE DeviceFirmware ---------------------------
(***************************************************************************)
(* The ESP32 device (firmware/esp32/main): its identity and durable        *)
(* counter, the guard against replays and floods, and the GATT session.    *)
(* NimBLE runs every callback to its end on one task; power may be lost at *)
(* any time, in the middle of a flash write too.  Whether a response is    *)
(* notified or read is left out.                                           *)
(***************************************************************************)
EXTENDS Integers, FiniteSets

CONSTANTS
    Nonces, None,
    Capacity,        \* PATHNOD_NONCE_CAPACITY
    NonceLifetime,   \* PATHNOD_NONCE_TTL_US
    RateWindow,      \* PATHNOD_RATE_WINDOW_US
    Interval,        \* PATHNOD_CONNECTION_INTERVAL_US
    GlobalLimit,     \* PATHNOD_GLOBAL_LIMIT
    Reservation,     \* PATHNOD_COUNTER_RESERVATION
    MaxCounter,      \* UINT32_MAX
    MaxTime, MaxBoots   \* bounds of the model

ASSUME FirmwareAssumption ==
    /\ None \notin Nonces /\ None \notin Nat /\ None \notin [nonce: Nonces, admitted: Nat, used: Nat]
    /\ None \notin [seed: Nat, counter: Nat, nonce: Nonces, boot: Nat, at: Nat]
    /\ NonceLifetime \in Nat \ {0} /\ RateWindow \in Nat \ {0} /\ Interval \in Nat
    /\ GlobalLimit \in Nat \ {0} /\ Capacity \in Nat \ {0}
    /\ Reservation \in Nat \ {0} /\ MaxCounter \in Nat \ {0}
    /\ MaxTime \in Nat /\ MaxBoots \in Nat

\* 300 nonces at 30 attempts a minute for ten minutes: the lifetime is a whole
\* number of windows, and the table has room for the attempts of all of them.
ASSUME CapacityAssumption ==
    \E windows \in 1 .. Capacity : NonceLifetime = windows * RateWindow /\ Capacity = windows * GlobalLimit

VARIABLES
    nvs,         \* flash: ed25519_seed, counter_v1 and counter_mode, None without an entry
    identity,    \* RAM: the seed in use, or None; next_counter, counter_ceiling and signing_ready
    guard,       \* RAM: the nonce table and the recent attempts
    session,     \* RAM: the connection
    now,         \* esp_timer_get_time
    boots,       \* how often the device was powered on
    signed       \* history: every response that was signed

vars == <<nvs, identity, guard, session, now, boots, signed>>

Off == [seed |-> None, next |-> 0, ceiling |-> 0, ready |-> FALSE]
EmptyGuard == [nonces |-> [i \in 1 .. Capacity |-> None], attempts |-> [i \in 1 .. GlobalLimit |-> None]]
NoSession == [connected |-> FALSE, last |-> None, wrote |-> None, response |-> None]

Response == [seed: Nat, counter: 1 .. MaxCounter, nonce: Nonces, boot: Nat, at: Nat]

\* The counter in flash and in memory stays within its 32 bits, and the replay
\* table within its entries.
TypeOK ==
    /\ nvs \in [seed: Nat \cup {None}, counter: 1 .. MaxCounter \cup {None}, mode: {1, None}]
    /\ identity \in [seed: Nat \cup {None}, next: 0 .. MaxCounter + 1, ceiling: 0 .. MaxCounter, ready: BOOLEAN]
    /\ guard \in [nonces: [1 .. Capacity -> [nonce: Nonces, admitted: Nat, used: Nat] \cup {None}],
                 attempts: [1 .. GlobalLimit -> Nat \cup {None}]]
    /\ session \in [connected: BOOLEAN, last: Nat \cup {None}, wrote: Nonces \cup {None}, response: Response \cup {None}]
    /\ now \in Nat /\ boots \in Nat
    /\ signed \subseteq Response

Init ==
    /\ nvs = [seed |-> None, counter |-> None, mode |-> None]
    /\ identity = Off
    /\ guard = EmptyGuard /\ session = NoSession
    /\ now = 0 /\ boots = 0
    /\ signed = {}

-----------------------------------------------------------------------------
(* Power and identity. *)

\* load_counter: once the mode is marked, a missing counter is corruption.
CounterLoads(flash) ==
    /\ flash.counter = None => flash.mode = None
    /\ flash.counter # None => flash.counter + 1 <= MaxCounter

Ceiling(flash) == IF flash.counter = None THEN 0 ELSE flash.counter

\* The seed is drawn once and never again.
WithSeed == IF nvs.seed = None THEN [nvs EXCEPT !.seed = boots] ELSE nvs

\* app_main and pathnod_identity_init; a new seed is committed before it is
\* used.  An error aborts and the device starts again.
PowerOn ==
    LET flash == WithSeed IN
    /\ identity.seed = None /\ boots < MaxBoots
    /\ boots' = boots + 1
    /\ now' = 0 /\ guard' = EmptyGuard /\ session' = NoSession
    /\ \/ /\ CounterLoads(flash)
          /\ nvs' = flash
          /\ identity' = [seed |-> flash.seed, next |-> Ceiling(flash) + 1, ceiling |-> Ceiling(flash), ready |-> TRUE]
       \/ /\ nvs' \in {nvs, flash}
          /\ UNCHANGED identity
    /\ UNCHANGED signed

ReservedCeiling ==
    IF identity.next + Reservation - 1 > MaxCounter THEN MaxCounter ELSE identity.next + Reservation - 1

PartialModeFirst == {nvs, [nvs EXCEPT !.mode = 1], [nvs EXCEPT !.counter = ReservedCeiling, !.mode = 1]}

\* What an unfinished reservation leaves in flash: entries are written in order.
Partial == {nvs, [nvs EXCEPT !.counter = ReservedCeiling], [nvs EXCEPT !.counter = ReservedCeiling, !.mode = 1]}

MustReserve == identity.ready /\ identity.next <= MaxCounter /\ identity.next > identity.ceiling

PowerLost ==
    /\ identity.seed # None
    /\ identity' = Off
    /\ nvs' \in IF MustReserve /\ session.connected THEN Partial ELSE {nvs}
    /\ guard' = EmptyGuard /\ session' = NoSession /\ now' = 0
    /\ UNCHANGED <<boots, signed>>

-----------------------------------------------------------------------------
(* The guard. *)

InWindowShort(t) == now - t < RateWindow - 1

InWindow(t) == now - t < RateWindow

\* The attempts that still count, without the order their array keeps.
Recent == [i \in 1 .. GlobalLimit |->
              IF guard.attempts[i] # None /\ InWindow(guard.attempts[i]) THEN guard.attempts[i] ELSE None]

Unused == {i \in 1 .. GlobalLimit : Recent[i] = None}

Counted == [Recent EXCEPT ![CHOOSE i \in Unused : TRUE] = now]

Live(i) == guard.nonces[i] # None /\ now - guard.nonces[i].admitted < NonceLifetime

\* pathnod_nonce_seen
Seen(n) == {i \in 1 .. Capacity : Live(i) /\ guard.nonces[i].nonce = n}

\* pathnod_nonce_insert: the first free slot, or the least recently used.
Victim ==
    IF \A i \in 1 .. Capacity : Live(i)
    THEN CHOOSE i \in 1 .. Capacity : \A j \in 1 .. Capacity :
            guard.nonces[i].used < guard.nonces[j].used \/ (guard.nonces[i].used = guard.nonces[j].used /\ i <= j)
    ELSE CHOOSE i \in 1 .. Capacity : ~Live(i) /\ \A j \in 1 .. i - 1 : Live(j)

TooSoon == session.last # None /\ now - session.last < Interval

-----------------------------------------------------------------------------
(* The session. *)

Connect ==
    /\ identity.seed # None /\ ~session.connected
    /\ session' = [NoSession EXCEPT !.connected = TRUE]
    /\ UNCHANGED <<nvs, identity, guard, now, boots, signed>>

\* A disconnect or a reset of the BLE host.
Disconnect ==
    /\ session.connected
    /\ session' = NoSession
    /\ UNCHANGED <<nvs, identity, guard, now, boots, signed>>

\* A write clears the response before anything else.
Cleared(n) == [session EXCEPT !.wrote = n, !.response = None]

\* A value of the wrong length is refused before the guard.
WriteMalformed ==
    /\ session.connected
    /\ session' = Cleared(None)
    /\ UNCHANGED <<nvs, identity, guard, now, boots, signed>>

\* Too soon on this connection, or too many attempts on the device.
RateLimited(n) ==
    /\ session.connected
    /\ \/ TooSoon /\ UNCHANGED guard
       \/ ~TooSoon /\ Unused = {} /\ guard' = [guard EXCEPT !.attempts = Recent]
    /\ session' = Cleared(n)
    /\ UNCHANGED <<nvs, identity, now, boots, signed>>

\* The attempt counts although it is a replay.
Replayed(n) ==
    /\ session.connected /\ ~TooSoon /\ Unused # {}
    /\ Seen(n) # {}
    /\ guard' = [nonces |-> [i \in 1 .. Capacity |-> IF i \in Seen(n) THEN [guard.nonces[i] EXCEPT !.used = now]
                                                     ELSE guard.nonces[i]],
                 attempts |-> Counted]
    /\ session' = [Cleared(n) EXCEPT !.last = now]
    /\ UNCHANGED <<nvs, identity, now, boots, signed>>

\* The nonce is kept before signing is tried.
Admit(n) ==
    /\ session.connected /\ ~TooSoon /\ Unused # {}
    /\ Seen(n) = {}
    /\ guard' = [nonces |-> [guard.nonces EXCEPT ![Victim] = [nonce |-> n, admitted |-> now, used |-> now]],
                 attempts |-> Counted]

Sign(n) ==
    LET response == [seed |-> identity.seed, counter |-> identity.next, nonce |-> n, boot |-> boots, at |-> now] IN
    /\ signed' = signed \cup {response}
    /\ session' = [Cleared(n) EXCEPT !.last = now, !.response = response]

ReserveLater ==
    /\ MustReserve
    /\ nvs' = nvs
    /\ identity' = [identity EXCEPT !.next = @ + 1, !.ceiling = ReservedCeiling]

\* allocate_counter with a new block, durable before the first counter of it
\* is used.
Reserve ==
    /\ MustReserve
    /\ nvs' = [nvs EXCEPT !.counter = ReservedCeiling, !.mode = 1]
    /\ identity' = [identity EXCEPT !.next = @ + 1, !.ceiling = ReservedCeiling]

\* allocate_counter within the block.
TakeNext ==
    /\ identity.ready /\ identity.next <= identity.ceiling
    /\ identity' = [identity EXCEPT !.next = @ + 1]
    /\ UNCHANGED nvs

Answer(n) ==
    /\ Admit(n)
    /\ Reserve \/ TakeNext
    /\ Sign(n)
    /\ UNCHANGED <<now, boots>>

\* The signature fails after the counter is taken; the device stays ready.
SignFails(n) ==
    /\ Admit(n)
    /\ Reserve \/ TakeNext
    /\ session' = [Cleared(n) EXCEPT !.last = now]
    /\ UNCHANGED <<now, boots, signed>>

\* No counter is left, flash failed now, or it failed before: the device does
\* not sign again before it is restarted.
Refuse(n) ==
    /\ Admit(n)
    /\ \/ ~identity.ready /\ UNCHANGED nvs
       \/ identity.ready /\ identity.next > MaxCounter /\ UNCHANGED nvs
       \/ MustReserve /\ nvs' \in Partial
    /\ identity' = [identity EXCEPT !.ready = FALSE]
    /\ session' = [Cleared(n) EXCEPT !.last = now]
    /\ UNCHANGED <<now, boots, signed>>

Tick ==
    /\ identity.seed # None /\ now < MaxTime
    /\ now' = now + 1
    /\ UNCHANGED <<nvs, identity, guard, session, boots, signed>>

Next ==
    \/ PowerOn \/ PowerLost
    \/ Connect \/ Disconnect \/ WriteMalformed
    \/ \E n \in Nonces : RateLimited(n) \/ Replayed(n) \/ Answer(n) \/ SignFails(n) \/ Refuse(n)
    \/ Tick

Spec == Init /\ [][Next]_vars

-----------------------------------------------------------------------------
(* Properties. *)

\* Counters only go up in the order of signing, across restarts and whatever a
\* failed or interrupted reservation left in flash: none is signed twice, and
\* the verifier never sees an honest device go back.
CounterForward == [][\A x \in signed' \ signed : \A y \in signed : x.counter > y.counter]_vars

\* Everything the device ever signed is under one identity.
OneIdentity == \A x, y \in signed : x.seed = y.seed

\* The device never takes its own interrupted reservation for corruption: what
\* it refuses to start with is the counter's end and nothing else.
StartsAgain == CounterLoads(nvs) \/ nvs.counter = MaxCounter

\* Within its lifetime a nonce is signed once in a boot: the rate limit keeps
\* the table from ever evicting a live nonce.
NonceOnce ==
    \A x, y \in signed :
        x # y /\ x.boot = y.boot /\ x.nonce = y.nonce => x.at - y.at >= NonceLifetime \/ y.at - x.at >= NonceLifetime

\* What a central reads answers its own last write on this connection.
ResponseFresh ==
    session.response # None => session.connected /\ session.response.nonce = session.wrote

\* Wherever power is lost, the device boots again, as the device it was, with a
\* well-formed counter.
IdentityKept == TypeOK /\ OneIdentity /\ StartsAgain

\* No nonce is answered twice while the device is up, and what a client reads is
\* the answer to its own last challenge.
AnswersFresh == ResponseFresh /\ NonceOnce

\* One device for good, and one answer to a challenge: through power losses at
\* any write, full replay tables and connections that come and go.
DeviceSound == IdentityKept /\ AnswersFresh
=============================================================================
