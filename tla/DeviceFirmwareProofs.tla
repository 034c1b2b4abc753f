------------------------ MODULE DeviceFirmwareProofs ------------------------
(* Theorems about DeviceFirmware, for every table size, rate limit, lifetime *)
(* and counter width, and any number of boots.                               *)
EXTENDS DeviceFirmware, FiniteSetTheorems, WellFoundedInduction, TLAPS

-----------------------------------------------------------------------------
(* The inductive invariant. *)

FlashRecord == [seed: Nat \cup {None}, counter: 1 .. MaxCounter \cup {None}, mode: {1, None}]
IdentityRecord == [seed: Nat \cup {None}, next: 0 .. MaxCounter + 1, ceiling: 0 .. MaxCounter, ready: BOOLEAN]
Entry == [nonce: Nonces, admitted: Nat, used: Nat]
Table == [1 .. Capacity -> Entry \cup {None}]
Attempts == [1 .. GlobalLimit -> Nat \cup {None}]
GuardRecord == [nonces: Table, attempts: Attempts]
SessionRecord == [connected: BOOLEAN, last: Nat \cup {None}, wrote: Nonces \cup {None}, response: Response \cup {None}]

\* What was signed lies below the counter in use and below what flash keeps,
\* and flash never marks the mode without a counter.
CounterSound ==
    /\ identity.ready => identity.seed # None
    /\ identity.seed # None => identity.seed = nvs.seed /\ identity.next >= 1
    /\ identity.next <= identity.ceiling + 1 /\ identity.ceiling <= Ceiling(nvs)
    /\ \A x \in signed : x.seed = nvs.seed /\ x.counter <= Ceiling(nvs) /\ (identity.seed # None => x.counter < identity.next)
    /\ nvs.counter = None => nvs.mode = None

SessionSound ==
    /\ session.connected => identity.seed # None
    /\ ResponseFresh

\* The entries admitted and the attempts counted from a time on.
AdmittedFrom(t) == {i \in 1 .. Capacity : guard.nonces[i] # None /\ guard.nonces[i].admitted >= t}
AttemptsFrom(t) == {i \in 1 .. GlobalLimit : guard.attempts[i] # None /\ guard.attempts[i] >= t}

\* The entries admitted in the window that begins at a time.
AdmittedIn(t) == {i \in AdmittedFrom(t) : guard.nonces[i].admitted < t + RateWindow}

\* Each recent entry was an attempt, so that no window holds more entries than
\* attempts are allowed in it.
TableSparse ==
    /\ \A i \in 1 .. Capacity : guard.nonces[i] # None => guard.nonces[i].admitted <= now
    /\ \A i \in 1 .. GlobalLimit : guard.attempts[i] # None => guard.attempts[i] <= now
    /\ \A t \in Int : t + RateWindow > now => Cardinality(AdmittedFrom(t)) <= Cardinality(AttemptsFrom(t))
    /\ \A t \in Int : Cardinality(AdmittedIn(t)) <= GlobalLimit

\* While the device is up, what it signed in this boot and in the lifetime of
\* a nonce is in the table.
Remembered ==
    /\ \A x \in signed : x.boot <= boots
    /\ identity.seed # None =>
          \A x \in signed : x.boot = boots =>
              /\ x.at <= now
              /\ now - x.at < NonceLifetime =>
                    \E i \in 1 .. Capacity :
                        guard.nonces[i] # None /\ guard.nonces[i].nonce = x.nonce /\ guard.nonces[i].admitted = x.at

IInv == TypeOK /\ CounterSound /\ SessionSound /\ TableSparse /\ Remembered /\ NonceOnce

-----------------------------------------------------------------------------
(* Types. *)

Typed ==
    /\ nvs \in FlashRecord
    /\ identity \in IdentityRecord
    /\ guard \in GuardRecord
    /\ session \in SessionRecord
    /\ now \in Nat /\ boots \in Nat
    /\ signed \subseteq Response

LEMMA Types == (TypeOK <=> Typed) /\ (TypeOK' <=> Typed')
  BY Zenon DEF TypeOK, Typed, FlashRecord, IdentityRecord, GuardRecord, Table, Attempts, Entry, SessionRecord

LEMMA Numbers ==
    /\ NonceLifetime \in Nat /\ RateWindow \in Nat /\ RateWindow > 0
    /\ GlobalLimit \in Nat /\ GlobalLimit > 0 /\ Capacity \in Nat /\ Capacity > 0
    /\ Reservation \in Nat /\ Reservation > 0 /\ MaxCounter \in Nat /\ MaxCounter > 0
  BY FirmwareAssumption

LEMMA GuardFacts ==
    ASSUME Typed
    PROVE  /\ guard.nonces \in Table /\ guard.attempts \in Attempts
           /\ \A i \in 1 .. Capacity : guard.nonces[i] # None =>
                 guard.nonces[i] \in Entry /\ guard.nonces[i].admitted \in Nat
           /\ \A i \in 1 .. GlobalLimit : guard.attempts[i] # None => guard.attempts[i] \in Nat
  BY DEF Typed, GuardRecord, Table, Attempts, Entry

LEMMA SignedFacts ==
    ASSUME Typed, NEW x \in signed
    PROVE  x.seed \in Nat /\ x.counter \in Nat /\ x.counter >= 1 /\ x.nonce \in Nonces /\ x.boot \in Nat /\ x.at \in Nat
  BY DEF Typed, Response

-----------------------------------------------------------------------------
(* Finite sets. *)

LEMMA UpTo == ASSUME NEW n \in Nat PROVE IsFiniteSet(1 .. n) /\ Cardinality(1 .. n) = n
  BY FS_Interval

LEMMA Subset ==
    ASSUME NEW n \in Nat, NEW S, S \subseteq 1 .. n
    PROVE  IsFiniteSet(S) /\ Cardinality(S) \in Nat /\ Cardinality(S) <= n
  <1>1. IsFiniteSet(S) /\ Cardinality(S) <= Cardinality(1 .. n)
    BY UpTo, FS_Subset
  <1> QED
    BY <1>1, UpTo, FS_CardinalityType

LEMMA Contained ==
    ASSUME NEW S, NEW T, IsFiniteSet(T), S \subseteq T
    PROVE  Cardinality(S) <= Cardinality(T)
  BY FS_Subset

LEMMA Covered ==
    ASSUME NEW S, NEW T, NEW U, IsFiniteSet(S), IsFiniteSet(T), U \subseteq S \cup T
    PROVE  Cardinality(U) <= Cardinality(S) + Cardinality(T)
  <1>1. IsFiniteSet(S \cup T) /\ Cardinality(S \cup T) = Cardinality(S) + Cardinality(T) - Cardinality(S \cap T)
    BY FS_Union
  <1>2. IsFiniteSet(S \cap T) /\ Cardinality(S \cap T) \in Nat
    BY FS_Intersection, FS_CardinalityType
  <1>3. IsFiniteSet(U) /\ Cardinality(U) <= Cardinality(S \cup T)
    BY <1>1, FS_Subset
  <1>4. Cardinality(U) \in Nat /\ Cardinality(S) \in Nat /\ Cardinality(T) \in Nat
    BY <1>3, FS_CardinalityType
  <1> QED
    BY <1>1, <1>2, <1>3, <1>4

LEMMA Grown ==
    ASSUME NEW S, NEW x, IsFiniteSet(S)
    PROVE  /\ IsFiniteSet(S \cup {x}) /\ Cardinality(S) \in Nat /\ Cardinality(S \cup {x}) \in Nat
           /\ Cardinality(S \cup {x}) <= Cardinality(S) + 1
           /\ x \notin S => Cardinality(S \cup {x}) = Cardinality(S) + 1
  <1>1. IsFiniteSet(S \cup {x}) /\ Cardinality(S \cup {x}) = IF x \in S THEN Cardinality(S) ELSE Cardinality(S) + 1
    BY FS_AddElement
  <1>2. Cardinality(S) \in Nat
    BY FS_CardinalityType
  <1> QED
    BY <1>1, <1>2

\* A set of naturals has a least element.
LEMMA LeastOf == ASSUME NEW S \in SUBSET Nat, S # {} PROVE \E m \in S : \A n \in S : m <= n
  <1> DEFINE R == {ss \in Nat \X Nat : ss[1] < ss[2]}
  <1>1. IsWellFoundedOn(R, Nat)
    BY NatLessThanWellFounded DEF OpToRel
  <1>2. PICK m \in S : \A y \in S : ~ (<<y, m>> \in R)
    BY <1>1, WFMin
  <1>3. ASSUME NEW n \in S PROVE m <= n
    <2>1. <<n, m>> \in Nat \X Nat /\ <<n, m>>[1] = n /\ <<n, m>>[2] = m
      OBVIOUS
    <2>2. ~ (n < m)
      BY <1>2, <2>1
    <2> QED
      BY <2>2
  <1> QED
    BY <1>3

-----------------------------------------------------------------------------
(* The replay table never evicts a nonce that is still live. *)

LEMMA TableFinite ==
    ASSUME NEW t
    PROVE  /\ IsFiniteSet(AdmittedFrom(t)) /\ Cardinality(AdmittedFrom(t)) \in Nat
           /\ IsFiniteSet(AdmittedIn(t)) /\ Cardinality(AdmittedIn(t)) \in Nat
           /\ IsFiniteSet(AttemptsFrom(t)) /\ Cardinality(AttemptsFrom(t)) \in Nat
  <1>1. AdmittedFrom(t) \subseteq 1 .. Capacity /\ AdmittedIn(t) \subseteq 1 .. Capacity /\ AttemptsFrom(t) \subseteq 1 .. GlobalLimit
    BY DEF AdmittedFrom, AdmittedIn, AttemptsFrom
  <1> QED
    BY <1>1, Subset, Numbers

\* An attempt that the limit admits finds fewer entries than the limit in the
\* window that ends with it.
LEMMA WindowNotFull ==
    ASSUME Typed, TableSparse, Unused # {}, NEW t \in Int, t + RateWindow > now
    PROVE  Cardinality(AdmittedFrom(t)) <= GlobalLimit - 1
  <1>1. PICK u \in 1 .. GlobalLimit : Recent[u] = None
    BY DEF Unused
  <1>2. u \notin AttemptsFrom(t)
    <2> SUFFICES ASSUME guard.attempts[u] # None, guard.attempts[u] >= t PROVE FALSE
      BY DEF AttemptsFrom
    <2>1. guard.attempts[u] \in Nat /\ now \in Nat
      BY GuardFacts DEF Typed
    <2>2. InWindow(guard.attempts[u])
      BY <2>1, Numbers DEF InWindow
    <2>3. Recent[u] = guard.attempts[u]
      BY <2>2 DEF Recent
    <2> QED
      BY <1>1, <2>3
  <1>3. AttemptsFrom(t) \cup {u} \subseteq 1 .. GlobalLimit
    BY DEF AttemptsFrom
  <1>4. Cardinality(AttemptsFrom(t) \cup {u}) = Cardinality(AttemptsFrom(t)) + 1
    BY <1>2, TableFinite, Grown
  <1>5. Cardinality(AttemptsFrom(t) \cup {u}) <= GlobalLimit
    BY <1>3, Subset, Numbers
  <1>6. Cardinality(AdmittedFrom(t)) <= Cardinality(AttemptsFrom(t))
    BY DEF TableSparse
  <1> QED
    BY <1>4, <1>5, <1>6, TableFinite, Numbers

LEMMA NotAllLive ==
    ASSUME Typed, TableSparse, Unused # {}
    PROVE  \E i \in 1 .. Capacity : ~Live(i)
  <1>1. PICK m \in 1 .. Capacity : NonceLifetime = m * RateWindow /\ Capacity = m * GlobalLimit
    BY CapacityAssumption
  <1>2. m \in Nat /\ m >= 1 /\ now \in Nat
    BY <1>1, Numbers DEF Typed
  <1> DEFINE Since(j) == now + 1 - j * RateWindow
             A(j) == AdmittedFrom(Since(j))
             Bad == {j \in 1 .. m : ~(Cardinality(A(j)) <= j * GlobalLimit - 1)}
  <1>3. \A j \in 1 .. m : j \in Nat /\ Since(j) \in Int /\ j * GlobalLimit \in Nat
    BY <1>2, Numbers
  <1>4. Bad = {}
    <2> SUFFICES ASSUME Bad # {} PROVE FALSE
      OBVIOUS
    <2>1. Bad \in SUBSET Nat
      BY <1>3
    <2>2. PICK b \in Bad : \A n \in Bad : b <= n
      BY <2>1, LeastOf
    <2>3. b \in 1 .. m /\ ~(Cardinality(A(b)) <= b * GlobalLimit - 1)
      BY <2>2
    <2>4. b # 1
      <3> SUFFICES ASSUME b = 1 PROVE FALSE
        OBVIOUS
      <3>1. Since(b) = now + 1 - RateWindow /\ Since(b) \in Int /\ Since(b) + RateWindow > now /\ b * GlobalLimit = GlobalLimit
        BY <1>2, Numbers
      <3>2. Cardinality(A(b)) <= GlobalLimit - 1
        BY <3>1, WindowNotFull
      <3> QED
        BY <2>3, <3>1, <3>2
    <2>5. PICK c \in 1 .. m : b = c + 1
      <3>1. b \in Nat /\ b - 1 \in 1 .. m /\ b = (b - 1) + 1
        BY <1>2, <2>3, <2>4
      <3> QED
        BY <3>1
    <2>6. Cardinality(A(c)) <= c * GlobalLimit - 1
      <3>1. ~(b <= c)
        BY <1>3, <2>5
      <3> QED
        BY <2>2, <3>1
    <2>7. b * RateWindow = c * RateWindow + RateWindow /\ b * GlobalLimit = c * GlobalLimit + GlobalLimit
      BY <1>3, <2>5, Numbers
    <2>8. Since(b) \in Int /\ Since(c) \in Int /\ Since(b) + RateWindow = Since(c)
      BY <1>2, <1>3, <2>3, <2>5, <2>7, Numbers
    <2> HIDE DEF Since
    <2>9. A(b) \subseteq A(c) \cup AdmittedIn(Since(b))
      <3> SUFFICES ASSUME NEW i \in A(b), i \notin A(c) PROVE i \in AdmittedIn(Since(b))
        OBVIOUS
      <3>1. i \in 1 .. Capacity /\ guard.nonces[i] # None /\ guard.nonces[i].admitted \in Nat
        BY GuardFacts DEF AdmittedFrom
      <3>2. ~(guard.nonces[i].admitted >= Since(c))
        BY <3>1 DEF AdmittedFrom
      <3>3. guard.nonces[i].admitted < Since(b) + RateWindow
        BY <2>8, <3>1, <3>2
      <3> QED
        BY <3>3 DEF AdmittedIn
    <2>10. Cardinality(A(b)) <= Cardinality(A(c)) + Cardinality(AdmittedIn(Since(b)))
      BY <2>9, TableFinite, Covered
    <2>11. Cardinality(AdmittedIn(Since(b))) <= GlobalLimit
      BY <2>8 DEF TableSparse
    <2>12. /\ Cardinality(A(b)) \in Nat /\ Cardinality(A(c)) \in Nat /\ Cardinality(AdmittedIn(Since(b))) \in Nat
           /\ c * GlobalLimit \in Nat
      BY <1>3, TableFinite
    <2>13. Cardinality(A(b)) <= b * GlobalLimit - 1
      BY <2>6, <2>7, <2>10, <2>11, <2>12, Numbers
    <2> QED
      BY <2>3, <2>13
  <1>5. Cardinality(A(m)) <= Capacity - 1
    <2>1. m \in 1 .. m
      BY <1>2
    <2>2. ~(m \in Bad)
      BY <1>4
    <2>3. Cardinality(A(m)) <= m * GlobalLimit - 1
      BY <2>1, <2>2
    <2> QED
      BY <1>1, <2>3
  <1>6. Since(m) = now + 1 - NonceLifetime
    BY <1>1
  <1> SUFFICES ASSUME \A i \in 1 .. Capacity : Live(i) PROVE FALSE
    OBVIOUS
  <1>7. 1 .. Capacity \subseteq A(m)
    <2> SUFFICES ASSUME NEW i \in 1 .. Capacity PROVE i \in AdmittedFrom(now + 1 - NonceLifetime)
      BY <1>6
    <2>1. guard.nonces[i] # None /\ now - guard.nonces[i].admitted < NonceLifetime
      BY DEF Live
    <2>2. guard.nonces[i].admitted \in Nat
      BY <2>1, GuardFacts
    <2>3. guard.nonces[i].admitted >= now + 1 - NonceLifetime
      BY <1>2, <2>1, <2>2, Numbers
    <2> QED
      BY <2>1, <2>3 DEF AdmittedFrom
  <1>8. Cardinality(1 .. Capacity) <= Cardinality(A(m))
    BY <1>7, TableFinite, Contained
  <1>9. Cardinality(1 .. Capacity) = Capacity /\ Cardinality(A(m)) \in Nat
    BY UpTo, Numbers, TableFinite
  <1> QED
    BY <1>5, <1>8, <1>9, Numbers

\* So a new nonce takes the place of none that is still remembered.
LEMMA VictimDead ==
    ASSUME Typed, TableSparse, Unused # {}
    PROVE  Victim \in 1 .. Capacity /\ ~Live(Victim)
  <1>1. ~(\A i \in 1 .. Capacity : Live(i))
    BY NotAllLive
  <1> DEFINE S == {i \in 1 .. Capacity : ~Live(i)}
  <1>2. S # {} /\ S \in SUBSET Nat
    BY <1>1, Numbers
  <1>3. PICK v \in S : \A n \in S : v <= n
    BY <1>2, LeastOf
  <1>4. \A j \in 1 .. v - 1 : Live(j)
    <2> SUFFICES ASSUME NEW j \in 1 .. v - 1, ~Live(j) PROVE FALSE
      OBVIOUS
    <2>1. v \in Nat /\ v <= Capacity /\ j \in 1 .. Capacity /\ ~(v <= j)
      BY Numbers
    <2> QED
      BY <1>3, <2>1
  <1>5. \E i \in 1 .. Capacity : ~Live(i) /\ \A j \in 1 .. i - 1 : Live(j)
    BY <1>3, <1>4
  <1>6. Victim = CHOOSE i \in 1 .. Capacity : ~Live(i) /\ \A j \in 1 .. i - 1 : Live(j)
    BY <1>1 DEF Victim
  <1> QED
    BY <1>5, <1>6

-----------------------------------------------------------------------------
(* The guard stays within its limits. *)

LEMMA TableFiniteAfter ==
    ASSUME NEW t
    PROVE  /\ IsFiniteSet(AdmittedFrom(t)') /\ Cardinality(AdmittedFrom(t)') \in Nat
           /\ IsFiniteSet(AdmittedIn(t)') /\ Cardinality(AdmittedIn(t)') \in Nat
           /\ IsFiniteSet(AttemptsFrom(t)') /\ Cardinality(AttemptsFrom(t)') \in Nat
  <1>1. AdmittedFrom(t)' \subseteq 1 .. Capacity /\ AdmittedIn(t)' \subseteq 1 .. Capacity /\ AttemptsFrom(t)' \subseteq 1 .. GlobalLimit
    BY DEF AdmittedFrom, AdmittedIn, AttemptsFrom
  <1> QED
    BY <1>1, Subset, Numbers

LEMMA RecentFacts ==
    ASSUME Typed
    PROVE  /\ Recent \in Attempts
           /\ \A i \in 1 .. GlobalLimit : Recent[i] # None => Recent[i] = guard.attempts[i]
           /\ \A i \in 1 .. GlobalLimit :
                 guard.attempts[i] # None /\ InWindow(guard.attempts[i]) => Recent[i] = guard.attempts[i]
  <1>1. \A i \in 1 .. GlobalLimit : guard.attempts[i] \in Nat \cup {None}
    BY GuardFacts DEF Attempts
  <1> QED
    BY <1>1 DEF Recent, Attempts

LEMMA CountedFacts ==
    ASSUME Typed, Unused # {}
    PROVE  /\ Counted \in Attempts
           /\ \E u \in 1 .. GlobalLimit : Recent[u] = None /\ Counted = [Recent EXCEPT ![u] = now]
  <1> DEFINE u == CHOOSE i \in Unused : TRUE
  <1>1. u \in Unused /\ u \in 1 .. GlobalLimit /\ Recent[u] = None
    BY DEF Unused
  <1>2. Counted = [Recent EXCEPT ![u] = now]
    BY DEF Counted
  <1>3. now \in Nat /\ Recent \in Attempts
    BY RecentFacts DEF Typed
  <1> HIDE DEF u
  <1>4. [Recent EXCEPT ![u] = now] \in Attempts
    BY <1>1, <1>3 DEF Attempts
  <1> QED
    BY <1>1, <1>2, <1>4

\* Attempts that still count are kept, and the table admits none.
LEMMA SameEntriesSparse ==
    ASSUME Typed, TableSparse, now' = now,
           \A i \in 1 .. Capacity : guard'.nonces[i] # None =>
               guard.nonces[i] # None /\ guard'.nonces[i].admitted = guard.nonces[i].admitted,
           \A i \in 1 .. GlobalLimit : guard'.attempts[i] # None => guard'.attempts[i] = now \/ guard'.attempts[i] = guard.attempts[i],
           \A i \in 1 .. GlobalLimit :
               guard.attempts[i] # None /\ InWindow(guard.attempts[i]) => guard'.attempts[i] = guard.attempts[i]
    PROVE  TableSparse'
  <1>1. \A i \in 1 .. Capacity : guard'.nonces[i] # None => guard'.nonces[i].admitted <= now'
    BY DEF TableSparse
  <1>2. \A i \in 1 .. GlobalLimit : guard'.attempts[i] # None => guard'.attempts[i] <= now'
    <2>1. now \in Nat
      BY DEF Typed
    <2> QED
      BY <2>1 DEF TableSparse
  <1>3. ASSUME NEW t \in Int, t + RateWindow > now'
        PROVE  Cardinality(AdmittedFrom(t)') <= Cardinality(AttemptsFrom(t)')
    <2>1. AdmittedFrom(t)' \subseteq AdmittedFrom(t)
      BY DEF AdmittedFrom
    <2>2. AttemptsFrom(t) \subseteq AttemptsFrom(t)'
      <3> SUFFICES ASSUME NEW i \in AttemptsFrom(t) PROVE i \in AttemptsFrom(t)'
        OBVIOUS
      <3>1. i \in 1 .. GlobalLimit /\ guard.attempts[i] # None /\ guard.attempts[i] >= t /\ guard.attempts[i] \in Nat /\ now \in Nat
        BY GuardFacts DEF AttemptsFrom, Typed
      <3>2. InWindow(guard.attempts[i])
        BY <1>3, <3>1, Numbers DEF InWindow
      <3> QED
        BY <3>1, <3>2 DEF AttemptsFrom
    <2>3. Cardinality(AdmittedFrom(t)) <= Cardinality(AttemptsFrom(t))
      BY <1>3 DEF TableSparse
    <2>4. Cardinality(AdmittedFrom(t)') <= Cardinality(AdmittedFrom(t)) /\ Cardinality(AttemptsFrom(t)) <= Cardinality(AttemptsFrom(t)')
      BY <2>1, <2>2, Contained, TableFinite, TableFiniteAfter
    <2> QED
      BY <2>3, <2>4, TableFinite, TableFiniteAfter
  <1>4. ASSUME NEW t \in Int PROVE Cardinality(AdmittedIn(t)') <= GlobalLimit
    <2>1. AdmittedIn(t)' \subseteq AdmittedIn(t)
      BY DEF AdmittedIn, AdmittedFrom
    <2>2. Cardinality(AdmittedIn(t)') <= Cardinality(AdmittedIn(t)) /\ Cardinality(AdmittedIn(t)) <= GlobalLimit
      BY <2>1, Contained, TableFinite DEF TableSparse
    <2> QED
      BY <2>2, TableFinite, TableFiniteAfter, Numbers
  <1> QED
    BY <1>1, <1>2, <1>3, <1>4 DEF TableSparse

LEMMA TickSparse ==
    ASSUME Typed, TableSparse, now' = now + 1, UNCHANGED guard
    PROVE  TableSparse'
  <1>1. now \in Nat /\ \A t : AdmittedFrom(t)' = AdmittedFrom(t) /\ AdmittedIn(t)' = AdmittedIn(t) /\ AttemptsFrom(t)' = AttemptsFrom(t)
    BY DEF Typed, AdmittedFrom, AdmittedIn, AttemptsFrom
  <1>2. \A i \in 1 .. Capacity : guard'.nonces[i] # None => guard'.nonces[i].admitted <= now'
    BY <1>1, GuardFacts DEF TableSparse
  <1>3. \A i \in 1 .. GlobalLimit : guard'.attempts[i] # None => guard'.attempts[i] <= now'
    BY <1>1, GuardFacts DEF TableSparse
  <1>4. ASSUME NEW t \in Int, t + RateWindow > now'
        PROVE  Cardinality(AdmittedFrom(t)') <= Cardinality(AttemptsFrom(t)')
    <2>1. t + RateWindow > now
      BY <1>1, <1>4, Numbers
    <2> QED
      BY <1>1, <2>1 DEF TableSparse
  <1>5. \A t \in Int : Cardinality(AdmittedIn(t)') <= GlobalLimit
    BY <1>1 DEF TableSparse
  <1> QED
    BY <1>2, <1>3, <1>4, <1>5 DEF TableSparse

LEMMA EmptySparse == (guard = EmptyGuard => TableSparse) /\ (guard' = EmptyGuard => TableSparse')
  <1>1. ASSUME guard = EmptyGuard PROVE TableSparse
    <2>1. \A t : AdmittedFrom(t) = {} /\ AdmittedIn(t) = {} /\ AttemptsFrom(t) = {}
      BY <1>1 DEF EmptyGuard, AdmittedFrom, AdmittedIn, AttemptsFrom
    <2>2. /\ \A i \in 1 .. Capacity : guard.nonces[i] = None
          /\ \A i \in 1 .. GlobalLimit : guard.attempts[i] = None
      BY <1>1 DEF EmptyGuard
    <2>3. Cardinality({}) = 0 /\ 0 <= GlobalLimit
      BY FS_EmptySet, Numbers
    <2>4. \A t : Cardinality(AdmittedFrom(t)) <= Cardinality(AttemptsFrom(t)) /\ Cardinality(AdmittedIn(t)) <= GlobalLimit
      BY <2>1, <2>3
    <2> QED
      BY <2>2, <2>4 DEF TableSparse
  <1>2. ASSUME guard' = EmptyGuard PROVE TableSparse'
    <2>1. \A t : AdmittedFrom(t)' = {} /\ AdmittedIn(t)' = {} /\ AttemptsFrom(t)' = {}
      BY <1>2 DEF EmptyGuard, AdmittedFrom, AdmittedIn, AttemptsFrom
    <2>2. /\ \A i \in 1 .. Capacity : guard'.nonces[i] = None
          /\ \A i \in 1 .. GlobalLimit : guard'.attempts[i] = None
      BY <1>2 DEF EmptyGuard
    <2>3. Cardinality({}) = 0 /\ 0 <= GlobalLimit
      BY FS_EmptySet, Numbers
    <2>4. \A t : Cardinality(AdmittedFrom(t)') <= Cardinality(AttemptsFrom(t)') /\ Cardinality(AdmittedIn(t)') <= GlobalLimit
      BY <2>1, <2>3
    <2> QED
      BY <2>2, <2>4 DEF TableSparse
  <1> QED
    BY <1>1, <1>2

\* What an admitted nonce does to the guard, with the slots it takes named.
LEMMA AdmitFacts ==
    ASSUME Typed, TableSparse, NEW n \in Nonces, Admit(n)
    PROVE  \E v \in 1 .. Capacity, u \in 1 .. GlobalLimit :
              /\ ~Live(v) /\ Recent[u] = None
              /\ guard' \in GuardRecord
              /\ guard'.nonces = [guard.nonces EXCEPT ![v] = [nonce |-> n, admitted |-> now, used |-> now]]
              /\ guard'.attempts = [Recent EXCEPT ![u] = now]
  <1>1. Unused # {} /\ now \in Nat /\ guard.nonces \in Table
    BY GuardFacts DEF Admit, Typed
  <1>2. Victim \in 1 .. Capacity /\ ~Live(Victim)
    BY <1>1, VictimDead
  <1>3. PICK v \in 1 .. Capacity : v = Victim /\ ~Live(v)
    BY <1>2
  <1>4. PICK u \in 1 .. GlobalLimit : Recent[u] = None /\ Counted = [Recent EXCEPT ![u] = now]
    BY <1>1, CountedFacts
  <1>5. guard' = [nonces |-> [guard.nonces EXCEPT ![v] = [nonce |-> n, admitted |-> now, used |-> now]], attempts |-> Counted]
    BY <1>3 DEF Admit
  <1>6. [nonce |-> n, admitted |-> now, used |-> now] \in Entry
    BY <1>1 DEF Entry
  <1>7. [guard.nonces EXCEPT ![v] = [nonce |-> n, admitted |-> now, used |-> now]] \in Table
    BY <1>1, <1>6 DEF Table
  <1>8. Counted \in Attempts
    BY <1>1, CountedFacts
  <1>9. guard' \in GuardRecord
    BY <1>5, <1>7, <1>8 DEF GuardRecord
  <1>10. /\ guard'.nonces = [guard.nonces EXCEPT ![v] = [nonce |-> n, admitted |-> now, used |-> now]]
         /\ guard'.attempts = [Recent EXCEPT ![u] = now]
    BY <1>4, <1>5
  <1> QED
    BY <1>3, <1>4, <1>9, <1>10

LEMMA AdmitSparse ==
    ASSUME Typed, TableSparse, NEW n \in Nonces, Admit(n), now' = now
    PROVE  TableSparse'
  <1>1. PICK v \in 1 .. Capacity, u \in 1 .. GlobalLimit :
              /\ ~Live(v) /\ Recent[u] = None
              /\ guard' \in GuardRecord
              /\ guard'.nonces = [guard.nonces EXCEPT ![v] = [nonce |-> n, admitted |-> now, used |-> now]]
              /\ guard'.attempts = [Recent EXCEPT ![u] = now]
    BY AdmitFacts
  <1>2. now \in Nat /\ guard.nonces \in Table /\ Recent \in Attempts /\ Unused # {}
    BY GuardFacts, RecentFacts DEF Typed, Admit
  <1>3. /\ guard'.nonces[v].admitted = now
        /\ \A i \in (1 .. Capacity) \ {v} : guard'.nonces[i] = guard.nonces[i]
    <2>1. /\ guard'.nonces[v] = [nonce |-> n, admitted |-> now, used |-> now]
          /\ \A i \in (1 .. Capacity) \ {v} : guard'.nonces[i] = guard.nonces[i]
      BY <1>1, <1>2 DEF Table
    <2> QED
      BY <2>1
  <1>4. guard'.attempts[u] = now /\ \A i \in (1 .. GlobalLimit) \ {u} : guard'.attempts[i] = Recent[i]
    BY <1>1, <1>2 DEF Attempts
  <1>5. \A i \in 1 .. Capacity : guard'.nonces[i] # None => guard'.nonces[i].admitted <= now'
    BY <1>2, <1>3 DEF TableSparse
  <1>6. \A i \in 1 .. GlobalLimit : guard'.attempts[i] # None => guard'.attempts[i] <= now'
    BY <1>2, <1>4, RecentFacts DEF TableSparse
  <1>7. \A t \in Int : AdmittedFrom(t)' \subseteq AdmittedFrom(t) \cup {v}
    BY <1>3 DEF AdmittedFrom
  <1>8. ASSUME NEW t \in Int, t + RateWindow > now'
        PROVE  Cardinality(AdmittedFrom(t)') <= Cardinality(AttemptsFrom(t)')
    <2>1. CASE t <= now
      <3>1. u \notin AttemptsFrom(t)
        <4> SUFFICES ASSUME u \in AttemptsFrom(t) PROVE FALSE
          OBVIOUS
        <4>1. guard.attempts[u] # None /\ guard.attempts[u] >= t /\ guard.attempts[u] \in Nat
          BY GuardFacts DEF AttemptsFrom
        <4>2. InWindow(guard.attempts[u])
          BY <1>2, <1>8, <4>1, Numbers DEF InWindow
        <4> QED
          BY <1>1, <4>1, <4>2, RecentFacts
      <3>2. AttemptsFrom(t) \cup {u} \subseteq AttemptsFrom(t)'
        <4>1. u \in AttemptsFrom(t)'
          <5>1. now # None
            BY <1>2, FirmwareAssumption
          <5> QED
            BY <1>2, <1>4, <2>1, <5>1 DEF AttemptsFrom
        <4>2. ASSUME NEW i \in AttemptsFrom(t) PROVE i \in AttemptsFrom(t)'
          <5>1. i \in (1 .. GlobalLimit) \ {u} /\ guard.attempts[i] # None /\ guard.attempts[i] >= t /\ guard.attempts[i] \in Nat
            BY <3>1, GuardFacts DEF AttemptsFrom
          <5>2. InWindow(guard.attempts[i])
            BY <1>2, <1>8, <5>1, Numbers DEF InWindow
          <5>3. guard'.attempts[i] = guard.attempts[i]
            BY <1>4, <5>1, <5>2, RecentFacts
          <5> QED
            BY <5>1, <5>3 DEF AttemptsFrom
        <4> QED
          BY <4>1, <4>2
      <3>3. Cardinality(AdmittedFrom(t)) <= Cardinality(AttemptsFrom(t))
        BY <1>8 DEF TableSparse
      <3>4. Cardinality(AttemptsFrom(t) \cup {u}) = Cardinality(AttemptsFrom(t)) + 1
        BY <3>1, TableFinite, Grown
      <3>5. Cardinality(AttemptsFrom(t) \cup {u}) <= Cardinality(AttemptsFrom(t)')
        BY <3>2, TableFiniteAfter, Contained
      <3>6. IsFiniteSet(AdmittedFrom(t) \cup {v}) /\ Cardinality(AdmittedFrom(t) \cup {v}) <= Cardinality(AdmittedFrom(t)) + 1
            /\ Cardinality(AdmittedFrom(t) \cup {v}) \in Nat
        BY TableFinite, Grown
      <3>7. Cardinality(AdmittedFrom(t)') <= Cardinality(AdmittedFrom(t) \cup {v})
        BY <1>7, <3>6, Contained
      <3> QED
        BY <3>3, <3>4, <3>5, <3>6, <3>7, TableFinite, TableFiniteAfter
    <2>2. CASE ~(t <= now)
      <3>1. AdmittedFrom(t)' = {}
        <4> SUFFICES ASSUME NEW i \in AdmittedFrom(t)' PROVE FALSE
          OBVIOUS
        <4>1. i \in 1 .. Capacity /\ guard'.nonces[i] # None /\ guard'.nonces[i].admitted >= t
          BY DEF AdmittedFrom
        <4>2. guard'.nonces[i] \in Entry
          BY <1>1, <4>1 DEF GuardRecord, Table
        <4>3. guard'.nonces[i].admitted \in Nat /\ guard'.nonces[i].admitted <= now
          BY <1>5, <4>1, <4>2 DEF Entry
        <4> QED
          BY <1>2, <2>2, <4>1, <4>3
      <3> QED
        BY <3>1, FS_EmptySet, TableFiniteAfter
    <2> QED
      BY <2>1, <2>2
  <1>9. ASSUME NEW t \in Int PROVE Cardinality(AdmittedIn(t)') <= GlobalLimit
    <2>1. CASE t + RateWindow > now
      <3>1. AdmittedIn(t)' \subseteq AdmittedFrom(t) \cup {v}
        BY <1>7 DEF AdmittedIn
      <3>2. Cardinality(AdmittedFrom(t)) <= GlobalLimit - 1
        BY <1>2, <2>1, WindowNotFull
      <3>3. IsFiniteSet(AdmittedFrom(t) \cup {v}) /\ Cardinality(AdmittedFrom(t) \cup {v}) <= Cardinality(AdmittedFrom(t)) + 1
            /\ Cardinality(AdmittedFrom(t) \cup {v}) \in Nat
        BY TableFinite, Grown
      <3>4. Cardinality(AdmittedIn(t)') <= Cardinality(AdmittedFrom(t) \cup {v})
        BY <3>1, <3>3, Contained
      <3> QED
        BY <3>2, <3>3, <3>4, TableFinite, TableFiniteAfter, Numbers
    <2>2. CASE ~(t + RateWindow > now)
      <3>1. AdmittedIn(t)' \subseteq AdmittedIn(t)
        <4> SUFFICES ASSUME NEW i \in AdmittedIn(t)' PROVE i \in AdmittedIn(t)
          OBVIOUS
        <4>1. i \in 1 .. Capacity /\ guard'.nonces[i] # None /\ guard'.nonces[i].admitted >= t /\ guard'.nonces[i].admitted < t + RateWindow
          BY DEF AdmittedIn, AdmittedFrom
        <4>2. i # v
          BY <1>2, <1>3, <2>2, <4>1, Numbers
        <4> QED
          BY <1>3, <4>1, <4>2 DEF AdmittedIn, AdmittedFrom
      <3>2. Cardinality(AdmittedIn(t)') <= Cardinality(AdmittedIn(t)) /\ Cardinality(AdmittedIn(t)) <= GlobalLimit
        BY <3>1, Contained, TableFinite DEF TableSparse
      <3> QED
        BY <3>2, TableFinite, TableFiniteAfter, Numbers
    <2> QED
      BY <2>1, <2>2
  <1> QED
    BY <1>5, <1>6, <1>8, <1>9 DEF TableSparse

-----------------------------------------------------------------------------
(* The table remembers, and so no nonce is signed twice. *)

\* What was remembered before a step is remembered after it.
Keeps(i) ==
    guard.nonces[i] # None /\ now - guard.nonces[i].admitted < NonceLifetime =>
        /\ guard'.nonces[i] # None
        /\ guard'.nonces[i].nonce = guard.nonces[i].nonce
        /\ guard'.nonces[i].admitted = guard.nonces[i].admitted

LEMMA KeepRemembered ==
    ASSUME Typed, Remembered, UNCHANGED <<boots, signed>>, now' \in Nat, now' >= now,
           identity'.seed # None => identity.seed # None,
           \A i \in 1 .. Capacity : Keeps(i)
    PROVE  Remembered'
  <1>1. \A x \in signed' : x.boot <= boots'
    BY DEF Remembered
  <1>2. ASSUME identity'.seed # None, NEW x \in signed', x.boot = boots'
        PROVE  /\ x.at <= now'
               /\ now' - x.at < NonceLifetime =>
                    \E i \in 1 .. Capacity :
                        guard'.nonces[i] # None /\ guard'.nonces[i].nonce = x.nonce /\ guard'.nonces[i].admitted = x.at
    <2>1. x \in signed /\ x.at \in Nat /\ now \in Nat
      BY SignedFacts DEF Typed
    <2>2. x.at <= now
      BY <1>2, <2>1 DEF Remembered
    <2>3. ASSUME now' - x.at < NonceLifetime
          PROVE  \E i \in 1 .. Capacity :
                        guard'.nonces[i] # None /\ guard'.nonces[i].nonce = x.nonce /\ guard'.nonces[i].admitted = x.at
      <3>1. now - x.at < NonceLifetime
        BY <2>1, <2>3, Numbers
      <3>2. PICK i \in 1 .. Capacity : guard.nonces[i] # None /\ guard.nonces[i].nonce = x.nonce /\ guard.nonces[i].admitted = x.at
        BY <1>2, <2>1, <3>1 DEF Remembered
      <3> QED
        BY <3>1, <3>2 DEF Keeps
    <2> QED
      BY <2>1, <2>2, <2>3
  <1> QED
    BY <1>1, <1>2 DEF Remembered

\* A live nonce in the table is not admitted, so a new signature is far from
\* every earlier one of the same nonce.
LEMMA AdmittedNew ==
    ASSUME Typed, Remembered, NEW n \in Nonces, Admit(n), identity.seed # None,
           NEW x \in signed, x.boot = boots, x.nonce = n
    PROVE  now - x.at >= NonceLifetime
  <1> SUFFICES ASSUME ~(now - x.at >= NonceLifetime) PROVE FALSE
    OBVIOUS
  <1>1. x.at \in Nat /\ now \in Nat
    BY SignedFacts DEF Typed
  <1>2. now - x.at < NonceLifetime
    BY <1>1, Numbers
  <1>3. PICK i \in 1 .. Capacity : guard.nonces[i] # None /\ guard.nonces[i].nonce = x.nonce /\ guard.nonces[i].admitted = x.at
    BY <1>2 DEF Remembered
  <1>4. i \in Seen(n)
    BY <1>2, <1>3 DEF Seen, Live
  <1> QED
    BY <1>4 DEF Admit

LEMMA AdmitKeeps ==
    ASSUME Typed, TableSparse, NEW n \in Nonces, Admit(n)
    PROVE  /\ \A i \in 1 .. Capacity : Keeps(i)
           /\ \E v \in 1 .. Capacity : guard'.nonces[v] # None /\ guard'.nonces[v].nonce = n /\ guard'.nonces[v].admitted = now
  <1>1. PICK v \in 1 .. Capacity, u \in 1 .. GlobalLimit :
              /\ ~Live(v) /\ Recent[u] = None
              /\ guard' \in GuardRecord
              /\ guard'.nonces = [guard.nonces EXCEPT ![v] = [nonce |-> n, admitted |-> now, used |-> now]]
              /\ guard'.attempts = [Recent EXCEPT ![u] = now]
    BY AdmitFacts
  <1>2. guard.nonces \in Table /\ now \in Nat
    BY GuardFacts DEF Typed
  <1>3. [nonce |-> n, admitted |-> now, used |-> now] # None
    <2>1. [nonce |-> n, admitted |-> now, used |-> now] \in [nonce: Nonces, admitted: Nat, used: Nat]
      BY <1>2
    <2> QED
      BY <2>1, FirmwareAssumption
  <1>4. /\ guard'.nonces[v] = [nonce |-> n, admitted |-> now, used |-> now]
        /\ \A i \in (1 .. Capacity) \ {v} : guard'.nonces[i] = guard.nonces[i]
    BY <1>1, <1>2 DEF Table
  <1>5. guard'.nonces[v] # None /\ guard'.nonces[v].nonce = n /\ guard'.nonces[v].admitted = now
    BY <1>3, <1>4
  <1>6. \A i \in 1 .. Capacity : Keeps(i)
    BY <1>1, <1>4 DEF Keeps, Live
  <1> QED
    BY <1>5, <1>6

-----------------------------------------------------------------------------
(* The counter. *)

LEMMA CounterFacts ==
    ASSUME Typed
    PROVE  /\ nvs.seed \in Nat \cup {None} /\ nvs.counter \in 1 .. MaxCounter \cup {None} /\ nvs.mode \in {1, None}
           /\ Ceiling(nvs) \in 0 .. MaxCounter
           /\ nvs.counter # None => Ceiling(nvs) = nvs.counter /\ nvs.counter \in Nat
           /\ identity.seed \in Nat \cup {None} /\ identity.next \in 0 .. MaxCounter + 1
           /\ identity.ceiling \in 0 .. MaxCounter /\ identity.ready \in BOOLEAN
           /\ identity.next \in Nat /\ identity.ceiling \in Nat
  <1>1. nvs.seed \in Nat \cup {None} /\ nvs.counter \in 1 .. MaxCounter \cup {None} /\ nvs.mode \in {1, None}
    BY DEF Typed, FlashRecord
  <1>2. /\ identity.seed \in Nat \cup {None} /\ identity.next \in 0 .. MaxCounter + 1
        /\ identity.ceiling \in 0 .. MaxCounter /\ identity.ready \in BOOLEAN
    BY DEF Typed, IdentityRecord
  <1>3. Ceiling(nvs) \in 0 .. MaxCounter /\ (nvs.counter # None => Ceiling(nvs) = nvs.counter /\ nvs.counter \in Nat)
    BY <1>1, Numbers DEF Ceiling
  <1> QED
    BY <1>1, <1>2, <1>3, Numbers

LEMMA ReservedFacts ==
    ASSUME Typed, CounterSound, MustReserve
    PROVE  /\ ReservedCeiling \in 1 .. MaxCounter /\ identity.next <= ReservedCeiling /\ identity.ceiling <= ReservedCeiling
           /\ identity.seed # None /\ identity.next >= 1 /\ ReservedCeiling # None
  <1>1. identity.seed # None /\ identity.next >= 1 /\ identity.next <= MaxCounter /\ identity.next > identity.ceiling
    BY DEF CounterSound, MustReserve
  <1>2. ReservedCeiling \in 1 .. MaxCounter /\ identity.next <= ReservedCeiling /\ identity.ceiling <= ReservedCeiling
    BY <1>1, CounterFacts, Numbers DEF ReservedCeiling
  <1>3. ReservedCeiling \in Nat
    BY <1>2, Numbers
  <1> QED
    BY <1>1, <1>2, <1>3, FirmwareAssumption

\* Whatever an unfinished reservation leaves in flash is above everything
\* signed, and loads.
LEMMA PartialSound ==
    ASSUME Typed, CounterSound, MustReserve, nvs' \in Partial
    PROVE  /\ nvs' \in FlashRecord /\ nvs'.seed = nvs.seed
           /\ identity.ceiling <= Ceiling(nvs')
           /\ \A x \in signed : x.counter <= Ceiling(nvs')
           /\ nvs'.counter = None => nvs'.mode = None
  <1>1. CASE nvs' = nvs
    BY <1>1 DEF CounterSound, Typed
  <1>2. CASE nvs' # nvs
    <2> DEFINE c == ReservedCeiling
    <2>1. c \in 1 .. MaxCounter /\ identity.next <= c /\ identity.ceiling <= c /\ identity.seed # None /\ c # None
      BY ReservedFacts
    <2>2. nvs' = [nvs EXCEPT !.counter = c] \/ nvs' = [nvs EXCEPT !.counter = c, !.mode = 1]
      BY <1>2 DEF Partial
    <2> HIDE DEF c
    <2>3. nvs' \in FlashRecord /\ nvs'.seed = nvs.seed /\ nvs'.counter = c
      BY <2>1, <2>2 DEF Typed, FlashRecord
    <2>4. Ceiling(nvs') = c
      BY <2>1, <2>3 DEF Ceiling
    <2>5. ASSUME NEW x \in signed PROVE x.counter <= c
      <3>1. x.counter < identity.next /\ x.counter \in Nat
        BY <2>1, SignedFacts DEF CounterSound
      <3>2. c \in Nat
        BY <2>1
      <3> QED
        BY <2>1, <3>1, <3>2, CounterFacts
    <2> QED
      BY <2>1, <2>3, <2>4, <2>5
  <1> QED
    BY <1>1, <1>2

\* A counter that was taken is durable, and above everything signed.
LEMMA Allocated ==
    ASSUME Typed, CounterSound, Reserve \/ TakeNext
    PROVE  /\ nvs' \in FlashRecord /\ identity' \in IdentityRecord
           /\ nvs'.seed = nvs.seed /\ identity'.seed = identity.seed /\ identity.seed # None
           /\ identity.next \in 1 .. MaxCounter /\ identity'.next = identity.next + 1
           /\ identity'.next <= identity'.ceiling + 1 /\ identity'.ceiling <= Ceiling(nvs') /\ identity.next <= Ceiling(nvs')
           /\ \A x \in signed : x.counter <= Ceiling(nvs') /\ x.counter < identity.next
           /\ nvs'.counter = None => nvs'.mode = None
  <1>1. CASE Reserve
    <2> DEFINE c == ReservedCeiling
    <2>1. MustReserve /\ c \in 1 .. MaxCounter /\ identity.next <= c /\ identity.seed # None /\ identity.next >= 1 /\ c # None
      BY <1>1, ReservedFacts DEF Reserve
    <2>2. nvs' = [nvs EXCEPT !.counter = c, !.mode = 1] /\ identity' = [identity EXCEPT !.next = @ + 1, !.ceiling = c]
      BY <1>1 DEF Reserve
    <2>3. nvs' \in Partial
      BY <1>1 DEF Reserve, Partial
    <2> HIDE DEF c
    <2>4. identity.next \in 1 .. MaxCounter /\ identity.next + 1 \in 0 .. MaxCounter + 1 /\ c \in 0 .. MaxCounter /\ c \in Nat
      BY <2>1, CounterFacts, Numbers
    <2>5. identity' \in IdentityRecord
      BY <2>2, <2>4 DEF Typed, IdentityRecord
    <2>6. identity'.seed = identity.seed /\ identity'.next = identity.next + 1 /\ identity'.ceiling = c /\ nvs'.counter = c
      BY <2>2 DEF Typed, IdentityRecord, FlashRecord
    <2>7. Ceiling(nvs') = c
      BY <2>1, <2>6 DEF Ceiling
    <2>8. nvs' \in FlashRecord /\ nvs'.seed = nvs.seed /\ (\A x \in signed : x.counter <= Ceiling(nvs')) /\ (nvs'.counter = None => nvs'.mode = None)
      BY <2>1, <2>3, PartialSound
    <2>9. \A x \in signed : x.counter < identity.next
      BY <2>1 DEF CounterSound
    <2>10. identity'.next <= identity'.ceiling + 1 /\ identity'.ceiling <= Ceiling(nvs') /\ identity.next <= Ceiling(nvs')
      BY <2>1, <2>4, <2>6, <2>7
    <2> QED
      BY <2>1, <2>4, <2>5, <2>6, <2>8, <2>9, <2>10
  <1>2. CASE TakeNext
    <2>1. identity.ready /\ identity.next <= identity.ceiling /\ identity' = [identity EXCEPT !.next = @ + 1] /\ nvs' = nvs
      BY <1>2 DEF TakeNext
    <2>2. identity.seed # None /\ identity.next >= 1 /\ identity.ceiling <= Ceiling(nvs) /\ (nvs.counter = None => nvs.mode = None)
      BY <2>1 DEF CounterSound
    <2>3. identity.next \in 1 .. MaxCounter /\ identity.next + 1 \in 0 .. MaxCounter + 1
      BY <2>1, <2>2, CounterFacts, Numbers
    <2>4. /\ identity' \in IdentityRecord /\ identity'.seed = identity.seed /\ identity'.next = identity.next + 1
          /\ identity'.ceiling = identity.ceiling
      BY <2>1, <2>3 DEF Typed, IdentityRecord
    <2>5. nvs' \in FlashRecord /\ nvs'.seed = nvs.seed /\ Ceiling(nvs') = Ceiling(nvs) /\ Ceiling(nvs) \in Nat
      BY <2>1, CounterFacts, Numbers DEF Typed
    <2>6. identity'.next <= identity'.ceiling + 1 /\ identity'.ceiling <= Ceiling(nvs') /\ identity.next <= Ceiling(nvs')
      BY <2>1, <2>2, <2>4, <2>5, CounterFacts
    <2>7. \A x \in signed : x.counter <= Ceiling(nvs') /\ x.counter < identity.next
      BY <2>2, <2>5 DEF CounterSound
    <2>8. nvs'.counter = None => nvs'.mode = None
      BY <2>1, <2>2
    <2> QED
      BY <2>2, <2>3, <2>4, <2>5, <2>6, <2>7, <2>8
  <1> QED
    BY <1>1, <1>2

LEMMA AllocatedSound ==
    ASSUME Typed, CounterSound, Reserve \/ TakeNext,
           \A x \in signed' : x \in signed \/ (x.seed = identity.seed /\ x.counter = identity.next)
    PROVE  CounterSound'
  <1>1. identity.seed = nvs.seed /\ identity.seed # None
    BY Allocated DEF CounterSound
  <1>2. ASSUME NEW x \in signed'
        PROVE  x.seed = nvs'.seed /\ x.counter <= Ceiling(nvs') /\ x.counter < identity'.next
    <2>1. CASE x \in signed
      <3>1. x.seed = nvs.seed
        BY <2>1 DEF CounterSound
      <3>2. x.counter \in Nat /\ x.counter < identity.next /\ x.counter <= Ceiling(nvs') /\ identity'.next = identity.next + 1 /\ nvs'.seed = nvs.seed
        BY <2>1, SignedFacts, Allocated
      <3> QED
        BY <3>1, <3>2, CounterFacts
    <2>2. CASE x.seed = identity.seed /\ x.counter = identity.next
      <3>1. identity.next <= Ceiling(nvs') /\ identity'.next = identity.next + 1 /\ nvs'.seed = nvs.seed
        BY Allocated
      <3> QED
        BY <1>1, <2>2, <3>1, CounterFacts
    <2> QED
      BY <2>1, <2>2
  <1>3. identity'.seed = nvs'.seed /\ identity'.seed # None /\ identity'.next >= 1
    BY <1>1, Allocated, CounterFacts
  <1>4. identity'.next <= identity'.ceiling + 1 /\ identity'.ceiling <= Ceiling(nvs') /\ (nvs'.counter = None => nvs'.mode = None)
    BY Allocated
  <1> QED
    BY <1>2, <1>3, <1>4 DEF CounterSound

LEMMA CounterStays == ASSUME CounterSound, UNCHANGED <<nvs, identity, signed>> PROVE CounterSound'
  BY DEF CounterSound, Ceiling

-----------------------------------------------------------------------------
(* One lemma per action: it keeps the invariant. *)

LEMMA SeedFacts ==
    ASSUME Typed, CounterSound
    PROVE  /\ WithSeed \in FlashRecord /\ WithSeed.seed \in Nat
           /\ WithSeed.counter = nvs.counter /\ WithSeed.mode = nvs.mode /\ Ceiling(WithSeed) = Ceiling(nvs)
           /\ \A x \in signed : x.seed = WithSeed.seed
  <1>1. nvs \in FlashRecord /\ boots \in Nat
    BY DEF Typed
  <1>2. CASE nvs.seed = None
    <2>1. WithSeed = [nvs EXCEPT !.seed = boots]
      BY <1>2 DEF WithSeed
    <2>2. /\ WithSeed \in FlashRecord /\ WithSeed.seed \in Nat
          /\ WithSeed.counter = nvs.counter /\ WithSeed.mode = nvs.mode
      BY <1>1, <2>1 DEF FlashRecord
    <2>3. \A x \in signed : FALSE
      BY <1>2, SignedFacts, FirmwareAssumption DEF CounterSound
    <2> QED
      BY <2>2, <2>3 DEF Ceiling
  <1>3. CASE nvs.seed # None
    <2>1. WithSeed = nvs /\ nvs.seed \in Nat
      BY <1>3, CounterFacts DEF WithSeed
    <2> QED
      BY <1>1, <2>1 DEF CounterSound
  <1> QED
    BY <1>2, <1>3

LEMMA EmptyTyped == EmptyGuard \in GuardRecord /\ NoSession \in SessionRecord /\ Off \in IdentityRecord
  <1>1. EmptyGuard \in GuardRecord
    BY DEF EmptyGuard, GuardRecord, Table, Attempts
  <1>2. NoSession \in SessionRecord
    BY DEF NoSession, SessionRecord
  <1>3. Off \in IdentityRecord
    BY Numbers DEF Off, IdentityRecord
  <1> QED
    BY <1>1, <1>2, <1>3

LEMMA PowerOnKeeps == ASSUME IInv, PowerOn PROVE IInv'
  <1>1. Typed /\ CounterSound /\ Remembered /\ NonceOnce
    BY Types DEF IInv
  <1>2. PICK flash \in FlashRecord :
           /\ flash = WithSeed /\ flash.seed \in Nat
           /\ flash.counter = nvs.counter /\ flash.mode = nvs.mode /\ Ceiling(flash) = Ceiling(nvs)
           /\ \A x \in signed : x.seed = flash.seed
    BY <1>1, SeedFacts
  <1>3. /\ identity.seed = None /\ boots' = boots + 1 /\ now' = 0 /\ guard' = EmptyGuard /\ session' = NoSession /\ signed' = signed
        /\ \/ /\ CounterLoads(flash)
              /\ nvs' = flash
              /\ identity' = [seed |-> flash.seed, next |-> Ceiling(flash) + 1, ceiling |-> Ceiling(flash), ready |-> TRUE]
           \/ nvs' \in {nvs, flash} /\ identity' = identity
    BY <1>2 DEF PowerOn
  <1>4. nvs' \in FlashRecord /\ nvs'.counter = nvs.counter /\ nvs'.mode = nvs.mode /\ Ceiling(nvs') = Ceiling(nvs)
        /\ \A x \in signed : x.seed = nvs'.seed
    <2>1. nvs' = nvs \/ nvs' = flash
      BY <1>3
    <2> QED
      BY <1>1, <1>2, <2>1 DEF Typed, CounterSound
  <1>5. identity' \in IdentityRecord /\ CounterSound'
    <2>1. \A x \in signed' : x.seed = nvs'.seed /\ x.counter <= Ceiling(nvs')
      BY <1>1, <1>3, <1>4 DEF CounterSound
    <2>2. nvs'.counter = None => nvs'.mode = None
      BY <1>1, <1>4 DEF CounterSound
    <2>3. CASE identity' = identity
      <3>1. identity' \in IdentityRecord /\ identity'.seed = None
        BY <1>1, <1>3, <2>3 DEF Typed
      <3> QED
        BY <1>1, <1>4, <2>1, <2>2, <2>3, <3>1 DEF CounterSound
    <2>4. CASE CounterLoads(flash) /\ nvs' = flash
               /\ identity' = [seed |-> flash.seed, next |-> Ceiling(flash) + 1, ceiling |-> Ceiling(flash), ready |-> TRUE]
      <3> DEFINE c == Ceiling(nvs)
      <3>1. c \in 0 .. MaxCounter /\ c \in Nat /\ c + 1 \in 0 .. MaxCounter + 1
        BY <1>1, CounterFacts, Numbers
      <3>2. identity' = [seed |-> flash.seed, next |-> c + 1, ceiling |-> c, ready |-> TRUE] /\ Ceiling(nvs') = c
        BY <1>2, <1>4, <2>4
      <3> HIDE DEF c
      <3>3. identity' \in IdentityRecord
        BY <1>2, <3>1, <3>2 DEF IdentityRecord
      <3>4. identity'.seed = nvs'.seed /\ identity'.next = c + 1 /\ identity'.ceiling = c
        BY <2>4, <3>2
      <3>5. \A x \in signed' : x.counter < identity'.next
        <4> SUFFICES ASSUME NEW x \in signed' PROVE x.counter < identity'.next
          OBVIOUS
        <4>1. x.counter \in Nat /\ x.counter <= c
          BY <1>1, <1>3, <2>1, <3>2, SignedFacts
        <4> QED
          BY <3>1, <3>4, <4>1
      <3>6. identity'.seed # None
        BY <1>2, <2>4, <3>4, FirmwareAssumption
      <3> QED
        BY <2>1, <2>2, <3>1, <3>2, <3>3, <3>4, <3>5, <3>6 DEF CounterSound
    <2> QED
      BY <1>3, <2>3, <2>4
  <1>6. Typed'
    <2>1. boots' \in Nat /\ now' \in Nat /\ signed' \subseteq Response
      BY <1>1, <1>3 DEF Typed
    <2> QED
      BY <1>3, <1>4, <1>5, <2>1, EmptyTyped DEF Typed
  <1>7. SessionSound'
    BY <1>3 DEF SessionSound, ResponseFresh, NoSession
  <1>8. TableSparse'
    BY <1>3, EmptySparse
  <1>9. Remembered'
    <2>1. ASSUME NEW x \in signed' PROVE x.boot <= boots' /\ x.boot # boots'
      <3>1. x \in signed /\ x.boot \in Nat /\ boots \in Nat /\ x.boot <= boots
        BY <1>1, <1>3, SignedFacts DEF Remembered, Typed
      <3> QED
        BY <1>3, <3>1
    <2> QED
      BY <2>1 DEF Remembered
  <1>10. NonceOnce'
    BY <1>1, <1>3 DEF NonceOnce
  <1> QED
    BY <1>5, <1>6, <1>7, <1>8, <1>9, <1>10, Types DEF IInv

LEMMA PowerLostKeeps == ASSUME IInv, PowerLost PROVE IInv'
  <1>1. Typed /\ CounterSound /\ Remembered /\ NonceOnce
    BY Types DEF IInv
  <1>2. /\ identity' = Off /\ boots' = boots /\ now' = 0 /\ guard' = EmptyGuard /\ session' = NoSession /\ signed' = signed
        /\ (nvs' = nvs \/ (MustReserve /\ nvs' \in Partial))
    BY DEF PowerLost
  <1>3. /\ nvs' \in FlashRecord /\ nvs'.seed = nvs.seed
        /\ \A x \in signed : x.counter <= Ceiling(nvs')
        /\ nvs'.counter = None => nvs'.mode = None
        /\ Ceiling(nvs') \in Nat
    <2>1. /\ nvs' \in FlashRecord /\ nvs'.seed = nvs.seed
          /\ \A x \in signed : x.counter <= Ceiling(nvs')
          /\ nvs'.counter = None => nvs'.mode = None
      BY <1>1, <1>2, PartialSound DEF Typed, CounterSound
    <2>2. nvs'.counter \in 1 .. MaxCounter \cup {None}
      BY <2>1 DEF FlashRecord
    <2> QED
      BY <2>1, <2>2, Numbers DEF Ceiling
  <1>4. identity'.seed = None /\ identity'.next = 0 /\ identity'.ceiling = 0 /\ identity'.ready = FALSE
    BY <1>2 DEF Off
  <1>5. CounterSound'
    BY <1>1, <1>2, <1>3, <1>4 DEF CounterSound
  <1>6. Typed'
    <2>1. boots' \in Nat /\ now' \in Nat /\ signed' \subseteq Response
      BY <1>1, <1>2 DEF Typed
    <2> QED
      BY <1>2, <1>3, <2>1, EmptyTyped DEF Typed
  <1>7. SessionSound'
    BY <1>2 DEF SessionSound, ResponseFresh, NoSession
  <1>8. TableSparse'
    BY <1>2, EmptySparse
  <1>9. Remembered'
    BY <1>1, <1>2, <1>4 DEF Remembered
  <1>10. NonceOnce'
    BY <1>1, <1>2 DEF NonceOnce
  <1> QED
    BY <1>5, <1>6, <1>7, <1>8, <1>9, <1>10, Types DEF IInv

LEMMA SameTableKeeps == ASSUME UNCHANGED <<guard, now>> PROVE (TableSparse => TableSparse') /\ \A i : Keeps(i)
  <1>1. \A t : AdmittedFrom(t)' = AdmittedFrom(t) /\ AdmittedIn(t)' = AdmittedIn(t) /\ AttemptsFrom(t)' = AttemptsFrom(t)
    BY DEF AdmittedFrom, AdmittedIn, AttemptsFrom
  <1>2. TableSparse => TableSparse'
    BY <1>1 DEF TableSparse
  <1> QED
    BY <1>2 DEF Keeps

LEMMA Written ==
    ASSUME Typed, NEW n \in Nonces \cup {None}
    PROVE  /\ Cleared(n) \in SessionRecord /\ [Cleared(n) EXCEPT !.last = now] \in SessionRecord
           /\ Cleared(n).connected = session.connected /\ Cleared(n).response = None
           /\ [Cleared(n) EXCEPT !.last = now].connected = session.connected
           /\ [Cleared(n) EXCEPT !.last = now].response = None
  BY DEF Cleared, Typed, SessionRecord

\* The steps of a connection that only change the session.
LEMMA SessionStep ==
    ASSUME IInv, UNCHANGED <<nvs, identity, guard, now, boots, signed>>,
           session' \in SessionRecord, session'.response = None, session'.connected => identity.seed # None
    PROVE  IInv'
  <1>1. Typed /\ CounterSound /\ Remembered /\ NonceOnce /\ TableSparse
    BY Types DEF IInv
  <1>2. Typed'
    BY <1>1 DEF Typed
  <1>3. CounterSound'
    BY <1>1, CounterStays
  <1>4. SessionSound'
    BY DEF SessionSound, ResponseFresh
  <1>5. TableSparse' /\ Remembered'
    <2>1. now' \in Nat /\ now' >= now
      BY <1>1 DEF Typed
    <2> QED
      BY <1>1, <2>1, SameTableKeeps, KeepRemembered
  <1>6. NonceOnce'
    BY <1>1 DEF NonceOnce
  <1> QED
    BY <1>2, <1>3, <1>4, <1>5, <1>6, Types DEF IInv

LEMMA ConnectKeeps == ASSUME IInv, Connect \/ Disconnect \/ WriteMalformed PROVE IInv'
  <1>1. Typed /\ SessionSound
    BY Types DEF IInv
  <1>2. CASE Connect
    <2>1. session' = [NoSession EXCEPT !.connected = TRUE] /\ identity.seed # None
      BY <1>2 DEF Connect
    <2>2. session' \in SessionRecord /\ session'.response = None
      BY <2>1 DEF NoSession, SessionRecord
    <2> QED
      BY <1>2, <2>1, <2>2, SessionStep DEF Connect
  <1>3. CASE Disconnect
    <2>1. session' = NoSession /\ session'.response = None /\ ~session'.connected
      BY <1>3 DEF Disconnect, NoSession
    <2> QED
      BY <1>3, <2>1, EmptyTyped, SessionStep DEF Disconnect
  <1>4. CASE WriteMalformed
    <2>1. session' = Cleared(None) /\ session.connected
      BY <1>4 DEF WriteMalformed
    <2>2. session' \in SessionRecord /\ session'.response = None /\ identity.seed # None
      BY <1>1, <2>1, Written DEF SessionSound
    <2> QED
      BY <1>4, <2>2, SessionStep DEF WriteMalformed
  <1> QED
    BY <1>2, <1>3, <1>4

LEMMA TickKeeps == ASSUME IInv, Tick PROVE IInv'
  <1>1. Typed /\ CounterSound /\ SessionSound /\ TableSparse /\ Remembered /\ NonceOnce
    BY Types DEF IInv
  <1>2. now' = now + 1 /\ UNCHANGED <<nvs, identity, guard, session, boots, signed>>
    BY DEF Tick
  <1>3. now \in Nat /\ now' \in Nat /\ now' >= now
    BY <1>1, <1>2 DEF Typed
  <1>4. Typed'
    BY <1>1, <1>2, <1>3 DEF Typed
  <1>5. CounterSound'
    BY <1>1, <1>2, CounterStays
  <1>6. SessionSound'
    BY <1>1, <1>2 DEF SessionSound, ResponseFresh
  <1>7. TableSparse'
    BY <1>1, <1>2, TickSparse
  <1>8. Remembered'
    <2>1. \A i \in 1 .. Capacity : Keeps(i)
      BY <1>2 DEF Keeps
    <2> QED
      BY <1>1, <1>2, <1>3, <2>1, KeepRemembered
  <1>9. NonceOnce'
    BY <1>1, <1>2 DEF NonceOnce
  <1> QED
    BY <1>4, <1>5, <1>6, <1>7, <1>8, <1>9, Types DEF IInv

\* The steps that touch the guard, and neither the counter nor what was signed.
LEMMA GuardStep ==
    ASSUME IInv, UNCHANGED <<nvs, identity, now, boots, signed>>, guard' \in GuardRecord, session.connected,
           session' \in SessionRecord, session'.response = None, TableSparse', \A i \in 1 .. Capacity : Keeps(i)
    PROVE  IInv'
  <1>1. Typed /\ CounterSound /\ SessionSound /\ Remembered /\ NonceOnce
    BY Types DEF IInv
  <1>2. Typed'
    BY <1>1 DEF Typed
  <1>3. CounterSound'
    BY <1>1, CounterStays
  <1>4. SessionSound'
    BY <1>1 DEF SessionSound, ResponseFresh
  <1>5. Remembered'
    <2>1. now' \in Nat /\ now' >= now
      BY <1>1 DEF Typed
    <2> QED
      BY <1>1, <2>1, KeepRemembered
  <1>6. NonceOnce'
    BY <1>1 DEF NonceOnce
  <1> QED
    BY <1>2, <1>3, <1>4, <1>5, <1>6, Types DEF IInv

LEMMA RateLimitedKeeps == ASSUME IInv, NEW n \in Nonces, RateLimited(n) PROVE IInv'
  <1>1. Typed /\ SessionSound /\ TableSparse
    BY Types DEF IInv
  <1>2. session.connected /\ session' = Cleared(n) /\ UNCHANGED <<nvs, identity, now, boots, signed>>
    BY DEF RateLimited
  <1>3. session' \in SessionRecord /\ session'.response = None /\ identity.seed # None
    BY <1>1, <1>2, Written DEF SessionSound
  <1>4. CASE UNCHANGED guard
    BY <1>2, <1>3, <1>4, SessionStep
  <1>5. CASE guard' = [guard EXCEPT !.attempts = Recent]
    <2>1. guard' \in GuardRecord /\ guard'.nonces = guard.nonces /\ guard'.attempts = Recent
      BY <1>1, <1>5, RecentFacts DEF Typed, GuardRecord
    <2>2. TableSparse'
      BY <1>1, <1>2, <2>1, RecentFacts, SameEntriesSparse
    <2>3. \A i \in 1 .. Capacity : Keeps(i)
      BY <2>1 DEF Keeps
    <2> QED
      BY <1>2, <1>3, <2>1, <2>2, <2>3, GuardStep
  <1> QED
    BY <1>4, <1>5 DEF RateLimited

LEMMA ReplayedKeeps == ASSUME IInv, NEW n \in Nonces, Replayed(n) PROVE IInv'
  <1>1. Typed /\ SessionSound /\ TableSparse
    BY Types DEF IInv
  <1>2. /\ session.connected /\ session' = [Cleared(n) EXCEPT !.last = now] /\ Unused # {}
        /\ UNCHANGED <<nvs, identity, now, boots, signed>>
    BY DEF Replayed
  <1>3. session' \in SessionRecord /\ session'.response = None
    BY <1>1, <1>2, Written
  <1>4. PICK u \in 1 .. GlobalLimit : Recent[u] = None /\ Counted = [Recent EXCEPT ![u] = now]
    BY <1>1, <1>2, CountedFacts
  <1> DEFINE row(i) == IF i \in Seen(n) THEN [guard.nonces[i] EXCEPT !.used = now] ELSE guard.nonces[i]
  <1>5. guard' = [nonces |-> [i \in 1 .. Capacity |-> row(i)], attempts |-> Counted]
    BY DEF Replayed
  <1>6. now \in Nat /\ guard.nonces \in Table /\ Counted \in Attempts /\ Recent \in Attempts
    BY <1>1, <1>2, GuardFacts, CountedFacts, RecentFacts DEF Typed
  <1>7. ASSUME NEW i \in 1 .. Capacity
        PROVE  /\ row(i) \in Entry \cup {None} /\ (row(i) # None <=> guard.nonces[i] # None)
               /\ guard.nonces[i] # None => row(i).nonce = guard.nonces[i].nonce /\ row(i).admitted = guard.nonces[i].admitted
    <2>1. CASE i \in Seen(n)
      <3>1. guard.nonces[i] \in Entry /\ guard.nonces[i] # None
        BY <1>1, <2>1, GuardFacts DEF Seen, Live
      <3>2. /\ row(i) \in Entry /\ row(i).nonce = guard.nonces[i].nonce /\ row(i).admitted = guard.nonces[i].admitted
        BY <1>6, <2>1, <3>1 DEF Entry
      <3>3. row(i) # None
        BY <3>2, FirmwareAssumption DEF Entry
      <3> QED
        BY <3>1, <3>2, <3>3
    <2>2. CASE i \notin Seen(n)
      BY <1>6, <2>2 DEF Table
    <2> QED
      BY <2>1, <2>2
  <1> HIDE DEF row
  <1>8. guard' \in GuardRecord
    <2>1. [i \in 1 .. Capacity |-> row(i)] \in Table
      BY <1>7 DEF Table
    <2> QED
      BY <1>5, <1>6, <2>1 DEF GuardRecord
  <1>9. \A i \in 1 .. Capacity : guard'.nonces[i] = row(i)
    BY <1>5
  <1>10. guard'.attempts[u] = now /\ \A i \in (1 .. GlobalLimit) \ {u} : guard'.attempts[i] = Recent[i]
    <2>1. guard'.attempts = [Recent EXCEPT ![u] = now]
      BY <1>4, <1>5
    <2> QED
      BY <1>6, <2>1 DEF Attempts
  <1>11. TableSparse'
    <2>1. \A i \in 1 .. Capacity : guard'.nonces[i] # None =>
               guard.nonces[i] # None /\ guard'.nonces[i].admitted = guard.nonces[i].admitted
      BY <1>7, <1>9
    <2>2. \A i \in 1 .. GlobalLimit : guard'.attempts[i] # None => guard'.attempts[i] = now \/ guard'.attempts[i] = guard.attempts[i]
      BY <1>1, <1>10, RecentFacts
    <2>3. \A i \in 1 .. GlobalLimit :
               guard.attempts[i] # None /\ InWindow(guard.attempts[i]) => guard'.attempts[i] = guard.attempts[i]
      BY <1>1, <1>4, <1>10, RecentFacts
    <2> QED
      BY <1>1, <1>2, <2>1, <2>2, <2>3, SameEntriesSparse
  <1>12. \A i \in 1 .. Capacity : Keeps(i)
    BY <1>7, <1>9 DEF Keeps
  <1> QED
    BY <1>2, <1>3, <1>8, <1>11, <1>12, GuardStep

LEMMA RefuseKeeps == ASSUME IInv, NEW n \in Nonces, Refuse(n) PROVE IInv'
  <1>1. Typed /\ CounterSound /\ SessionSound /\ TableSparse /\ Remembered /\ NonceOnce
    BY Types DEF IInv
  <1>2. /\ Admit(n) /\ session.connected
        /\ nvs' = nvs \/ (MustReserve /\ nvs' \in Partial)
        /\ identity' = [identity EXCEPT !.ready = FALSE]
        /\ session' = [Cleared(n) EXCEPT !.last = now]
        /\ UNCHANGED <<now, boots, signed>>
    BY DEF Refuse, Admit
  <1>3. session' \in SessionRecord /\ session'.response = None /\ session'.connected = session.connected
    BY <1>1, <1>2, Written
  <1>4. /\ identity' \in IdentityRecord /\ identity'.seed = identity.seed /\ identity'.next = identity.next
        /\ identity'.ceiling = identity.ceiling /\ identity'.ready = FALSE
    BY <1>1, <1>2 DEF Typed, IdentityRecord
  <1>5. /\ nvs' \in FlashRecord /\ nvs'.seed = nvs.seed
        /\ identity.ceiling <= Ceiling(nvs')
        /\ \A x \in signed : x.counter <= Ceiling(nvs')
        /\ nvs'.counter = None => nvs'.mode = None
    BY <1>1, <1>2, PartialSound DEF Typed, CounterSound
  <1>6. guard' \in GuardRecord
    BY <1>1, <1>2, AdmitFacts
  <1>7. Typed'
    BY <1>1, <1>2, <1>3, <1>4, <1>5, <1>6 DEF Typed
  <1>8. CounterSound'
    BY <1>1, <1>2, <1>4, <1>5 DEF CounterSound
  <1>9. SessionSound'
    BY <1>1, <1>2, <1>3, <1>4 DEF SessionSound, ResponseFresh
  <1>10. TableSparse'
    BY <1>1, <1>2, AdmitSparse
  <1>11. Remembered'
    <2>1. now' \in Nat /\ now' >= now
      BY <1>1, <1>2 DEF Typed
    <2> QED
      BY <1>1, <1>2, <1>4, <2>1, AdmitKeeps, KeepRemembered
  <1>12. NonceOnce'
    BY <1>1, <1>2 DEF NonceOnce
  <1> QED
    BY <1>7, <1>8, <1>9, <1>10, <1>11, <1>12, Types DEF IInv

LEMMA SignFailsKeeps == ASSUME IInv, NEW n \in Nonces, SignFails(n) PROVE IInv'
  <1>1. Typed /\ CounterSound /\ SessionSound /\ TableSparse /\ Remembered /\ NonceOnce
    BY Types DEF IInv
  <1>2. /\ Admit(n) /\ session.connected /\ (Reserve \/ TakeNext)
        /\ session' = [Cleared(n) EXCEPT !.last = now]
        /\ UNCHANGED <<now, boots, signed>>
    BY DEF SignFails, Admit
  <1>3. session' \in SessionRecord /\ session'.response = None /\ session'.connected = session.connected
    BY <1>1, <1>2, Written
  <1>4. nvs' \in FlashRecord /\ identity' \in IdentityRecord /\ identity'.seed = identity.seed
    BY <1>1, <1>2, Allocated
  <1>5. guard' \in GuardRecord
    BY <1>1, <1>2, AdmitFacts
  <1>6. Typed'
    BY <1>1, <1>2, <1>3, <1>4, <1>5 DEF Typed
  <1>7. CounterSound'
    BY <1>1, <1>2, AllocatedSound
  <1>8. SessionSound'
    BY <1>1, <1>2, <1>3, <1>4 DEF SessionSound, ResponseFresh
  <1>9. TableSparse'
    BY <1>1, <1>2, AdmitSparse
  <1>10. Remembered'
    <2>1. now' \in Nat /\ now' >= now
      BY <1>1, <1>2 DEF Typed
    <2> QED
      BY <1>1, <1>2, <1>4, <2>1, AdmitKeeps, KeepRemembered
  <1>11. NonceOnce'
    BY <1>1, <1>2 DEF NonceOnce
  <1> QED
    BY <1>6, <1>7, <1>8, <1>9, <1>10, <1>11, Types DEF IInv

\* What Answer signs, named.
LEMMA AnswerFacts ==
    ASSUME Typed, CounterSound, NEW n \in Nonces, Answer(n)
    PROVE  \E r \in Response :
              /\ r.seed = identity.seed /\ r.counter = identity.next /\ r.nonce = n /\ r.boot = boots /\ r.at = now /\ r # None
              /\ signed' = signed \cup {r}
              /\ session' \in SessionRecord /\ session'.response = r /\ session'.wrote = n
              /\ session'.connected = session.connected
  <1> DEFINE r == [seed |-> identity.seed, counter |-> identity.next, nonce |-> n, boot |-> boots, at |-> now]
  <1>1. Reserve \/ TakeNext
    BY DEF Answer
  <1>2. identity.seed \in Nat /\ identity.next \in 1 .. MaxCounter /\ identity.next \in Nat /\ boots \in Nat /\ now \in Nat
    BY <1>1, Allocated, CounterFacts, Numbers DEF Typed
  <1>3. r \in Response
    BY <1>2 DEF Response
  <1>4. r \in [seed: Nat, counter: Nat, nonce: Nonces, boot: Nat, at: Nat]
    BY <1>2
  <1>5. r # None
    BY <1>4, FirmwareAssumption
  <1>6. signed' = signed \cup {r} /\ session' = [Cleared(n) EXCEPT !.last = now, !.response = r]
    BY DEF Answer, Sign
  <1>7. r.seed = identity.seed /\ r.counter = identity.next /\ r.nonce = n /\ r.boot = boots /\ r.at = now
    OBVIOUS
  <1> HIDE DEF r
  <1>8. session' = [session EXCEPT !.wrote = n, !.response = r, !.last = now]
    BY <1>6 DEF Cleared, Typed, SessionRecord
  <1>9. /\ session' \in SessionRecord /\ session'.response = r /\ session'.wrote = n
        /\ session'.connected = session.connected
    BY <1>2, <1>3, <1>8 DEF Typed, SessionRecord
  <1> QED
    BY <1>3, <1>5, <1>6, <1>7, <1>9

LEMMA AnswerKeeps == ASSUME IInv, NEW n \in Nonces, Answer(n) PROVE IInv'
  <1>1. Typed /\ CounterSound /\ SessionSound /\ TableSparse /\ Remembered /\ NonceOnce
    BY Types DEF IInv
  <1>2. Admit(n) /\ session.connected /\ (Reserve \/ TakeNext) /\ UNCHANGED <<now, boots>>
    BY DEF Answer, Admit
  <1>3. PICK r \in Response :
              /\ r.seed = identity.seed /\ r.counter = identity.next /\ r.nonce = n /\ r.boot = boots /\ r.at = now /\ r # None
              /\ signed' = signed \cup {r}
              /\ session' \in SessionRecord /\ session'.response = r /\ session'.wrote = n
              /\ session'.connected = session.connected
    BY <1>1, AnswerFacts
  <1>4. /\ nvs' \in FlashRecord /\ identity' \in IdentityRecord /\ identity'.seed = identity.seed /\ identity.seed # None
        /\ \A x \in signed : x.counter < identity.next
    BY <1>1, <1>2, Allocated
  <1>5. guard' \in GuardRecord
    BY <1>1, <1>2, AdmitFacts
  <1>6. Typed'
    BY <1>1, <1>2, <1>3, <1>4, <1>5 DEF Typed
  <1>7. CounterSound'
    BY <1>1, <1>2, <1>3, AllocatedSound
  <1>8. SessionSound'
    BY <1>2, <1>3, <1>4 DEF SessionSound, ResponseFresh
  <1>9. TableSparse'
    BY <1>1, <1>2, AdmitSparse
  <1>10. now \in Nat /\ boots \in Nat
    BY <1>1 DEF Typed
  <1>11. Remembered'
    <2>1. \A x \in signed' : x.boot <= boots'
      BY <1>1, <1>2, <1>3, <1>10 DEF Remembered
    <2>2. ASSUME NEW x \in signed', x.boot = boots'
          PROVE  /\ x.at <= now'
                 /\ now' - x.at < NonceLifetime =>
                      \E i \in 1 .. Capacity :
                          guard'.nonces[i] # None /\ guard'.nonces[i].nonce = x.nonce /\ guard'.nonces[i].admitted = x.at
      <3>1. CASE x = r
        BY <1>1, <1>2, <1>3, <1>10, <3>1, AdmitKeeps
      <3>2. CASE x \in signed
        <4>1. x.at <= now
          BY <1>1, <1>2, <1>4, <2>2, <3>2 DEF Remembered
        <4>2. ASSUME now - x.at < NonceLifetime
              PROVE  \E i \in 1 .. Capacity :
                        guard'.nonces[i] # None /\ guard'.nonces[i].nonce = x.nonce /\ guard'.nonces[i].admitted = x.at
          <5>1. PICK i \in 1 .. Capacity : guard.nonces[i] # None /\ guard.nonces[i].nonce = x.nonce /\ guard.nonces[i].admitted = x.at
            BY <1>1, <1>2, <1>4, <2>2, <3>2, <4>2 DEF Remembered
          <5>2. Keeps(i)
            BY <1>1, <1>2, AdmitKeeps
          <5> QED
            BY <4>2, <5>1, <5>2 DEF Keeps
        <4> QED
          BY <1>2, <4>1, <4>2
      <3> QED
        BY <1>3, <3>1, <3>2
    <2> QED
      BY <2>1, <2>2 DEF Remembered
  <1>12. NonceOnce'
    <2>1. ASSUME NEW x \in signed, x.boot = r.boot, x.nonce = r.nonce
          PROVE  r.at - x.at >= NonceLifetime
      BY <1>1, <1>2, <1>3, <1>4, <2>1, AdmittedNew
    <2>2. ASSUME NEW x \in signed', NEW y \in signed', x # y, x.boot = y.boot, x.nonce = y.nonce
          PROVE  x.at - y.at >= NonceLifetime \/ y.at - x.at >= NonceLifetime
      <3>1. CASE x \in signed /\ y \in signed
        BY <1>1, <2>2, <3>1 DEF NonceOnce
      <3>2. CASE x = r /\ y \in signed
        BY <2>1, <2>2, <3>2
      <3>3. CASE x \in signed /\ y = r
        BY <2>1, <2>2, <3>3
      <3> QED
        BY <1>3, <2>2, <3>1, <3>2, <3>3
    <2> QED
      BY <2>2 DEF NonceOnce
  <1> QED
    BY <1>6, <1>7, <1>8, <1>9, <1>11, <1>12, Types DEF IInv

-----------------------------------------------------------------------------
(* The theorems. *)

LEMMA InitIInv == Init => IInv
  <1> SUFFICES ASSUME Init PROVE IInv
    OBVIOUS
  <1>1. Typed
    <2>1. nvs \in FlashRecord
      BY DEF Init, FlashRecord
    <2> QED
      BY <2>1, EmptyTyped DEF Init, Typed
  <1>2. CounterSound
    BY DEF Init, CounterSound, Off, Ceiling
  <1>3. SessionSound
    BY DEF Init, SessionSound, ResponseFresh, NoSession
  <1>4. TableSparse
    BY EmptySparse DEF Init
  <1>5. Remembered /\ NonceOnce
    BY DEF Init, Remembered, NonceOnce
  <1> QED
    BY <1>1, <1>2, <1>3, <1>4, <1>5, Types DEF IInv

LEMMA NextIInv == IInv /\ [Next]_vars => IInv'
  <1> SUFFICES ASSUME IInv, [Next]_vars PROVE IInv'
    OBVIOUS
  <1>1. CASE PowerOn
    BY <1>1, PowerOnKeeps
  <1>2. CASE PowerLost
    BY <1>2, PowerLostKeeps
  <1>3. CASE Connect \/ Disconnect \/ WriteMalformed
    BY <1>3, ConnectKeeps
  <1>4. CASE Tick
    BY <1>4, TickKeeps
  <1>5. ASSUME NEW n \in Nonces, RateLimited(n) PROVE IInv'
    BY <1>5, RateLimitedKeeps
  <1>6. ASSUME NEW n \in Nonces, Replayed(n) PROVE IInv'
    BY <1>6, ReplayedKeeps
  <1>7. ASSUME NEW n \in Nonces, Answer(n) PROVE IInv'
    BY <1>7, AnswerKeeps
  <1>8. ASSUME NEW n \in Nonces, SignFails(n) PROVE IInv'
    BY <1>8, SignFailsKeeps
  <1>9. ASSUME NEW n \in Nonces, Refuse(n) PROVE IInv'
    BY <1>9, RefuseKeeps
  <1>10. CASE UNCHANGED vars
    <2>1. UNCHANGED <<nvs, identity, guard, session, now, boots, signed>>
      BY <1>10 DEF vars
    <2>2. Typed /\ CounterSound /\ SessionSound /\ TableSparse /\ Remembered /\ NonceOnce
      BY Types DEF IInv
    <2>3. Typed'
      BY <2>1, <2>2 DEF Typed
    <2>4. CounterSound' /\ TableSparse'
      BY <2>1, <2>2, CounterStays, SameTableKeeps
    <2>5. SessionSound'
      BY <2>1, <2>2 DEF SessionSound, ResponseFresh
    <2>6. NonceOnce'
      BY <2>1, <2>2 DEF NonceOnce
    <2>7. Remembered'
      BY <2>1, <2>2 DEF Remembered
    <2> QED
      BY <2>3, <2>4, <2>5, <2>6, <2>7, Types DEF IInv
  <1> QED
    BY <1>1, <1>2, <1>3, <1>4, <1>5, <1>6, <1>7, <1>8, <1>9, <1>10 DEF Next

\* The device's invariant holds in every state of its specification.
THEOREM AlwaysIInv == Spec => []IInv
  BY InitIInv, NextIInv, PTL DEF Spec

\* Whatever the sizes of its tables, and wherever power is lost: the device
\* starts again unless its counter is used up, signs everything under the one
\* seed it drew, answers a nonce once in the nonce's lifetime, and shows a
\* client the answer to its own last write.
THEOREM OneDeviceOneAnswer == Spec => []DeviceSound
  <1>1. IInv => DeviceSound
    <2> SUFFICES ASSUME IInv PROVE DeviceSound
      OBVIOUS
    <2>1. TypeOK /\ Typed /\ CounterSound /\ SessionSound /\ NonceOnce
      BY Types DEF IInv
    <2>2. OneIdentity
      BY <2>1 DEF OneIdentity, CounterSound
    <2>3. StartsAgain
      <3>1. nvs.counter \in 1 .. MaxCounter \cup {None} /\ (nvs.counter = None => nvs.mode = None)
        BY <2>1, CounterFacts DEF CounterSound
      <3> QED
        BY <3>1, Numbers DEF StartsAgain, CounterLoads
    <2>4. ResponseFresh
      BY <2>1 DEF SessionSound
    <2> QED
      BY <2>1, <2>2, <2>3, <2>4 DEF DeviceSound, IdentityKept, AnswersFresh
  <1> QED
    BY <1>1, AlwaysIInv, PTL

\* Every response carries a counter above those of all earlier ones, through
\* restarts and interrupted reservations.
THEOREM CountersGoUp == Spec => CounterForward
  <1> DEFINE Up == \A x \in signed' \ signed : \A y \in signed : x.counter > y.counter
  <1>1. IInv /\ [Next]_vars => [Up]_vars
    <2> SUFFICES ASSUME IInv, Next PROVE Up
      OBVIOUS
    <2>1. Typed /\ CounterSound
      BY Types DEF IInv
    <2>2. ASSUME NEW n \in Nonces, Answer(n) PROVE Up
      <3>1. PICK r \in Response : r.counter = identity.next /\ signed' = signed \cup {r}
        BY <2>1, <2>2, AnswerFacts
      <3>2. \A y \in signed : y.counter < identity.next /\ y.counter \in Nat
        BY <2>1, <2>2, Allocated, SignedFacts DEF Answer
      <3>3. identity.next \in Nat
        BY <2>1, CounterFacts
      <3> QED
        BY <3>1, <3>2, <3>3
    <2>3. ASSUME signed' = signed PROVE Up
      BY <2>3
    <2>4. ASSUME NEW n \in Nonces, RateLimited(n) \/ Replayed(n) \/ SignFails(n) \/ Refuse(n) PROVE signed' = signed
      BY <2>4 DEF RateLimited, Replayed, SignFails, Refuse
    <2>5. ASSUME PowerOn \/ PowerLost \/ Connect \/ Disconnect \/ WriteMalformed \/ Tick PROVE signed' = signed
      BY <2>5 DEF PowerOn, PowerLost, Connect, Disconnect, WriteMalformed, Tick
    <2> QED
      BY <2>2, <2>3, <2>4, <2>5 DEF Next
  <1> QED
    BY <1>1, AlwaysIInv, PTL DEF Spec, CounterForward

=============================================================================
