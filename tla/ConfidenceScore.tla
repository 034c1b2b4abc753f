--------------------------- MODULE ConfidenceScore ---------------------------
(***************************************************************************)
(* computeConfidence (confidence.ts), once its inputs are accepted: the    *)
(* target's observers are merged into groups by a union-find over the      *)
(* pairs of pseudonyms, and each facet is an average over the groups in    *)
(* basis points.                                                           *)
(*                                                                         *)
(* The history gives each pseudonym the slots it observed within the       *)
(* window, and grows as observations are recorded; what the observations   *)
(* of the target say of themselves is `target'.  Pseudonyms are numbered   *)
(* in the order of their names.  The entropies of a group's history (its   *)
(* devices, hours and geohashes) are above TLC's integers, Q24 logarithms  *)
(* of 48-bit squares: a group's behaviour may be any of `Entropies', and   *)
(* nothing relates what it is with a member to what it is without.         *)
(***************************************************************************)
EXTENDS Integers, FiniteSets, FiniteSetsExt

CONSTANTS
    Observers,      \* number of pseudonyms
    Slots,          \* (device, epoch) slots within the window, the target among them
    TargetSlot,
    Threshold,      \* cooccurrenceThresholdBps
    DeployerWeight, \* unknownDeployerWeightBps
    Places,         \* geohashes
    Profiles,       \* what an observation of the target may say of itself
    Entropies       \* what the entropies of a group's history may average to

BPS == 10000
EpochLength == 4                    \* epochSeconds, in units of an observation's age
WitnessTarget == 3
SpatialWitnesses == 3               \* spatialMinimumWitnesses
SpatialCap == 5000
AccuracyLimit == 1000               \* gpsAccuracyLimitMeters
Presence == 2500                    \* evidencePresenceBps
HardwareClass == <<10000, 10000, 8000>>
Weights == <<2500, 1000, 3000, 1500, 1500, 500>>

VARIABLE history

Profile == [class: 1 .. 3, reenrolled: Nat \cup {-1}, age: Nat, place: Places, accuracy: Nat,
            evidence: {"none", "present", "wifi"}]

ScoreConstants ==
    /\ Observers \in Nat \ {0} /\ IsFiniteSet(Slots) /\ TargetSlot \in Slots
    /\ Threshold \in 0 .. BPS - 1 /\ DeployerWeight \in 0 .. BPS /\ Profiles \subseteq Profile
    /\ Entropies \subseteq 0 .. BPS

Init == history = [p \in 1 .. Observers |-> {}]

\* An accepted observation; a pseudonym's nullifier is good for one in each slot.
Record(p, s) ==
    /\ s \notin history[p]
    /\ history' = [history EXCEPT ![p] = @ \cup {s}]

Next == \E p \in 1 .. Observers, s \in Slots : Record(p, s)

Clamp(n) == Max({0, Min({BPS, n})})

\* The sum of a function whose domain are pseudonyms, in their order.
Sums(f) ==
    LET sum[n \in 0 .. Observers] == IF n = 0 THEN 0 ELSE sum[n - 1] + (IF n \in DOMAIN f THEN f[n] ELSE 0) IN sum

Total(f) == Sums(f)[Observers]

Average(f) == IF DOMAIN f = {} THEN 0 ELSE Total(f) \div Cardinality(DOMAIN f)

-----------------------------------------------------------------------------
(* Groups. *)

Cooccur(slots, p, q) ==
    LET shared == Cardinality(slots[p] \cap slots[q])
        larger == Max({Cardinality(slots[p]), Cardinality(slots[q])})
    IN  larger > 0 /\ shared * BPS > larger * Threshold

\* find, whose path compression does not change what it returns.
Roots(parent) ==
    LET find[p \in DOMAIN parent] == IF parent[p] = p THEN p ELSE find[parent[p]] IN find

Find(parent, p) == Roots(parent)[p]

LinkUnrooted(parent, a, b) == [parent EXCEPT ![b] = a]

Link(parent, a, b) == [parent EXCEPT ![Find(parent, b)] = Find(parent, a)]

\* The loop over the pairs i < j.
Merge(slots, parent, i, j) ==
    IF i < j /\ i \in DOMAIN slots /\ j \in DOMAIN slots /\ Cooccur(slots, i, j) THEN Link(parent, i, j) ELSE parent

MergeRow(slots, parent, i) ==
    LET row[j \in 0 .. Observers] == IF j = 0 THEN parent ELSE Merge(slots, row[j - 1], i, j) IN row

Merged(slots) ==
    LET merged[i \in 0 .. Observers] ==
            IF i = 0 THEN [p \in DOMAIN slots |-> p] ELSE MergeRow(slots, merged[i - 1], i)[Observers]
    IN  merged

Union(slots) == Merged(slots)[Observers]

\* The pseudonyms with an observation of the target.
Witnesses(slots) == {p \in DOMAIN slots : TargetSlot \in slots[p]}

\* groupMap: the witnesses under each root.
Groups(slots) ==
    LET parent == Union(slots)
    IN  [root \in {Find(parent, p) : p \in Witnesses(slots)} |->
            {q \in Witnesses(slots) : Find(parent, q) = root}]

-----------------------------------------------------------------------------
(* Facets.  Each group counts with its weakest member. *)

Hardware(record) ==
    HardwareClass[record.class] \div (1 + (IF record.reenrolled = -1 THEN 0 ELSE record.reenrolled \div 3))

Freshness(record) == Clamp(BPS - (record.age * BPS) \div EpochLength)

Service(record) ==
    CASE record.evidence = "none" -> 0 [] record.evidence = "present" -> Presence [] record.evidence = "wifi" -> BPS

Witness(groups) == Clamp((Cardinality(DOMAIN groups) * DeployerWeight) \div WitnessTarget)

\* geographic: a group votes for the place its members agree on; accuracy 0 is none.
Quality(record) == Clamp(BPS - (record.accuracy * BPS) \div AccuracyLimit)

VotesFor(target, group, place) == \A p \in group : target[p].accuracy > 0 /\ target[p].place = place

\* What a place gets from all groups.
Votes(target, groups, place) ==
    Total([g \in DOMAIN groups |->
              IF VotesFor(target, groups[g], place) THEN Min({Quality(target[p]) : p \in groups[g]}) ELSE 0])

\* The claimed place is a set of one, or empty when none is claimed.
Spatial(target, groups, claimed) ==
    LET n == Cardinality(DOMAIN groups)
        modal == Max({0} \cup {Votes(target, groups, target[p].place) : p \in DOMAIN target}) \div n
        claim == CHOOSE place \in claimed : TRUE
        agreed == IF claimed = {} THEN modal ELSE (modal * n + Votes(target, groups, claim)) \div (2 * n)
    IN  IF n < SpatialWitnesses THEN Min({agreed, SpatialCap}) ELSE agreed

\* What the entropies of the groups' histories may be.
Behaviors(groups) == [DOMAIN groups -> Entropies]

Facets(groups, target, claimed, behavior) ==
    LET hardware == [g \in DOMAIN groups |-> Min({Hardware(target[p]) : p \in groups[g]})]
        freshness == [g \in DOMAIN groups |-> Min({Freshness(target[p]) : p \in groups[g]})]
        service == [g \in DOMAIN groups |-> Min({Service(target[p]) : p \in groups[g]})]
    IN  <<Average(hardware), Average(freshness), Witness(groups),
          Spatial(target, groups, claimed), Average(behavior), Average(service)>>

Score(facets) ==
    (facets[1] * Weights[1] + facets[2] * Weights[2] + facets[3] * Weights[3]
     + facets[4] * Weights[4] + facets[5] * Weights[5] + facets[6] * Weights[6]) \div BPS

Verified(groups, facets) == Cardinality(DOMAIN groups) >= 3 /\ facets[3] >= 5000 /\ facets[1] >= 8000

-----------------------------------------------------------------------------
(* Properties. *)

\* The groups split the witnesses along the connected components of the
\* co-occurrence graph: of any two ways to cut the pseudonyms apart without
\* cutting an edge, the groups respect all and are separated by one.
GroupsConnect(slots) ==
    LET closed == {A \in SUBSET DOMAIN slots : \A p \in A, q \in DOMAIN slots \ A : ~Cooccur(slots, p, q)}
        apart(p, q) == \E A \in closed : p \in A /\ q \notin A
        groups == Groups(slots)
    IN  \A p, q \in Witnesses(slots) : apart(p, q) <=> ~\E g \in DOMAIN groups : {p, q} \subseteq groups[g]

Without(f, q) == [p \in DOMAIN f \ {q} |-> f[p]]

\* q observed what p observed.
Copies(slots, p, q) == p # q /\ slots[p] = slots[q] /\ TargetSlot \in slots[p]

\* Merging is by connected components, whatever the order of the names; facets
\* and score stay on the scale; and a pseudonym that copies another's slots,
\* whatever it says of itself, adds no witness, does not earn the verdict and
\* raises no facet but the fifth: its hours and places enter the group's
\* history (confidence.ts:370), so that it can gain the weight of the
\* behaviour facet, and no more.
ScoreSound ==
    LET groups == Groups(history)
        targets == [Witnesses(history) -> Profiles]
        places == {{}} \cup {{place} : place \in Places}
    IN
    /\ GroupsConnect(history)
    /\ DOMAIN groups # {} => \A target \in targets, claimed \in places, behavior \in Behaviors(groups) :
          LET facets == Facets(groups, target, claimed, behavior) IN
          (\A i \in DOMAIN facets : facets[i] \in 0 .. BPS) /\ Score(facets) \in 0 .. BPS
    /\ \A p, q \in Witnesses(history) : Copies(history, p, q) =>
          LET others == Groups(Without(history, q)) IN
          \A target \in targets, claimed \in places, with \in Behaviors(groups), without \in Behaviors(others) :
              LET facets == Facets(groups, target, claimed, with)
                  alone == Facets(others, Without(target, q), claimed, without)
              IN  /\ \A i \in DOMAIN facets \ {5} : facets[i] <= alone[i]
                  /\ Score(facets) <= Score(alone) + Weights[5]
                  /\ Verified(groups, facets) => Verified(others, alone)
=============================================================================
