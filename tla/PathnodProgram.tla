--------------------------- MODULE PathnodProgram ---------------------------
(***************************************************************************)
(* The on-chain program (programs/pathnod): protocol and device registry,  *)
(* the enrollment authority's ring of observer roots, trusted observation  *)
(* submission with its epoch accounting, USDC rewards and withdrawals, and *)
(* confidence publication.                                                 *)
(*                                                                         *)
(* Every instruction is one action: the runtime executes a transaction     *)
(* atomically and a failed require! rolls all of it back, so an action is  *)
(* enabled exactly when the instruction succeeds.  A PDA is the index of   *)
(* the function that holds its account: a nullifier is the tuple of the    *)
(* values the circuit hashes into it, a pseudonym likewise, which is what  *)
(* collision resistance and Groth16 soundness give the program.  The       *)
(* observation root is the sequence of leaves it commits to; how the       *)
(* frontier computes it is module EpochTree.                               *)
(***************************************************************************)
EXTENDS Integers, Sequences, FiniteSets

CONSTANTS
    Protocols, Devices, Observers,   \* protocol ids, device ids, observer credentials s_obs
    Roots, Transcripts,              \* Merkle roots and transcript hashes
    Verifiers, Holders,              \* verifier keys; keys that can withdraw
    Authorities,                     \* keys that sign registry instructions
    NoKey,                           \* Pubkey::default()
    NoRoot,                          \* [0; 32] in recent_roots
    NoReport,                        \* [0; 32] in confidence_commitment
    ClassOf,                         \* hardware class of a credential, 1..3
    MembersOf,                       \* observers whose leaves a root commits to
    EpochSeconds,                    \* ProtocolConfig.epoch_seconds, fixed at init_protocol
    Rewards, SlotQuotas, FeeRates,   \* inputs of init_protocol, update_policy, update_fees
    LeafCounts, Deposits,            \* inputs of publish_root and of token transfers
    ClockSlack,                      \* 600 seconds
    ClaimLifetime,                   \* 300 seconds
    MaxObservers,                    \* u16::MAX
    MaxAmount,                       \* u64::MAX
    MaxVersion, MaxTime, MaxFunding, \* bounds of the model
    MaxClaims, MaxReports            \*   (signatures of each kind)

ASSUME SetsAssumption ==
    /\ NoKey \notin Verifiers \cup Holders \cup Authorities
    /\ NoRoot \notin Roots
    /\ ClassOf \in [Observers -> 1 .. 3]
    /\ MembersOf \in [Roots -> SUBSET Observers]
    /\ NoReport \notin [leaves: Seq(Transcripts), at: Nat]

ASSUME NumbersAssumption ==
    /\ EpochSeconds \in Nat \ {0}
    /\ Rewards \subseteq Nat /\ SlotQuotas \subseteq 0 .. 255 /\ FeeRates \subseteq Nat
    /\ LeafCounts \subseteq Nat /\ Deposits \subseteq Nat
    /\ ClockSlack \in Nat /\ ClaimLifetime \in Nat
    /\ MaxObservers \in Nat /\ MaxAmount \in Nat
    /\ MaxVersion \in Nat /\ MaxTime \in Nat \ {0} /\ MaxFunding \in Nat
    /\ MaxClaims \in Nat /\ MaxReports \in Nat

RootWindow == 4                      \* recent_roots: [[u8; 32]; 4]
FeeScale == 10000                    \* basis points
InitialFee == 2000                   \* handle_initialize_payments
MaxTreeLeaves == 2^20                \* MAX_OBSERVERS

Epochs == 0 .. (MaxTime + ClockSlack) \div EpochSeconds
Nullifiers == Observers \X Protocols \X Devices \X Epochs
Pseudonyms == Observers \X Protocols
EpochKeys == Protocols \X Devices \X Epochs
ProtocolOf(s) == s[2]
PseudonymOf(n) == <<n[1], n[2]>>
EpochKeyOf(n) == <<n[2], n[3], n[4]>>

VARIABLES
    now,            \* Clock::get().unix_timestamp
    enrollment,     \* EnrollmentAuthority account
    rootLeaves,     \* ObserverRoot accounts: leaf_count, or -1 when not created
    config,         \* ProtocolConfig accounts
    devices,        \* DeviceRegistry accounts, as <<protocol, device>>
    fees,           \* PaymentSettings account
    commitment,     \* ObservationCommitment accounts by nullifier
    epoch,          \* DeviceEpoch accounts
    payout,         \* Payout accounts by pseudonym
    escrow,         \* token balances: escrow vaults by protocol,
    vault,          \*   payout vaults by pseudonym,
    feeVault,       \*   the fee vault,
    wallet,         \*   and the withdrawal keys' own accounts
    signed,         \* verifier signatures over observation digests
    claims,         \* verifier signatures over claim digests
    computed,       \* computed.json of the run directories of dev39-confidence
    reports,        \* verifier signatures over confidence digests
    published,      \* history: roots in publication order
    funded,         \* history: tokens ever sent to the escrow vaults
    retired         \* history: confidences that were replaced or withdrawn, by epoch

registryVars == <<enrollment, rootLeaves, config, devices, published>>
ledgerVars == <<escrow, vault, feeVault, wallet, funded>>
signatureVars == <<signed, claims, computed, reports>>
observationVars == <<commitment, epoch, retired>>
vars == <<now, registryVars, fees, observationVars, payout, ledgerVars, signatureVars>>

NoProtocol == [authority |-> NoKey, verifier |-> NoKey, version |-> 0, reward |-> 0, slots |-> 0]
Absent(p) == config[p].authority = NoKey
NoCommitment == [class |-> 0, transcript |-> <<>>, paid |-> FALSE]
EmptyEpoch == [observers |-> 0, paidSlots |-> 0, leaves |-> <<>>, confidence |-> NoReport]
EmptyPayout == [key |-> NoKey, gross |-> 0, fees |-> 0, available |-> 0, withdrawn |-> 0, nonce |-> 0]

Observation == [verifier: Verifiers, nullifier: Nullifiers, transcript: Transcripts, version: 1 .. MaxVersion]
Claim == [verifier: Verifiers, pseudonym: Pseudonyms, key: Holders, amount: Nat,
          nonce: Nat, expires: Nat, version: 1 .. MaxVersion]
Evaluations == [leaves: Seq(Transcripts), at: Nat]   \* what a confidence commitment hashes
Draft == [key: EpochKeys, evaluation: Evaluations]
Report == [verifier: Verifiers, key: EpochKeys, evaluation: Evaluations,
           previous: Evaluations \cup {NoReport}, version: 1 .. MaxVersion]

RegistryTypes ==
    /\ enrollment \in [authority: Authorities \cup {NoKey}, publications: Nat,
                       recent: [0 .. RootWindow - 1 -> Roots \cup {NoRoot}]]
    /\ rootLeaves \in [Roots -> Nat \cup {-1}]
    /\ config \in [Protocols -> [authority: Authorities \cup {NoKey}, verifier: Verifiers \cup {NoKey},
                                 version: 0 .. MaxVersion, reward: Nat, slots: 0 .. 255]]
    /\ devices \subseteq Protocols \X Devices
    /\ published \in Seq(Roots)

SettingTypes ==
    /\ now \in 1 .. MaxTime
    /\ fees \in [open: BOOLEAN, bps: 0 .. FeeScale]

ObservationTypes ==
    /\ commitment \in [Nullifiers -> [class: 0 .. 3, transcript: Transcripts \cup {<<>>}, paid: BOOLEAN]]
    /\ epoch \in [EpochKeys -> [observers: 0 .. MaxObservers, paidSlots: 0 .. 255,
                                leaves: Seq(Transcripts), confidence: Evaluations \cup {NoReport}]]
    /\ retired \in [EpochKeys -> SUBSET Evaluations]

PayoutTypes ==
    payout \in [Pseudonyms -> [key: Holders \cup {NoKey}, gross: Nat, fees: Nat, available: Nat,
                               withdrawn: Nat, nonce: Nat]]

LedgerTypes ==
    /\ escrow \in [Protocols -> Nat]
    /\ vault \in [Pseudonyms -> Nat]
    /\ feeVault \in Nat
    /\ wallet \in [Holders -> Nat]
    /\ funded \in [Protocols -> Nat]

SignatureTypes ==
    /\ signed \subseteq Observation
    /\ claims \subseteq Claim
    /\ computed \subseteq Draft
    /\ reports \subseteq Report

\* Every account, balance and signature has its type; the token program's and
\* the accounts' integers never go below zero, a slot count fits its u8.
TypeOK ==
    /\ RegistryTypes
    /\ SettingTypes
    /\ ObservationTypes
    /\ PayoutTypes
    /\ LedgerTypes
    /\ SignatureTypes

Init ==
    /\ now = 1
    /\ enrollment = [authority |-> NoKey, publications |-> 0,
                     recent |-> [i \in 0 .. RootWindow - 1 |-> NoRoot]]
    /\ rootLeaves = [r \in Roots |-> -1]
    /\ config = [p \in Protocols |-> NoProtocol]
    /\ devices = {}
    /\ fees = [open |-> FALSE, bps |-> 0]
    /\ commitment = [n \in Nullifiers |-> NoCommitment]
    /\ epoch = [k \in EpochKeys |-> EmptyEpoch]
    /\ payout = [s \in Pseudonyms |-> EmptyPayout]
    /\ escrow = [p \in Protocols |-> 0]
    /\ vault = [s \in Pseudonyms |-> 0]
    /\ feeVault = 0
    /\ wallet = [h \in Holders |-> 0]
    /\ signed = {} /\ claims = {} /\ computed = {} /\ reports = {}
    /\ published = <<>>
    /\ funded = [p \in Protocols |-> 0]
    /\ retired = [k \in EpochKeys |-> {}]

-----------------------------------------------------------------------------
(* Registry instructions. *)

\* The upgrade authority names the enrollment authority; the account is created once.
InitializeEnrollmentAuthority(a) ==
    /\ enrollment.authority = NoKey
    /\ enrollment' = [enrollment EXCEPT !.authority = a]
    /\ UNCHANGED <<now, rootLeaves, config, devices, published, fees, observationVars, payout,
                   ledgerVars, signatureVars>>

\* ProtocolConfigArgs::validate and UpdatePolicyArgs: paid slots need a reward.
ValidPolicy(reward, slots) == slots = 0 \/ reward > 0

InitProtocol(a, p, v, version, reward, slots) ==
    /\ Absent(p)
    /\ ValidPolicy(reward, slots)
    /\ config' = [config EXCEPT ![p] = [authority |-> a, verifier |-> v, version |-> version,
                                        reward |-> reward, slots |-> slots]]
    /\ UNCHANGED <<now, enrollment, rootLeaves, devices, published, fees, observationVars, payout,
                   ledgerVars, signatureVars>>

RegisterDevice(a, p, d) ==
    /\ ~Absent(p) /\ config[p].authority = a
    /\ <<p, d>> \notin devices
    /\ devices' = devices \cup {<<p, d>>}
    /\ UNCHANGED <<now, enrollment, rootLeaves, config, published, fees, observationVars, payout,
                   ledgerVars, signatureVars>>

\* The root's account is created with init, so a root is published at most once.
PublishRoot(a, r, leafCount) ==
    /\ enrollment.authority = a
    /\ rootLeaves[r] = -1
    /\ leafCount <= MaxTreeLeaves
    /\ enrollment' = [enrollment EXCEPT !.publications = @ + 1,
                                        !.recent[enrollment.publications % RootWindow] = r]
    /\ rootLeaves' = [rootLeaves EXCEPT ![r] = leafCount]
    /\ published' = Append(published, r)
    /\ UNCHANGED <<now, config, devices, fees, observationVars, payout, ledgerVars, signatureVars>>

UpdatePolicy(a, p, v, version, reward, slots) ==
    /\ ~Absent(p) /\ config[p].authority = a
    /\ version > config[p].version
    /\ ValidPolicy(reward, slots)
    /\ config' = [config EXCEPT ![p].verifier = v, ![p].version = version,
                                ![p].reward = reward, ![p].slots = slots]
    /\ UNCHANGED <<now, enrollment, rootLeaves, devices, published, fees, observationVars, payout,
                   ledgerVars, signatureVars>>

-----------------------------------------------------------------------------
(* Payment settings and the tokens that enter from outside. *)

InitializePayments(a) ==
    /\ enrollment.authority = a
    /\ ~fees.open
    /\ fees' = [open |-> TRUE, bps |-> InitialFee]
    /\ UNCHANGED <<now, registryVars, observationVars, payout, ledgerVars, signatureVars>>

\* settings.authority is the enrollment authority that initialized the payments.
UpdateFees(a, bps) ==
    /\ enrollment.authority = a
    /\ fees.open
    /\ bps <= FeeScale
    /\ fees' = [fees EXCEPT !.bps = bps]
    /\ UNCHANGED <<now, registryVars, observationVars, payout, ledgerVars, signatureVars>>

\* Anyone may send tokens to an escrow vault with the token program.
FundEscrow(p, amount) ==
    /\ ~Absent(p)
    /\ funded[p] + amount <= MaxFunding
    /\ escrow' = [escrow EXCEPT ![p] = @ + amount]
    /\ funded' = [funded EXCEPT ![p] = @ + amount]
    /\ UNCHANGED <<now, registryVars, fees, observationVars, payout, vault, feeVault, wallet, signatureVars>>

-----------------------------------------------------------------------------
(* Off-chain verifier signatures, as the Ed25519 precompile attests them.   *)
(* The verifier reads the chain first, so a signature may be used after the *)
(* policy has moved on.                                                     *)

Floor0(x) == IF x < 0 THEN 0 ELSE x

EpochOpenNoPast(e) == e <= (now + ClockSlack) \div EpochSeconds

EpochOpen(e) ==
    /\ e >= Floor0(now - ClockSlack) \div EpochSeconds
    /\ e <= (now + ClockSlack) \div EpochSeconds

\* One verifier key signs a nullifier once: its database keeps validated ones.
SignObservation(n, t) ==
    LET p == n[2] IN
    /\ ~Absent(p) /\ <<p, n[3]>> \in devices
    /\ commitment[n].class = 0
    /\ EpochOpen(n[4])
    /\ \A sig \in signed : sig.nullifier = n => sig.verifier # config[p].verifier
    /\ signed' = signed \cup {[verifier |-> config[p].verifier, nullifier |-> n, transcript |-> t,
                               version |-> config[p].version]}
    /\ UNCHANGED <<now, registryVars, fees, observationVars, payout, ledgerVars, claims, computed, reports>>

\* The claim covers the whole balance at the time of signing.
SignClaim(s, h, expires) ==
    LET p == ProtocolOf(s) IN
    /\ ~Absent(p)
    /\ Cardinality(claims) < MaxClaims
    /\ payout[s].available > 0
    /\ payout[s].key \in {NoKey, h}
    /\ expires >= now /\ expires <= now + ClaimLifetime
    /\ claims' = claims \cup {[verifier |-> config[p].verifier, pseudonym |-> s, key |-> h,
                               amount |-> payout[s].available, nonce |-> payout[s].nonce,
                               expires |-> expires, version |-> config[p].version]}
    /\ UNCHANGED <<now, registryVars, fees, observationVars, payout, ledgerVars, signed, computed, reports>>

\* compute: the report of the observations in tree order, evaluated now, goes to
\* computed.json of a run directory.  No two directories evaluate an epoch in
\* the same millisecond, so an evaluation names its directory.
ComputeReport(k) ==
    LET p == k[1] IN
    /\ ~Absent(p) /\ <<p, k[2]>> \in devices
    /\ Cardinality(computed) < MaxReports
    /\ epoch[k].observers > 0
    /\ computed' = computed \cup {[key |-> k, evaluation |-> [leaves |-> epoch[k].leaves, at |-> now]]}
    /\ UNCHANGED <<now, registryVars, fees, observationVars, payout, ledgerVars, signed, claims, reports>>

\* publish, some time later: the evaluation is the one of computed.json, which
\* the chain must still reproduce; the commitment to replace is read only now.
\* The journal keeps a directory from signing again.
SignReport(draft) ==
    LET k == draft.key
        p == k[1]
    IN
    /\ ~Absent(p) /\ draft.evaluation.leaves = epoch[k].leaves
    /\ \A report \in reports : report.key = k => report.evaluation # draft.evaluation
    /\ reports' = reports \cup {[verifier |-> config[p].verifier, key |-> k, evaluation |-> draft.evaluation,
                                 previous |-> epoch[k].confidence, version |-> config[p].version]}
    /\ UNCHANGED <<now, registryVars, fees, observationVars, payout, ledgerVars, signed, claims, computed>>

-----------------------------------------------------------------------------
(* submit_observation *)

\* The history of an epoch whose confidence is about to be overwritten.
Retired(k) == retired[k] \cup ({epoch[k].confidence} \ {NoReport})

ActiveRootsShifted ==
    {enrollment.recent[(enrollment.publications - i) % RootWindow] :
        i \in {j \in 0 .. RootWindow - 1 : j < enrollment.publications}}

\* The newest min(publications, 4) entries of the ring.
ActiveRoots ==
    {enrollment.recent[(enrollment.publications - 1 - i) % RootWindow] :
        i \in {j \in 0 .. RootWindow - 1 : j < enrollment.publications}}

AppendKeepingConfidence(state, t) == [state EXCEPT !.observers = @ + 1, !.leaves = Append(@, t)]

AppendUncounted(state, t) == [state EXCEPT !.leaves = Append(@, t), !.confidence = NoReport]

\* append_observation: one more leaf; a published confidence no longer holds.
AppendObservation(state, t) ==
    [state EXCEPT !.observers = @ + 1, !.leaves = Append(@, t), !.confidence = NoReport]

\* split_reward: the fee is rounded down and the observer gets the rest.
Fee(gross, bps) == (gross * bps) \div FeeScale

CreditGross(account, gross, fee) ==
    [account EXCEPT !.gross = @ + gross, !.fees = @ + fee, !.available = @ + gross]

Credit(account, gross, fee) ==
    [account EXCEPT !.gross = @ + gross, !.fees = @ + fee, !.available = @ + (gross - fee)]

PaysUnfunded(p, k) == config[p].reward > 0 /\ epoch[k].paidSlots < config[p].slots

Pays(p, k) ==
    /\ config[p].reward > 0
    /\ epoch[k].paidSlots < config[p].slots
    /\ escrow[p] >= config[p].reward

SubmitObservation(n, r, t) ==
    LET o == n[1]
        p == n[2]
        k == EpochKeyOf(n)
        s == PseudonymOf(n)
        paid == Pays(p, k)
        gross == IF paid THEN config[p].reward ELSE 0
        fee == Fee(gross, fees.bps)
    IN
    /\ ~Absent(p) /\ <<p, n[3]>> \in devices /\ fees.open
    /\ commitment[n].class = 0
    /\ r \in ActiveRoots /\ rootLeaves[r] > 0
    /\ o \in MembersOf[r]
    /\ EpochOpen(n[4])
    /\ [verifier |-> config[p].verifier, nullifier |-> n, transcript |-> t,
        version |-> config[p].version] \in signed
    /\ epoch[k].observers < MaxObservers
    /\ payout[s].gross + gross <= MaxAmount
    /\ commitment' = [commitment EXCEPT ![n] = [class |-> ClassOf[o], transcript |-> t, paid |-> paid]]
    /\ epoch' = [epoch EXCEPT ![k] = [AppendObservation(epoch[k], t) EXCEPT
                                        !.paidSlots = IF paid THEN @ + 1 ELSE @]]
    /\ retired' = [retired EXCEPT ![k] = Retired(k)]
    /\ payout' = [payout EXCEPT ![s] = Credit(@, gross, fee)]
    /\ escrow' = [escrow EXCEPT ![p] = @ - gross]
    /\ vault' = [vault EXCEPT ![s] = @ + (gross - fee)]
    /\ feeVault' = feeVault + fee
    /\ UNCHANGED <<now, registryVars, fees, wallet, funded, signatureVars>>

-----------------------------------------------------------------------------
(* claim_payout *)

ClaimBySigner(s, h, amount, expires) == payout[s].key \in {NoKey, h}

ClaimAnyHolder(s, h, amount, expires) ==
    \E c \in claims : c.pseudonym = s /\ c.key = h /\ c.amount >= amount

\* The first withdrawal binds the key and needs the verifier's signature over
\* the exact claim; later ones need only the bound key.
ClaimAuthorized(s, h, amount, expires) ==
    LET p == ProtocolOf(s) IN
    \/ /\ payout[s].key = NoKey
       /\ [verifier |-> config[p].verifier, pseudonym |-> s, key |-> h, amount |-> amount,
           nonce |-> payout[s].nonce, expires |-> expires, version |-> config[p].version] \in claims
    \/ payout[s].key = h

Debit(account, h, amount) ==
    [account EXCEPT !.available = @ - amount, !.withdrawn = @ + amount, !.nonce = @ + 1, !.key = h]

ClaimPayout(s, h, amount, expires) ==
    /\ ~Absent(ProtocolOf(s))
    /\ amount > 0 /\ amount <= payout[s].available
    /\ expires >= now /\ expires <= now + ClaimLifetime
    /\ ClaimAuthorized(s, h, amount, expires)
    /\ vault[s] >= amount
    /\ vault' = [vault EXCEPT ![s] = @ - amount]
    /\ wallet' = [wallet EXCEPT ![h] = @ + amount]
    /\ payout' = [payout EXCEPT ![s] = Debit(@, h, amount)]
    /\ UNCHANGED <<now, registryVars, fees, observationVars, escrow, feeVault, funded, signatureVars>>

-----------------------------------------------------------------------------
(* publish_confidence *)

MatchesAnyPrevious(report) ==
    LET state == epoch[report.key] IN
    /\ state.observers > 0 /\ state.observers = Len(report.evaluation.leaves)
    /\ state.leaves = report.evaluation.leaves

\* validate_state: the report describes the current tree and replaces the
\* commitment its author saw.
MatchesEpoch(report) ==
    LET state == epoch[report.key] IN
    /\ state.observers > 0 /\ state.observers = Len(report.evaluation.leaves)
    /\ state.leaves = report.evaluation.leaves
    /\ state.confidence = report.previous

PublishConfidence(report) ==
    LET p == report.key[1]
        evaluation == report.evaluation
    IN
    /\ report \in reports
    /\ report.version = config[p].version /\ report.verifier = config[p].verifier
    /\ MatchesEpoch(report)
    /\ evaluation.at >= report.key[3] * EpochSeconds /\ evaluation.at <= now + ClockSlack
    /\ epoch' = [epoch EXCEPT ![report.key].confidence = evaluation]
    /\ retired' = [retired EXCEPT ![report.key] = Retired(report.key)]
    /\ UNCHANGED <<now, registryVars, fees, commitment, payout, ledgerVars, signatureVars>>

Tick ==
    /\ now < MaxTime
    /\ now' = now + 1
    /\ UNCHANGED <<registryVars, fees, observationVars, payout, ledgerVars, signatureVars>>

-----------------------------------------------------------------------------
RegistryStep ==
    \/ \E a \in Authorities : InitializeEnrollmentAuthority(a)
    \/ \E a \in Authorities, p \in Protocols, v \in Verifiers, version \in 1 .. MaxVersion,
          reward \in Rewards, slots \in SlotQuotas : InitProtocol(a, p, v, version, reward, slots)
    \/ \E a \in Authorities, p \in Protocols, d \in Devices : RegisterDevice(a, p, d)
    \/ \E a \in Authorities, r \in Roots, leafCount \in LeafCounts : PublishRoot(a, r, leafCount)
    \/ \E a \in Authorities, p \in Protocols, v \in Verifiers, version \in 1 .. MaxVersion,
          reward \in Rewards, slots \in SlotQuotas : UpdatePolicy(a, p, v, version, reward, slots)

PaymentStep ==
    \/ \E a \in Authorities : InitializePayments(a)
    \/ \E a \in Authorities, bps \in FeeRates : UpdateFees(a, bps)
    \/ \E p \in Protocols, amount \in Deposits : FundEscrow(p, amount)
    \/ \E s \in Pseudonyms, h \in Holders, expires \in now .. now + ClaimLifetime : SignClaim(s, h, expires)
    \/ \E s \in Pseudonyms, h \in Holders, expires \in now .. now + ClaimLifetime :
          \E amount \in 1 .. payout[s].available : ClaimPayout(s, h, amount, expires)

ObservationStep ==
    \/ \E n \in Nullifiers, t \in Transcripts : SignObservation(n, t)
    \/ \E n \in Nullifiers, r \in Roots, t \in Transcripts : SubmitObservation(n, r, t)
    \/ \E k \in EpochKeys : ComputeReport(k)
    \/ \E draft \in computed : SignReport(draft)
    \/ \E report \in reports : PublishConfidence(report)

Next == RegistryStep \/ PaymentStep \/ ObservationStep \/ Tick

Spec == Init /\ [][Next]_vars

-----------------------------------------------------------------------------
(* Properties. *)

\* Every payout vault holds at least the balance its account promises, and the
\* promise is exactly what was earned, less the fees, less what was withdrawn,
\* whatever fee rates, rewards and policies were in force when it was earned
\* (handle_submit and claim update the tokens and the account separately).
Solvent ==
    \A s \in Pseudonyms :
        /\ vault[s] >= payout[s].available
        /\ payout[s].gross = payout[s].fees + payout[s].available + payout[s].withdrawn

\* Nothing leaves a payout account whose key no verifier signed for: the key
\* bound by the first withdrawal is the one of an authorization for this
\* pseudonym's first nonce (claim checks the signature only while no key is bound).
KeyAuthorized ==
    \A s \in Pseudonyms :
        /\ payout[s].key = NoKey => payout[s].withdrawn = 0 /\ payout[s].nonce = 0
        /\ payout[s].key # NoKey =>
              \E c \in claims : c.pseudonym = s /\ c.key = payout[s].key /\ c.nonce = 0

\* Once bound, a pseudonym's withdrawal key never changes, whichever verifier
\* key and policy are in force and however many claim signatures are still live.
KeyNeverRebound ==
    [][\A s \in Pseudonyms : payout[s].key # NoKey => payout'[s].key = payout[s].key]_vars

\* The counters of a device epoch agree with the commitment accounts: one leaf
\* and one independent observer per nullifier, one used slot per paid one.
EpochAccounting ==
    \A k \in EpochKeys :
        LET stored == {n \in Nullifiers : EpochKeyOf(n) = k /\ commitment[n].class # 0} IN
        /\ epoch[k].observers = Cardinality(stored)
        /\ Len(epoch[k].leaves) = epoch[k].observers
        /\ epoch[k].paidSlots = Cardinality({n \in stored : commitment[n].paid})

\* The sum of what accounts hold, counted unit by unit.
Units(balance) == UNION {{x} \X (1 .. balance[x]) : x \in DOMAIN balance}
Total(balance) == Cardinality(Units(balance))

\* Tokens are conserved: a protocol's escrow and what its observers earned add
\* up to what was deposited for it, the fee vault holds exactly the fees the
\* payout accounts were charged, and the claimants hold what was withdrawn,
\* whatever rewards and rates were in force.
TokensConserved ==
    /\ \A p \in Protocols :
          escrow[p] + Total([s \in {x \in Pseudonyms : ProtocolOf(x) = p} |-> payout[s].gross]) = funded[p]
    /\ feeVault = Total([s \in Pseudonyms |-> payout[s].fees])
    /\ Total(wallet) = Total([s \in Pseudonyms |-> payout[s].withdrawn])

\* The books agree: the tokens with the payout accounts, the counters of the
\* device epochs with the commitments.
AccountsBalance == TokensConserved /\ EpochAccounting

\* A published confidence describes the tree as it is now: append_observation
\* withdraws it when the tree grows, publish_confidence refuses a stale report.
ConfidenceCurrent ==
    \A k \in EpochKeys :
        epoch[k].confidence # NoReport => epoch[k].confidence.leaves = epoch[k].leaves

\* A confidence that was replaced, or withdrawn by an observation, never comes
\* back: every signed report stays good for anyone to submit, and its directory
\* may have signed it long after evaluating it, perhaps after later evaluations
\* were published (the tree and previous_commitment comparisons of validate_state).
NeverRestored == \A k \in EpochKeys : epoch[k].confidence \notin retired[k]

EpochClosed(e) == e < Floor0(now - ClockSlack) \div EpochSeconds

\* After an epoch's freshness window has closed its tree is final, so a
\* confidence published then is never withdrawn.
ClosedEpochFinal ==
    [][\A k \in EpochKeys : EpochClosed(k[3]) =>
          /\ epoch'[k].leaves = epoch[k].leaves
          /\ epoch[k].confidence # NoReport => epoch'[k].confidence # NoReport]_vars

\* The roots submit_observation accepts are the last four published, no root is
\* ever published twice, and a root that left the window never returns.
RootRing ==
    /\ ActiveRoots = {published[i] : i \in {j \in 1 .. Len(published) : j > Len(published) - RootWindow}}
    /\ \A i, j \in 1 .. Len(published) : published[i] = published[j] => i = j
=============================================================================
