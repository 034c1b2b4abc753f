---------------------- MODULE PathnodProgramProofs ----------------------
(* Theorems about PathnodProgram, for every value of its constants.         *)
EXTENDS DeviceEligibility, FiniteSetTheorems, TLAPS

\* A protocol account exists exactly when it has a verifier and a policy version.
Registered ==
    \A p \in Protocols : ~Absent(p) => config[p].verifier \in Verifiers /\ config[p].version >= 1

Typed == TypeOK /\ Registered

EpochAccounts == [observers: 0 .. MaxObservers, paidSlots: 0 .. 255, leaves: Seq(Transcripts),
                  confidence: Evaluations \cup {NoReport}]

PayoutAccounts == [key: Holders \cup {NoKey}, gross: Nat, fees: Nat, available: Nat, withdrawn: Nat, nonce: Nat]

\* split_reward takes a fee between nothing and the whole reward.
LEMMA FeeBounds ==
    ASSUME NEW gross \in Nat, NEW bps \in 0 .. FeeScale
    PROVE  Fee(gross, bps) \in 0 .. gross
  <1>1. gross * bps \in Nat
    BY DEF FeeScale
  <1>2. gross * bps <= gross * FeeScale
    BY DEF FeeScale
  <1>3. (gross * FeeScale) \div FeeScale = gross
    BY DEF FeeScale
  <1> DEFINE x == gross * bps
  <1>4. ASSUME NEW y \in Nat, y <= gross * FeeScale PROVE y \div FeeScale \in 0 .. gross
    BY <1>4 DEF FeeScale
  <1> QED
    BY <1>1, <1>2, <1>4 DEF Fee

\* A reward and a withdrawal keep a payout account's fields natural numbers.
LEMMA CreditTyped ==
    ASSUME NEW account \in PayoutAccounts, NEW gross \in Nat, NEW fee \in 0 .. gross
    PROVE  Credit(account, gross, fee) \in PayoutAccounts
  <1>1. account.gross + gross \in Nat /\ account.fees + fee \in Nat /\ account.available + (gross - fee) \in Nat
    BY DEF PayoutAccounts
  <1>2. ASSUME NEW x \in Nat, NEW y \in Nat, NEW z \in Nat
        PROVE  [account EXCEPT !.gross = x, !.fees = y, !.available = z] \in PayoutAccounts
    BY DEF PayoutAccounts
  <1> QED
    BY <1>1, <1>2 DEF Credit

\* A withdrawal of at most the balance keeps the account's fields natural.
LEMMA DebitTyped ==
    ASSUME NEW account \in PayoutAccounts, NEW h \in Holders, NEW amount \in 1 .. account.available
    PROVE  Debit(account, h, amount) \in PayoutAccounts
  <1>1. account.available \in Nat /\ account.withdrawn \in Nat /\ account.nonce \in Nat
    BY DEF PayoutAccounts
  <1>2. account.available - amount \in Nat /\ account.withdrawn + amount \in Nat /\ account.nonce + 1 \in Nat
    BY <1>1
  <1>3. ASSUME NEW x \in Nat, NEW y \in Nat, NEW z \in Nat
        PROVE  [account EXCEPT !.available = x, !.withdrawn = y, !.nonce = z, !.key = h] \in PayoutAccounts
    BY DEF PayoutAccounts
  <1> QED
    BY <1>2, <1>3 DEF Debit

\* An appended leaf and its paid slot keep the epoch's record typed.
LEMMA AppendTyped ==
    ASSUME NEW state \in EpochAccounts, state.observers < MaxObservers, NEW t \in Transcripts
    PROVE  AppendObservation(state, t) \in EpochAccounts
  <1>1. state.observers + 1 \in 0 .. MaxObservers /\ Append(state.leaves, t) \in Seq(Transcripts)
    BY NumbersAssumption DEF EpochAccounts
  <1>2. ASSUME NEW x \in 0 .. MaxObservers, NEW y \in Seq(Transcripts)
        PROVE  [state EXCEPT !.observers = x, !.leaves = y, !.confidence = NoReport] \in EpochAccounts
    BY DEF EpochAccounts
  <1> QED
    BY <1>1, <1>2 DEF AppendObservation

\* What an epoch's history grows by is an evaluation.
LEMMA RetiredTyped ==
    ASSUME Typed, NEW k \in EpochKeys
    PROVE  Retired(k) \in SUBSET Evaluations
  <1>1. epoch[k].confidence \in Evaluations \cup {NoReport} /\ retired[k] \subseteq Evaluations
    BY DEF Typed, TypeOK, ObservationTypes
  <1> QED
    BY <1>1 DEF Retired

\* The empty registry, with no account created, has its types.
LEMMA InitTyped == Init => Typed
  <1> USE SetsAssumption, NumbersAssumption
      DEF Init, NoProtocol, NoCommitment, EmptyEpoch, EmptyPayout, RootWindow, FeeScale
  <1>1. Init => RegistryTypes /\ Registered
    BY DEF RegistryTypes, Registered, Absent
  <1>2. Init => SettingTypes
    BY DEF SettingTypes
  <1>3. Init => ObservationTypes
    BY DEF ObservationTypes
  <1>4. Init => PayoutTypes /\ LedgerTypes /\ SignatureTypes
    BY DEF PayoutTypes, LedgerTypes, SignatureTypes
  <1> QED
    BY <1>1, <1>2, <1>3, <1>4 DEF Typed, TypeOK

\* What an instruction leaves alone keeps its type.
LEMMA Frame ==
    ASSUME Typed
    PROVE  /\ UNCHANGED registryVars => RegistryTypes' /\ Registered'
           /\ UNCHANGED <<now, fees>> => SettingTypes'
           /\ UNCHANGED observationVars => ObservationTypes'
           /\ UNCHANGED payout => PayoutTypes'
           /\ UNCHANGED ledgerVars => LedgerTypes'
           /\ UNCHANGED signatureVars => SignatureTypes'
  <1> USE DEF Typed, TypeOK
  <1>1. UNCHANGED registryVars => RegistryTypes' /\ Registered'
    BY DEF registryVars, RegistryTypes, Registered, Absent
  <1>2. UNCHANGED <<now, fees>> => SettingTypes'
    BY DEF SettingTypes
  <1>3. UNCHANGED observationVars => ObservationTypes'
    BY DEF observationVars, ObservationTypes
  <1>4. UNCHANGED payout => PayoutTypes'
    BY DEF PayoutTypes
  <1>5. UNCHANGED ledgerVars => LedgerTypes'
    BY DEF ledgerVars, LedgerTypes
  <1>6. UNCHANGED signatureVars => SignatureTypes'
    BY DEF signatureVars, SignatureTypes
  <1> QED
    BY <1>1, <1>2, <1>3, <1>4, <1>5, <1>6

\* Registry instructions (authority, roots, protocols, devices, policy) keep the types.
LEMMA RegistryTyped == Typed /\ RegistryStep => Typed'
  <1> SUFFICES ASSUME Typed, RegistryStep PROVE Typed'
    OBVIOUS
  <1> DEFINE Rest == /\ UNCHANGED <<now, fees>> /\ UNCHANGED observationVars /\ UNCHANGED payout
                     /\ UNCHANGED ledgerVars /\ UNCHANGED signatureVars
  <1>1. ASSUME NEW a \in Authorities, InitializeEnrollmentAuthority(a)
        PROVE  RegistryTypes' /\ Registered' /\ Rest
    <2>1. RegistryTypes'
      BY <1>1 DEF InitializeEnrollmentAuthority, Typed, TypeOK, RegistryTypes
    <2>2. Registered' /\ Rest
      BY <1>1 DEF InitializeEnrollmentAuthority, Typed, Registered, Absent
    <2> QED
      BY <2>1, <2>2
  <1>2. ASSUME NEW a \in Authorities, NEW p \in Protocols, NEW v \in Verifiers, NEW version \in 1 .. MaxVersion,
               NEW reward \in Rewards, NEW slots \in SlotQuotas, InitProtocol(a, p, v, version, reward, slots)
        PROVE  RegistryTypes' /\ Registered' /\ Rest
    <2>1. reward \in Nat /\ slots \in 0 .. 255 /\ version \in 0 .. MaxVersion
      BY NumbersAssumption
    <2>2. RegistryTypes'
      BY <1>2, <2>1 DEF InitProtocol, Typed, TypeOK, RegistryTypes
    <2>3. Registered'
      BY <1>2, <2>1 DEF InitProtocol, Typed, TypeOK, RegistryTypes, Registered, Absent
    <2>4. Rest
      BY <1>2 DEF InitProtocol
    <2> QED
      BY <2>2, <2>3, <2>4
  <1>3. ASSUME NEW a \in Authorities, NEW p \in Protocols, NEW d \in Devices, RegisterDevice(a, p, d)
        PROVE  RegistryTypes' /\ Registered' /\ Rest
    <2>1. RegistryTypes'
      BY <1>3 DEF RegisterDevice, Typed, TypeOK, RegistryTypes
    <2>2. Registered' /\ Rest
      BY <1>3 DEF RegisterDevice, Typed, Registered, Absent
    <2> QED
      BY <2>1, <2>2
  <1>4. ASSUME NEW a \in Authorities, NEW r \in Roots, NEW leafCount \in LeafCounts, PublishRoot(a, r, leafCount)
        PROVE  RegistryTypes' /\ Registered' /\ Rest
    <2>1. leafCount \in Nat /\ enrollment.publications % RootWindow \in 0 .. RootWindow - 1
      BY NumbersAssumption DEF Typed, TypeOK, RegistryTypes, RootWindow
    <2>2. (enrollment \in [authority: Authorities \cup {NoKey}, publications: Nat,
                           recent: [0 .. RootWindow - 1 -> Roots \cup {NoRoot}]])'
      <3> DEFINE ring == [enrollment.recent EXCEPT ![enrollment.publications % RootWindow] = r]
      <3>1. ring \in [0 .. RootWindow - 1 -> Roots \cup {NoRoot}]
        BY <2>1 DEF Typed, TypeOK, RegistryTypes
      <3>2. enrollment' = [enrollment EXCEPT !.publications = @ + 1, !.recent = ring]
        BY <1>4 DEF PublishRoot, Typed, TypeOK, RegistryTypes
      <3> HIDE DEF ring
      <3>3. enrollment.publications + 1 \in Nat
        BY DEF Typed, TypeOK, RegistryTypes
      <3>4. ASSUME NEW x \in Nat
            PROVE  [enrollment EXCEPT !.publications = x, !.recent = ring] \in
                       [authority: Authorities \cup {NoKey}, publications: Nat,
                        recent: [0 .. RootWindow - 1 -> Roots \cup {NoRoot}]]
        BY <3>1 DEF Typed, TypeOK, RegistryTypes
      <3> QED
        BY <3>2, <3>3, <3>4
    <2>3. RegistryTypes'
      BY <1>4, <2>1, <2>2 DEF PublishRoot, Typed, TypeOK, RegistryTypes
    <2>4. Registered' /\ Rest
      BY <1>4 DEF PublishRoot, Typed, Registered, Absent
    <2> QED
      BY <2>3, <2>4
  <1>5. ASSUME NEW a \in Authorities, NEW p \in Protocols, NEW v \in Verifiers, NEW version \in 1 .. MaxVersion,
               NEW reward \in Rewards, NEW slots \in SlotQuotas, UpdatePolicy(a, p, v, version, reward, slots)
        PROVE  RegistryTypes' /\ Registered' /\ Rest
    <2>1. reward \in Nat /\ slots \in 0 .. 255 /\ version \in 0 .. MaxVersion /\ version >= 1
      BY NumbersAssumption, SMTT(40)
    <2>2. RegistryTypes'
      <3> DEFINE account == [config[p] EXCEPT !.verifier = v, !.version = version,
                                              !.reward = reward, !.slots = slots]
      <3>1. config' = [config EXCEPT ![p] = account]
        BY <1>5 DEF UpdatePolicy, Typed, TypeOK, RegistryTypes
      <3>2. account \in [authority: Authorities \cup {NoKey}, verifier: Verifiers \cup {NoKey},
                         version: 0 .. MaxVersion, reward: Nat, slots: 0 .. 255]
        <4>1. config[p] \in [authority: Authorities \cup {NoKey}, verifier: Verifiers \cup {NoKey},
                             version: 0 .. MaxVersion, reward: Nat, slots: 0 .. 255]
          BY DEF Typed, TypeOK, RegistryTypes
        <4> QED
          BY <2>1, <4>1
      <3> HIDE DEF account
      <3> QED
        BY <1>5, <3>1, <3>2, SMTT(40) DEF UpdatePolicy, Typed, TypeOK, RegistryTypes
    <2>3. Registered'
      BY <1>5, <2>1 DEF UpdatePolicy, Typed, TypeOK, RegistryTypes, Registered, Absent
    <2>4. Rest
      BY <1>5 DEF UpdatePolicy
    <2> QED
      BY <2>2, <2>3, <2>4
  <1>6. RegistryTypes' /\ Registered' /\ Rest
    BY <1>1, <1>2, <1>3, <1>4, <1>5 DEF RegistryStep
  <1> QED
    BY <1>6, Frame DEF Typed, TypeOK

\* Fees, funding, claim signatures and withdrawals keep the types.
LEMMA PaymentTyped == Typed /\ PaymentStep => Typed'
  <1> SUFFICES ASSUME Typed, PaymentStep PROVE Typed'
    OBVIOUS
  <1>1. ASSUME NEW a \in Authorities, InitializePayments(a) PROVE Typed'
    <2>1. SettingTypes'
      BY <1>1 DEF InitializePayments, Typed, TypeOK, SettingTypes, FeeScale, InitialFee
    <2> QED
      BY <1>1, <2>1, Frame, SMTT(40) DEF InitializePayments, Typed, TypeOK
  <1>2. ASSUME NEW a \in Authorities, NEW bps \in FeeRates, UpdateFees(a, bps) PROVE Typed'
    <2>1. SettingTypes'
      <3>1. bps \in 0 .. FeeScale
        <4>1. bps \in Nat /\ bps <= 10000
          BY <1>2, NumbersAssumption DEF UpdateFees, FeeScale
        <4> QED
          BY <4>1, SMTT(40) DEF FeeScale
      <3> QED
        BY <1>2, <3>1 DEF UpdateFees, Typed, TypeOK, SettingTypes
    <2> QED
      BY <1>2, <2>1, Frame DEF UpdateFees, Typed, TypeOK
  <1>3. ASSUME NEW p \in Protocols, NEW amount \in Deposits, FundEscrow(p, amount) PROVE Typed'
    <2>1. LedgerTypes'
      BY <1>3, NumbersAssumption DEF FundEscrow, Typed, TypeOK, LedgerTypes
    <2> QED
      BY <1>3, <2>1, Frame DEF FundEscrow, Typed, TypeOK
  <1>4. ASSUME NEW s \in Pseudonyms, NEW h \in Holders, NEW expires \in now .. now + ClaimLifetime,
               SignClaim(s, h, expires)
        PROVE  Typed'
    <2> DEFINE p == ProtocolOf(s)
    <2>1. p \in Protocols
      BY DEF ProtocolOf, Pseudonyms
    <2>2. config[p].verifier \in Verifiers /\ config[p].version \in 1 .. MaxVersion
      BY <1>4, <2>1 DEF SignClaim, Typed, TypeOK, RegistryTypes, Registered
    <2>3. payout[s].available \in Nat /\ payout[s].nonce \in Nat /\ expires \in Nat
      BY DEF Typed, TypeOK, SettingTypes, PayoutTypes
    <2>4. SignatureTypes'
      BY <1>4, <2>2, <2>3 DEF SignClaim, Claim, Typed, TypeOK, SignatureTypes
    <2> QED
      BY <1>4, <2>4, Frame DEF SignClaim, Typed, TypeOK
  <1>5. ASSUME NEW s \in Pseudonyms, NEW h \in Holders, NEW expires \in now .. now + ClaimLifetime,
               NEW amount \in 1 .. payout[s].available, ClaimPayout(s, h, amount, expires)
        PROVE  Typed'
    <2>1. payout[s].available \in Nat
      BY DEF Typed, TypeOK, PayoutTypes
    <2>2. PayoutTypes'
      <3>1. payout[s] \in PayoutAccounts
        BY DEF Typed, TypeOK, PayoutTypes, PayoutAccounts
      <3>2. Debit(payout[s], h, amount) \in PayoutAccounts
        BY <3>1, DebitTyped
      <3> QED
        BY <1>5, <3>2 DEF ClaimPayout, Typed, TypeOK, PayoutTypes, PayoutAccounts
    <2>3. LedgerTypes'
      BY <1>5, <2>1 DEF ClaimPayout, Typed, TypeOK, LedgerTypes
    <2> QED
      BY <1>5, <2>2, <2>3, Frame DEF ClaimPayout, Typed, TypeOK
  <1> QED
    BY <1>1, <1>2, <1>3, <1>4, <1>5 DEF PaymentStep

\* What one submission moves: a reward the escrow covers, or nothing.
LEMMA SubmitFacts ==
    ASSUME Typed, NEW n \in Nullifiers,
           NEW gross, gross = IF Pays(n[2], EpochKeyOf(n)) THEN config[n[2]].reward ELSE 0
    PROVE  /\ n[1] \in Observers /\ n[2] \in Protocols
           /\ EpochKeyOf(n) \in EpochKeys /\ PseudonymOf(n) \in Pseudonyms
           /\ gross \in Nat /\ Fee(gross, fees.bps) \in 0 .. gross /\ escrow[n[2]] - gross \in Nat
  <1>1. n[1] \in Observers /\ n[2] \in Protocols /\ EpochKeyOf(n) \in EpochKeys /\ PseudonymOf(n) \in Pseudonyms
    BY DEF Nullifiers, EpochKeys, Pseudonyms, EpochKeyOf, PseudonymOf
  <1>2. gross \in Nat /\ fees.bps \in 0 .. FeeScale
    BY <1>1 DEF Typed, TypeOK, RegistryTypes, SettingTypes
  <1>3. escrow[n[2]] - gross \in Nat
    BY <1>1, <1>2, SMTT(40) DEF Typed, TypeOK, LedgerTypes, RegistryTypes, Pays
  <1> QED
    BY <1>1, <1>2, <1>3, FeeBounds

\* Observations and confidence reports keep the types.
LEMMA ObservationTyped == Typed /\ ObservationStep => Typed'
  <1> SUFFICES ASSUME Typed, ObservationStep PROVE Typed'
    OBVIOUS
  <1>1. UNCHANGED registryVars /\ UNCHANGED <<now, fees>>
    BY ZenonT(90) DEF ObservationStep, SignObservation, SubmitObservation, ComputeReport, SignReport, PublishConfidence
  <1>2. CASE \E n \in Nullifiers, t \in Transcripts : SignObservation(n, t)
    <2> PICK n \in Nullifiers, t \in Transcripts : SignObservation(n, t)
      BY <1>2
    <2>1. n[2] \in Protocols
      BY DEF Nullifiers
    <2>2. config[n[2]].verifier \in Verifiers /\ config[n[2]].version \in 1 .. MaxVersion
      BY <2>1 DEF SignObservation, Typed, TypeOK, RegistryTypes, Registered
    <2>3. SignatureTypes'
      BY <2>2 DEF SignObservation, Typed, TypeOK, SignatureTypes, Observation
    <2> QED
      BY <1>1, <2>3, Frame DEF SignObservation, Typed, TypeOK
  <1>3. CASE \E n \in Nullifiers, r \in Roots, t \in Transcripts : SubmitObservation(n, r, t)
    <2> PICK n \in Nullifiers, r \in Roots, t \in Transcripts : SubmitObservation(n, r, t)
      BY <1>3
    <2> DEFINE p == n[2]
               k == EpochKeyOf(n)
               s == PseudonymOf(n)
               paid == Pays(p, k)
               gross == IF paid THEN config[p].reward ELSE 0
               fee == Fee(gross, fees.bps)
    <2>1. /\ n[1] \in Observers /\ p \in Protocols /\ k \in EpochKeys /\ s \in Pseudonyms
          /\ gross \in Nat /\ fee \in 0 .. gross /\ escrow[p] - gross \in Nat
      BY SubmitFacts
    <2>2. PayoutTypes'
      <3>1. payout' = [payout EXCEPT ![s] = Credit(@, gross, fee)]
        BY DEF SubmitObservation
      <3> HIDE DEF fee, gross, s
      <3>2. payout[s] \in PayoutAccounts
        BY <2>1 DEF Typed, TypeOK, PayoutTypes, PayoutAccounts
      <3>3. Credit(payout[s], gross, fee) \in PayoutAccounts
        BY <2>1, <3>2, CreditTyped
      <3> QED
        BY <2>1, <3>1, <3>3 DEF Typed, TypeOK, PayoutTypes, PayoutAccounts
    <2>3. LedgerTypes'
      <3>1. /\ escrow' = [escrow EXCEPT ![p] = @ - gross]
            /\ vault' = [vault EXCEPT ![s] = @ + (gross - fee)]
            /\ feeVault' = feeVault + fee
            /\ UNCHANGED <<wallet, funded>>
        BY DEF SubmitObservation
      <3> HIDE DEF fee, gross, s, p
      <3> QED
        BY <2>1, <3>1 DEF Typed, TypeOK, LedgerTypes
    <2>4. ObservationTypes'
      <3>1. paid => epoch[k].paidSlots + 1 \in 0 .. 255
        <4>1. epoch[k].paidSlots \in 0 .. 255 /\ config[p].slots \in 0 .. 255
          BY <2>1, ZenonT(90) DEF Typed, TypeOK, ObservationTypes, RegistryTypes
        <4> QED
          BY <4>1, SMTT(40) DEF Pays
      <3>2. /\ epoch' = [epoch EXCEPT ![k] = [AppendObservation(epoch[k], t) EXCEPT
                                                !.paidSlots = IF paid THEN @ + 1 ELSE @]]
            /\ commitment' = [commitment EXCEPT ![n] = [class |-> ClassOf[n[1]], transcript |-> t, paid |-> paid]]
            /\ epoch[k].observers < MaxObservers
        BY DEF SubmitObservation
      <3>3. paid \in BOOLEAN
        BY DEF Pays
      <3> HIDE DEF k, paid
      <3>4. epoch[k] \in EpochAccounts
        BY <2>1 DEF Typed, TypeOK, ObservationTypes, EpochAccounts
      <3>5. AppendObservation(epoch[k], t) \in EpochAccounts
        BY <3>2, <3>4, AppendTyped
      <3>6. AppendObservation(epoch[k], t).paidSlots = epoch[k].paidSlots
        BY <3>4 DEF AppendObservation, EpochAccounts
      <3>7. epoch'[k] \in EpochAccounts
        BY <2>1, <3>1, <3>2, <3>5, <3>6, ZenonT(90) DEF EpochAccounts, Typed, TypeOK, ObservationTypes
      <3>8. epoch' \in [EpochKeys -> EpochAccounts]
        BY <2>1, <3>2, <3>7 DEF EpochAccounts, Typed, TypeOK, ObservationTypes
      <3>9. (commitment \in [Nullifiers -> [class: 0 .. 3, transcript: Transcripts \cup {<<>>}, paid: BOOLEAN]])'
        BY <2>1, <3>2, <3>3, SetsAssumption DEF Typed, TypeOK, ObservationTypes
      <3>10. (retired \in [EpochKeys -> SUBSET Evaluations])'
        <4>1. retired' = [retired EXCEPT ![k] = Retired(k)]
          BY DEF SubmitObservation, k
        <4> QED
          BY <2>1, <4>1, RetiredTyped DEF Typed, TypeOK, ObservationTypes
      <3> QED
        BY <3>8, <3>9, <3>10 DEF ObservationTypes, EpochAccounts
    <2>5. UNCHANGED signatureVars
      BY DEF SubmitObservation
    <2> QED
      BY <1>1, <2>2, <2>3, <2>4, <2>5, Frame DEF Typed, TypeOK
  <1>4. CASE \E k \in EpochKeys : ComputeReport(k)
    <2> PICK k \in EpochKeys : ComputeReport(k)
      BY <1>4
    <2>1. [leaves |-> epoch[k].leaves, at |-> now] \in Evaluations
      BY DEF Typed, TypeOK, ObservationTypes, SettingTypes, Evaluations
    <2>2. [key |-> k, evaluation |-> [leaves |-> epoch[k].leaves, at |-> now]] \in Draft
      BY <2>1 DEF Draft
    <2>3. SignatureTypes'
      BY <2>2 DEF ComputeReport, Typed, TypeOK, SignatureTypes
    <2> QED
      BY <1>1, <2>3, Frame DEF ComputeReport, Typed, TypeOK
  <1>6. CASE \E draft \in computed : SignReport(draft)
    <2> PICK draft \in computed : SignReport(draft)
      BY <1>6
    <2>0. PICK k \in EpochKeys, e \in Evaluations : draft.key = k /\ draft.evaluation = e
      BY DEF Typed, TypeOK, SignatureTypes, Draft
    <2>1. k[1] \in Protocols
      BY DEF EpochKeys
    <2>7. ~Absent(k[1])
      BY <2>0 DEF SignReport
    <2>2. config[k[1]].verifier \in Verifiers /\ config[k[1]].version \in 1 .. MaxVersion
      BY <2>1, <2>7 DEF Typed, TypeOK, RegistryTypes, Registered
    <2>4. epoch[k].confidence \in Evaluations \cup {NoReport}
      BY DEF Typed, TypeOK, ObservationTypes
    <2>5. reports' = reports \cup {[verifier |-> config[k[1]].verifier, key |-> k, evaluation |-> e,
                                   previous |-> epoch[k].confidence, version |-> config[k[1]].version]}
      BY <2>0 DEF SignReport
    <2>6. SignatureTypes'
      BY <2>2, <2>4, <2>5 DEF SignReport, Typed, TypeOK, SignatureTypes, Report
    <2> QED
      BY <1>1, <2>6, Frame DEF SignReport, Typed, TypeOK
  <1>5. CASE \E report \in reports : PublishConfidence(report)
    <2> PICK report \in reports : PublishConfidence(report)
      BY <1>5
    <2>1. report.evaluation \in Evaluations /\ report.key \in EpochKeys
      BY DEF Typed, TypeOK, SignatureTypes, Report
    <2>2. [epoch[report.key] EXCEPT !.confidence = report.evaluation] \in EpochAccounts
      <3>1. epoch[report.key] \in EpochAccounts
        BY <2>1 DEF Typed, TypeOK, ObservationTypes, EpochAccounts
      <3>2. ASSUME NEW state \in EpochAccounts, NEW e \in Evaluations
            PROVE  [state EXCEPT !.confidence = e] \in EpochAccounts
        BY DEF EpochAccounts
      <3> QED
        BY <2>1, <3>1, <3>2
    <2>3. ObservationTypes'
      <3>1. (retired \in [EpochKeys -> SUBSET Evaluations])'
        <4>1. retired' = [retired EXCEPT ![report.key] = Retired(report.key)]
          BY DEF PublishConfidence
        <4> QED
          BY <2>1, <4>1, RetiredTyped DEF Typed, TypeOK, ObservationTypes
      <3> QED
        BY <2>1, <2>2, <3>1 DEF PublishConfidence, Typed, TypeOK, ObservationTypes, EpochAccounts
    <2> QED
      BY <1>1, <2>3, Frame DEF PublishConfidence, Typed, TypeOK
  <1> QED
    BY <1>2, <1>3, <1>4, <1>5, <1>6 DEF ObservationStep

\* Typed is inductive: every instruction keeps it.
LEMMA NextTyped == Typed /\ [Next]_vars => Typed'
  <1> SUFFICES ASSUME Typed, [Next]_vars PROVE Typed'
    OBVIOUS
  <1>1. CASE Tick
    <2>1. SettingTypes'
      BY <1>1, NumbersAssumption DEF Tick, Typed, TypeOK, SettingTypes
    <2> QED
      BY <1>1, <2>1, Frame DEF Tick, Typed, TypeOK
  <1>2. CASE UNCHANGED vars
    BY <1>2, Frame DEF vars, Typed, TypeOK
  <1> QED
    BY <1>1, <1>2, RegistryTyped, PaymentTyped, ObservationTyped DEF Next

\* Every account and every signature the program ever holds has its type: no
\* balance, counter or slot number leaves the range its integer width gives it.
THEOREM TypeCorrect == Spec => []TypeOK
  <1>1. Typed => TypeOK
    BY DEF Typed
  <1> QED
    BY InitTyped, NextTyped, <1>1, PTL DEF Spec

-----------------------------------------------------------------------------
(* The money. *)

\* Only a submission and a withdrawal touch payout accounts and their vaults,
\* and a claim signature, once given, stays given.
LEMMA PayoutChanges ==
    ASSUME [Next]_vars
    PROVE  /\ claims \subseteq claims'
           /\ \/ UNCHANGED <<payout, vault>>
              \/ \E n \in Nullifiers, r \in Roots, t \in Transcripts : SubmitObservation(n, r, t)
              \/ \E s \in Pseudonyms, h \in Holders, expires \in now .. now + ClaimLifetime :
                   \E amount \in 1 .. payout[s].available : ClaimPayout(s, h, amount, expires)
  <1> USE DEF ledgerVars, signatureVars
  <1>1. CASE RegistryStep
    <2>1. CASE \E a \in Authorities : InitializeEnrollmentAuthority(a)
      BY <2>1 DEF InitializeEnrollmentAuthority
    <2>2. CASE \E a \in Authorities, p \in Protocols, v \in Verifiers, version \in 1 .. MaxVersion,
                 reward \in Rewards, slots \in SlotQuotas : InitProtocol(a, p, v, version, reward, slots)
      BY <2>2 DEF InitProtocol
    <2>3. CASE \E a \in Authorities, p \in Protocols, d \in Devices : RegisterDevice(a, p, d)
      BY <2>3 DEF RegisterDevice
    <2>4. CASE \E a \in Authorities, r \in Roots, leafCount \in LeafCounts : PublishRoot(a, r, leafCount)
      BY <2>4 DEF PublishRoot
    <2>5. CASE \E a \in Authorities, p \in Protocols, v \in Verifiers, version \in 1 .. MaxVersion,
                 reward \in Rewards, slots \in SlotQuotas : UpdatePolicy(a, p, v, version, reward, slots)
      BY <2>5 DEF UpdatePolicy
    <2> QED
      BY <1>1, <2>1, <2>2, <2>3, <2>4, <2>5 DEF RegistryStep
  <1>2. CASE PaymentStep
    <2>1. CASE \E a \in Authorities : InitializePayments(a)
      BY <2>1 DEF InitializePayments
    <2>2. CASE \E a \in Authorities, bps \in FeeRates : UpdateFees(a, bps)
      BY <2>2 DEF UpdateFees
    <2>3. CASE \E p \in Protocols, amount \in Deposits : FundEscrow(p, amount)
      BY <2>3 DEF FundEscrow
    <2>4. CASE \E s \in Pseudonyms, h \in Holders, expires \in now .. now + ClaimLifetime : SignClaim(s, h, expires)
      BY <2>4 DEF SignClaim
    <2>5. CASE \E s \in Pseudonyms, h \in Holders, expires \in now .. now + ClaimLifetime :
                 \E amount \in 1 .. payout[s].available : ClaimPayout(s, h, amount, expires)
      <3>1. claims' = claims
        BY <2>5 DEF ClaimPayout
      <3> QED
        BY <2>5, <3>1
    <2> QED
      BY <1>2, <2>1, <2>2, <2>3, <2>4, <2>5 DEF PaymentStep
  <1>3. CASE ObservationStep
    <2>1. CASE \E n \in Nullifiers, t \in Transcripts : SignObservation(n, t)
      BY <2>1 DEF SignObservation
    <2>2. CASE \E n \in Nullifiers, r \in Roots, t \in Transcripts : SubmitObservation(n, r, t)
      <3>1. claims' = claims
        BY <2>2 DEF SubmitObservation
      <3> QED
        BY <2>2, <3>1
    <2>3. CASE \E k \in EpochKeys : ComputeReport(k)
      BY <2>3 DEF ComputeReport
    <2>4. CASE \E draft \in computed : SignReport(draft)
      BY <2>4 DEF SignReport
    <2>5. CASE \E report \in reports : PublishConfidence(report)
      BY <2>5 DEF PublishConfidence
    <2> QED
      BY <1>3, <2>1, <2>2, <2>3, <2>4, <2>5 DEF ObservationStep
  <1>4. CASE Tick
    BY <1>4 DEF Tick
  <1>5. CASE UNCHANGED vars
    BY <1>5 DEF vars
  <1> QED
    BY <1>1, <1>2, <1>3, <1>4, <1>5 DEF Next

\* A reward adds to balance and vault alike, a withdrawal takes from both.
LEMMA NextSolvent == Typed /\ Solvent /\ [Next]_vars => Solvent'
  <1> SUFFICES ASSUME Typed, Solvent, [Next]_vars, NEW x \in Pseudonyms
               PROVE  /\ vault'[x] >= payout'[x].available
                      /\ payout'[x].gross = payout'[x].fees + payout'[x].available + payout'[x].withdrawn
    BY DEF Solvent
  <1>0. payout[x] \in PayoutAccounts /\ vault[x] \in Nat
    BY DEF Typed, TypeOK, PayoutTypes, PayoutAccounts, LedgerTypes
  <1>1. CASE UNCHANGED <<payout, vault>>
    BY <1>1 DEF Solvent
  <1>2. ASSUME NEW n \in Nullifiers, NEW r \in Roots, NEW t \in Transcripts, SubmitObservation(n, r, t)
        PROVE  /\ vault'[x] >= payout'[x].available
               /\ payout'[x].gross = payout'[x].fees + payout'[x].available + payout'[x].withdrawn
    <2> DEFINE s == PseudonymOf(n)
               gross == IF Pays(n[2], EpochKeyOf(n)) THEN config[n[2]].reward ELSE 0
               fee == Fee(gross, fees.bps)
    <2>1. s \in Pseudonyms /\ gross \in Nat /\ fee \in 0 .. gross
      BY SubmitFacts
    <2>2. /\ payout' = [payout EXCEPT ![s] = Credit(@, gross, fee)]
          /\ vault' = [vault EXCEPT ![s] = @ + (gross - fee)]
      BY <1>2 DEF SubmitObservation
    <2> HIDE DEF s, gross, fee
    <2>3. CASE x # s
      BY <2>2, <2>3, <1>0 DEF Solvent, Typed, TypeOK, PayoutTypes, LedgerTypes
    <2>4. CASE x = s
      <3>1. payout'[x] = Credit(payout[x], gross, fee) /\ vault'[x] = vault[x] + (gross - fee)
        BY <2>1, <2>2, <2>4 DEF Typed, TypeOK, PayoutTypes, LedgerTypes
      <3>2. /\ payout'[x].gross = payout[x].gross + gross
            /\ payout'[x].fees = payout[x].fees + fee
            /\ payout'[x].available = payout[x].available + (gross - fee)
            /\ payout'[x].withdrawn = payout[x].withdrawn
        BY <3>1, <1>0 DEF Credit, PayoutAccounts
      <3>3. /\ payout[x].gross \in Nat /\ payout[x].fees \in Nat
            /\ payout[x].available \in Nat /\ payout[x].withdrawn \in Nat
        BY <1>0 DEF PayoutAccounts
      <3> QED
        BY <2>1, <3>1, <3>2, <3>3, <1>0 DEF Solvent
    <2> QED
      BY <2>3, <2>4
  <1>3. ASSUME NEW s \in Pseudonyms, NEW h \in Holders, NEW expires \in now .. now + ClaimLifetime,
               NEW amount \in 1 .. payout[s].available, ClaimPayout(s, h, amount, expires)
        PROVE  /\ vault'[x] >= payout'[x].available
               /\ payout'[x].gross = payout'[x].fees + payout'[x].available + payout'[x].withdrawn
    <2>1. /\ payout' = [payout EXCEPT ![s] = Debit(@, h, amount)]
          /\ vault' = [vault EXCEPT ![s] = @ - amount]
      BY <1>3 DEF ClaimPayout
    <2>2. CASE x # s
      BY <2>1, <2>2, <1>0 DEF Solvent, Typed, TypeOK, PayoutTypes, LedgerTypes
    <2>3. CASE x = s
      <3>1. payout'[x] = Debit(payout[x], h, amount) /\ vault'[x] = vault[x] - amount
        BY <2>1, <2>3 DEF Typed, TypeOK, PayoutTypes, LedgerTypes
      <3>2. /\ payout'[x].gross = payout[x].gross /\ payout'[x].fees = payout[x].fees
            /\ payout'[x].available = payout[x].available - amount
            /\ payout'[x].withdrawn = payout[x].withdrawn + amount
        BY <3>1, <1>0 DEF Debit, PayoutAccounts
      <3>3. /\ payout[x].gross \in Nat /\ payout[x].fees \in Nat
            /\ payout[x].available \in Nat /\ payout[x].withdrawn \in Nat
        BY <1>0 DEF PayoutAccounts
      <3>4. amount \in Nat
        BY <1>0, <2>3 DEF PayoutAccounts
      <3> QED
        BY <3>1, <3>2, <3>3, <3>4, <1>0 DEF Solvent
    <2> QED
      BY <2>2, <2>3
  <1> QED
    BY <1>1, <1>2, <1>3, PayoutChanges

\* A payout vault always covers the balance of its account, and the balance is
\* what was earned less fees and withdrawals, for any rewards, fees and policies.
THEOREM VaultsSolvent == Spec => []Solvent
  <1>1. Init => Solvent
    BY DEF Init, Solvent, EmptyPayout
  <1> QED
    BY <1>1, InitTyped, NextTyped, NextSolvent, PTL DEF Spec

\* A step changes the key and the nonce of a pseudonym only by a withdrawal of
\* that pseudonym, which the old key or a verifier's signature authorizes.
LEMMA KeyChanges ==
    ASSUME Typed, [Next]_vars, NEW x \in Pseudonyms
    PROVE  \/ /\ payout'[x].key = payout[x].key /\ payout'[x].nonce = payout[x].nonce
              /\ payout'[x].withdrawn = payout[x].withdrawn
           \/ \E h \in Holders, amount \in Nat, expires \in Nat :
                 payout'[x].key = h /\ ClaimAuthorized(x, h, amount, expires)
  <1> DEFINE Goal == \/ /\ payout'[x].key = payout[x].key /\ payout'[x].nonce = payout[x].nonce
                        /\ payout'[x].withdrawn = payout[x].withdrawn
                     \/ \E h \in Holders, amount \in Nat, expires \in Nat :
                           payout'[x].key = h /\ ClaimAuthorized(x, h, amount, expires)
  <1>0. payout[x] \in PayoutAccounts
    BY DEF Typed, TypeOK, PayoutTypes, PayoutAccounts
  <1>1. CASE UNCHANGED <<payout, vault>>
    BY <1>1
  <1>2. ASSUME NEW n \in Nullifiers, NEW r \in Roots, NEW t \in Transcripts, SubmitObservation(n, r, t)
        PROVE  Goal
    <2> DEFINE s == PseudonymOf(n)
               gross == IF Pays(n[2], EpochKeyOf(n)) THEN config[n[2]].reward ELSE 0
               fee == Fee(gross, fees.bps)
    <2>1. payout' = [payout EXCEPT ![s] = Credit(@, gross, fee)]
      BY <1>2 DEF SubmitObservation
    <2> HIDE DEF s, gross, fee
    <2>2. payout'[x] = payout[x] \/ payout'[x] = Credit(payout[x], gross, fee)
      BY <2>1 DEF Typed, TypeOK, PayoutTypes
    <2> QED
      BY <2>2, <1>0 DEF Credit, PayoutAccounts
  <1>3. ASSUME NEW s \in Pseudonyms, NEW h \in Holders, NEW expires \in now .. now + ClaimLifetime,
               NEW amount \in 1 .. payout[s].available, ClaimPayout(s, h, amount, expires)
        PROVE  Goal
    <2>1. payout' = [payout EXCEPT ![s] = Debit(@, h, amount)]
      BY <1>3 DEF ClaimPayout
    <2>2. CASE x # s
      BY <2>1, <2>2 DEF Typed, TypeOK, PayoutTypes
    <2>3. CASE x = s
      <3>1. payout'[x] = Debit(payout[x], h, amount)
        BY <2>1, <2>3 DEF Typed, TypeOK, PayoutTypes
      <3>2. payout'[x].key = h
        BY <3>1, <1>0 DEF Debit, PayoutAccounts
      <3>3. ClaimAuthorized(x, h, amount, expires)
        BY <1>3, <2>3 DEF ClaimPayout
      <3>4. amount \in Nat /\ expires \in Nat
        BY <1>0, <2>3, NumbersAssumption DEF PayoutAccounts, Typed, TypeOK, SettingTypes
      <3> QED
        BY <3>2, <3>3, <3>4
    <2> QED
      BY <2>2, <2>3
  <1> QED
    BY <1>1, <1>2, <1>3, PayoutChanges

\* A key is bound only by a withdrawal that carries a verifier's signature, and
\* signatures stay given.
LEMMA NextKeyAuthorized == Typed /\ KeyAuthorized /\ [Next]_vars => KeyAuthorized'
  <1> SUFFICES ASSUME Typed, KeyAuthorized, [Next]_vars, NEW x \in Pseudonyms
               PROVE  /\ payout'[x].key = NoKey => payout'[x].withdrawn = 0 /\ payout'[x].nonce = 0
                      /\ payout'[x].key # NoKey =>
                            \E c \in claims' : c.pseudonym = x /\ c.key = payout'[x].key /\ c.nonce = 0
    BY DEF KeyAuthorized
  <1>1. claims \subseteq claims'
    BY PayoutChanges
  <1>2. CASE /\ payout'[x].key = payout[x].key /\ payout'[x].nonce = payout[x].nonce
             /\ payout'[x].withdrawn = payout[x].withdrawn
    BY <1>1, <1>2 DEF KeyAuthorized
  <1>3. ASSUME NEW h \in Holders, NEW amount \in Nat, NEW expires \in Nat,
               payout'[x].key = h, ClaimAuthorized(x, h, amount, expires)
        PROVE  h # NoKey /\ \E c \in claims' : c.pseudonym = x /\ c.key = h /\ c.nonce = 0
    <2>1. h # NoKey
      BY SetsAssumption
    <2>2. CASE payout[x].key = h
      BY <1>1, <2>1, <2>2 DEF KeyAuthorized
    <2>3. CASE payout[x].key # h
      <3>1. payout[x].nonce = 0
        BY <1>3, <2>3 DEF ClaimAuthorized, KeyAuthorized
      <3>2. \E c \in claims : c.pseudonym = x /\ c.key = h /\ c.nonce = payout[x].nonce
        BY <1>3, <2>3 DEF ClaimAuthorized
      <3> QED
        BY <1>1, <2>1, <3>1, <3>2
    <2> QED
      BY <2>2, <2>3
  <1> QED
    BY <1>2, <1>3, KeyChanges

\* Only a key that a verifier signed for ever withdraws from a pseudonym.
THEOREM WithdrawalsAuthorized == Spec => []KeyAuthorized
  <1>1. Init => KeyAuthorized
    BY DEF Init, KeyAuthorized, EmptyPayout
  <1> QED
    BY <1>1, InitTyped, NextTyped, NextKeyAuthorized, PTL DEF Spec

\* No single step replaces a bound key.
LEMMA NextKeepsKey ==
    Typed /\ [Next]_vars
        => [\A s \in Pseudonyms : payout[s].key # NoKey => payout'[s].key = payout[s].key]_vars
  BY KeyChanges DEF ClaimAuthorized

\* A bound withdrawal key is never replaced.
THEOREM KeysPermanent == Spec => KeyNeverRebound
  BY InitTyped, NextTyped, NextKeepsKey, PTL DEF Spec, KeyNeverRebound

-----------------------------------------------------------------------------
(* Confidence. *)

\* Only a submission and a publication touch an epoch and its history, and
\* reports are added only by signing.
LEMMA EpochChanges ==
    ASSUME [Next]_vars
    PROVE  \/ UNCHANGED <<epoch, retired, reports>>
           \/ \E draft \in computed : SignReport(draft)
           \/ \E n \in Nullifiers, r \in Roots, t \in Transcripts : SubmitObservation(n, r, t)
           \/ \E report \in reports : PublishConfidence(report)
  <1> USE DEF observationVars, signatureVars
  <1>1. CASE RegistryStep
    <2>1. CASE \E a \in Authorities : InitializeEnrollmentAuthority(a)
      BY <2>1 DEF InitializeEnrollmentAuthority
    <2>2. CASE \E a \in Authorities, p \in Protocols, v \in Verifiers, version \in 1 .. MaxVersion,
                 reward \in Rewards, slots \in SlotQuotas : InitProtocol(a, p, v, version, reward, slots)
      BY <2>2 DEF InitProtocol
    <2>3. CASE \E a \in Authorities, p \in Protocols, d \in Devices : RegisterDevice(a, p, d)
      BY <2>3 DEF RegisterDevice
    <2>4. CASE \E a \in Authorities, r \in Roots, leafCount \in LeafCounts : PublishRoot(a, r, leafCount)
      BY <2>4 DEF PublishRoot
    <2>5. CASE \E a \in Authorities, p \in Protocols, v \in Verifiers, version \in 1 .. MaxVersion,
                 reward \in Rewards, slots \in SlotQuotas : UpdatePolicy(a, p, v, version, reward, slots)
      BY <2>5 DEF UpdatePolicy
    <2> QED
      BY <1>1, <2>1, <2>2, <2>3, <2>4, <2>5 DEF RegistryStep
  <1>2. CASE PaymentStep
    <2>1. CASE \E a \in Authorities : InitializePayments(a)
      BY <2>1 DEF InitializePayments
    <2>2. CASE \E a \in Authorities, bps \in FeeRates : UpdateFees(a, bps)
      BY <2>2 DEF UpdateFees
    <2>3. CASE \E p \in Protocols, amount \in Deposits : FundEscrow(p, amount)
      BY <2>3 DEF FundEscrow
    <2>4. CASE \E s \in Pseudonyms, h \in Holders, expires \in now .. now + ClaimLifetime : SignClaim(s, h, expires)
      BY <2>4 DEF SignClaim
    <2>5. CASE \E s \in Pseudonyms, h \in Holders, expires \in now .. now + ClaimLifetime :
                 \E amount \in 1 .. payout[s].available : ClaimPayout(s, h, amount, expires)
      BY <2>5 DEF ClaimPayout
    <2> QED
      BY <1>2, <2>1, <2>2, <2>3, <2>4, <2>5 DEF PaymentStep
  <1>3. CASE ObservationStep
    <2>1. CASE \E n \in Nullifiers, t \in Transcripts : SignObservation(n, t)
      BY <2>1 DEF SignObservation
    <2>2. CASE \E k \in EpochKeys : ComputeReport(k)
      BY <2>2 DEF ComputeReport
    <2> QED
      BY <1>3, <2>1, <2>2 DEF ObservationStep
  <1>4. CASE Tick
    BY <1>4 DEF Tick
  <1>5. CASE UNCHANGED vars
    BY <1>5 DEF vars
  <1> QED
    BY <1>1, <1>2, <1>3, <1>4, <1>5 DEF Next

\* What a step can do to the confidence, the leaves and the history of one epoch.
EpochMoves(k) ==
    \/ epoch'[k] = epoch[k] /\ retired'[k] = retired[k]
    \/ /\ EpochOpen(k[3]) /\ epoch'[k].confidence = NoReport /\ retired'[k] = Retired(k)
       /\ \E t \in Transcripts : epoch'[k].leaves = Append(epoch[k].leaves, t)
    \/ /\ retired'[k] = Retired(k) /\ epoch'[k].leaves = epoch[k].leaves
       /\ \E report \in reports :
             /\ report.key = k /\ report.previous = epoch[k].confidence
             /\ report.evaluation.leaves = epoch[k].leaves
             /\ epoch'[k].confidence = report.evaluation

LEMMA ConfidenceChanges ==
    ASSUME Typed, [Next]_vars, NEW k \in EpochKeys
    PROVE  EpochMoves(k)
  <1>0. epoch[k] \in EpochAccounts /\ retired \in [EpochKeys -> SUBSET Evaluations]
    BY DEF Typed, TypeOK, ObservationTypes, EpochAccounts
  <1>1. ASSUME NEW n \in Nullifiers, NEW r \in Roots, NEW t \in Transcripts, SubmitObservation(n, r, t)
        PROVE  EpochMoves(k)
    <2> DEFINE paid == Pays(n[2], EpochKeyOf(n))
    <2>1. /\ epoch' = [epoch EXCEPT ![EpochKeyOf(n)] = [AppendObservation(epoch[EpochKeyOf(n)], t) EXCEPT
                                                          !.paidSlots = IF paid THEN @ + 1 ELSE @]]
          /\ retired' = [retired EXCEPT ![EpochKeyOf(n)] = Retired(EpochKeyOf(n))]
          /\ EpochOpen(n[4])
      BY <1>1 DEF SubmitObservation
    <2> HIDE DEF paid
    <2>2. CASE k # EpochKeyOf(n)
      BY <1>0, <2>1, <2>2 DEF EpochMoves, Typed, TypeOK, ObservationTypes
    <2>3. CASE k = EpochKeyOf(n)
      <3>1. EpochOpen(k[3])
        BY <2>1, <2>3 DEF EpochKeyOf
      <3>2. /\ epoch'[k] = [AppendObservation(epoch[k], t) EXCEPT !.paidSlots = IF paid THEN @ + 1 ELSE @]
            /\ retired'[k] = Retired(k)
        BY <1>0, <2>1, <2>3 DEF Typed, TypeOK, ObservationTypes
      <3>3. /\ AppendObservation(epoch[k], t).confidence = NoReport
            /\ AppendObservation(epoch[k], t).leaves = Append(epoch[k].leaves, t)
        BY <1>0 DEF AppendObservation, EpochAccounts
      <3>4. epoch'[k].confidence = NoReport /\ epoch'[k].leaves = Append(epoch[k].leaves, t)
        BY <1>0, <3>2, <3>3 DEF AppendObservation, EpochAccounts
      <3> QED
        BY <3>1, <3>2, <3>4 DEF EpochMoves
    <2> QED
      BY <2>2, <2>3
  <1>2. ASSUME NEW report \in reports, PublishConfidence(report)
        PROVE  EpochMoves(k)
    <2>1. /\ epoch' = [epoch EXCEPT ![report.key].confidence = report.evaluation]
          /\ retired' = [retired EXCEPT ![report.key] = Retired(report.key)]
      BY <1>2 DEF PublishConfidence
    <2>2. CASE k # report.key
      BY <1>0, <2>1, <2>2 DEF EpochMoves, Typed, TypeOK, ObservationTypes
    <2>3. CASE k = report.key
      <3>1. /\ epoch'[k] = [epoch[k] EXCEPT !.confidence = report.evaluation]
            /\ retired'[k] = Retired(k)
        BY <1>0, <2>1, <2>3 DEF Typed, TypeOK, ObservationTypes
      <3>2. epoch'[k].confidence = report.evaluation /\ epoch'[k].leaves = epoch[k].leaves
        BY <1>0, <3>1 DEF EpochAccounts
      <3>3. report.previous = epoch[k].confidence /\ report.evaluation.leaves = epoch[k].leaves
        BY <1>2, <2>3 DEF PublishConfidence, MatchesEpoch
      <3> QED
        BY <2>3, <3>1, <3>2, <3>3 DEF EpochMoves
    <2> QED
      BY <2>2, <2>3
  <1>3. ASSUME NEW draft \in computed, SignReport(draft)
        PROVE  EpochMoves(k)
    BY <1>3 DEF SignReport, observationVars, EpochMoves
  <1>4. ASSUME UNCHANGED <<epoch, retired, reports>> PROVE EpochMoves(k)
    BY <1>4 DEF EpochMoves
  <1> QED
    BY <1>1, <1>2, <1>3, <1>4, EpochChanges

\* A step that appends a leaf withdraws the confidence; a publication matches the
\* tree of that moment.
LEMMA NextConfidenceCurrent == Typed /\ ConfidenceCurrent /\ [Next]_vars => ConfidenceCurrent'
  BY ConfidenceChanges DEF ConfidenceCurrent, EpochMoves

\* A directory signs its evaluation once.
SignedOnce == \A one, two \in reports : one.key = two.key /\ one.evaluation = two.evaluation => one = two

\* What an epoch shows now was never retired; what was retired was signed by
\* some report, is no longer than the tree, and is of the present tree only
\* while a confidence is published.
HistorySound(k) ==
    /\ epoch[k].confidence \notin retired[k]
    /\ \A e \in retired[k] :
          /\ Len(e.leaves) <= Len(epoch[k].leaves)
          /\ e.leaves = epoch[k].leaves => epoch[k].confidence # NoReport
    /\ \A e \in Retired(k) : \E report \in reports : report.key = k /\ report.evaluation = e

\* A report whose evaluation was once published replaced nothing or what is now
\* history.
ReplacedIsHistory ==
    \A report \in reports : report.evaluation \in Retired(report.key) =>
        report.previous = NoReport \/ report.previous \in retired[report.key]

ChainInv == SignedOnce /\ ReplacedIsHistory /\ \A k \in EpochKeys : HistorySound(k)

LEMMA ReportTypes ==
    ASSUME Typed, NEW report \in reports
    PROVE  report.key \in EpochKeys /\ report.evaluation \in Evaluations /\ report.evaluation # NoReport
  <1>1. report.key \in EpochKeys /\ report.evaluation \in Evaluations
    BY DEF Typed, TypeOK, SignatureTypes, Report
  <1> QED
    BY <1>1, SetsAssumption DEF Evaluations

\* A new report is of an evaluation that was never signed, so never published.
LEMMA SigningKeepsChain ==
    ASSUME Typed, ChainInv, NEW draft \in computed, SignReport(draft)
    PROVE  ChainInv'
  <1>1. PICK new : /\ reports' = reports \cup {new} /\ new.key = draft.key /\ new.evaluation = draft.evaluation
                   /\ \A report \in reports : report.key = new.key => report.evaluation # new.evaluation
    BY DEF SignReport
  <1>2. epoch' = epoch /\ retired' = retired /\ draft.key \in EpochKeys
    BY DEF SignReport, observationVars, Typed, TypeOK, SignatureTypes, Draft
  <1>3. \A k : Retired(k)' = Retired(k)
    BY <1>2 DEF Retired
  <1>4. SignedOnce'
    BY <1>1 DEF ChainInv, SignedOnce
  <1>5. new.evaluation \notin Retired(new.key)
    BY <1>1, <1>2 DEF ChainInv, HistorySound
  <1>6. ReplacedIsHistory'
    BY <1>1, <1>2, <1>3, <1>5 DEF ChainInv, ReplacedIsHistory
  <1>7. ASSUME NEW k \in EpochKeys PROVE HistorySound(k)'
    BY <1>1, <1>2, <1>3 DEF ChainInv, HistorySound
  <1> QED
    BY <1>4, <1>6, <1>7 DEF ChainInv

\* A publication shows an evaluation that was not shown before: what the same
\* report would have replaced then is history by now, not what the epoch shows.
LEMMA EpochKeepsChain ==
    ASSUME Typed, ConfidenceCurrent, ChainInv, reports' = reports, NEW k \in EpochKeys, EpochMoves(k)
    PROVE  /\ HistorySound(k)'
           /\ \A report \in reports : report.key = k /\ report.evaluation \in Retired(k)' =>
                 report.previous = NoReport \/ report.previous \in retired'[k]
  <1>0. /\ epoch[k].leaves \in Seq(Transcripts) /\ retired[k] \subseteq Evaluations
        /\ NoReport \notin Evaluations /\ epoch[k].confidence \in Evaluations \cup {NoReport}
    BY SetsAssumption DEF Typed, TypeOK, ObservationTypes, Evaluations
  <1>1. HistorySound(k)
    BY DEF ChainInv
  <1>2. ASSUME NEW report \in reports, report.key = k, report.evaluation \in Retired(k)
        PROVE  report.previous = NoReport \/ report.previous \in retired[k]
    BY <1>2 DEF ChainInv, ReplacedIsHistory
  <1>3. ASSUME NEW e \in Retired(k) PROVE Len(e.leaves) \in Nat /\ Len(e.leaves) <= Len(epoch[k].leaves)
    <2>1. e \in Evaluations
      BY RetiredTyped
    <2>2. Len(e.leaves) \in Nat
      BY <2>1 DEF Evaluations
    <2>3. CASE e \in retired[k]
      BY <1>1, <2>2, <2>3 DEF HistorySound
    <2>4. CASE e = epoch[k].confidence /\ e # NoReport
      BY <2>2, <2>4 DEF ConfidenceCurrent
    <2> QED
      BY <1>3, <2>3, <2>4 DEF Retired
  <1>4. Retired(k) = retired[k] \cup ({epoch[k].confidence} \ {NoReport})
        /\ Retired(k)' = retired'[k] \cup ({epoch'[k].confidence} \ {NoReport})
    BY DEF Retired
  <1>5. CASE epoch'[k] = epoch[k] /\ retired'[k] = retired[k]
    <2>1. Retired(k)' = Retired(k)
      BY <1>4, <1>5
    <2> QED
      BY <1>1, <1>2, <1>5, <2>1 DEF HistorySound
  <1>6. ASSUME epoch'[k].confidence = NoReport, retired'[k] = Retired(k),
               NEW t \in Transcripts, epoch'[k].leaves = Append(epoch[k].leaves, t)
        PROVE  /\ HistorySound(k)'
               /\ \A report \in reports : report.key = k /\ report.evaluation \in Retired(k)' =>
                     report.previous = NoReport \/ report.previous \in retired'[k]
    <2>1. Retired(k)' = Retired(k) /\ NoReport \notin Retired(k)
      BY <1>0, <1>4, <1>6
    <2>2. Len(epoch'[k].leaves) = Len(epoch[k].leaves) + 1 /\ Len(epoch[k].leaves) \in Nat
      BY <1>0, <1>6
    <2>3. ASSUME NEW e \in retired'[k]
          PROVE  Len(e.leaves) <= Len(epoch'[k].leaves) /\ e.leaves # epoch'[k].leaves
      <3>1. Len(e.leaves) \in Nat /\ Len(e.leaves) <= Len(epoch[k].leaves)
        BY <1>3, <1>6, <2>3
      <3>2. Len(e.leaves) # Len(epoch'[k].leaves) /\ Len(e.leaves) <= Len(epoch'[k].leaves)
        BY <2>2, <3>1
      <3> QED
        BY <3>2, Zenon
    <2>4. \A e \in Retired(k)' : \E report \in reports' : report.key = k /\ report.evaluation = e
      BY <1>1, <2>1 DEF HistorySound
    <2>5. HistorySound(k)'
      BY <1>6, <2>1, <2>3, <2>4 DEF HistorySound
    <2> QED
      BY <1>2, <1>4, <1>6, <2>1, <2>5
  <1>7. ASSUME retired'[k] = Retired(k), epoch'[k].leaves = epoch[k].leaves, NEW report \in reports,
               report.key = k, report.previous = epoch[k].confidence,
               report.evaluation.leaves = epoch[k].leaves, epoch'[k].confidence = report.evaluation
        PROVE  /\ HistorySound(k)'
               /\ \A r \in reports : r.key = k /\ r.evaluation \in Retired(k)' =>
                     r.previous = NoReport \/ r.previous \in retired'[k]
    <2>0. report.evaluation # NoReport
      BY ReportTypes
    <2>1. report.evaluation \notin Retired(k)
      <3> SUFFICES ASSUME report.evaluation \in Retired(k) PROVE FALSE
        OBVIOUS
      <3>1. report.previous = NoReport
        BY <1>1, <1>2, <1>7 DEF HistorySound
      <3>2. epoch[k].confidence = NoReport /\ report.evaluation \in retired[k]
        BY <1>4, <1>7, <3>1
      <3> QED
        BY <1>1, <1>7, <3>2 DEF HistorySound
    <2>2. Retired(k)' = Retired(k) \cup {report.evaluation}
      BY <1>4, <1>7, <2>0
    <2>3. \A e \in retired'[k] : Len(e.leaves) <= Len(epoch'[k].leaves)
      BY <1>3, <1>7
    <2>4. \A e \in Retired(k)' : \E r \in reports' : r.key = k /\ r.evaluation = e
      BY <1>1, <1>7, <2>2 DEF HistorySound
    <2>5. HistorySound(k)'
      BY <1>7, <2>0, <2>1, <2>3, <2>4 DEF HistorySound
    <2>6. ASSUME NEW r \in reports, r.key = k, r.evaluation \in Retired(k)'
          PROVE  r.previous = NoReport \/ r.previous \in retired'[k]
      <3>1. CASE r.evaluation \in Retired(k)
        BY <1>2, <1>4, <1>7, <2>6, <3>1
      <3>2. CASE r.evaluation = report.evaluation
        <4>1. r = report
          BY <1>7, <2>6, <3>2 DEF ChainInv, SignedOnce
        <4> QED
          BY <1>4, <1>7, <4>1
      <3> QED
        BY <2>2, <2>6, <3>1, <3>2
    <2> QED
      BY <2>5, <2>6
  <1> QED
    BY <1>5, <1>6, <1>7 DEF EpochMoves

LEMMA NextChain == Typed /\ ConfidenceCurrent /\ ChainInv /\ [Next]_vars => ChainInv'
  <1> SUFFICES ASSUME Typed, ConfidenceCurrent, ChainInv, [Next]_vars PROVE ChainInv'
    OBVIOUS
  <1>1. ASSUME reports' = reports PROVE ChainInv'
    <2>1. SignedOnce'
      BY <1>1 DEF ChainInv, SignedOnce
    <2>2. ASSUME NEW k \in EpochKeys
          PROVE  /\ HistorySound(k)'
                 /\ \A report \in reports : report.key = k /\ report.evaluation \in Retired(k)' =>
                       report.previous = NoReport \/ report.previous \in retired'[k]
      BY <1>1, EpochKeepsChain, ConfidenceChanges
    <2>3. ReplacedIsHistory'
      <3>1. ASSUME NEW report \in reports', report.evaluation \in Retired(report.key)'
            PROVE  report.previous = NoReport \/ report.previous \in retired'[report.key]
        BY <1>1, <2>2, <3>1, ReportTypes
      <3> QED
        BY <3>1 DEF ReplacedIsHistory
    <2> QED
      BY <2>1, <2>2, <2>3 DEF ChainInv
  <1>2. ASSUME NEW n \in Nullifiers, NEW r \in Roots, NEW t \in Transcripts, SubmitObservation(n, r, t)
        PROVE  reports' = reports
    BY <1>2 DEF SubmitObservation, signatureVars
  <1>3. ASSUME NEW report \in reports, PublishConfidence(report) PROVE reports' = reports
    BY <1>3 DEF PublishConfidence, signatureVars
  <1> QED
    BY <1>1, <1>2, <1>3, SigningKeepsChain, EpochChanges

\* No report is published or signed at the start.
LEMMA InitEvaluations == Init => ConfidenceCurrent /\ ChainInv
  <1> SUFFICES ASSUME Init PROVE ConfidenceCurrent /\ ChainInv
    OBVIOUS
  <1>1. reports = {} /\ \A k \in EpochKeys : epoch[k].confidence = NoReport /\ retired[k] = {}
    BY DEF Init, EmptyEpoch
  <1> QED
    BY <1>1 DEF ConfidenceCurrent, ChainInv, SignedOnce, ReplacedIsHistory, HistorySound, Retired

\* A published confidence always describes the current observation tree.
THEOREM ConfidenceNeverStale == Spec => []ConfidenceCurrent
  BY InitEvaluations, InitTyped, NextTyped, NextConfidenceCurrent, PTL DEF Spec

\* What was replaced or withdrawn is never published again, although signed
\* reports stay good for anyone to submit and are signed after their evaluation.
THEOREM ConfidenceNeverRestored == Spec => []NeverRestored
  <1>1. ChainInv => NeverRestored
    BY DEF ChainInv, HistorySound, NeverRestored
  <1> QED
    BY <1>1, InitEvaluations, InitTyped, NextTyped, NextConfidenceCurrent, NextChain, PTL DEF Spec

\* A submission needs the epoch open, so a closed one keeps tree and confidence.
LEMMA NextClosedEpochFinal ==
    Typed /\ [Next]_vars
        => [\A k \in EpochKeys : EpochClosed(k[3]) =>
              /\ epoch'[k].leaves = epoch[k].leaves
              /\ epoch[k].confidence # NoReport => epoch'[k].confidence # NoReport]_vars
  <1> SUFFICES ASSUME Typed, [Next]_vars, NEW k \in EpochKeys, EpochClosed(k[3])
               PROVE  /\ epoch'[k].leaves = epoch[k].leaves
                      /\ epoch[k].confidence # NoReport => epoch'[k].confidence # NoReport
    OBVIOUS
  <1>1. ~EpochOpen(k[3])
    <2>1. k[3] \in Int
      BY DEF EpochKeys, Epochs
    <2>2. Floor0(now - ClockSlack) \div EpochSeconds \in Int
      BY NumbersAssumption DEF Floor0, Typed, TypeOK, SettingTypes
    <2> QED
      BY <2>1, <2>2 DEF EpochClosed, EpochOpen
  <1>2. ASSUME NEW report \in reports PROVE report.evaluation # NoReport
    <2>1. report.evaluation \in Evaluations
      BY DEF Typed, TypeOK, SignatureTypes, Report
    <2> QED
      BY <2>1, SetsAssumption DEF Evaluations
  <1> QED
    BY <1>1, <1>2, ConfidenceChanges DEF EpochMoves

\* Once its window has closed an epoch's tree and its published confidence stay.
THEOREM ClosedEpochsFinal == Spec => ClosedEpochFinal
  BY InitTyped, NextTyped, NextClosedEpochFinal, PTL DEF Spec, ClosedEpochFinal

-----------------------------------------------------------------------------
(* The ring of observer roots. *)

\* Only a publication touches the roots; a step that leaves the commitments
\* alone changes nothing of an epoch but its confidence.
LEMMA RootChanges ==
    ASSUME Typed, [Next]_vars
    PROVE  \/ /\ enrollment'.publications = enrollment.publications /\ enrollment'.recent = enrollment.recent
              /\ UNCHANGED <<rootLeaves, published>>
           \/ \E a \in Authorities, r \in Roots, leafCount \in LeafCounts : PublishRoot(a, r, leafCount)
  <1> DEFINE Same == /\ enrollment'.publications = enrollment.publications /\ enrollment'.recent = enrollment.recent
                     /\ UNCHANGED <<rootLeaves, published>>
  <1>1. CASE RegistryStep
    <2>1. ASSUME NEW a \in Authorities, InitializeEnrollmentAuthority(a) PROVE Same
      BY <2>1 DEF InitializeEnrollmentAuthority, Typed, TypeOK, RegistryTypes
    <2>2. CASE \E a \in Authorities, p \in Protocols, v \in Verifiers, version \in 1 .. MaxVersion,
                 reward \in Rewards, slots \in SlotQuotas : InitProtocol(a, p, v, version, reward, slots)
      BY <2>2 DEF InitProtocol
    <2>3. CASE \E a \in Authorities, p \in Protocols, d \in Devices : RegisterDevice(a, p, d)
      BY <2>3 DEF RegisterDevice
    <2>4. CASE \E a \in Authorities, p \in Protocols, v \in Verifiers, version \in 1 .. MaxVersion,
                 reward \in Rewards, slots \in SlotQuotas : UpdatePolicy(a, p, v, version, reward, slots)
      BY <2>4 DEF UpdatePolicy
    <2> QED
      BY <1>1, <2>1, <2>2, <2>3, <2>4 DEF RegistryStep
  <1>2. CASE PaymentStep
    <2>1. UNCHANGED registryVars
      BY <1>2, SMTT(40) DEF PaymentStep, InitializePayments, UpdateFees, FundEscrow, SignClaim, ClaimPayout
    <2> QED
      BY <2>1 DEF registryVars
  <1>3. CASE ObservationStep
    <2>1. UNCHANGED registryVars
      BY <1>3, ZenonT(90) DEF ObservationStep, SignObservation, SubmitObservation, ComputeReport, SignReport, PublishConfidence
    <2> QED
      BY <2>1 DEF registryVars
  <1>4. CASE Tick \/ UNCHANGED vars
    BY <1>4 DEF Tick, vars, registryVars
  <1> QED
    BY <1>1, <1>2, <1>3, <1>4 DEF Next

\* The ring holds the newest publications at their place, and the accounts of
\* the roots are those of the publications.
RingInv ==
    /\ enrollment.publications = Len(published)
    /\ \A j \in 1 .. Len(published) : j > Len(published) - RootWindow => enrollment.recent[(j - 1) % RootWindow] = published[j]
    /\ \A j \in 1 .. Len(published) : rootLeaves[published[j]] # -1
    /\ \A i, j \in 1 .. Len(published) : published[i] = published[j] => i = j

LEMMA NextRing == Typed /\ RingInv /\ [Next]_vars => RingInv'
  <1> SUFFICES ASSUME Typed, RingInv, [Next]_vars PROVE RingInv'
    OBVIOUS
  <1>1. CASE /\ enrollment'.publications = enrollment.publications /\ enrollment'.recent = enrollment.recent
             /\ UNCHANGED <<rootLeaves, published>>
    BY <1>1 DEF RingInv
  <1>2. ASSUME NEW a \in Authorities, NEW r \in Roots, NEW leafCount \in LeafCounts, PublishRoot(a, r, leafCount)
        PROVE  RingInv'
    <2>1. PICK m \in Nat : m = Len(published) /\ m = enrollment.publications
      BY DEF Typed, TypeOK, RegistryTypes, RingInv
    <2>2. /\ published \in Seq(Roots) /\ published' = Append(published, r)
          /\ rootLeaves[r] = -1 /\ rootLeaves' = [rootLeaves EXCEPT ![r] = leafCount] /\ leafCount # -1
      BY <1>2, NumbersAssumption, SMTT(40) DEF PublishRoot, Typed, TypeOK, RegistryTypes
    <2>3. /\ Len(published') = m + 1 /\ published'[m + 1] = r
          /\ \A j \in 1 .. m : published'[j] = published[j] /\ published[j] \in Roots
      <3>1. published \in Seq(Roots) /\ published' = Append(published, r) /\ Len(published) = m
        BY <2>1, <2>2
      <3> QED
        BY <3>1
    <2>4. m % 4 \in 0 .. 3
      BY <2>1
    <2>5. /\ enrollment'.publications = m + 1
          /\ enrollment'.recent = [enrollment.recent EXCEPT ![m % 4] = r]
      BY <1>2, <2>1 DEF PublishRoot, Typed, TypeOK, RegistryTypes, RootWindow
    <2>6. enrollment'.recent[m % 4] = r /\ \A i \in 0 .. 3 : i # m % 4 => enrollment'.recent[i] = enrollment.recent[i]
      BY <2>4, <2>5 DEF Typed, TypeOK, RegistryTypes, RootWindow
    <2>7. ASSUME NEW j \in 1 .. m + 1, j > m + 1 - 4 PROVE enrollment'.recent[(j - 1) % 4] = published'[j]
      <3>1. CASE j = m + 1
        <4>1. (j - 1) % 4 = m % 4
          BY <2>1, <3>1
        <4> QED
          BY <2>3, <2>6, <3>1, <4>1
      <3>2. CASE j \in 1 .. m
        <4>1. (j - 1) % 4 \in 0 .. 3 /\ (j - 1) % 4 # m % 4
          BY <2>1, <2>7, <3>2
        <4>2. enrollment.recent[(j - 1) % 4] = published[j]
          BY <2>1, <2>7, <3>2 DEF RingInv, RootWindow
        <4> QED
          BY <2>3, <2>6, <3>2, <4>1, <4>2
      <3> QED
        BY <2>1, <3>1, <3>2
    <2>8. \A j \in 1 .. m : published[j] # r
      BY <2>1, <2>2 DEF RingInv
    <2>9. \A j \in 1 .. m + 1 : rootLeaves'[published'[j]] # -1
      BY <2>1, <2>2, <2>3, <2>8 DEF RingInv, Typed, TypeOK, RegistryTypes
    <2>10. \A i, j \in 1 .. m + 1 : published'[i] = published'[j] => i = j
      <3>1. \A i \in 1 .. m + 1 : i = m + 1 \/ i \in 1 .. m
        BY <2>1
      <3>2. \A i, j \in 1 .. m : published[i] = published[j] => i = j
        BY <2>1 DEF RingInv
      <3> QED
        BY <2>3, <2>8, <3>1, <3>2
    <2> QED
      BY <2>3, <2>5, <2>7, <2>9, <2>10 DEF RingInv, RootWindow
  <1> QED
    BY <1>1, <1>2, RootChanges

LEMMA RingOfLatest == Typed /\ RingInv => RootRing
  <1> SUFFICES ASSUME Typed, RingInv PROVE RootRing
    OBVIOUS
  <1>1. PICK m \in Nat : m = Len(published) /\ m = enrollment.publications
    BY DEF Typed, TypeOK, RegistryTypes, RingInv
  <1>2. ActiveRoots \subseteq {published[i] : i \in {j \in 1 .. m : j > m - 4}}
    <2> SUFFICES ASSUME NEW x \in ActiveRoots PROVE \E j \in {i \in 1 .. m : i > m - 4} : x = published[j]
      OBVIOUS
    <2>0. PICK i \in 0 .. 3 : i < m /\ x = enrollment.recent[(m - 1 - i) % 4]
      BY <1>1 DEF ActiveRoots, RootWindow
    <2>1. m - i \in 1 .. m /\ m - i > m - 4 /\ (m - i) - 1 = m - 1 - i
      BY <1>1, <2>0
    <2>2. enrollment.recent[((m - i) - 1) % 4] = published[m - i]
      BY <1>1, <2>1 DEF RingInv, RootWindow
    <2> QED
      BY <2>0, <2>1, <2>2
  <1>3. {published[i] : i \in {j \in 1 .. m : j > m - 4}} \subseteq ActiveRoots
    <2> SUFFICES ASSUME NEW j \in 1 .. m, j > m - 4
                 PROVE  published[j] \in ActiveRoots
      OBVIOUS
    <2>1. m - j \in 0 .. 3 /\ m - j < m /\ m - 1 - (m - j) = j - 1
      BY <1>1
    <2>2. enrollment.recent[(j - 1) % 4] = published[j]
      BY <1>1 DEF RingInv, RootWindow
    <2>3. enrollment.recent[(m - 1 - (m - j)) % 4] \in ActiveRoots
      BY <1>1, <2>1 DEF ActiveRoots, RootWindow
    <2> QED
      BY <2>1, <2>2, <2>3
  <1> QED
    BY <1>1, <1>2, <1>3 DEF RootRing, RingInv, RootWindow

\* The roots that submit_observation accepts are the last four published,
\* whatever number was published, and no root is published twice.
THEOREM LastFourRootsActive == Spec => []RootRing
  <1>1. Init => RingInv
    BY DEF Init, RingInv
  <1> QED
    BY <1>1, InitTyped, NextTyped, NextRing, RingOfLatest, PTL DEF Spec

-----------------------------------------------------------------------------
(* The counters of a device epoch. *)

\* Only a submission touches a commitment, or an epoch's counters and leaves.
LEMMA CommitmentChanges ==
    ASSUME Typed, [Next]_vars
    PROVE  \/ /\ UNCHANGED commitment
              /\ \A k \in EpochKeys : /\ epoch'[k].observers = epoch[k].observers /\ epoch'[k].leaves = epoch[k].leaves
                                      /\ epoch'[k].paidSlots = epoch[k].paidSlots
           \/ \E n \in Nullifiers, r \in Roots, t \in Transcripts : SubmitObservation(n, r, t)
  <1> DEFINE Same == /\ UNCHANGED commitment
                     /\ \A k \in EpochKeys :
                           /\ epoch'[k].observers = epoch[k].observers /\ epoch'[k].leaves = epoch[k].leaves
                           /\ epoch'[k].paidSlots = epoch[k].paidSlots
  <1>1. ASSUME UNCHANGED observationVars PROVE Same
    BY <1>1 DEF observationVars
  <1>2. CASE RegistryStep
    <2>1. UNCHANGED observationVars
      <3>1. ASSUME NEW a \in Authorities, NEW r \in Roots, NEW leafCount \in LeafCounts, PublishRoot(a, r, leafCount)
            PROVE  UNCHANGED observationVars
        BY <3>1 DEF PublishRoot
      <3>2. ASSUME NEW a \in Authorities, NEW p \in Protocols, NEW v \in Verifiers, NEW version \in 1 .. MaxVersion,
                   NEW reward \in Rewards, NEW slots \in SlotQuotas, UpdatePolicy(a, p, v, version, reward, slots)
            PROVE  UNCHANGED observationVars
        BY <3>2 DEF UpdatePolicy
      <3>3. ASSUME NEW a \in Authorities, NEW p \in Protocols, NEW v \in Verifiers, NEW version \in 1 .. MaxVersion,
                   NEW reward \in Rewards, NEW slots \in SlotQuotas, InitProtocol(a, p, v, version, reward, slots)
            PROVE  UNCHANGED observationVars
        BY <3>3 DEF InitProtocol
      <3> QED
        BY <1>2, <3>1, <3>2, <3>3 DEF RegistryStep, InitializeEnrollmentAuthority, RegisterDevice
    <2> QED
      BY <1>1, <2>1
  <1>3. CASE PaymentStep
    <2>1. UNCHANGED observationVars
      BY <1>3 DEF PaymentStep, InitializePayments, UpdateFees, FundEscrow, SignClaim, ClaimPayout
    <2> QED
      BY <1>1, <2>1
  <1>4. CASE Tick \/ UNCHANGED vars
    <2>1. UNCHANGED observationVars
      BY <1>4 DEF Tick, vars
    <2> QED
      BY <1>1, <2>1
  <1>5. CASE ObservationStep
    <2>1. CASE \E n \in Nullifiers, t \in Transcripts : SignObservation(n, t)
      BY <1>1, <2>1 DEF SignObservation
    <2>2. CASE (\E k \in EpochKeys : ComputeReport(k)) \/ (\E draft \in computed : SignReport(draft))
      BY <1>1, <2>2 DEF ComputeReport, SignReport
    <2>3. ASSUME NEW report \in reports, PublishConfidence(report) PROVE Same
      <3>1. UNCHANGED commitment /\ epoch' = [epoch EXCEPT ![report.key].confidence = report.evaluation]
        BY <2>3 DEF PublishConfidence
      <3>2. ASSUME NEW k \in EpochKeys
            PROVE  /\ epoch'[k].observers = epoch[k].observers /\ epoch'[k].leaves = epoch[k].leaves
                   /\ epoch'[k].paidSlots = epoch[k].paidSlots
        <4>1. epoch[k] \in EpochAccounts
          BY DEF Typed, TypeOK, ObservationTypes, EpochAccounts
        <4>2. epoch'[k] = epoch[k] \/ epoch'[k] = [epoch[k] EXCEPT !.confidence = report.evaluation]
          BY <3>1 DEF Typed, TypeOK, ObservationTypes
        <4> QED
          BY <4>1, <4>2 DEF EpochAccounts
      <3> QED
        BY <3>1, <3>2
    <2> QED
      BY <1>5, <2>1, <2>2, <2>3 DEF ObservationStep
  <1> QED
    BY <1>2, <1>3, <1>4, <1>5 DEF Next

\* What a submission stores, and how it moves its own epoch's counters.
LEMMA SubmissionStores ==
    ASSUME Typed, NEW n \in Nullifiers, NEW r \in Roots, NEW t \in Transcripts, SubmitObservation(n, r, t)
    PROVE  /\ EpochKeyOf(n) \in EpochKeys /\ commitment[n].class = 0
           /\ commitment'[n].class # 0 /\ commitment'[n].paid = Pays(n[2], EpochKeyOf(n))
           /\ \A x \in Nullifiers : x # n => commitment'[x] = commitment[x]
           /\ \A k \in EpochKeys : k # EpochKeyOf(n) => epoch'[k] = epoch[k]
           /\ LET old == epoch[EpochKeyOf(n)]
                  new == epoch'[EpochKeyOf(n)]
              IN  /\ new.observers = old.observers + 1 /\ Len(new.leaves) = Len(old.leaves) + 1
                  /\ new.paidSlots = IF Pays(n[2], EpochKeyOf(n)) THEN old.paidSlots + 1 ELSE old.paidSlots
  <1> DEFINE k == EpochKeyOf(n)
             paid == Pays(n[2], k)
             account == [class |-> ClassOf[n[1]], transcript |-> t, paid |-> paid]
  <1>1. k \in EpochKeys /\ n[1] \in Observers
    BY DEF Nullifiers, EpochKeys, EpochKeyOf
  <1>2. /\ commitment[n].class = 0
        /\ commitment' = [commitment EXCEPT ![n] = account]
        /\ epoch' = [epoch EXCEPT ![k] = [AppendObservation(epoch[k], t) EXCEPT !.paidSlots = IF paid THEN @ + 1 ELSE @]]
    BY DEF SubmitObservation
  <1>3. account.class # 0 /\ account.paid = paid
    BY <1>1, SetsAssumption
  <1> HIDE DEF account, paid, k
  <1>4. commitment'[n] = account /\ \A x \in Nullifiers : x # n => commitment'[x] = commitment[x]
    BY <1>2 DEF Typed, TypeOK, ObservationTypes
  <1>5. \A x \in EpochKeys : x # k => epoch'[x] = epoch[x]
    BY <1>2 DEF Typed, TypeOK, ObservationTypes
  <1>6. epoch'[k] = [AppendObservation(epoch[k], t) EXCEPT !.paidSlots = IF paid THEN @ + 1 ELSE @]
    BY <1>1, <1>2 DEF Typed, TypeOK, ObservationTypes
  <1>7. PICK old \in EpochAccounts : old = epoch[k]
    BY <1>1 DEF Typed, TypeOK, ObservationTypes, EpochAccounts
  <1>8. PICK app : /\ app = AppendObservation(old, t)
                   /\ app = [old EXCEPT !.observers = old.observers + 1, !.leaves = Append(old.leaves, t), !.confidence = NoReport]
    BY DEF AppendObservation
  <1>9. /\ app.observers = old.observers + 1 /\ app.leaves = Append(old.leaves, t) /\ app.paidSlots = old.paidSlots
        /\ epoch'[k] = [app EXCEPT !.paidSlots = IF paid THEN old.paidSlots + 1 ELSE old.paidSlots]
    BY <1>6, <1>7, <1>8 DEF EpochAccounts
  <1>10. /\ epoch'[k].observers = old.observers + 1 /\ epoch'[k].leaves = Append(old.leaves, t)
         /\ epoch'[k].paidSlots = IF paid THEN old.paidSlots + 1 ELSE old.paidSlots
    BY <1>8, <1>9 DEF EpochAccounts
  <1>11. Len(epoch'[k].leaves) = Len(old.leaves) + 1
    BY <1>10 DEF EpochAccounts
  <1> QED
    BY <1>1, <1>2, <1>3, <1>4, <1>5, <1>7, <1>10, <1>11 DEF k, paid

Stored(k) == {n \in Nullifiers : EpochKeyOf(n) = k /\ commitment[n].class # 0}
PaidFor(k) == {n \in Stored(k) : commitment[n].paid}

\* The commitments of an epoch are finite in number, and counted.
CountInv ==
    \A k \in EpochKeys :
        /\ IsFiniteSet(Stored(k)) /\ epoch[k].observers = Cardinality(Stored(k))
        /\ Len(epoch[k].leaves) = epoch[k].observers
        /\ IsFiniteSet(PaidFor(k)) /\ epoch[k].paidSlots = Cardinality(PaidFor(k))

LEMMA NextCounts == Typed /\ CountInv /\ [Next]_vars => CountInv'
  <1> SUFFICES ASSUME Typed, CountInv, [Next]_vars PROVE CountInv'
    OBVIOUS
  <1>1. CASE /\ UNCHANGED commitment
             /\ \A k \in EpochKeys : /\ epoch'[k].observers = epoch[k].observers /\ epoch'[k].leaves = epoch[k].leaves
                                     /\ epoch'[k].paidSlots = epoch[k].paidSlots
    <2>1. \A k : Stored(k)' = Stored(k) /\ PaidFor(k)' = PaidFor(k)
      BY <1>1 DEF Stored, PaidFor
    <2> QED
      BY <1>1, <2>1 DEF CountInv
  <1>2. ASSUME NEW n \in Nullifiers, NEW r \in Roots, NEW t \in Transcripts, SubmitObservation(n, r, t)
        PROVE  CountInv'
    <2>1. PICK key \in EpochKeys, paid \in {Pays(n[2], EpochKeyOf(n))} : key = EpochKeyOf(n) /\ paid = Pays(n[2], EpochKeyOf(n))
      BY SubmitFacts DEF Nullifiers, EpochKeys, EpochKeyOf
    <2>2. /\ commitment[n].class = 0 /\ commitment'[n].class # 0 /\ commitment'[n].paid = paid
          /\ \A x \in Nullifiers : x # n => commitment'[x] = commitment[x]
          /\ \A k \in EpochKeys : k # key => epoch'[k] = epoch[k]
          /\ epoch'[key].observers = epoch[key].observers + 1 /\ Len(epoch'[key].leaves) = Len(epoch[key].leaves) + 1
          /\ epoch'[key].paidSlots = IF paid THEN epoch[key].paidSlots + 1 ELSE epoch[key].paidSlots
      BY <1>2, <2>1, SubmissionStores
    <2> SUFFICES ASSUME NEW k \in EpochKeys
                 PROVE  /\ IsFiniteSet(Stored(k)') /\ epoch'[k].observers = Cardinality(Stored(k)')
                        /\ Len(epoch'[k].leaves) = epoch'[k].observers
                        /\ IsFiniteSet(PaidFor(k)') /\ epoch'[k].paidSlots = Cardinality(PaidFor(k)')
      BY DEF CountInv
    <2>3. CASE k # key
      <3>1. Stored(k)' = Stored(k) /\ PaidFor(k)' = PaidFor(k)
        BY <2>1, <2>2, <2>3 DEF Stored, PaidFor
      <3> QED
        BY <2>2, <2>3, <3>1 DEF CountInv
    <2>4. CASE k = key
      <3>1. Stored(k)' = Stored(k) \cup {n} /\ n \notin Stored(k)
        BY <2>1, <2>2, <2>4 DEF Stored
      <3>2. PaidFor(k)' = (IF paid THEN PaidFor(k) \cup {n} ELSE PaidFor(k)) /\ n \notin PaidFor(k)
        BY <2>1, <2>2, <2>4, <3>1 DEF Stored, PaidFor
      <3>3. IsFiniteSet(Stored(k)) /\ IsFiniteSet(PaidFor(k))
        BY DEF CountInv
      <3>4. IsFiniteSet(Stored(k)') /\ Cardinality(Stored(k)') = Cardinality(Stored(k)) + 1
        BY <3>1, <3>3, FS_AddElement
      <3>5. /\ IsFiniteSet(PaidFor(k)')
            /\ Cardinality(PaidFor(k)') = IF paid THEN Cardinality(PaidFor(k)) + 1 ELSE Cardinality(PaidFor(k))
        BY <3>2, <3>3, FS_AddElement
      <3> QED
        BY <2>2, <2>4, <3>4, <3>5 DEF CountInv
    <2> QED
      BY <2>3, <2>4
  <1> QED
    BY <1>1, <1>2, CommitmentChanges

LEMMA InitCounts == Init => CountInv
  <1> SUFFICES ASSUME Init, NEW k \in EpochKeys
               PROVE  /\ IsFiniteSet(Stored(k)) /\ epoch[k].observers = Cardinality(Stored(k))
                      /\ Len(epoch[k].leaves) = epoch[k].observers
                      /\ IsFiniteSet(PaidFor(k)) /\ epoch[k].paidSlots = Cardinality(PaidFor(k))
    BY DEF CountInv
  <1>1. Stored(k) = {} /\ PaidFor(k) = {}
    BY DEF Init, Stored, PaidFor, NoCommitment
  <1>2. epoch[k].observers = 0 /\ epoch[k].leaves = <<>> /\ epoch[k].paidSlots = 0
    BY DEF Init, EmptyEpoch
  <1> QED
    BY <1>1, <1>2, FS_EmptySet

\* One leaf and one observer for each nullifier ever stored, and one used slot
\* for each paid one, however many observers there are.
THEOREM CountersExact == Spec => []EpochAccounting
  <1>1. CountInv => EpochAccounting
    BY DEF CountInv, EpochAccounting, Stored, PaidFor
  <1> QED
    BY <1>1, InitCounts, InitTyped, NextTyped, NextCounts, PTL DEF Spec

-----------------------------------------------------------------------------
(* Quotes. *)

\* Every protocol's policy passed validation: paid slots have a reward.
Priced == \A p \in Protocols : ~Absent(p) => ValidPolicy(config[p].reward, config[p].slots)

LEMMA NextPriced == Typed /\ Priced /\ [Next]_vars => Priced'
  <1> SUFFICES ASSUME Typed, Priced, [Next]_vars PROVE Priced'
    OBVIOUS
  <1>1. ASSUME UNCHANGED config PROVE Priced'
    BY <1>1 DEF Priced, Absent
  <1>2. ASSUME NEW a \in Authorities, NEW p \in Protocols, NEW v \in Verifiers, NEW version \in 1 .. MaxVersion,
               NEW reward \in Rewards, NEW slots \in SlotQuotas, InitProtocol(a, p, v, version, reward, slots)
        PROVE  Priced'
    <2>1. /\ ValidPolicy(reward, slots) /\ config'[p].reward = reward /\ config'[p].slots = slots
          /\ \A q \in Protocols : q # p => config'[q] = config[q]
      BY <1>2 DEF InitProtocol, Typed, TypeOK, RegistryTypes
    <2> QED
      BY <2>1 DEF Priced, Absent
  <1>3. ASSUME NEW a \in Authorities, NEW p \in Protocols, NEW v \in Verifiers, NEW version \in 1 .. MaxVersion,
               NEW reward \in Rewards, NEW slots \in SlotQuotas, UpdatePolicy(a, p, v, version, reward, slots)
        PROVE  Priced'
    <2>1. /\ ValidPolicy(reward, slots) /\ config'[p].reward = reward /\ config'[p].slots = slots
          /\ \A q \in Protocols : q # p => config'[q] = config[q]
      BY <1>3 DEF UpdatePolicy, Typed, TypeOK, RegistryTypes
    <2> QED
      BY <2>1 DEF Priced, Absent
  <1>4. ASSUME NEW a \in Authorities, NEW r \in Roots, NEW leafCount \in LeafCounts, PublishRoot(a, r, leafCount)
        PROVE  Priced'
    BY <1>1, <1>4 DEF PublishRoot
  <1>5. CASE RegistryStep
    BY <1>1, <1>2, <1>3, <1>4, <1>5 DEF RegistryStep, InitializeEnrollmentAuthority, RegisterDevice
  <1>6. CASE PaymentStep
    <2>1. UNCHANGED registryVars
      BY <1>6 DEF PaymentStep, InitializePayments, UpdateFees, FundEscrow, SignClaim, ClaimPayout
    <2> QED
      BY <1>1, <2>1 DEF registryVars
  <1>7. CASE ObservationStep
    <2>1. UNCHANGED registryVars
      BY <1>7, ZenonT(90) DEF ObservationStep, SignObservation, SubmitObservation, ComputeReport, SignReport, PublishConfidence
    <2> QED
      BY <1>1, <2>1 DEF registryVars
  <1>8. CASE Tick \/ UNCHANGED vars
    BY <1>1, <1>8 DEF Tick, vars, registryVars
  <1> QED
    BY <1>5, <1>6, <1>7, <1>8 DEF Next

\* The quote of an epoch, before and after a step.
LEMMA QuoteCases ==
    ASSUME NEW k
    PROVE  /\ Absent(k[1]) => Quote(k) = "protocol_unknown"
           /\ ~Absent(k[1]) /\ <<k[1], k[2]>> \notin devices =>
                 Quote(k) = IF AccountsMatch(k[1], k) THEN Unpaid ELSE "account_mismatch"
           /\ ~Absent(k[1]) /\ <<k[1], k[2]>> \in devices /\ AccountsMatch(k[1], k) =>
                 Quote(k) = [registered |-> TRUE, open_slots |-> OpenSlots(k[1], k),
                             reward |-> Net(config[k[1]].reward, fees.bps)]
           /\ Absent(k[1])' => Quote(k)' = "protocol_unknown"
           /\ ~Absent(k[1])' /\ <<k[1], k[2]>> \notin devices' =>
                 Quote(k)' = IF AccountsMatch(k[1], k)' THEN Unpaid ELSE "account_mismatch"
           /\ ~Absent(k[1])' /\ <<k[1], k[2]>> \in devices' /\ AccountsMatch(k[1], k)' =>
                 Quote(k)' = [registered |-> TRUE, open_slots |-> OpenSlots(k[1], k)',
                              reward |-> Net(config'[k[1]].reward, fees'.bps)]
  BY DEF Quote, Absent

\* What is left of the slots, as far as the money goes: the smaller of the two.
Affordable(slots, used, reward, money) ==
    LET left == IF used < slots THEN slots - used ELSE 0
        paidFor == IF reward > 0 THEN money \div reward ELSE 0
    IN  IF paidFor < left THEN paidFor ELSE left

LEMMA WholeRewards ==
    ASSUME NEW money \in Nat, NEW reward \in Nat, reward > 0
    PROVE  /\ money \div reward \in Nat
           /\ money >= reward <=> money \div reward > 0
           /\ money >= reward => (money - reward) \div reward = (money \div reward) - 1
  <1> DEFINE q == money \div reward
  <1>1. q \in Nat /\ q * reward <= money /\ money < q * reward + reward
    BY Z3
  <1>2. money >= reward <=> q > 0
    BY <1>1, Z3
  <1>3. ASSUME money >= reward PROVE (money - reward) \div reward = q - 1
    <2>1. (q - 1) * reward = q * reward - reward
      BY <1>1, Z3
    <2>2. ASSUME NEW m \in Nat, NEW x \in Nat, x * reward <= m, m < x * reward + reward PROVE m \div reward = x
      BY <2>2, Z3
    <2>3. money - reward \in Nat /\ q - 1 \in Nat
      BY <1>1, <1>2, <1>3
    <2>4. (q - 1) * reward <= money - reward /\ money - reward < (q - 1) * reward + reward
      BY <1>1, <2>1, <2>3, Z3
    <2> QED
      BY <2>2, <2>3, <2>4
  <1> QED
    BY <1>1, <1>2, <1>3

\* A paid observation takes one slot's money from the escrow, and a slot from
\* its own epoch only.
TakesOneSlot(slots, used, reward, money) ==
    LET open == Affordable(slots, used, reward, money) IN
    /\ open \in Nat
    /\ open > 0 <=> reward > 0 /\ used < slots /\ money >= reward
    /\ open > 0 => Affordable(slots, used + 1, reward, money - reward) = open - 1
    /\ reward > 0 /\ money >= reward =>
          \/ Affordable(slots, used, reward, money - reward) = open
          \/ Affordable(slots, used, reward, money - reward) < open

LEMMA OneSlotLess ==
    ASSUME NEW slots \in Nat, NEW used \in Nat, NEW reward \in Nat, NEW money \in Nat
    PROVE  TakesOneSlot(slots, used, reward, money)
  <1> DEFINE open == Affordable(slots, used, reward, money)
  <1>1. CASE reward = 0
    BY <1>1 DEF Affordable, TakesOneSlot
  <1>2. CASE reward > 0
    <2>1. PICK q \in Nat : /\ q = money \div reward /\ (money >= reward <=> q > 0)
                           /\ money >= reward => (money - reward) \div reward = q - 1
      BY <1>2, WholeRewards
    <2>2. open = IF q < (IF used < slots THEN slots - used ELSE 0) THEN q ELSE (IF used < slots THEN slots - used ELSE 0)
      BY <1>2, <2>1 DEF Affordable
    <2>3. open \in Nat /\ (open > 0 <=> used < slots /\ money >= reward)
      BY <2>1, <2>2
    <2>4. ASSUME money >= reward, NEW u \in Nat
          PROVE  Affordable(slots, u, reward, money - reward) =
                    IF q - 1 < (IF u < slots THEN slots - u ELSE 0) THEN q - 1 ELSE (IF u < slots THEN slots - u ELSE 0)
      BY <1>2, <2>1, <2>4 DEF Affordable
    <2>5. open > 0 => Affordable(slots, used + 1, reward, money - reward) = open - 1
      BY <2>1, <2>2, <2>3, <2>4
    <2>6. money >= reward => \/ Affordable(slots, used, reward, money - reward) = open
                             \/ Affordable(slots, used, reward, money - reward) < open
      BY <2>1, <2>2, <2>4
    <2> QED
      BY <1>2, <2>3, <2>5, <2>6 DEF TakesOneSlot
  <1> QED
    BY <1>1, <1>2

\* What a submission moves beside its commitment.
LEMMA SubmissionPays ==
    ASSUME Typed, NEW n \in Nullifiers, NEW r \in Roots, NEW t \in Transcripts, SubmitObservation(n, r, t)
    PROVE  LET p == n[2]
               s == PseudonymOf(n)
               gross == IF Pays(p, EpochKeyOf(n)) THEN config[p].reward ELSE 0
           IN  /\ ~Absent(p) /\ <<p, n[3]>> \in devices /\ fees.open
               /\ UNCHANGED <<config, devices, fees>>
               /\ escrow'[p] = escrow[p] - gross /\ \A q \in Protocols : q # p => escrow'[q] = escrow[q]
               /\ payout'[s].available - payout[s].available = Net(gross, fees.bps)
  <1> DEFINE p == n[2]
             k == EpochKeyOf(n)
             s == PseudonymOf(n)
             gross == IF Pays(p, k) THEN config[p].reward ELSE 0
             fee == Fee(gross, fees.bps)
  <1>1. /\ ~Absent(p) /\ <<p, n[3]>> \in devices /\ fees.open
        /\ payout' = [payout EXCEPT ![s] = Credit(@, gross, fee)]
        /\ escrow' = [escrow EXCEPT ![p] = @ - gross]
        /\ UNCHANGED <<registryVars, fees>>
    BY DEF SubmitObservation
  <1>2. p \in Protocols /\ s \in Pseudonyms /\ gross \in Nat /\ fee \in 0 .. gross
    BY SubmitFacts
  <1>3. UNCHANGED <<config, devices, fees>>
    BY <1>1 DEF registryVars
  <1>4. Net(gross, fees.bps) = gross - fee
    BY DEF Net
  <1> HIDE DEF fee, gross, s, k, p
  <1>5. escrow'[p] = escrow[p] - gross /\ \A q \in Protocols : q # p => escrow'[q] = escrow[q]
    BY <1>1, <1>2 DEF Typed, TypeOK, LedgerTypes
  <1>6. payout[s] \in PayoutAccounts /\ payout'[s] = Credit(payout[s], gross, fee)
    BY <1>1, <1>2 DEF Typed, TypeOK, PayoutTypes, PayoutAccounts
  <1>7. payout'[s].available = payout[s].available + (gross - fee) /\ payout[s].available \in Nat
    BY <1>6 DEF Credit, PayoutAccounts
  <1>8. payout'[s].available - payout[s].available = gross - fee
    BY <1>2, <1>7
  <1> QED
    BY <1>1, <1>3, <1>4, <1>5, <1>8 DEF p, k, s, gross

\* Registered devices have quotable accounts once payments are open.
LEMMA Quotable ==
    ASSUME Typed, CountInv, Priced, NEW k \in EpochKeys, ~Absent(k[1]), <<k[1], k[2]>> \in devices, fees.open
    PROVE  AccountsMatch(k[1], k) /\ k[1] \in Protocols
  <1>1. k[1] \in Protocols
    BY DEF EpochKeys
  <1>2. config[k[1]].version > 0 /\ config[k[1]].reward \in Nat /\ config[k[1]].slots \in Nat
    <2>1. config[k[1]] \in [authority: Authorities \cup {NoKey}, verifier: Verifiers \cup {NoKey},
                            version: 0 .. MaxVersion, reward: Nat, slots: 0 .. 255]
      BY <1>1 DEF Typed, TypeOK, RegistryTypes
    <2>2. config[k[1]].version \in 0 .. MaxVersion /\ config[k[1]].reward \in Nat /\ config[k[1]].slots \in 0 .. 255
      BY <2>1
    <2>3. config[k[1]].version >= 1
      BY <1>1 DEF Typed, Registered
    <2> QED
      BY <2>2, <2>3
  <1>3. ~(config[k[1]].slots > 0 /\ config[k[1]].reward = 0)
    BY <1>1, <1>2 DEF Priced, ValidPolicy
  <1>4. Cardinality(PaidFor(k)) <= Cardinality(Stored(k))
    BY FS_Subset DEF CountInv, PaidFor
  <1> QED
    BY <1>1, <1>2, <1>3, <1>4 DEF AccountsMatch, CountInv

LEMMA OpenSlotsAre ==
    ASSUME NEW p, NEW k
    PROVE  /\ OpenSlots(p, k) = Affordable(config[p].slots, epoch[k].paidSlots, config[p].reward, escrow[p])
           /\ OpenSlots(p, k)' = Affordable(config'[p].slots, epoch'[k].paidSlots, config'[p].reward, escrow'[p])
  BY DEF OpenSlots, Affordable

\* What one observation does to the quotes: its own and every other.
LEMMA SubmissionQuotes ==
    ASSUME Typed, CountInv, Priced, Typed', CountInv', Priced',
           NEW n \in Nullifiers, NEW r \in Roots, NEW t \in Transcripts, SubmitObservation(n, r, t)
    PROVE  LET k == EpochKeyOf(n)
               open == Quote(k).open_slots
               earned == payout'[PseudonymOf(n)].available - payout[PseudonymOf(n)].available
           IN  /\ Quote(k).registered
               /\ commitment'[n].paid <=> open > 0
               /\ earned = IF open > 0 THEN Quote(k).reward ELSE 0
               /\ Quote(k)'.open_slots = IF open > 0 THEN open - 1 ELSE 0
               /\ \A other \in EpochKeys : Quote(other)' # Quote(other) =>
                     Quote(other)'.open_slots < Quote(other).open_slots
  <1>1. PICK p \in Protocols, k \in EpochKeys, s \in Pseudonyms :
            p = n[2] /\ k = EpochKeyOf(n) /\ s = PseudonymOf(n) /\ k[1] = p /\ k[2] = n[3]
    BY SubmitFacts DEF EpochKeyOf
  <1>2. /\ commitment'[n].paid <=> Pays(p, k)
        /\ \A x \in EpochKeys : x # k => epoch'[x] = epoch[x]
        /\ epoch'[k].paidSlots = IF Pays(p, k) THEN epoch[k].paidSlots + 1 ELSE epoch[k].paidSlots
    BY <1>1, SubmissionStores
  <1>3. PICK reward \in Nat, slots \in Nat, money \in Nat, bps \in 0 .. FeeScale :
            reward = config[p].reward /\ slots = config[p].slots /\ money = escrow[p] /\ bps = fees.bps
    <2>1. config[p] \in [authority: Authorities \cup {NoKey}, verifier: Verifiers \cup {NoKey},
                         version: 0 .. MaxVersion, reward: Nat, slots: 0 .. 255]
      BY DEF Typed, TypeOK, RegistryTypes
    <2>2. config[p].reward \in Nat /\ config[p].slots \in 0 .. 255 /\ escrow[p] \in Nat
      BY <2>1 DEF Typed, TypeOK, LedgerTypes
    <2>3. config[p].slots \in Nat
      <3>1. 0 .. 255 \subseteq Nat
        OBVIOUS
      <3> QED
        BY <2>2, <3>1, Zenon
    <2>4. fees.bps \in 0 .. FeeScale
      BY DEF Typed, TypeOK, SettingTypes
    <2> QED
      BY <2>2, <2>3, <2>4, Zenon
  <1>4. /\ ~Absent(p) /\ <<p, k[2]>> \in devices /\ fees.open
        /\ config' = config /\ devices' = devices /\ fees' = fees
        /\ escrow'[p] = IF Pays(p, k) THEN money - reward ELSE money
        /\ \A q \in Protocols : q # p => escrow'[q] = escrow[q]
        /\ payout'[s].available - payout[s].available = IF Pays(p, k) THEN Net(reward, bps) ELSE 0
    <2>0. bps \in Int /\ 0 * bps = 0
      BY <1>3
    <2>1. Net(0, bps) = 0
      BY <2>0 DEF Net, Fee, FeeScale
    <2> QED
      BY <1>1, <1>2, <1>3, <2>1, SubmissionPays
  <1>5. Pays(p, k) <=> reward > 0 /\ epoch[k].paidSlots < slots /\ money >= reward
    BY <1>2, <1>3 DEF Pays
  <1>6. ASSUME NEW x \in EpochKeys, ~Absent(x[1]), <<x[1], x[2]>> \in devices
        PROVE  /\ x[1] \in Protocols
               /\ Quote(x) = [registered |-> TRUE,
                              open_slots |-> Affordable(config[x[1]].slots, epoch[x].paidSlots, config[x[1]].reward, escrow[x[1]]),
                              reward |-> Net(config[x[1]].reward, fees.bps)]
               /\ Quote(x)' = [registered |-> TRUE,
                               open_slots |-> Affordable(config[x[1]].slots, epoch'[x].paidSlots, config[x[1]].reward, escrow'[x[1]]),
                               reward |-> Net(config[x[1]].reward, fees.bps)]
    <2>1. AccountsMatch(x[1], x) /\ x[1] \in Protocols
      BY <1>4, <1>6, Quotable
    <2>2. ~Absent(x[1])' /\ fees'.open
      BY <1>4, <1>6 DEF Absent
    <2>3. AccountsMatch(x[1], x)'
      <3>1. /\ config[x[1]].version > 0 /\ ~(config[x[1]].slots > 0 /\ config[x[1]].reward = 0)
        BY <2>1 DEF AccountsMatch
      <3>2. epoch'[x].paidSlots <= epoch'[x].observers
        <4>1. Cardinality(PaidFor(x)') <= Cardinality(Stored(x)')
          BY FS_Subset DEF CountInv, PaidFor
        <4> QED
          BY <4>1 DEF CountInv
      <3> QED
        BY <1>4, <1>6, <3>1, <3>2 DEF AccountsMatch
    <2>4. <<x[1], x[2]>> \in devices'
      BY <1>4, <1>6
    <2>5. Quote(x) = [registered |-> TRUE, open_slots |-> OpenSlots(x[1], x), reward |-> Net(config[x[1]].reward, fees.bps)]
      BY <1>6, <2>1, QuoteCases
    <2>6. Quote(x)' = [registered |-> TRUE, open_slots |-> OpenSlots(x[1], x)', reward |-> Net(config'[x[1]].reward, fees'.bps)]
      BY <2>2, <2>3, <2>4, QuoteCases
    <2> QED
      BY <1>4, <2>1, <2>5, <2>6, OpenSlotsAre
  <1>0. ASSUME NEW x \in EpochKeys PROVE epoch[x].paidSlots \in Nat
    <2>1. epoch[x] \in EpochAccounts
      BY DEF Typed, TypeOK, ObservationTypes, EpochAccounts
    <2>2. epoch[x].paidSlots \in 0 .. 255
      BY <2>1 DEF EpochAccounts
    <2> QED
      BY <2>2
  <1>7. PICK used \in Nat, open \in {Affordable(slots, epoch[k].paidSlots, reward, money)} :
            used = epoch[k].paidSlots /\ open = Affordable(slots, used, reward, money)
    BY <1>0, Zenon
  <1>8. /\ open \in Nat
        /\ Pays(p, k) <=> open > 0
        /\ open > 0 => Affordable(slots, used + 1, reward, money - reward) = open - 1
    <2>1. /\ open \in Nat
          /\ open > 0 <=> reward > 0 /\ used < slots /\ money >= reward
          /\ open > 0 => Affordable(slots, used + 1, reward, money - reward) = open - 1
      <3>1. TakesOneSlot(slots, used, reward, money)
        BY OneSlotLess, Zenon
      <3> QED
        BY <1>7, <3>1 DEF TakesOneSlot
    <2> QED
      BY <1>5, <1>7, <2>1
  <1>9. /\ Quote(k).registered /\ Quote(k).open_slots = open /\ Quote(k).reward = Net(reward, bps)
        /\ Quote(k)'.open_slots = IF open > 0 THEN open - 1 ELSE 0
        /\ open = 0 => Quote(k)' = Quote(k)
    <2>1. Quote(k) = [registered |-> TRUE, open_slots |-> open, reward |-> Net(reward, bps)]
      BY <1>1, <1>3, <1>4, <1>6, <1>7
    <2>2. Quote(k)' = [registered |-> TRUE, open_slots |-> Affordable(slots, epoch'[k].paidSlots, reward, escrow'[p]),
                       reward |-> Net(reward, bps)]
      BY <1>1, <1>3, <1>4, <1>6
    <2>3. Affordable(slots, epoch'[k].paidSlots, reward, escrow'[p]) = IF open > 0 THEN open - 1 ELSE 0
      <3>1. CASE Pays(p, k)
        BY <1>2, <1>4, <1>7, <1>8, <3>1
      <3>2. CASE ~Pays(p, k)
        BY <1>2, <1>4, <1>7, <1>8, <3>2
      <3> QED
        BY <3>1, <3>2
    <2>4. Quote(k).registered
      BY <2>1
    <2>5. Quote(k).open_slots = open /\ Quote(k).reward = Net(reward, bps)
      BY <2>1
    <2>6. Quote(k)'.open_slots = IF open > 0 THEN open - 1 ELSE 0
      BY <2>2, <2>3
    <2>7. open = 0 => Quote(k)' = Quote(k)
      BY <2>1, <2>2, <2>3
    <2> QED
      BY <2>4, <2>5, <2>6, <2>7
  <1>10. ASSUME NEW other \in EpochKeys, Quote(other)' # Quote(other)
         PROVE  Quote(other)'.open_slots < Quote(other).open_slots
    <2>1. ~Absent(other[1]) /\ <<other[1], other[2]>> \in devices
      <3>1. CASE Absent(other[1])
        <4>1. Absent(other[1])'
          BY <1>4, <3>1 DEF Absent
        <4> QED
          BY <1>10, <3>1, <4>1, QuoteCases
      <3>2. CASE ~Absent(other[1]) /\ <<other[1], other[2]>> \notin devices
        <4>1. epoch'[other] = epoch[other]
          BY <1>1, <1>2, <1>4, <3>2
        <4>2. ~Absent(other[1])' /\ <<other[1], other[2]>> \notin devices'
          BY <1>4, <3>2 DEF Absent
        <4>3. AccountsMatch(other[1], other)' = AccountsMatch(other[1], other)
          BY <1>4, <4>1 DEF AccountsMatch
        <4> QED
          BY <1>10, <3>2, <4>2, <4>3, QuoteCases
      <3> QED
        BY <3>1, <3>2
    <2>2. CASE other = k
      BY <1>8, <1>9, <1>10, <2>2
    <2>3. CASE other # k /\ other[1] # p
      <3>1. epoch'[other] = epoch[other] /\ escrow'[other[1]] = escrow[other[1]]
        BY <1>2, <1>4, <1>6, <2>1, <2>3
      <3> QED
        BY <1>6, <1>10, <2>1, <3>1
    <2>4. CASE other # k /\ other[1] = p
      <3>1. epoch'[other] = epoch[other]
        BY <1>2, <2>4
      <3>2. PICK u \in Nat, before \in {Affordable(slots, epoch[other].paidSlots, reward, money)} :
                u = epoch[other].paidSlots /\ before = Affordable(slots, u, reward, money)
        BY <1>0, Zenon
      <3>3. Quote(other).open_slots = before /\ Quote(other) = [registered |-> TRUE, open_slots |-> before, reward |-> Net(reward, bps)]
        BY <1>3, <1>6, <2>1, <2>4, <3>2
      <3>4. PICK after : /\ after = Affordable(slots, u, reward, escrow'[p]) /\ Quote(other)'.open_slots = after
                         /\ Quote(other)' = [registered |-> TRUE, open_slots |-> after, reward |-> Net(reward, bps)]
        BY <1>3, <1>6, <2>1, <2>4, <3>1, <3>2
      <3>5. after # before
        BY <1>10, <3>3, <3>4
      <3>6. Pays(p, k)
        BY <1>4, <3>2, <3>4, <3>5
      <3>7. after = before \/ after < before
        <4>1. reward > 0 /\ money >= reward /\ after = Affordable(slots, u, reward, money - reward)
          BY <1>4, <1>5, <3>4, <3>6
        <4> QED
          <5>1. TakesOneSlot(slots, u, reward, money)
            BY OneSlotLess, Zenon
          <5> QED
            BY <3>2, <4>1, <5>1 DEF TakesOneSlot
      <3> QED
        BY <3>3, <3>4, <3>5, <3>7
    <2> QED
      BY <2>2, <2>3, <2>4
  <1>11. payout'[s].available - payout[s].available = IF open > 0 THEN Quote(k).reward ELSE 0
    BY <1>4, <1>8, <1>9
  <1> QED
    BY <1>1, <1>2, <1>8, <1>9, <1>10, <1>11

\* What a phone was quoted is what the program does: an observation is paid
\* exactly when its quote showed an open slot, at the reward quoted, and takes
\* that one slot and no other epoch's.
THEOREM QuotesHonoured == Spec => QuoteHonoured
  <1> DEFINE Honoured ==
        \A n \in Nullifiers : commitment[n].class = 0 /\ commitment'[n].class # 0 =>
          LET k == EpochKeyOf(n)
              open == Quote(k).open_slots
              earned == payout'[PseudonymOf(n)].available - payout[PseudonymOf(n)].available
          IN  /\ Quote(k).registered
              /\ commitment'[n].paid <=> open > 0
              /\ earned = IF open > 0 THEN Quote(k).reward ELSE 0
              /\ Quote(k)'.open_slots = IF open > 0 THEN open - 1 ELSE 0
              /\ \A other \in EpochKeys : Quote(other)' # Quote(other) =>
                    Quote(other)'.open_slots < Quote(other).open_slots
  <1>1. Init => Priced
    BY DEF Init, Priced, Absent, NoProtocol
  <1>2. Typed /\ CountInv /\ Priced /\ [Next]_vars => [Honoured]_vars
    <2> SUFFICES ASSUME Typed, CountInv, Priced, [Next]_vars, NEW n \in Nullifiers,
                        commitment[n].class = 0, commitment'[n].class # 0
                 PROVE  LET k == EpochKeyOf(n)
                            open == Quote(k).open_slots
                            earned == payout'[PseudonymOf(n)].available - payout[PseudonymOf(n)].available
                        IN  /\ Quote(k).registered
                            /\ commitment'[n].paid <=> open > 0
                            /\ earned = IF open > 0 THEN Quote(k).reward ELSE 0
                            /\ Quote(k)'.open_slots = IF open > 0 THEN open - 1 ELSE 0
                            /\ \A other \in EpochKeys : Quote(other)' # Quote(other) =>
                                  Quote(other)'.open_slots < Quote(other).open_slots
      BY Zenon
    <2>1. Typed' /\ CountInv' /\ Priced'
      BY NextTyped, NextCounts, NextPriced
    <2>2. PICK m \in Nullifiers, r \in Roots, t \in Transcripts : SubmitObservation(m, r, t)
      BY CommitmentChanges
    <2>3. m = n
      BY <2>2, SubmissionStores
    <2> QED
      BY <2>1, <2>2, <2>3, SubmissionQuotes
  <1> QED
    BY <1>1, <1>2, InitTyped, InitCounts, NextTyped, NextCounts, NextPriced, PTL DEF Spec, QuoteHonoured

-----------------------------------------------------------------------------
(* Conservation of tokens. *)

\* A unit of a sum is a number up to what the account holds.
LEMMA UnitsAre ==
    ASSUME NEW f, NEW u
    PROVE  u \in Units(f) <=> \E x \in DOMAIN f : \E k \in 1 .. f[x] : u = <<x, k>>
  BY DEF Units

\* An account that gains d adds d to the sum and leaves it finite.
LEMMA TotalAdds ==
    ASSUME NEW S, NEW f \in [S -> Nat], IsFiniteSet(Units(f)), NEW y \in S, NEW d \in Nat,
           NEW g \in [S -> Nat], g[y] = f[y] + d, \A x \in S : x # y => g[x] = f[x]
    PROVE  IsFiniteSet(Units(g)) /\ Total(g) = Total(f) + d
  <1> DEFINE New == {y} \X ((f[y] + 1) .. (f[y] + d))
  <1>1. DOMAIN f = S /\ DOMAIN g = S /\ g[y] = f[y] + d /\ \A x \in S : f[x] \in Nat /\ (x # y => g[x] = f[x])
    OBVIOUS
  <1>2. \A u : u \in New <=> \E k \in (f[y] + 1) .. (f[y] + d) : u = <<y, k>>
    OBVIOUS
  <1>3. \A k \in Nat : k \in 1 .. (f[y] + d) <=> k \in 1 .. f[y] \/ k \in (f[y] + 1) .. (f[y] + d)
    BY <1>1
  <1>4. Units(g) = Units(f) \cup New
    <2>1. ASSUME NEW u \in Units(g) PROVE u \in Units(f) \cup New
      <3>1. PICK x \in S : \E m \in 1 .. g[x] : u = <<x, m>>
        BY <1>1, UnitsAre
      <3>0. PICK k \in 1 .. g[x] : u = <<x, k>>
        BY <3>1
      <3>2. CASE x = y
        <4>1. k \in Nat /\ k \in 1 .. (f[y] + d)
          BY <1>1, <3>2
        <4>2. k \in 1 .. f[y] \/ k \in (f[y] + 1) .. (f[y] + d)
          BY <1>3, <4>1
        <4> QED
          BY <1>1, <1>2, <3>0, <3>2, <4>2, UnitsAre
      <3>3. CASE x # y
        BY <1>1, <3>0, <3>3, UnitsAre
      <3> QED
        BY <3>2, <3>3
    <2>2. ASSUME NEW u \in Units(f) PROVE u \in Units(g)
      <3>0. PICK x \in S : \E m \in 1 .. f[x] : u = <<x, m>>
        BY <1>1, UnitsAre
      <3>1. PICK k \in 1 .. f[x] : u = <<x, k>>
        BY <3>0
      <3>2. k \in 1 .. g[x]
        BY <1>1
      <3> QED
        BY <1>1, <3>1, <3>2, UnitsAre
    <2>3. ASSUME NEW u \in New PROVE u \in Units(g)
      <3>1. PICK k \in (f[y] + 1) .. (f[y] + d) : u = <<y, k>>
        BY <1>2, <2>3
      <3>2. k \in 1 .. g[y]
        BY <1>1
      <3> QED
        BY <1>1, <3>1, <3>2, UnitsAre
    <2> HIDE DEF New
    <2> QED
      BY <2>1, <2>2, <2>3
  <1>5. Units(f) \cap New = {}
    <2> SUFFICES ASSUME NEW u \in Units(f), u \in New PROVE FALSE
      OBVIOUS
    <2>0. PICK x \in S : \E m \in 1 .. f[x] : u = <<x, m>>
      BY <1>1, UnitsAre
    <2>1. PICK k \in 1 .. f[x] : u = <<x, k>>
      BY <2>0
    <2>2. PICK m \in (f[y] + 1) .. (f[y] + d) : u = <<y, m>>
      BY <1>2
    <2>3. x = y /\ k = m
      BY <2>1, <2>2
    <2> QED
      BY <1>1, <2>3
  <1>6. IsFiniteSet(New) /\ Cardinality(New) = d
    <2>1. IsFiniteSet({y}) /\ Cardinality({y}) = 1
      BY FS_Singleton
    <2>2. /\ IsFiniteSet((f[y] + 1) .. (f[y] + d))
          /\ Cardinality((f[y] + 1) .. (f[y] + d)) = d
      <3>1. f[y] + 1 \in Int /\ f[y] + d \in Int /\ f[y] \in Nat
        BY <1>1
      <3>2. /\ IsFiniteSet((f[y] + 1) .. (f[y] + d))
            /\ Cardinality((f[y] + 1) .. (f[y] + d)) = IF f[y] + 1 > f[y] + d THEN 0 ELSE (f[y] + d) - (f[y] + 1) + 1
        BY <3>1, FS_Interval
      <3> QED
        BY <3>1, <3>2
    <2>3. IsFiniteSet(New) /\ Cardinality(New) = Cardinality({y}) * Cardinality((f[y] + 1) .. (f[y] + d))
      BY <2>1, <2>2, FS_Product
    <2> QED
      BY <2>1, <2>2, <2>3
  <1> HIDE DEF New
  <1>7. /\ IsFiniteSet(Units(f) \cup New)
        /\ Cardinality(Units(f) \cup New) = Cardinality(Units(f)) + Cardinality(New) - Cardinality(Units(f) \cap New)
    BY <1>6, FS_Union
  <1>8. Cardinality(Units(f)) \in Nat /\ Cardinality(Units(f) \cap New) = 0
    BY <1>5, FS_EmptySet, FS_CardinalityType
  <1> QED
    BY <1>4, <1>6, <1>7, <1>8 DEF Total

\* Accounts that hold nothing sum to nothing.
LEMMA TotalOfNothing ==
    ASSUME NEW f, \A x \in DOMAIN f : f[x] = 0
    PROVE  IsFiniteSet(Units(f)) /\ Total(f) = 0
  <1>1. Units(f) = {}
    BY UnitsAre
  <1> QED
    BY <1>1, FS_EmptySet DEF Total

ObserversOf(p) == {x \in Pseudonyms : ProtocolOf(x) = p}
Earned(p) == [s \in ObserversOf(p) |-> payout[s].gross]
Charged == [s \in Pseudonyms |-> payout[s].fees]
Withdrawn == [s \in Pseudonyms |-> payout[s].withdrawn]

\* Every sum is finite, and the books agree.
BookInv ==
    /\ \A p \in Protocols : IsFiniteSet(Units(Earned(p))) /\ escrow[p] + Total(Earned(p)) = funded[p]
    /\ IsFiniteSet(Units(Charged)) /\ feeVault = Total(Charged)
    /\ IsFiniteSet(Units(Withdrawn)) /\ IsFiniteSet(Units(wallet)) /\ Total(wallet) = Total(Withdrawn)

LEMMA BooksTyped ==
    ASSUME Typed
    PROVE  /\ \A p \in Protocols : Earned(p) \in [ObserversOf(p) -> Nat] /\ escrow[p] \in Nat /\ funded[p] \in Nat
           /\ Charged \in [Pseudonyms -> Nat] /\ Withdrawn \in [Pseudonyms -> Nat] /\ wallet \in [Holders -> Nat]
           /\ feeVault \in Nat
  <1>1. \A s \in Pseudonyms : payout[s].gross \in Nat /\ payout[s].fees \in Nat /\ payout[s].withdrawn \in Nat
    BY DEF Typed, TypeOK, PayoutTypes
  <1> QED
    BY <1>1 DEF Typed, TypeOK, LedgerTypes, Earned, Charged, Withdrawn, ObserversOf

\* Tokens move by a deposit, a submission and a withdrawal, and by nothing else.
LEMMA LedgerChanges ==
    ASSUME [Next]_vars
    PROVE  \/ UNCHANGED <<payout, ledgerVars>>
           \/ \E p \in Protocols, amount \in Deposits : FundEscrow(p, amount)
           \/ \E n \in Nullifiers, r \in Roots, t \in Transcripts : SubmitObservation(n, r, t)
           \/ \E s \in Pseudonyms, h \in Holders, expires \in now .. now + ClaimLifetime :
                \E amount \in 1 .. payout[s].available : ClaimPayout(s, h, amount, expires)
  <1>1. CASE RegistryStep
    <2>1. CASE \E a \in Authorities : InitializeEnrollmentAuthority(a)
      BY <2>1 DEF InitializeEnrollmentAuthority
    <2>2. CASE \E a \in Authorities, p \in Protocols, v \in Verifiers, version \in 1 .. MaxVersion,
                 reward \in Rewards, slots \in SlotQuotas : InitProtocol(a, p, v, version, reward, slots)
      BY <2>2 DEF InitProtocol
    <2>3. CASE \E a \in Authorities, p \in Protocols, d \in Devices : RegisterDevice(a, p, d)
      BY <2>3 DEF RegisterDevice
    <2>4. CASE \E a \in Authorities, r \in Roots, leafCount \in LeafCounts : PublishRoot(a, r, leafCount)
      BY <2>4 DEF PublishRoot
    <2>5. CASE \E a \in Authorities, p \in Protocols, v \in Verifiers, version \in 1 .. MaxVersion,
                 reward \in Rewards, slots \in SlotQuotas : UpdatePolicy(a, p, v, version, reward, slots)
      BY <2>5 DEF UpdatePolicy
    <2> QED
      BY <1>1, <2>1, <2>2, <2>3, <2>4, <2>5 DEF RegistryStep
  <1>2. CASE PaymentStep
    <2>1. CASE \E a \in Authorities : InitializePayments(a)
      BY <2>1 DEF InitializePayments
    <2>2. CASE \E a \in Authorities, bps \in FeeRates : UpdateFees(a, bps)
      BY <2>2 DEF UpdateFees
    <2>3. CASE \E s \in Pseudonyms, h \in Holders, expires \in now .. now + ClaimLifetime : SignClaim(s, h, expires)
      BY <2>3 DEF SignClaim
    <2> QED
      BY <1>2, <2>1, <2>2, <2>3 DEF PaymentStep
  <1>3. CASE ObservationStep
    <2>1. CASE \E n \in Nullifiers, t \in Transcripts : SignObservation(n, t)
      BY <2>1 DEF SignObservation
    <2>2. CASE (\E k \in EpochKeys : ComputeReport(k)) \/ (\E draft \in computed : SignReport(draft))
      BY <2>2 DEF ComputeReport, SignReport
    <2>3. CASE \E report \in reports : PublishConfidence(report)
      BY <2>3 DEF PublishConfidence
    <2> QED
      BY <1>3, <2>1, <2>2, <2>3 DEF ObservationStep
  <1>4. CASE Tick
    BY <1>4 DEF Tick
  <1>5. CASE UNCHANGED vars
    BY <1>5 DEF vars
  <1> QED
    BY <1>1, <1>2, <1>3, <1>4, <1>5 DEF Next

\* A reward leaves the escrow for the account and the fee vault.
LEMMA SubmissionBooks ==
    ASSUME Typed, BookInv, NEW n \in Nullifiers, NEW r \in Roots, NEW t \in Transcripts, SubmitObservation(n, r, t)
    PROVE  BookInv'
  <1> DEFINE q == n[2]
             s == PseudonymOf(n)
             gross == IF Pays(q, EpochKeyOf(n)) THEN config[q].reward ELSE 0
             fee == Fee(gross, fees.bps)
  <1>1. q \in Protocols /\ s \in Pseudonyms /\ gross \in Nat /\ fee \in Nat /\ escrow[q] - gross \in Nat
    BY SubmitFacts
  <1>2. s \in ObserversOf(q) /\ \A p \in Protocols : p # q => s \notin ObserversOf(p)
    BY <1>1 DEF ObserversOf, ProtocolOf, PseudonymOf
  <1>3. /\ payout' = [payout EXCEPT ![s] = Credit(@, gross, fee)]
        /\ escrow' = [escrow EXCEPT ![q] = @ - gross]
        /\ feeVault' = feeVault + fee /\ UNCHANGED <<wallet, funded>>
    BY DEF SubmitObservation
  <1> HIDE DEF q, s, gross, fee
  <1>4. payout \in [Pseudonyms -> PayoutAccounts] /\ escrow \in [Protocols -> Nat]
    BY DEF Typed, TypeOK, PayoutTypes, PayoutAccounts, LedgerTypes
  <1>5. /\ payout'[s].gross = payout[s].gross + gross /\ payout'[s].fees = payout[s].fees + fee
        /\ payout'[s].withdrawn = payout[s].withdrawn
        /\ \A x \in Pseudonyms : x # s => payout'[x] = payout[x]
    <2>1. payout'[s] = Credit(payout[s], gross, fee) /\ payout[s] \in PayoutAccounts
      BY <1>1, <1>3, <1>4
    <2>2. /\ payout'[s].gross = payout[s].gross + gross /\ payout'[s].fees = payout[s].fees + fee
          /\ payout'[s].withdrawn = payout[s].withdrawn
      BY <2>1 DEF Credit, PayoutAccounts
    <2> QED
      BY <1>1, <1>3, <1>4, <2>2
  <1>6. Withdrawn' = Withdrawn
    BY <1>5 DEF Withdrawn
  <1>7. Charged' = [Charged EXCEPT ![s] = @ + fee]
    BY <1>1, <1>5 DEF Charged
  <1>8. Earned(q)' = [Earned(q) EXCEPT ![s] = @ + gross]
    BY <1>1, <1>2, <1>5 DEF Earned, ObserversOf
  <1>9. \A p \in Protocols : p # q => Earned(p)' = Earned(p)
    BY <1>2, <1>5 DEF Earned, ObserversOf
  <1>10. IsFiniteSet(Units(Charged')) /\ Total(Charged') = Total(Charged) + fee
    <2>1. Charged \in [Pseudonyms -> Nat] /\ IsFiniteSet(Units(Charged)) /\ s \in Pseudonyms /\ fee \in Nat
      BY <1>1, BooksTyped DEF BookInv
    <2>2. Charged' \in [Pseudonyms -> Nat] /\ Charged'[s] = Charged[s] + fee /\ \A x \in Pseudonyms : x # s => Charged'[x] = Charged[x]
      BY <2>1, <1>7
    <2> QED
      BY <2>1, <2>2, TotalAdds
  <1>11. IsFiniteSet(Units(Earned(q)')) /\ Total(Earned(q)') = Total(Earned(q)) + gross
    <2>1. Earned(q) \in [ObserversOf(q) -> Nat] /\ IsFiniteSet(Units(Earned(q))) /\ s \in ObserversOf(q) /\ gross \in Nat
      BY <1>1, <1>2, BooksTyped DEF BookInv
    <2>2. Earned(q)' \in [ObserversOf(q) -> Nat] /\ Earned(q)'[s] = Earned(q)[s] + gross /\ \A x \in ObserversOf(q) : x # s => Earned(q)'[x] = Earned(q)[x]
      BY <2>1, <1>8
    <2> QED
      BY <2>1, <2>2, TotalAdds
  <1>12. Total(Earned(q)) \in Nat
    BY <1>1, FS_CardinalityType DEF BookInv, Total
  <1>13. escrow'[q] = escrow[q] - gross /\ \A p \in Protocols : p # q => escrow'[p] = escrow[p]
    BY <1>1, <1>3, <1>4
  <1>14. escrow'[q] + Total(Earned(q)') = funded'[q]
    BY <1>1, <1>3, <1>4, <1>11, <1>12, <1>13 DEF BookInv
  <1>15. \A p \in Protocols : IsFiniteSet(Units(Earned(p)')) /\ escrow'[p] + Total(Earned(p)') = funded'[p]
    BY <1>3, <1>9, <1>11, <1>13, <1>14 DEF BookInv
  <1>16. feeVault' = Total(Charged')
    BY <1>3, <1>10 DEF BookInv
  <1>17. /\ IsFiniteSet(Units(Withdrawn')) /\ IsFiniteSet(Units(wallet')) /\ Total(wallet') = Total(Withdrawn')
    BY <1>3, <1>6 DEF BookInv
  <1> QED
    BY <1>10, <1>15, <1>16, <1>17 DEF BookInv, Units, Total

\* A withdrawal moves from the account's vault to its holder.
LEMMA ClaimBooks ==
    ASSUME Typed, BookInv, NEW s \in Pseudonyms, NEW h \in Holders, NEW expires,
           NEW amount \in 1 .. payout[s].available, ClaimPayout(s, h, amount, expires)
    PROVE  BookInv'
  <1>1. payout[s] \in PayoutAccounts /\ payout \in [Pseudonyms -> PayoutAccounts] /\ wallet \in [Holders -> Nat]
    BY DEF Typed, TypeOK, PayoutTypes, PayoutAccounts, LedgerTypes
  <1>2. amount \in Nat
    BY <1>1 DEF PayoutAccounts
  <1>3. /\ payout' = [payout EXCEPT ![s] = Debit(@, h, amount)]
        /\ wallet' = [wallet EXCEPT ![h] = @ + amount] /\ UNCHANGED <<escrow, feeVault, funded>>
    BY DEF ClaimPayout
  <1>4. /\ payout'[s].gross = payout[s].gross /\ payout'[s].fees = payout[s].fees
        /\ payout'[s].withdrawn = payout[s].withdrawn + amount
        /\ \A x \in Pseudonyms : x # s => payout'[x] = payout[x]
    <2>1. payout'[s] = Debit(payout[s], h, amount)
      BY <1>1, <1>3
    <2>2. /\ payout'[s].gross = payout[s].gross /\ payout'[s].fees = payout[s].fees
          /\ payout'[s].withdrawn = payout[s].withdrawn + amount
      BY <1>1, <2>1 DEF Debit, PayoutAccounts
    <2> QED
      BY <1>1, <1>3, <2>2
  <1>5. Charged' = Charged /\ \A p \in Protocols : Earned(p)' = Earned(p)
    BY <1>4 DEF Charged, Earned, ObserversOf
  <1>6. Withdrawn' = [Withdrawn EXCEPT ![s] = @ + amount]
    BY <1>4 DEF Withdrawn
  <1>7. IsFiniteSet(Units(Withdrawn')) /\ Total(Withdrawn') = Total(Withdrawn) + amount
    <2>1. Withdrawn \in [Pseudonyms -> Nat] /\ IsFiniteSet(Units(Withdrawn)) /\ s \in Pseudonyms /\ amount \in Nat
      BY <1>2, BooksTyped DEF BookInv
    <2>2. Withdrawn' \in [Pseudonyms -> Nat] /\ Withdrawn'[s] = Withdrawn[s] + amount /\ \A x \in Pseudonyms : x # s => Withdrawn'[x] = Withdrawn[x]
      BY <2>1, <1>6
    <2> QED
      BY <2>1, <2>2, TotalAdds
  <1>8. IsFiniteSet(Units(wallet')) /\ Total(wallet') = Total(wallet) + amount
    <2>1. wallet \in [Holders -> Nat] /\ IsFiniteSet(Units(wallet)) /\ h \in Holders /\ amount \in Nat
      BY <1>1, <1>2 DEF BookInv
    <2>2. wallet' \in [Holders -> Nat] /\ wallet'[h] = wallet[h] + amount /\ \A x \in Holders : x # h => wallet'[x] = wallet[x]
      BY <2>1, <1>3
    <2> QED
      BY <2>1, <2>2, TotalAdds
  <1> QED
    BY <1>3, <1>5, <1>7, <1>8 DEF BookInv, Units, Total

LEMMA NextBooks == Typed /\ BookInv /\ [Next]_vars => BookInv'
  <1> SUFFICES ASSUME Typed, BookInv, [Next]_vars PROVE BookInv'
    OBVIOUS
  <1>1. CASE UNCHANGED <<payout, ledgerVars>>
    <2>1. Charged' = Charged /\ Withdrawn' = Withdrawn /\ \A p : Earned(p)' = Earned(p)
      BY <1>1 DEF Charged, Withdrawn, Earned, ObserversOf
    <2> QED
      BY <1>1, <2>1 DEF BookInv, Units, Total, ledgerVars
  <1>2. ASSUME NEW p \in Protocols, NEW amount \in Deposits, FundEscrow(p, amount) PROVE BookInv'
    <2>1. /\ escrow' = [escrow EXCEPT ![p] = @ + amount] /\ funded' = [funded EXCEPT ![p] = @ + amount]
          /\ UNCHANGED <<payout, feeVault, wallet>>
      BY <1>2 DEF FundEscrow
    <2>2. Charged' = Charged /\ Withdrawn' = Withdrawn /\ \A q : Earned(q)' = Earned(q)
      BY <2>1 DEF Charged, Withdrawn, Earned, ObserversOf
    <2>3. ASSUME NEW q \in Protocols
          PROVE  IsFiniteSet(Units(Earned(q)')) /\ escrow'[q] + Total(Earned(q)') = funded'[q]
      <3>1. Total(Earned(q)) \in Nat /\ escrow[q] \in Nat /\ funded[q] \in Nat /\ amount \in Nat
        BY NumbersAssumption, BooksTyped, FS_CardinalityType DEF BookInv, Total
      <3>2. escrow'[q] = escrow[q] + (IF q = p THEN amount ELSE 0) /\ funded'[q] = funded[q] + (IF q = p THEN amount ELSE 0)
        BY <2>1, <3>1 DEF Typed, TypeOK, LedgerTypes
      <3>3. IsFiniteSet(Units(Earned(q))) /\ escrow[q] + Total(Earned(q)) = funded[q]
        BY DEF BookInv
      <3>4. escrow'[q] + Total(Earned(q)) = funded'[q]
        BY <3>1, <3>2, <3>3
      <3> QED
        BY <2>2, <3>3, <3>4
    <2> QED
      BY <2>1, <2>2, <2>3 DEF BookInv, Units, Total
  <1> QED
    BY <1>1, <1>2, SubmissionBooks, ClaimBooks, LedgerChanges

LEMMA InitBooks == Init => BookInv
  <1> SUFFICES ASSUME Init PROVE BookInv
    OBVIOUS
  <1>1. /\ \A s \in Pseudonyms : payout[s].gross = 0 /\ payout[s].fees = 0 /\ payout[s].withdrawn = 0
        /\ \A p \in Protocols : escrow[p] = 0 /\ funded[p] = 0
        /\ feeVault = 0 /\ wallet = [h \in Holders |-> 0]
    BY DEF Init, EmptyPayout
  <1>2. \A p \in Protocols : IsFiniteSet(Units(Earned(p))) /\ Total(Earned(p)) = 0
    BY <1>1, TotalOfNothing DEF Earned, ObserversOf
  <1>3. /\ IsFiniteSet(Units(Charged)) /\ Total(Charged) = 0
        /\ IsFiniteSet(Units(Withdrawn)) /\ Total(Withdrawn) = 0
        /\ IsFiniteSet(Units(wallet)) /\ Total(wallet) = 0
    BY <1>1, TotalOfNothing DEF Charged, Withdrawn
  <1> QED
    BY <1>1, <1>2, <1>3 DEF BookInv

\* No token is made or lost, for any protocols, observers and holders, rewards,
\* rates and deposits: what was deposited for a protocol is in its escrow or was
\* earned from it, the fee vault holds the fees, the holders what was withdrawn.
\* With it the counters of the device epochs agree with the commitments.
THEOREM BooksBalance == Spec => []AccountsBalance
  <1>1. BookInv => TokensConserved
    BY DEF BookInv, TokensConserved, Earned, ObserversOf, Charged, Withdrawn
  <1>2. BookInv /\ EpochAccounting => AccountsBalance
    BY <1>1 DEF AccountsBalance
  <1> QED
    BY <1>2, CountersExact, InitBooks, NextBooks, InitTyped, NextTyped, PTL DEF Spec

=============================================================================
