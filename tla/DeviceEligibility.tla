------------------------- MODULE DeviceEligibility -------------------------
(***************************************************************************)
(* The quote that a phone gets for a device epoch (device-eligibility.ts), *)
(* computed by the service from one finalized snapshot of the program's    *)
(* accounts.  The reward is a number; its decimal formatting is left out.  *)
(***************************************************************************)
EXTENDS PathnodProgram

Unpaid == [registered |-> FALSE, open_slots |-> 0, reward |-> 0]

\* quote: the checks of the protocol's account, then those of the device's; an
\* epoch account has an observer.
AccountsMatch(p, k) ==
    /\ config[p].version > 0 /\ ~(config[p].slots > 0 /\ config[p].reward = 0)
    /\ IF <<p, k[2]>> \in devices THEN fees.open /\ epoch[k].paidSlots <= epoch[k].observers
                                 ELSE epoch[k].observers = 0

OpenSlotsUnfunded(p, k) == IF epoch[k].paidSlots < config[p].slots THEN config[p].slots - epoch[k].paidSlots ELSE 0

\* quote: the slots that are left, as far as the escrow pays for them.
OpenSlots(p, k) ==
    LET left == IF epoch[k].paidSlots < config[p].slots THEN config[p].slots - epoch[k].paidSlots ELSE 0
        paidFor == IF config[p].reward > 0 THEN escrow[p] \div config[p].reward ELSE 0
    IN  IF paidFor < left THEN paidFor ELSE left

\* splitReward
Net(gross, bps) == gross - Fee(gross, bps)

Quote(k) ==
    LET p == k[1] IN
    CASE Absent(p) -> "protocol_unknown"
      [] ~Absent(p) /\ ~AccountsMatch(p, k) -> "account_mismatch"
      [] ~Absent(p) /\ AccountsMatch(p, k) /\ <<p, k[2]>> \notin devices -> Unpaid
      [] OTHER -> [registered |-> TRUE, open_slots |-> OpenSlots(p, k), reward |-> Net(config[p].reward, fees.bps)]

\* The quote is kept: an observation finds its accounts quotable, is paid
\* exactly when the quote before it showed an open slot, pays the net reward
\* quoted, takes one slot from its own quote and raises no other, so that a
\* quote of m slots is good for at most m paid observations until the escrow is
\* funded or the policy changes.
QuoteHonoured ==
    [][\A n \in Nullifiers : commitment[n].class = 0 /\ commitment'[n].class # 0 =>
          LET k == EpochKeyOf(n)
              open == Quote(k).open_slots
              earned == payout'[PseudonymOf(n)].available - payout[PseudonymOf(n)].available
          IN  /\ Quote(k).registered
              /\ commitment'[n].paid <=> open > 0
              /\ earned = IF open > 0 THEN Quote(k).reward ELSE 0
              /\ Quote(k)'.open_slots = IF open > 0 THEN open - 1 ELSE 0
              /\ \A other \in EpochKeys : Quote(other)' # Quote(other) =>
                    Quote(other)'.open_slots < Quote(other).open_slots]_vars
=============================================================================
