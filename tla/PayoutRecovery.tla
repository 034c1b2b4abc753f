---------------------------- MODULE PayoutRecovery ----------------------------
(***************************************************************************)
(* The iPhone's withdrawals (EarningsView, WithdrawalRecovery) against the *)
(* service's payout routes and the cluster.  A withdrawal is quoted, then  *)
(* authorized, signed, saved in a file and sent; whatever interrupts it,   *)
(* the file is what says that a transaction may still take effect.  A      *)
(* transaction is included only up to its last valid block height, and     *)
(* the program executes it only at the nonce it was signed for.            *)
(*                                                                         *)
(* Each screen runs one operation at a time: `busy' is a field of the view *)
(* and its Task outlives the view, so leaving the screen and opening it    *)
(* again can leave two operations running.  Balances and heights are read  *)
(* at finalized commitment and are assumed not to go backwards from one    *)
(* endpoint to the other.  Any request may fail, which ends the operation, *)
(* and the app may be killed between any two steps.                        *)
(***************************************************************************)
EXTENDS Integers, Sequences

CONSTANTS
    Screens,      \* views of EarningsView that may have an operation running
    NoTx,         \* no pending file
    Lifetime,     \* blocks a blockhash stays valid (150)
    MaxTx, MaxHeight, MaxCredits   \* bounds: withdrawals signed, blocks, credited rewards

VARIABLES
    file,         \* the transaction of the pending file
    op,           \* per screen the step its operation waits at and what it has read
    txs,          \* the signed withdrawals
    fate,         \* what became of each
    chain,        \* finalized block height and payout account
    overlap,      \* history: two operations have run at the same time
    told          \* history: verdicts on saved withdrawals, <<transaction, verdict>>

vars == <<file, op, txs, fate, chain, overlap, told>>

Transactions == 1 .. MaxTx
View == [nonce |-> chain.nonce, available |-> chain.available]
Idle == [at |-> "idle", tx |-> NoTx, read |-> [nonce |-> 0, available |-> 0], status |-> "absent", height |-> 0]

PayoutConstants ==
    /\ NoTx \notin Nat
    /\ Lifetime \in Nat \ {0} /\ MaxTx \in Nat /\ MaxHeight \in Nat /\ MaxCredits \in Nat

\* A file from before the last valid height was saved holds a transaction that
\* may or may not have been sent.
Init ==
    /\ op = [s \in Screens |-> Idle] /\ overlap = FALSE /\ told = {}
    /\ chain = [height |-> 0, nonce |-> 0, available |-> 1, credited |-> 1]
    /\ \/ file = NoTx /\ txs = <<>> /\ fate = <<>>
       \/ /\ file = 1 /\ fate \in {<<"signed">>, <<"sent">>}
          /\ txs = <<[nonce |-> 0, amount |-> 1, last |-> Lifetime, legacy |-> TRUE]>>

At(s, p) == op[s].at = p
To(s, p) == op' = [op EXCEPT ![s].at = p]
Stop(s) == op' = [op EXCEPT ![s] = Idle]

-----------------------------------------------------------------------------
(* The screen's operations. *)

\* run: the view refuses a second operation of its own while busy.
Start(s, p) ==
    /\ At(s, "idle")
    /\ To(s, p)
    /\ overlap' = (overlap \/ \E other \in Screens \ {s} : ~At(other, "idle"))
    /\ UNCHANGED <<file, txs, fate, chain, told>>

\* withdraw turns to the saved withdrawal when there is one.
Withdraw(s) == Start(s, IF file = NoTx THEN "balance" ELSE "reread")

\* "Reconcile / retry saved withdrawal"
RetrySaved(s) == Start(s, "reread")

\* withdraw: refresh, answered by the service's payout().
ReadBalance(s) ==
    /\ At(s, "balance")
    /\ op' = [op EXCEPT ![s].at = "quote", ![s].read = View]
    /\ UNCHANGED <<file, txs, fate, chain, overlap, told>>

\* claim: the whole available balance at the finalized nonce.
Claimable(s) == chain.available > 0 /\ View = op[s].read

\* withdraw: /payouts/quote must offer what was refreshed.
Quote(s) ==
    /\ At(s, "quote") /\ Claimable(s)
    /\ To(s, "authorize")
    /\ UNCHANGED <<file, txs, fate, chain, overlap, told>>

\* withdraw: /payouts/authorize must authorize what was quoted; prepareClaim
\* adds the latest finalized blockhash.
Authorize(s) ==
    /\ At(s, "authorize") /\ Claimable(s)
    /\ op' = [op EXCEPT ![s].at = "save", ![s].height = chain.height + Lifetime]
    /\ UNCHANGED <<file, txs, fate, chain, overlap, told>>

\* withdraw: sign, write the pending file, then reconcile it.
Save(s) ==
    /\ At(s, "save") /\ Len(txs) < MaxTx
    /\ txs' = Append(txs, [nonce |-> op[s].read.nonce, amount |-> op[s].read.available,
                           last |-> op[s].height, legacy |-> FALSE])
    /\ fate' = Append(fate, "signed")
    /\ file' = Len(txs')
    /\ op' = [op EXCEPT ![s] = [Idle EXCEPT !.at = "reread"]]
    /\ UNCHANGED <<chain, overlap, told>>

\* The file is removed and the screen says why; without a file it fails.
Resolve(s, t, verdict) ==
    /\ Stop(s)
    /\ file' = NoTx
    /\ told' = IF file = NoTx THEN told ELSE told \cup {<<t, verdict>>}

\* retrySaved: refresh, then read the file.
ReadSaved(s) ==
    /\ At(s, "reread")
    /\ \/ /\ file = NoTx
          /\ Stop(s) /\ UNCHANGED <<file, told>>
       \/ /\ file # NoTx /\ chain.nonce > txs[file].nonce
          /\ Resolve(s, file, "completed")
       \/ /\ file # NoTx /\ chain.nonce = txs[file].nonce
          /\ op' = [op EXCEPT ![s].at = "status", ![s].tx = file]
          /\ UNCHANGED <<file, told>>
    /\ UNCHANGED <<txs, fate, chain, overlap>>

\* What getSignatureStatuses may say; an unfinalized block can be abandoned,
\* so until then a transaction sent may read as anything but finalized.
StatusOf(t) ==
    CASE fate[t] = "ok" -> {"absent", "finalized"}
      [] fate[t] = "failed" -> {"absent", "failed"}
      [] fate[t] = "sent" /\ txs[t].last > chain.height -> {"absent", "pending", "failed"}
      [] OTHER -> {"absent"}

ReadStatus(s) ==
    /\ At(s, "status")
    /\ \E status \in StatusOf(op[s].tx) : op' = [op EXCEPT ![s].at = "height", ![s].status = status]
    /\ UNCHANGED <<file, txs, fate, chain, overlap, told>>

ReadHeight(s) ==
    /\ At(s, "height")
    /\ op' = [op EXCEPT ![s].at = "decide", ![s].height = chain.height]
    /\ UNCHANGED <<file, txs, fate, chain, overlap, told>>

RecoveryActionOnFailure(status, finalizedHeight, t, finalizedNonce) ==
    CASE finalizedNonce > t.nonce -> "completed"
      [] finalizedNonce = t.nonce /\ (status \in {"pending", "finalized"} \/ t.legacy) -> "wait"
      [] finalizedNonce = t.nonce /\ (finalizedHeight > t.last \/ status = "failed") -> "replace"
      [] OTHER -> "retry"

\* WithdrawalRecovery.action
RecoveryAction(status, finalizedHeight, t, finalizedNonce) ==
    CASE finalizedNonce > t.nonce -> "completed"
      [] finalizedNonce = t.nonce /\ (status \in {"pending", "finalized"} \/ t.legacy) -> "wait"
      [] finalizedNonce = t.nonce /\ finalizedHeight > t.last -> "replace"
      [] finalizedNonce = t.nonce /\ status = "failed" -> "wait"
      [] OTHER -> "retry"

\* retrySaved: the second refresh, after the height was read, and the switch on
\* the recovery action.  A
\* retry goes on while the phone's clock has not passed the authorization.
Decide(s) ==
    /\ At(s, "decide")
    /\ LET t == op[s].tx
           action == RecoveryAction(op[s].status, op[s].height, txs[t], chain.nonce) IN
       \/ action = "completed" /\ Resolve(s, t, "completed")
       \/ action = "replace" /\ Resolve(s, t, "replaced")
       \/ action = "retry" /\ To(s, "send") /\ UNCHANGED <<file, told>>
       \/ action \in {"wait", "retry"} /\ Stop(s) /\ UNCHANGED <<file, told>>
    /\ UNCHANGED <<txs, fate, chain, overlap>>

\* retrySaved: sendTransaction with the saved bytes.
Send(s) ==
    /\ At(s, "send")
    /\ fate' = [fate EXCEPT ![op[s].tx] = IF @ = "signed" THEN "sent" ELSE @]
    /\ Stop(s)
    /\ UNCHANGED <<file, txs, chain, overlap, told>>

\* A request fails, or its answer is refused: the operation ends.
Fail(s) ==
    /\ ~At(s, "idle")
    /\ Stop(s)
    /\ UNCHANGED <<file, txs, fate, chain, overlap, told>>

\* The app is killed; the file stays.
Kill ==
    /\ op' = [s \in Screens |-> Idle]
    /\ UNCHANGED <<file, txs, fate, chain, overlap, told>>

-----------------------------------------------------------------------------
(* The cluster. *)

Live(t) == fate[t] \in {"signed", "sent"} /\ txs[t].last > chain.height

\* A block is finalized with at most one of the transactions sent.  The claim
\* fails at another nonce, and otherwise for reasons left out here.
Finalize ==
    /\ chain.height < MaxHeight
    /\ \/ /\ chain' = [chain EXCEPT !.height = @ + 1]
          /\ UNCHANGED fate
       \/ \E t \in DOMAIN txs :
             /\ fate[t] = "sent" /\ Live(t)
             /\ \/ /\ txs[t].nonce = chain.nonce
                   /\ fate' = [fate EXCEPT ![t] = "ok"]
                   /\ chain' = [chain EXCEPT !.height = @ + 1, !.nonce = @ + 1, !.available = @ - txs[t].amount]
                \/ /\ fate' = [fate EXCEPT ![t] = "failed"]
                   /\ chain' = [chain EXCEPT !.height = @ + 1]
    /\ UNCHANGED <<file, op, txs, overlap, told>>

\* An observation is rewarded.
Reward ==
    /\ chain.credited < MaxCredits
    /\ chain' = [chain EXCEPT !.available = @ + 1, !.credited = @ + 1]
    /\ UNCHANGED <<file, op, txs, fate, overlap, told>>

Next ==
    \/ \E s \in Screens :
          \/ Withdraw(s) \/ RetrySaved(s) \/ ReadBalance(s) \/ Quote(s) \/ Authorize(s) \/ Save(s)
          \/ ReadSaved(s) \/ ReadStatus(s) \/ ReadHeight(s) \/ Decide(s) \/ Send(s) \/ Fail(s)
    \/ Kill \/ Finalize \/ Reward

Spec == Init /\ [][Next]_vars

-----------------------------------------------------------------------------
(* Properties. *)

\* The pending file never loses a withdrawal: a signed transaction that can
\* still take effect is the one in the file (unless two screens ran at once),
\* and what the screen reported on removing the file is true, "expired" of a
\* transaction that has not paid and cannot any more, "finalized" of one that
\* has paid.
WithdrawalTracked ==
    /\ \A t \in DOMAIN txs : Live(t) /\ ~overlap => file = t
    /\ \A t \in DOMAIN txs :
          /\ <<t, "replaced">> \in told => fate[t] # "ok" /\ ~Live(t)
          /\ <<t, "completed">> \in told /\ ~overlap => fate[t] = "ok"
=============================================================================
