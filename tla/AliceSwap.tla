------------------------------ MODULE AliceSwap ------------------------------
(***************************************************************************)
(* Alice's state machine (protocol/alice/swap.rs): one action per match    *)
(* arm of next_state.  Alice sells BDX; her steps run inside the ASB.      *)
(*                                                                         *)
(* A call that fails and ends the step through `?` is AStop of SwapState;  *)
(* the failures next_state handles itself appear here.                     *)
(***************************************************************************)
EXTENDS SwapState

\* The two timeouts before BDX are locked race the event they wait for.
AliceStarted ==
    /\ AAt("Started", "start")
    /\ \/ HasBeenSeen("lock") /\ ABecome("BtcLockTransactionSeen")
       \/ ABecome("SafelyAborted")
    /\ OnlyAlice

AliceBtcLockTransactionSeen ==
    /\ AAt("BtcLockTransactionSeen", "start")
    /\ \/ IsFinal("lock") /\ ABecome("BtcLocked")
       \/ ABecome("SafelyAborted")
    /\ OnlyAlice

\* expired_timelocks is asked first; the answer may be old when it is used.
ACheckEpoch(state, expired) ==
    /\ AAt(state, "start")
    /\ IF CurrentEpoch = "None" THEN AGoto("checked") ELSE ABecome(expired)
    /\ OnlyAlice

AliceBtcLocked ==
    \/ ACheckEpoch("BtcLocked", "SafelyAborted")
    \/ /\ AAt("BtcLocked", "checked")
       /\ bdx' = "pool"
       /\ transfers' = transfers + 1
       /\ ABecome("BeldexLockTransactionSent")
       /\ UNCHANGED <<conf, refundWallet, bobVars, net, scenario, stops>>

\* Mutant: an expired timelock aborts the swap, as it does one state earlier.
AliceBeldexLockTransactionSentAborts ==
    \/ ACheckEpoch("BeldexLockTransactionSent", "SafelyAborted")
    \/ /\ AAt("BeldexLockTransactionSent", "checked")
       /\ bdx \in {"confirmed", "final"}
       /\ ABecome("BeldexLocked")
       /\ OnlyAlice

AliceBeldexLockTransactionSent ==
    \/ ACheckEpoch("BeldexLockTransactionSent", "CancelTimelockExpired")
    \/ /\ AAt("BeldexLockTransactionSent", "checked")
       /\ bdx \in {"confirmed", "final"}
       /\ ABecome("BeldexLocked")
       /\ OnlyAlice

\* send_transfer_proof returns when Bob acknowledged the proof.
AliceBeldexLocked ==
    \/ /\ AAt("BeldexLocked", "start")
       /\ net' = net \cup {"proof"}
       /\ AGoto("wait")
       /\ UNCHANGED <<conf, refundWallet, bobVars, bdxVars, scenario, stops>>
    \/ /\ AAt("BeldexLocked", "wait")
       /\ "proofAck" \in net
       /\ net' = net \ {"proofAck"}
       /\ ABecome("BeldexLockTransferProofSent")
       /\ UNCHANGED <<conf, refundWallet, bobVars, bdxVars, scenario, stops>>
    \/ /\ AAt("BeldexLocked", "wait")
       /\ CancelTimelockExpires
       /\ ABecome("CancelTimelockExpired")
       /\ OnlyAlice

\* The select is biased towards the timelock, but the subscription it polls
\* lags behind the chain, so the signature can still win after the expiry.
AliceBeldexLockTransferProofSent ==
    /\ AAt("BeldexLockTransferProofSent", "start")
    /\ \/ /\ CancelTimelockExpires
          /\ ABecome("CancelTimelockExpired")
          /\ UNCHANGED net
       \/ /\ "encsig" \in net
          /\ net' = (net \ {"encsig"}) \cup {"encsigAck"}
          /\ ABecome("EncSigLearned")
    /\ UNCHANGED <<conf, refundWallet, bobVars, bdxVars, scenario, stops>>

\* A broadcast by Alice; the action says where it leads.
APublish(tx) ==
    /\ BroadcastOk(tx)
    /\ conf' = Published(tx)
    /\ UNCHANGED <<refundWallet, bobVars, net, bdxVars, scenario, stops>>

AliceEncSigLearned ==
    \/ ACheckEpoch("EncSigLearned", "CancelTimelockExpired")
    \/ /\ AAt("EncSigLearned", "checked")
       /\ APublish("redeem")
       /\ ABecome("BtcRedeemTransactionPublished")
    \/ /\ AAt("EncSigLearned", "checked")
       /\ ~BroadcastOk("redeem") \/ RpcFaults
       /\ AGoto("expire")
       /\ OnlyAlice
    \/ /\ AAt("EncSigLearned", "expire")
       /\ CancelTimelockExpires
       /\ ABecome("CancelTimelockExpired")
       /\ OnlyAlice

AliceBtcRedeemTransactionPublished ==
    /\ AAt("BtcRedeemTransactionPublished", "start")
    /\ IsFinal("redeem")
    /\ ABecome("BtcRedeemed")
    /\ OnlyAlice

\* Mutant: Alice relies on Bob to publish TxCancel.
AliceCancelTimelockExpiredPassive ==
    AAt("CancelTimelockExpired", "start") /\ ABecome("BtcCancelled") /\ OnlyAlice

\* check_for_tx_cancel, then submit_tx_cancel, whose error is only logged.
AliceCancelTimelockExpired ==
    /\ AAt("CancelTimelockExpired", "start")
    /\ ABecome("BtcCancelled")
    /\ \/ APublish("cancel")
       \/ /\ HasBeenSeen("cancel") \/ ~BroadcastOk("cancel") \/ RpcFaults
          /\ OnlyAlice

AliceBtcCancelled ==
    /\ AAt("BtcCancelled", "start")
    /\ \/ HasBeenSeen("refund") /\ ABecome("BtcRefunded")
       \/ PunishTimelockExpires /\ ABecome("BtcPunishable")
    /\ OnlyAlice

\* refund_bdx waits for ten confirmations, then create_from generates the
\* refund wallet, which fails when its file is already there ...
GenerateRefundWallet(next) ==
    /\ bdx = "final"
    /\ IF refundWallet
       THEN AFail
       ELSE /\ refundWallet' = TRUE
            /\ next
            /\ UNCHANGED <<conf, bobVars, net, bdxVars, scenario, stops>>

\* ... and sweeps it; a failed refresh or sweep is only logged.
SweepRefundWallet ==
    /\ \/ bdx' = "alice"
       \/ RpcFaults /\ UNCHANGED bdx
    /\ UNCHANGED <<conf, refundWallet, bobVars, net, transfers, scenario, stops>>

AliceBtcRefunded ==
    \/ /\ AAt("BtcRefunded", "start")
       /\ GenerateRefundWallet(AGoto("wait"))
    \/ /\ AAt("BtcRefunded", "wait")
       /\ SweepRefundWallet
       /\ ABecome("BeldexRefunded")

\* punish_btc broadcasts and waits for finality; if the broadcast fails the
\* refund transaction is fetched, and without one the step ends in an error.
AliceBtcPunishable ==
    \/ /\ AAt("BtcPunishable", "start")
       /\ APublish("punish")
       /\ AGoto("wait")
    \/ /\ AAt("BtcPunishable", "start")
       /\ ~BroadcastOk("punish") \/ RpcFaults
       /\ IF HasBeenSeen("refund")
          THEN ABecome("BtcRefunded") /\ OnlyAlice
          ELSE AFail
    \/ /\ AAt("BtcPunishable", "wait")
       /\ IsFinal("punish")
       /\ ABecome("BtcPunished")
       /\ OnlyAlice

AliceSwapStep ==
    \/ AliceStarted
    \/ AliceBtcLockTransactionSeen
    \/ AliceBtcLocked
    \/ AliceBeldexLockTransactionSent
    \/ AliceBeldexLocked
    \/ AliceBeldexLockTransferProofSent
    \/ AliceEncSigLearned
    \/ AliceBtcRedeemTransactionPublished
    \/ AliceCancelTimelockExpired
    \/ AliceBtcCancelled
    \/ AliceBtcRefunded
    \/ AliceBtcPunishable
    \/ ASave
=============================================================================
