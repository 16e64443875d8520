---------------------------- MODULE AliceRecovery ----------------------------
(***************************************************************************)
(* The ASB's manual commands (asb/recovery): each loads the persisted      *)
(* state, acts on the chains and inserts a new state, while the ASB itself *)
(* is not running.  A command that bails changes nothing and is no action. *)
(***************************************************************************)
EXTENDS AliceSwap

AIdleIn(states) == aPc = "stopped" /\ aDb \in states

\* The command has computed its state; ASave inserts it.
AManual(s) == aMem' = s /\ aPc' = "msave" /\ UNCHANGED aDb

\* The states in which BDX may be locked and no redeem is published.
AliceCancellable ==
    {"BeldexLockTransactionSent", "BeldexLocked", "BeldexLockTransferProofSent",
     "EncSigLearned", "CancelTimelockExpired", "BtcCancelled", "BtcRefunded",
     "BtcPunishable"}

AliceManualCancel ==
    /\ AIdleIn(AliceCancellable)
    /\ APublish("cancel")
    /\ AManual("BtcCancelled")

\* Mutant: TxCancel is taken for TxRefund.
FetchTxRefundWrong == HasBeenSeen("cancel")

FetchTxRefund == HasBeenSeen("refund")

\* fetch_tx_refund, then the two parts of refund_bdx.
AliceManualRefund ==
    \/ /\ AIdleIn(AliceCancellable)
       /\ FetchTxRefund
       /\ ~refundWallet
       /\ GenerateRefundWallet(aPc' = "refund" /\ UNCHANGED <<aDb, aMem>>)
    \/ /\ aPc = "refund"
       /\ SweepRefundWallet
       /\ AManual("BeldexRefunded")

\* Punishing is tried in every state that is not final.
AliceManualPunish ==
    \/ /\ AIdleIn(AliceState \ AliceComplete)
       /\ APublish("punish")
       /\ AGoto("punish")
    \/ /\ aPc = "punish"
       /\ IsFinal("punish")
       /\ AManual("BtcPunished")
       /\ OnlyAlice

\* The user chooses whether to await the finality of TxRedeem.
AliceManualRedeem ==
    \/ /\ AIdleIn({"EncSigLearned"})
       /\ APublish("redeem")
       /\ AManual("BtcRedeemTransactionPublished")
    \/ \E awaitFinality \in BOOLEAN :
        /\ AIdleIn({"BtcRedeemTransactionPublished"})
        /\ awaitFinality => IsFinal("redeem")
        /\ AManual("BtcRedeemed")
        /\ OnlyAlice

\* Mutant: aborting is allowed once the transfer is recorded.
AliceAbortableLate ==
    {"Started", "BtcLockTransactionSeen", "BtcLocked", "BeldexLockTransactionSent"}

\* The states in which no BDX transfer is recorded.
AliceAbortable == {"Started", "BtcLockTransactionSeen", "BtcLocked"}

AliceManualSafelyAbort ==
    /\ AIdleIn(AliceAbortable)
    /\ AManual("SafelyAborted")
    /\ OnlyAlice

AliceRecoveryStep ==
    \/ AliceManualCancel
    \/ AliceManualRefund
    \/ AliceManualPunish
    \/ AliceManualRedeem
    \/ AliceManualSafelyAbort
=============================================================================
