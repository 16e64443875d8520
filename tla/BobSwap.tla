------------------------------- MODULE BobSwap -------------------------------
(***************************************************************************)
(* Bob's state machine (protocol/bob/swap.rs): one action per match arm of *)
(* next_state, and what his event loop does with transfer proofs.  Bob     *)
(* buys BDX; his steps run inside the CLI or the GUI's backend.            *)
(*                                                                         *)
(* A call that fails and ends the step through `?` is BStop of SwapState   *)
(* or, where the failure follows from the state, BFail.                    *)
(***************************************************************************)
EXTENDS SwapState

\* setup_swap: both parties hold the signatures.  Bob sends the last message
\* of the handshake and is done; Alice starts only if it reaches her, and
\* stores the swap with her first transition.
BobStarted ==
    /\ BAt("Started", "start")
    /\ BBecome("SwapSetupCompleted")
    /\ \/ aMem' = "Started" /\ aPc' = "start"
       \/ UNCHANGED <<aMem, aPc>>
    /\ UNCHANGED <<conf, aDb, refundWallet, buffered, net, bdxVars, scenario, stops>>

BPublish(tx) ==
    /\ BroadcastOk(tx)
    /\ conf' = Published(tx)
    /\ UNCHANGED <<aliceVars, buffered, net, bdxVars, scenario, stops>>

BobSwapSetupCompleted ==
    /\ BAt("SwapSetupCompleted", "start")
    /\ \/ BPublish("lock") /\ BBecome("BtcLocked")
       \/ ~BroadcastOk("lock") /\ BFail

\* expired_timelock is asked at control point pc; next is taken in epoch None.
BCheckEpoch(state, pc, next) ==
    /\ BAt(state, pc)
    /\ IF CurrentEpoch = "None" THEN next ELSE BBecome("CancelTimelockExpired")

\* The branch of a select that waits for the cancel timelock.
BExpire(state, pc) ==
    /\ BAt(state, pc)
    /\ CancelTimelockExpires
    /\ BBecome("CancelTimelockExpired")
    /\ OnlyBob

BobBtcLocked ==
    \/ /\ BCheckEpoch("BtcLocked", "start",
                      IF buffered THEN BBecome("BeldexLockProofReceived")
                                  ELSE BGoto("wait"))
       /\ OnlyBob
    \/ /\ BAt("BtcLocked", "wait")
       /\ "proof" \in net
       /\ net' = (net \ {"proof"}) \cup {"proofAck"}
       /\ BBecome("BeldexLockProofReceived")
       /\ UNCHANGED <<conf, aliceVars, buffered, bdxVars, scenario, stops>>
    \/ BExpire("BtcLocked", "wait")

\* The proof reaches an event loop of another swap with the same Alice, one that
\* runs instead of this swap or one that was left behind when it was suspended:
\* it goes to the database, and a second copy, which the table refuses, is not
\* acknowledged.
BobBuffersProof ==
    /\ "proof" \in net
    /\ net' = (net \ {"proof"}) \cup (IF buffered THEN {} ELSE {"proofAck"})
    /\ buffered' = TRUE
    /\ UNCHANGED <<conf, aliceVars, bDb, bMem, bPc, bdxVars, scenario, stops>>

\* Mutant: the first confirmation is enough.
BdxLockAcceptedEarly == ~shortLock /\ bdx \in {"confirmed", "final"}

\* The transfer has the expected amount and min_beldex_confirmations.
BdxLockAccepted == ~shortLock /\ bdx = "final"

\* watch_for_transfer ends with enough confirmations, or with an error when
\* another amount than the agreed one arrived: then only the timelock is awaited.
BobBeldexLockProofReceived ==
    \/ /\ BCheckEpoch("BeldexLockProofReceived", "start", BGoto("wait"))
       /\ OnlyBob
    \/ /\ BAt("BeldexLockProofReceived", "wait")
       /\ \/ BdxLockAccepted /\ BBecome("BeldexLocked")
          \/ shortLock /\ bdx # "none" /\ BGoto("expire")
       /\ OnlyBob
    \/ BExpire("BeldexLockProofReceived", "wait")
    \/ BExpire("BeldexLockProofReceived", "expire")

\* check_for_tx_redeem; any error counts as "not found".
BCheckForTxRedeem(state) ==
    /\ BAt(state, "start")
    /\ \/ HasBeenSeen("redeem") /\ BBecome("BtcRedeemed")
       \/ (~HasBeenSeen("redeem") \/ RpcFaults) /\ BGoto("checked")
    /\ OnlyBob

BobBeldexLocked ==
    \/ BCheckForTxRedeem("BeldexLocked")
    \/ /\ BCheckEpoch("BeldexLocked", "checked", BGoto("wait"))
       /\ net' = IF CurrentEpoch = "None" THEN net \cup {"encsig"} ELSE net
       /\ UNCHANGED <<conf, aliceVars, buffered, bdxVars, scenario, stops>>
    \/ /\ BAt("BeldexLocked", "wait")
       /\ "encsigAck" \in net
       /\ net' = net \ {"encsigAck"}
       /\ BBecome("EncSigSent")
       /\ UNCHANGED <<conf, aliceVars, buffered, bdxVars, scenario, stops>>
    \/ BExpire("BeldexLocked", "wait")

BobEncSigSent ==
    \/ BCheckForTxRedeem("EncSigSent")
    \/ /\ BCheckEpoch("EncSigSent", "checked", BGoto("wait"))
       /\ OnlyBob
    \/ /\ BAt("EncSigSent", "wait")
       /\ HasBeenSeen("redeem")
       /\ BBecome("BtcRedeemed")
       /\ OnlyBob
    \/ BExpire("EncSigSent", "wait")

\* redeem_bdx: generate or open the swap wallet, refresh and sweep it.
BSweepBeldex ==
    IF bdx = "final"
    THEN /\ bdx' = "bob"
         /\ BBecome("BeldexRedeemed")
         /\ UNCHANGED <<conf, aliceVars, buffered, net, transfers, scenario, stops>>
    ELSE BFail

BobBtcRedeemed == BAt("BtcRedeemed", "start") /\ BSweepBeldex

\* check_for_tx_cancel looks for any transaction paying TxCancel's script, and
\* TxLock pays the same script.
CheckForTxCancel == HasBeenSeen("lock") \/ HasBeenSeen("cancel")

BobCancelTimelockExpired ==
    /\ BAt("CancelTimelockExpired", "start")
    /\ \/ CheckForTxCancel /\ BBecome("BtcCancelled") /\ OnlyBob
       \/ /\ ~CheckForTxCancel \/ RpcFaults
          /\ \/ BPublish("cancel") /\ BBecome("BtcCancelled")
             \/ ~BroadcastOk("cancel") /\ BFail

\* Mutant: TxCancel is taken for TxRefund.
CheckForTxRefundWrong == HasBeenSeen("cancel")

\* check_for_tx_refund looks for any transaction paying Bob's refund address,
\* which is the address TxLock pays its change to.
CheckForTxRefund ==
    HasBeenSeen("refund") \/ (changeOutput /\ HasBeenSeen("lock"))

\* publish_refund_btc, in a state machine step or a manual command that goes
\* on to done or to failed.
PublishRefundBtc(done, failed) ==
    \/ CheckForTxRefund /\ done /\ OnlyBob
    \/ /\ ~CheckForTxRefund \/ RpcFaults
       /\ \/ BPublish("refund") /\ done
          \/ (~BroadcastOk("refund") \/ RpcFaults) /\ failed

BobBtcCancelled ==
    \/ /\ BAt("BtcCancelled", "start")
       /\ \/ CurrentEpoch = "None" /\ BFail
          \/ CurrentEpoch = "Cancel" /\ BGoto("checked") /\ OnlyBob
          \/ CurrentEpoch = "Punish" /\ BBecome("BtcPunished") /\ OnlyBob
    \/ /\ BAt("BtcCancelled", "checked")
       /\ PublishRefundBtc(BBecome("BtcRefunded"), BFail)

\* Mutants: Alice answers before TxPunish, or only before TxPunish is final.
CooperativeRedeemEarly == aDb \in {"BtcCancelled", "BtcPunishable", "BtcPunished"}
CooperativeRedeemOnlyEarly == aDb = "BtcPunishable"

\* Alice hands out her key share once she has recorded the punishment.
CooperativeRedeemFulfilled == aDb = "BtcPunished"

BobBtcPunished ==
    /\ BAt("BtcPunished", "start")
    /\ IF CooperativeRedeemFulfilled THEN BSweepBeldex ELSE BFail

BobSwapStep ==
    \/ BobStarted
    \/ BobSwapSetupCompleted
    \/ BobBtcLocked
    \/ BobBeldexLockProofReceived
    \/ BobBeldexLocked
    \/ BobEncSigSent
    \/ BobBtcRedeemed
    \/ BobCancelTimelockExpired
    \/ BobBtcCancelled
    \/ BobBtcPunished
    \/ BSave
=============================================================================
