----------------------------- MODULE BobRecovery -----------------------------
(***************************************************************************)
(* Bob's manual command cancel_and_refund (cli/cancel_and_refund.rs): it   *)
(* tries to cancel and, whatever came of that, tries to refund.  Both work *)
(* on the persisted state while no task runs the swap.                     *)
(***************************************************************************)
EXTENDS BobSwap

\* The second half of the command; it starts from what the first half stored.
BThenRefund == bPc' = "refund"

BStore(s) == bDb' = s /\ bMem' = s

\* A failed command asks for the epoch and records the punishment.
BStoreIfPunished ==
    \/ CurrentEpoch = "Punish" /\ BStore("BtcPunished")
    \/ (CurrentEpoch # "Punish" \/ RpcFaults) /\ UNCHANGED <<bDb, bMem>>

\* Mutant: BtcRedeemed is not among the states that are refused.
BobCancellableRedeemed ==
    {"BtcLocked", "BeldexLockProofReceived", "BeldexLocked", "EncSigSent",
     "CancelTimelockExpired", "BtcCancelled", "BtcRefunded", "BtcRedeemed"}

\* BtcRefunded, though an end of the swap, can be cancelled once more.
BobCancellable ==
    {"BtcLocked", "BeldexLockProofReceived", "BeldexLocked", "EncSigSent",
     "CancelTimelockExpired", "BtcCancelled", "BtcRefunded"}

\* cancel: TxCancel is broadcast and the new state inserted; or it is found, or
\* the epoch tells why neither.
BobManualCancel ==
    \/ /\ bPc = "stopped"
       /\ bDb \in BobCancellable
       /\ \/ /\ BPublish("cancel")
             /\ bMem' = "BtcCancelled" /\ bPc' = "csave" /\ UNCHANGED bDb
          \/ /\ ~BroadcastOk("cancel") \/ RpcFaults
             /\ \/ CheckForTxCancel /\ BStore("BtcCancelled")
                \/ /\ ~CheckForTxCancel \/ RpcFaults
                   /\ BStoreIfPunished
             /\ BThenRefund
             /\ OnlyBob
    \/ /\ bPc = "csave"
       /\ BStore(bMem)
       /\ BThenRefund
       /\ OnlyBob

\* refund: what can be cancelled can be refunded, unless it already is.
BobManualRefund ==
    /\ bPc = "refund"
    /\ IF bDb \in BobCancellable \ {"BtcRefunded"}
       THEN PublishRefundBtc(
                bMem' = "BtcRefunded" /\ bPc' = "msave" /\ UNCHANGED bDb,
                BStoreIfPunished /\ bPc' = "stopped" /\ OnlyBob)
       ELSE bPc' = "stopped" /\ UNCHANGED <<bDb, bMem>> /\ OnlyBob

BobRecoveryStep == BobManualCancel \/ BobManualRefund
=============================================================================
