---------------------------- MODULE SwapInvariant ----------------------------
(***************************************************************************)
(* The inductive invariant behind the safety properties of SwapProtocol.   *)
(* A party acts on the state in memory and after a stop on the one in the  *)
(* database, so what is claimed of one is claimed of both.                 *)
(***************************************************************************)
EXTENDS SwapProtocol

\* TxLock comes first; TxRedeem and TxCancel exclude each other, and so do
\* TxRefund and TxPunish, which both spend TxCancel.
ChainInv ==
    /\ HasBeenSeen("redeem") => HasBeenSeen("lock") /\ ~HasBeenSeen("cancel")
    /\ HasBeenSeen("cancel") => HasBeenSeen("lock")
    /\ HasBeenSeen("refund") => HasBeenSeen("cancel") /\ ~HasBeenSeen("punish")
    /\ HasBeenSeen("punish") => HasBeenSeen("cancel")

\* Memory runs ahead of the database only between a step and its insert, and
\* in Started, which is never inserted.  It never falls behind the locking of
\* the coins, a redeem or a punishment, and no task works on an end of the swap,
\* but for the command that cancels a refunded one.
MemoryInv ==
    /\ aPc \notin Unsaved =>
          aMem = aDb \/ (aMem = "Started" /\ aDb = NoSwap)
    /\ bPc \notin Unsaved =>
          bMem = bDb \/ (bMem = "Started" /\ bDb = NoSwap)
    /\ aDb \in AliceLocked => aMem \in AliceLocked
    /\ aDb \in AliceComplete => aPc = "stopped"
    /\ bDb \in BobLocked => bMem \in BobLocked
    /\ bDb \in {"BtcRedeemed", "BtcPunished"} => bMem \in {bDb, "BeldexRedeemed"}
    /\ bDb \in BobComplete \ {"BtcRefunded"} => bPc = "stopped"
    /\ bDb = "BtcRefunded" => bPc \in {"stopped", "csave", "refund"}
    /\ bDb # "Started" /\ aDb # "Started"
    /\ aMem = "Started" => aPc \notin Unsaved
    /\ bPc = "csave" => bMem = "BtcCancelled"
    /\ bMem = "Started" => bPc = "start" /\ aDb = NoSwap /\ aMem = NoSwap /\ aPc = "stopped"

\* The states Alice can be in once she holds Bob's encrypted signature.
AliceHasEncSig ==
    {"EncSigLearned", "BtcRedeemTransactionPublished", "BtcRedeemed",
     "CancelTimelockExpired", "BtcCancelled", "BtcRefunded", "BtcPunishable",
     "BeldexRefunded", "BtcPunished"}

AliceStateInv(s) ==
    /\ s \in {"BtcRefunded", "BeldexRefunded"} => HasBeenSeen("refund")
    /\ s \in {"BtcRedeemTransactionPublished", "BtcRedeemed"} => HasBeenSeen("redeem")
    /\ s = "BtcPunished" => conf["punish"] >= FinalityConfirmations
    /\ s \notin {NoSwap, "Started", "SafelyAborted"} => HasBeenSeen("lock")
    /\ HasBeenSeen("redeem") => s \in AliceHasEncSig
    /\ bdx \in {"alice", "bob"} => s \in AliceLocked

AliceInv ==
    /\ AliceStateInv(aDb)
    /\ AliceStateInv(aMem)
    /\ aPc = "refund" => HasBeenSeen("refund") /\ aDb \in AliceCancellable
    /\ aPc = "refund" \/ (aMem = "BtcRefunded" /\ aPc = "wait") => bdx = "final"

BobStateInv(s) ==
    /\ s = "BtcRefunded" /\ ~changeOutput => HasBeenSeen("refund")
    /\ s = "BtcRedeemed" => HasBeenSeen("redeem")
    /\ s = "BeldexRedeemed" => bdx = "bob"

BobInv == BobStateInv(bDb) /\ BobStateInv(bMem)

\* The states Bob reaches only with a transfer proof.
BobHasProof == {"BeldexLockProofReceived", "BeldexLocked", "EncSigSent", "BtcRedeemed"}

\* A transfer proof, or what Bob answers to it, exists only after Alice has
\* recorded her transfer: she will not transfer again.
ProofInv ==
    "proof" \in net \/ "encsig" \in net \/ buffered
      \/ bDb \in BobHasProof \/ bMem \in BobHasProof
    => aDb \in AliceLocked /\ aMem \in AliceLocked

\* Bob's encrypted signature exists only after he has seen the BDX locked in
\* full and with all confirmations.
EncSigOut ==
    \/ "encsig" \in net
    \/ bDb \in {"BeldexLocked", "EncSigSent", "BtcRedeemed"}
    \/ bMem \in {"BeldexLocked", "EncSigSent", "BtcRedeemed"}
    \/ aDb \in {"EncSigLearned", "BtcRedeemTransactionPublished", "BtcRedeemed"}
    \/ aMem \in {"EncSigLearned", "BtcRedeemTransactionPublished", "BtcRedeemed"}
    \/ HasBeenSeen("redeem")

EncSigInv == EncSigOut => bdx \in {"final", "alice", "bob"} /\ ~shortLock

\* The inductive invariant: Atomicity with what it rests on.
IndInv ==
    /\ TypeOK
    /\ ChainInv
    /\ MemoryInv
    /\ AliceInv
    /\ BobInv
    /\ ProofInv
    /\ EncSigInv
    /\ Atomicity
=============================================================================
