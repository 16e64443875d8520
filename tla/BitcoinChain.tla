---------------------------- MODULE BitcoinChain ----------------------------
(***************************************************************************)
(* The Bitcoin side of one swap: the five transactions both parties can    *)
(* construct, how deep each is in the chain, which of them the network     *)
(* accepts, and how the wallet turns depths into the epoch of the swap.    *)
(*                                                                         *)
(* The chain itself (mempool, miners) is external to the repository; it is *)
(* modelled from how swap/src/bitcoin builds and watches transactions.     *)
(* There is one mempool, no replacement, no eviction and no reorganisation.*)
(***************************************************************************)
EXTENDS Integers

CONSTANTS
    CancelTimelock,        \* env::Config::bitcoin_cancel_timelock, in blocks
    PunishTimelock,        \* env::Config::bitcoin_punish_timelock, in blocks
    FinalityConfirmations  \* env::Config::bitcoin_finality_confirmations

ASSUME TimelockAssumption ==
    /\ CancelTimelock \in Nat \ {0}
    /\ PunishTimelock \in Nat \ {0}
    /\ FinalityConfirmations \in Nat \ {0}

VARIABLE conf   \* Txid -> -1 unseen, 0 in the mempool, n confirmations

Txid == {"lock", "redeem", "cancel", "refund", "punish"}

Unseen == -1
InMempool == 0

\* Confirmations are counted up to the largest number any test in the code
\* distinguishes; a deeper transaction passes the same tests.
MaxConf ==
    LET cp == IF CancelTimelock >= PunishTimelock
              THEN CancelTimelock ELSE PunishTimelock
    IN  IF cp >= FinalityConfirmations THEN cp ELSE FinalityConfirmations

ConfTypeOK == conf \in [Txid -> Unseen .. MaxConf]

-----------------------------------------------------------------------------
(* What the wallet reads: ScriptStatus and the epoch                       *)

HasBeenSeen(t) == conf[t] >= InMempool

IsConfirmedWith(t, target) == conf[t] >= 1 /\ conf[t] >= target

\* Mutant: off by one, a transaction is final one confirmation too early.
IsFinalEarly(t) == HasBeenSeen(t) /\ conf[t] + 1 >= FinalityConfirmations

IsFinal(t) == IsConfirmedWith(t, FinalityConfirmations)

CancelTimelockExpires == IsConfirmedWith("lock", CancelTimelock)

PunishTimelockExpires == IsConfirmedWith("cancel", PunishTimelock)

Epoch == {"None", "Cancel", "Punish"}

CurrentEpoch ==
    IF PunishTimelockExpires THEN "Punish"
    ELSE IF CancelTimelockExpires THEN "Cancel" ELSE "None"

-----------------------------------------------------------------------------
(* What the network accepts                                                *)

\* TxRedeem and TxCancel spend TxLock; TxRefund and TxPunish spend TxCancel.
InputReady(t) ==
    CASE t = "lock"   -> TRUE
      [] t = "redeem" -> HasBeenSeen("lock") /\ ~HasBeenSeen("cancel")
      [] t = "cancel" -> CancelTimelockExpires /\ ~HasBeenSeen("redeem")
      [] t = "refund" -> HasBeenSeen("cancel") /\ ~HasBeenSeen("punish")
      [] t = "punish" -> PunishTimelockExpires /\ ~HasBeenSeen("refund")

\* A transaction that is already in the mempool is accepted again, one that is
\* already in a block is refused (RPC_VERIFY_ALREADY_IN_CHAIN).
BroadcastOk(t) ==
    \/ conf[t] = InMempool
    \/ conf[t] = Unseen /\ InputReady(t)

Published(t) == [conf EXCEPT ![t] = InMempool]

-----------------------------------------------------------------------------
(* Mining: a block takes any part of the mempool, parents before children  *)

Parent(t) == IF t \in {"redeem", "cancel"} THEN "lock" ELSE "cancel"

InMempoolTxs == {t \in Txid : conf[t] = InMempool}

Includable(block) ==
    \A t \in block :
        t = "lock" \/ conf[Parent(t)] >= 1 \/ Parent(t) \in block

Mined(block) ==
    [t \in Txid |->
        IF t \in block THEN 1
        ELSE IF conf[t] >= 1 /\ conf[t] < MaxConf THEN conf[t] + 1
        ELSE conf[t]]

MineBlock(block) ==
    /\ block \subseteq InMempoolTxs
    /\ Includable(block)
    /\ conf' = Mined(block)
=============================================================================
