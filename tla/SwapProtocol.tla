---------------------------- MODULE SwapProtocol ----------------------------
(***************************************************************************)
(* One swap as a whole: Alice's and Bob's state machines, their manual     *)
(* recovery commands, stops and resumes, the messages between them, the    *)
(* Bitcoin chain and the Beldex output.                                    *)
(***************************************************************************)
EXTENDS AliceRecovery, BobRecovery

CONSTANT ManualCommands   \* does anybody use the recovery commands?

ASSUME ManualCommandsAssumption == ManualCommands \in BOOLEAN

\* Bob has started buy-beldex: his peer is stored, the swap is not yet.
Init ==
    /\ conf = [t \in Txid |-> Unseen]
    /\ aDb = NoSwap /\ aMem = NoSwap /\ aPc = "stopped"
    /\ refundWallet = FALSE
    /\ bDb = NoSwap /\ bMem = "Started" /\ bPc = "start"
    /\ buffered = FALSE
    /\ net = {}
    /\ bdx = "none"
    /\ transfers = 0
    /\ changeOutput \in ChangeOutputs
    /\ shortLock \in ShortLocks
    /\ stops = [alice |-> 0, bob |-> 0]

\* A block includes any part of the mempool.
Mine ==
    /\ \E block \in SUBSET Txid : MineBlock(block)
    /\ UNCHANGED <<aliceVars, bobVars, net, bdxVars, scenario, stops>>

MineWith(t) ==
    /\ \E block \in SUBSET Txid : t \in block /\ MineBlock(block)
    /\ UNCHANGED <<aliceVars, bobVars, net, bdxVars, scenario, stops>>

\* The Beldex chain confirms the lock transfer.
BdxConfirm ==
    /\ \/ bdx = "pool" /\ bdx' = "confirmed"
       \/ bdx = "confirmed" /\ bdx' = "final"
    /\ UNCHANGED <<conf, aliceVars, bobVars, net, transfers, scenario, stops>>

\* A connection breaks, or a request is not answered in the ten seconds of
\* libp2p, as a proof that reaches a swap which does not read proofs any more: a
\* request or an acknowledgement is gone for good, no event loop sends it again.
\* (When Bob's event loop returns over it, that is BStop.)
LoseMessage ==
    /\ \E m \in net : net' = net \ {m}
    /\ UNCHANGED <<conf, aliceVars, bobVars, bdxVars, scenario, stops>>

AliceNext ==
    \/ AliceSwapStep
    \/ AStop
    \/ AResume
    \/ ManualCommands /\ AliceRecoveryStep

BobNext ==
    \/ BobSwapStep
    \/ BobBuffersProof
    \/ BStop
    \/ BResume
    \/ ManualCommands /\ BobRecoveryStep

Next ==
    \/ AliceNext
    \/ BobNext
    \/ Mine
    \/ BdxConfirm
    \/ LoseMessage

Spec == Init /\ [][Next]_vars

\* A running task takes its next step, a stopped one is resumed, and miners
\* include what the mempool offers.  Stops, losses and commands may happen or
\* not.
Fairness ==
    /\ WF_vars(AliceSwapStep) /\ WF_vars(AResume)
    /\ WF_vars(BobSwapStep) /\ WF_vars(BResume)
    /\ WF_vars(Mine) /\ \A t \in Txid : WF_vars(MineWith(t))
    /\ WF_vars(BdxConfirm)

FairSpec == Spec /\ Fairness

-----------------------------------------------------------------------------
(* Safety                                                                  *)

\* Every variable has the type its declaration promises; in particular no
\* step of either state machine leads outside AliceState or BobState, and no
\* task goes on from an end of the swap.
TypeOK == ConfTypeOK /\ AliceTypeOK /\ BobTypeOK /\ TaskTypeOK /\ SharedTypeOK

\* Alice gets her BDX back only when Bob took his BTC back, and Bob gets the
\* BDX only when Alice has the BTC: whatever the interleaving of the two
\* state machines, their crashes and their manual commands, nobody ends up
\* with both coins (refund_bdx needs the key TxRefund reveals, redeem_bdx the
\* one TxRedeem reveals or Alice hands out after TxPunish).
Atomicity ==
    /\ bdx = "alice" => HasBeenSeen("refund")
    /\ bdx = "bob" => HasBeenSeen("redeem") \/ HasBeenSeen("punish")

\* Alice can redeem only a swap whose BDX Bob has seen locked in full with all
\* the confirmations he asks for (BeldexLockProofReceived guards EncSigSent).
RedeemBacked ==
    HasBeenSeen("redeem") => bdx \in {"final", "bob"} /\ ~shortLock

\* What Alice's database says about Bitcoin is what happened on Bitcoin.
AliceRecordsTruth ==
    /\ aDb \in {"BtcRedeemTransactionPublished", "BtcRedeemed"} => HasBeenSeen("redeem")
    /\ aDb \in {"BtcRefunded", "BeldexRefunded"} => HasBeenSeen("refund")
    /\ aDb = "BtcPunished" => conf["punish"] >= FinalityConfirmations

\* Without change output, what Bob's database says about the end of the swap
\* is what happened on the chains.
BobRecordsTruth ==
    /\ bDb = "BtcRefunded" /\ ~changeOutput => HasBeenSeen("refund")
    /\ bDb = "BtcRedeemed" => HasBeenSeen("redeem")
    /\ bDb = "BeldexRedeemed" => bdx = "bob"

\* A swap recorded as safely aborted never touched Alice's BDX, and no swap
\* transfers them twice.
AbortIsSafe ==
    /\ aDb = "SafelyAborted" => transfers = 0
    /\ transfers <= 1

-----------------------------------------------------------------------------
(* Action properties and refinement                                        *)

\* The states Alice reaches only after she has transferred the BDX.
AliceLocked ==
    AliceState \ {"Started", "BtcLockTransactionSeen", "BtcLocked", "SafelyAborted"}

\* The states Bob reaches only after he has published TxLock.
BobLocked == BobState \ {"Started", "SwapSetupCompleted", "SafelyAborted"}

\* The cancel half of cancel_and_refund accepts a swap that is recorded as
\* refunded and overwrites that end.
BobReopens ==
    /\ bDb = "BtcRefunded" /\ bPc \in {"stopped", "csave"}
    /\ bDb' \in {"BtcCancelled", "BtcPunished"}

NoRegress ==
    /\ aDb \in AliceLocked => aDb' \in AliceLocked
    /\ aDb \in AliceComplete => aDb' = aDb
    /\ bDb \in BobLocked => bDb' \in BobLocked
    /\ bDb \in {"BtcRedeemed", "BtcPunished"} => bDb' \in {bDb, "BeldexRedeemed"}
    /\ bDb \in BobComplete => bDb' = bDb \/ BobReopens

\* However tasks, crashes, resumes and manual commands interleave: once a party
\* has recorded that its coins are locked it never again records a state from
\* before, what a redeem or a punishment is recorded for is only followed by
\* BeldexRedeemed, and a recorded end of the swap is overwritten in one case
\* only: Bob's BtcRefunded by his own command cancel_and_refund.
RecordsNeverRegress == [][NoRegress]_vars

\* Where the coins are, read off the two chains.
BtcNow ==
    IF HasBeenSeen("punish") THEN "punished"
    ELSE IF HasBeenSeen("refund") THEN "refunded"
    ELSE IF HasBeenSeen("redeem") THEN "redeemed"
    ELSE IF HasBeenSeen("cancel") THEN "cancelled"
    ELSE IF HasBeenSeen("lock") THEN "locked" ELSE "bob"

BdxNow ==
    CASE bdx = "none"  -> "alice"
      [] bdx = "alice" -> "returned"
      [] bdx = "bob"   -> "bought"
      [] OTHER         -> "locked"

Contract == INSTANCE SwapContract WITH btc <- BtcNow, coin <- BdxNow

\* The two state machines together implement the atomic swap.
ImplementsContract == Contract!ContractSpec

-----------------------------------------------------------------------------
(* Liveness                                                                *)

\* Alice always reaches the end of a swap she started: every wait of her
\* state machine has a timelock behind it.
AliceTerminates == (aMem = "Started") ~> (aDb \in AliceComplete)

\* Once Alice has locked BDX, Bob ends up with the BDX or with his bitcoin: by
\* redeeming, by refunding, or by cooperative redeem after a punishment.  The
\* one exception is a TxRedeem he missed: he looks at its status only once in
\* EncSigSent and then lets the subscription race the cancel timelock.
BobSettles ==
    (bdx = "pool") ~>
        \/ bDb \in {"BtcRefunded", "BeldexRedeemed"}
        \/ bDb = "BtcCancelled" /\ HasBeenSeen("redeem")
=============================================================================
