------------------------------ MODULE SwapProofs ------------------------------
(***************************************************************************)
(* TLAPS proofs about SwapProtocol, for all timelocks, all numbers of stops*)
(* and every choice of the environment constants: what publishing and      *)
(* mining do to the chain, type correctness, and the safety properties,    *)
(* which all follow from IndInv of SwapInvariant.                          *)
(***************************************************************************)
EXTENDS SwapInvariant, TLAPS

-----------------------------------------------------------------------------
(* The Bitcoin chain                                                       *)

\* Confirmations can be counted: the cap is a positive number.
LEMMA MaxConfPositive == MaxConf \in Nat /\ MaxConf >= 1
BY TimelockAssumption DEF MaxConf

\* Broadcasting a transaction shows it to everybody and changes no other.
LEMMA PublishLemma ==
    ASSUME ConfTypeOK, NEW t \in Txid, BroadcastOk(t), conf' = Published(t)
    PROVE  /\ ConfTypeOK'
           /\ conf'[t] = 0
           /\ conf[t] = 0 \/ (conf[t] = -1 /\ InputReady(t))
           /\ \A u \in Txid : u # t => conf'[u] = conf[u]
BY MaxConfPositive DEF ConfTypeOK, BroadcastOk, Published, Unseen, InMempool

\* A transaction the network accepts spends an output that is there and not
\* yet spent: whichever is broadcast, ChainInv survives.
LEMMA PublishKeepsChain ==
    ASSUME ConfTypeOK, ChainInv, NEW t \in Txid, BroadcastOk(t), conf' = Published(t)
    PROVE  ChainInv'
<1>1. conf[t] = 0 => conf' = conf
  BY DEF Published, InMempool, ConfTypeOK
<1>2. CASE conf[t] = 0
  BY <1>1, <1>2 DEF ChainInv, HasBeenSeen
<1>3. CASE conf[t] = -1 /\ InputReady(t)
  BY <1>3, PublishLemma
     DEF Txid, ConfTypeOK, ChainInv, HasBeenSeen, InMempool, InputReady,
         CancelTimelockExpires, PunishTimelockExpires, IsConfirmedWith
<1> QED BY <1>2, <1>3, PublishLemma

\* A block shows nothing new, hides nothing and takes away no confirmation.
LEMMA MineLemma ==
    ASSUME ConfTypeOK, NEW block \in SUBSET Txid, MineBlock(block)
    PROVE  /\ ConfTypeOK'
           /\ \A u \in Txid : /\ conf'[u] >= conf[u]
                              /\ conf'[u] >= 0 <=> conf[u] >= 0
BY MaxConfPositive
   DEF ConfTypeOK, MineBlock, Mined, InMempoolTxs, Unseen, InMempool

-----------------------------------------------------------------------------
(* Type correctness                                                        *)

\* What the event loops send is a message.
LEMMA MessageNames ==
    /\ "proof" \in Message /\ "proofAck" \in Message
    /\ "encsig" \in Message /\ "encsigAck" \in Message
BY DEF Message

\* Everything that is no step of a state machine or of a manual command: stops
\* and resumes, proofs the event loop handles by itself, chains and network.
EnvironmentStep ==
    \/ AStop \/ AResume \/ BStop \/ BResume
    \/ BobBuffersProof
    \/ Mine \/ BdxConfirm \/ LoseMessage

\* Every step is of one of these kinds.
LEMMA StepKinds ==
    ASSUME Next
    PROVE  \/ AliceSwapStep \/ AliceRecoveryStep
           \/ BobSwapStep \/ BobRecoveryStep
           \/ EnvironmentStep
BY DEF Next, AliceNext, BobNext, EnvironmentStep

\* Types are kept by a step of Alice's state machine.
LEMMA AliceSwapType == ASSUME TypeOK, AliceSwapStep PROVE TypeOK'
<1> USE DEF TypeOK, aliceVars, bobVars, bdxVars, scenario, AAt, ABecome,
            AGoto, AHalt, AFail, OnlyAlice, APublish, ACheckEpoch,
            AliceComplete, AliceState, BobComplete, BobState, NoSwap, AlicePc,
            BobPc, Unsaved, BdxStatus, Txid
<1>1. CASE AliceStarted
  BY <1>1 DEF AliceStarted, ConfTypeOK, AliceTypeOK, BobTypeOK, TaskTypeOK, SharedTypeOK
<1>2. CASE AliceBtcLockTransactionSeen
  BY <1>2
     DEF AliceBtcLockTransactionSeen, ConfTypeOK, AliceTypeOK, BobTypeOK,
         TaskTypeOK, SharedTypeOK
<1>3. CASE AliceBtcLocked
  BY <1>3 DEF AliceBtcLocked, ConfTypeOK, AliceTypeOK, BobTypeOK, TaskTypeOK, SharedTypeOK
<1>4. CASE AliceBeldexLockTransactionSent
  BY <1>4
     DEF AliceBeldexLockTransactionSent, ConfTypeOK, AliceTypeOK, BobTypeOK,
         TaskTypeOK, SharedTypeOK
<1>5. CASE AliceBeldexLocked
  BY <1>5, MessageNames
     DEF AliceBeldexLocked, ConfTypeOK, AliceTypeOK, BobTypeOK, TaskTypeOK, SharedTypeOK
<1>6. CASE AliceBeldexLockTransferProofSent
  BY <1>6, MessageNames
     DEF AliceBeldexLockTransferProofSent, ConfTypeOK, AliceTypeOK, BobTypeOK,
         TaskTypeOK, SharedTypeOK
<1>7. CASE AliceEncSigLearned
  <2> USE <1>7 DEF AliceEncSigLearned
  <2>1. ConfTypeOK'
    BY PublishLemma DEF ConfTypeOK
  <2>2. AliceTypeOK'
    BY DEF AliceTypeOK
  <2>3. BobTypeOK'
    BY DEF BobTypeOK
  <2>4. SharedTypeOK'
    BY DEF SharedTypeOK
  <2>5. TaskTypeOK'
    BY DEF TaskTypeOK, AliceTypeOK, BobTypeOK
  <2> QED BY <2>1, <2>2, <2>3, <2>4, <2>5
<1>8. CASE AliceBtcRedeemTransactionPublished
  BY <1>8
     DEF AliceBtcRedeemTransactionPublished, ConfTypeOK, AliceTypeOK,
         BobTypeOK, TaskTypeOK, SharedTypeOK
<1>9. CASE AliceCancelTimelockExpired
  <2> USE <1>9 DEF AliceCancelTimelockExpired
  <2>1. ConfTypeOK'
    BY PublishLemma DEF ConfTypeOK
  <2>2. AliceTypeOK'
    BY DEF AliceTypeOK
  <2>3. BobTypeOK'
    BY DEF BobTypeOK
  <2>4. SharedTypeOK'
    BY DEF SharedTypeOK
  <2>5. TaskTypeOK'
    BY DEF TaskTypeOK, AliceTypeOK, BobTypeOK
  <2> QED BY <2>1, <2>2, <2>3, <2>4, <2>5
<1>10. CASE AliceBtcCancelled
  BY <1>10
     DEF AliceBtcCancelled, ConfTypeOK, AliceTypeOK, BobTypeOK, TaskTypeOK, SharedTypeOK
<1>11. CASE AliceBtcRefunded
  <2> USE <1>11 DEF AliceBtcRefunded, GenerateRefundWallet, SweepRefundWallet
  <2>1. ConfTypeOK'
    BY DEF ConfTypeOK
  <2>2. AliceTypeOK'
    BY DEF AliceTypeOK
  <2>3. BobTypeOK'
    BY DEF BobTypeOK
  <2>4. SharedTypeOK'
    BY DEF SharedTypeOK
  <2>5. TaskTypeOK'
    BY DEF TaskTypeOK, AliceTypeOK, BobTypeOK
  <2> QED BY <2>1, <2>2, <2>3, <2>4, <2>5
<1>12. CASE AliceBtcPunishable
  <2> USE <1>12 DEF AliceBtcPunishable, IsFinal
  <2>1. ConfTypeOK'
    BY PublishLemma DEF ConfTypeOK
  <2>2. AliceTypeOK'
    BY DEF AliceTypeOK
  <2>3. BobTypeOK'
    BY DEF BobTypeOK
  <2>4. SharedTypeOK'
    BY DEF SharedTypeOK
  <2>5. TaskTypeOK'
    BY DEF TaskTypeOK, AliceTypeOK, BobTypeOK
  <2> QED BY <2>1, <2>2, <2>3, <2>4, <2>5
<1>13. CASE ASave
  BY <1>13 DEF ASave, ConfTypeOK, AliceTypeOK, BobTypeOK, TaskTypeOK, SharedTypeOK
<1> QED
  BY <1>1, <1>2, <1>3, <1>4, <1>5, <1>6, <1>7, <1>8, <1>9, <1>10, <1>11,
     <1>12, <1>13
     DEF AliceSwapStep

\* Types are kept by a manual command of the ASB.
LEMMA AliceRecoveryType == ASSUME TypeOK, AliceRecoveryStep PROVE TypeOK'
<1> USE DEF TypeOK, aliceVars, bobVars, bdxVars, scenario, AIdleIn, AManual,
            AGoto, AHalt, AFail, OnlyAlice, APublish, AliceCancellable,
            AliceComplete, AliceState, BobComplete, BobState, NoSwap, AlicePc,
            BobPc, Unsaved, BdxStatus, Txid
<1>1. CASE AliceManualCancel
  <2> USE <1>1 DEF AliceManualCancel
  <2>1. ConfTypeOK'
    BY PublishLemma
  <2>2. AliceTypeOK'
    BY DEF AliceTypeOK
  <2>3. BobTypeOK'
    BY DEF BobTypeOK
  <2>4. SharedTypeOK'
    BY DEF SharedTypeOK
  <2>5. TaskTypeOK'
    BY DEF TaskTypeOK, AliceTypeOK, BobTypeOK
  <2> QED BY <2>1, <2>2, <2>3, <2>4, <2>5
<1>2. CASE AliceManualRefund
  <2> USE <1>2 DEF AliceManualRefund, FetchTxRefund, GenerateRefundWallet,
                   SweepRefundWallet
  <2>1. ConfTypeOK'
    BY DEF ConfTypeOK
  <2>2. AliceTypeOK'
    BY DEF AliceTypeOK
  <2>3. BobTypeOK'
    BY DEF BobTypeOK
  <2>4. SharedTypeOK'
    BY DEF SharedTypeOK
  <2>5. TaskTypeOK'
    BY DEF TaskTypeOK, AliceTypeOK, BobTypeOK
  <2> QED BY <2>1, <2>2, <2>3, <2>4, <2>5
<1>3. CASE AliceManualPunish
  <2> USE <1>3 DEF AliceManualPunish, IsFinal
  <2>1. ConfTypeOK'
    BY PublishLemma DEF ConfTypeOK
  <2>2. AliceTypeOK'
    BY DEF AliceTypeOK
  <2>3. BobTypeOK'
    BY DEF BobTypeOK
  <2>4. SharedTypeOK'
    BY DEF SharedTypeOK
  <2>5. TaskTypeOK'
    BY DEF TaskTypeOK, AliceTypeOK, BobTypeOK
  <2> QED BY <2>1, <2>2, <2>3, <2>4, <2>5
<1>4. CASE AliceManualRedeem
  <2> USE <1>4 DEF AliceManualRedeem, IsFinal
  <2>1. ConfTypeOK'
    BY PublishLemma DEF ConfTypeOK
  <2>2. AliceTypeOK'
    BY DEF AliceTypeOK
  <2>3. BobTypeOK'
    BY DEF BobTypeOK
  <2>4. SharedTypeOK'
    BY DEF SharedTypeOK
  <2>5. TaskTypeOK'
    BY DEF TaskTypeOK, AliceTypeOK, BobTypeOK
  <2> QED BY <2>1, <2>2, <2>3, <2>4, <2>5
<1>5. CASE AliceManualSafelyAbort
  BY <1>5
     DEF AliceManualSafelyAbort, ConfTypeOK, AliceTypeOK, BobTypeOK,
         TaskTypeOK, SharedTypeOK
<1> QED
  BY <1>1, <1>2, <1>3, <1>4, <1>5 DEF AliceRecoveryStep

\* Types are kept by a step of Bob's state machine.
LEMMA BobSwapType == ASSUME TypeOK, BobSwapStep PROVE TypeOK'
<1> USE DEF TypeOK, aliceVars, bobVars, bdxVars, scenario, BAt, BBecome,
            BGoto, BHalt, BFail, OnlyBob, BPublish, BCheckEpoch, BExpire,
            AliceComplete, AliceState, BobComplete, BobState, NoSwap, AlicePc,
            BobPc, Unsaved, BdxStatus, Txid
<1>1. CASE BobStarted
  BY <1>1 DEF BobStarted, ConfTypeOK, AliceTypeOK, BobTypeOK, TaskTypeOK, SharedTypeOK
<1>2. CASE BobSwapSetupCompleted
  <2> USE <1>2 DEF BobSwapSetupCompleted
  <2>1. ConfTypeOK'
    BY PublishLemma DEF ConfTypeOK
  <2>2. AliceTypeOK'
    BY DEF AliceTypeOK
  <2>3. BobTypeOK'
    BY DEF BobTypeOK
  <2>4. SharedTypeOK'
    BY DEF SharedTypeOK
  <2>5. TaskTypeOK'
    BY DEF TaskTypeOK, AliceTypeOK, BobTypeOK
  <2> QED BY <2>1, <2>2, <2>3, <2>4, <2>5
<1>3. CASE BobBtcLocked
  BY <1>3, MessageNames
     DEF BobBtcLocked, ConfTypeOK, AliceTypeOK, BobTypeOK, TaskTypeOK, SharedTypeOK
<1>4. CASE BobBeldexLockProofReceived
  BY <1>4
     DEF BobBeldexLockProofReceived, ConfTypeOK, AliceTypeOK, BobTypeOK,
         TaskTypeOK, SharedTypeOK
<1>5. CASE BobBeldexLocked
  BY <1>5, MessageNames
     DEF BobBeldexLocked, BCheckForTxRedeem, ConfTypeOK, AliceTypeOK,
         BobTypeOK, TaskTypeOK, SharedTypeOK
<1>6. CASE BobEncSigSent
  BY <1>6
     DEF BobEncSigSent, BCheckForTxRedeem, ConfTypeOK, AliceTypeOK, BobTypeOK,
         TaskTypeOK, SharedTypeOK
<1>7. CASE BobBtcRedeemed
  BY <1>7
     DEF BobBtcRedeemed, BSweepBeldex, ConfTypeOK, AliceTypeOK, BobTypeOK,
         TaskTypeOK, SharedTypeOK
<1>8. CASE BobCancelTimelockExpired
  <2> USE <1>8 DEF BobCancelTimelockExpired, CheckForTxCancel
  <2>1. ConfTypeOK'
    BY PublishLemma DEF ConfTypeOK
  <2>2. AliceTypeOK'
    BY DEF AliceTypeOK
  <2>3. BobTypeOK'
    BY DEF BobTypeOK
  <2>4. SharedTypeOK'
    BY DEF SharedTypeOK
  <2>5. TaskTypeOK'
    BY DEF TaskTypeOK, AliceTypeOK, BobTypeOK
  <2> QED BY <2>1, <2>2, <2>3, <2>4, <2>5
<1>9. CASE BobBtcCancelled
  <2> USE <1>9 DEF BobBtcCancelled, PublishRefundBtc, CheckForTxRefund
  <2>1. ConfTypeOK'
    BY PublishLemma DEF ConfTypeOK
  <2>2. AliceTypeOK'
    BY DEF AliceTypeOK
  <2>3. BobTypeOK'
    BY DEF BobTypeOK
  <2>4. SharedTypeOK'
    BY DEF SharedTypeOK
  <2>5. TaskTypeOK'
    BY DEF TaskTypeOK, AliceTypeOK, BobTypeOK
  <2> QED BY <2>1, <2>2, <2>3, <2>4, <2>5
<1>10. CASE BobBtcPunished
  BY <1>10
     DEF BobBtcPunished, BSweepBeldex, ConfTypeOK, AliceTypeOK, BobTypeOK,
         TaskTypeOK, SharedTypeOK
<1>11. CASE BSave
  BY <1>11 DEF BSave, ConfTypeOK, AliceTypeOK, BobTypeOK, TaskTypeOK, SharedTypeOK
<1> QED
  BY <1>1, <1>2, <1>3, <1>4, <1>5, <1>6, <1>7, <1>8, <1>9, <1>10, <1>11
     DEF BobSwapStep

\* Types are kept by one half of Bob's cancel_and_refund.
LEMMA BobRecoveryType == ASSUME TypeOK, BobRecoveryStep PROVE TypeOK'
<1> USE DEF TypeOK, aliceVars, bobVars, bdxVars, scenario, OnlyBob, BPublish,
            BStore, BStoreIfPunished, BThenRefund, BobCancellable,
            AliceComplete, AliceState, BobComplete, BobState, NoSwap, AlicePc,
            BobPc, Unsaved, BdxStatus, Txid
<1>1. CASE BobManualCancel
  <2> USE <1>1 DEF BobManualCancel, CheckForTxCancel
  <2>1. ConfTypeOK'
    BY PublishLemma DEF ConfTypeOK
  <2>2. AliceTypeOK'
    BY DEF AliceTypeOK
  <2>3. BobTypeOK'
    BY DEF BobTypeOK
  <2>4. SharedTypeOK'
    BY DEF SharedTypeOK
  <2>5. TaskTypeOK'
    BY DEF TaskTypeOK, AliceTypeOK, BobTypeOK
  <2> QED BY <2>1, <2>2, <2>3, <2>4, <2>5
<1>2. CASE BobManualRefund
  <2> USE <1>2 DEF BobManualRefund, PublishRefundBtc, CheckForTxRefund
  <2>1. ConfTypeOK'
    BY PublishLemma DEF ConfTypeOK
  <2>2. AliceTypeOK'
    BY DEF AliceTypeOK
  <2>3. BobTypeOK'
    BY DEF BobTypeOK
  <2>4. SharedTypeOK'
    BY DEF SharedTypeOK
  <2>5. TaskTypeOK'
    BY DEF TaskTypeOK, AliceTypeOK, BobTypeOK
  <2> QED BY <2>1, <2>2, <2>3, <2>4, <2>5
<1> QED
  BY <1>1, <1>2 DEF BobRecoveryStep

\* Types are kept by everything else that happens around the two tasks.
LEMMA EnvironmentType == ASSUME TypeOK, EnvironmentStep PROVE TypeOK'
<1> USE DEF TypeOK, aliceVars, bobVars, bdxVars, scenario, AHalt, BHalt,
            AGoto, BGoto, OnlyAlice, OnlyBob, AliceComplete, AliceState,
            BobComplete, BobState, NoSwap, AlicePc, BobPc, Unsaved, BdxStatus, Txid
<1>1. CASE AStop
  BY <1>1, EnvironmentAssumption
     DEF AStop, ConfTypeOK, AliceTypeOK, BobTypeOK, TaskTypeOK, SharedTypeOK
<1>2. CASE AResume
  BY <1>2 DEF AResume, ConfTypeOK, AliceTypeOK, BobTypeOK, TaskTypeOK, SharedTypeOK
<1>3. CASE BStop
  BY <1>3, EnvironmentAssumption
     DEF BStop, ConfTypeOK, AliceTypeOK, BobTypeOK, TaskTypeOK, SharedTypeOK
<1>4. CASE BResume
  BY <1>4 DEF BResume, ConfTypeOK, AliceTypeOK, BobTypeOK, TaskTypeOK, SharedTypeOK
<1>5. CASE BobBuffersProof
  BY <1>5, MessageNames
     DEF BobBuffersProof, ConfTypeOK, AliceTypeOK, BobTypeOK, TaskTypeOK, SharedTypeOK
<1>6. CASE Mine
  <2> USE <1>6 DEF Mine
  <2>1. ConfTypeOK'
    BY MineLemma
  <2>2. AliceTypeOK'
    BY DEF AliceTypeOK
  <2>3. BobTypeOK'
    BY DEF BobTypeOK
  <2>4. SharedTypeOK'
    BY DEF SharedTypeOK
  <2>5. TaskTypeOK'
    BY DEF TaskTypeOK, AliceTypeOK, BobTypeOK
  <2> QED BY <2>1, <2>2, <2>3, <2>4, <2>5
<1>7. CASE BdxConfirm
  BY <1>7 DEF BdxConfirm, ConfTypeOK, AliceTypeOK, BobTypeOK, TaskTypeOK, SharedTypeOK
<1>8. CASE LoseMessage
  BY <1>8 DEF LoseMessage, ConfTypeOK, AliceTypeOK, BobTypeOK, TaskTypeOK, SharedTypeOK
<1> QED
  BY <1>1, <1>2, <1>3, <1>4, <1>5, <1>6, <1>7, <1>8 DEF EnvironmentStep

\* Init sets every variable to a value of its type.
LEMMA InitType == Init => TypeOK
<1> SUFFICES ASSUME Init PROVE TypeOK
  OBVIOUS
<1>1. ConfTypeOK
  BY MaxConfPositive DEF Init, ConfTypeOK, Unseen
<1>2. AliceTypeOK /\ BobTypeOK
  BY DEF Init, AliceTypeOK, BobTypeOK, AlicePc, BobPc, BobState
<1>3. SharedTypeOK
  BY EnvironmentAssumption DEF Init, SharedTypeOK, BdxStatus
<1>4. TaskTypeOK
  BY DEF Init, TaskTypeOK, Unsaved, BobState, BobComplete
<1> QED BY <1>1, <1>2, <1>3, <1>4 DEF TypeOK

\* TypeOK is inductive by itself.
LEMMA StepType == TypeOK /\ [Next]_vars => TypeOK'
<1> SUFFICES ASSUME TypeOK, [Next]_vars PROVE TypeOK'
  OBVIOUS
<1>1. CASE Next
  BY <1>1, StepKinds, AliceSwapType, AliceRecoveryType, BobSwapType,
     BobRecoveryType, EnvironmentType
<1>2. CASE UNCHANGED vars
  BY <1>2 DEF vars, TypeOK, ConfTypeOK, AliceTypeOK, BobTypeOK, TaskTypeOK, SharedTypeOK
<1> QED BY <1>1, <1>2

\* No behaviour of the swap leaves the types: neither state machine, resume or
\* manual command ever reaches a state outside its enumeration, and no task
\* runs on from an end of the swap.
THEOREM TypeCorrect == Spec => []TypeOK
BY InitType, StepType, PTL DEF Spec

-----------------------------------------------------------------------------
(* IndInv is inductive                                                     *)

\* The inductive invariant is kept by a step of Alice's state machine.
LEMMA AliceSwapInd == ASSUME IndInv, TypeOK', AliceSwapStep PROVE IndInv'
<1> USE DEF IndInv, TypeOK, ConfTypeOK, AliceTypeOK, BobTypeOK, SharedTypeOK,
            aliceVars, bobVars, bdxVars, scenario, AAt, ABecome, AGoto, AHalt,
            AFail, OnlyAlice, APublish, ACheckEpoch, Unsaved, AliceComplete,
            AliceState, BobComplete, BobState, NoSwap, AliceLocked, BobLocked,
            AliceHasEncSig, BobHasProof, AliceCancellable, Txid, HasBeenSeen,
            InMempool, Unseen
<1>1. CASE AliceStarted
  BY <1>1
     DEF AliceStarted, ChainInv, MemoryInv, AliceInv, AliceStateInv, BobInv,
         BobStateInv, ProofInv, EncSigInv, EncSigOut, Atomicity
<1>2. CASE AliceBtcLockTransactionSeen
  BY <1>2
     DEF AliceBtcLockTransactionSeen, ChainInv, MemoryInv, AliceInv,
         AliceStateInv, BobInv, BobStateInv, ProofInv, EncSigInv, EncSigOut,
         Atomicity
<1>3. CASE AliceBtcLocked
  BY <1>3
     DEF AliceBtcLocked, ChainInv, MemoryInv, AliceInv, AliceStateInv, BobInv,
         BobStateInv, ProofInv, EncSigInv, EncSigOut, Atomicity
<1>4. CASE AliceBeldexLockTransactionSent
  BY <1>4
     DEF AliceBeldexLockTransactionSent, ChainInv, MemoryInv, AliceInv,
         AliceStateInv, BobInv, BobStateInv, ProofInv, EncSigInv, EncSigOut,
         Atomicity
<1>5. CASE AliceBeldexLocked
  BY <1>5
     DEF AliceBeldexLocked, ChainInv, MemoryInv, AliceInv, AliceStateInv,
         BobInv, BobStateInv, ProofInv, EncSigInv, EncSigOut, Atomicity
<1>6. CASE AliceBeldexLockTransferProofSent
  BY <1>6
     DEF AliceBeldexLockTransferProofSent, ChainInv, MemoryInv, AliceInv,
         AliceStateInv, BobInv, BobStateInv, ProofInv, EncSigInv, EncSigOut,
         Atomicity
<1>7. CASE AliceEncSigLearned
  <2> USE <1>7 DEF AliceEncSigLearned
  <2>1. ChainInv'
    BY PublishKeepsChain DEF ChainInv
  <2>2. MemoryInv'
    BY DEF MemoryInv, TaskTypeOK
  <2>3. AliceInv'
    BY PublishLemma DEF MemoryInv, AliceInv, AliceStateInv
  <2>4. BobInv'
    BY PublishLemma DEF BobInv, BobStateInv
  <2>5. ProofInv'
    BY DEF ProofInv
  <2>6. EncSigInv'
    BY DEF EncSigInv, EncSigOut
  <2>7. Atomicity'
    BY PublishLemma DEF Atomicity
  <2> QED BY <2>1, <2>2, <2>3, <2>4, <2>5, <2>6, <2>7 DEF IndInv
<1>8. CASE AliceBtcRedeemTransactionPublished
  BY <1>8
     DEF AliceBtcRedeemTransactionPublished, ChainInv, MemoryInv, AliceInv,
         AliceStateInv, BobInv, BobStateInv, ProofInv, EncSigInv, EncSigOut,
         Atomicity
<1>9. CASE AliceCancelTimelockExpired
  <2> USE <1>9 DEF AliceCancelTimelockExpired
  <2>1. ChainInv'
    BY PublishKeepsChain DEF ChainInv
  <2>2. MemoryInv'
    BY DEF MemoryInv, TaskTypeOK
  <2>3. AliceInv'
    BY PublishLemma DEF AliceInv, AliceStateInv
  <2>4. BobInv'
    BY PublishLemma DEF BobInv, BobStateInv
  <2>5. ProofInv'
    BY DEF ProofInv
  <2>6. EncSigInv'
    BY PublishLemma DEF EncSigInv, EncSigOut
  <2>7. Atomicity'
    BY PublishLemma DEF Atomicity
  <2> QED BY <2>1, <2>2, <2>3, <2>4, <2>5, <2>6, <2>7 DEF IndInv
<1>10. CASE AliceBtcCancelled
  BY <1>10
     DEF AliceBtcCancelled, ChainInv, MemoryInv, AliceInv, AliceStateInv,
         BobInv, BobStateInv, ProofInv, EncSigInv, EncSigOut, Atomicity
<1>11. CASE AliceBtcRefunded
  BY <1>11
     DEF AliceBtcRefunded, GenerateRefundWallet, SweepRefundWallet, ChainInv,
         MemoryInv, AliceInv, AliceStateInv, BobInv, BobStateInv, ProofInv,
         EncSigInv, EncSigOut, Atomicity
<1>12. CASE AliceBtcPunishable
  <2> USE <1>12 DEF AliceBtcPunishable, IsFinal
  <2>1. ChainInv'
    BY PublishKeepsChain DEF ChainInv
  <2>2. MemoryInv'
    BY DEF MemoryInv, TaskTypeOK
  <2>3. AliceInv'
    BY PublishLemma DEF MemoryInv, AliceInv, AliceStateInv, IsConfirmedWith
  <2>4. BobInv'
    BY PublishLemma DEF BobInv, BobStateInv
  <2>5. ProofInv'
    BY DEF ProofInv
  <2>6. EncSigInv'
    BY PublishLemma DEF EncSigInv, EncSigOut
  <2>7. Atomicity'
    BY PublishLemma DEF Atomicity
  <2> QED BY <2>1, <2>2, <2>3, <2>4, <2>5, <2>6, <2>7 DEF IndInv
<1>13. CASE ASave
  BY <1>13
     DEF ASave, ChainInv, MemoryInv, AliceInv, AliceStateInv, BobInv,
         BobStateInv, ProofInv, EncSigInv, EncSigOut, Atomicity
<1> QED
  BY <1>1, <1>2, <1>3, <1>4, <1>5, <1>6, <1>7, <1>8, <1>9, <1>10, <1>11,
     <1>12, <1>13
     DEF AliceSwapStep

\* The inductive invariant is kept by a manual command of the ASB.
LEMMA AliceRecoveryInd == ASSUME IndInv, TypeOK', AliceRecoveryStep PROVE IndInv'
<1> USE DEF IndInv, TypeOK, ConfTypeOK, AliceTypeOK, BobTypeOK, SharedTypeOK,
            aliceVars, bobVars, bdxVars, scenario, AIdleIn, AManual, AGoto,
            AHalt, AFail, OnlyAlice, APublish, AliceCancellable, Unsaved,
            AliceComplete, AliceState, BobComplete, BobState, NoSwap,
            AliceLocked, BobLocked, AliceHasEncSig, BobHasProof, Txid, HasBeenSeen,
            InMempool, Unseen
<1>1. CASE AliceManualCancel
  <2> USE <1>1 DEF AliceManualCancel
  <2>1. ChainInv'
    BY PublishKeepsChain
  <2>2. MemoryInv'
    BY DEF MemoryInv, TaskTypeOK
  <2>3. AliceInv'
    BY PublishLemma DEF AliceInv, AliceStateInv
  <2>4. BobInv'
    BY PublishLemma DEF BobInv, BobStateInv
  <2>5. ProofInv'
    BY DEF ProofInv
  <2>6. EncSigInv'
    BY PublishLemma DEF EncSigInv, EncSigOut
  <2>7. Atomicity'
    BY PublishLemma DEF Atomicity
  <2> QED BY <2>1, <2>2, <2>3, <2>4, <2>5, <2>6, <2>7 DEF IndInv
<1>2. CASE AliceManualRefund
  BY <1>2
     DEF AliceManualRefund, FetchTxRefund, GenerateRefundWallet,
         SweepRefundWallet, ChainInv, MemoryInv, AliceInv, AliceStateInv,
         BobInv, BobStateInv, ProofInv, EncSigInv, EncSigOut, Atomicity
<1>3. CASE AliceManualPunish
  <2> USE <1>3 DEF AliceManualPunish, IsFinal
  <2>1. ChainInv'
    BY PublishKeepsChain DEF ChainInv
  <2>2. MemoryInv'
    BY DEF MemoryInv, TaskTypeOK
  <2>3. AliceInv'
    BY PublishLemma
       DEF MemoryInv, AliceInv, AliceStateInv, ChainInv, IsConfirmedWith
  <2>4. BobInv'
    BY PublishLemma DEF BobInv, BobStateInv
  <2>5. ProofInv'
    BY DEF ProofInv
  <2>6. EncSigInv'
    BY PublishLemma DEF EncSigInv, EncSigOut
  <2>7. Atomicity'
    BY PublishLemma DEF Atomicity
  <2> QED BY <2>1, <2>2, <2>3, <2>4, <2>5, <2>6, <2>7 DEF IndInv
<1>4. CASE AliceManualRedeem
  <2> USE <1>4 DEF AliceManualRedeem, IsFinal
  <2>1. ChainInv'
    BY PublishKeepsChain DEF ChainInv
  <2>2. MemoryInv'
    BY DEF MemoryInv, TaskTypeOK
  <2>3. AliceInv'
    BY PublishLemma DEF AliceInv, AliceStateInv
  <2>4. BobInv'
    BY PublishLemma DEF BobInv, BobStateInv
  <2>5. ProofInv'
    BY DEF ProofInv
  <2>6. EncSigInv'
    BY DEF EncSigInv, EncSigOut
  <2>7. Atomicity'
    BY PublishLemma DEF Atomicity
  <2> QED BY <2>1, <2>2, <2>3, <2>4, <2>5, <2>6, <2>7 DEF IndInv
<1>5. CASE AliceManualSafelyAbort
  BY <1>5
     DEF AliceManualSafelyAbort, AliceAbortable, ChainInv, MemoryInv,
         AliceInv, AliceStateInv, BobInv, BobStateInv, ProofInv, EncSigInv,
         EncSigOut, Atomicity
<1> QED
  BY <1>1, <1>2, <1>3, <1>4, <1>5 DEF AliceRecoveryStep

\* The inductive invariant is kept by a step of Bob's state machine.
LEMMA BobSwapInd == ASSUME IndInv, TypeOK', BobSwapStep PROVE IndInv'
<1> USE DEF IndInv, TypeOK, ConfTypeOK, AliceTypeOK, BobTypeOK, SharedTypeOK,
            aliceVars, bobVars, bdxVars, scenario, BAt, BBecome, BGoto, BHalt,
            BFail, OnlyBob, BPublish, BCheckEpoch, BExpire, Unsaved,
            AliceComplete, AliceState, BobComplete, BobState, NoSwap,
            AliceLocked, BobLocked, AliceHasEncSig, BobHasProof, AliceCancellable, Txid,
            HasBeenSeen, InMempool, Unseen
<1>1. CASE BobStarted
  BY <1>1
     DEF BobStarted, ChainInv, MemoryInv, AliceInv, AliceStateInv, BobInv,
         BobStateInv, ProofInv, EncSigInv, EncSigOut, Atomicity
<1>2. CASE BobSwapSetupCompleted
  BY <1>2, PublishLemma
     DEF BobSwapSetupCompleted, ChainInv, MemoryInv, AliceInv, AliceStateInv,
         BobInv, BobStateInv, ProofInv, EncSigInv, EncSigOut, Atomicity
<1>3. CASE BobBtcLocked
  BY <1>3
     DEF BobBtcLocked, ChainInv, MemoryInv, AliceInv, AliceStateInv, BobInv,
         BobStateInv, ProofInv, EncSigInv, EncSigOut, Atomicity
<1>4. CASE BobBeldexLockProofReceived
  BY <1>4
     DEF BobBeldexLockProofReceived, BdxLockAccepted, ChainInv, MemoryInv,
         AliceInv, AliceStateInv, BobInv, BobStateInv, ProofInv, EncSigInv,
         EncSigOut, Atomicity
<1>5. CASE BobBeldexLocked
  BY <1>5
     DEF BobBeldexLocked, BCheckForTxRedeem, ChainInv, MemoryInv, AliceInv,
         AliceStateInv, BobInv, BobStateInv, ProofInv, EncSigInv, EncSigOut,
         Atomicity
<1>6. CASE BobEncSigSent
  BY <1>6
     DEF BobEncSigSent, BCheckForTxRedeem, ChainInv, MemoryInv, AliceInv,
         AliceStateInv, BobInv, BobStateInv, ProofInv, EncSigInv, EncSigOut,
         Atomicity
<1>7. CASE BobBtcRedeemed
  BY <1>7
     DEF BobBtcRedeemed, BSweepBeldex, ChainInv, MemoryInv, AliceInv,
         AliceStateInv, BobInv, BobStateInv, ProofInv, EncSigInv, EncSigOut,
         Atomicity
<1>8. CASE BobCancelTimelockExpired
  <2> USE <1>8 DEF BobCancelTimelockExpired, CheckForTxCancel
  <2>1. ChainInv'
    BY PublishKeepsChain DEF ChainInv
  <2>2. MemoryInv'
    BY DEF MemoryInv, TaskTypeOK
  <2>3. AliceInv'
    BY PublishLemma DEF AliceInv, AliceStateInv
  <2>4. BobInv'
    BY DEF MemoryInv, BobInv, BobStateInv
  <2>5. ProofInv'
    BY DEF ProofInv
  <2>6. EncSigInv'
    BY PublishLemma DEF EncSigInv, EncSigOut
  <2>7. Atomicity'
    BY PublishLemma DEF Atomicity
  <2> QED BY <2>1, <2>2, <2>3, <2>4, <2>5, <2>6, <2>7 DEF IndInv
<1>9. CASE BobBtcCancelled
  <2> USE <1>9 DEF BobBtcCancelled, PublishRefundBtc, CheckForTxRefund
  <2>1. ChainInv'
    BY PublishKeepsChain DEF ChainInv
  <2>2. MemoryInv'
    BY DEF MemoryInv, TaskTypeOK
  <2>3. AliceInv'
    BY PublishLemma DEF AliceInv, AliceStateInv
  <2>4. BobInv'
    BY PublishLemma DEF BobInv, BobStateInv
  <2>5. ProofInv'
    BY DEF ProofInv
  <2>6. EncSigInv'
    BY PublishLemma DEF EncSigInv, EncSigOut
  <2>7. Atomicity'
    BY PublishLemma DEF Atomicity
  <2> QED BY <2>1, <2>2, <2>3, <2>4, <2>5, <2>6, <2>7 DEF IndInv
<1>10. CASE BobBtcPunished
  BY <1>10, TimelockAssumption
     DEF BobBtcPunished, CooperativeRedeemFulfilled, BSweepBeldex, ChainInv,
         MemoryInv, AliceInv, AliceStateInv, BobInv, BobStateInv, ProofInv,
         EncSigInv, EncSigOut, Atomicity
<1>11. CASE BSave
  BY <1>11
     DEF BSave, ChainInv, MemoryInv, AliceInv, AliceStateInv, BobInv,
         BobStateInv, ProofInv, EncSigInv, EncSigOut, Atomicity
<1> QED
  BY <1>1, <1>2, <1>3, <1>4, <1>5, <1>6, <1>7, <1>8, <1>9, <1>10, <1>11
     DEF BobSwapStep

\* The inductive invariant is kept by one half of Bob's cancel_and_refund.
LEMMA BobRecoveryInd == ASSUME IndInv, TypeOK', BobRecoveryStep PROVE IndInv'
<1> USE DEF IndInv, TypeOK, ConfTypeOK, AliceTypeOK, BobTypeOK, SharedTypeOK,
            aliceVars, bobVars, bdxVars, scenario, OnlyBob, BPublish, BStore,
            BStoreIfPunished, BThenRefund, BobCancellable, Unsaved,
            AliceComplete, AliceState, BobComplete, BobState, NoSwap,
            AliceLocked, BobLocked, AliceHasEncSig, BobHasProof, AliceCancellable, Txid,
            HasBeenSeen, InMempool, Unseen
<1>1. CASE BobManualCancel
  <2> USE <1>1 DEF BobManualCancel, CheckForTxCancel
  <2>1. ChainInv'
    BY PublishKeepsChain DEF ChainInv
  <2>2. MemoryInv'
    BY DEF MemoryInv, TaskTypeOK
  <2>3. AliceInv'
    BY PublishLemma DEF AliceInv, AliceStateInv
  <2>4. BobInv'
    BY PublishLemma DEF BobInv, BobStateInv
  <2>5. ProofInv'
    BY DEF ProofInv
  <2>6. EncSigInv'
    BY PublishLemma DEF EncSigInv, EncSigOut
  <2>7. Atomicity'
    BY PublishLemma DEF Atomicity
  <2> QED BY <2>1, <2>2, <2>3, <2>4, <2>5, <2>6, <2>7 DEF IndInv
<1>2. CASE BobManualRefund
  <2> USE <1>2 DEF BobManualRefund, PublishRefundBtc, CheckForTxRefund
  <2>1. ChainInv'
    BY PublishKeepsChain DEF ChainInv
  <2>2. MemoryInv'
    BY DEF MemoryInv, TaskTypeOK
  <2>3. AliceInv'
    BY PublishLemma DEF AliceInv, AliceStateInv
  <2>4. BobInv'
    BY PublishLemma DEF BobInv, BobStateInv
  <2>5. ProofInv'
    BY DEF ProofInv
  <2>6. EncSigInv'
    BY PublishLemma DEF EncSigInv, EncSigOut
  <2>7. Atomicity'
    BY PublishLemma DEF Atomicity
  <2> QED BY <2>1, <2>2, <2>3, <2>4, <2>5, <2>6, <2>7 DEF IndInv
<1> QED
  BY <1>1, <1>2 DEF BobRecoveryStep

\* The inductive invariant is kept by everything else that happens around the two tasks.
LEMMA EnvironmentInd == ASSUME IndInv, TypeOK', EnvironmentStep PROVE IndInv'
<1> USE DEF IndInv, TypeOK, ConfTypeOK, AliceTypeOK, BobTypeOK, SharedTypeOK,
            aliceVars, bobVars, bdxVars, scenario, AHalt, BHalt, AGoto, BGoto,
            OnlyAlice, OnlyBob, Unsaved, AliceComplete, AliceState,
            BobComplete, BobState, NoSwap, AliceLocked, BobLocked, AliceHasEncSig,
            BobHasProof, AliceCancellable, Txid, HasBeenSeen, InMempool,
            Unseen
<1>1. CASE AStop
  BY <1>1
     DEF AStop, ChainInv, MemoryInv, AliceInv, AliceStateInv, BobInv,
         BobStateInv, ProofInv, EncSigInv, EncSigOut, Atomicity
<1>2. CASE AResume
  BY <1>2
     DEF AResume, ChainInv, MemoryInv, AliceInv, AliceStateInv, BobInv,
         BobStateInv, ProofInv, EncSigInv, EncSigOut, Atomicity
<1>3. CASE BStop
  BY <1>3
     DEF BStop, ChainInv, MemoryInv, AliceInv, AliceStateInv, BobInv,
         BobStateInv, ProofInv, EncSigInv, EncSigOut, Atomicity
<1>4. CASE BResume
  BY <1>4
     DEF BResume, ChainInv, MemoryInv, AliceInv, AliceStateInv, BobInv,
         BobStateInv, ProofInv, EncSigInv, EncSigOut, Atomicity
<1>5. CASE BobBuffersProof
  BY <1>5
     DEF BobBuffersProof, ChainInv, MemoryInv, AliceInv, AliceStateInv,
         BobInv, BobStateInv, ProofInv, EncSigInv, EncSigOut, Atomicity
<1>6. CASE Mine
  BY <1>6, TimelockAssumption, MineLemma
     DEF Mine, ChainInv, MemoryInv, AliceInv, AliceStateInv, BobInv,
         BobStateInv, ProofInv, EncSigInv, EncSigOut, Atomicity
<1>7. CASE BdxConfirm
  BY <1>7
     DEF BdxConfirm, ChainInv, MemoryInv, AliceInv, AliceStateInv, BobInv,
         BobStateInv, ProofInv, EncSigInv, EncSigOut, Atomicity
<1>8. CASE LoseMessage
  BY <1>8
     DEF LoseMessage, ChainInv, MemoryInv, AliceInv, AliceStateInv, BobInv,
         BobStateInv, ProofInv, EncSigInv, EncSigOut, Atomicity
<1> QED
  BY <1>1, <1>2, <1>3, <1>4, <1>5, <1>6, <1>7, <1>8 DEF EnvironmentStep

\* The invariant holds before Bob has done anything.
LEMMA InitInd == Init => IndInv
BY InitType
   DEF Init, IndInv, ChainInv, MemoryInv, AliceInv, AliceStateInv, BobInv,
       BobStateInv, ProofInv, EncSigInv, EncSigOut, Atomicity, HasBeenSeen,
       Unseen, InMempool, Txid, NoSwap, BobHasProof, BobLocked, BobState, BobComplete

\* Every step of the swap, or of its environment, keeps the invariant.
LEMMA StepInd == IndInv /\ [Next]_vars => IndInv'
<1> SUFFICES ASSUME IndInv, [Next]_vars PROVE IndInv'
  OBVIOUS
<1>1. TypeOK'
  BY StepType DEF IndInv
<1>2. CASE Next
  BY <1>1, <1>2, StepKinds, AliceSwapInd, AliceRecoveryInd, BobSwapInd,
     BobRecoveryInd, EnvironmentInd
<1>3. CASE UNCHANGED vars
  BY <1>1, <1>3
     DEF vars, IndInv, ChainInv, MemoryInv, AliceInv, AliceStateInv, BobInv,
         BobStateInv, ProofInv, EncSigInv, EncSigOut, Atomicity, HasBeenSeen
<1> QED BY <1>2, <1>3

\* The inductive invariant holds throughout every behaviour.
THEOREM Invariance == Spec => []IndInv
BY InitInd, StepInd, PTL DEF Spec

-----------------------------------------------------------------------------
(* What follows from it                                                    *)

\* The swap is atomic: Alice has her BDX back only if Bob's refund is on its
\* way, Bob has the BDX only if Alice's redeem or punishment is.
THEOREM AtomicityHolds == Spec => []Atomicity
<1>1. IndInv => Atomicity
  BY DEF IndInv
<1> QED BY <1>1, Invariance, PTL

\* The bitcoin are never redeemed against BDX that are missing, of another
\* amount than agreed or not deep enough in the Beldex chain.
THEOREM RedeemBackedHolds == Spec => []RedeemBacked
<1>1. IndInv => RedeemBacked
  BY DEF IndInv, ChainInv, EncSigInv, EncSigOut, Atomicity, RedeemBacked
<1> QED BY <1>1, Invariance, PTL

\* What Alice's database says about the chains is true: an end is recorded only
\* when the transactions that make it one are published or final.
THEOREM AliceRecordsTruthHolds == Spec => []AliceRecordsTruth
<1>1. IndInv => AliceRecordsTruth
  BY DEF IndInv, AliceInv, AliceStateInv, AliceRecordsTruth
<1> QED BY <1>1, Invariance, PTL

\* So is what Bob's database says, also after his manual command.
THEOREM BobRecordsTruthHolds == Spec => []BobRecordsTruth
<1>1. IndInv => BobRecordsTruth
  BY DEF IndInv, BobInv, BobStateInv, BobRecordsTruth
<1> QED BY <1>1, Invariance, PTL

-----------------------------------------------------------------------------
(* What the databases keep                                                 *)

\* Alice's row is written where her task saves its state, and nowhere else.
LEMMA AliceWrites ==
    ASSUME Next
    PROVE  aDb' = aDb \/ ASave
<1> USE DEF aliceVars, bobVars, ABecome, AGoto, AHalt, AFail, OnlyAlice,
            APublish, BBecome, BGoto, BHalt, BFail, OnlyBob, BPublish
<1>1. CASE AliceSwapStep
  BY <1>1
     DEF AliceSwapStep, AliceStarted, AliceBtcLockTransactionSeen,
         AliceBtcLocked, ACheckEpoch, AliceBeldexLockTransactionSent,
         AliceBeldexLocked, AliceBeldexLockTransferProofSent,
         AliceEncSigLearned, AliceBtcRedeemTransactionPublished,
         AliceCancelTimelockExpired, AliceBtcCancelled, AliceBtcRefunded,
         GenerateRefundWallet, AliceBtcPunishable
<1>2. CASE AliceRecoveryStep
  BY <1>2
     DEF AliceRecoveryStep, AliceManualCancel, AManual, AliceManualRefund,
         GenerateRefundWallet, AliceManualPunish, AliceManualRedeem,
         AliceManualSafelyAbort
<1>3. CASE BobSwapStep
  BY <1>3
     DEF BobSwapStep, BobStarted, BobSwapSetupCompleted, BobBtcLocked,
         BExpire, BobBeldexLockProofReceived, BobBeldexLocked,
         BCheckForTxRedeem, BobEncSigSent, BobBtcRedeemed, BSweepBeldex,
         BobCancelTimelockExpired, BobBtcCancelled, PublishRefundBtc,
         BobBtcPunished, BSave
<1>4. CASE BobRecoveryStep
  BY <1>4
     DEF BobRecoveryStep, BobManualCancel, BobManualRefund, PublishRefundBtc
<1>5. CASE EnvironmentStep
  BY <1>5
     DEF EnvironmentStep, AStop, AResume, BStop, BResume, BobBuffersProof,
         Mine, BdxConfirm, LoseMessage
<1> QED BY <1>1, <1>2, <1>3, <1>4, <1>5, StepKinds

\* Bob's row is written where his task saves its state and by cancel_and_refund.
LEMMA BobWrites ==
    ASSUME Next
    PROVE  bDb' = bDb \/ BSave \/ BobRecoveryStep
<1> USE DEF aliceVars, bobVars, ABecome, AGoto, AHalt, AFail, OnlyAlice,
            APublish, BBecome, BGoto, BHalt, BFail, OnlyBob, BPublish
<1>1. CASE AliceSwapStep
  BY <1>1
     DEF AliceSwapStep, AliceStarted, AliceBtcLockTransactionSeen,
         AliceBtcLocked, ACheckEpoch, AliceBeldexLockTransactionSent,
         AliceBeldexLocked, AliceBeldexLockTransferProofSent,
         AliceEncSigLearned, AliceBtcRedeemTransactionPublished,
         AliceCancelTimelockExpired, AliceBtcCancelled, AliceBtcRefunded,
         GenerateRefundWallet, SweepRefundWallet, AliceBtcPunishable, ASave
<1>2. CASE AliceRecoveryStep
  BY <1>2
     DEF AliceRecoveryStep, AliceManualCancel, AliceManualRefund,
         GenerateRefundWallet, SweepRefundWallet, AliceManualPunish,
         AliceManualRedeem, AliceManualSafelyAbort
<1>3. CASE BobSwapStep
  BY <1>3
     DEF BobSwapStep, BobStarted, BobSwapSetupCompleted, BobBtcLocked,
         BCheckEpoch, BExpire, BobBeldexLockProofReceived, BobBeldexLocked,
         BCheckForTxRedeem, BobEncSigSent, BobBtcRedeemed, BSweepBeldex,
         BobCancelTimelockExpired, BobBtcCancelled, PublishRefundBtc,
         BobBtcPunished
<1>4. CASE BobRecoveryStep
  BY <1>4
<1>5. CASE EnvironmentStep
  BY <1>5
     DEF EnvironmentStep, AStop, AResume, BStop, BResume, BobBuffersProof,
         Mine, BdxConfirm, LoseMessage
<1> QED BY <1>1, <1>2, <1>3, <1>4, <1>5, StepKinds

\* Once a party has recorded that its coins are locked it never records a state
\* from before, and a recorded redeem, punishment or end is only overwritten by
\* BeldexRedeemed, or by the cancel of a swap that is recorded as refunded.
THEOREM RecordsNeverRegressHolds == Spec => RecordsNeverRegress
<1>1. IndInv /\ [Next]_vars => [NoRegress]_vars
  <2> SUFFICES ASSUME IndInv, Next PROVE NoRegress
    BY DEF vars
  <2>1. (aDb \in AliceLocked => aDb' \in AliceLocked) /\ (aDb \in AliceComplete => aDb' = aDb)
    BY AliceWrites DEF IndInv, MemoryInv, ASave
  <2>2. /\ bDb \in BobLocked => bDb' \in BobLocked
        /\ bDb \in {"BtcRedeemed", "BtcPunished"} => bDb' \in {bDb, "BeldexRedeemed"}
        /\ bDb \in BobComplete => bDb' = bDb \/ BobReopens
    <3> USE DEF IndInv, MemoryInv, BobComplete, BobLocked, BobState, BobReopens
    <3>1. CASE bDb' = bDb
      BY <3>1
    <3>2. CASE BSave
      BY <3>2 DEF BSave
    <3>3. CASE BobManualCancel
      BY <3>3 DEF BobManualCancel, BobCancellable, BPublish, BStore, BStoreIfPunished
    <3>4. CASE BobManualRefund
      BY <3>4
         DEF BobManualRefund, BobCancellable, PublishRefundBtc, BPublish, BStore,
             BStoreIfPunished
    <3> QED BY <3>1, <3>2, <3>3, <3>4, BobWrites DEF BobRecoveryStep
  <2> QED BY <2>1, <2>2 DEF NoRegress
<1> QED BY <1>1, Invariance, PTL DEF Spec, RecordsNeverRegress

\* Without a crash in the gap between a step and its insert, the state in memory
\* tells whether Alice has transferred the BDX, and she does so at most once.
AbortInv == (aMem \notin AliceLocked => transfers = 0) /\ transfers <= 1

\* Every step keeps AbortInv when no stop hits the gap.
LEMMA AbortStep ==
    ASSUME ~CrashBeforeSave, IndInv, AbortInv, Next
    PROVE  AbortInv'
<1> USE DEF IndInv, TypeOK, SharedTypeOK, MemoryInv, AbortInv, aliceVars,
            bdxVars, AAt, ABecome, AGoto, AHalt, AFail, OnlyAlice, APublish,
            BHalt, BFail, OnlyBob, BPublish, Unsaved, AliceComplete,
            AliceState, NoSwap, AliceLocked, AliceCancellable, AliceAbortable
<1>1. CASE AliceSwapStep
  <2>1. CASE AliceStarted
    BY <2>1 DEF AliceStarted
  <2>2. CASE AliceBtcLockTransactionSeen
    BY <2>2 DEF AliceBtcLockTransactionSeen
  <2>3. CASE AliceBtcLocked
    BY <2>3 DEF AliceBtcLocked, ACheckEpoch
  <2>4. CASE AliceBeldexLockTransactionSent
    BY <2>4 DEF AliceBeldexLockTransactionSent, ACheckEpoch
  <2>5. CASE AliceBeldexLocked
    BY <2>5 DEF AliceBeldexLocked
  <2>6. CASE AliceBeldexLockTransferProofSent
    BY <2>6 DEF AliceBeldexLockTransferProofSent
  <2>7. CASE AliceEncSigLearned
    BY <2>7 DEF AliceEncSigLearned, ACheckEpoch
  <2>8. CASE AliceBtcRedeemTransactionPublished
    BY <2>8 DEF AliceBtcRedeemTransactionPublished
  <2>9. CASE AliceCancelTimelockExpired
    BY <2>9 DEF AliceCancelTimelockExpired
  <2>10. CASE AliceBtcCancelled
    BY <2>10 DEF AliceBtcCancelled
  <2>11. CASE AliceBtcRefunded
    BY <2>11 DEF AliceBtcRefunded, GenerateRefundWallet, SweepRefundWallet
  <2>12. CASE AliceBtcPunishable
    BY <2>12 DEF AliceBtcPunishable
  <2>13. CASE ASave
    BY <2>13 DEF ASave
  <2> QED
    BY <1>1, <2>1, <2>2, <2>3, <2>4, <2>5, <2>6, <2>7, <2>8, <2>9, <2>10,
       <2>11, <2>12, <2>13
       DEF AliceSwapStep
<1>2. CASE AliceRecoveryStep
  BY <1>2
     DEF AliceRecoveryStep, AliceManualCancel, AIdleIn, AManual,
         AliceManualRefund, GenerateRefundWallet, SweepRefundWallet,
         AliceManualPunish, AliceManualRedeem, AliceManualSafelyAbort
<1>3. CASE BobSwapStep
  BY <1>3
     DEF BobSwapStep, BobStarted, BAt, BobSwapSetupCompleted, BobBtcLocked,
         BExpire, BobBeldexLockProofReceived, BobBeldexLocked,
         BCheckForTxRedeem, BobEncSigSent, BobBtcRedeemed, BSweepBeldex,
         BobCancelTimelockExpired, BobBtcCancelled, PublishRefundBtc,
         BobBtcPunished, BSave
<1>4. CASE BobRecoveryStep
  BY <1>4
     DEF BobRecoveryStep, BobManualCancel, BobManualRefund, PublishRefundBtc
<1>5. CASE EnvironmentStep
  BY <1>5
     DEF EnvironmentStep, AStop, AResume, BStop, BResume, BobBuffersProof,
         Mine, BdxConfirm, LoseMessage
<1> QED BY <1>1, <1>2, <1>3, <1>4, <1>5, StepKinds

\* When the insert follows every step, a swap recorded as safely aborted never
\* touched Alice's BDX and no swap transfers them twice.  The crash the theorem
\* excludes is the one ClaimSafeAbort exhibits.
THEOREM AbortIsSafeHolds == ASSUME ~CrashBeforeSave PROVE Spec => []AbortIsSafe
<1>1. Init => AbortInv
  BY DEF Init, AbortInv
<1>2. IndInv /\ AbortInv /\ [Next]_vars => AbortInv'
  BY AbortStep DEF vars, AbortInv
<1>3. IndInv /\ AbortInv => AbortIsSafe
  BY DEF IndInv, MemoryInv, AbortInv, AbortIsSafe, AliceLocked, AliceComplete,
         Unsaved
<1> QED BY <1>1, <1>2, <1>3, Invariance, PTL DEF Spec
=============================================================================
