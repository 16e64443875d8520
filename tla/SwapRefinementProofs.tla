------------------------- MODULE SwapRefinementProofs -------------------------
(***************************************************************************)
(* The TLAPS proof that SwapProtocol implements SwapContract: the first    *)
(* state maps to the contract's first state, and every step of either      *)
(* party or of the environment to one contract step or to none.            *)
(***************************************************************************)
EXTENDS SwapProofs

-----------------------------------------------------------------------------
(* What a step may do to the two chains                                    *)

Broadcast(t) == BroadcastOk(t) /\ conf' = Published(t) /\ UNCHANGED bdx

TransferBdx == aMem = "BtcLocked" /\ aPc = "checked" /\ bdx' = "pool" /\ UNCHANGED conf

SweepByAlice ==
    /\ aPc = "refund" \/ (aMem = "BtcRefunded" /\ aPc = "wait")
    /\ bdx' = "alice"
    /\ UNCHANGED conf

SweepByBob == bdx = "final" /\ bdx' = "bob" /\ UNCHANGED conf

\* Each step leaves both chains alone or does exactly one thing to one of them.
LEMMA ChainSteps ==
    ASSUME Next
    PROVE  \/ UNCHANGED <<conf, bdx>>
           \/ \E t \in Txid : Broadcast(t)
           \/ TransferBdx \/ SweepByAlice \/ SweepByBob
           \/ Mine \/ BdxConfirm
<1> USE DEF Broadcast, TransferBdx, SweepByAlice, SweepByBob, aliceVars,
            bobVars, bdxVars, AAt, ABecome, AGoto, AHalt, AFail, OnlyAlice,
            APublish, BAt, BBecome, BGoto, BHalt, BFail, OnlyBob, BPublish
<1>1. CASE AliceSwapStep
  <2>1. CASE AliceStarted
    BY <2>1 DEF AliceStarted
  <2>2. CASE AliceBtcLockTransactionSeen
    BY <2>2 DEF AliceBtcLockTransactionSeen
  <2>3. CASE AliceBtcLocked
    BY <2>3 DEF AliceBtcLocked, ACheckEpoch
  <2>4. CASE AliceBeldexLockTransactionSent
    BY <2>4 DEF AliceBeldexLockTransactionSent, ACheckEpoch
  <2>5. CASE AliceBeldexLocked
    BY <2>5 DEF AliceBeldexLocked
  <2>6. CASE AliceBeldexLockTransferProofSent
    BY <2>6 DEF AliceBeldexLockTransferProofSent
  <2>7. CASE AliceEncSigLearned
    BY <2>7 DEF AliceEncSigLearned, ACheckEpoch, Txid
  <2>8. CASE AliceBtcRedeemTransactionPublished
    BY <2>8 DEF AliceBtcRedeemTransactionPublished
  <2>9. CASE AliceCancelTimelockExpired
    BY <2>9 DEF AliceCancelTimelockExpired, Txid
  <2>10. CASE AliceBtcCancelled
    BY <2>10 DEF AliceBtcCancelled
  <2>11. CASE AliceBtcRefunded
    BY <2>11 DEF AliceBtcRefunded, GenerateRefundWallet, SweepRefundWallet
  <2>12. CASE AliceBtcPunishable
    BY <2>12 DEF AliceBtcPunishable, Txid
  <2>13. CASE ASave
    BY <2>13 DEF ASave
  <2> QED
    BY <1>1, <2>1, <2>2, <2>3, <2>4, <2>5, <2>6, <2>7, <2>8, <2>9, <2>10,
       <2>11, <2>12, <2>13
       DEF AliceSwapStep
<1>2. CASE AliceRecoveryStep
  <2>1. CASE AliceManualCancel
    BY <2>1 DEF AliceManualCancel, Txid
  <2>2. CASE AliceManualRefund
    BY <2>2 DEF AliceManualRefund, GenerateRefundWallet, SweepRefundWallet
  <2>3. CASE AliceManualPunish
    BY <2>3 DEF AliceManualPunish, Txid
  <2>4. CASE AliceManualRedeem
    BY <2>4 DEF AliceManualRedeem, Txid
  <2>5. CASE AliceManualSafelyAbort
    BY <2>5 DEF AliceManualSafelyAbort
  <2> QED
    BY <1>2, <2>1, <2>2, <2>3, <2>4, <2>5 DEF AliceRecoveryStep
<1>3. CASE BobSwapStep
  <2>1. CASE BobStarted
    BY <2>1 DEF BobStarted
  <2>2. CASE BobSwapSetupCompleted
    BY <2>2 DEF BobSwapSetupCompleted, Txid
  <2>3. CASE BobBtcLocked
    BY <2>3 DEF BobBtcLocked, BExpire
  <2>4. CASE BobBeldexLockProofReceived
    BY <2>4 DEF BobBeldexLockProofReceived, BExpire
  <2>5. CASE BobBeldexLocked
    BY <2>5 DEF BobBeldexLocked, BCheckForTxRedeem, BExpire
  <2>6. CASE BobEncSigSent
    BY <2>6 DEF BobEncSigSent, BCheckForTxRedeem, BExpire
  <2>7. CASE BobBtcRedeemed
    BY <2>7 DEF BobBtcRedeemed, BSweepBeldex
  <2>8. CASE BobCancelTimelockExpired
    BY <2>8 DEF BobCancelTimelockExpired, Txid
  <2>9. CASE BobBtcCancelled
    BY <2>9 DEF BobBtcCancelled, PublishRefundBtc, Txid
  <2>10. CASE BobBtcPunished
    BY <2>10 DEF BobBtcPunished, BSweepBeldex
  <2>11. CASE BSave
    BY <2>11 DEF BSave
  <2> QED
    BY <1>3, <2>1, <2>2, <2>3, <2>4, <2>5, <2>6, <2>7, <2>8, <2>9, <2>10,
       <2>11
       DEF BobSwapStep
<1>4. CASE BobRecoveryStep
  <2>1. CASE BobManualCancel
    BY <2>1 DEF BobManualCancel, Txid
  <2>2. CASE BobManualRefund
    BY <2>2 DEF BobManualRefund, PublishRefundBtc, Txid
  <2> QED
    BY <1>4, <2>1, <2>2 DEF BobRecoveryStep
<1>5. CASE EnvironmentStep
  <2>1. CASE AStop
    BY <2>1 DEF AStop
  <2>2. CASE AResume
    BY <2>2 DEF AResume
  <2>3. CASE BStop
    BY <2>3 DEF BStop
  <2>4. CASE BResume
    BY <2>4 DEF BResume
  <2>5. CASE BobBuffersProof
    BY <2>5 DEF BobBuffersProof
  <2>6. CASE Mine
    BY <2>6
  <2>7. CASE BdxConfirm
    BY <2>7
  <2>8. CASE LoseMessage
    BY <2>8 DEF LoseMessage
  <2> QED
    BY <1>5, <2>1, <2>2, <2>3, <2>4, <2>5, <2>6, <2>7, <2>8
       DEF EnvironmentStep
<1> QED BY <1>1, <1>2, <1>3, <1>4, <1>5, StepKinds

-----------------------------------------------------------------------------
(* The swap implements the contract                                        *)

ContractStep == Contract!ContractNext \/ UNCHANGED <<BtcNow, BdxNow>>

\* As long as the chain is well-formed, who is seen decides where the bitcoin
\* are, and what has not been swept is locked.
LEMMA BroadcastRefines ==
    ASSUME IndInv, IndInv', NEW t \in Txid, Broadcast(t)
    PROVE  ContractStep
<1> USE DEF Broadcast, IndInv, TypeOK, ConfTypeOK, ChainInv, HasBeenSeen, InMempool, Txid,
            ContractStep, BtcNow, BdxNow
<1>1. /\ conf'[t] = 0
      /\ conf[t] = 0 \/ (conf[t] = -1 /\ InputReady(t))
      /\ \A u \in Txid : u # t => conf'[u] = conf[u]
  BY PublishLemma
<1>2. CASE conf[t] = 0
  BY <1>2 DEF Published
<1>3. CASE conf[t] = -1 /\ t = "lock"
  BY <1>1, <1>3 DEF Contract!ContractNext, Contract!LockBtc
<1>4. CASE conf[t] = -1 /\ t = "redeem"
  BY <1>1, <1>4
     DEF EncSigInv, EncSigOut, Atomicity, Contract!ContractNext,
         Contract!Redeem
<1>5. CASE conf[t] = -1 /\ t = "cancel"
  BY <1>1, <1>5 DEF Contract!ContractNext, Contract!Cancel
<1>6. CASE conf[t] = -1 /\ t = "refund"
  BY <1>1, <1>6 DEF Contract!ContractNext, Contract!Refund
<1>7. CASE conf[t] = -1 /\ t = "punish"
  BY <1>1, <1>7 DEF Contract!ContractNext, Contract!Punish
<1> QED BY <1>1, <1>2, <1>3, <1>4, <1>5, <1>6, <1>7

\* A block changes nobody's place.
LEMMA MineRefines == ASSUME IndInv, Mine PROVE ContractStep
<1>1. \A u \in Txid : conf'[u] >= 0 <=> conf[u] >= 0
  BY MineLemma DEF Mine, IndInv, TypeOK
<1> QED
  BY <1>1
     DEF Mine, bdxVars, ContractStep, BtcNow, BdxNow, HasBeenSeen, InMempool,
         Txid

\* The steps on the Beldex side.
LEMMA BdxRefines ==
    ASSUME IndInv, IndInv', TransferBdx \/ SweepByAlice \/ SweepByBob \/ BdxConfirm
    PROVE  ContractStep
<1> USE DEF IndInv, ContractStep, BtcNow, BdxNow, HasBeenSeen, ChainInv
<1>1. CASE TransferBdx
  BY <1>1
     DEF TransferBdx, AliceInv, AliceStateInv, AliceLocked, AliceHasEncSig,
         NoSwap, Contract!ContractNext, Contract!LockBdx
<1>2. CASE SweepByAlice
  BY <1>2
     DEF SweepByAlice, AliceInv, AliceStateInv, Contract!ContractNext,
         Contract!ReturnBdx
<1>3. CASE SweepByBob
  BY <1>3 DEF SweepByBob
<1>4. CASE BdxConfirm
  BY <1>4 DEF BdxConfirm
<1> QED BY <1>1, <1>2, <1>3, <1>4

\* The two state machines implement the atomic swap: the first state maps to the
\* first state of the contract, every step to a contract step or to none.
THEOREM Refinement == Spec => ImplementsContract
<1>1. Init => Contract!ContractInit
  BY DEF Init, Contract!ContractInit, BtcNow, BdxNow, HasBeenSeen, Unseen,
         InMempool, Txid
<1>2. IndInv /\ IndInv' /\ [Next]_vars => [Contract!ContractNext]_(Contract!contractVars)
  <2> SUFFICES ASSUME IndInv, IndInv', [Next]_vars PROVE ContractStep
    BY DEF ContractStep, Contract!contractVars
  <2>1. CASE UNCHANGED <<conf, bdx>>
    BY <2>1 DEF ContractStep, BtcNow, BdxNow, HasBeenSeen
  <2>2. CASE Next
    BY <2>1, <2>2, ChainSteps, BroadcastRefines, MineRefines, BdxRefines
  <2>3. CASE UNCHANGED vars
    BY <2>1, <2>3 DEF vars
  <2> QED BY <2>2, <2>3
<1> QED
  BY <1>1, <1>2, Invariance, PTL
     DEF Spec, ImplementsContract, Contract!ContractSpec
=============================================================================
