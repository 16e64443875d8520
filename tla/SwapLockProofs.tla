--------------------------- MODULE SwapLockProofs ---------------------------
(***************************************************************************)
(* TLAPS proofs about SwapLock, for any number of requests of each kind and*)
(* of concurrent suspensions.                                              *)
(***************************************************************************)
EXTENDS SwapLock, TLAPS

\* What one step of a request does to the lock: it is taken from nobody by an
\* idle request, released by a request that becomes idle, or left alone by a
\* request that is neither idle before nor after the step.
LEMMA RequestKinds ==
    ASSUME NEW r \in Request, LockTypeOK, RequestStep(r)
    PROVE  \/ /\ current = NoRequest /\ current' = r
              /\ phase[r] = "idle"
              /\ phase' = [phase EXCEPT ![r] = "held"]
           \/ /\ current' = NoRequest
              /\ phase[r] # "idle"
              /\ phase' = [phase EXCEPT ![r] = "idle"]
           \/ /\ current' = current
              /\ \/ phase' = phase
                 \/ \E to \in Phase \ {"idle"} :
                       phase[r] # "idle" /\ phase' = [phase EXCEPT ![r] = to]
<1> USE DEF LockTypeOK, Goto, Phase
<1>1. CASE Acquire(r) \/ Release(r)
  BY <1>1 DEF Acquire, Release
<1>2. CASE BuyInit(r) \/ BuyQuoted(r) \/ BuyInitFails(r)
  BY <1>2 DEF BuyInit, BuyQuoted, BuyInitFails
<1>3. CASE ResumeSetup(r) \/ ResumeSetupFails(r) \/ CancelAndRefund(r)
  BY <1>3 DEF ResumeSetup, ResumeSetupFails, CancelAndRefund
<1>4. CASE TaskStarts(r) \/ TaskEnds(r)
  BY <1>4 DEF TaskStarts, TaskEnds
<1>5. CASE Suspended(r)
  BY <1>5 DEF Suspended, Listening
<1> QED BY <1>1, <1>2, <1>3, <1>4, <1>5 DEF RequestStep

\* A step of a request keeps the types of the other variables.
LEMMA RequestSets ==
    ASSUME NEW r \in Request, LockTypeOK, RequestStep(r)
    PROVE  signal' \subseteq Request /\ suspend' = suspend
<1> USE DEF LockTypeOK, StopListening
<1>1. CASE Acquire(r) \/ Release(r)
  BY <1>1 DEF Acquire, Release
<1>2. CASE BuyInit(r) \/ BuyQuoted(r) \/ BuyInitFails(r)
  BY <1>2 DEF BuyInit, BuyQuoted, BuyInitFails
<1>3. CASE ResumeSetup(r) \/ ResumeSetupFails(r) \/ CancelAndRefund(r)
  BY <1>3 DEF ResumeSetup, ResumeSetupFails, CancelAndRefund
<1>4. CASE TaskStarts(r) \/ TaskEnds(r) \/ Suspended(r)
  BY <1>4 DEF TaskStarts, TaskEnds, Suspended
<1> QED BY <1>1, <1>2, <1>3, <1>4 DEF RequestStep

\* A call of suspend_current_swap touches neither the lock nor the requests.
LEMMA SuspendKinds ==
    ASSUME NEW s \in Suspender, LockTypeOK, SuspendStep(s)
    PROVE  UNCHANGED <<current, phase>> /\ LockTypeOK'
<1> USE DEF LockTypeOK, SGoto
<1>1. CASE SuspendSend(s)
  BY <1>1 DEF SuspendSend
<1>2. CASE SuspendRead(s) \/ SuspendPolled(s) \/ SuspendTimeout(s) \/ SuspendAgain(s)
  BY <1>2 DEF SuspendRead, SuspendPolled, SuspendTimeout, SuspendAgain
<1> QED BY <1>1, <1>2 DEF SuspendStep

\* Every step keeps the types and the inductive invariant.
LEMMA LockStep ==
    ASSUME LockTypeOK, LockInv, LockNext
    PROVE  LockTypeOK' /\ LockInv'
<1>1. ASSUME NEW r \in Request, RequestStep(r) PROVE LockTypeOK' /\ LockInv'
  <2>1. LockTypeOK'
    BY <1>1, RequestKinds, RequestSets DEF LockTypeOK, Phase
  <2>2. LockInv'
    BY <1>1, RequestKinds, RequestAssumption DEF LockInv, LockTypeOK, Phase
  <2> QED BY <2>1, <2>2
<1>2. ASSUME NEW s \in Suspender, SuspendStep(s) PROVE LockTypeOK' /\ LockInv'
  BY <1>2, SuspendKinds DEF LockInv
<1> QED BY <1>1, <1>2 DEF LockNext

\* Exactly the owner of the lock is between acquiring and releasing it.
THEOREM LockInvariance == LockSpec => [](LockTypeOK /\ LockInv)
<1>1. LockInit => LockTypeOK /\ LockInv
  BY RequestAssumption DEF LockInit, LockTypeOK, LockInv, Phase
<1>2. LockTypeOK /\ LockInv /\ [LockNext]_lockVars => (LockTypeOK /\ LockInv)'
  BY LockStep DEF lockVars, LockTypeOK, LockInv
<1> QED BY <1>1, <1>2, PTL DEF LockSpec

\* However many requests the application serves, two swaps never run at once.
THEOREM OneSwapHolds == LockSpec => []OneSwap
<1>1. LockInv => OneSwap
  BY DEF LockInv, OneSwap
<1> QED BY <1>1, LockInvariance, PTL

\* Nobody releases the lock of another swap or a lock that nobody holds.
THEOREM ReleaseOwnedHolds == LockSpec => []ReleaseOwned
<1>1. LockInv => ReleaseOwned
  BY DEF LockInv, ReleaseOwned
<1> QED BY <1>1, LockInvariance, PTL
=============================================================================
