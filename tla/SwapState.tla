------------------------------ MODULE SwapState ------------------------------
(***************************************************************************)
(* The state of one BTC-for-BDX swap: the two state machines (what each    *)
(* party has in its database, what its running task holds in memory, and   *)
(* how far the task is inside next_state), the messages between them, the  *)
(* Beldex lock output, and the choices of the environment.                 *)
(*                                                                         *)
(* A task computes its next state, performing the side effects of the      *)
(* step, and only then writes it: swap.rs calls insert_latest_state after  *)
(* next_state returns.  The control point "save" is the gap between both.  *)
(***************************************************************************)
EXTENDS BitcoinChain

CONSTANTS
    MaxAliceStops,   \* bound: spontaneous stops (crash, RPC error) of Alice
    MaxBobStops,     \* bound: likewise of Bob
    CrashBeforeSave, \* may a stop hit the gap between a step and its insert?
    RpcFaults,       \* may a call fail whose error the code swallows?
    ChangeOutputs,   \* may TxLock have a change output?  a subset of BOOLEAN
    ShortLocks       \* may Alice lock another amount than agreed?  likewise

ASSUME EnvironmentAssumption ==
    /\ MaxAliceStops \in Nat
    /\ MaxBobStops \in Nat
    /\ CrashBeforeSave \in BOOLEAN
    /\ RpcFaults \in BOOLEAN
    /\ ChangeOutputs \in SUBSET BOOLEAN
    /\ ShortLocks \in SUBSET BOOLEAN

VARIABLES
    aDb, aMem, aPc,  \* Alice: persisted state, state in memory, control point
    refundWallet,    \* does Alice's temporary refund wallet file exist?
    bDb, bMem, bPc,  \* Bob: likewise
    buffered,        \* is this swap's transfer proof in Bob's database?
    net,             \* requests and acknowledgements in flight
    bdx,             \* the Beldex output under the shared key
    transfers,       \* how many times Alice transferred the swap's BDX
    changeOutput,    \* does TxLock pay change to Bob's refund address?
    shortLock,       \* is the BDX lock not the agreed amount?
    stops            \* spontaneous stops so far

aliceVars == <<aDb, aMem, aPc, refundWallet>>
bobVars   == <<bDb, bMem, bPc, buffered>>
bdxVars   == <<bdx, transfers>>
scenario  == <<changeOutput, shortLock>>
vars == <<conf, aDb, aMem, aPc, refundWallet, bDb, bMem, bPc, buffered,
          net, bdx, transfers, changeOutput, shortLock, stops>>

AliceComplete == {"BeldexRefunded", "BtcRedeemed", "BtcPunished", "SafelyAborted"}

AliceState == AliceComplete \cup
    {"Started", "BtcLockTransactionSeen", "BtcLocked", "BeldexLockTransactionSent",
     "BeldexLocked", "BeldexLockTransferProofSent", "EncSigLearned",
     "BtcRedeemTransactionPublished", "CancelTimelockExpired", "BtcCancelled",
     "BtcRefunded", "BtcPunishable"}

BobComplete == {"BtcRefunded", "BeldexRedeemed", "SafelyAborted"}

BobState == BobComplete \cup
    {"Started", "SwapSetupCompleted", "BtcLocked", "BeldexLockProofReceived",
     "BeldexLocked", "EncSigSent", "BtcRedeemed", "CancelTimelockExpired",
     "BtcCancelled", "BtcPunished"}

NoSwap == "none"   \* no row of this swap in the database

\* stopped: no task; start: about to enter next_state; checked: the first
\* query of the step is answered; wait: inside a select or a subscription;
\* expire: waiting for the cancel timelock only; save / msave / csave: the step
\* of the state machine / of a manual command / of its first half is done but
\* not yet inserted; punish, refund: between two steps of a manual command.
AlicePc == {"stopped", "start", "checked", "wait", "expire", "save", "msave",
            "punish", "refund"}
BobPc   == {"stopped", "start", "checked", "wait", "expire", "save", "msave",
            "csave", "refund"}

\* The control points between a step and its insert.
Unsaved == {"save", "msave", "csave"}

Message == {"proof", "proofAck", "encsig", "encsigAck"}

\* none, in the pool, one confirmation, enough confirmations to be accepted and
\* spent; then swept by one of the parties.
BdxStatus == {"none", "pool", "confirmed", "final", "alice", "bob"}

AliceTypeOK ==
    /\ aDb \in AliceState \cup {NoSwap}
    /\ aMem \in AliceState \cup {NoSwap}
    /\ aPc \in AlicePc
    /\ refundWallet \in BOOLEAN

BobTypeOK ==
    /\ bDb \in BobState \cup {NoSwap}
    /\ bMem \in BobState \cup {NoSwap}
    /\ bPc \in BobPc
    /\ buffered \in BOOLEAN

\* A task runs from a state that is not an end of the swap, and only then: the loop of
\* run_until ends with is_complete, and finished swaps are not resumed.  What waits to be
\* inserted is a later state than Started.  Without a task, memory holds the record.
TaskTypeOK ==
    /\ aPc \in {"start", "checked", "wait", "expire"} => aMem \in AliceState \ AliceComplete
    /\ aPc \in Unsaved => aMem \in AliceState \ {"Started"}
    /\ aPc \in {"stopped", "punish", "refund"} => aMem = aDb
    /\ bPc \in {"start", "checked", "wait", "expire"} => bMem \in BobState \ BobComplete
    /\ bPc \in Unsaved => bMem \in BobState \ {"Started"}
    /\ bPc \in {"stopped", "refund"} => bMem = bDb

SharedTypeOK ==
    /\ net \subseteq Message
    /\ bdx \in BdxStatus
    /\ transfers \in Nat
    /\ changeOutput \in BOOLEAN
    /\ shortLock \in BOOLEAN
    /\ stops \in [alice : 0 .. MaxAliceStops, bob : 0 .. MaxBobStops]

-----------------------------------------------------------------------------
(* Alice's task                                                            *)

AAt(s, pc) == aMem = s /\ aPc = pc

\* next_state returned s: the new state exists in memory only.
ABecome(s) == aMem' = s /\ aPc' = "save" /\ UNCHANGED aDb

AGoto(pc) == aPc' = pc /\ UNCHANGED <<aDb, aMem>>

\* The task is gone: what was not inserted is forgotten, and nobody waits any
\* more for the acknowledgement of a request it sent.  Requests that were on
\* their way to it stay in net and may be lost (LoseMessage).
AHalt ==
    /\ aMem' = aDb
    /\ aPc' = "stopped"
    /\ net' = net \ {"proofAck"}
    /\ UNCHANGED <<aDb, refundWallet>>

\* An error leaves next_state through `?`: no state change, the task ends.
AFail == AHalt /\ UNCHANGED <<conf, bobVars, bdxVars, scenario, stops>>

OnlyAlice == UNCHANGED <<conf, refundWallet, bobVars, net, bdxVars, scenario, stops>>

\* Mutant: the loop does not ask whether the swap is complete.
ASaveForever ==
    /\ aPc \in {"save", "msave"}
    /\ aDb' = aMem
    /\ aPc' = IF aPc = "save" THEN "start" ELSE "stopped"
    /\ UNCHANGED aMem
    /\ OnlyAlice

\* The new state is inserted; run_until goes on unless the swap is complete.
ASave ==
    /\ aPc \in {"save", "msave"}
    /\ aDb' = aMem
    /\ aPc' = IF aPc = "save" /\ aMem \notin AliceComplete THEN "start" ELSE "stopped"
    /\ UNCHANGED aMem
    /\ OnlyAlice

\* The ASB is stopped, crashes, or an RPC error ends the swap's task.
AStop ==
    /\ aPc # "stopped"
    /\ aPc \in Unsaved => CrashBeforeSave
    /\ stops.alice < MaxAliceStops
    /\ stops' = [stops EXCEPT !.alice = @ + 1]
    /\ AHalt
    /\ UNCHANGED <<conf, bobVars, bdxVars, scenario>>

\* EventLoop::run resumes every unfinished swap of the database.
AResume ==
    /\ aPc = "stopped"
    /\ aDb \notin AliceComplete \cup {NoSwap}
    /\ AGoto("start")
    /\ OnlyAlice

-----------------------------------------------------------------------------
(* Bob's task                                                              *)

BAt(s, pc) == bMem = s /\ bPc = pc

BBecome(s) == bMem' = s /\ bPc' = "save" /\ UNCHANGED bDb

BGoto(pc) == bPc' = pc /\ UNCHANGED <<bDb, bMem>>

BHalt ==
    /\ bMem' = bDb
    /\ bPc' = "stopped"
    /\ net' = net \ {"encsigAck"}
    /\ UNCHANGED <<bDb, buffered>>

BFail == BHalt /\ UNCHANGED <<conf, aliceVars, bdxVars, scenario, stops>>

OnlyBob == UNCHANGED <<conf, aliceVars, buffered, net, bdxVars, scenario, stops>>

BSave ==
    /\ bPc \in {"save", "msave"}
    /\ bDb' = bMem
    /\ bPc' = IF bPc = "save" /\ bMem \notin BobComplete THEN "start" ELSE "stopped"
    /\ UNCHANGED bMem
    /\ OnlyBob

\* Bob's event loop returned, the user suspended the swap, or it crashed.
BStop ==
    /\ bPc # "stopped"
    /\ bPc \in Unsaved => CrashBeforeSave
    /\ stops.bob < MaxBobStops
    /\ stops' = [stops EXCEPT !.bob = @ + 1]
    /\ BHalt
    /\ UNCHANGED <<conf, aliceVars, bdxVars, scenario>>

\* resume_swap loads the latest state and runs the swap again.
BResume ==
    /\ bPc = "stopped"
    /\ bDb \notin BobComplete \cup {NoSwap}
    /\ BGoto("start")
    /\ OnlyBob
=============================================================================
