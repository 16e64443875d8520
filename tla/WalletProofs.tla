----------------------------- MODULE WalletProofs -----------------------------
(***************************************************************************)
(* Proofs about the two wallets: what the Electrum client reports of the   *)
(* Bitcoin chain (ElectrumClient), for any transactions, heights and       *)
(* failed requests; and what becomes of Alice's refunds while any number   *)
(* of swaps share one wallet-rpc (BeldexWallet).                           *)
(***************************************************************************)
EXTENDS ElectrumClient, BeldexWallet, TLAPS

-----------------------------------------------------------------------------
(* The Electrum client                                                     *)

\* A reader is a task or a caller with a transaction; it is neither the syncer nor nobody.
LEMMA ReaderFacts ==
    ASSUME NEW r \in Reader
    PROVE  r[2] \in Tx /\ r # Syncer /\ r # Free /\ r \in Holder
<1>1. r[2] \in Tx /\ r[1] \in {"poll", "call"}
  BY DEF Reader, Tx
<1>2. Syncer[1] = "sync"
  BY DEF Syncer
<1> QED BY <1>1, <1>2, ElectrumAssumption DEF Holder

\* A status is an integer, above the one that a channel is made with.
LEMMA StatusIsInt ==
    ASSUME NEW at \in Int, at >= Absent, NEW tip \in Int
    PROVE  ScriptStatus(at, tip) \in Int /\ ScriptStatus(at, tip) > NotReported
BY DEF ScriptStatus, Absent, Mempool, Unseen, InMempool, NotReported

\* A status grows with the height of the tip.
LEMMA StatusOfTip ==
    ASSUME NEW at \in Int, at >= Absent, NEW lo \in Int, NEW hi \in Int, lo <= hi
    PROVE  ScriptStatus(at, lo) <= ScriptStatus(at, hi)
BY DEF ScriptStatus, Absent, Mempool, Unseen, InMempool

\* A status grows as a transaction goes from nowhere to the mempool and into a block.
LEMMA StatusOfHistory ==
    ASSUME NEW before \in Int, NEW at \in Int, at >= Absent, NEW tip \in Int,
           before \in {at, Absent} \/ (before = Mempool /\ at > Mempool)
    PROVE  ScriptStatus(before, tip) <= ScriptStatus(at, tip)
BY DEF ScriptStatus, Absent, Mempool, Unseen, InMempool

\* The chain grows: the cache stays behind it, nothing else changes.
LEMMA ChainStep ==
    ASSUME ElectrumInv, Mine \/ \E t \in Tx : Appear(t)
    PROVE  ElectrumInv'
<1> USE ElectrumAssumption
<1>1. CASE Mine
  <2>1. ElectrumTypeOK'
    BY <1>1 DEF ElectrumInv, ElectrumTypeOK, Mine, cacheVars, lockVars, Absent
  <2>2. CacheBehindChain'
    BY <1>1 DEF ElectrumInv, ElectrumTypeOK, CacheBehindChain, Mine, cacheVars, Absent, Mempool
  <2> QED BY <1>1, <2>1, <2>2 DEF ElectrumInv, ReaderWorks, TrackedIsFetched,
             CacheNeverBehindReport, FirstStatusFetched, Mine, cacheVars, lockVars
<1>2. ASSUME NEW t \in Tx, Appear(t) PROVE ElectrumInv'
  <2>1. ElectrumTypeOK'
    BY <1>2 DEF ElectrumInv, ElectrumTypeOK, Appear, cacheVars, lockVars, Absent, Mempool
  <2>2. CacheBehindChain'
    BY <1>2 DEF ElectrumInv, ElectrumTypeOK, CacheBehindChain, Appear, cacheVars, Absent, Mempool
  <2> QED BY <1>2, <2>1, <2>2 DEF ElectrumInv, ReaderWorks, TrackedIsFetched,
             CacheNeverBehindReport, FirstStatusFetched, Appear, cacheVars, lockVars
<1> QED BY <1>1, <1>2

\* A request begins, or fails: the cache keeps its values.
LEMMA RequestStep ==
    ASSUME ElectrumInv, NEW r \in Reader, Begin(r) \/ FetchFails(r)
    PROVE  ElectrumInv'
<1> USE ElectrumAssumption, ReaderFacts
<1>1. CASE Begin(r)
  <2>1. ElectrumTypeOK'
    BY <1>1 DEF ElectrumInv, ElectrumTypeOK, Begin, chainVars
  <2>2. CacheBehindChain' /\ CacheNeverBehindReport' /\ FirstStatusFetched'
    BY <1>1 DEF ElectrumInv, CacheBehindChain, CacheNeverBehindReport, FirstStatusFetched,
                Begin, chainVars
  <2>3. ReaderWorks' /\ TrackedIsFetched'
    BY <1>1 DEF ElectrumInv, ElectrumTypeOK, ReaderWorks, TrackedIsFetched, Begin
  <2> QED BY <2>1, <2>2, <2>3 DEF ElectrumInv
<1>2. CASE FetchFails(r)
  <2>0. r[2] \in tracked
    BY <1>2 DEF ElectrumInv, ReaderWorks, FetchFails
  <2>1. ElectrumTypeOK'
    BY <1>2, <2>0 DEF ElectrumInv, ElectrumTypeOK, FetchFails, Fault, Release, chainVars
  <2>2. CacheBehindChain' /\ CacheNeverBehindReport' /\ FirstStatusFetched'
    BY <1>2 DEF ElectrumInv, CacheBehindChain, CacheNeverBehindReport, FirstStatusFetched,
                FetchFails, chainVars
  <2>3. ReaderWorks' /\ TrackedIsFetched'
    BY <1>2 DEF ElectrumInv, ReaderWorks, TrackedIsFetched, FetchFails, Release
  <2> QED BY <2>1, <2>2, <2>3 DEF ElectrumInv
<1> QED BY <1>1, <1>2

\* The cache is updated: what it says only grows.
LEMMA UpdateStep ==
    ASSUME ElectrumInv, NEW r \in Reader, UpdateLatestBlock(r) \/ UpdateScriptHistories(r)
    PROVE  ElectrumInv'
<1> USE ElectrumAssumption, ReaderFacts
<1>0. /\ height \in Int /\ latest \in Int
      /\ \A t \in Tx : /\ onChain[t] \in Int /\ onChain[t] >= Absent
                       /\ history[t] \in Int /\ history[t] >= Absent
      /\ report \in [Reader -> Int]
  BY DEF ElectrumInv, ElectrumTypeOK, Absent
<1>1. CASE UpdateLatestBlock(r)
  <2>1. ElectrumTypeOK'
    BY <1>1 DEF ElectrumInv, ElectrumTypeOK, UpdateLatestBlock, chainVars
  <2>2. CacheBehindChain' /\ ReaderWorks' /\ TrackedIsFetched' /\ FirstStatusFetched'
    BY <1>1 DEF ElectrumInv, ElectrumTypeOK, CacheBehindChain, ReaderWorks, TrackedIsFetched,
                FirstStatusFetched, UpdateLatestBlock, chainVars
  <2>3. ASSUME NEW q \in Reader PROVE report'[q] <= ScriptStatus(history'[q[2]], latest')
    <3>1. latest' \in Int /\ latest <= latest' /\ history' = history /\ report' = report
      BY <1>0, <1>1 DEF UpdateLatestBlock
    <3>2. ScriptStatus(history[q[2]], latest) <= ScriptStatus(history[q[2]], latest')
      BY <1>0, <3>1, StatusOfTip
    <3>3. ScriptStatus(history[q[2]], latest) \in Int /\ ScriptStatus(history[q[2]], latest') \in Int
      BY <1>0, <3>1, StatusIsInt
    <3> QED BY <1>0, <3>1, <3>2, <3>3 DEF ElectrumInv, CacheNeverBehindReport
  <2> QED BY <2>1, <2>2, <2>3 DEF ElectrumInv, CacheNeverBehindReport
<1>2. CASE UpdateScriptHistories(r)
  <2>1. ElectrumTypeOK'
    BY <1>2 DEF ElectrumInv, ElectrumTypeOK, UpdateScriptHistories, chainVars
  <2>2. CacheBehindChain'
    BY <1>2 DEF ElectrumInv, ElectrumTypeOK, CacheBehindChain, UpdateScriptHistories, chainVars
  <2>3. ReaderWorks' /\ TrackedIsFetched' /\ FirstStatusFetched'
    BY <1>2 DEF ElectrumInv, ElectrumTypeOK, ReaderWorks, TrackedIsFetched,
                FirstStatusFetched, UpdateScriptHistories
  <2>4. ASSUME NEW q \in Reader PROVE report'[q] <= ScriptStatus(history'[q[2]], latest')
    <3>1. latest' = latest /\ report' = report /\ history'[q[2]] \in {history[q[2]], onChain[q[2]]}
      BY <1>2 DEF UpdateScriptHistories
    <3>2. ScriptStatus(history[q[2]], latest) <= ScriptStatus(onChain[q[2]], latest)
      BY <1>0, StatusOfHistory DEF ElectrumInv, CacheBehindChain
    <3>3. ScriptStatus(history[q[2]], latest) \in Int /\ ScriptStatus(onChain[q[2]], latest) \in Int
      BY <1>0, StatusIsInt
    <3> QED BY <1>0, <3>1, <3>2, <3>3 DEF ElectrumInv, CacheNeverBehindReport
  <2> QED BY <2>1, <2>2, <2>3, <2>4 DEF ElectrumInv, CacheNeverBehindReport
<1> QED BY <1>1, <1>2

\* A reader is given what the cache says.
LEMMA ReadStep ==
    ASSUME ElectrumInv, NEW r \in Reader, Read(r)
    PROVE  ElectrumInv' /\ \A q \in Reader : report'[q] >= report[q]
<1> USE ElectrumAssumption, ReaderFacts
<1>0. /\ latest \in Int /\ history[r[2]] \in Int /\ history[r[2]] >= Absent
      /\ report \in [Reader -> Int]
  BY DEF ElectrumInv, ElectrumTypeOK, Absent
<1> DEFINE told == ScriptStatus(history[r[2]], latest)
<1>1. told \in Int /\ report' = [report EXCEPT ![r] = told]
  BY <1>0, StatusIsInt DEF Read
<1>2. report[r] <= told
  BY DEF ElectrumInv, CacheNeverBehindReport
<1>3. ElectrumTypeOK'
  BY <1>0, <1>1 DEF ElectrumInv, ElectrumTypeOK, Read, Release, chainVars, cacheVars
<1>4. r[2] \in fetched \cup lost
  BY DEF ElectrumInv, ReaderWorks, TrackedIsFetched, Read
<1>5. CacheBehindChain' /\ ReaderWorks' /\ TrackedIsFetched'
  BY DEF ElectrumInv, CacheBehindChain, ReaderWorks, TrackedIsFetched, Read, Release,
         chainVars, cacheVars
<1>6. FirstStatusFetched'
  BY <1>0, <1>1, <1>4 DEF ElectrumInv, FirstStatusFetched, Read, cacheVars
<1>7. ASSUME NEW q \in Reader
      PROVE  report'[q] >= report[q] /\ report'[q] <= ScriptStatus(history[q[2]], latest)
  BY <1>0, <1>1, <1>2 DEF ElectrumInv, CacheNeverBehindReport
<1>8. CacheNeverBehindReport'
  BY <1>7 DEF CacheNeverBehindReport, Read, cacheVars
<1> QED BY <1>3, <1>5, <1>6, <1>7, <1>8 DEF ElectrumInv

\* Time, subscriptions, broadcasts and the other users of the mutexes leave the cache alone.
LEMMA OtherStep ==
    ASSUME ElectrumInv,
           \/ Tick \/ SyncBegin \/ SyncEnd \/ SendBegin \/ SendEnd
           \/ \E t \in Polled : Subscribe(t) \/ Broadcast(t) \/ SubmitFails(t) \/ WaitEnds(t)
    PROVE  ElectrumInv'
<1> USE ElectrumAssumption
<1>1. CASE Tick
  BY <1>1 DEF Tick, ElectrumInv, ElectrumTypeOK, CacheBehindChain, ReaderWorks,
     TrackedIsFetched, CacheNeverBehindReport, FirstStatusFetched, chainVars, lockVars
<1>2. CASE SyncBegin \/ SyncEnd
  <2>1. ElectrumTypeOK'
    BY <1>2 DEF SyncBegin, SyncEnd, Release, Holder, ElectrumInv, ElectrumTypeOK,
       chainVars, cacheVars
  <2>2. step \notin {"latest", "histories", "read"} /\ step' \notin {"latest", "histories", "read"}
    BY <1>2, ReaderFacts DEF SyncBegin, SyncEnd, Release, ElectrumInv, ElectrumTypeOK, ReaderWorks
  <2>3. UNCHANGED <<chainVars, cacheVars, report>>
    BY <1>2 DEF SyncBegin, SyncEnd
  <2> QED BY <2>1, <2>2, <2>3 DEF ElectrumInv, CacheBehindChain, ReaderWorks,
     TrackedIsFetched, CacheNeverBehindReport, FirstStatusFetched, chainVars, cacheVars
<1>3. CASE SendBegin \/ SendEnd
  <2>1. ElectrumTypeOK'
    BY <1>3 DEF SendBegin, SendEnd, Holder, ElectrumInv, ElectrumTypeOK, chainVars, cacheVars
  <2> QED BY <1>3, <2>1 DEF SendBegin, SendEnd, ElectrumInv, CacheBehindChain, ReaderWorks,
     TrackedIsFetched, CacheNeverBehindReport, FirstStatusFetched, chainVars, cacheVars
<1>4. ASSUME NEW t \in Polled, Subscribe(t) \/ Broadcast(t) \/ SubmitFails(t) \/ WaitEnds(t)
      PROVE  ElectrumInv'
  <2>1. ElectrumTypeOK'
    BY <1>4 DEF Subscribe, Broadcast, SubscribeTo, SubmitFails, Fault, WaitEnds, ElectrumInv,
       ElectrumTypeOK, chainVars, cacheVars, lockVars
  <2>2. UNCHANGED <<chainVars, cacheVars, lockVars, report>>
    BY <1>4 DEF Subscribe, Broadcast, SubscribeTo, SubmitFails, WaitEnds
  <2> QED BY <2>1, <2>2 DEF ElectrumInv, CacheBehindChain, ReaderWorks, TrackedIsFetched,
     CacheNeverBehindReport, FirstStatusFetched, chainVars, cacheVars, lockVars
<1> QED BY <1>1, <1>2, <1>3, <1>4

\* A broadcast that succeeds puts a transaction into the mempool that was nowhere.
LEMMA SubmitStep ==
    ASSUME ElectrumInv, NEW t \in Polled, Submit(t)
    PROVE  ElectrumInv'
<1> USE ElectrumAssumption
<1>1. ElectrumTypeOK'
  BY DEF Submit, ElectrumInv, ElectrumTypeOK, cacheVars, lockVars, Absent, Mempool, Tx
<1>2. CacheBehindChain'
  BY DEF Submit, ElectrumInv, ElectrumTypeOK, CacheBehindChain, cacheVars, Absent, Mempool, Tx
<1> QED BY <1>1, <1>2 DEF Submit, ElectrumInv, ReaderWorks, TrackedIsFetched,
   CacheNeverBehindReport, FirstStatusFetched, cacheVars, lockVars

\* Every step keeps the invariant and takes back no status.
LEMMA ElectrumStep ==
    ASSUME ElectrumInv, [ElectrumNext]_electrumVars
    PROVE  ElectrumInv' /\ \A r \in Reader : report'[r] >= report[r]
<1>1. ASSUME report' = report PROVE \A r \in Reader : report'[r] >= report[r]
  BY <1>1 DEF ElectrumInv, ElectrumTypeOK
<1>2. CASE Mine \/ \E t \in Tx : Appear(t)
  BY <1>1, <1>2, ChainStep DEF Mine, Appear
<1>3. ASSUME NEW r \in Reader, Begin(r) \/ FetchFails(r)
      PROVE  ElectrumInv' /\ report' = report
  BY <1>3, RequestStep DEF Begin, FetchFails
<1>4. ASSUME NEW r \in Reader, UpdateLatestBlock(r) \/ UpdateScriptHistories(r)
      PROVE  ElectrumInv' /\ report' = report
  BY <1>4, UpdateStep DEF UpdateLatestBlock, UpdateScriptHistories
<1>5. CASE \/ Tick \/ SyncBegin \/ SyncEnd \/ SendBegin \/ SendEnd
           \/ \E t \in Polled : Subscribe(t) \/ Broadcast(t) \/ SubmitFails(t) \/ WaitEnds(t)
  BY <1>1, <1>5, OtherStep DEF Tick, SyncBegin, SyncEnd, SendBegin, SendEnd, Subscribe,
     Broadcast, SubscribeTo, SubmitFails, WaitEnds
<1>6. ASSUME NEW t \in Polled, Submit(t) PROVE ElectrumInv' /\ report' = report
  BY <1>6, SubmitStep DEF Submit
<1>7. CASE UNCHANGED electrumVars
  BY <1>1, <1>7 DEF electrumVars, ElectrumInv, ElectrumTypeOK, CacheBehindChain, ReaderWorks,
     TrackedIsFetched, CacheNeverBehindReport, FirstStatusFetched, chainVars, cacheVars, lockVars
<1> QED BY <1>1, <1>2, <1>3, <1>4, <1>5, <1>6, <1>7, ReadStep DEF ElectrumNext, ReaderStep

\* The cache is behind the chain and ahead of every report, in every reachable state.
THEOREM ElectrumInvariance == ElectrumSpec => []ElectrumInv
<1>1. ElectrumInit => ElectrumInv
  <2> SUFFICES ASSUME ElectrumInit PROVE ElectrumInv
    OBVIOUS
  <2>1. ElectrumTypeOK
    BY ElectrumAssumption DEF ElectrumInit, ElectrumTypeOK, Absent, NotReported
  <2>2. \A r \in Reader : ScriptStatus(history[r[2]], latest) = Unseen
    BY ReaderFacts DEF ElectrumInit, ScriptStatus
  <2>3. CacheNeverBehindReport
    BY <2>2 DEF CacheNeverBehindReport, ElectrumInit, NotReported, Unseen
  <2> QED BY <2>1, <2>3 DEF ElectrumInv, ElectrumInit, CacheBehindChain, ReaderWorks,
     TrackedIsFetched, FirstStatusFetched, Absent
<1>2. ElectrumInv /\ [ElectrumNext]_electrumVars => ElectrumInv'
  BY ElectrumStep
<1> QED BY <1>1, <1>2, PTL DEF ElectrumSpec

\* Nobody is told of more confirmations than there are, or given an answer that no fetch
\* stands behind, whichever requests fail and however blocks and requests interleave.
THEOREM StatusSoundHolds == ElectrumSpec => []StatusSound
<1>1. ElectrumInv => StatusSound
  <2> SUFFICES ASSUME ElectrumInv, NEW r \in Reader
               PROVE  report[r] <= ScriptStatus(onChain[r[2]], height)
    BY DEF StatusSound, NeverOverstated, ElectrumInv
  <2> DEFINE t == r[2]
  <2>1. /\ height \in Int /\ latest \in Int /\ t \in Tx /\ report[r] \in Int
        /\ onChain[t] \in Int /\ onChain[t] >= Absent
        /\ history[t] \in Int /\ history[t] >= Absent
    BY ReaderFacts DEF ElectrumInv, ElectrumTypeOK, Absent
  <2> HIDE DEF t
  <2>2. ScriptStatus(history[t], latest) <= ScriptStatus(onChain[t], latest)
    BY <2>1, StatusOfHistory DEF ElectrumInv, CacheBehindChain
  <2>3. ScriptStatus(onChain[t], latest) <= ScriptStatus(onChain[t], height)
    BY <2>1, StatusOfTip DEF ElectrumInv, CacheBehindChain
  <2>4. /\ ScriptStatus(history[t], latest) \in Int /\ ScriptStatus(onChain[t], latest) \in Int
        /\ ScriptStatus(onChain[t], height) \in Int
    BY <2>1, StatusIsInt
  <2>5. report[r] <= ScriptStatus(history[t], latest)
    BY DEF ElectrumInv, CacheNeverBehindReport, t
  <2>6. report[r] <= ScriptStatus(onChain[t], height)
    BY <2>1, <2>2, <2>3, <2>4, <2>5
  <2> QED BY <2>6 DEF t
<1> QED BY <1>1, ElectrumInvariance, PTL

\* A status that was reported is never taken back by a later one.
THEOREM StatusNeverGoesBackHolds == ElectrumSpec => StatusNeverGoesBack
<1>1. ElectrumInv /\ [ElectrumNext]_electrumVars
        => [\A r \in Reader : report'[r] >= report[r]]_electrumVars
  BY ElectrumStep
<1> QED BY <1>1, ElectrumInvariance, PTL DEF ElectrumSpec, StatusNeverGoesBack

-----------------------------------------------------------------------------
(* The Beldex wallets                                                      *)

\* Locking and watching: a refund is at most moved on to create_from.
LEMMA LockStep ==
    ASSUME WalletInv, NEW t \in Task,
           LockHeight(t) \/ LockTransfer(t) \/ LockSave(t) \/ Watch(t) \/ Confirm(t)
    PROVE  WalletInv'
<1> USE WalletAssumption DEF Task, LockPc, RefundPc
<1>1. CASE LockHeight(t)
  BY <1>1 DEF LockHeight, Goto, AsbOnly, installVars, WalletInv, WalletTypeOK, InstallTypeOK,
     RefundProgress
<1>2. CASE LockTransfer(t)
  <2>1. funds' \in [Refunder \cup {Main} -> Nat]
    BY <1>2 DEF LockTransfer, WalletInv, WalletTypeOK
  <2> QED BY <1>2, <2>1 DEF LockTransfer, Goto, AsbOnly, installVars, WalletInv, WalletTypeOK,
     InstallTypeOK, RefundProgress
<1>3. CASE LockSave(t)
  BY <1>3 DEF LockSave, Goto, AsbOnly, installVars, WalletInv, WalletTypeOK, InstallTypeOK,
     RefundProgress
<1>4. CASE Watch(t)
  BY <1>4 DEF Watch, NoWalletLoaded, Goto, AsbOnly, installVars, WalletInv, WalletTypeOK,
     InstallTypeOK, RefundProgress
<1>5. CASE Confirm(t)
  BY <1>5 DEF Confirm, AsbOnly, installVars, WalletInv, WalletTypeOK, InstallTypeOK,
     RefundProgress
<1> QED BY <1>1, <1>2, <1>3, <1>4, <1>5

\* create_from: past generate_from_keys the wallet exists, and the default wallet is opened
\* with the very step that records the refund.
LEMMA RefundStep ==
    ASSUME WalletInv, NEW t \in Task,
           \/ RefundClose(t) \/ RefundGenerate(t) \/ RefundRefresh(t) \/ RefundSweep(t)
           \/ RefundReopen(t)
    PROVE  WalletInv'
<1> USE WalletAssumption DEF Task, LockPc, RefundPc
<1>1. CASE RefundClose(t)
  BY <1>1 DEF RefundClose, Goto, AsbOnly, installVars, WalletInv, WalletTypeOK, InstallTypeOK,
     RefundProgress
<1>2. CASE RefundGenerate(t)
  <2>1. t \in Refunder
    BY <1>2 DEF RefundGenerate, WalletInv, RefundProgress
  <2> QED BY <1>2, <2>1 DEF RefundGenerate, Goto, AsbOnly, installVars, WalletInv, WalletTypeOK,
     InstallTypeOK, RefundProgress
<1>3. CASE RefundRefresh(t)
  BY <1>3 DEF RefundRefresh, Goto, AsbOnly, installVars, WalletInv, WalletTypeOK, InstallTypeOK,
     RefundProgress
<1>4. CASE RefundSweep(t)
  <2>1. funds' \in [Refunder \cup {Main} -> Nat]
    BY <1>4 DEF RefundSweep, WalletInv, WalletTypeOK
  <2> QED BY <1>4, <2>1 DEF RefundSweep, Goto, AsbOnly, installVars, WalletInv, WalletTypeOK,
     InstallTypeOK, RefundProgress
<1>5. CASE RefundReopen(t)
  BY <1>5 DEF RefundReopen, Goto, AsbOnly, installVars, WalletInv, WalletTypeOK, InstallTypeOK,
     RefundProgress
<1> QED BY <1>1, <1>2, <1>3, <1>4, <1>5

\* Failed calls, a wallet-rpc that is restarted, and crashes and restarts of the ASB.
LEMMA AsbFaultStep ==
    ASSUME WalletInv,
           \/ \E t \in Task : CallFails(t)
           \/ WalletRpcRestart \/ AsbCrash \/ AsbRestart
    PROVE  WalletInv'
<1> USE WalletAssumption DEF Task, LockPc, RefundPc
<1>1. ASSUME NEW t \in Task, CallFails(t) PROVE WalletInv'
  BY <1>1 DEF CallFails, WFault, Goto, AsbOnly, installVars, WalletInv, WalletTypeOK,
     InstallTypeOK, RefundProgress
<1>2. CASE WalletRpcRestart
  BY <1>2 DEF WalletRpcRestart, WFault, AsbOnly, installVars, WalletInv, WalletTypeOK,
     InstallTypeOK, RefundProgress
<1>3. CASE AsbCrash \/ AsbRestart
  BY <1>3 DEF AsbCrash, AsbRestart, Resumed, WFault, AsbOnly, installVars, WalletInv,
     WalletTypeOK, InstallTypeOK, RefundProgress
<1> QED BY <1>1, <1>2, <1>3

\* What the CLI does leaves the ASB alone, and keeps the types.
LEMMA BobSideStep ==
    ASSUME WalletInv, BobStart \/ BobStep \/ BobCallFails \/ BobCrash
    PROVE  WalletInv'
<1>1. UNCHANGED asbVars
  BY DEF BobStart, BobStep, BobCallFails, BobCrash, BobCreate, BobOpen, BobRefresh, BobSweep,
     BobSave, CliOnly
<1>2. InstallTypeOK'
  <2>1. CASE InstallStep
    BY <2>1 DEF InstallStep, New, CreateNew, Download, UnpackBegin, UnpackEnd, RunProcess,
       WalletInv, WalletTypeOK, InstallTypeOK, File, InstallPhase
  <2>2. CASE InstallFails \/ UNCHANGED installVars
    BY <2>2 DEF InstallFails, installVars, WalletInv, WalletTypeOK, InstallTypeOK, InstallPhase
  <2> QED BY <2>1, <2>2 DEF BobStart, BobStep, BobCallFails, BobCrash, BobCreate, BobOpen,
     BobRefresh, BobSweep, BobSave
<1> DEFINE BobState == [loaded : {"main", "own", "none"}, file : BOOLEAN, funds : 0..1, at : BobPc]
<1>3. bob' \in BobState
  <2>0. bob \in BobState
    BY DEF WalletInv, WalletTypeOK
  <2>1. CASE BobStart
    BY <2>0, <2>1 DEF BobStart, BobPc
  <2>2. CASE BobCreate
    BY <2>0, <2>2 DEF BobCreate, BobPc
  <2>3. CASE BobOpen \/ BobRefresh
    BY <2>0, <2>3 DEF BobOpen, BobRefresh, BobPc
  <2>4. CASE BobSweep
    <3>1. CASE bob.funds > 0
      <4>1. bob' = [bob EXCEPT !.funds = 0, !.at = "swept"]
        BY <2>4, <3>1 DEF BobSweep
      <4>2. bob' = [loaded |-> bob.loaded, file |-> bob.file, funds |-> 0, at |-> "swept"]
        BY <2>0, <4>1
      <4>3. 0 \in 0..1 /\ "swept" \in BobPc
        BY DEF BobPc
      <4> QED BY <2>0, <4>2, <4>3
    <3>2. CASE ~(bob.funds > 0)
      BY <2>0, <2>4, <3>2 DEF BobSweep, BobPc
    <3> QED BY <3>1, <3>2
  <2>5. CASE BobSave
    BY <2>0, <2>5 DEF BobSave, BobPc
  <2>6. CASE BobCallFails
    BY <2>0, <2>6 DEF BobCallFails, BobPc
  <2>7. CASE BobCrash
    BY <2>0, <2>7 DEF BobCrash, BobPc
  <2> QED BY <2>1, <2>2, <2>3, <2>4, <2>5, <2>6, <2>7 DEF BobStep
<1>4. wFaults' \in 0..MaxFaults
  BY WalletAssumption DEF BobStart, BobStep, BobCallFails, BobCrash, BobCreate, BobOpen,
     BobRefresh, BobSweep, BobSave, WFault, WalletInv, WalletTypeOK
<1> QED BY <1>1, <1>2, <1>3, <1>4 DEF WalletInv, WalletTypeOK, RefundProgress, asbVars

\* A refund past generate_from_keys has its wallet, through crashes, failed calls and
\* other swaps that load and close wallets.
THEOREM WalletInvariance == WalletSpec => []WalletInv
<1>1. WalletInit => WalletInv
  BY WalletAssumption DEF WalletInit, WalletInv, WalletTypeOK, RefundProgress, InstallInit,
     InstallTypeOK, File, InstallPhase, Task, LockPc, RefundPc, BobPc
<1>2. WalletInv /\ [WalletNext]_walletVars => WalletInv'
  <2> SUFFICES ASSUME WalletInv, [WalletNext]_walletVars PROVE WalletInv'
    OBVIOUS
  <2>1. CASE UNCHANGED walletVars
    BY <2>1 DEF walletVars, asbVars, installVars, WalletInv, WalletTypeOK, InstallTypeOK,
       RefundProgress
  <2> QED BY <2>1, LockStep, RefundStep, AsbFaultStep, BobSideStep DEF WalletNext, TaskStep
<1> QED BY <1>1, <1>2, PTL DEF WalletSpec

\* A recorded refund is kept: its BDX can be reached and its wallet is put away.
THEOREM RefundKeptHolds == WalletSpec => []RefundKept
<1>1. WalletInv => RefundKept
  BY DEF WalletInv, RefundProgress, RefundKept, RefundRecoverable, RefundWalletPutAway
<1> QED BY <1>1, WalletInvariance, PTL
=============================================================================
