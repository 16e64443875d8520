---------------------------- MODULE BeldexWallet ----------------------------
(***************************************************************************)
(* The Beldex wallets of both sides (beldex/wallet.rs, and the parts of    *)
(* protocol/alice and protocol/bob that use it).                           *)
(*                                                                         *)
(* The ASB has one wallet-rpc with one loaded wallet for all its swaps:    *)
(* some lock BDX (block_height, transfer, watch_for_transfer), some refund *)
(* them (watch_for_transfer, create_from), each call under a mutex of its  *)
(* own.  Bob's CLI has a wallet-rpc process that it installs and starts    *)
(* itself (WalletRpc), and redeems with redeem_bdx.  What wallet-rpc does  *)
(* at a call is external: without a loaded wallet every call fails, and    *)
(* generate_from_keys fails when the file exists.                          *)
(***************************************************************************)
EXTENDS FiniteSets, Naturals, WalletRpc

CONSTANTS
    Locker,     \* Alice's swaps that lock BDX
    Refunder,   \* Alice's swaps that refund them
    Main,       \* the default wallet
    NoWallet,
    MainFunds,  \* what Alice's default wallet holds; a swap is for one
    MaxFaults   \* bound on crashes, restarts of wallet-rpc and errors of calls

ASSUME WalletAssumption ==
    /\ Main \notin Refunder /\ NoWallet \notin Refunder \cup {Main}
    /\ Locker \cap Refunder = {} /\ MainFunds \in Nat /\ MaxFaults \in Nat

Task == Locker \cup Refunder

VARIABLES
    loaded,     \* the wallet that the ASB's wallet-rpc has loaded
    files,      \* refund wallets whose file exists
    funds,      \* what is in each wallet of Alice
    confirmed,  \* swaps whose lock transaction has the confirmations that are waited for
    stored,     \* Alice's stored state of each swap
    pc,         \* where the task of each swap is
    bob,        \* Bob's redeeming: the wallet loaded, its file, the BDX in it,
                \* the task and the stored outcome
    wFaults     \* history: faults so far

asbVars == <<loaded, files, funds, confirmed, stored, pc>>
walletVars == <<asbVars, bob, installVars, wFaults>>

LockPc == {"start", "height", "sent"}
RefundPc == {"close", "generate", "refresh", "sweep", "reopen"}
BobPc == {"off", "create", "open", "refresh", "sweep", "swept", "redeemed"}

WalletTypeOK ==
    /\ InstallTypeOK
    /\ loaded \in Refunder \cup {Main, NoWallet}
    /\ files \subseteq Refunder
    /\ funds \in [Refunder \cup {Main} -> Nat]
    /\ confirmed \subseteq Task
    /\ stored \in [Task -> {"start", "watch", "done"}]
    /\ pc \in [Task -> LockPc \cup RefundPc \cup {"watch", "done", "failed"}]
    /\ bob \in [loaded : {"main", "own", "none"}, file : BOOLEAN, funds : 0..1, at : BobPc]
    /\ wFaults \in 0..MaxFaults

\* Before a refund the BDX are at the address of the swap, where the refund wallet
\* will find them.
WalletInit ==
    /\ InstallInit
    /\ loaded = Main
    /\ files = {}
    /\ funds = [w \in Refunder \cup {Main} |-> IF w = Main THEN MainFunds ELSE 1]
    /\ confirmed = {}
    /\ stored = [t \in Task |-> IF t \in Locker THEN "start" ELSE "watch"]
    /\ pc = stored
    /\ bob = [loaded |-> "none", file |-> FALSE, funds |-> 1, at |-> "off"]
    /\ wFaults = 0

AsbOnly == UNCHANGED <<bob, installVars>>
WFault == wFaults < MaxFaults /\ wFaults' = wFaults + 1
Goto(t, at) == pc' = [pc EXCEPT ![t] = at]

-----------------------------------------------------------------------------
(* Locking                                                                 *)

\* block_height, for the restore height that is stored with the proof.
LockHeight(l) ==
    /\ pc[l] = "start"
    /\ Goto(l, IF loaded = NoWallet THEN "failed" ELSE "height")
    /\ UNCHANGED <<loaded, files, funds, confirmed, stored, wFaults>> /\ AsbOnly

\* Mutant: the answer of wallet-rpc is not looked at, only that there is one.
LockTransferUnchecked(l) ==
    /\ pc[l] = "height"
    /\ IF loaded # NoWallet
       THEN funds' = [funds EXCEPT ![loaded] = @ - 1] /\ Goto(l, "sent")
       ELSE UNCHANGED funds /\ Goto(l, "failed")
    /\ UNCHANGED <<loaded, files, confirmed, stored, wFaults>> /\ AsbOnly

\* transfer, out of whichever wallet is loaded.
LockTransfer(l) ==
    /\ pc[l] = "height"
    /\ IF loaded # NoWallet /\ funds[loaded] > 0
       THEN funds' = [funds EXCEPT ![loaded] = @ - 1] /\ Goto(l, "sent")
       ELSE UNCHANGED funds /\ Goto(l, "failed")
    /\ UNCHANGED <<loaded, files, confirmed, stored, wFaults>> /\ AsbOnly

\* BeldexLockTransactionSent is stored.
LockSave(l) ==
    /\ pc[l] = "sent"
    /\ stored' = [stored EXCEPT ![l] = "watch"]
    /\ Goto(l, "watch")
    /\ UNCHANGED <<loaded, files, funds, confirmed, wFaults>> /\ AsbOnly

Confirm(t) ==
    /\ t \notin confirmed
    /\ stored[t] = "watch"
    /\ confirmed' = confirmed \cup {t}
    /\ UNCHANGED <<loaded, files, funds, stored, pc, wFaults>> /\ AsbOnly

\* Mutant: every error is only waited out.
NoWalletLoadedIgnored == UNCHANGED loaded

\* Error -13: the default wallet is opened.
NoWalletLoaded == loaded' = Main

\* A round of wait_for_confirmations, under the mutex.  Any loaded wallet can answer.
Watch(t) ==
    /\ pc[t] = "watch"
    /\ IF loaded = NoWallet
       THEN NoWalletLoaded /\ UNCHANGED <<stored, pc>>
       ELSE /\ t \in confirmed
            /\ UNCHANGED loaded
            /\ IF t \in Locker
               THEN stored' = [stored EXCEPT ![t] = "done"] /\ Goto(t, "done")
               ELSE UNCHANGED stored /\ Goto(t, "close")
    /\ UNCHANGED <<files, funds, confirmed, wFaults>> /\ AsbOnly

-----------------------------------------------------------------------------
(* create_from                                                             *)

RefundClose(r) ==
    /\ pc[r] = "close"
    /\ loaded' = NoWallet
    /\ Goto(r, IF loaded = NoWallet THEN "failed" ELSE "generate")
    /\ UNCHANGED <<files, funds, confirmed, stored, wFaults>> /\ AsbOnly

\* Mutant: a failure is logged, as that of the sweep is.
RefundGenerateLogged(r) ==
    /\ pc[r] = "generate"
    /\ \/ r \notin files /\ files' = files \cup {r} /\ loaded' = r
       \/ UNCHANGED <<files, loaded>>
    /\ Goto(r, "refresh")
    /\ UNCHANGED <<funds, confirmed, stored, wFaults>> /\ AsbOnly

\* generate_from_keys leaves the new wallet loaded.
RefundGenerate(r) ==
    /\ pc[r] = "generate"
    /\ IF r \in files
       THEN Goto(r, "failed") /\ UNCHANGED <<files, loaded>>
       ELSE Goto(r, "refresh") /\ files' = files \cup {r} /\ loaded' = r
    /\ UNCHANGED <<funds, confirmed, stored, wFaults>> /\ AsbOnly

\* refresh(3); when it fails there is no sweep.
RefundRefresh(r) ==
    /\ pc[r] = "refresh"
    /\ Goto(r, IF loaded = NoWallet THEN "reopen" ELSE "sweep")
    /\ UNCHANGED <<loaded, files, funds, confirmed, stored, wFaults>> /\ AsbOnly

\* Mutant: a failed sweep ends the refund.
RefundSweepReturns(r) ==
    /\ pc[r] = "sweep"
    /\ \/ /\ loaded # NoWallet
          /\ funds' = IF loaded = Main THEN funds
                      ELSE [funds EXCEPT ![Main] = @ + funds[loaded], ![loaded] = 0]
          /\ Goto(r, "reopen") /\ UNCHANGED stored
       \/ Goto(r, "done") /\ stored' = [stored EXCEPT ![r] = "done"] /\ UNCHANGED funds
    /\ UNCHANGED <<loaded, files, confirmed, wFaults>> /\ AsbOnly

\* sweep_all empties whichever wallet is loaded; a failure is only logged.
RefundSweep(r) ==
    /\ pc[r] = "sweep"
    /\ Goto(r, "reopen")
    /\ funds' = IF loaded \in {Main, NoWallet} THEN funds
                ELSE [funds EXCEPT ![Main] = @ + funds[loaded], ![loaded] = 0]
    /\ UNCHANGED <<loaded, files, confirmed, stored, wFaults>> /\ AsbOnly

\* The default wallet is opened again and BeldexRefunded stored.
RefundReopen(r) ==
    /\ pc[r] = "reopen"
    /\ loaded' = Main
    /\ Goto(r, "done")
    /\ stored' = [stored EXCEPT ![r] = "done"]
    /\ UNCHANGED <<files, funds, confirmed, wFaults>> /\ AsbOnly

-----------------------------------------------------------------------------
(* Faults of the ASB                                                       *)

\* A call fails: it ends the swap's task, except where it is only logged.
CallFails(t) ==
    /\ pc[t] \in LockPc \cup RefundPc
    /\ WFault
    /\ Goto(t, CASE pc[t] = "sent" -> "sent"
                 [] pc[t] \in {"refresh", "sweep"} -> "reopen"
                 [] OTHER -> "failed")
    /\ UNCHANGED <<loaded, files, funds, confirmed, stored>> /\ AsbOnly

\* wallet-rpc is restarted, by whoever runs it.
WalletRpcRestart ==
    /\ WFault
    /\ loaded' = NoWallet
    /\ UNCHANGED <<files, funds, confirmed, stored, pc>> /\ AsbOnly

\* Mutant: a swap whose task has failed is left out.
ResumedIfRunning ==
    /\ pc' = [t \in Task |-> IF pc[t] = "failed" THEN "failed" ELSE stored[t]]
    /\ loaded' = Main

\* open_or_create, and every unfinished swap is resumed from its stored state.
Resumed ==
    /\ pc' = stored
    /\ loaded' = Main

AsbCrash ==
    /\ WFault
    /\ Resumed
    /\ UNCHANGED <<files, funds, confirmed, stored>> /\ AsbOnly

\* A swap that has failed is resumed by the next start, once no task runs.
AsbRestart ==
    /\ \A t \in Task : pc[t] \in {"done", "failed"}
    /\ \E t \in Task : pc[t] = "failed"
    /\ Resumed
    /\ UNCHANGED <<files, funds, confirmed, stored, wFaults>> /\ AsbOnly

-----------------------------------------------------------------------------
(* Bob                                                                     *)

CliOnly == UNCHANGED asbVars

\* The process is up: the default wallet is opened, or created, and the swap resumed.
BobStart ==
    /\ InstallStep
    /\ bob' = IF install' = "up" THEN [bob EXCEPT !.loaded = "main", !.at = "create"] ELSE bob
    /\ CliOnly /\ UNCHANGED wFaults

\* Mutant: a wallet that cannot be generated ends the attempt.
BobCreateStrict ==
    /\ bob.at = "create"
    /\ bob' = IF bob.loaded # "none" /\ ~bob.file
              THEN [bob EXCEPT !.loaded = "own", !.file = TRUE, !.at = "refresh"]
              ELSE [bob EXCEPT !.loaded = "none", !.at = "create"]
    /\ CliOnly /\ UNCHANGED <<installVars, wFaults>>

\* create_from_and_load: closes what is loaded and generates, under one lock.
BobCreate ==
    /\ bob.at = "create"
    /\ bob' = IF bob.loaded # "none" /\ ~bob.file
              THEN [bob EXCEPT !.loaded = "own", !.file = TRUE, !.at = "refresh"]
              ELSE [bob EXCEPT !.loaded = "none", !.at = "open"]
    /\ CliOnly /\ UNCHANGED <<installVars, wFaults>>

\* The fallback: the wallet might already exist.
BobOpen ==
    /\ bob.at = "open"
    /\ bob' = IF bob.file THEN [bob EXCEPT !.loaded = "own", !.at = "refresh"]
                          ELSE [bob EXCEPT !.at = "create"]
    /\ CliOnly /\ UNCHANGED <<installVars, wFaults>>

BobRefresh ==
    /\ bob.at = "refresh"
    /\ bob' = [bob EXCEPT !.at = "sweep"]
    /\ CliOnly /\ UNCHANGED <<installVars, wFaults>>

\* An empty wallet is an error; the swap is resumed at the same state.
BobSweep ==
    /\ bob.at = "sweep"
    /\ bob' = IF bob.funds > 0 THEN [bob EXCEPT !.funds = 0, !.at = "swept"]
                               ELSE [bob EXCEPT !.at = "create"]
    /\ CliOnly /\ UNCHANGED <<installVars, wFaults>>

\* BeldexRedeemed is stored.
BobSave ==
    /\ bob.at = "swept"
    /\ bob' = [bob EXCEPT !.at = "redeemed"]
    /\ CliOnly /\ UNCHANGED <<installVars, wFaults>>

\* A call fails; the swap is resumed over the same process.  The create may fail
\* before or after the loaded wallet is closed.
BobCallFails ==
    /\ bob.at \in {"create", "open", "refresh", "sweep"}
    /\ WFault
    /\ \E kept \in {bob.loaded, "none"} :
          /\ bob.at # "create" => kept = bob.loaded
          /\ bob' = [bob EXCEPT !.at = IF @ = "create" THEN "open" ELSE "create",
                                !.loaded = kept]
    /\ CliOnly /\ UNCHANGED installVars

\* The CLI stops or crashes, and the process with it.
BobCrash ==
    /\ WFault
    /\ InstallFails
    /\ bob' = [bob EXCEPT !.loaded = "none", !.at = IF @ = "redeemed" THEN @ ELSE "off"]
    /\ CliOnly

-----------------------------------------------------------------------------

TaskStep(t) ==
    \/ LockHeight(t) \/ LockTransfer(t) \/ LockSave(t) \/ Watch(t)
    \/ RefundClose(t) \/ RefundGenerate(t) \/ RefundRefresh(t) \/ RefundSweep(t)
    \/ RefundReopen(t)

BobStep ==
    \/ BobCreate \/ BobOpen \/ BobRefresh \/ BobSweep \/ BobSave

WalletNext ==
    \/ \E t \in Task : TaskStep(t) \/ Confirm(t) \/ CallFails(t)
    \/ WalletRpcRestart \/ AsbCrash \/ AsbRestart
    \/ BobStart \/ BobStep \/ BobCallFails \/ BobCrash

\* Tasks that can go on do, blocks are mined, and whoever runs a side starts it again.
WalletFairness ==
    /\ \A t \in Task : WF_walletVars(TaskStep(t)) /\ WF_walletVars(Confirm(t))
    /\ WF_walletVars(AsbRestart)
    /\ WF_walletVars(BobStart) /\ WF_walletVars(BobStep)

WalletSpec == WalletInit /\ [][WalletNext]_walletVars
FairWalletSpec == WalletSpec /\ WalletFairness

-----------------------------------------------------------------------------

\* A refund that is recorded has not lost the BDX: they have been moved, or the wallet
\* that holds them exists, whatever other swaps did to the loaded wallet meanwhile.
RefundRecoverable ==
    \A r \in Refunder : stored[r] = "done" => funds[r] = 0 \/ r \in files

\* The wallet of a refund is loaded only while the refund goes on or after it has
\* failed; when it is recorded, nobody works on it by mistake any more.
RefundWalletPutAway ==
    \A r \in Refunder : loaded = r => stored[r] # "done"

\* A swap that watches its lock transaction does not wait for ever, even if another
\* swap's refund or wallet-rpc itself has left no wallet loaded.
WatchConcludes ==
    \A l \in Locker : (pc[l] = "watch") ~> (pc[l] # "watch")

\* The refunds are all recorded in the end, unless one was stopped after its wallet had
\* been generated: that one fails at every later attempt, and may take others with it,
\* as it closes the default wallet each time.
RefundsConclude ==
    <>(\/ \A r \in Refunder : stored[r] = "done"
       \/ \E r \in files : stored[r] # "done" /\ pc[r] \in {"watch", "failed"})

\* Bob's redeeming comes to its end through errors and crashes, thanks to the
\* fallback to the wallet that exists (a stop between the sweep and the database leaves
\* it unrecorded), and what is left of a download never keeps wallet-rpc from starting.
\* Two things keep it from its end for good: an executable that was cut off, and a
\* wallet-rpc that runs without a wallet while the one of the swap was never generated,
\* as create_from_and_load can close nothing then; only a restart helps.
RedeemConcludes ==
    \/ <>(bob.at = "redeemed" \/ bob.funds = 0)
    \/ <>[](exec = "partial")
    \/ <>[](install = "up" /\ bob.loaded = "none" /\ ~bob.file)

\* A recorded refund is kept: its BDX can be reached, and no other swap works on its
\* wallet by mistake.
RefundKept == WalletTypeOK /\ RefundRecoverable /\ RefundWalletPutAway

-----------------------------------------------------------------------------
(* The inductive invariant behind RefundKept                               *)

\* A refund has got past generate_from_keys only if its wallet exists, its task and its
\* stored state end together, and no swap does the other kind's work.
RefundProgress ==
    /\ \A r \in Refunder :
         /\ pc[r] \notin LockPc /\ stored[r] # "start"
         /\ stored[r] = "done" <=> pc[r] = "done"
         /\ pc[r] \in {"refresh", "sweep", "reopen", "done"} => r \in files
         /\ loaded = r => pc[r] # "done"
    /\ \A l \in Locker : pc[l] \notin RefundPc

\* What every step of either side and of wallet-rpc keeps.
WalletInv == WalletTypeOK /\ RefundProgress
=============================================================================
