--------------------------- MODULE ElectrumClient ---------------------------
(***************************************************************************)
(* How both sides learn what happens on the Bitcoin chain                  *)
(* (bitcoin/wallet.rs): a client with a cache of script histories and of   *)
(* the latest height, behind a mutex; a polling task for every             *)
(* subscription; direct calls; and the wallet, behind a mutex of its own,  *)
(* that sync and the functions which build transactions take together      *)
(* with the client's.  The Electrum server and the chain are external;     *)
(* the chain is not reorganised.                                           *)
(***************************************************************************)
EXTENDS Integers

CONSTANTS
    Polled,      \* transactions that swaps subscribe to, each with a script of its own
    Called,      \* transactions that are asked about by calls
    Free,        \* nobody holds the mutex
    Target,      \* confirmations that are waited for
    MaxHeight,   \* bound on the height of the chain
    MaxFetchFaults  \* bound on failed requests

\* The tasks of the subscriptions and the direct calls read; sync, and what builds a
\* transaction, hold the mutexes too.
Tx == Polled \cup Called
Reader == ({"poll"} \X Polled) \cup ({"call"} \X Called)
Syncer == <<"sync">>
Sender == <<"send">>
Holder == Reader \cup {Syncer, Sender}

ASSUME ElectrumAssumption ==
    /\ Target \in Nat \ {0} /\ MaxHeight \in Nat \ {0} /\ MaxFetchFaults \in Nat
    /\ Free \notin Holder

VARIABLES
    height,      \* of the chain
    onChain,     \* where each transaction is: Absent, Mempool or the height of its block
    latest,      \* latest_block_height
    tracked,     \* the keys of script_history
    history,     \* its values
    due,         \* sync_interval has passed since last_sync
    client,      \* who holds the mutex of the client
    step,        \* what the holder is doing
    wallet,      \* who holds the mutex of the wallet
    subscribed,  \* the keys of subscriptions; each has a task that polls
    report,      \* the status each task has sent and each caller was last given
    waiter,      \* the swap that subscribed and waits
    fetched,     \* history: scripts that a fetch included
    lost,        \* history: scripts whose first fetch failed
    fetchFaults  \* history: requests that failed

chainVars == <<height, onChain>>
cacheVars == <<latest, tracked, history, due, fetched, lost>>
lockVars == <<client, step, wallet>>
electrumVars == <<chainVars, cacheVars, lockVars, subscribed, report, waiter, fetchFaults>>

Absent == -1
Mempool == 0

\* A status as a number: Unseen, InMempool, or the confirmations.  NotReported is the
\* value a channel is made with, which no predicate tells from Unseen.
NotReported == -2
Unseen == -1
InMempool == 0


\* Mutant: the depth is not kept from going below zero.
ScriptStatusWrapping(at, tip) ==
    IF at = Absent THEN Unseen ELSE IF at = Mempool THEN InMempool
    ELSE ((tip - at) % (2 * MaxHeight)) + 1

\* status_of_script of the history of a transaction, with from_inclusion_and_latest_block.
ScriptStatus(at, tip) ==
    IF at = Absent THEN Unseen ELSE IF at = Mempool THEN InMempool
    ELSE (IF tip < at THEN 0 ELSE tip - at) + 1

ElectrumTypeOK ==
    /\ height \in 1..MaxHeight
    /\ onChain \in [Tx -> Absent..MaxHeight]
    /\ latest \in 1..MaxHeight
    /\ tracked \subseteq Tx /\ subscribed \subseteq Polled
    /\ fetched \subseteq tracked /\ lost \subseteq tracked
    /\ history \in [Tx -> Absent..MaxHeight]
    /\ due \in BOOLEAN
    /\ client \in Holder \cup {Free} /\ wallet \in Holder \cup {Free}
    /\ step \in {"idle", "latest", "histories", "read", "wallet"}
    /\ client = Free <=> step = "idle"
    /\ report \in [Reader -> Int]
    /\ waiter \in [Polled -> {"idle", "submitting", "waiting", "done"}]
    /\ fetchFaults \in 0..MaxFetchFaults

\* Client::new fetches the height, and counts the interval as passed.
ElectrumInit ==
    /\ height = 1 /\ latest = 1
    /\ onChain = [t \in Tx |-> Absent] /\ history = [t \in Tx |-> Absent]
    /\ tracked = {} /\ subscribed = {} /\ fetched = {} /\ lost = {}
    /\ due = TRUE
    /\ client = Free /\ wallet = Free /\ step = "idle"
    /\ report = [r \in Reader |-> NotReported]
    /\ waiter = [t \in Polled |-> "idle"]
    /\ fetchFaults = 0

Fault == fetchFaults < MaxFetchFaults /\ fetchFaults' = fetchFaults + 1
Release == client' = Free /\ step' = "idle"

-----------------------------------------------------------------------------
(* The world outside                                                       *)

Mine ==
    /\ height < MaxHeight
    /\ height' = height + 1
    /\ \E included \in SUBSET {t \in Tx : onChain[t] = Mempool} :
         onChain' = [t \in Tx |-> IF t \in included THEN height + 1 ELSE onChain[t]]
    /\ UNCHANGED <<cacheVars, lockVars, subscribed, report, waiter, fetchFaults>>

\* The other side publishes it.
Appear(t) ==
    /\ onChain[t] = Absent
    /\ onChain' = [onChain EXCEPT ![t] = Mempool]
    /\ UNCHANGED <<height, cacheVars, lockVars, subscribed, report, waiter, fetchFaults>>

Tick ==
    /\ ~due
    /\ due' = TRUE
    /\ UNCHANGED <<chainVars, latest, tracked, history, fetched, lost, lockVars>>
    /\ UNCHANGED <<subscribed, report, waiter, fetchFaults>>

-----------------------------------------------------------------------------
(* The client                                                              *)

\* Who may ask: the task of a subscription, at every round, and anyone by a call.
MayAsk(r) == r[1] = "poll" => r[2] \in subscribed

\* Mutant: the first request of a script waits for the interval too.
BeginUnforced(r) ==
    /\ MayAsk(r)
    /\ client = Free
    /\ client' = r
    /\ tracked' = tracked \cup {r[2]}
    /\ due' = FALSE
    /\ step' = IF due THEN "latest" ELSE "read"
    /\ UNCHANGED <<chainVars, latest, history, fetched, lost, wallet>>
    /\ UNCHANGED <<subscribed, report, waiter, fetchFaults>>

\* status_of_script and script_history_for: a script that is new is inserted with an
\* empty history and the update forced; last_sync is set before anything is fetched.
Begin(r) ==
    /\ MayAsk(r)
    /\ client = Free
    /\ client' = r
    /\ tracked' = tracked \cup {r[2]}
    /\ due' = FALSE
    /\ step' = IF due \/ r[2] \notin tracked THEN "latest" ELSE "read"
    /\ UNCHANGED <<chainVars, latest, history, fetched, lost, wallet>>
    /\ UNCHANGED <<subscribed, report, waiter, fetchFaults>>

UpdateLatestBlock(r) ==
    /\ client = r /\ step = "latest"
    /\ latest' = IF height > latest THEN height ELSE latest
    /\ step' = "histories"
    /\ UNCHANGED <<chainVars, tracked, history, due, fetched, lost, client, wallet>>
    /\ UNCHANGED <<subscribed, report, waiter, fetchFaults>>

\* One batch for every script that is tracked.
UpdateScriptHistories(r) ==
    /\ client = r /\ step = "histories"
    /\ history' = [t \in Tx |-> IF t \in tracked THEN onChain[t] ELSE history[t]]
    /\ fetched' = fetched \cup tracked
    /\ step' = "read"
    /\ UNCHANGED <<chainVars, latest, tracked, due, lost, client, wallet>>
    /\ UNCHANGED <<subscribed, report, waiter, fetchFaults>>

\* Mutant: what was fetched before is discarded.
FetchFailsClears(r) ==
    /\ client = r /\ step \in {"latest", "histories"}
    /\ Fault
    /\ Release
    /\ history' = [t \in Tx |-> Absent]
    /\ lost' = lost \cup ({r[2]} \ fetched)
    /\ UNCHANGED <<chainVars, latest, tracked, due, fetched, wallet>>
    /\ UNCHANGED <<subscribed, report, waiter>>

\* Mutant: the task of a subscription ends at an error.
FetchFailsEndsTask(r) ==
    /\ client = r /\ step \in {"latest", "histories"}
    /\ Fault
    /\ Release
    /\ lost' = lost \cup ({r[2]} \ fetched)
    /\ subscribed' = IF r[1] = "poll" THEN subscribed \ {r[2]} ELSE subscribed
    /\ UNCHANGED <<chainVars, latest, tracked, history, due, fetched, wallet>>
    /\ UNCHANGED <<report, waiter>>

\* A request fails.  A caller gets the error; a task takes it as Retrying, sends
\* nothing, and polls again.
FetchFails(r) ==
    /\ client = r /\ step \in {"latest", "histories"}
    /\ Fault
    /\ Release
    /\ lost' = lost \cup ({r[2]} \ fetched)
    /\ UNCHANGED <<chainVars, latest, tracked, history, due, fetched, wallet>>
    /\ UNCHANGED <<subscribed, report, waiter>>

\* Mutant: the guard of the mutex outlives the call.
ReadKeepsLock(r) ==
    /\ client = r /\ step = "read"
    /\ report' = [report EXCEPT ![r] = ScriptStatus(history[r[2]], latest)]
    /\ step' = "idle"
    /\ UNCHANGED <<client, chainVars, cacheVars, wallet, subscribed, waiter, fetchFaults>>

\* The status is read off the cache, returned, and by a task sent to the channel.
Read(r) ==
    /\ client = r /\ step = "read"
    /\ report' = [report EXCEPT ![r] = ScriptStatus(history[r[2]], latest)]
    /\ Release
    /\ UNCHANGED <<chainVars, cacheVars, wallet, subscribed, waiter, fetchFaults>>

-----------------------------------------------------------------------------
(* Subscriptions and broadcasts                                            *)

\* subscribe_to: the task of an earlier subscription is shared.  The map keeps a
\* receiver of its own, so that a task never sees all receivers gone.
SubscribeTo(t, next) ==
    /\ client = Free
    /\ waiter[t] = "idle"
    /\ waiter' = [waiter EXCEPT ![t] = next]
    /\ subscribed' = subscribed \cup {t}
    /\ UNCHANGED <<chainVars, cacheVars, lockVars, report, fetchFaults>>

Subscribe(t) == SubscribeTo(t, "waiting")

\* broadcast subscribes first.
Broadcast(t) == SubscribeTo(t, "submitting")

\* Publishing what is there already succeeds.
Submit(t) ==
    /\ client = Free
    /\ waiter[t] = "submitting"
    /\ onChain' = [onChain EXCEPT ![t] = IF @ = Absent THEN Mempool ELSE @]
    /\ waiter' = [waiter EXCEPT ![t] = "waiting"]
    /\ UNCHANGED <<height, cacheVars, lockVars, subscribed, report, fetchFaults>>

\* The server refuses; the subscription stays.
SubmitFails(t) ==
    /\ client = Free
    /\ waiter[t] = "submitting"
    /\ Fault
    /\ waiter' = [waiter EXCEPT ![t] = "idle"]
    /\ UNCHANGED <<chainVars, cacheVars, lockVars, subscribed, report>>

\* wait_until, for a predicate that asks for Target confirmations.
WaitEnds(t) ==
    /\ waiter[t] = "waiting"
    /\ report[<<"poll", t>>] >= Target
    /\ waiter' = [waiter EXCEPT ![t] = "done"]
    /\ UNCHANGED <<chainVars, cacheVars, lockVars, subscribed, report, fetchFaults>>

-----------------------------------------------------------------------------
(* Both mutexes                                                            *)

\* sync takes the client's mutex and then the wallet's.
SyncBegin ==
    /\ client = Free
    /\ client' = Syncer /\ step' = "wallet"
    /\ UNCHANGED <<wallet, chainVars, cacheVars, subscribed, report, waiter, fetchFaults>>

SyncEnd ==
    /\ client = Syncer
    /\ wallet = Free
    /\ Release
    /\ UNCHANGED <<wallet, chainVars, cacheVars, subscribed, report, waiter, fetchFaults>>

\* send_to_address and max_giveable take the wallet's mutex and then the client's.
SendBegin ==
    /\ wallet = Free
    /\ wallet' = Sender
    /\ UNCHANGED <<client, step, chainVars, cacheVars, subscribed, report, waiter>>
    /\ UNCHANGED fetchFaults

SendEnd ==
    /\ wallet = Sender
    /\ client = Free
    /\ wallet' = Free
    /\ UNCHANGED <<client, step, chainVars, cacheVars, subscribed, report, waiter>>
    /\ UNCHANGED fetchFaults

-----------------------------------------------------------------------------

ReaderStep(r) ==
    \/ UpdateLatestBlock(r) \/ UpdateScriptHistories(r) \/ Read(r)

ElectrumNext ==
    \/ Mine \/ Tick
    \/ \E r \in Reader : Begin(r) \/ ReaderStep(r) \/ FetchFails(r)
    \/ \E t \in Tx : Appear(t)
    \/ \E t \in Polled :
         \/ Subscribe(t) \/ Broadcast(t) \/ Submit(t) \/ SubmitFails(t)
         \/ WaitEnds(t)
    \/ SyncBegin \/ SyncEnd \/ SendBegin \/ SendEnd

\* Tokio's mutexes are served in order, so whoever waits for one that is released again
\* and again gets it; time passes; the server answers or fails.
ElectrumFairness ==
    /\ WF_electrumVars(Tick)
    /\ \A r \in Reader : WF_electrumVars(ReaderStep(r))
    /\ \A t \in Polled :
         /\ SF_electrumVars(Begin(<<"poll", t>>))
         /\ WF_electrumVars(WaitEnds(t))
    /\ SF_electrumVars(SyncEnd) /\ SF_electrumVars(SendEnd)

ElectrumSpec == ElectrumInit /\ [][ElectrumNext]_electrumVars
FairElectrumSpec == ElectrumSpec /\ ElectrumFairness

-----------------------------------------------------------------------------

\* Nobody is told of more confirmations than there are, although a block may be found
\* between the two requests of an update, so that a transaction is in a block above the
\* latest one that is known.
NeverOverstated ==
    \A r \in Reader : report[r] <= ScriptStatus(onChain[r[2]], height)

\* A status that was reported is never taken back by a later one, whichever requests
\* fail in between.
StatusNeverGoesBack ==
    [][\A r \in Reader : report'[r] >= report[r]]_electrumVars

\* The first status of a script comes from a fetch that included it, not from the empty
\* history it was inserted with; except after that very fetch has failed, as last_sync
\* is set by then and the next request takes the empty history for an answer.
FirstStatusFetched ==
    \A r \in Reader : report[r] # NotReported => r[2] \in fetched \cup lost

\* sync has the client's mutex and waits for the wallet's, whose holder waits for the
\* client's: every poll, call and broadcast waits for ever.
LockInversion == step = "wallet" /\ wallet # Free

\* A swap that waits for confirmations which are there is told of them, through any
\* errors of the server, unless the two mutexes are taken in the two orders at once.
WaitConcludes ==
    \A t \in Polled :
        (waiter[t] = "waiting" /\ ScriptStatus(onChain[t], height) >= Target)
            ~> (waiter[t] = "done" \/ LockInversion)

\* A status that is handed out is sound: it never claims more depth than the chain has,
\* and a script that was never asked about is not called unseen unless asking failed.
StatusSound == ElectrumTypeOK /\ NeverOverstated /\ FirstStatusFetched
-----------------------------------------------------------------------------
(* The inductive invariant behind StatusSound and StatusNeverGoesBack      *)

\* The cache is behind the chain, never beside it: what it has of a transaction is what
\* the chain has, or what it had earlier.
CacheBehindChain ==
    /\ latest <= height
    /\ \A t \in Tx :
         /\ onChain[t] <= height
         /\ \/ history[t] \in {onChain[t], Absent}
            \/ history[t] = Mempool /\ onChain[t] > Mempool

\* Only a reader updates or reads the cache, and its script is tracked by then.
ReaderWorks ==
    step \in {"latest", "histories", "read"} =>
        client \in Reader /\ client[2] \in tracked

\* A script is tracked without having been fetched only after its first fetch has failed
\* or while its first reader goes on.
TrackedIsFetched ==
    \A t \in tracked :
        \/ t \in fetched \cup lost
        \/ step \in {"latest", "histories"} /\ client[2] = t

\* Nobody was told more than the cache says now.
CacheNeverBehindReport ==
    \A r \in Reader : report[r] <= ScriptStatus(history[r[2]], latest)

\* What every step of the client and of the chain keeps.
ElectrumInv ==
    /\ ElectrumTypeOK
    /\ CacheBehindChain /\ ReaderWorks /\ TrackedIsFetched
    /\ CacheNeverBehindReport /\ FirstStatusFetched
=============================================================================
