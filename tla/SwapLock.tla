------------------------------ MODULE SwapLock ------------------------------
(***************************************************************************)
(* The lock that lets one swap run at a time in Bob's application, and the *)
(* signal that suspends it (cli/api.rs), used by the requests buy_beldex,  *)
(* resume_swap, cancel_and_refund and suspend_current_swap.                *)
(*                                                                         *)
(* Requests of the user interface run concurrently.  A request that cannot *)
(* get the lock fails and leaves nothing behind, so it is no action; a     *)
(* request may be made again once it has ended.                            *)
(***************************************************************************)
CONSTANTS
    Buy, Resume, Cancel,  \* requests by kind
    Suspender,            \* concurrent calls of suspend_current_swap
    NoRequest

Request == Buy \cup Resume \cup Cancel

ASSUME RequestAssumption == NoRequest \notin Request

VARIABLES
    current,   \* current_swap: whose lock it is
    phase,     \* where each request is
    signal,    \* requests whose listener holds an unread suspension signal
    suspend    \* where each call of suspend_current_swap is

lockVars == <<current, phase, signal, suspend>>

\* idle: not running; held: has the lock; init: buy_beldex waits for a quote;
\* spawned: the task is spawned but does not listen yet; running; finished and
\* suspended: about to release the lock; leaked: gave up without releasing it.
Phase == {"idle", "held", "init", "spawned", "running", "finished", "suspended", "leaked"}

\* The phases inside a select that listens for the suspension signal.
Listening == {"init", "running"}

LockTypeOK ==
    /\ current \in Request \cup {NoRequest}
    /\ phase \in [Request -> Phase]
    /\ signal \subseteq Request
    /\ suspend \in [Suspender -> {"idle", "ready", "polling", "failed"}]

LockInit ==
    /\ current = NoRequest
    /\ phase = [r \in Request |-> "idle"]
    /\ signal = {}
    /\ suspend = [s \in Suspender |-> "idle"]

Goto(r, from, to) == phase[r] = from /\ phase' = [phase EXCEPT ![r] = to]

\* A select is over: its listener is dropped, with the signal it may hold.
StopListening(r) == signal' = signal \ {r}

-----------------------------------------------------------------------------
(* The requests                                                            *)

\* Mutant: the lock is taken without looking.
AcquireUnchecked(r) ==
    Goto(r, "idle", "held") /\ current' = r /\ UNCHANGED <<signal, suspend>>

Acquire(r) ==
    /\ current = NoRequest
    /\ Goto(r, "idle", "held")
    /\ current' = r
    /\ UNCHANGED <<signal, suspend>>

\* buy_beldex starts an event loop and asks for a quote, listening meanwhile.
BuyInit(r) ==
    r \in Buy /\ Goto(r, "held", "init") /\ UNCHANGED <<current, signal, suspend>>

\* The select is biased towards the signal, but one that arrives after the
\* listener was polled loses against a quote, or an error, that is ready.
BuyQuoted(r) ==
    /\ Goto(r, "init", "spawned")
    /\ StopListening(r)
    /\ UNCHANGED <<current, suspend>>

\* No quote, because the event loop ended or Alice does not answer.
BuyInitFails(r) ==
    /\ Goto(r, "init", "finished")
    /\ StopListening(r)
    /\ UNCHANGED <<current, suspend>>

ResumeSetup(r) ==
    r \in Resume /\ Goto(r, "held", "spawned") /\ UNCHANGED <<current, signal, suspend>>

\* A missing row or wallet, or a swarm that cannot be built, leaves through `?`.
ResumeSetupFails(r) ==
    r \in Resume /\ Goto(r, "held", "leaked") /\ UNCHANGED <<current, signal, suspend>>

TaskStarts(r) ==
    Goto(r, "spawned", "running") /\ UNCHANGED <<current, signal, suspend>>

\* bob::run or the event loop returns.  The event loop is a task of its own: if
\* the swap returns first, or is suspended, it is detached and runs on.
TaskEnds(r) ==
    /\ Goto(r, "running", "finished")
    /\ StopListening(r)
    /\ UNCHANGED <<current, suspend>>

\* Mutant: only the wait for the quote listens to the signal.
SuspendedDeaf(r) ==
    /\ r \in signal
    /\ phase[r] = "init"
    /\ phase' = [phase EXCEPT ![r] = "suspended"]
    /\ StopListening(r)
    /\ UNCHANGED <<current, suspend>>

\* The signal wins the select.
Suspended(r) ==
    /\ r \in signal
    /\ phase[r] \in Listening
    /\ phase' = [phase EXCEPT ![r] = "suspended"]
    /\ StopListening(r)
    /\ UNCHANGED <<current, suspend>>

CancelAndRefund(r) ==
    r \in Cancel /\ Goto(r, "held", "finished") /\ UNCHANGED <<current, signal, suspend>>

\* Mutant: a suspended swap goes on to the release after the select.
ReleaseFallsThrough(r) ==
    /\ phase[r] \in {"finished", "suspended"}
    /\ phase' = [phase EXCEPT ![r] = IF @ = "suspended" THEN "finished" ELSE "idle"]
    /\ current' = NoRequest
    /\ UNCHANGED <<signal, suspend>>

\* release_swap_lock releases whoever's lock it is, and panics if there is none.
Release(r) ==
    /\ phase[r] \in {"finished", "suspended"}
    /\ phase' = [phase EXCEPT ![r] = "idle"]
    /\ current' = NoRequest
    /\ UNCHANGED <<signal, suspend>>

-----------------------------------------------------------------------------
(* suspend_current_swap                                                    *)

SGoto(s, from, to) == suspend[s] = from /\ suspend' = [suspend EXCEPT ![s] = to]

SuspendRead(s) ==
    current # NoRequest /\ SGoto(s, "idle", "ready") /\ UNCHANGED <<current, phase, signal>>

\* Sending on a broadcast channel fails when nobody listens.
SuspendSend(s) ==
    LET listeners == {r \in Request : phase[r] \in Listening} IN
    /\ SGoto(s, "ready", IF listeners = {} THEN "failed" ELSE "polling")
    /\ signal' = signal \cup listeners
    /\ UNCHANGED <<current, phase>>

\* The lock is polled until it is free, or for ten seconds.
SuspendPolled(s) ==
    current = NoRequest /\ SGoto(s, "polling", "idle") /\ UNCHANGED <<current, phase, signal>>

SuspendTimeout(s) ==
    SGoto(s, "polling", "failed") /\ UNCHANGED <<current, phase, signal>>

SuspendAgain(s) ==
    SGoto(s, "failed", "idle") /\ UNCHANGED <<current, phase, signal>>

-----------------------------------------------------------------------------

RequestStep(r) ==
    \/ Acquire(r)
    \/ BuyInit(r) \/ BuyQuoted(r) \/ BuyInitFails(r)
    \/ ResumeSetup(r) \/ ResumeSetupFails(r)
    \/ TaskStarts(r) \/ TaskEnds(r)
    \/ Suspended(r)
    \/ CancelAndRefund(r)
    \/ Release(r)

SuspendStep(s) ==
    \/ SuspendRead(s)
    \/ SuspendSend(s)
    \/ SuspendPolled(s)
    \/ SuspendTimeout(s)
    \/ SuspendAgain(s)

LockNext == (\E r \in Request : RequestStep(r)) \/ (\E s \in Suspender : SuspendStep(s))

LockSpec == LockInit /\ [][LockNext]_lockVars

\* A ready task is polled: it sees its signal and releases its lock.
LockFairness == \A r \in Request : WF_lockVars(Suspended(r)) /\ WF_lockVars(Release(r))

FairLockSpec == LockSpec /\ LockFairness

-----------------------------------------------------------------------------

\* However requests, failures and suspensions interleave, a request between
\* acquire_swap_lock and its end is the only one: two swaps never run at once.
OneSwap ==
    \A r, q \in Request : phase[r] # "idle" /\ phase[q] # "idle" => r = q

\* Whoever calls release_swap_lock owns the lock: the `expect` behind it never
\* panics and nobody releases the lock of another swap.
ReleaseOwned == \A r \in Request : phase[r] \in {"finished", "suspended"} => current = r

\* A running swap that has been sent the signal gives up its lock.
SuspensionTakesEffect ==
    \A r \in Request : (phase[r] = "running" /\ r \in signal) ~> (current # r)

\* The inductive invariant: exactly the owner of the lock is not idle.
LockInv == \A r \in Request : phase[r] # "idle" <=> current = r
=============================================================================
