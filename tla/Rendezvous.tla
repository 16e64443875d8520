----------------------------- MODULE Rendezvous -----------------------------
(***************************************************************************)
(* How the ASB keeps itself registered with rendezvous nodes               *)
(* (asb/network.rs, module rendezvous): a libp2p behaviour that dials the  *)
(* nodes, registers, and registers again after half of the time to live.   *)
(* The swarm, the rendezvous protocol and the nodes are external.  The     *)
(* swarm polls the behaviour again after it returned an action and after   *)
(* every event; when poll returns Pending, nothing happens until the task  *)
(* is woken.  Dialling a peer that is connected is refused and reported as *)
(* a dial failure; a peer that is only being dialled is dialled again.     *)
(***************************************************************************)
EXTENDS Naturals, SequencesExt

CONSTANTS
    Node,           \* the rendezvous nodes that are configured
    Self,           \* the ASB's own peer id, which may be configured too
    MaxDrops,       \* bound on lost connections and failed dials
    MaxRefusals     \* bound on registrations that a node refuses

ASSUME RendezvousAssumption ==
    IsFiniteSet(Node) /\ MaxDrops \in Nat /\ MaxRefusals \in Nat

VARIABLES
    conn,      \* connection_status
    reg,       \* registration_status
    fired,     \* re_register_in has elapsed
    toDial,    \* to_dial
    awake,     \* the swarm is going to poll
    dials,     \* the number of dials under way, per node
    linked,    \* nodes with an established connection
    asked,     \* nodes with a registration under way
    listed,    \* nodes where the ASB can be discovered
    drops, refusals  \* history: faults so far

regVars ==
    <<conn, reg, fired, toDial, awake, dials, linked, asked, listed, drops, refusals>>

RendezvousTypeOK ==
    /\ conn \in [Node -> {"Disconnected", "Dialling", "Connected"}]
    /\ reg \in [Node -> {"RegisterOnNextConnection", "Pending", "Registered"}]
    /\ toDial \in Seq(Node)
    /\ awake \in BOOLEAN
    /\ dials \in [Node -> Nat]
    /\ linked \subseteq Node
    /\ asked \subseteq linked
    /\ fired \subseteq Node /\ listed \subseteq Node
    /\ drops \in 0..MaxDrops /\ refusals \in 0..MaxRefusals

RendezvousInit ==
    /\ conn = [n \in Node |-> "Disconnected"]
    /\ reg = [n \in Node |-> "RegisterOnNextConnection"]
    /\ fired = {} /\ toDial = <<>> /\ awake = TRUE
    /\ dials = [n \in Node |-> 0] /\ linked = {} /\ asked = {} /\ listed = {}
    /\ drops = 0 /\ refusals = 0

Drop == drops < MaxDrops /\ drops' = drops + 1

-----------------------------------------------------------------------------
(* poll                                                                    *)

\* Mutant: a failed dial does not change the status.
DialFailureIgnored(n) == UNCHANGED conn

\* inject_dial_failure.
DialFailure(n) == conn' = [conn EXCEPT ![n] = "Disconnected"]

\* The next node of to_dial is dialled, on the condition that it is disconnected.  One's
\* own id is skipped with Pending, which leaves the rest of the queue where it is.
PollDial ==
    /\ awake /\ toDial # <<>>
    /\ toDial' = Tail(toDial)
    /\ LET n == Head(toDial) IN
         /\ awake' = (n # Self)
         /\ IF n = Self THEN UNCHANGED <<conn, dials>>
            ELSE IF n \in linked THEN DialFailure(n) /\ UNCHANGED dials
            ELSE dials' = [dials EXCEPT ![n] = @ + 1] /\ UNCHANGED conn
    /\ UNCHANGED <<reg, fired, linked, asked, listed, drops, refusals>>

\* What a round of poll finds at a node.
ShallDial(n) == reg[n] = "RegisterOnNextConnection" /\ conn[n] = "Disconnected"
ShallRegister(n) ==
    /\ conn[n] = "Connected"
    /\ reg[n] = "RegisterOnNextConnection" \/ (reg[n] = "Registered" /\ n \in fired)
\* Mutant: a timer that elapses without a connection is left at that.
ShallReconnectNever(n) == FALSE

ShallReconnect(n) == reg[n] = "Registered" /\ n \in fired /\ conn[n] = "Disconnected"

\* A round of poll over all nodes, in whatever order the configuration names them, when
\* to_dial is empty.  The inner behaviour has something to do only if a registration was requested:
\* otherwise its Pending is returned, whatever has been put into to_dial.  A timer that
\* elapses while the node is dialled is not looked at again until then.
PollNodes ==
    LET dial == {n \in Node : ShallDial(n)}
        register == {n \in Node : ShallRegister(n)}
        reconnect == {n \in Node : ShallReconnect(n)}
    IN  /\ awake /\ toDial = <<>>
        /\ conn' = [n \in Node |-> IF n \in dial THEN "Dialling" ELSE conn[n]]
        /\ reg' = [n \in Node |-> CASE n \in register  -> "Pending"
                                    [] n \in reconnect -> "RegisterOnNextConnection"
                                    [] OTHER           -> reg[n]]
        /\ asked' = asked \cup (register \cap linked)
        /\ fired' = fired \ (register \cup reconnect)
        /\ \E queue \in SetToSeqs(dial \cup reconnect) : toDial' = queue
        /\ awake' = (register # {})
        /\ UNCHANGED <<dials, linked, listed, drops, refusals>>

\* Whatever else wakes the task of the event loop: another behaviour, a swap, a timer.
Wake ==
    /\ ~awake /\ awake' = TRUE
    /\ UNCHANGED <<conn, reg, fired, toDial, dials, linked, asked, listed, drops, refusals>>

-----------------------------------------------------------------------------
(* What the swarm reports: it polls after each of these                    *)

DialEnds(n) == dials[n] > 0 /\ dials' = [dials EXCEPT ![n] = @ - 1]

\* inject_connected, for the first connection to a node.
InjectConnected(n) ==
    /\ DialEnds(n)
    /\ linked' = linked \cup {n}
    /\ IF n \in linked THEN UNCHANGED <<conn, reg, asked>>
       ELSE /\ conn' = [conn EXCEPT ![n] = "Connected"]
            /\ IF reg[n] = "RegisterOnNextConnection"
               THEN asked' = asked \cup {n} /\ reg' = [reg EXCEPT ![n] = "Pending"]
               ELSE UNCHANGED <<asked, reg>>
    /\ awake' = TRUE
    /\ UNCHANGED <<fired, toDial, listed, drops, refusals>>

\* The failure of a dial, also of the second one of a node that is connected by now.
InjectDialFailure(n) ==
    /\ DialEnds(n)
    /\ Drop
    /\ DialFailure(n)
    /\ awake' = TRUE
    /\ UNCHANGED <<reg, fired, toDial, linked, asked, listed, refusals>>

\* inject_disconnected: a registration that is under way is lost.
InjectDisconnected(n) ==
    /\ n \in linked
    /\ Drop
    /\ conn' = [conn EXCEPT ![n] = "Disconnected"]
    /\ linked' = linked \ {n}
    /\ asked' = asked \ {n}
    /\ awake' = TRUE
    /\ UNCHANGED <<reg, fired, toDial, dials, listed, refusals>>

\* The event Registered comes through poll, after a round, and sets the timer.
Registered(n) ==
    /\ n \in asked /\ toDial = <<>>
    /\ asked' = asked \ {n}
    /\ listed' = listed \cup {n}
    /\ reg' = [reg EXCEPT ![n] = "Registered"]
    /\ fired' = fired \ {n}
    /\ awake' = TRUE
    /\ UNCHANGED <<conn, toDial, dials, linked, drops, refusals>>

\* RegisterFailed passes through, to be logged by the event loop.
RegisterFailed(n) ==
    /\ n \in asked /\ toDial = <<>>
    /\ refusals < MaxRefusals /\ refusals' = refusals + 1
    /\ asked' = asked \ {n}
    /\ awake' = TRUE
    /\ UNCHANGED <<conn, reg, fired, toDial, dials, linked, listed, drops>>

\* Half of the time to live: the timer wakes the task if a round has polled it.
TimerFires(n) ==
    /\ reg[n] = "Registered" /\ n \notin fired
    /\ fired' = fired \cup {n}
    /\ awake' \in {awake, TRUE}
    /\ UNCHANGED <<conn, reg, toDial, dials, linked, asked, listed, drops, refusals>>

\* The other half, unless the registration was renewed.
Expire(n) ==
    /\ n \in listed
    /\ reg[n] = "Registered" => n \in fired
    /\ listed' = listed \ {n}
    /\ UNCHANGED <<conn, reg, fired, toDial, awake, dials, linked, asked, drops, refusals>>

NodeStep(n) ==
    \/ InjectConnected(n) \/ InjectDialFailure(n) \/ InjectDisconnected(n)
    \/ Registered(n) \/ RegisterFailed(n) \/ TimerFires(n) \/ Expire(n)

RendezvousNext ==
    \/ PollDial \/ PollNodes \/ Wake
    \/ \E n \in Node : NodeStep(n)

\* A task that was woken is polled; dials, registrations and connections that do not fail
\* succeed, and the answer of a node is passed on by the next round, if not by this one.
\* Nothing says that a task which returned Pending is woken again.
RendezvousFairness ==
    /\ WF_regVars(PollDial) /\ WF_regVars(PollNodes)
    /\ \A n \in Node : /\ WF_regVars(InjectConnected(n)) /\ SF_regVars(Registered(n))
                       /\ WF_regVars(TimerFires(n)) /\ WF_regVars(Expire(n))

RendezvousSpec == RendezvousInit /\ [][RendezvousNext]_regVars
FairRendezvousSpec == RendezvousSpec /\ RendezvousFairness

-----------------------------------------------------------------------------

\* A registration that was refused, or whose connection was lost on the way, leaves
\* Pending behind, which nothing ends.
Forgotten(n) == reg[n] = "Pending" /\ n \notin asked

\* A node that was dialled twice is taken for disconnected when the second dial fails or
\* is refused after the first one has connected.
Mistaken(n) == n \in linked /\ conn[n] # "Connected"

\* The ASB is listed again after any lost connections and failed dials, as long as its
\* event loop is woken again and again, except by a node that has been forgotten or is
\* mistaken for disconnected.  Without the premise it does not hold: poll queues the node
\* and returns Pending, so an ASB to which nothing else happens does not dial it.
Relisted ==
    []<>awake =>
        \A n \in Node \ {Self} :
            (n \notin listed) ~> (n \in listed \/ Forgotten(n) \/ Mistaken(n))

\* A node whose status is Dialling, which keeps every round of poll from turning to it,
\* is in the queue or is being dialled without being connected, so that the outcome is
\* still to come and sets the status.  (Nothing is said of a status Pending of the
\* registration, which may stay for good, and one's own id is never dialled.)
DialPursued ==
    \A n \in Node \ {Self} :
        conn[n] = "Dialling" => \/ \E i \in DOMAIN toDial : toDial[i] = n
                                \/ dials[n] > 0 /\ n \notin linked
=============================================================================
