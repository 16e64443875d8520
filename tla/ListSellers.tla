---------------------------- MODULE ListSellers ----------------------------
(***************************************************************************)
(* How the CLI lists sellers (cli/list_sellers.rs): it connects to a       *)
(* rendezvous point, asks it for registrations, asks every seller and the  *)
(* rendezvous point itself for a quote, and returns when no quote is       *)
(* pending.  The swarm is external: when a dial fails, the connection      *)
(* error comes first and the failure of the request that had to be sent    *)
(* some time after it.                                                     *)
(***************************************************************************)
EXTENDS FiniteSets

CONSTANTS
    Seller,   \* peers that may be registered
    Point     \* the rendezvous point

Peer == Seller \cup {Point}

VARIABLES
    phase,        \* the state of the event loop, "done" when it has returned
    status,       \* asb_quote_status
    reachable,    \* the keys of reachable_asb_address
    unreachable,  \* the keys of unreachable_asb_address
    requests,     \* quote requests under way
    failing,      \* requests whose dial has failed, the failure not yet reported
    peers,        \* peers that are connected
    discovering,  \* whether the registrations were asked for: "no", "asked" or "answered"
    sellers,      \* the sellers that are returned
    told,         \* history: the sellers that were discovered with an address
    dropped       \* history: the sellers whose request was reported as failed

listVars ==
    <<phase, status, reachable, unreachable, requests, failing, peers, discovering, sellers,
      told, dropped>>

QuoteStatus == {"None", "Pending", "Online", "Unreachable"}

ListTypeOK ==
    /\ phase \in {"WaitForDiscovery", "WaitForQuoteCompletion", "done"}
    /\ status \in [Peer -> QuoteStatus]
    /\ reachable \subseteq Peer /\ unreachable \subseteq Peer
    /\ requests \subseteq Peer /\ failing \subseteq requests /\ peers \subseteq Peer
    /\ discovering \in {"no", "asked", "answered"}
    /\ sellers \subseteq Peer \X QuoteStatus
    /\ told \subseteq Seller /\ dropped \subseteq Seller

ListInit ==
    /\ phase = "WaitForDiscovery"
    /\ status = [p \in Peer |-> "None"]
    /\ reachable = {} /\ unreachable = {} /\ requests = {} /\ failing = {} /\ peers = {}
    /\ discovering = "no"
    /\ sellers = {} /\ told = {} /\ dropped = {}

Listed(st) == {<<p, st[p]>> : p \in {q \in Peer : st[q] # "None"}}

\* After every event: the loop returns when it waits for quotes and none is pending.
Evaluate(ph, st) ==
    IF ph = "WaitForQuoteCompletion" /\ \A p \in Peer : st[p] # "Pending"
    THEN phase' = "done" /\ sellers' = Listed(st)
    ELSE phase' = ph /\ UNCHANGED sellers

-----------------------------------------------------------------------------

\* The rendezvous point is a potential seller itself.
PointConnected ==
    /\ phase # "done" /\ Point \notin peers /\ discovering = "no"
    /\ peers' = peers \cup {Point}
    /\ reachable' = reachable \cup {Point}
    /\ status' = [status EXCEPT ![Point] = "Pending"]
    /\ requests' = requests \cup {Point}
    /\ discovering' = "asked"
    /\ Evaluate(phase, status')
    /\ UNCHANGED <<unreachable, failing, told, dropped>>

\* Without the rendezvous point there are no sellers.
PointUnreachable ==
    /\ phase # "done" /\ Point \notin peers /\ discovering = "no"
    /\ phase' = "done"
    /\ UNCHANGED <<status, reachable, unreachable, requests, failing, peers>>
    /\ UNCHANGED <<discovering, sellers, told, dropped>>

\* Mutant: the status of a peer is kept only from its answer on.
DiscoveredLazily(registered, addressed) ==
    /\ phase # "done" /\ discovering = "asked"
    /\ discovering' = "answered"
    /\ told' = told \cup addressed
    /\ requests' = requests \cup registered
    /\ failing' = failing \cup (registered \ addressed)
    /\ Evaluate("WaitForQuoteCompletion", status)
    /\ UNCHANGED <<status, reachable, unreachable, peers, dropped>>

\* Every seller that is registered is asked for a quote.  The ones whose registration has
\* an address are pending; without one the dial fails at once, and only the request's
\* failure is reported.
Discovered(registered, addressed) ==
    /\ phase # "done" /\ discovering = "asked"
    /\ discovering' = "answered"
    /\ told' = told \cup addressed
    /\ status' = [p \in Peer |-> IF p \in addressed THEN "Pending" ELSE status[p]]
    /\ requests' = requests \cup registered
    /\ failing' = failing \cup (registered \ addressed)
    /\ Evaluate("WaitForQuoteCompletion", status')
    /\ UNCHANGED <<reachable, unreachable, peers, dropped>>

\* DiscoverFailed falls under the events that are ignored; nobody asks again.
DiscoverFailed ==
    /\ phase # "done" /\ discovering = "asked"
    /\ discovering' = "answered"
    /\ Evaluate(phase, status)
    /\ UNCHANGED <<status, reachable, unreachable, requests, failing, peers, told, dropped>>

\* Mutant: only the addresses of registrations are kept.
SellerConnectedUnrecorded(p) ==
    /\ phase # "done" /\ p \in (requests \ failing) \ peers
    /\ peers' = peers \cup {p}
    /\ Evaluate(phase, status)
    /\ UNCHANGED <<status, reachable, unreachable, requests, failing, discovering>>
    /\ UNCHANGED <<told, dropped>>

SellerConnected(p) ==
    /\ phase # "done" /\ p \in (requests \ failing) \ peers
    /\ peers' = peers \cup {p}
    /\ reachable' = reachable \cup {p}
    /\ Evaluate(phase, status)
    /\ UNCHANGED <<status, unreachable, requests, failing, discovering, told, dropped>>

\* Mutant: a seller that cannot be reached is not counted.
SellerUnreachableIgnored(p) ==
    /\ phase # "done" /\ p \in (requests \ failing) \ peers
    /\ failing' = failing \cup {p}
    /\ unreachable' = unreachable \cup {p}
    /\ status' = [status EXCEPT ![p] = "None"]
    /\ Evaluate(phase, status')
    /\ UNCHANGED <<reachable, requests, peers, discovering, told, dropped>>

\* OutgoingConnectionError.  The address that is kept for the peer is empty.
SellerUnreachable(p) ==
    /\ phase # "done" /\ p \in (requests \ failing) \ peers
    /\ failing' = failing \cup {p}
    /\ unreachable' = unreachable \cup {p}
    /\ status' = [status EXCEPT ![p] = IF @ = "None" THEN @ ELSE "Unreachable"]
    /\ Evaluate(phase, status')
    /\ UNCHANGED <<reachable, requests, peers, discovering, told, dropped>>

\* A quote from a peer without a status is removed again.
QuoteReceived(p) ==
    /\ phase # "done" /\ p \in requests \cap peers
    /\ requests' = requests \ {p}
    /\ status' = [status EXCEPT ![p] = IF @ = "None" THEN @ ELSE "Online"]
    /\ Evaluate(phase, status')
    /\ UNCHANGED <<reachable, unreachable, failing, peers, discovering, told, dropped>>

\* Mutant: a failure is only logged, whoever the peer is.
OutboundFailureLogged(p) ==
    /\ phase # "done" /\ p \in requests /\ p \in failing \cup peers
    /\ requests' = requests \ {p}
    /\ failing' = failing \ {p}
    /\ Evaluate(phase, status)
    /\ UNCHANGED <<status, reachable, unreachable, peers, discovering, told, dropped>>

\* A request fails, after its dial or over a connection.  The peer is no longer counted,
\* also one that was found to be Unreachable, except the rendezvous point, whose status
\* is left as it is.
OutboundFailure(p) ==
    /\ phase # "done" /\ p \in requests /\ p \in failing \cup peers
    /\ requests' = requests \ {p}
    /\ failing' = failing \ {p}
    /\ status' = IF p = Point THEN status ELSE [status EXCEPT ![p] = "None"]
    /\ dropped' = dropped \cup ({p} \ {Point})
    /\ Evaluate(phase, status')
    /\ UNCHANGED <<reachable, unreachable, peers, discovering, told>>

ListStep ==
    \/ PointConnected \/ PointUnreachable \/ DiscoverFailed
    \/ \E p \in Seller : SellerConnected(p) \/ SellerUnreachable(p)
    \/ \E p \in Peer : QuoteReceived(p) \/ OutboundFailure(p)

-----------------------------------------------------------------------------

\* The lookups that expect an address find one, when the list is put together.  (What is
\* kept for a seller out of reach is the empty address.)
ListedHasAddress ==
    \A p \in Peer :
        /\ status[p] = "Online" => p \in reachable
        /\ status[p] = "Unreachable" => p \in unreachable

\* The list that is returned after a discovery is complete: it has the rendezvous point
\* and every seller that was discovered with an address, but for those whose request was
\* reported as failed before.  Who is Online has answered, and who is Unreachable could not
\* be dialled.
ListComplete ==
    phase = "done" /\ discovering = "answered" =>
        /\ {s[1] : s \in sellers} = (told \cup {Point}) \ dropped
        /\ \A s \in sellers : \/ s[2] = "Online" /\ s[1] \in peers \ requests
                              \/ s[2] = "Unreachable" /\ s[1] \in unreachable \ peers
        /\ requests \subseteq failing

\* The listing ends, whoever can be reached and whichever order the events have, except
\* when the discovery itself fails, and when the rendezvous point does not answer as a
\* seller: its status stays Pending.
ListingConcludes ==
    \/ <>(phase = "done")
    \/ <>[](phase = "WaitForDiscovery" /\ discovering = "answered")
    \/ <>[](status[Point] = "Pending" /\ Point \notin requests)

\* The inductive part behind them: a request that was not reported as failed is counted
\* as pending, or as unreachable when its dial has failed; who has a status was told of and
\* not dropped; and an address is kept of every connected peer.
ListProgress ==
    /\ peers \subseteq reachable
    /\ failing \cap peers = {} /\ Point \notin failing
    /\ \A p \in requests \ failing : status[p] = "Pending"
    /\ \A p \in Peer : status[p] = "Online" => p \in peers \ requests
    /\ \A p \in Peer : status[p] = "Unreachable" => p \in failing
    /\ \A p \in failing : status[p] # "Pending"
    /\ \A p \in Seller : status[p] = "None" <=> p \notin told \ dropped
    /\ discovering = "no" <=> status[Point] = "None"
    /\ discovering \in {"no", "asked"} =>
           requests \cup peers \subseteq {Point} /\ told = {} /\ dropped = {}
    /\ discovering = "no" => requests = {}
=============================================================================
