------------------------------ MODULE Discovery ------------------------------
(***************************************************************************)
(* Discovery end to end: an ASB that keeps itself registered with          *)
(* rendezvous nodes (Rendezvous), and a CLI that lists the sellers of one  *)
(* of them (ListSellers).                                                  *)
(***************************************************************************)
EXTENDS Rendezvous, ListSellers

CONSTANT Asb   \* the ASB, as a seller

ASSUME DiscoveryAssumption ==
    Asb \in Seller /\ Point \in Node \ {Self} /\ Point \notin Seller

discoveryVars == <<regVars, listVars>>

DiscoveryTypeOK == RendezvousTypeOK /\ ListTypeOK

DiscoveryInit == RendezvousInit /\ ListInit

\* The rendezvous point returns what is registered with it; other sellers may be.  (It is
\* not registered itself: a peer does not dial itself.)
Registrations ==
    {r \in SUBSET Seller : Asb \in r <=> Point \in listed}

\* Some of the registrations may be without an address.
DiscoverStep == \E r \in Registrations : \E a \in SUBSET r : Discovered(r, a)

DiscoveryNext ==
    \/ RendezvousNext /\ UNCHANGED listVars
    \/ (ListStep \/ DiscoverStep) /\ UNCHANGED regVars

\* Events of the CLI's swarm are handled, and what was asked for is answered or fails.
DiscoveryFairness ==
    /\ RendezvousFairness
    /\ WF_listVars(ListStep \/ DiscoverStep)

DiscoverySpec ==
    DiscoveryInit /\ [][DiscoveryNext]_discoveryVars /\ DiscoveryFairness

\* Neither side loses track of a peer without a trace.  On the ASB's side a node whose
\* status is Dialling has a dial that is still to end.  On the CLI's side the list is
\* returned only when nobody who was discovered is left to wait for, every lookup of an
\* address succeeds, and a seller that is missing is one whose request had failed: that
\* event drops the sellers that cannot be reached, which were to be listed as Unreachable,
\* unless the list is complete before it.
EverybodyAccounted ==
    /\ DiscoveryTypeOK
    /\ DialPursued
    /\ ListedHasAddress
    /\ ListComplete

\* What every step of the ASB's behaviour and of the CLI's event loop keeps.
DiscoveryInv == EverybodyAccounted /\ ListProgress
==============================================================================
