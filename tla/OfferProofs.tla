----------------------------- MODULE OfferProofs -----------------------------
(***************************************************************************)
(* Proofs about how an offer is found and taken up: the sellers that are   *)
(* listed (Discovery), for any set of rendezvous nodes and sellers and any *)
(* number of faults; and the amount that is bought (BuyAmount), for all    *)
(* prices, spreads, balances, fees and limits.                             *)
(***************************************************************************)
EXTENDS Discovery, BuyAmount, FiniteSetTheorems, TLAPS

-----------------------------------------------------------------------------
(* Discovery                                                               *)

\* The orders in which to_dial may take a set of nodes are sequences of exactly them.
LEMMA SetToSeqsFacts ==
    ASSUME NEW S, IsFiniteSet(S), NEW q \in SetToSeqs(S)
    PROVE  /\ q \in Seq(S)
           /\ \A x \in S : \E i \in DOMAIN q : q[i] = x
<1> DEFINE n == Cardinality(S)
<1>1. n \in Nat
  BY FS_CardinalityType
<1>2. q \in [1..n -> S] /\ IsInjective(q)
  BY DEF SetToSeqs, IsInjective
<1>3. q \in Injection(1..n, S)
  BY <1>2 DEF Injection
<1>4. Cardinality(1..n) = n /\ IsFiniteSet(1..n)
  BY <1>1, FS_Interval
<1>5. q \in Surjection(1..n, S)
  BY <1>3, <1>4, FS_Injection
<1>6. \A x \in S : \E i \in 1..n : q[i] = x
  BY <1>5 DEF Surjection
<1>7. q \in Seq(S) /\ DOMAIN q = 1..n
  BY <1>1, <1>2
<1> QED BY <1>6, <1>7

Queued(n) == \E i \in DOMAIN toDial : toDial[i] = n

\* poll: every node that it turns to is queued, and every node that is taken from the
\* queue is dialled, one's own and those that are connected aside.
LEMMA PollStep ==
    ASSUME RendezvousTypeOK, DialPursued, PollDial \/ PollNodes
    PROVE  RendezvousTypeOK' /\ DialPursued'
<1> USE RendezvousAssumption
<1>1. CASE PollDial
  <2> DEFINE n == Head(toDial)
  <2>1. /\ toDial \in Seq(Node) /\ toDial # <<>> /\ toDial' = Tail(toDial)
        /\ n = toDial[1]
    BY <1>1 DEF PollDial, RendezvousTypeOK
  <2>2. n \in Node /\ toDial' \in Seq(Node)
    BY <2>1
  <2>3. ASSUME NEW i \in DOMAIN toDial, toDial[i] # n
        PROVE  \E j \in DOMAIN toDial' : toDial'[j] = toDial[i]
    <3>1. i \in 2..Len(toDial)
      BY <2>1, <2>3
    <3>2. i - 1 \in DOMAIN toDial' /\ toDial'[i - 1] = toDial[i]
      BY <2>1, <3>1
    <3> QED BY <3>2
  <2>4. RendezvousTypeOK'
    <3>1. awake' \in BOOLEAN
      BY <1>1 DEF PollDial
    <3>2. /\ conn' \in [Node -> {"Disconnected", "Dialling", "Connected"}]
          /\ dials' \in [Node -> Nat]
      <4>1. conn' = conn \/ conn' = [conn EXCEPT ![n] = "Disconnected"]
        BY <1>1 DEF PollDial, DialFailure
      <4>2. dials' = dials \/ dials' = [dials EXCEPT ![n] = @ + 1]
        BY <1>1 DEF PollDial
      <4>3. conn' \in [Node -> {"Disconnected", "Dialling", "Connected"}]
        BY <4>1, <2>2 DEF RendezvousTypeOK
      <4>4. dials' \in [Node -> Nat]
        <5>1. dials[n] \in Nat /\ dials \in [Node -> Nat]
          BY <2>2 DEF RendezvousTypeOK
        <5> QED BY <4>2, <5>1
      <4> QED BY <4>3, <4>4
    <3>3. UNCHANGED <<reg, fired, linked, asked, listed, drops, refusals>>
      BY <1>1 DEF PollDial
    <3> QED BY <2>2, <3>1, <3>2, <3>3 DEF RendezvousTypeOK
  <2>5. ASSUME NEW m \in Node \ {Self}, conn'[m] = "Dialling"
        PROVE  Queued(m)' \/ (dials'[m] > 0 /\ m \notin linked')
    <3>1. conn[m] = "Dialling" /\ linked' = linked
      BY <1>1, <2>2, <2>5 DEF PollDial, DialFailure, RendezvousTypeOK
    <3>2. CASE m = n
      <4>1. m \notin linked
        BY <1>1, <2>2, <2>5, <3>2 DEF PollDial, DialFailure, RendezvousTypeOK
      <4>2. dials'[m] = dials[m] + 1
        BY <1>1, <2>2, <3>2, <4>1 DEF PollDial, RendezvousTypeOK
      <4>3. dials[m] \in Nat
        BY DEF RendezvousTypeOK
      <4> QED BY <3>1, <4>1, <4>2, <4>3
    <3>3. CASE m # n
      <4>1. dials'[m] = dials[m]
        BY <1>1, <2>2, <3>3 DEF PollDial, RendezvousTypeOK
      <4>2. CASE Queued(m)
        BY <2>3, <3>3, <4>2 DEF Queued
      <4>3. CASE dials[m] > 0 /\ m \notin linked
        BY <3>1, <4>1, <4>3
      <4> QED BY <3>1, <4>2, <4>3 DEF DialPursued, Queued
    <3> QED BY <3>2, <3>3
  <2> QED BY <2>4, <2>5 DEF DialPursued, Queued
<1>2. CASE PollNodes
  <2> DEFINE dial == {n \in Node : ShallDial(n)}
             register == {n \in Node : ShallRegister(n)}
             reconnect == {n \in Node : ShallReconnect(n)}
  <2>1. /\ toDial = <<>>
        /\ conn' = [n \in Node |-> IF n \in dial THEN "Dialling" ELSE conn[n]]
        /\ reg' = [n \in Node |-> CASE n \in register  -> "Pending"
                                    [] n \in reconnect -> "RegisterOnNextConnection"
                                    [] OTHER           -> reg[n]]
        /\ asked' = asked \cup (register \cap linked)
        /\ fired' = fired \ (register \cup reconnect)
        /\ toDial' \in SetToSeqs(dial \cup reconnect)
        /\ awake' = (register # {})
        /\ UNCHANGED <<dials, linked, listed, drops, refusals>>
    BY <1>2 DEF PollNodes
  <2>2. IsFiniteSet(dial \cup reconnect)
    BY FS_Subset
  <2>3. /\ toDial' \in Seq(dial \cup reconnect)
        /\ \A n \in dial \cup reconnect : \E i \in DOMAIN toDial' : toDial'[i] = n
    <3> DEFINE S == dial \cup reconnect
    <3>1. IsFiniteSet(S) /\ toDial' \in SetToSeqs(S)
      BY <2>1, <2>2
    <3> HIDE DEF S
    <3>2. toDial' \in Seq(S) /\ \A n \in S : \E i \in DOMAIN toDial' : toDial'[i] = n
      BY <3>1, SetToSeqsFacts
    <3> QED BY <3>2 DEF S
  <2>4. RendezvousTypeOK'
    <3>1. toDial' \in Seq(Node)
      BY <2>3
    <3> HIDE DEF dial, register, reconnect
    <3>2. asked' \subseteq linked' /\ fired' \subseteq Node /\ awake' \in BOOLEAN
      BY <2>1 DEF RendezvousTypeOK
    <3>3. /\ conn' \in [Node -> {"Disconnected", "Dialling", "Connected"}]
          /\ reg' \in [Node -> {"RegisterOnNextConnection", "Pending", "Registered"}]
      BY <2>1 DEF RendezvousTypeOK
    <3> QED BY <2>1, <3>1, <3>2, <3>3 DEF RendezvousTypeOK
  <2>5. ASSUME NEW m \in Node \ {Self}, conn'[m] = "Dialling"
        PROVE  Queued(m)' \/ (dials'[m] > 0 /\ m \notin linked')
    <3>1. CASE m \in dial
      BY <2>3, <3>1 DEF Queued
    <3>2. CASE m \notin dial
      <4>1. conn[m] = "Dialling"
        BY <2>1, <2>5, <3>2
      <4>2. dials[m] > 0 /\ m \notin linked
        BY <2>1, <4>1 DEF DialPursued
      <4> QED BY <2>1, <4>2
    <3> QED BY <3>1, <3>2
  <2> QED BY <2>4, <2>5 DEF DialPursued, Queued
<1> QED BY <1>1, <1>2

\* What the swarm and the nodes report.
LEMMA SwarmStep ==
    ASSUME RendezvousTypeOK, DialPursued, NEW n \in Node, NodeStep(n)
    PROVE  RendezvousTypeOK' /\ DialPursued'
<1> USE RendezvousAssumption DEF RendezvousTypeOK, DialPursued
<1>1. CASE InjectConnected(n)
  <2>1. dials' \in [Node -> Nat] /\ \A m \in Node : m # n => dials'[m] = dials[m]
    BY <1>1 DEF InjectConnected, DialEnds
  <2>2. /\ conn' \in [Node -> {"Disconnected", "Dialling", "Connected"}]
        /\ reg' \in [Node -> {"RegisterOnNextConnection", "Pending", "Registered"}]
        /\ linked' = linked \cup {n} /\ asked' \subseteq linked'
        /\ awake' = TRUE /\ UNCHANGED <<fired, toDial, listed, drops, refusals>>
    BY <1>1 DEF InjectConnected
  <2>3. ASSUME NEW m \in Node \ {Self}, conn'[m] = "Dialling"
        PROVE  (\E i \in DOMAIN toDial : toDial[i] = m) \/ (dials'[m] > 0 /\ m \notin linked')
    BY <1>1, <2>1, <2>2, <2>3 DEF InjectConnected
  <2> QED BY <2>1, <2>2, <2>3
<1>2. CASE Registered(n) \/ Expire(n)
  BY <1>2 DEF Registered, Expire
<1>3. CASE InjectDialFailure(n)
  BY <1>3 DEF InjectDialFailure, DialFailure, DialEnds, Drop
<1>4. CASE InjectDisconnected(n)
  BY <1>4 DEF InjectDisconnected, Drop
<1>5. CASE RegisterFailed(n)
  BY <1>5 DEF RegisterFailed
<1>6. CASE TimerFires(n)
  BY <1>6 DEF TimerFires
<1> QED BY <1>1, <1>2, <1>3, <1>4, <1>5, <1>6 DEF NodeStep

ListInv == ListTypeOK /\ ListProgress /\ ListedHasAddress /\ ListComplete

\* After every event: when the event loop returns, all that was asked is settled.
LEMMA EvaluateFacts ==
    ASSUME ListTypeOK, phase # "done", NEW ph \in {"WaitForDiscovery", "WaitForQuoteCompletion"},
           NEW st \in [Peer -> QuoteStatus], status' = st, Evaluate(ph, st),
           ListProgress', ListedHasAddress', requests' \subseteq Peer, failing' \subseteq requests',
           told' \subseteq Seller, dropped' \subseteq Seller, Point \notin Seller
    PROVE  /\ phase' \in {"WaitForDiscovery", "WaitForQuoteCompletion", "done"}
           /\ sellers' \subseteq Peer \X QuoteStatus
           /\ ListComplete'
<1>1. CASE ph = "WaitForQuoteCompletion" /\ \A p \in Peer : st[p] # "Pending"
  <2>1. phase' = "done" /\ sellers' = Listed(st)
    BY <1>1 DEF Evaluate
  <2>2. sellers' \subseteq Peer \X QuoteStatus
    BY <2>1 DEF Listed
  <2>3. requests' \subseteq failing'
    BY <1>1 DEF ListProgress
  <2>4. ASSUME discovering' = "answered"
        PROVE  {s[1] : s \in sellers'} = (told' \cup {Point}) \ dropped'
    <3>1. {s[1] : s \in sellers'} = {p \in Peer : st[p] # "None"}
      <4>1. ASSUME NEW s \in sellers' PROVE s[1] \in {p \in Peer : st[p] # "None"}
        BY <2>1, <4>1 DEF Listed
      <4>2. ASSUME NEW p \in Peer, st[p] # "None" PROVE \E s \in sellers' : s[1] = p
        <5>1. <<p, st[p]>> \in sellers' /\ <<p, st[p]>>[1] = p
          BY <2>1, <4>2 DEF Listed
        <5> QED BY <5>1
      <4> QED BY <4>1, <4>2
    <3>2. \A p \in Seller : st[p] # "None" <=> p \in told' \ dropped'
      BY DEF ListProgress
    <3>3. st[Point] # "None"
      BY <2>4 DEF ListProgress
    <3> QED BY <3>1, <3>2, <3>3 DEF Peer
  <2>5. ASSUME NEW s \in sellers'
        PROVE  \/ s[2] = "Online" /\ s[1] \in peers' \ requests'
               \/ s[2] = "Unreachable" /\ s[1] \in unreachable' \ peers'
    <3>1. PICK p \in Peer : s = <<p, st[p]>> /\ st[p] # "None"
      BY <2>1, <2>5 DEF Listed
    <3>2. st[p] \in {"Online", "Unreachable"}
      BY <1>1, <3>1 DEF QuoteStatus
    <3> QED BY <3>1, <3>2 DEF ListProgress, ListedHasAddress
  <2> QED BY <2>1, <2>2, <2>3, <2>4, <2>5 DEF ListComplete
<1>2. CASE ~(ph = "WaitForQuoteCompletion" /\ \A p \in Peer : st[p] # "Pending")
  BY <1>2 DEF Evaluate, ListTypeOK, ListComplete
<1> QED BY <1>1, <1>2

\* The rendezvous point: connected, out of reach, or its answer.
LEMMA PointStep ==
    ASSUME ListInv, PointConnected \/ PointUnreachable \/ DiscoverFailed \/ DiscoverStep
    PROVE  ListInv'
<1> USE DiscoveryAssumption
<1>0. Point \in Peer /\ Seller \subseteq Peer
  BY DEF Peer
<1>1. CASE PointConnected
  <2>1. status' \in [Peer -> QuoteStatus] /\ ListProgress' /\ ListedHasAddress'
    BY <1>1, <1>0 DEF PointConnected, ListInv, ListTypeOK, ListProgress, ListedHasAddress, QuoteStatus
  <2>2. /\ requests' \subseteq Peer /\ failing' \subseteq requests' /\ reachable' \subseteq Peer
        /\ peers' \subseteq Peer /\ unreachable' \subseteq Peer /\ discovering' = "asked"
        /\ told' \subseteq Seller /\ dropped' \subseteq Seller
    BY <1>1, <1>0 DEF PointConnected, ListInv, ListTypeOK
  <2>3. /\ phase' \in {"WaitForDiscovery", "WaitForQuoteCompletion", "done"}
        /\ sellers' \subseteq Peer \X QuoteStatus /\ ListComplete'
    BY <1>1, <2>1, <2>2, EvaluateFacts DEF PointConnected, ListInv, ListTypeOK
  <2> QED BY <2>1, <2>2, <2>3 DEF ListInv, ListTypeOK
<1>2. CASE PointUnreachable
  BY <1>2 DEF PointUnreachable, ListInv, ListTypeOK, ListProgress, ListedHasAddress, ListComplete
<1>3. CASE DiscoverFailed
  <2>1. /\ status' \in [Peer -> QuoteStatus] /\ ListProgress' /\ ListedHasAddress'
        /\ UNCHANGED <<status, reachable, unreachable, requests, failing, peers, told, dropped>>
        /\ discovering' = "answered"
    BY <1>3 DEF DiscoverFailed, ListInv, ListTypeOK, ListProgress, ListedHasAddress
  <2>2. /\ phase' \in {"WaitForDiscovery", "WaitForQuoteCompletion", "done"}
        /\ sellers' \subseteq Peer \X QuoteStatus /\ ListComplete'
    BY <1>3, <2>1, EvaluateFacts DEF DiscoverFailed, ListInv, ListTypeOK
  <2> QED BY <2>1, <2>2 DEF ListInv, ListTypeOK
<1>4. ASSUME NEW r \in SUBSET Seller, NEW a \in SUBSET r, Discovered(r, a) PROVE ListInv'
  <2>1. /\ status' = [p \in Peer |-> IF p \in a THEN "Pending" ELSE status[p]]
        /\ UNCHANGED <<reachable, unreachable, peers, dropped>>
        /\ discovering' = "answered" /\ requests' = requests \cup r
        /\ failing' = failing \cup (r \ a) /\ told' = told \cup a
        /\ phase # "done" /\ discovering = "asked" /\ Evaluate("WaitForQuoteCompletion", status')
    BY <1>4 DEF Discovered
  <2>2. status' \in [Peer -> QuoteStatus]
    BY <2>1 DEF ListInv, ListTypeOK, QuoteStatus
  <2>3. /\ failing' \subseteq requests' /\ requests' \subseteq Peer
        /\ told' \subseteq Seller /\ dropped' \subseteq Seller
    BY <1>0, <2>1 DEF ListInv, ListTypeOK
  <2>4. \A p \in Seller : status[p] = "None" /\ p \notin peers /\ p \notin failing
    BY <1>0, <2>1 DEF ListInv, ListTypeOK, ListProgress, QuoteStatus
  <2>5. ListProgress' /\ ListedHasAddress'
    BY <1>0, <2>1, <2>4 DEF ListInv, ListTypeOK, ListProgress, ListedHasAddress, QuoteStatus
  <2>6. /\ phase' \in {"WaitForDiscovery", "WaitForQuoteCompletion", "done"}
        /\ sellers' \subseteq Peer \X QuoteStatus /\ ListComplete'
    BY <2>1, <2>2, <2>3, <2>5, EvaluateFacts DEF ListInv
  <2> QED BY <2>1, <2>2, <2>3, <2>5, <2>6 DEF ListInv, ListTypeOK
<1> QED BY <1>1, <1>2, <1>3, <1>4 DEF DiscoverStep, Registrations

\* A peer that was asked for a quote: connected, out of reach, its answer or its failure.
LEMMA PeerStep ==
    ASSUME ListInv, NEW p \in Peer,
           \/ p \in Seller /\ (SellerConnected(p) \/ SellerUnreachable(p))
           \/ QuoteReceived(p) \/ OutboundFailure(p)
    PROVE  ListInv'
<1> USE DiscoveryAssumption
<1>0. phase # "done" /\ discovering' = discovering
  BY DEF SellerConnected, SellerUnreachable, QuoteReceived, OutboundFailure
<1>1. /\ requests' \subseteq Peer /\ failing' \subseteq requests' /\ reachable' \subseteq Peer
      /\ peers' \subseteq Peer /\ unreachable' \subseteq Peer
      /\ told' \subseteq Seller /\ dropped' \subseteq Seller
  BY DEF SellerConnected, SellerUnreachable, QuoteReceived, OutboundFailure, ListInv, ListTypeOK,
     ListProgress, Peer
<1>2. status' \in [Peer -> QuoteStatus]
  BY DEF SellerConnected, SellerUnreachable, QuoteReceived, OutboundFailure, ListInv, ListTypeOK,
     QuoteStatus
<1>3. ListProgress' /\ ListedHasAddress'
  <2> USE DEF ListInv, ListTypeOK, ListProgress, ListedHasAddress
  <2>0. Point \in Peer /\ Seller \subseteq Peer
    BY DEF Peer
  <2>1. CASE p \in Seller /\ SellerConnected(p)
    BY <2>0, <2>1 DEF SellerConnected
  <2>2. CASE p \in Seller /\ SellerUnreachable(p)
    BY <2>0, <2>2 DEF SellerUnreachable
  <2>3. CASE QuoteReceived(p)
    BY <2>0, <2>3 DEF QuoteReceived
  <2>4. CASE OutboundFailure(p)
    BY <2>0, <2>4 DEF OutboundFailure
  <2> QED BY <2>1, <2>2, <2>3, <2>4
<1>4. phase \in {"WaitForDiscovery", "WaitForQuoteCompletion"} /\ Evaluate(phase, status')
  BY <1>0 DEF SellerConnected, SellerUnreachable, QuoteReceived, OutboundFailure, ListInv, ListTypeOK
<1>5. /\ phase' \in {"WaitForDiscovery", "WaitForQuoteCompletion", "done"}
      /\ sellers' \subseteq Peer \X QuoteStatus /\ ListComplete'
  BY <1>0, <1>1, <1>2, <1>3, <1>4, EvaluateFacts DEF ListInv
<1> QED BY <1>0, <1>1, <1>2, <1>3, <1>5 DEF ListInv, ListTypeOK

\* Both sides of discovery keep the invariant.
THEOREM DiscoveryInvariance == DiscoverySpec => []DiscoveryInv
<1>0. DiscoveryInv <=> RendezvousTypeOK /\ DialPursued /\ ListInv
  BY DEF DiscoveryInv, EverybodyAccounted, DiscoveryTypeOK, ListInv
<1>1. DiscoveryInit => DiscoveryInv
  BY RendezvousAssumption DEF DiscoveryInit, RendezvousInit, ListInit, DiscoveryInv,
     EverybodyAccounted, DiscoveryTypeOK, RendezvousTypeOK, ListTypeOK, DialPursued,
     ListedHasAddress, ListComplete, ListProgress, QuoteStatus, Peer
<1>2. DiscoveryInv /\ [DiscoveryNext]_discoveryVars => DiscoveryInv'
  <2> SUFFICES ASSUME RendezvousTypeOK, DialPursued, ListInv, [DiscoveryNext]_discoveryVars
               PROVE  RendezvousTypeOK' /\ DialPursued' /\ ListInv'
    BY <1>0 DEF DiscoveryInv, EverybodyAccounted, DiscoveryTypeOK, ListInv
  <2>1. UNCHANGED regVars => RendezvousTypeOK' /\ DialPursued'
    BY DEF regVars, RendezvousTypeOK, DialPursued
  <2>2. UNCHANGED listVars => ListInv'
    BY DEF listVars, ListInv, ListTypeOK, ListProgress, ListedHasAddress, ListComplete
  <2>3. Wake => RendezvousTypeOK' /\ DialPursued'
    BY DEF Wake, RendezvousTypeOK, DialPursued
  <2>4. RendezvousNext => RendezvousTypeOK' /\ DialPursued'
    BY <2>3, PollStep, SwarmStep DEF RendezvousNext
  <2>5. ListStep \/ DiscoverStep => ListInv'
    BY PointStep, PeerStep DEF ListStep, Peer
  <2> QED BY <2>1, <2>2, <2>4, <2>5 DEF DiscoveryNext, discoveryVars
<1> QED BY <1>1, <1>2, PTL DEF DiscoverySpec

\* A node that counts as being dialled is, and the CLI's list lacks nobody but the sellers
\* whose request was reported as failed, whichever order the events of the swarms have.
THEOREM EverybodyAccountedHolds == DiscoverySpec => []EverybodyAccounted
<1>1. DiscoveryInv => EverybodyAccounted
  BY DEF DiscoveryInv
<1> QED BY <1>1, DiscoveryInvariance, PTL

-----------------------------------------------------------------------------
(* Amounts                                                                 *)

\* Division rounds down.
LEMMA DivFacts ==
    ASSUME NEW a \in Nat, NEW b \in Nat, b > 0
    PROVE  a \div b \in Nat /\ (a \div b) * b <= a /\ a < (a \div b + 1) * b
OBVIOUS

\* A product of naturals is one, and grows with its factors.
LEMMA ProductGrows ==
    ASSUME NEW a \in Nat, NEW b \in Nat, NEW c \in Nat, a <= b
    PROVE  a * c \in Nat /\ a * c <= b * c
OBVIOUS

\* A division by a positive number does not exceed the factor that the number bounds.
LEMMA DivBound ==
    ASSUME NEW a \in Nat, NEW b \in Nat, b > 0, NEW c \in Nat, a <= c * b
    PROVE  a \div b <= c
<1>1. a \div b \in Nat /\ (a \div b) * b <= a
  BY DivFacts
<1>2. SUFFICES ASSUME a \div b >= c + 1 PROVE FALSE
  BY <1>1
<1>3. (c + 1) * b <= (a \div b) * b
  BY <1>1, <1>2, ProductGrows
<1>4. (c + 1) * b = c * b + b /\ c * b \in Nat
  OBVIOUS
<1>5. (a \div b) * b \in Nat
  BY <1>1, ProductGrows
<1> QED BY <1>1, <1>3, <1>4, <1>5

\* A price with the spread on it is an amount or a failure, exact to the satoshi.
LEMMA AskFacts ==
    ASSUME NEW rate \in Amount
    PROVE  /\ Ask(rate, Spread) \in Amount \cup {Failure}
           /\ Ask(rate, Spread) # Failure =>
                /\ Ask(rate, Spread) * 100 <= rate * (100 + Spread)
                /\ rate * (100 + Spread) < (Ask(rate, Spread) + 1) * 100
<1> DEFINE x == rate * Spread
<1>1. rate \in Nat /\ Spread \in Nat /\ x \in Nat
  BY BuyAssumption, QuotesAssumption, ProductGrows DEF Amount
<1>2. rate * (100 + Spread) = 100 * rate + x
  BY <1>1
<1> HIDE DEF x
<1>3. x \div 100 \in Nat /\ (x \div 100) * 100 <= x /\ x < (x \div 100 + 1) * 100
  BY <1>1
<1>4. Ask(rate, Spread) = Fits(rate + x \div 100)
  BY DEF Ask, x
<1>5. Ask(rate, Spread) # Failure => Ask(rate, Spread) = rate + x \div 100
  BY <1>4 DEF Fits
<1>6. Ask(rate, Spread) \in Amount \cup {Failure}
  BY <1>4 DEF Fits
<1> QED BY <1>1, <1>2, <1>3, <1>5, <1>6

\* What the ASB can sell for its balance is an amount or a failure.
LEMMA MostFacts ==
    ASSUME NEW bdx \in Amount, NEW ask \in Amount
    PROVE  /\ MaxBitcoinForPrice(bdx, ask) \in Amount \cup {Failure}
           /\ MaxBitcoinForPrice(bdx, ask) # Failure =>
                MaxBitcoinForPrice(bdx, ask) * OneBdx <= SaturatingSub(bdx, BeldexFee) * ask
<1> DEFINE y == SaturatingSub(bdx, BeldexFee) * ask
<1>1. SaturatingSub(bdx, BeldexFee) \in Nat /\ ask \in Nat /\ OneBdx \in Nat /\ OneBdx > 0
  BY QuotesAssumption DEF SaturatingSub, Amount
<1>2. y \in Nat
  BY <1>1, ProductGrows
<1>3. MaxBitcoinForPrice(bdx, ask) = Fits(y \div OneBdx)
  BY DEF MaxBitcoinForPrice
<1> HIDE DEF y
<1>4. (y \div OneBdx) * OneBdx <= y
  BY <1>1, <1>2, DivFacts
<1> QED BY <1>3, <1>4 DEF Fits, y

\* A quote is one of nothing, or its price is the market's with the spread and its limits
\* are the ones of the config, the upper one no more than the balance pays for.
LEMMA QuoteFacts ==
    ASSUME BuyTypeOK
    PROVE  LET q == SellersQuote
               rest == SaturatingSub(SaturatingSub(unlocked, Reserve), BeldexFee)
           IN  /\ q \in [price : Failure..(U64 - 1), min_quantity : Amount, max_quantity : Amount]
               /\ q.min_quantity <= q.max_quantity
               /\ q.price # Failure => feed \in Price /\ q.price = Ask(feed, Spread)
               /\ q.max_quantity > 0 =>
                    /\ q.price \in Amount
                    /\ q.min_quantity = MinBuy /\ q.max_quantity <= MaxBuy
                    /\ q.max_quantity * OneBdx <= rest * q.price
<1> DEFINE ask == Ask(feed, Spread)
           had == SaturatingSub(unlocked, Reserve)
           rest == SaturatingSub(had, BeldexFee)
           most == MaxBitcoinForPrice(had, ask)
<1>0. 0 \in Amount /\ Failure \in Failure..(U64 - 1) /\ Amount \subseteq Failure..(U64 - 1)
  BY QuotesAssumption DEF Amount, Failure
<1>1. CASE SellersQuote = NoQuote
  <2>1. /\ NoQuote.price = Failure /\ NoQuote.min_quantity = 0 /\ NoQuote.max_quantity = 0
        /\ NoQuote \in [price : Failure..(U64 - 1), min_quantity : Amount, max_quantity : Amount]
    BY <1>0 DEF NoQuote, BidQuote
  <2> QED BY <1>1, <2>1
<1>2. CASE SellersQuote # NoQuote
  <2>1. feed \in Price /\ feed \in Amount
    BY <1>2, BuyAssumption DEF SellersQuote, BuyTypeOK
  <2>2. /\ ask # Failure /\ most # Failure
        /\ SellersQuote = IF MinBuy > most THEN BidQuote(ask, 0, 0)
                          ELSE BidQuote(ask, MinBuy, AtMost(MaxBuy, most))
    BY <1>2 DEF SellersQuote, MakeQuote
  <2>3. ask \in Amount
    BY <2>1, <2>2, AskFacts
  <2>4. unlocked \in Amount /\ had \in Amount
    BY BuyAssumption, QuotesAssumption DEF BuyTypeOK, SaturatingSub, Amount
  <2>5. most \in Amount /\ most * OneBdx <= rest * ask
    BY <2>2, <2>3, <2>4, MostFacts
  <2>6. MinBuy \in Amount /\ MaxBuy \in Amount /\ MinBuy <= MaxBuy
    BY BuyAssumption
  <2>7. rest \in Nat /\ OneBdx \in Nat /\ ask \in Nat
    BY <2>3, <2>4, QuotesAssumption DEF SaturatingSub, Amount
  <2> HIDE DEF ask, had, rest, most
  <2>8. CASE MinBuy > most
    <3>1. SellersQuote = [price |-> ask, min_quantity |-> 0, max_quantity |-> 0]
      BY <2>2, <2>8 DEF BidQuote
    <3>2. /\ SellersQuote.price = ask
          /\ SellersQuote.min_quantity = 0 /\ SellersQuote.max_quantity = 0
      BY <3>1
    <3>3. SellersQuote \in
            [price : Failure..(U64 - 1), min_quantity : Amount, max_quantity : Amount]
      BY <1>0, <2>3, <3>1
    <3> QED BY <2>1, <3>2, <3>3 DEF ask
  <2>9. CASE ~(MinBuy > most)
    <3> DEFINE top == AtMost(MaxBuy, most)
    <3>1. SellersQuote = [price |-> ask, min_quantity |-> MinBuy, max_quantity |-> top]
      BY <2>2, <2>9 DEF BidQuote
    <3>2. top \in Amount /\ MinBuy <= top /\ top <= MaxBuy /\ top <= most
      BY <2>5, <2>6, <2>9 DEF AtMost, Amount
    <3>3. top * OneBdx <= rest * ask
      <4>1. top \in Nat /\ most \in Nat
        BY <2>5, <3>2 DEF Amount
      <4>2. top * OneBdx <= most * OneBdx /\ top * OneBdx \in Nat /\ most * OneBdx \in Nat
        BY <2>7, <3>2, <4>1, ProductGrows
      <4>3. rest * ask \in Nat
        BY <2>7, ProductGrows
      <4> HIDE DEF top
      <4> QED BY <2>5, <4>2, <4>3
    <3> HIDE DEF top
    <3> QED BY <1>0, <2>1, <2>3, <2>6, <3>1, <3>2, <3>3 DEF ask, rest, had
  <2> QED BY <2>8, <2>9
<1> QED BY <1>1, <1>2

\* The rounding of the quote and of the request agree: an amount within the quote is
\* paid for by the balance that the quote was made of.
LEMMA WithinQuoteAcceptable ==
    ASSUME BuyTypeOK, quote = SellersQuote, quote.price # Failure, quote.max_quantity > 0,
           amount \in quote.min_quantity..quote.max_quantity
    PROVE  Acceptable
<1> DEFINE ask == Ask(feed, Spread)
           rest == SaturatingSub(SaturatingSub(unlocked, Reserve), BeldexFee)
           top == quote.max_quantity
<1>1. /\ feed \in Price /\ ask = quote.price /\ ask \in Amount
      /\ quote.min_quantity = MinBuy /\ top <= MaxBuy
      /\ top * OneBdx <= rest * ask
  BY QuoteFacts
<1>2. feed # Failure /\ amount \in MinBuy..MaxBuy /\ amount <= top /\ amount \in Nat
  BY <1>1, BuyAssumption, QuotesAssumption DEF BuyTypeOK, Amount, Failure
<1>3. /\ rest \in Nat /\ OneBdx \in Nat /\ OneBdx > 0 /\ ask \in Nat /\ top \in Nat
      /\ unlocked \in Nat /\ unlocked < U64 /\ Reserve \in Nat /\ BeldexFee \in Nat
  BY <1>1, BuyAssumption, QuotesAssumption DEF BuyTypeOK, SaturatingSub, Amount
<1>4. rest > 0 => unlocked = rest + Reserve + BeldexFee
  BY <1>3 DEF SaturatingSub
<1> HIDE DEF ask, rest, top
<1>5. top * OneBdx \in Nat /\ top * OneBdx >= OneBdx
  <2>1. 1 * OneBdx <= top * OneBdx
    BY <1>3, ProductGrows DEF top
  <2> QED BY <1>3, <2>1, ProductGrows
<1>6. ask > 0 /\ rest > 0
  <2>1. ask = 0 => rest * ask = 0
    BY <1>3
  <2>2. rest = 0 => rest * ask = 0
    BY <1>3
  <2> QED BY <1>1, <1>3, <1>5, <2>1, <2>2
<1> DEFINE bdx == (amount * OneBdx) \div ask
<1>7. amount * OneBdx \in Nat /\ amount * OneBdx <= rest * ask
  <2>1. amount * OneBdx \in Nat /\ amount * OneBdx <= top * OneBdx
    BY <1>2, <1>3, ProductGrows
  <2>2. rest * ask \in Nat
    BY <1>3, ProductGrows
  <2> QED BY <1>1, <1>5, <2>1, <2>2
<1>8. bdx \in Nat /\ bdx <= rest
  BY <1>3, <1>6, <1>7, DivFacts, DivBound
<1> HIDE DEF bdx
<1>9. bdx \in Amount /\ unlocked >= bdx + BeldexFee
  BY <1>3, <1>4, <1>6, <1>8, QuotesAssumption DEF Amount
<1>10. SellQuote(ask, amount) = bdx /\ bdx # Failure /\ ask # Failure
  BY <1>3, <1>6, <1>8, <1>9 DEF SellQuote, Fits, bdx, Failure
<1> QED BY <1>2, <1>9, <1>10 DEF Acceptable, ask

\* The two fees leave something of an amount that was accepted.
LEMMA FeesLeaveSomething ==
    ASSUME NEW a \in Amount, a >= MinBuy, a > DustAmount, NEW f \in Amount,
           f <= MaxAbsoluteFee, MinBuy > 2 * RelayFee
    PROVE  a > 2 * EstimateFee(a, f)
<1>1. /\ a \in Nat /\ a > 0 /\ f \in Nat /\ DustAmount \in Nat
      /\ MaxAbsoluteFee \in Nat /\ RelayFee \in Nat /\ MinBuy \in Nat
  BY BuyAssumption, QuotesAssumption DEF Amount, RelayFee
<1>2. RelativeBound(a) \in Nat /\ a > 2 * RelativeBound(a)
  BY <1>1 DEF RelativeBound
<1> QED BY <1>1, <1>2 DEF EstimateFee

\* What may be given is an amount that the balance covers.
LEMMA GiveableFacts ==
    ASSUME NEW b \in Amount, NEW f \in Amount
    PROVE  MaxGiveable(b, f) \in Amount /\ MaxGiveable(b, f) <= b
BY QuotesAssumption DEF MaxGiveable, Amount

\* The ASB's quote is received: its price and limits are in order.
LEMMA RequestQuoteStep ==
    ASSUME BuyInv, RequestQuote
    PROVE  BuyInv'
<1>1. /\ at = "start" /\ quote' = SellersQuote
      /\ at' \in {"no quote", "zero", "quoted"}
      /\ at' = "quoted" => quote'.price # Failure /\ quote'.max_quantity # 0
      /\ "seller" \notin disturbed' /\ disturbed' \subseteq disturbed
      /\ UNCHANGED <<asbVars, known, fee, wish, give, amount, coins>>
  BY DEF RequestQuote
<1>2. /\ quote' \in [price : Failure..(U64 - 1), min_quantity : Amount, max_quantity : Amount]
      /\ quote'.min_quantity <= quote'.max_quantity
      /\ quote'.price # Failure => feed \in Price /\ quote'.price = Ask(feed, Spread)
  BY <1>1, QuoteFacts DEF BuyInv
<1>3. BuyTypeOK'
  BY <1>1, <1>2 DEF BuyInv, BuyTypeOK, asbVars, Ended
<1>4. SpreadApplied'
  <2>1. SUFFICES ASSUME quote'.price # Failure
                 PROVE  \E p \in Price : /\ quote'.price * 100 <= p * (100 + Spread)
                                         /\ p * (100 + Spread) < (quote'.price + 1) * 100
    BY DEF SpreadApplied
  <2>2. feed \in Amount
    BY <1>2, <2>1, BuyAssumption
  <2> QED BY <1>2, <2>1, <2>2, AskFacts
<1>5. QuoteCurrent'
  BY <1>1 DEF QuoteCurrent, SellersQuote, asbVars
<1>6. QuoteUsable'
  <2>1. quote'.max_quantity \in Nat
    BY <1>2, QuotesAssumption DEF Amount
  <2>2. quote'.max_quantity # 0 => quote'.max_quantity > 0
    BY <2>1
  <2> QED BY <1>1, <1>2, <2>2 DEF QuoteUsable
<1>7. AmountSound' /\ GiveCovered' /\ AcceptedCovered'
  BY <1>1 DEF AmountSound, AmountWithinQuote, PanicsOnlyIfDisturbed, GiveCovered, AcceptedCovered
<1> QED BY <1>3, <1>4, <1>5, <1>6, <1>7 DEF BuyInv

\* The wallet is synced, and what it can give worked out.
LEMMA GiveStep ==
    ASSUME BuyInv, Sync \/ GiveFirst \/ AskForDeposit \/ GiveAgain
    PROVE  BuyInv'
<1>1. /\ at \notin {"start", "no quote", "zero"}
      /\ at' \in {"give", "regive", "deposit", "balance", "dust", "sync"}
      /\ UNCHANGED <<asbVars, fee, wish, quote, amount, coins>>
  BY DEF Sync, GiveFirst, AskForDeposit, GiveAgain
<1>2. /\ quote.min_quantity \in Nat /\ known \in Amount /\ fee \in Amount /\ coins \in Amount
      /\ MaxGiveable(known, fee) \in Amount /\ MaxGiveable(known, fee) <= known
  BY GiveableFacts, BuyAssumption DEF BuyInv, BuyTypeOK, Amount
<1>3. known' \in Amount /\ give' \in Amount /\ disturbed' \subseteq disturbed
  BY <1>2 DEF Sync, GiveFirst, AskForDeposit, GiveAgain, BuyInv, BuyTypeOK
<1>4. "seller" \in disturbed' <=> "seller" \in disturbed
  BY DEF Sync, GiveFirst, AskForDeposit, GiveAgain
<1>5. at' = "balance" => give' >= quote.min_quantity /\ give' <= known'
  <2>1. CASE Sync \/ AskForDeposit
    BY <2>1 DEF Sync, AskForDeposit
  <2>2. CASE GiveFirst
    BY <1>2, <2>2 DEF GiveFirst, TooLittle, Amount
  <2>3. CASE GiveAgain
    BY <1>2, <2>3 DEF GiveAgain, TooLittle, Amount
  <2> QED BY <2>1, <2>2, <2>3
<1>6. BuyTypeOK'
  BY <1>1, <1>3 DEF BuyInv, BuyTypeOK, asbVars, Ended
<1>7. SpreadApplied' /\ QuoteCurrent' /\ QuoteUsable'
  BY <1>1, <1>4 DEF BuyInv, SpreadApplied, QuoteCurrent, QuoteUsable, SellersQuote, asbVars
<1>8. AmountSound' /\ GiveCovered' /\ AcceptedCovered'
  BY <1>1, <1>5 DEF AmountSound, AmountWithinQuote, PanicsOnlyIfDisturbed, GiveCovered,
     AcceptedCovered
<1> QED BY <1>6, <1>7, <1>8 DEF BuyInv

\* The amount is the least of what can be given, quoted and preferred.
LEMMA AmountStep ==
    ASSUME BuyInv, DetermineAmount
    PROVE  BuyInv'
<1>1. /\ at = "balance" /\ at' \in {"panic", "request"}
      /\ UNCHANGED <<asbVars, known, fee, wish, quote, give, coins, disturbed>>
  BY DEF DetermineAmount
<1> DEFINE top == quote.max_quantity
           low == quote.min_quantity
<1>2. /\ give \in Nat /\ known \in Nat /\ top \in Nat /\ low \in Nat /\ give >= low /\ low <= top
      /\ wish # AnyAmount => wish \in Nat
  BY <1>1, BuyAssumption DEF BuyInv, BuyTypeOK, GiveCovered, QuoteUsable, Amount
<1>3. amount' \in Amount
  BY BuyAssumption DEF DetermineAmount, BuyInv, BuyTypeOK, AtMost
<1>4. at' = "request" => /\ amount' <= top /\ amount' <= give
                         /\ amount' < low => wish # AnyAmount /\ wish < low
  BY <1>2 DEF DetermineAmount, AtMost
<1>5. at' = "panic" => "wallet" \in disturbed
  BY <1>1, <1>2 DEF DetermineAmount, BuyInv, GiveCovered
<1>6. BuyTypeOK'
  BY <1>1, <1>3 DEF BuyInv, BuyTypeOK, asbVars, Ended
<1>7. SpreadApplied' /\ QuoteCurrent' /\ QuoteUsable'
  BY <1>1 DEF BuyInv, SpreadApplied, QuoteCurrent, QuoteUsable, SellersQuote, asbVars
<1>8. AmountSound' /\ GiveCovered' /\ AcceptedCovered'
  BY <1>1, <1>2, <1>4, <1>5 DEF AmountSound, AmountWithinQuote, PanicsOnlyIfDisturbed,
     GiveCovered, AcceptedCovered
<1> QED BY <1>6, <1>7, <1>8 DEF BuyInv

\* The ASB answers the request by the rate and the balance of the moment.
LEMMA RequestSwapStep ==
    ASSUME BuyInv, RequestSwap
    PROVE  BuyInv'
<1>1. /\ at = "request" /\ at' \in {"failed", "accepted", "declined"}
      /\ UNCHANGED <<asbVars, known, fee, wish, quote, give, amount, coins, disturbed>>
      /\ at' = "accepted" => Acceptable /\ EstimateFee(amount, fee) # Failure
      /\ at' = "declined" => ~Acceptable
  BY DEF RequestSwap
<1>2. Acceptable' <=> Acceptable
  BY <1>1 DEF Acceptable, asbVars
<1>3. at' = "accepted" => amount >= MinBuy /\ amount > DustAmount
  BY <1>1, BuyAssumption, QuotesAssumption
     DEF Acceptable, EstimateFee, BuyInv, BuyTypeOK, Amount
<1>4. BuyTypeOK'
  BY <1>1 DEF BuyInv, BuyTypeOK, asbVars, Ended
<1>5. QuoteCurrent'
  BY <1>1, <1>2 DEF BuyInv, QuoteCurrent, SellersQuote, asbVars
<1>6. SpreadApplied' /\ QuoteUsable' /\ GiveCovered' /\ AcceptedCovered' /\ AmountSound'
  BY <1>1, <1>3 DEF BuyInv, SpreadApplied, QuoteUsable, GiveCovered, AcceptedCovered, AmountSound,
     AmountWithinQuote, PanicsOnlyIfDisturbed
<1> QED BY <1>4, <1>5, <1>6 DEF BuyInv

\* The price, the ASB's balance, the user's coins and other requests leave the request
\* alone, and what they change of its quote or its wallet is recorded.
LEMMA OutsideStep ==
    ASSUME BuyInv,
           PriceMoves \/ FetchPrice \/ SellerBalanceChanges \/ Pay \/ Withdraw \/ OtherSync
    PROVE  BuyInv'
<1>1. UNCHANGED <<fee, wish, quote, give, amount, at>>
  BY DEF PriceMoves, FetchPrice, SellerBalanceChanges, Pay, Withdraw, OtherSync, cliVars, asbVars
<1>2. disturbed \subseteq disturbed' /\ disturbed' \subseteq {"wallet", "seller"}
  BY DEF PriceMoves, FetchPrice, SellerBalanceChanges, Pay, Withdraw, OtherSync, BuyInv, BuyTypeOK
<1>3. "seller" \notin disturbed' => feed' = feed /\ unlocked' = unlocked
  BY DEF PriceMoves, FetchPrice, SellerBalanceChanges, Pay, Withdraw, OtherSync, asbVars
<1>4. "wallet" \notin disturbed' => known' = known
  BY DEF PriceMoves, FetchPrice, SellerBalanceChanges, Pay, Withdraw, OtherSync, cliVars
<1>5. market' \in Price /\ feed' \in Price \cup {Failure} /\ unlocked' \in BdxBalance
  BY DEF PriceMoves, FetchPrice, SellerBalanceChanges, Pay, Withdraw, OtherSync, asbVars, BuyInv,
     BuyTypeOK
<1>6. coins' \in Amount /\ known' \in Amount
  BY BuyAssumption, QuotesAssumption DEF PriceMoves, FetchPrice, SellerBalanceChanges, Pay,
     Withdraw, OtherSync, cliVars, BuyInv, BuyTypeOK, Amount
<1>7. BuyTypeOK'
  BY <1>1, <1>2, <1>5, <1>6 DEF BuyInv, BuyTypeOK
<1>8. QuoteCurrent'
  BY <1>1, <1>2, <1>3 DEF BuyInv, QuoteCurrent, SellersQuote, Acceptable
<1>9. SpreadApplied' /\ QuoteUsable' /\ GiveCovered' /\ AcceptedCovered' /\ AmountSound'
  BY <1>1, <1>2, <1>4 DEF BuyInv, SpreadApplied, QuoteUsable, GiveCovered, AcceptedCovered,
     AmountSound, AmountWithinQuote, PanicsOnlyIfDisturbed
<1> QED BY <1>7, <1>8, <1>9 DEF BuyInv

\* Every step of the request and of the world around it keeps the invariant.
THEOREM BuyInvariance == BuySpec => []BuyInv
<1>1. BuyInit => BuyInv
  <2> SUFFICES ASSUME BuyInit PROVE BuyInv
    OBVIOUS
  <2>1. 0 \in Amount /\ Failure \in Failure..(U64 - 1)
    BY QuotesAssumption DEF Amount, Failure
  <2>2. /\ quote.price = Failure /\ quote.min_quantity = 0 /\ quote.max_quantity = 0
        /\ quote \in [price : Failure..(U64 - 1), min_quantity : Amount, max_quantity : Amount]
    BY <2>1 DEF BuyInit, NoQuote, BidQuote
  <2>3. BuyTypeOK
    BY <2>1, <2>2, BuyAssumption DEF BuyInit, BuyTypeOK
  <2> QED BY <2>2, <2>3 DEF BuyInv, BuyInit, SpreadApplied, AmountSound, AmountWithinQuote,
     PanicsOnlyIfDisturbed, QuoteCurrent, QuoteUsable, GiveCovered, AcceptedCovered
<1>2. BuyInv /\ [BuyNext]_buyVars => BuyInv'
  <2> SUFFICES ASSUME BuyInv, [BuyNext]_buyVars PROVE BuyInv'
    OBVIOUS
  <2>1. CASE UNCHANGED buyVars
    <3> USE <2>1 DEF buyVars, asbVars, cliVars, BuyInv
    <3>1. BuyTypeOK'
      BY DEF BuyTypeOK
    <3>2. SpreadApplied' /\ AmountSound'
      BY DEF SpreadApplied, AmountSound, AmountWithinQuote, PanicsOnlyIfDisturbed
    <3>3. QuoteCurrent'
      BY DEF QuoteCurrent, SellersQuote, Acceptable
    <3>4. QuoteUsable' /\ GiveCovered' /\ AcceptedCovered'
      BY DEF QuoteUsable, GiveCovered, AcceptedCovered
    <3> QED BY <3>1, <3>2, <3>3, <3>4
  <2> QED BY <2>1, RequestQuoteStep, GiveStep, AmountStep, RequestSwapStep, OutsideStep
         DEF BuyNext, BuyStep
<1> QED BY <1>1, <1>2, PTL DEF BuySpec

\* A quote is the market's price with the spread, and no amount within it is declined
\* while it is current, for all prices, spreads, balances and roundings.
THEOREM QuoteSoundHolds == BuySpec => []QuoteSound
<1>1. BuyInv => QuoteSound
  <2> SUFFICES ASSUME BuyInv, at = "declined", "seller" \notin disturbed
               PROVE  amount \notin quote.min_quantity..quote.max_quantity
    BY DEF BuyInv, QuoteSound, QuoteHonoured
  <2> QED BY WithinQuoteAcceptable DEF BuyInv, QuoteCurrent, QuoteUsable
<1> QED BY <1>1, BuyInvariance, PTL

\* The amount that is asked for lies within the quote and can be given.
THEOREM AmountSoundHolds == BuySpec => []AmountSound
<1>1. BuyInv => AmountSound
  BY DEF BuyInv
<1> QED BY <1>1, BuyInvariance, PTL

\* The fees of TxCancel and TxRefund leave something of what was accepted.
THEOREM FeesLeaveRefundHolds == BuySpec => []FeesLeaveRefund
<1>1. BuyInv => FeesLeaveRefund
  <2> SUFFICES ASSUME BuyInv, at = "accepted", fee <= MaxAbsoluteFee, MinBuy > 2 * RelayFee
               PROVE  amount > 2 * EstimateFee(amount, fee)
    BY DEF FeesLeaveRefund
  <2>1. amount \in Amount /\ fee \in Amount /\ amount >= MinBuy /\ amount > DustAmount
    BY BuyAssumption DEF BuyInv, BuyTypeOK, AcceptedCovered
  <2> QED BY <2>1, FeesLeaveSomething
<1> QED BY <1>1, BuyInvariance, PTL
=============================================================================
