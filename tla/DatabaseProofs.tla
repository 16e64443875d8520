--------------------------- MODULE DatabaseProofs ---------------------------
(***************************************************************************)
(* Proofs about SwapDatabase, for any number of swaps, rows and stops: the *)
(* inductive invariant DbInv and the properties that follow from it.       *)
(***************************************************************************)
EXTENDS SwapDatabase, TLAPS

RoleKind == IF role = "alice" THEN AliceKind ELSE BobKind

\* Storing a state and loading it again changes nothing: the conversions of
\* database/alice.rs and database/bob.rs are inverse to each other.
LEMMA RoundTrip ==
    ASSUME role \in {"alice", "bob"}, NEW s \in State, s.kind \in RoleKind
    PROVE  RowOf(s) \in Row /\ StateOf(RowOf(s)) = s
<1>1. CASE role = "alice"
  <2>1. s.kind \in AliceKind
    BY <1>1 DEF RoleKind
  <2>2. AliceRow(s) \in Row
    BY <2>1 DEF AliceRow, ToRow, Row, State, AliceTag, AliceKind, AliceEnd
  <2>3. AliceStateOf(AliceRow(s)) = s
    BY <2>1 DEF AliceRow, AliceStateOf, ToRow, OfRow, State, AliceKind, AliceEnd
  <2> QED BY <1>1, <2>2, <2>3 DEF RowOf, StateOf
<1>2. CASE role = "bob"
  <2>1. s.kind \in BobKind
    BY <1>2 DEF RoleKind
  <2>2. BobRow(s) \in Row
    BY <2>1 DEF BobRow, ToRow, Row, State, BobTag, BobKind, BobEnd
  <2>3. BobStateOf(BobRow(s)) = s
    BY <2>1 DEF BobRow, BobStateOf, ToRow, OfRow, State, BobKind, BobEnd
  <2> QED BY <1>2, <2>2, <2>3 DEF RowOf, StateOf
<1> QED BY <1>1, <1>2

\* What an insert does to the table: the state is the swap's last one, its first
\* row and the rows of the other swaps stay.
LEMMA Inserted ==
    ASSUME DbTypeOK, role' = role, NEW w \in Swap, NEW s \in State, s.kind \in RoleKind,
           InsertLatestState(w, s)
    PROVE  /\ rows' \in [Swap -> Seq(Row)]
           /\ Stored' = Stored \cup {w}
           /\ GetState(w)' = s
           /\ \A v \in Swap \ {w} : rows'[v] = rows[v] /\ GetState(v)' = GetState(v)
           /\ rows'[w][1] = IF w \in Stored THEN rows[w][1] ELSE RowOf(s)
<1>1. RowOf(s) \in Row /\ StateOf(RowOf(s)) = s
  BY RoundTrip DEF DbTypeOK
<1>2. rows' = [rows EXCEPT ![w] = Append(rows[w], RowOf(s))]
  BY DEF InsertLatestState
<1>3. rows \in [Swap -> Seq(Row)] /\ rows[w] \in Seq(Row)
  BY DEF DbTypeOK
<1>4. rows'[w] = Append(rows[w], RowOf(s)) /\ rows'[w] \in Seq(Row)
  BY <1>1, <1>2, <1>3
<1>5. rows' \in [Swap -> Seq(Row)] /\ \A v \in Swap \ {w} : rows'[v] = rows[v]
  BY <1>2, <1>3, <1>4
<1>6. Len(rows'[w]) = Len(rows[w]) + 1 /\ rows'[w][Len(rows[w]) + 1] = RowOf(s)
  BY <1>1, <1>3, <1>4
<1>7. rows'[w] # <<>>
  BY <1>3, <1>6
<1>8. Stored' = Stored \cup {w}
  BY <1>5, <1>7 DEF Stored
<1>9. GetState(w)' = s
  BY <1>1, <1>6 DEF GetState, Last, StateOf, AliceStateOf, BobStateOf, OfRow
<1>10. \A v \in Swap \ {w} : GetState(v)' = GetState(v)
  BY <1>5 DEF GetState, Last, StateOf, AliceStateOf, BobStateOf, OfRow
<1>11. rows'[w][1] = IF w \in Stored THEN rows[w][1] ELSE RowOf(s)
  BY <1>1, <1>3, <1>4 DEF Stored
<1> QED BY <1>5, <1>8, <1>9, <1>10, <1>11

-----------------------------------------------------------------------------
(* The frame: what stays when the table of states is not written           *)

\* Then the stored swaps and their latest states are the same.
LEMMA SameRows ==
    ASSUME role' = role, rows' = rows
    PROVE  /\ Stored' = Stored
           /\ \A v \in Swap : GetState(v)' = GetState(v)
<1>1. Stored' = Stored
  BY DEF Stored
<1>2. \A v \in Swap : GetState(v)' = GetState(v)
  BY DEF GetState, Last, StateOf, AliceStateOf, BobStateOf, OfRow
<1> QED BY <1>1, <1>2

\* The state that a step to a state of kind k produces.
LEMMA EnterFits ==
    ASSUME DbTypeOK, NEW w \in Swap, NEW k \in RoleKind, NEW r \in Height \cup {NoHeight},
           r <= height, role = "bob" /\ bdxAt[w] # NoHeight => r <= bdxAt[w]
    PROVE  Fits(w, Enter(w, k, r))
<1>1. Enter(w, k, r) \in State
  BY DEF Enter, State, RoleKind
<1>2. Enter(w, k, r).kind = k
  BY DEF Enter
<1>3. Enter(w, k, r).keys = IF Keyless(k) THEN None ELSE w
  BY DEF Enter
<1>4. Enter(w, k, r).restore \in {r, NoHeight}
  BY DEF Enter
<1>5. NoHeight <= height /\ (bdxAt[w] # NoHeight => NoHeight <= bdxAt[w])
  BY DatabaseAssumption DEF DbTypeOK, Height, NoHeight
<1> QED BY <1>1, <1>2, <1>3, <1>4, <1>5 DEF Fits, RoleKind

\* The state machines and the manual commands lead to states of the same role.
LEMMA EdgesFit ==
    ASSUME role \in {"alice", "bob"}, NEW k \in RoleKind
    PROVE  /\ role = "bob" => BobEdge(k) \subseteq RoleKind
           /\ role = "alice" => AliceEdge(k) \subseteq RoleKind
           /\ role = "alice" => AliceManual(k) \subseteq RoleKind
<1>1. role = "bob" => BobEdge(k) \subseteq RoleKind
  BY DEF BobEdge, RoleKind, BobKind, BobEnd
<1>2. role = "alice" => AliceEdge(k) \subseteq RoleKind
  BY DEF AliceEdge, RoleKind, AliceKind, AliceEnd
<1>3. role = "alice" => AliceManual(k) \subseteq RoleKind
  BY DEF AliceManual, RoleKind, AliceKind, AliceEnd
<1> QED BY <1>1, <1>2, <1>3

-----------------------------------------------------------------------------
(* The steps that write no state                                           *)

\* An empty database is consistent.
LEMMA InvInit == DbInit => DbInv
<1> SUFFICES ASSUME DbInit PROVE DbInv
  OBVIOUS
<1>1. Stored = {}
  BY DEF DbInit, Stored
<1>2. DbTypeOK
  BY DatabaseAssumption DEF DbInit, DbTypeOK, Height, NoHeight, Blank, State, BobKind
<1> QED BY <1>1, <1>2 DEF DbInit, DbInv, TablesInv, ListedIsResumable, MemoryInv, RowsInv,
           RunsFromRecord, MovedIsStored, ChainsInv

\* Nothing of what the rows are compared with changes.
LEMMA RowsKept ==
    ASSUME DbInv, role' = role, rows' = rows, height' = height, bdxAt' = bdxAt
    PROVE  RowsInv'
<1>1. Stored' = Stored /\ \A v \in Swap : GetState(v)' = GetState(v)
  BY SameRows
<1>2. SUFFICES ASSUME NEW v \in Stored
               PROVE  /\ Fits(v, GetState(v))'
                      /\ role = "bob" => rows[v][1].tag = "ExecutionSetupDone" /\ rows[v][1].keys = v
  BY <1>1 DEF RowsInv
<1>3. v \in Swap /\ Fits(v, GetState(v))
  BY <1>2 DEF DbInv, RowsInv, Stored
<1>4. Fits(v, GetState(v))'
  BY <1>1, <1>3 DEF Fits, Keyless
<1> QED BY <1>2, <1>4 DEF DbInv, RowsInv

\* A task that ends, wherever it is.
LEMMA TaskOverKeeps ==
    ASSUME DbInv, NEW w \in Swap,
           NEW from \in {"run", "save", "quote", "received"},
           Goto(w, from, "off"),
           mem' \in {mem, [mem EXCEPT ![w] = Blank]},
           holder' \in {holder, None},
           stops' \in 0 .. MaxStops,
           UNCHANGED <<role, tables, up, seller, chains>>
    PROVE  DbInv'
<1> USE DEF DbInv
<1>1. /\ role' = role /\ rows' = rows /\ peers' = peers /\ addresses' = addresses
      /\ receive' = receive /\ up' = up /\ seller' = seller
      /\ txLock' = txLock /\ height' = height /\ bdxAt' = bdxAt
  BY DEF tables, chains
<1>2. Stored' = Stored /\ \A v \in Swap : GetState(v)' = GetState(v)
  BY <1>1, SameRows
<1>3. pc' = [pc EXCEPT ![w] = "off"]
  BY DEF Goto
<1>4. DbTypeOK'
  <2>1. Blank \in State
    BY DEF Blank, State, BobKind
  <2> QED BY <1>1, <1>3, <2>1 DEF DbTypeOK
<1>5. TablesInv'
  BY <1>1, <1>3 DEF TablesInv, DbTypeOK
<1>6. ListedIsResumable'
  BY <1>1, <1>2 DEF ListedIsResumable, GetPeerIdOk, GetBeldexAddressOk, GetAddresses
<1>7. MemoryInv'
  BY <1>1, <1>2, <1>3 DEF MemoryInv, DbTypeOK, Fits, Keyless
<1>8. RowsInv'
  BY <1>1, RowsKept
<1>9. RunsFromRecord'
  BY <1>1, <1>2, <1>3 DEF RunsFromRecord, DbTypeOK, Stored
<1>10. MovedIsStored' /\ ChainsInv'
  BY <1>1, <1>2 DEF MovedIsStored, ChainsInv
<1> QED BY <1>4, <1>5, <1>6, <1>7, <1>8, <1>9, <1>10

\* No state is written, no money moves, and the other tables only grow.
LEMMA TablesGrow ==
    ASSUME DbInv, role' = role, rows' = rows, chains' = chains,
           \A v \in Swap : peers[v] # None => peers'[v] = peers[v],
           addresses \subseteq addresses', receive \subseteq receive'
    PROVE  /\ Stored' = Stored
           /\ \A v \in Swap : GetState(v)' = GetState(v)
           /\ ListedIsResumable' /\ RowsInv' /\ MovedIsStored' /\ ChainsInv'
<1>1. Stored' = Stored /\ \A v \in Swap : GetState(v)' = GetState(v)
  BY SameRows
<1>2. txLock' = txLock /\ height' = height /\ bdxAt' = bdxAt
  BY DEF chains
<1>3. ListedIsResumable'
  BY <1>1 DEF DbInv, ListedIsResumable, GetPeerIdOk, GetBeldexAddressOk, GetAddresses, Stored
<1>4. RowsInv'
  BY <1>2, RowsKept
<1>5. MovedIsStored' /\ ChainsInv'
  BY <1>1, <1>2 DEF DbInv, MovedIsStored, ChainsInv
<1> QED BY <1>1, <1>3, <1>4, <1>5

\* buy_beldex stores the seller's address.
LEMMA BuyAddressKeeps ==
    ASSUME DbInv, NEW w \in Swap, BuyAddress(w)
    PROVE  DbInv'
<1> USE DEF DbInv
<1>1. /\ role' = role /\ peers' = peers /\ receive' = receive /\ rows' = rows /\ up' = up
      /\ mem' = mem /\ holder' = holder /\ txLock' = txLock /\ height' = height /\ bdxAt' = bdxAt
      /\ stops' = stops
      /\ role = "bob" /\ up
  BY DEF BuyAddress, chains, tables, InsertAddress
<1>2. /\ pc[w] = "new" /\ pc' = [pc EXCEPT ![w] = "addressed"]
      /\ \E p \in Peer : seller' = [seller EXCEPT ![w] = p] /\ addresses' = addresses \cup {p}
  BY DEF BuyAddress, Goto, InsertAddress
<1>3. /\ Stored' = Stored
      /\ \A v \in Swap : GetState(v)' = GetState(v)
      /\ ListedIsResumable' /\ RowsInv' /\ MovedIsStored' /\ ChainsInv'
  BY <1>1, <1>2, TablesGrow DEF DbTypeOK, chains
<1>4. DbTypeOK'
  BY <1>1, <1>2 DEF DbTypeOK
<1>5. TablesInv'
  BY <1>1, <1>2 DEF TablesInv, DbTypeOK
<1>6. MemoryInv'
  BY <1>1, <1>2, <1>3 DEF MemoryInv, DbTypeOK, Fits, Keyless
<1>7. RunsFromRecord'
  BY <1>1, <1>2, <1>3 DEF RunsFromRecord, DbTypeOK, Stored
<1> QED BY <1>3, <1>4, <1>5, <1>6, <1>7

\* buy_beldex stores the receive address.
LEMMA BuyReceiveKeeps ==
    ASSUME DbInv, NEW w \in Swap, BuyReceive(w)
    PROVE  DbInv'
<1> USE DEF DbInv
<1>1. /\ role' = role /\ peers' = peers /\ addresses' = addresses /\ rows' = rows /\ up' = up
      /\ mem' = mem /\ seller' = seller /\ holder' = holder /\ txLock' = txLock /\ height' = height
      /\ bdxAt' = bdxAt /\ stops' = stops
  BY DEF BuyReceive, chains, tables, InsertBeldexAddress
<1>2. /\ pc[w] = "addressed" /\ pc' = [pc EXCEPT ![w] = "received"]
      /\ receive' = receive \cup {w}
  BY DEF BuyReceive, Goto, InsertBeldexAddress
<1>3. /\ Stored' = Stored
      /\ \A v \in Swap : GetState(v)' = GetState(v)
      /\ ListedIsResumable' /\ RowsInv' /\ MovedIsStored' /\ ChainsInv'
  BY <1>1, <1>2, TablesGrow DEF DbTypeOK, chains
<1>4. DbTypeOK'
  BY <1>1, <1>2 DEF DbTypeOK
<1>5. TablesInv'
  BY <1>1, <1>2 DEF TablesInv, DbTypeOK
<1>6. MemoryInv'
  BY <1>1, <1>2, <1>3 DEF MemoryInv, DbTypeOK, Fits, Keyless
<1>7. RunsFromRecord'
  BY <1>1, <1>2, <1>3 DEF RunsFromRecord, DbTypeOK, Stored
<1> QED BY <1>3, <1>4, <1>5, <1>6, <1>7

\* cancel_and_refund starts from the recorded state.
LEMMA CancelAndRefundKeeps ==
    ASSUME DbInv, NEW w \in Swap, CancelAndRefund(w)
    PROVE  DbInv'
<1> USE DEF DbInv
<1>1. /\ role' = role /\ peers' = peers /\ addresses' = addresses /\ receive' = receive /\ rows' = rows
      /\ up' = up /\ mem' = mem /\ seller' = seller /\ txLock' = txLock /\ height' = height
      /\ bdxAt' = bdxAt /\ stops' = stops
      /\ role = "bob" /\ up /\ w \in Stored
  BY DEF CancelAndRefund, chains, tables
<1>2. /\ pc[w] = "off" /\ pc' = [pc EXCEPT ![w] = "cancel"]
      /\ holder' = w
  BY DEF CancelAndRefund, Goto
<1>3. /\ Stored' = Stored
      /\ \A v \in Swap : GetState(v)' = GetState(v)
      /\ ListedIsResumable' /\ RowsInv' /\ MovedIsStored' /\ ChainsInv'
  BY <1>1, <1>2, TablesGrow DEF DbTypeOK, chains
<1>4. DbTypeOK'
  BY <1>1, <1>2 DEF DbTypeOK
<1>5. TablesInv'
  BY <1>1, <1>2 DEF TablesInv, DbTypeOK
<1>6. MemoryInv'
  BY <1>1, <1>2, <1>3 DEF MemoryInv, DbTypeOK, Fits, Keyless
<1>7. RunsFromRecord'
  BY <1>1, <1>2, <1>3 DEF RunsFromRecord, DbTypeOK, Stored
<1> QED BY <1>3, <1>4, <1>5, <1>6, <1>7

\* resume_swap loads the peer, the addresses and the recorded state.
LEMMA ResumeSwapKeeps ==
    ASSUME DbInv, NEW w \in Swap, ResumeSwap(w)
    PROVE  DbInv'
<1> USE DEF DbInv
<1>1. /\ role' = role /\ peers' = peers /\ addresses' = addresses /\ receive' = receive /\ rows' = rows
      /\ up' = up /\ seller' = seller /\ txLock' = txLock /\ height' = height /\ bdxAt' = bdxAt
      /\ stops' = stops
      /\ role = "bob" /\ up /\ w \in Stored
  BY DEF ResumeSwap, chains, tables
<1>2. /\ pc[w] = "off" /\ pc' = [pc EXCEPT ![w] = "run"]
      /\ holder' = w /\ mem' = [mem EXCEPT ![w] = GetState(w)]
  BY DEF ResumeSwap, Goto
<1>a. Fits(w, GetState(w)) /\ peers[w] # None /\ w \in receive /\ peers[w] \in addresses
  BY <1>1 DEF RowsInv, ListedIsResumable, GetPeerIdOk, GetBeldexAddressOk, GetAddresses
<1>3. /\ Stored' = Stored
      /\ \A v \in Swap : GetState(v)' = GetState(v)
      /\ ListedIsResumable' /\ RowsInv' /\ MovedIsStored' /\ ChainsInv'
  BY <1>1, <1>2, TablesGrow DEF DbTypeOK, chains
<1>4. DbTypeOK'
  BY <1>1, <1>2, <1>a DEF DbTypeOK, Fits
<1>5. TablesInv'
  BY <1>1, <1>2, <1>a DEF TablesInv, DbTypeOK
<1>6. MemoryInv'
  BY <1>1, <1>2, <1>3, <1>a DEF MemoryInv, DbTypeOK, Fits, Keyless
<1>7. RunsFromRecord'
  BY <1>1, <1>2, <1>3 DEF RunsFromRecord, DbTypeOK, Stored
<1> QED BY <1>3, <1>4, <1>5, <1>6, <1>7

\* buy_beldex stores the peer and runs the swap, which has no row yet.
LEMMA BuyPeerKeeps ==
    ASSUME DbInv, NEW w \in Swap, BuyPeer(w)
    PROVE  DbInv'
<1> USE DEF DbInv
<1>1. /\ role' = role /\ addresses' = addresses /\ receive' = receive /\ rows' = rows /\ up' = up
      /\ seller' = seller /\ holder' = holder /\ txLock' = txLock /\ height' = height /\ bdxAt' = bdxAt
      /\ stops' = stops
  BY DEF BuyPeer, chains, tables, InsertPeerId
<1>2. /\ pc[w] = "quote" /\ pc' = [pc EXCEPT ![w] = "run"]
      /\ peers[w] = None /\ peers' = [peers EXCEPT ![w] = seller[w]]
      /\ mem' = [mem EXCEPT ![w] = Enter(w, "Started", NoHeight)]
  BY DEF BuyPeer, Goto, InsertPeerId
<1>a. role = "bob" /\ seller[w] \in addresses /\ w \in receive /\ up /\ w \notin Stored
  BY <1>2 DEF TablesInv, MemoryInv, DbTypeOK
<1>b. Fits(w, Enter(w, "Started", NoHeight)) /\ Enter(w, "Started", NoHeight).kind = "Started"
  <2>1. "Started" \in RoleKind
    BY <1>a DEF RoleKind, BobKind
  <2>2. NoHeight \in Height \cup {NoHeight} /\ NoHeight <= height
        /\ (bdxAt[w] # NoHeight => NoHeight <= bdxAt[w])
    BY DatabaseAssumption DEF DbTypeOK, Height, NoHeight
  <2> QED BY <2>1, <2>2, EnterFits DEF Enter
<1>c. seller[w] \in Peer /\ seller[w] # None
  BY <1>a, DatabaseAssumption DEF DbTypeOK
<1>3. /\ Stored' = Stored
      /\ \A v \in Swap : GetState(v)' = GetState(v)
      /\ ListedIsResumable' /\ RowsInv' /\ MovedIsStored' /\ ChainsInv'
  BY <1>1, <1>2, TablesGrow DEF DbTypeOK, chains
<1>4. DbTypeOK'
  BY <1>1, <1>2, <1>b, <1>c DEF DbTypeOK, Fits
<1>5. TablesInv'
  BY <1>1, <1>2, <1>a, <1>c DEF TablesInv, DbTypeOK
<1>6. MemoryInv'
  BY <1>1, <1>2, <1>3, <1>a, <1>b DEF MemoryInv, DbTypeOK, Fits, Keyless
<1>7. RunsFromRecord'
  BY <1>1, <1>2, <1>3, <1>a DEF RunsFromRecord, DbTypeOK, Stored
<1> QED BY <1>3, <1>4, <1>5, <1>6, <1>7

\* buy_beldex takes the lock, or is refused and ends.
LEMMA BuyLockKeeps ==
    ASSUME DbInv, NEW w \in Swap, BuyLock(w)
    PROVE  DbInv'
<1>1. CASE holder = None /\ holder' = w /\ Goto(w, "received", "quote")
  <2> USE DEF DbInv
  <2>1. /\ role' = role /\ peers' = peers /\ addresses' = addresses /\ receive' = receive /\ rows' = rows
        /\ up' = up /\ mem' = mem /\ seller' = seller /\ txLock' = txLock /\ height' = height
        /\ bdxAt' = bdxAt /\ stops' = stops
    BY DEF BuyLock, tables, chains
  <2>2. pc[w] = "received" /\ pc' = [pc EXCEPT ![w] = "quote"] /\ holder' = w
    BY <1>1 DEF Goto
  <2>3. /\ Stored' = Stored
        /\ \A v \in Swap : GetState(v)' = GetState(v)
        /\ ListedIsResumable' /\ RowsInv' /\ MovedIsStored' /\ ChainsInv'
    BY <2>1, TablesGrow DEF chains
  <2>4. DbTypeOK' /\ TablesInv'
    BY <2>1, <2>2 DEF DbTypeOK, TablesInv
  <2>5. MemoryInv'
    BY <2>1, <2>2, <2>3 DEF MemoryInv, DbTypeOK, Fits, Keyless
  <2>6. RunsFromRecord'
    BY <2>1, <2>2, <2>3 DEF RunsFromRecord, DbTypeOK, Stored
  <2> QED BY <2>3, <2>4, <2>5, <2>6
<1>2. CASE holder # None /\ UNCHANGED holder /\ Goto(w, "received", "off")
  <2>1. UNCHANGED <<role, tables, up, mem, seller, chains, stops>> /\ stops' \in 0 .. MaxStops
    BY DEF BuyLock, DbInv, DbTypeOK
  <2> QED BY <1>2, <2>1, TaskOverKeeps
<1> QED BY <1>1, <1>2 DEF BuyLock

\* The ASB starts a swap whose peer it could store, or does not.
LEMMA SetupDoneKeeps ==
    ASSUME DbInv, NEW w \in Swap, SetupDone(w)
    PROVE  DbInv'
<1> USE DEF DbInv
<1>1. /\ role = "alice" /\ up /\ pc[w] = "new"
      /\ \A v \in Swap : peers[v] # None => peers'[v] = peers[v]
      /\ role' = role /\ addresses' = addresses /\ receive' = receive /\ rows' = rows /\ up' = up
      /\ seller' = seller /\ holder' = holder /\ txLock' = txLock /\ height' = height /\ bdxAt' = bdxAt
      /\ stops' = stops
  BY DEF SetupDone, Goto, InsertPeerId, tables, chains, DbTypeOK
<1>2. /\ Stored' = Stored
      /\ \A v \in Swap : GetState(v)' = GetState(v)
      /\ ListedIsResumable' /\ RowsInv' /\ MovedIsStored' /\ ChainsInv'
  BY <1>1, TablesGrow DEF chains
<1>3. CASE Goto(w, "new", "off") /\ UNCHANGED <<peers, mem>>
  <2>1. pc' = [pc EXCEPT ![w] = "off"] /\ peers' = peers /\ mem' = mem
    BY <1>3 DEF Goto
  <2>2. DbTypeOK' /\ TablesInv'
    BY <1>1, <2>1 DEF DbTypeOK, TablesInv
  <2>3. MemoryInv'
    BY <1>1, <1>2, <2>1 DEF MemoryInv, DbTypeOK, Fits, Keyless
  <2>4. RunsFromRecord'
    BY <1>1, <1>2, <2>1 DEF RunsFromRecord, DbTypeOK, Stored
  <2> QED BY <1>2, <2>2, <2>3, <2>4
<1>4. CASE /\ \E p \in Peer : InsertPeerId(w, p)
           /\ mem' = [mem EXCEPT ![w] = Enter(w, "Started", NoHeight)]
           /\ Goto(w, "new", "run")
  <2>1. PICK p \in Peer : peers' = [peers EXCEPT ![w] = p]
    BY <1>4 DEF InsertPeerId
  <2>2. /\ pc' = [pc EXCEPT ![w] = "run"]
        /\ mem' = [mem EXCEPT ![w] = Enter(w, "Started", NoHeight)]
    BY <1>4 DEF Goto
  <2>3. Fits(w, Enter(w, "Started", NoHeight)) /\ Enter(w, "Started", NoHeight).kind = "Started"
    <3>1. "Started" \in RoleKind
      BY <1>1 DEF RoleKind, AliceKind
    <3>2. /\ NoHeight \in Height \cup {NoHeight} /\ NoHeight <= height
          /\ bdxAt[w] # NoHeight => NoHeight <= bdxAt[w]
      BY DatabaseAssumption DEF DbTypeOK, Height, NoHeight
    <3> QED BY <3>1, <3>2, EnterFits DEF Enter
  <2>4. p # None /\ w \notin Stored
    BY <1>1, DatabaseAssumption DEF MemoryInv
  <2>5. DbTypeOK'
    BY <1>1, <2>1, <2>2, <2>3 DEF DbTypeOK, Fits
  <2>6. TablesInv'
    BY <1>1, <2>1, <2>2, <2>4 DEF DbTypeOK, TablesInv
  <2>7. MemoryInv'
    BY <1>1, <1>2, <2>2, <2>3, <2>4 DEF MemoryInv, DbTypeOK, Fits, Keyless
  <2>8. RunsFromRecord'
    BY <1>1, <1>2, <2>2, <2>4 DEF RunsFromRecord, DbTypeOK, Stored
  <2> QED BY <1>2, <2>5, <2>6, <2>7, <2>8
<1> QED BY <1>3, <1>4 DEF SetupDone

\* A stop leaves the tables and forgets the tasks.
LEMMA CrashKeeps ==
    ASSUME DbInv, Crash
    PROVE  DbInv'
<1> USE DEF DbInv
<1>1. /\ role' = role /\ peers' = peers /\ addresses' = addresses /\ receive' = receive /\ rows' = rows
      /\ seller' = seller /\ txLock' = txLock /\ height' = height /\ bdxAt' = bdxAt
  BY DEF Crash, tables, chains
<1>2. /\ up' = FALSE /\ holder' = None /\ stops' \in 0 .. MaxStops
      /\ pc' = [w \in Swap |-> IF pc[w] = "new" THEN "new" ELSE "off"]
      /\ mem' = [w \in Swap |-> Blank]
  BY DatabaseAssumption DEF Crash, DbTypeOK
<1>3. /\ Stored' = Stored
      /\ \A v \in Swap : GetState(v)' = GetState(v)
      /\ ListedIsResumable' /\ RowsInv' /\ MovedIsStored' /\ ChainsInv'
  BY <1>1, TablesGrow DEF chains
<1>4. DbTypeOK'
  <2>1. Blank \in State
    BY DEF Blank, State, BobKind
  <2> QED BY <1>1, <1>2, <2>1 DEF DbTypeOK
<1>5. TablesInv' /\ MemoryInv'
  BY <1>1, <1>2, <1>3 DEF TablesInv, MemoryInv
<1>6. RunsFromRecord'
  BY <1>1, <1>2, <1>3 DEF RunsFromRecord, Stored
<1> QED BY <1>3, <1>4, <1>5, <1>6

\* The ASB's start: what is resumed has a peer, and runs from its record.
LEMMA StartKeeps ==
    ASSUME DbInv, Start
    PROVE  DbInv'
<1> USE DEF DbInv
<1> DEFINE resumed == {w \in Stored : role = "alice" /\ ~Done(GetState(w)) /\ GetPeerIdOk(w)}
<1>1. /\ role' = role /\ peers' = peers /\ addresses' = addresses /\ receive' = receive /\ rows' = rows
      /\ seller' = seller /\ holder' = holder /\ txLock' = txLock /\ height' = height /\ bdxAt' = bdxAt
      /\ stops' = stops
  BY DEF Start, tables, chains
<1>2. /\ ~up /\ up' = TRUE
      /\ pc' = [w \in Swap |-> IF w \in resumed THEN "run" ELSE pc[w]]
      /\ mem' = [w \in Swap |-> IF w \in resumed THEN GetState(w) ELSE mem[w]]
  BY DEF Start
<1>3. /\ Stored' = Stored
      /\ \A v \in Swap : GetState(v)' = GetState(v)
      /\ ListedIsResumable' /\ RowsInv' /\ MovedIsStored' /\ ChainsInv'
  BY <1>1, TablesGrow DEF chains
<1>4. \A w \in resumed : w \in Stored /\ Fits(w, GetState(w)) /\ peers[w] # None /\ role = "alice"
  BY DEF RowsInv, GetPeerIdOk
<1> HIDE DEF resumed
<1>5. DbTypeOK'
  BY <1>1, <1>2, <1>4 DEF DbTypeOK, Fits
<1>6. TablesInv'
  BY <1>1, <1>2, <1>4 DEF TablesInv
<1>7. MemoryInv'
  BY <1>1, <1>2, <1>3, <1>4 DEF MemoryInv, Fits, Keyless
<1>8. RunsFromRecord'
  BY <1>1, <1>2, <1>3 DEF RunsFromRecord, MemoryInv, Stored
<1> QED BY <1>3, <1>5, <1>6, <1>7, <1>8

-----------------------------------------------------------------------------
(* The chains                                                              *)

\* The height grows, and BDX are sent to Bob at the present height.
LEMMA ChainsMove ==
    ASSUME DbInv, UNCHANGED <<role, tables, up, pc, mem, seller, holder, stops>>,
           height' \in Height, height <= height',
           bdxAt' \in [Swap -> Height \cup {NoHeight}],
           \A v \in Swap : bdxAt'[v] = bdxAt[v] \/ bdxAt'[v] = height
    PROVE  /\ Stored' = Stored
           /\ TablesInv' /\ ListedIsResumable' /\ MemoryInv' /\ RowsInv' /\ RunsFromRecord'
<1> USE DEF DbInv
<1>1. /\ role' = role /\ peers' = peers /\ addresses' = addresses /\ receive' = receive
      /\ rows' = rows /\ up' = up /\ pc' = pc /\ mem' = mem /\ seller' = seller
  BY DEF tables
<1>2. Stored' = Stored /\ \A v \in Swap : GetState(v)' = GetState(v)
  BY <1>1, SameRows
<1>3. \A v \in Swap : Fits(v, mem[v]) => Fits(v, mem[v])'
  <2> SUFFICES ASSUME NEW v \in Swap, Fits(v, mem[v]) PROVE Fits(v, mem[v])'
    OBVIOUS
  <2>0. /\ mem[v].restore \in Height \cup {NoHeight} /\ mem[v].restore <= height
        /\ role = "bob" /\ bdxAt[v] # NoHeight => mem[v].restore <= bdxAt[v]
    BY DEF Fits, State
  <2>1. /\ mem[v].restore <= height'
        /\ role = "bob" /\ bdxAt'[v] # NoHeight => mem[v].restore <= bdxAt'[v]
    BY <2>0 DEF DbTypeOK, Height, NoHeight
  <2> QED BY <1>1, <2>1 DEF Fits, Keyless
<1>4. \A v \in Stored : Fits(v, GetState(v))'
  <2> SUFFICES ASSUME NEW v \in Stored PROVE Fits(v, GetState(v))'
    OBVIOUS
  <2>1. v \in Swap /\ Fits(v, GetState(v)) /\ GetState(v)' = GetState(v)
    BY <1>2 DEF RowsInv, Stored
  <2>2. /\ GetState(v).restore <= height'
        /\ role = "bob" /\ bdxAt'[v] # NoHeight => GetState(v).restore <= bdxAt'[v]
    BY <2>1 DEF Fits, State, DbTypeOK, Height, NoHeight
  <2> QED BY <1>1, <2>1, <2>2 DEF Fits, Keyless
<1>5. TablesInv' /\ ListedIsResumable'
  BY <1>1, <1>2 DEF TablesInv, ListedIsResumable, GetPeerIdOk, GetBeldexAddressOk, GetAddresses
<1>6. MemoryInv'
  BY <1>1, <1>2, <1>3 DEF MemoryInv
<1>7. RowsInv'
  BY <1>1, <1>2, <1>4 DEF RowsInv
<1>8. RunsFromRecord'
  BY <1>1, <1>2 DEF RunsFromRecord, Stored
<1> QED BY <1>2, <1>5, <1>6, <1>7, <1>8

\* TxLock is mined: only of a swap that is stored.
LEMMA TxLockMinedKeeps ==
    ASSUME DbInv, NEW w \in Swap, TxLockMined(w)
    PROVE  DbInv'
<1> USE DEF DbInv
<1>1. /\ UNCHANGED <<role, tables, up, pc, mem, seller, holder, stops>>
      /\ height' = height /\ bdxAt' = bdxAt
      /\ txLock[w] = "pool" /\ txLock' = [txLock EXCEPT ![w] = "mined"]
  BY DEF TxLockMined
<1>2. height <= height' /\ height' \in Height
  BY <1>1 DEF DbTypeOK, Height
<1>3. /\ Stored' = Stored
      /\ TablesInv' /\ ListedIsResumable' /\ MemoryInv' /\ RowsInv' /\ RunsFromRecord'
  BY <1>1, <1>2, ChainsMove DEF DbTypeOK
<1>4. DbTypeOK'
  BY <1>1 DEF DbTypeOK, tables
<1>5. MovedIsStored' /\ ChainsInv'
  BY <1>1, <1>3 DEF MovedIsStored, ChainsInv, DbTypeOK
<1> QED BY <1>3, <1>4, <1>5

\* Alice sends BDX at the present height, which no stored restore height exceeds.
LEMMA AliceSendsKeeps ==
    ASSUME DbInv, NEW w \in Swap, AliceSends(w)
    PROVE  DbInv'
<1> USE DEF DbInv
<1>1. /\ UNCHANGED <<role, tables, up, pc, mem, seller, holder, stops>>
      /\ height' = height /\ txLock' = txLock
      /\ role = "bob" /\ txLock[w] = "mined" /\ bdxAt' = [bdxAt EXCEPT ![w] = height]
  BY DEF AliceSends
<1>2. height <= height' /\ height' \in Height
  BY <1>1 DEF DbTypeOK, Height
<1>3. /\ Stored' = Stored
      /\ TablesInv' /\ ListedIsResumable' /\ MemoryInv' /\ RowsInv' /\ RunsFromRecord'
  BY <1>1, <1>2, ChainsMove DEF DbTypeOK
<1>4. DbTypeOK'
  BY <1>1 DEF DbTypeOK, tables
<1>5. MovedIsStored' /\ ChainsInv'
  BY <1>1, <1>2, <1>3 DEF MovedIsStored, ChainsInv, DbTypeOK
<1> QED BY <1>3, <1>4, <1>5

\* A Beldex block leaves the restore heights behind the height.
LEMMA BeldexBlockKeeps ==
    ASSUME DbInv, BeldexBlock
    PROVE  DbInv'
<1> USE DEF DbInv
<1>1. /\ UNCHANGED <<role, tables, up, pc, mem, seller, holder, stops>>
      /\ bdxAt' = bdxAt /\ txLock' = txLock
  BY DEF BeldexBlock
<1>2. height <= height' /\ height' \in Height
  BY DatabaseAssumption DEF BeldexBlock, DbTypeOK, Height
<1>3. /\ Stored' = Stored
      /\ TablesInv' /\ ListedIsResumable' /\ MemoryInv' /\ RowsInv' /\ RunsFromRecord'
  BY <1>1, <1>2, ChainsMove DEF DbTypeOK
<1>4. DbTypeOK'
  BY <1>1, <1>2 DEF DbTypeOK, tables
<1>5. MovedIsStored'
  BY <1>1, <1>3 DEF MovedIsStored
<1>6. ChainsInv'
  BY <1>1, <1>2 DEF ChainsInv, DbTypeOK, Height, NoHeight
<1> QED BY <1>3, <1>4, <1>5, <1>6

-----------------------------------------------------------------------------
(* The steps of the two state machines                                     *)

\* A step leaves the tables alone; the state it leads to waits to be inserted.
LEMMA AdvanceKeeps ==
    ASSUME DbInv, NEW w \in Swap, NEW k \in RoleKind, NEW r, Advance(w, k, r),
           height' = height, role = "bob" => bdxAt' = bdxAt,
           Fits(w, Enter(w, k, r)),
           role = "bob" /\ w \notin Stored => k = "SwapSetupCompleted"
    PROVE  /\ Stored' = Stored
           /\ mem' \in [Swap -> State]
           /\ TablesInv' /\ ListedIsResumable' /\ MemoryInv' /\ RowsInv' /\ RunsFromRecord'
<1> USE DEF DbInv
<1>1. /\ role' = role /\ peers' = peers /\ addresses' = addresses /\ receive' = receive
      /\ rows' = rows /\ up' = up /\ seller' = seller
  BY DEF Advance, tables
<1>2. Stored' = Stored /\ \A v \in Swap : GetState(v)' = GetState(v)
  BY <1>1, SameRows
<1>3. /\ pc[w] = "run" /\ pc' = [pc EXCEPT ![w] = "save"]
      /\ mem' = [mem EXCEPT ![w] = Enter(w, k, r)]
  BY DEF Advance, Goto
<1>4. Enter(w, k, r).kind = k
  BY DEF Enter
<1>5. mem' \in [Swap -> State]
  BY <1>3 DEF DbTypeOK, Fits
<1>6. TablesInv' /\ ListedIsResumable'
  BY <1>1, <1>2, <1>3 DEF TablesInv, ListedIsResumable, GetPeerIdOk, GetBeldexAddressOk,
     GetAddresses, DbTypeOK
<1>7. MemoryInv'
  BY <1>1, <1>2, <1>3, <1>4 DEF MemoryInv, DbTypeOK, Fits, Keyless
<1>8. RowsInv'
  <2> SUFFICES ASSUME NEW v \in Stored PROVE Fits(v, GetState(v))'
    BY <1>1, <1>2 DEF RowsInv
  <2>1. v \in Swap /\ Fits(v, GetState(v)) /\ GetState(v)' = GetState(v)
    BY <1>2 DEF RowsInv, Stored
  <2> QED BY <1>1, <2>1 DEF Fits, Keyless
<1>9. RunsFromRecord'
  BY <1>1, <1>2, <1>3 DEF RunsFromRecord, Stored, DbTypeOK
<1> QED BY <1>2, <1>5, <1>6, <1>7, <1>8, <1>9

\* A step of Bob's state machine enters a state that fits, to be inserted next.
LEMMA BobStepKeeps ==
    ASSUME DbInv, NEW w \in Swap, BobStep(w)
    PROVE  DbInv'
<1> USE DEF DbInv
<1>1. role = "bob" /\ pc[w] = "run"
  BY DEF BobStep, LockBtc, Advance, Goto
<1>2. Fits(w, mem[w]) /\ mem[w].kind \in RoleKind /\ (w \notin Stored => mem[w].kind = "Started")
  BY <1>1 DEF MemoryInv, Fits, RoleKind
<1>3. CASE LockBtc(w)
  <2>1. /\ mem[w].kind = "SwapSetupCompleted" /\ txLock[w] # "mined"
        /\ txLock' = [txLock EXCEPT ![w] = "pool"] /\ height' = height /\ bdxAt' = bdxAt
        /\ Advance(w, "BtcLocked", height)
    BY <1>3 DEF LockBtc
  <2>2. w \in Stored /\ bdxAt[w] = NoHeight
    BY <1>1, <1>2, <2>1 DEF ChainsInv
  <2>3. Fits(w, Enter(w, "BtcLocked", height)) /\ "BtcLocked" \in RoleKind
    <3>1. "BtcLocked" \in RoleKind
      BY <1>1 DEF RoleKind, BobKind
    <3>2. height \in Height \cup {NoHeight} /\ height <= height
      BY DEF DbTypeOK, Height
    <3> QED BY <2>2, <3>1, <3>2, EnterFits
  <2>4. /\ Stored' = Stored /\ mem' \in [Swap -> State]
        /\ TablesInv' /\ ListedIsResumable' /\ MemoryInv' /\ RowsInv' /\ RunsFromRecord'
    BY <2>1, <2>2, <2>3, AdvanceKeeps
  <2>5. DbTypeOK'
    BY <2>1, <2>4 DEF DbTypeOK, Advance, Goto, tables
  <2>6. MovedIsStored' /\ ChainsInv'
    BY <1>1, <2>1, <2>2, <2>4 DEF MovedIsStored, ChainsInv, DbTypeOK, Advance, tables
  <2> QED BY <2>4, <2>5, <2>6
<1>4. CASE \E k \in BobEdge(mem[w].kind) : /\ k # "BtcLocked"
                                           /\ Advance(w, k, mem[w].restore) /\ UNCHANGED chains
  <2>1. PICK k \in BobEdge(mem[w].kind) : Advance(w, k, mem[w].restore) /\ UNCHANGED chains
    BY <1>4
  <2>2. k \in RoleKind
    BY <1>1, <1>2, EdgesFit
  <2>3. w \notin Stored => k = "SwapSetupCompleted"
    BY <1>2 DEF BobEdge
  <2>4. Fits(w, Enter(w, k, mem[w].restore))
    <3>1. mem[w].restore \in Height \cup {NoHeight}
      BY <1>2 DEF Fits, State
    <3> QED BY <1>2, <2>2, <3>1, EnterFits DEF Fits
  <2>5. height' = height /\ bdxAt' = bdxAt /\ txLock' = txLock
    BY <2>1 DEF chains
  <2>6. /\ Stored' = Stored /\ mem' \in [Swap -> State]
        /\ TablesInv' /\ ListedIsResumable' /\ MemoryInv' /\ RowsInv' /\ RunsFromRecord'
    BY <2>1, <2>2, <2>3, <2>4, <2>5, AdvanceKeeps
  <2>7. DbTypeOK'
    BY <2>1, <2>5, <2>6 DEF DbTypeOK, Advance, Goto, tables
  <2>8. MovedIsStored' /\ ChainsInv'
    BY <2>1, <2>5, <2>6 DEF MovedIsStored, ChainsInv, Advance, tables
  <2> QED BY <2>6, <2>7, <2>8
<1> QED BY <1>3, <1>4 DEF BobStep

\* A step of Alice's state machine, likewise.
LEMMA AliceStepKeeps ==
    ASSUME DbInv, NEW w \in Swap, AliceStep(w)
    PROVE  DbInv'
<1> USE DEF DbInv
<1>1. PICK k \in AliceEdge(mem[w].kind) :
          IF k = "BeldexLockTransactionSent"
          THEN /\ bdxAt' = [bdxAt EXCEPT ![w] = height]
               /\ Advance(w, k, height)
               /\ UNCHANGED <<txLock, height>>
          ELSE Advance(w, k, mem[w].restore) /\ UNCHANGED chains
  BY DEF AliceStep
<1>2. role = "alice" /\ pc[w] = "run"
  BY <1>1 DEF AliceStep, Advance, Goto
<1>3. Fits(w, mem[w]) /\ mem[w].kind \in RoleKind /\ (w \notin Stored => mem[w].kind = "Started")
  BY <1>2 DEF MemoryInv, Fits, RoleKind
<1>4. k \in RoleKind
  BY <1>2, <1>3, EdgesFit
<1>5. CASE k = "BeldexLockTransactionSent"
  <2>1. /\ bdxAt' = [bdxAt EXCEPT ![w] = height] /\ Advance(w, k, height)
        /\ txLock' = txLock /\ height' = height
    BY <1>1, <1>5
  <2>2. w \in Stored
    BY <1>3, <1>5 DEF AliceEdge
  <2>3. Fits(w, Enter(w, k, height))
    <3>1. height \in Height \cup {NoHeight} /\ height <= height
      BY DEF DbTypeOK, Height
    <3> QED BY <1>2, <1>4, <3>1, EnterFits
  <2>4. /\ Stored' = Stored /\ mem' \in [Swap -> State]
        /\ TablesInv' /\ ListedIsResumable' /\ MemoryInv' /\ RowsInv' /\ RunsFromRecord'
    BY <1>2, <1>4, <2>1, <2>3, AdvanceKeeps
  <2>5. DbTypeOK'
    BY <2>1, <2>4 DEF DbTypeOK, Advance, Goto, tables
  <2>6. MovedIsStored' /\ ChainsInv'
    BY <1>2, <2>1, <2>2, <2>4 DEF MovedIsStored, ChainsInv, DbTypeOK, Advance, tables
  <2> QED BY <2>4, <2>5, <2>6
<1>6. CASE k # "BeldexLockTransactionSent"
  <2>1. /\ Advance(w, k, mem[w].restore)
        /\ height' = height /\ bdxAt' = bdxAt /\ txLock' = txLock
    BY <1>1, <1>6 DEF chains
  <2>2. Fits(w, Enter(w, k, mem[w].restore))
    <3>1. mem[w].restore \in Height \cup {NoHeight}
      BY <1>3 DEF Fits, State
    <3> QED BY <1>3, <1>4, <3>1, EnterFits DEF Fits
  <2>3. /\ Stored' = Stored /\ mem' \in [Swap -> State]
        /\ TablesInv' /\ ListedIsResumable' /\ MemoryInv' /\ RowsInv' /\ RunsFromRecord'
    BY <1>2, <1>4, <2>1, <2>2, AdvanceKeeps
  <2>4. DbTypeOK'
    BY <2>1, <2>3 DEF DbTypeOK, Advance, Goto, tables
  <2>5. MovedIsStored' /\ ChainsInv'
    BY <2>1, <2>3 DEF MovedIsStored, ChainsInv, Advance, tables
  <2> QED BY <2>3, <2>4, <2>5
<1> QED BY <1>5, <1>6

-----------------------------------------------------------------------------
(* The steps that write a state                                            *)

\* A state that fits is inserted for a swap that the other tables know.
LEMMA InsertKeeps ==
    ASSUME DbInv, NEW w \in Swap, NEW s, Fits(w, s), InsertLatestState(w, s),
           UNCHANGED <<role, peers, addresses, receive, chains>>,
           peers[w] # None,
           role = "bob" => w \in receive /\ peers[w] \in addresses,
           role = "bob" /\ w \notin Stored => s.kind = "SwapSetupCompleted"
    PROVE  /\ rows' \in [Swap -> Seq(Row)]
           /\ Stored' = Stored \cup {w}
           /\ GetState(w)' = s
           /\ \A v \in Swap \ {w} : GetState(v)' = GetState(v)
           /\ ListedIsResumable' /\ RowsInv' /\ MovedIsStored' /\ ChainsInv'
<1> USE DEF DbInv
<1>1. /\ role' = role /\ peers' = peers /\ addresses' = addresses /\ receive' = receive
      /\ txLock' = txLock /\ height' = height /\ bdxAt' = bdxAt
  BY DEF chains
<1>2. s \in State /\ s.kind \in RoleKind
  BY DEF Fits, RoleKind
<1>3. /\ rows' \in [Swap -> Seq(Row)]
      /\ Stored' = Stored \cup {w}
      /\ GetState(w)' = s
      /\ \A v \in Swap \ {w} : rows'[v] = rows[v] /\ GetState(v)' = GetState(v)
      /\ rows'[w][1] = IF w \in Stored THEN rows[w][1] ELSE RowOf(s)
  BY <1>1, <1>2, Inserted
<1>4. ListedIsResumable'
  BY <1>1, <1>3 DEF ListedIsResumable, GetPeerIdOk, GetBeldexAddressOk, GetAddresses
<1>5. RowsInv'
  <2> SUFFICES ASSUME NEW v \in Stored \cup {w}
               PROVE  /\ Fits(v, GetState(v))'
                      /\ role = "bob" => /\ rows'[v][1].tag = "ExecutionSetupDone"
                                         /\ rows'[v][1].keys = v
    BY <1>1, <1>3 DEF RowsInv
  <2>1. CASE v = w
    <3>1. Fits(v, GetState(v))'
      BY <1>1, <1>3, <2>1 DEF Fits, Keyless
    <3>2. CASE w \in Stored
      BY <1>3, <2>1, <3>1, <3>2 DEF RowsInv
    <3>3. CASE w \notin Stored
      <4>1. role = "bob" => RowOf(s).tag = "ExecutionSetupDone" /\ RowOf(s).keys = w
        BY <3>3 DEF RowOf, BobRow, ToRow, BobEnd, Fits, Keyless
      <4> QED BY <1>3, <2>1, <3>1, <3>3, <4>1
    <3> QED BY <3>2, <3>3
  <2>2. CASE v # w
    <3>1. v \in Swap \ {w} /\ v \in Stored /\ Fits(v, GetState(v))
      BY <2>2 DEF RowsInv, Stored
    <3>2. GetState(v)' = GetState(v) /\ rows'[v] = rows[v]
      BY <1>3, <3>1
    <3>3. Fits(v, GetState(v))'
      BY <1>1, <3>1, <3>2 DEF Fits, Keyless
    <3> QED BY <3>1, <3>2, <3>3 DEF RowsInv
  <2> QED BY <2>1, <2>2
<1>6. MovedIsStored' /\ ChainsInv'
  BY <1>1, <1>3 DEF MovedIsStored, ChainsInv
<1> QED BY <1>3, <1>4, <1>5, <1>6

\* The loop inserts the state that its step led to.
LEMMA SaveKeeps ==
    ASSUME DbInv, NEW w \in Swap, Save(w)
    PROVE  DbInv'
<1> USE DEF DbInv
<1>1. /\ InsertLatestState(w, mem[w]) /\ pc[w] = "save"
      /\ UNCHANGED <<role, peers, addresses, receive, up, seller, chains, stops>>
      /\ \/ pc' = [pc EXCEPT ![w] = "off"] /\ mem' = [mem EXCEPT ![w] = Blank]
         \/ pc' = [pc EXCEPT ![w] = "run"] /\ mem' = mem
      /\ holder' \in {holder, None}
  BY DEF Save, TaskOver, Goto
<1>2. /\ Fits(w, mem[w]) /\ peers[w] # None /\ up
      /\ role = "bob" => w \in receive /\ peers[w] \in addresses
      /\ role = "bob" /\ w \notin Stored => mem[w].kind = "SwapSetupCompleted"
  BY <1>1 DEF MemoryInv, TablesInv, DbTypeOK
<1>3. /\ rows' \in [Swap -> Seq(Row)]
      /\ Stored' = Stored \cup {w}
      /\ GetState(w)' = mem[w]
      /\ \A v \in Swap \ {w} : GetState(v)' = GetState(v)
      /\ ListedIsResumable' /\ RowsInv' /\ MovedIsStored' /\ ChainsInv'
  BY <1>1, <1>2, InsertKeeps
<1>4. DbTypeOK'
  <2>1. Blank \in State
    BY DEF Blank, State, BobKind
  <2>2. DbTypeOK
    OBVIOUS
  <2> HIDE DEF DbInv
  <2>3. mem' \in [Swap -> State]
    BY <1>1, <2>1, <2>2 DEF DbTypeOK
  <2>4. pc' \in [Swap -> {"new", "addressed", "received", "quote", "run", "save",
                          "cancel", "refund", "off"}]
    BY <1>1, <2>2 DEF DbTypeOK
  <2>5. holder' \in Swap \cup {None}
    BY <1>1, <2>2 DEF DbTypeOK
  <2> QED BY <1>1, <1>3, <2>2, <2>3, <2>4, <2>5 DEF DbTypeOK, chains
<1>5. TablesInv'
  BY <1>1, <1>2 DEF TablesInv, DbTypeOK
<1>6. MemoryInv'
  BY <1>1, <1>2, <1>3 DEF MemoryInv, DbTypeOK, Fits, Keyless, chains
<1>7. RunsFromRecord'
  <2>1. pc'[w] = "run" => mem'[w] = mem[w]
    BY <1>1 DEF DbTypeOK
  <2>2. \A v \in Swap \ {w} : pc'[v] = pc[v] /\ mem'[v] = mem[v]
    BY <1>1 DEF DbTypeOK
  <2>3. \A v \in Stored : v \in Swap /\ (pc[v] = "run" => mem[v] = GetState(v))
    BY DEF RunsFromRecord, Stored
  <2> HIDE DEF DbInv
  <2> QED BY <1>3, <2>1, <2>2, <2>3 DEF RunsFromRecord
<1> QED BY <1>3, <1>4, <1>5, <1>6, <1>7

\* A command inserts a state of one of the kinds it may insert, or none.
LEMMA CommandKeeps ==
    ASSUME DbInv, NEW w \in Stored, NEW kinds \in SUBSET RoleKind, InsertOr(w, kinds),
           UNCHANGED <<role, peers, addresses, receive, up, seller, chains, stops>>,
           pc[w] \in {"cancel", "refund", "off"},
           \/ pc' = pc
           \/ pc' = [pc EXCEPT ![w] = "off"]
           \/ role = "bob" /\ up /\ pc' = [pc EXCEPT ![w] = "refund"],
           mem' \in {mem, [mem EXCEPT ![w] = Blank]},
           holder' \in {holder, None}
    PROVE  DbInv'
<1> USE DEF DbInv
<1>1. /\ w \in Swap /\ Fits(w, GetState(w)) /\ peers[w] # None
      /\ role = "bob" => w \in receive /\ peers[w] \in addresses
  BY DEF RowsInv, ListedIsResumable, GetPeerIdOk, GetBeldexAddressOk, GetAddresses, Stored
<1>2. /\ rows' \in [Swap -> Seq(Row)]
      /\ Stored' = Stored
      /\ \A v \in Swap \ {w} : GetState(v)' = GetState(v)
      /\ ListedIsResumable' /\ RowsInv' /\ MovedIsStored' /\ ChainsInv'
  <2>1. CASE rows' = rows
    BY <2>1, TablesGrow DEF chains, DbTypeOK
  <2>2. CASE \E k \in kinds : InsertLatestState(w, Enter(w, k, GetState(w).restore))
    <3>1. PICK k \in kinds : InsertLatestState(w, Enter(w, k, GetState(w).restore))
      BY <2>2
    <3>2. Fits(w, Enter(w, k, GetState(w).restore))
      <4>1. GetState(w).restore \in Height \cup {NoHeight}
        BY <1>1 DEF Fits, State
      <4> QED BY <1>1, <4>1, EnterFits DEF Fits
    <3> DEFINE s == Enter(w, k, GetState(w).restore)
    <3>3. UNCHANGED <<role, peers, addresses, receive, chains>>
      OBVIOUS
    <3> HIDE DEF DbInv, s
    <3>4. Fits(w, s) /\ InsertLatestState(w, s)
      BY <3>1, <3>2 DEF s
    <3>5. /\ rows' \in [Swap -> Seq(Row)]
          /\ Stored' = Stored \cup {w}
          /\ \A v \in Swap \ {w} : GetState(v)' = GetState(v)
          /\ ListedIsResumable' /\ RowsInv' /\ MovedIsStored' /\ ChainsInv'
      BY <1>1, <3>3, <3>4, InsertKeeps
    <3> QED BY <3>5
  <2> QED BY <2>1, <2>2 DEF InsertOr
<1>3. DbTypeOK'
  <2>1. Blank \in State
    BY DEF Blank, State, BobKind
  <2> QED BY <1>1, <1>2, <2>1 DEF DbTypeOK, chains
<1>4. TablesInv'
  BY <1>1 DEF TablesInv, DbTypeOK
<1>5. MemoryInv'
  <2>1. /\ role' = role /\ up' = up /\ height' = height /\ bdxAt' = bdxAt
        /\ pc'[w] \in {"cancel", "refund", "off"} /\ (~up => pc'[w] = "off")
        /\ pc'[w] \in {"cancel", "refund"} => role = "bob"
    BY <1>1 DEF MemoryInv, DbTypeOK, chains
  <2>2. \A v \in Swap \ {w} : pc'[v] = pc[v] /\ mem'[v] = mem[v]
    BY <1>1 DEF DbTypeOK
  <2> SUFFICES ASSUME NEW v \in Swap
               PROVE  /\ pc'[v] \in {"new", "addressed", "received", "quote"} => v \notin Stored
                      /\ pc'[v] \in {"cancel", "refund"} => role = "bob" /\ v \in Stored
                      /\ pc'[v] \in {"run", "save"} => Fits(v, mem[v])'
                      /\ pc'[v] = "run" /\ v \notin Stored => mem'[v].kind = "Started"
                      /\ pc'[v] = "save" /\ v \notin Stored /\ role = "bob" =>
                             mem'[v].kind = "SwapSetupCompleted"
                      /\ ~up => pc'[v] \in {"new", "off"}
    BY <1>2, <2>1 DEF MemoryInv
  <2>3. CASE v = w
    BY <2>1, <2>3
  <2>4. CASE v # w
    BY <2>1, <2>2, <2>4 DEF MemoryInv, Fits, Keyless
  <2> QED BY <2>3, <2>4
<1>6. RunsFromRecord'
  BY <1>1, <1>2 DEF RunsFromRecord, DbTypeOK, Stored
<1> QED BY <1>2, <1>3, <1>4, <1>5, <1>6

\* cancel_and_refund inserts a state made of the recorded one.
LEMMA CancelKeeps ==
    ASSUME DbInv, NEW w \in Swap, Cancel(w) \/ Refund(w)
    PROVE  DbInv'
<1>1. pc[w] \in {"cancel", "refund"}
  BY DEF Cancel, Refund, TaskOver, Goto
<1>2. role = "bob" /\ up /\ w \in Stored
  BY <1>1 DEF DbInv, DbTypeOK, MemoryInv
<1>3. {"BtcCancelled", "BtcPunished", "BtcRefunded"} \subseteq RoleKind /\ {} \subseteq RoleKind
  BY <1>2 DEF RoleKind, BobKind, BobEnd
<1>4. CASE Cancel(w)
  <2> DEFINE kinds == IF GetState(w).kind \in BobCancellable THEN {"BtcCancelled", "BtcPunished"} ELSE {}
  <2>1. kinds \in SUBSET RoleKind /\ InsertOr(w, kinds)
    BY <1>3, <1>4 DEF Cancel
  <2>2. /\ UNCHANGED <<role, peers, addresses, receive, up, seller, chains, stops>>
        /\ pc' = [pc EXCEPT ![w] = "refund"] /\ mem' = mem /\ holder' = holder
    BY <1>4 DEF Cancel, Goto
  <2> HIDE DEF kinds
  <2> QED BY <1>1, <1>2, <2>1, <2>2, CommandKeeps
<1>5. CASE Refund(w)
  <2> DEFINE kinds == IF GetState(w).kind \in BobCancellable \ {"BtcRefunded"}
                      THEN {"BtcRefunded", "BtcPunished"} ELSE {}
  <2>1. kinds \in SUBSET RoleKind /\ InsertOr(w, kinds)
    BY <1>3, <1>5 DEF Refund
  <2>2. /\ UNCHANGED <<role, peers, addresses, receive, up, seller, chains, stops>>
        /\ pc' = [pc EXCEPT ![w] = "off"] /\ mem' = [mem EXCEPT ![w] = Blank]
        /\ holder' \in {holder, None}
    BY <1>5 DEF Refund, TaskOver, Goto
  <2> HIDE DEF kinds
  <2> QED BY <1>1, <1>2, <2>1, <2>2, CommandKeeps
<1> QED BY <1>4, <1>5

\* A manual command of the ASB, likewise.
LEMMA RecoverKeeps ==
    ASSUME DbInv, NEW w \in Swap, Recover(w)
    PROVE  DbInv'
<1>1. /\ role = "alice" /\ ~up /\ w \in Stored
      /\ InsertOr(w, AliceManual(GetState(w).kind))
      /\ UNCHANGED <<role, peers, addresses, receive, up, seller, chains, stops>>
      /\ pc' = pc /\ mem' = mem /\ holder' = holder
  BY DEF Recover, InsertOr
<1>2. pc[w] \in {"cancel", "refund", "off"}
  BY <1>1 DEF DbInv, MemoryInv
<1>3. AliceManual(GetState(w).kind) \in SUBSET RoleKind
  <2>1. GetState(w).kind \in RoleKind
    BY <1>1 DEF DbInv, RowsInv, Fits, RoleKind
  <2> QED BY <1>1, <2>1, EdgesFit
<1> QED BY <1>1, <1>2, <1>3, CommandKeeps

-----------------------------------------------------------------------------
(* The invariant and what follows from it                                  *)

\* Every step keeps the tables, the tasks' memory and the chains consistent.
LEMMA InvNext == DbInv /\ [DbNext]_dbVars => DbInv'
<1> SUFFICES ASSUME DbInv, [DbNext]_dbVars PROVE DbInv'
  OBVIOUS
<1>1. CASE UNCHANGED dbVars
  <2>1. /\ role' = role /\ peers' = peers /\ addresses' = addresses /\ receive' = receive
        /\ rows' = rows /\ up' = up /\ pc' = pc /\ mem' = mem /\ seller' = seller
        /\ holder' = holder /\ chains' = chains /\ stops' = stops
    BY <1>1 DEF dbVars, tables
  <2>2. /\ Stored' = Stored
        /\ \A v \in Swap : GetState(v)' = GetState(v)
        /\ ListedIsResumable' /\ RowsInv' /\ MovedIsStored' /\ ChainsInv'
    BY <2>1, TablesGrow
  <2>3. DbTypeOK' /\ TablesInv' /\ MemoryInv'
    BY <2>1, <2>2 DEF DbInv, DbTypeOK, TablesInv, MemoryInv, Fits, Keyless, chains
  <2>4. RunsFromRecord'
    BY <2>1, <2>2 DEF DbInv, RunsFromRecord, Stored
  <2> QED BY <2>2, <2>3, <2>4 DEF DbInv
<1>2. ASSUME NEW w \in Swap, SwapStep(w)
      PROVE  DbInv'
  <2>1. CASE BobStep(w)
    BY <2>1, BobStepKeeps
  <2>2. CASE AliceStep(w)
    BY <2>2, AliceStepKeeps
  <2>3. CASE Save(w)
    BY <2>3, SaveKeeps
  <2>4. CASE Complete(w)
    BY <2>4, TaskOverKeeps DEF Complete, TaskOver, DbInv, DbTypeOK
  <2>5. CASE Fail(w)
    <3>1. stops' \in 0 .. MaxStops
      BY <2>5, DatabaseAssumption DEF Fail, DbInv, DbTypeOK
    <3> QED BY <2>5, <3>1, TaskOverKeeps DEF Fail, TaskOver
  <2>6. CASE BuyFails(w)
    BY <2>6, TaskOverKeeps DEF BuyFails, TaskOver, DbInv, DbTypeOK
  <2>7. CASE BuyAddress(w) \/ BuyReceive(w) \/ BuyLock(w) \/ BuyPeer(w)
    BY <2>7, BuyAddressKeeps, BuyReceiveKeeps, BuyLockKeeps, BuyPeerKeeps
  <2>8. CASE ResumeSwap(w) \/ CancelAndRefund(w)
    BY <2>8, ResumeSwapKeeps, CancelAndRefundKeeps
  <2>9. CASE Cancel(w) \/ Refund(w)
    BY <2>9, CancelKeeps
  <2>10. CASE SetupDone(w) \/ Recover(w)
    BY <2>10, SetupDoneKeeps, RecoverKeeps
  <2>11. CASE TxLockMined(w) \/ AliceSends(w)
    BY <2>11, TxLockMinedKeeps, AliceSendsKeeps
  <2> QED BY <1>2, <2>1, <2>2, <2>3, <2>4, <2>5, <2>6, <2>7, <2>8, <2>9, <2>10, <2>11 DEF SwapStep
<1>3. CASE Crash \/ Start \/ BeldexBlock
  BY <1>3, CrashKeeps, StartKeeps, BeldexBlockKeeps
<1> QED BY <1>1, <1>2, <1>3 DEF DbNext

\* The tables, the memory of the swaps and the chains always fit together: DbInv
\* holds in every behaviour of the ASB's and of the CLI's database.
THEOREM DbInvariance == DbSpec => []DbInv
<1> QED BY InvInit, InvNext, PTL DEF DbSpec

\* Every behaviour stays within the types: what is stored is a row of the schema,
\* what is loaded a state of the program.
THEOREM DbTypeCorrect == DbSpec => []DbTypeOK
<1>1. DbInv => DbTypeOK
  BY DEF DbInv
<1> QED BY <1>1, DbInvariance, PTL

\* Whatever stopped when, a swap that is listed can be resumed: peer, address and
\* receive address were written before its first state.
THEOREM ListedIsResumableHolds == DbSpec => []ListedIsResumable
<1>1. DbInv => ListedIsResumable
  BY DEF DbInv
<1> QED BY <1>1, DbInvariance, PTL

\* TxLock and the BDX move only in swaps that a restart finds again.
THEOREM MovedIsStoredHolds == DbSpec => []MovedIsStored
<1>1. DbInv => MovedIsStored
  BY DEF DbInv
<1> QED BY <1>1, DbInvariance, PTL

\* A swap runs from the state that the database has of it.
THEOREM RunsFromRecordHolds == DbSpec => []RunsFromRecord
<1>1. DbInv => RunsFromRecord
  BY DEF DbInv
<1> QED BY <1>1, DbInvariance, PTL

\* get_swap_infos_all shows every swap of Bob's that all lists: the first row of
\* a swap is the one of SwapSetupCompleted.
THEOREM ListedIsShownHolds == DbSpec => []ListedIsShown
<1>1. DbInv => ListedIsShown
  <2> SUFFICES ASSUME DbInv, role = "bob" PROVE GetSwapInfosAll = Stored
    BY DEF ListedIsShown
  <2> SUFFICES ASSUME NEW w \in Stored PROVE GetSwapInfoOk(w)
    BY DEF GetSwapInfosAll
  <2>1. w \in Swap /\ GetPeerIdOk(w)
    BY DEF DbInv, ListedIsResumable, Stored
  <2>2. rows[w] \in Seq(Row) /\ rows[w] # <<>>
    BY <2>1 DEF DbInv, DbTypeOK, Stored
  <2>3. 1 \in 1 .. Len(rows[w])
    BY <2>2
  <2>4. rows[w][1].tag = "ExecutionSetupDone" /\ rows[w][1].keys = w
    BY DEF DbInv, RowsInv
  <2>5. StateOf(rows[w][1]).kind = "SwapSetupCompleted" /\ StateOf(rows[w][1]).keys = w
    BY <2>4 DEF StateOf, BobStateOf, OfRow
  <2>6. StateOf(rows[w][1]) \in GetStates(w)
    BY <2>3 DEF GetStates
  <2> QED BY <2>1, <2>5, <2>6 DEF GetSwapInfoOk
<1> QED BY <1>1, DbInvariance, PTL

\* Whatever all lists can be resumed and shown, wherever a stop came between two writes.
THEOREM ListedIsUsableHolds == DbSpec => []ListedIsUsable
<1>1. ListedIsResumable /\ ListedIsShown => ListedIsUsable
  BY DEF ListedIsUsable
<1> QED BY <1>1, ListedIsResumableHolds, ListedIsShownHolds, PTL

\* The cooperative redeem and beldex_recovery hand out the secrets of the swap they
\* are asked about.
THEOREM SecretsOnRecordHolds == DbSpec => []SecretsOnRecord
<1>1. DbInv => SecretsOnRecord
  <2> SUFFICES ASSUME DbInv, NEW w \in Stored
               PROVE  IF role = "alice"
                      THEN GetState(w).kind = "BtcPunished" => CooperativeRedeem(w, peers[w]) = w
                      ELSE GetState(w).kind = "BtcRedeemed" => BeldexRecovery(w) = w
    BY DEF SecretsOnRecord
  <2>1. Fits(w, GetState(w)) /\ GetPeerIdOk(w) /\ role \in {"alice", "bob"}
    BY DEF DbInv, RowsInv, ListedIsResumable, DbTypeOK
  <2>2. CASE role = "alice"
    BY <2>1, <2>2 DEF CooperativeRedeem, Fits, Keyless, AliceEnd
  <2>3. CASE role = "bob"
    BY <2>1, <2>3 DEF BeldexRecovery, Fits, Keyless
  <2> QED BY <2>1, <2>2, <2>3
<1> QED BY <1>1, DbInvariance, PTL

\* The wallet that Bob restores sees the transfer to it.
THEOREM RestoreCoversTransferHolds == DbSpec => []RestoreCoversTransfer
<1>1. DbInv => RestoreCoversTransfer
  BY DEF DbInv, RowsInv, Fits, RestoreCoversTransfer
<1> QED BY <1>1, DbInvariance, PTL
=============================================================================
