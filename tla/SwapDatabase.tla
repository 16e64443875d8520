---------------------------- MODULE SwapDatabase ----------------------------
(***************************************************************************)
(* The tables a swap leaves in SQLite (database/sqlite.rs) and what they   *)
(* are good for after a stop: who writes which table when (buy_beldex, the *)
(* ASB's event loop, the loops of run_until, the manual commands), and who *)
(* needs which to go on (resume_swap, the ASB's start, get_swap_info, the  *)
(* cooperative redeem, beldex_recovery).                                   *)
(*                                                                         *)
(* The same code serves the ASB (role "alice") and the CLI (role "bob");   *)
(* each keeps a database of its own.  The steps of the state machines are  *)
(* reduced to the states they lead to: BobSwap and AliceSwap say when.     *)
(***************************************************************************)
EXTENDS Integers, Sequences, SequencesExt

CONSTANTS
    Swap,       \* swap ids
    Peer,       \* peer ids of the other party
    None,       \* no swap, no peer, no secrets
    MaxRows,    \* bound on the rows of swap_states
    MaxHeight,  \* bound on the Beldex height
    MaxStops    \* bound on crashes and failing steps

ASSUME DatabaseAssumption ==
    /\ None \notin Swap \cup Peer
    /\ MaxRows \in Nat /\ MaxHeight \in Nat /\ MaxStops \in Nat

VARIABLES
    role,       \* whose database it is
    peers,      \* table peers: swap_id is its primary key
    addresses,  \* table peer_addresses: the peers with an address
    receive,    \* table beldex_addresses: the swaps with a receive address
    rows,       \* table swap_states: the rows of each swap by id
    up,         \* the application runs
    pc, mem,    \* each swap's task and the state it has in memory
    seller,     \* the argument of buy_beldex
    holder,     \* the owner of the swap lock
    txLock,     \* TxLock of each swap: none, in the mempool, mined
    height,     \* of the Beldex chain
    bdxAt,      \* the height at which Alice sent the BDX, or NoHeight
    stops

tables == <<peers, addresses, receive, rows>>
chains == <<txLock, height, bdxAt>>
dbVars == <<role, tables, up, pc, mem, seller, holder, chains, stops>>

-----------------------------------------------------------------------------
(* States and their stored form                                            *)

AliceEnd == {"SafelyAborted", "BtcRedeemed", "BeldexRefunded", "BtcPunished"}
AliceKind == AliceEnd \cup
    {"Started", "BtcLockTransactionSeen", "BtcLocked", "BeldexLockTransactionSent",
     "BeldexLocked", "BeldexLockTransferProofSent", "EncSigLearned",
     "BtcRedeemTransactionPublished", "CancelTimelockExpired", "BtcCancelled",
     "BtcPunishable", "BtcRefunded"}

BobEnd == {"SafelyAborted", "BeldexRedeemed", "BtcRefunded"}
BobKind == BobEnd \cup
    {"Started", "SwapSetupCompleted", "BtcLocked", "BeldexLockProofReceived",
     "BeldexLocked", "EncSigSent", "BtcPunished", "BtcRedeemed",
     "CancelTimelockExpired", "BtcCancelled"}

NoHeight == -1
Height == 0 .. MaxHeight

\* keys: the swap whose secrets the state holds, if it holds any;
\* restore: the height from which the swap's Beldex wallet is restored.
State == [kind : AliceKind \cup BobKind, keys : Swap \cup {None}, restore : Height \cup {NoHeight}]

\* The memory of a swap that no task runs.
Blank == [kind |-> "Started", keys |-> None, restore |-> NoHeight]

\* The states without secrets: Bob's first, and ends that need none.
Keyless(k) ==
    IF role = "alice" THEN k \in AliceEnd \ {"BtcPunished"}
                      ELSE k \in {"Started", "BeldexRedeemed", "SafelyAborted"}

\* The states that do not keep the height.
Heightless(k) ==
    IF role = "alice" THEN k \in AliceEnd \cup {"BtcRedeemTransactionPublished"}
                      ELSE k \in {"BeldexRedeemed", "SafelyAborted"}

Enter(w, k, restore) ==
    [kind |-> k,
     keys |-> IF Keyless(k) THEN None ELSE w,
     restore |-> IF Heightless(k) THEN NoHeight ELSE restore]

\* swap_finished
Done(s) == s.kind \in (IF role = "alice" THEN AliceEnd ELSE BobEnd)

\* The enums Alice and Bob of the database: ends are stored under Done, Bob's
\* SwapSetupCompleted under its old name.
AliceTag == (AliceKind \ AliceEnd) \cup {"Done"}
BobTag == (BobKind \ (BobEnd \cup {"SwapSetupCompleted"})) \cup {"Done", "ExecutionSetupDone"}

Row == [tag : AliceTag \cup BobTag,
        end : AliceEnd \cup BobEnd \cup {""},
        keys : Swap \cup {None},
        restore : Height \cup {NoHeight}]

ToRow(s, tag) ==
    [tag |-> tag, end |-> IF tag = "Done" THEN s.kind ELSE "",
     keys |-> s.keys, restore |-> s.restore]

OfRow(row, kind) == [kind |-> kind, keys |-> row.keys, restore |-> row.restore]

\* Mutant: the end BtcPunished is stored without its State3.
AliceRowKeyless(s) ==
    IF s.kind \in AliceEnd THEN [ToRow(s, "Done") EXCEPT !.keys = None] ELSE ToRow(s, s.kind)

AliceRow(s) == ToRow(s, IF s.kind \in AliceEnd THEN "Done" ELSE s.kind)

AliceStateOf(row) == OfRow(row, IF row.tag = "Done" THEN row.end ELSE row.tag)

\* Mutant: an end is stored like any other state.
BobRowPlain(s) ==
    ToRow(s, IF s.kind = "SwapSetupCompleted" THEN "ExecutionSetupDone" ELSE s.kind)

BobRow(s) ==
    ToRow(s, CASE s.kind \in BobEnd -> "Done"
               [] s.kind = "SwapSetupCompleted" -> "ExecutionSetupDone"
               [] OTHER -> s.kind)

BobStateOf(row) ==
    OfRow(row, CASE row.tag = "Done" -> row.end
                 [] row.tag = "ExecutionSetupDone" -> "SwapSetupCompleted"
                 [] OTHER -> row.tag)

RowOf(s) == IF role = "alice" THEN AliceRow(s) ELSE BobRow(s)

StateOf(row) == IF role = "alice" THEN AliceStateOf(row) ELSE BobStateOf(row)

-----------------------------------------------------------------------------
(* The queries of sqlite.rs                                                *)

\* A swap id is the primary key of peers and of beldex_addresses.
InsertPeerId(w, p) == peers[w] = None /\ peers' = [peers EXCEPT ![w] = p]
GetPeerIdOk(w) == peers[w] # None

InsertBeldexAddress(w) == w \notin receive /\ receive' = receive \cup {w}
GetBeldexAddressOk(w) == w \in receive

\* get_addresses returns no address where there is none, and no error.
InsertAddress(p) == addresses' = addresses \cup {p}
GetAddresses(p) == addresses \cap {p}

InsertLatestState(w, s) == rows' = [rows EXCEPT ![w] = Append(@, RowOf(s))]

\* Mutant: the first row of a swap instead of the one with the highest id.
GetStateFirst(w) == StateOf(Head(rows[w]))

GetState(w) == StateOf(Last(rows[w]))

GetStates(w) == {StateOf(rows[w][i]) : i \in 1 .. Len(rows[w])}

\* all: the swaps with a state.
Stored == {w \in Swap : rows[w] # <<>>}

-----------------------------------------------------------------------------
(* What is asked of the tables                                             *)

\* get_swap_info takes what was agreed on from the row SwapSetupCompleted;
\* get_swap_infos_all leaves out the swaps for which it fails.
GetSwapInfoOk(w) ==
    /\ GetPeerIdOk(w)
    /\ \E s \in GetStates(w) : s.kind = "SwapSetupCompleted" /\ s.keys = w

GetSwapInfosAll == {w \in Stored : GetSwapInfoOk(w)}

\* beldex_recovery prints the secrets of a swap in BtcRedeemed.
BeldexRecovery(w) == IF GetState(w).kind = "BtcRedeemed" THEN GetState(w).keys ELSE None

\* The ASB's answer to the request of peer p: secrets, or a reason.
CooperativeRedeem(w, p) ==
    CASE ~GetPeerIdOk(w) \/ w \notin Stored -> "UnknownSwap"
      [] peers[w] # p -> "MaliciousRequest"
      [] GetState(w).kind # "BtcPunished" -> "SwapInvalidState"
      [] OTHER -> GetState(w).keys

-----------------------------------------------------------------------------

\* The bound on the table: what ends in n inserts starts only if they still fit.
RoomFor(n) == FoldFunction(LAMBDA r, sum : sum + Len(r), n, rows) <= MaxRows

Goto(w, from, to) == pc[w] = from /\ pc' = [pc EXCEPT ![w] = to]

-----------------------------------------------------------------------------
(* A run of a state machine: run_until of bob/swap.rs and alice/swap.rs    *)

\* Where a step of bob/swap.rs leads.
BobEdge(k) ==
    CASE k = "Started" -> {"SwapSetupCompleted"}
      [] k = "SwapSetupCompleted" -> {"BtcLocked"}
      [] k = "BtcLocked" -> {"BeldexLockProofReceived", "CancelTimelockExpired"}
      [] k = "BeldexLockProofReceived" -> {"BeldexLocked", "CancelTimelockExpired"}
      [] k = "BeldexLocked" -> {"EncSigSent", "BtcRedeemed", "CancelTimelockExpired"}
      [] k = "EncSigSent" -> {"BtcRedeemed", "CancelTimelockExpired"}
      [] k = "BtcRedeemed" -> {"BeldexRedeemed"}
      [] k = "CancelTimelockExpired" -> {"BtcCancelled"}
      [] k = "BtcCancelled" -> {"BtcRefunded", "BtcPunished"}
      [] k = "BtcPunished" -> {"BeldexRedeemed", "BtcPunished"}
      [] OTHER -> {}

\* Where a step of alice/swap.rs leads.
AliceEdge(k) ==
    CASE k = "Started" -> {"BtcLockTransactionSeen", "SafelyAborted"}
      [] k = "BtcLockTransactionSeen" -> {"BtcLocked", "SafelyAborted"}
      [] k = "BtcLocked" -> {"BeldexLockTransactionSent", "SafelyAborted"}
      [] k = "BeldexLockTransactionSent" -> {"BeldexLocked", "CancelTimelockExpired"}
      [] k = "BeldexLocked" -> {"BeldexLockTransferProofSent", "CancelTimelockExpired"}
      [] k = "BeldexLockTransferProofSent" -> {"EncSigLearned", "CancelTimelockExpired"}
      [] k = "EncSigLearned" -> {"BtcRedeemTransactionPublished", "CancelTimelockExpired"}
      [] k = "BtcRedeemTransactionPublished" -> {"BtcRedeemed"}
      [] k = "CancelTimelockExpired" -> {"BtcCancelled"}
      [] k = "BtcCancelled" -> {"BtcRefunded", "BtcPunishable"}
      [] k = "BtcPunishable" -> {"BtcPunished", "BtcRefunded"}
      [] k = "BtcRefunded" -> {"BeldexRefunded"}
      [] OTHER -> {}

\* A step from mem[w] to a state of kind k that leaves the chains alone.
Advance(w, k, restore) ==
    /\ mem' = [mem EXCEPT ![w] = Enter(w, k, restore)]
    /\ Goto(w, "run", "save")
    /\ UNCHANGED <<role, tables, up, seller, holder, stops>>

\* Mutant: the setup and TxLock are one step.
LockBtcAtSetup(w) ==
    /\ mem[w].kind \in {"Started", "SwapSetupCompleted"}
    /\ txLock[w] # "mined"
    /\ txLock' = [txLock EXCEPT ![w] = "pool"]
    /\ Advance(w, "BtcLocked", height)
    /\ UNCHANGED <<height, bdxAt>>

\* The height is recorded before TxLock is broadcast; the network takes TxLock
\* again, after a resume, while it is not mined.
LockBtc(w) ==
    /\ mem[w].kind = "SwapSetupCompleted"
    /\ txLock[w] # "mined"
    /\ txLock' = [txLock EXCEPT ![w] = "pool"]
    /\ Advance(w, "BtcLocked", height)
    /\ UNCHANGED <<height, bdxAt>>

\* Mutant: the height is recorded when the proof is there.
BobStepLateHeight(w) ==
    /\ role = "bob" /\ RoomFor(1)
    /\ \/ LockBtc(w)
       \/ \E k \in BobEdge(mem[w].kind) :
            /\ k # "BtcLocked"
            /\ k = "BeldexLockProofReceived" => bdxAt[w] # NoHeight
            /\ Advance(w, k, IF k = "BeldexLockProofReceived" THEN height ELSE mem[w].restore)
            /\ UNCHANGED chains

\* A transfer proof needs a transfer.
BobStep(w) ==
    /\ role = "bob" /\ RoomFor(1)
    /\ \/ LockBtc(w)
       \/ \E k \in BobEdge(mem[w].kind) :
            /\ k # "BtcLocked"
            /\ k = "BeldexLockProofReceived" => bdxAt[w] # NoHeight
            /\ Advance(w, k, mem[w].restore)
            /\ UNCHANGED chains

AliceStep(w) ==
    /\ role = "alice" /\ RoomFor(1)
    /\ \E k \in AliceEdge(mem[w].kind) :
          IF k = "BeldexLockTransactionSent"
          THEN /\ bdxAt' = [bdxAt EXCEPT ![w] = height]
               /\ Advance(w, k, height)
               /\ UNCHANGED <<txLock, height>>
          ELSE Advance(w, k, mem[w].restore) /\ UNCHANGED chains

\* is_run_at_most_once: BtcPunished led to itself.
PunishedAgain(w) ==
    role = "bob" /\ mem[w].kind = "BtcPunished" /\ rows[w] # <<>> /\ GetState(w) = mem[w]

\* The task of a swap is over, and with it its memory and the lock it holds.
TaskOver(w, from) ==
    /\ Goto(w, from, "off")
    /\ mem' = [mem EXCEPT ![w] = Blank]
    /\ holder' = IF holder = w THEN None ELSE holder

\* insert_latest_state, and the loop's break.
Save(w) ==
    /\ InsertLatestState(w, mem[w])
    /\ IF PunishedAgain(w) THEN TaskOver(w, "save")
                           ELSE Goto(w, "save", "run") /\ UNCHANGED <<mem, holder>>
    /\ UNCHANGED <<role, peers, addresses, receive, up, seller, chains, stops>>

\* The loop's condition: the state is complete.
Complete(w) ==
    /\ Done(mem[w])
    /\ TaskOver(w, "run")
    /\ UNCHANGED <<role, tables, up, seller, chains, stops>>

\* A step fails, or the swap is suspended.
Fail(w) ==
    /\ stops < MaxStops
    /\ stops' = stops + 1
    /\ \E from \in {"run", "save"} : TaskOver(w, from)
    /\ UNCHANGED <<role, tables, up, seller, chains>>

-----------------------------------------------------------------------------
(* The requests of the CLI                                                 *)

\* buy_beldex: the seller's address, then the receive address, are stored before
\* the lock is asked for,
BuyAddress(w) ==
    /\ role = "bob" /\ up
    /\ \E p \in Peer : seller' = [seller EXCEPT ![w] = p] /\ InsertAddress(p)
    /\ Goto(w, "new", "addressed")
    /\ UNCHANGED <<role, peers, receive, rows, up, mem, holder, chains, stops>>

BuyReceive(w) ==
    /\ Goto(w, "addressed", "received")
    /\ InsertBeldexAddress(w)
    /\ UNCHANGED <<role, peers, addresses, rows, up, mem, seller, holder, chains, stops>>

BuyLock(w) ==
    /\ \/ holder = None /\ holder' = w /\ Goto(w, "received", "quote")
       \/ holder # None /\ UNCHANGED holder /\ Goto(w, "received", "off")
    /\ UNCHANGED <<role, tables, up, mem, seller, chains, stops>>

\* No quote, no amount, or suspended meanwhile.
BuyFails(w) ==
    /\ TaskOver(w, "quote")
    /\ UNCHANGED <<role, tables, up, seller, chains, stops>>

\* Mutant: the peer is stored by the task that runs the swap, if it gets to it.
BuyPeerUnsaved(w) ==
    /\ Goto(w, "quote", "run")
    /\ mem' = [mem EXCEPT ![w] = Enter(w, "Started", NoHeight)]
    /\ UNCHANGED <<role, tables, up, seller, holder, chains, stops>>

\* Mutant: the state Started is stored, too.
BuyPeerStarted(w) ==
    /\ Goto(w, "quote", "run")
    /\ InsertPeerId(w, seller[w])
    /\ mem' = [mem EXCEPT ![w] = Enter(w, "Started", NoHeight)]
    /\ InsertLatestState(w, Enter(w, "Started", NoHeight))
    /\ UNCHANGED <<role, addresses, receive, up, seller, holder, chains, stops>>

\* the peer once the amount is determined, and then the swap runs.
BuyPeer(w) ==
    /\ Goto(w, "quote", "run")
    /\ InsertPeerId(w, seller[w])
    /\ mem' = [mem EXCEPT ![w] = Enter(w, "Started", NoHeight)]
    /\ UNCHANGED <<role, addresses, receive, rows, up, seller, holder, chains, stops>>

\* resume_swap takes the lock, loads the rows and runs the swap from its state.
ResumeSwap(w) ==
    /\ role = "bob" /\ up
    /\ holder = None /\ holder' = w
    /\ GetPeerIdOk(w) /\ GetBeldexAddressOk(w) /\ w \in Stored
    /\ Goto(w, "off", "run")
    /\ mem' = [mem EXCEPT ![w] = GetState(w)]
    /\ UNCHANGED <<role, tables, up, seller, chains, stops>>

BobCancellable ==
    {"BtcLocked", "BeldexLockProofReceived", "BeldexLocked", "EncSigSent",
     "CancelTimelockExpired", "BtcCancelled", "BtcRefunded"}

\* cancel_and_refund loads the state, cancels, loads it again and refunds.
CancelAndRefund(w) ==
    /\ role = "bob" /\ up
    /\ holder = None /\ holder' = w
    /\ w \in Stored /\ RoomFor(2)
    /\ Goto(w, "off", "cancel")
    /\ UNCHANGED <<role, tables, up, mem, seller, chains, stops>>

\* The command inserts a state of kind k, or fails.
InsertOr(w, kinds) ==
    \/ UNCHANGED rows
    \/ \E k \in kinds : InsertLatestState(w, Enter(w, k, GetState(w).restore))

Cancel(w) ==
    /\ Goto(w, "cancel", "refund")
    /\ InsertOr(w, IF GetState(w).kind \in BobCancellable
                   THEN {"BtcCancelled", "BtcPunished"} ELSE {})
    /\ UNCHANGED <<role, peers, addresses, receive, up, mem, seller, holder, chains, stops>>

Refund(w) ==
    /\ TaskOver(w, "refund")
    /\ InsertOr(w, IF GetState(w).kind \in BobCancellable \ {"BtcRefunded"}
                   THEN {"BtcRefunded", "BtcPunished"} ELSE {})
    /\ UNCHANGED <<role, peers, addresses, receive, up, seller, chains, stops>>

-----------------------------------------------------------------------------
(* The ASB                                                                 *)

\* handle_execution_setup_done: the swap starts if its peer can be stored.
SetupDone(w) ==
    /\ role = "alice" /\ up
    /\ \/ /\ \E p \in Peer : InsertPeerId(w, p)
          /\ mem' = [mem EXCEPT ![w] = Enter(w, "Started", NoHeight)]
          /\ Goto(w, "new", "run")
       \/ Goto(w, "new", "off") /\ UNCHANGED <<peers, mem>>
    /\ UNCHANGED <<role, addresses, receive, rows, up, seller, holder, chains, stops>>

AliceCancellable ==
    {"BeldexLockTransactionSent", "BeldexLocked", "BeldexLockTransferProofSent",
     "EncSigLearned", "CancelTimelockExpired", "BtcCancelled", "BtcRefunded",
     "BtcPunishable"}

\* What the commands cancel, refund, punish, redeem and safely_abort insert.
AliceManual(k) ==
    (IF k \in AliceCancellable THEN {"BtcCancelled", "BeldexRefunded"} ELSE {})
    \cup (IF k \notin AliceEnd THEN {"BtcPunished"} ELSE {})
    \cup (IF k = "EncSigLearned" THEN {"BtcRedeemTransactionPublished"} ELSE {})
    \cup (IF k = "BtcRedeemTransactionPublished" THEN {"BtcRedeemed"} ELSE {})
    \cup (IF k \in {"Started", "BtcLockTransactionSeen", "BtcLocked"}
          THEN {"SafelyAborted"} ELSE {})

\* The commands run while the ASB does not.
Recover(w) ==
    /\ role = "alice" /\ ~up
    /\ w \in Stored /\ RoomFor(1)
    /\ \E k \in AliceManual(GetState(w).kind) : InsertLatestState(w, Enter(w, k, GetState(w).restore))
    /\ UNCHANGED <<role, peers, addresses, receive, up, pc, mem, seller, holder, chains, stops>>

-----------------------------------------------------------------------------
(* The application and the chains                                          *)

Crash ==
    /\ up /\ up' = FALSE
    /\ stops < MaxStops /\ stops' = stops + 1
    /\ pc' = [w \in Swap |-> IF pc[w] = "new" THEN "new" ELSE "off"]
    /\ mem' = [w \in Swap |-> Blank]
    /\ holder' = None
    /\ UNCHANGED <<role, tables, seller, chains>>

\* The ASB resumes the swaps that are not finished and whose peer is known.
Start ==
    LET resumed == {w \in Stored : role = "alice" /\ ~Done(GetState(w)) /\ GetPeerIdOk(w)} IN
    /\ ~up /\ up' = TRUE
    /\ pc' = [w \in Swap |-> IF w \in resumed THEN "run" ELSE pc[w]]
    /\ mem' = [w \in Swap |-> IF w \in resumed THEN GetState(w) ELSE mem[w]]
    /\ UNCHANGED <<role, tables, seller, holder, chains, stops>>

\* Bob's view of the chains: his TxLock is mined, then Alice locks the BDX.
TxLockMined(w) ==
    /\ txLock[w] = "pool"
    /\ txLock' = [txLock EXCEPT ![w] = "mined"]
    /\ UNCHANGED <<role, tables, up, pc, mem, seller, holder, height, bdxAt, stops>>

AliceSends(w) ==
    /\ role = "bob" /\ txLock[w] = "mined" /\ bdxAt[w] = NoHeight
    /\ bdxAt' = [bdxAt EXCEPT ![w] = height]
    /\ UNCHANGED <<role, tables, up, pc, mem, seller, holder, txLock, height, stops>>

BeldexBlock ==
    /\ height < MaxHeight /\ height' = height + 1
    /\ UNCHANGED <<role, tables, up, pc, mem, seller, holder, txLock, bdxAt, stops>>

-----------------------------------------------------------------------------

DbTypeOK ==
    /\ role \in {"alice", "bob"}
    /\ peers \in [Swap -> Peer \cup {None}]
    /\ addresses \subseteq Peer
    /\ receive \subseteq Swap
    /\ rows \in [Swap -> Seq(Row)]
    /\ up \in BOOLEAN
    /\ pc \in [Swap -> {"new", "addressed", "received", "quote", "run", "save",
                        "cancel", "refund", "off"}]
    /\ mem \in [Swap -> State]
    /\ seller \in [Swap -> Peer \cup {None}]
    /\ holder \in Swap \cup {None}
    /\ txLock \in [Swap -> {"none", "pool", "mined"}]
    /\ height \in Height
    /\ bdxAt \in [Swap -> Height \cup {NoHeight}]
    /\ stops \in 0 .. MaxStops

DbInit ==
    /\ role \in {"alice", "bob"}
    /\ peers = [w \in Swap |-> None]
    /\ addresses = {}
    /\ receive = {}
    /\ rows = [w \in Swap |-> <<>>]
    /\ up = TRUE
    /\ pc = [w \in Swap |-> "new"]
    /\ mem = [w \in Swap |-> Blank]
    /\ seller = [w \in Swap |-> None]
    /\ holder = None
    /\ txLock = [w \in Swap |-> "none"]
    /\ height = 0
    /\ bdxAt = [w \in Swap |-> NoHeight]
    /\ stops = 0

SwapStep(w) ==
    \/ BobStep(w) \/ AliceStep(w) \/ Save(w) \/ Complete(w) \/ Fail(w)
    \/ BuyAddress(w) \/ BuyReceive(w) \/ BuyLock(w) \/ BuyFails(w) \/ BuyPeer(w)
    \/ ResumeSwap(w)
    \/ CancelAndRefund(w) \/ Cancel(w) \/ Refund(w)
    \/ SetupDone(w)
    \/ Recover(w)
    \/ TxLockMined(w) \/ AliceSends(w)

DbNext == (\E w \in Swap : SwapStep(w)) \/ Crash \/ Start \/ BeldexBlock

DbSpec == DbInit /\ [][DbNext]_dbVars

-----------------------------------------------------------------------------

\* A swap that is listed has everything its resumption reads in the other tables,
\* whatever stopped when: the peer and, at Bob's, an address to dial the peer at
\* and his receive address.
ListedIsResumable ==
    \A w \in Stored :
        /\ GetPeerIdOk(w)
        /\ role = "bob" => GetBeldexAddressOk(w) /\ GetAddresses(peers[w]) # {}

\* No swap that is listed is left out where the swaps are shown with what was
\* agreed on: get_swap_info finds the row it needs.
ListedIsShown == role = "bob" => GetSwapInfosAll = Stored

\* A swap that is listed can be used: resumed, and shown with what was agreed on,
\* wherever a stop came between the writes of a buy or of a step.
ListedIsUsable == ListedIsResumable /\ ListedIsShown

\* Money that has moved is on record: Bob's TxLock is broadcast, and Alice's BDX
\* are sent, only by swaps that a restart finds again.
MovedIsStored ==
    \A w \in Swap :
        txLock[w] # "none" \/ (role = "alice" /\ bdxAt[w] # NoHeight) => w \in Stored

\* The swap that runs is in the state the database has of it, so that a resume
\* repeats at most the step that was under way.
RunsFromRecord ==
    \A w \in Stored : pc[w] = "run" => mem[w] = GetState(w)

\* Whoever is entitled to a swap's secrets gets that swap's secrets: the peer the
\* ASB has punished, and the user whose swap is in BtcRedeemed.
SecretsOnRecord ==
    \A w \in Stored :
        IF role = "alice"
        THEN GetState(w).kind = "BtcPunished" => CooperativeRedeem(w, peers[w]) = w
        ELSE GetState(w).kind = "BtcRedeemed" => BeldexRecovery(w) = w

\* The height from which Bob's wallet is restored is not past the transfer to it,
\* also when he stopped after broadcasting TxLock and recorded the height again.
RestoreCoversTransfer ==
    \A w \in Stored :
        role = "bob" /\ bdxAt[w] # NoHeight => GetState(w).restore <= bdxAt[w]

-----------------------------------------------------------------------------
(* The inductive invariant                                                 *)

\* What a state of swap w, in memory or stored, has to say.
Fits(w, s) ==
    /\ s \in State
    /\ s.kind \in (IF role = "alice" THEN AliceKind ELSE BobKind)
    /\ s.keys = IF Keyless(s.kind) THEN None ELSE w
    /\ s.restore <= height
    /\ role = "bob" /\ bdxAt[w] # NoHeight => s.restore <= bdxAt[w]

\* The other tables are written before the states.
TablesInv ==
    \A w \in Swap :
        /\ pc[w] \in {"addressed", "received", "quote"} =>
               role = "bob" /\ seller[w] \in addresses
        /\ pc[w] \in {"received", "quote"} => w \in receive
        /\ pc[w] \in {"run", "save"} =>
               /\ peers[w] # None
               /\ role = "bob" => w \in receive /\ peers[w] \in addresses

\* Memory and rows belong together.
MemoryInv ==
    \A w \in Swap :
        /\ pc[w] \in {"new", "addressed", "received", "quote"} => w \notin Stored
        /\ pc[w] \in {"cancel", "refund"} => role = "bob" /\ w \in Stored
        /\ pc[w] \in {"run", "save"} => Fits(w, mem[w])
        /\ pc[w] = "run" /\ w \notin Stored => mem[w].kind = "Started"
        /\ pc[w] = "save" /\ w \notin Stored /\ role = "bob" => mem[w].kind = "SwapSetupCompleted"
        /\ ~up => pc[w] \in {"new", "off"}

\* The first row of Bob's swap is the one with what was agreed on, the last one fits.
RowsInv ==
    \A w \in Stored :
        /\ Fits(w, GetState(w))
        /\ role = "bob" => rows[w][1].tag = "ExecutionSetupDone" /\ rows[w][1].keys = w

\* Bob's counterpart sends BDX only once his TxLock is mined.
ChainsInv ==
    \A w \in Swap :
        /\ txLock[w] # "none" => role = "bob"
        /\ role = "bob" /\ bdxAt[w] # NoHeight => txLock[w] = "mined" /\ bdxAt[w] <= height

DbInv ==
    /\ DbTypeOK
    /\ TablesInv
    /\ ListedIsResumable
    /\ MemoryInv
    /\ RowsInv
    /\ RunsFromRecord
    /\ MovedIsStored
    /\ ChainsInv
=============================================================================
