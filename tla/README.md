# Beldex-Eigen: a TLA+ model of the BTC/BDX atomic swap

Beldex-Eigen is a fork of `xmr-btc-swap`: Bob buys Beldex (BDX) with bitcoin from
Alice, who runs the Automated Swap Backend (ASB). Neither chain knows of the
other. What ties them together is a protocol of five Bitcoin transactions whose
signatures reveal the keys of the Beldex output, two persistent state machines
that drive it, and a handful of recovery commands. Around them stand the event
loops, the wallets, the database, the discovery of sellers and the negotiation of
an amount. This directory models that system, checks it with TLC and proves the
safety of its core with TLAPS.

## 1. Inventory

| Component | Code (`src/swap/src`) | State | Operations | Hard behaviour |
|---|---|---|---|---|
| Alice's state machine | `protocol/alice/{swap,state}.rs` | latest state in SQLite, state in memory | one step per `AliceState` | side effects precede the insert; timelock races; swallowed errors |
| Bob's state machine | `protocol/bob/{swap,state}.rs` | likewise | one step per `BobState` | likewise; reads of script histories that match too much |
| Swap setup | `network/swap_setup/*.rs` | one handshake per substream | spot price, messages 0 to 4 | loss of the last message; stale balance; a check left out is noticed months later |
| Bitcoin transactions | `bitcoin.rs`, `bitcoin/*.rs` | five transactions and their signatures | build, sign, verify, extract | which output is the shared one; boundaries of the timelocks |
| Bitcoin wallet | `bitcoin/wallet.rs` | Electrum cache, subscriptions, two mutexes | broadcast, script status, sync, fees, max_giveable | stale reads, two lock orders, arithmetic |
| Beldex wallet, wallet-rpc | `beldex/wallet.rs`, `beldex/wallet_rpc.rs` | one process with one open wallet; downloaded files | transfer, watch, create and sweep, reopen, install | shared by all swaps; partial failures; half-written files |
| ASB event loop | `asb/event_loop.rs` | buffered proofs, requests under way, channels per swap | resume, messages, quotes, cooperative redeem | acknowledgement before insert; lost requests |
| CLI event loop, redial | `cli/event_loop.rs`, `network/redial.rs` | one swap's channels, buffered proofs in the database, backoff | proofs, signature, cooperative redeem, dial | returns on any failure; outlives its swap |
| Database | `database/*.rs` | five SQLite tables | insert latest state, peer, address, proof; get, all | stop between two writes, or between effect and insert |
| ASB manual recovery | `asb/recovery/*.rs` | the database | cancel, refund, punish, redeem, safely-abort | acts between two runs of the ASB |
| CLI cancel-and-refund | `cli/cancel_and_refund.rs` | the database | cancel, then refund | overwrites states; fallbacks |
| Swap lock, tasks, requests | `cli/api.rs`, `cli/api/request.rs` | current swap id, suspend broadcast | buy, resume, suspend | lock leaks, lost signals |
| Rates and quotes, amount | `asb/rate.rs`, `coingecko.rs`, `cli/api/request.rs` | latest price, balances on both sides | quote, determine_btc_to_swap, spot price check | everything may change between two reads; truncation |
| Rendezvous, seller list | `asb/network.rs`, `cli/list_sellers.rs` | registration per node; quote status per seller | dial, register, renew; discover, ask | stuck registrations; order of events |

How the parts interact. A state machine runs as one task. It calls the Bitcoin
wallet and the Beldex wallet, awaits messages from its event loop through
channels, and after each step inserts the new state into the database. The event
loops talk over libp2p request-response protocols; after the setup two messages
matter: Alice's transfer proof and Bob's encrypted signature, and for a punished
Bob the cooperative redeem. On a restart the ASB resumes every unfinished swap;
Bob resumes one swap on request, under the swap lock. The manual commands work on
the same database while no task runs the swap. Before all this, the ASB registers
with rendezvous nodes, the CLI lists sellers, asks one for a quote, waits for a
deposit and sets up the swap.

What makes the components correct:

* the pair of state machines: atomicity. Nobody ends up with both coins, and
  nobody is paid for coins that are not locked;
* each state machine with its database: what is recorded is what happened on
  the chains, progress recorded is not lost, and what was written suffices to go on;
* the setup: whoever locks money holds the signatures that get it back;
* the waiting steps: each has a timelock, an answer or an error behind it;
* the messages: what is acknowledged is kept;
* the wallets: statuses are never ahead of the chain, BDX are never out of reach;
* the negotiation: what is asked for is within the quote and can be paid;
* the recovery commands: they obey the same rules as the state machines.

The hazards of the code are listed in `PROJECT.json`, each with the properties that
would catch it. Where the code allows a hazard to happen, the property names it as its
exception and shows that nothing else goes wrong; the note of the hazard says so.

## 2. Modules

| Module | Models | State | Actions |
|---|---|---|---|
| `BitcoinChain` | the five transactions, confirmations, script status, timelocks and epochs; mining and acceptance (external) | `conf` | `MineBlock`, `Published` |
| `SwapState` | the state of one swap, and what both state machines share | see below | become, save, stop, resume |
| `AliceSwap`, `AliceRecovery` | `protocol/alice/swap.rs`, `asb/recovery` | `a*` | one per match arm, one per command |
| `BobSwap`, `BobRecovery` | `protocol/bob/swap.rs`, `cli/cancel_and_refund.rs` | `b*` | one per match arm; what Bob's event loop does with a proof; cancel, refund |
| `SwapProtocol` | the composition, the fairness, the properties | | |
| `SwapContract` | the abstract atomic swap: where the bitcoin and the BDX are | `btc`, `coin` | one per movement of a coin |
| `SwapInvariant` | the inductive invariant | | |
| `SwapTransactions` | outputs, scripts, digests, signatures and adaptor signatures, symbolically | (operators) | |
| `SwapSetup` | spot price, Message0 to Message4 for several Bobs, up to the two lock transactions | phases, wire and received messages per session, balance and snapshots | one per message sent, received, refused or timed out |
| `Messaging` | both event loops, the handles of the swaps, redial, buffered proofs | tasks and stored states, proofs, signatures, connections and channels of each of Bob's loops | one per event of a loop and per step of a swap that uses a message |
| `WalletRpc`, `BeldexWallet` | installing wallet-rpc; locking, watching, refunding and redeeming, call by call | the loaded wallet, files, funds, a program counter per swap | one per RPC call; failing calls, restarts, crashes |
| `ElectrumClient` | the cache, the subscriptions and the two mutexes of the Bitcoin wallet | cache, chain, lock holders, reported statuses | one per step between two awaits |
| `Rendezvous`, `ListSellers`, `Discovery` | the ASB's registration; the CLI's list; both together | connection and registration per node; status per seller | one per event of either swarm |
| `Quotes`, `BuyAmount` | the arithmetic of amounts; the price feed, the quote, the wait for a deposit and the ASB's check | prices, balances, what the CLI's wallet knows, the request | one per read, sync or decision |
| `SwapDatabase` | the tables, their writers and readers, for the ASB and for the CLI | the five tables, tasks and their memory | one per write, step, stop, resume and command |
| `SwapLock` | the lock that admits one swap at a time, the requests that hold it, the suspension signal | lock, phases, signals | one per request and step of it |
| `SwapClaims` | statements of comments and docs that the code does not keep | | |
| `MCSwap` | values for TLC | | |
| `SwapProofs`, `SwapRefinementProofs` | theorems about `SwapProtocol` | | |
| `SwapLockProofs`, `DatabaseProofs`, `SetupProofs`, `MessagingProofs` | theorems about `SwapLock`, `SwapDatabase`, `SwapSetup`, `Messaging` | | |
| `WalletProofs` | theorems about `ElectrumClient` and `BeldexWallet` | | |
| `OfferProofs` | theorems about `Discovery` and `BuyAmount` | | |

`SwapProtocol` composes the four modules of the two parties over `SwapState` and
`BitcoinChain`, `Discovery` composes `Rendezvous` and `ListSellers`, `BeldexWallet`
extends `WalletRpc`, `BuyAmount` extends `Quotes`, `SwapSetup` extends
`SwapTransactions`. The other modules stand beside `SwapProtocol` and refine a part
that it abstracts: what it calls a message that is lost, `Messaging` shows in its
causes; what it calls a sweep or a transfer, `BeldexWallet` splits into calls; its
reads of the chain are `ElectrumClient`'s; its `save` is `SwapDatabase`'s. These
correspondences are by name and not a checked refinement.

### The swap

`conf[t]` is -1 while transaction `t` is unseen, 0 in the mempool, and otherwise
its confirmations, counted up to the largest number any test of the code
distinguishes. `aDb`/`bDb` is the latest row of the `swap_states` table,
`aMem`/`bMem` the state of the running task, `aPc`/`bPc` how far the task is
inside `next_state`. `net` holds the two requests and the two acknowledgements.
`bdx` is the Beldex output under the shared key: `none`, `pool`, `confirmed` (what
Alice waits for), `final` (ten confirmations, and what Bob asks for), swept by
`alice` or `bob`. `refundWallet` is the file `create_from` generates. `transfers`
counts Alice's lock transfers. `changeOutput` and `shortLock` are chosen once:
whether TxLock has change, and whether the amount Bob finds is the agreed one.

What `SwapLock` calls `Suspended` is `BStop` of `SwapState`, and its resume request is
`BResume`. `phase[r]` says where a request is between `acquire_swap_lock` and
`release_swap_lock`, `signal` which listeners hold an unread suspension signal. A
request that is refused changes nothing; one that has ended may be made again.

### Atomicity of steps

A step of the code is split wherever the answer of one call is used after
another await. `start` is before the first query of the step; `checked` is after
it, so that an epoch may be stale when it is used; `wait` is inside a `select!` or
a subscription; `save` is after the side effects and before
`insert_latest_state`. A stop at `save` forgets the new state but not its effects.
`msave` and `csave` are the same gap in the manual commands, `refund` and
`punish` lie between two effects of a manual command.

An error that leaves `next_state` through `?` ends the task with nothing
inserted. Where the state forces the error it is `AFail`/`BFail`; where any RPC may
produce it, it is `AStop`/`BStop`, which also stand for crashes, shutdowns, a user's
suspension and the returns of Bob's event loop. `RpcFaults` adds the failures
the code swallows: a failed `check_for_tx_redeem` counts as "not found", a failed
broadcast of TxCancel or sweep of the refund wallet is logged.

### Abstractions

* Cryptography is who can spend what. In `SwapTransactions` a signature names its
  key and its digest, and decrypting an adaptor signature with the wrong key gives
  nobody's signature. In `SwapProtocol` TxRefund reveals the key Alice needs, TxRedeem
  the one Bob needs; the cooperative redeem hands Bob the same key.
* There is one mempool, without eviction, replacement or reorganisation, and
  the network refuses a transaction that is already in a block.
* In `SwapProtocol` reads of the chain are current; the split of steps covers
  staleness within a step, and the races between a subscription and an expiry are
  nondeterministic. `ElectrumClient` shows that a status may lag and never runs ahead.
* Alice's own watch of the lock uses her transfer's amount; a short lock
  concerns what Bob's wallet finds.
* A second lock transfer (possible after a crash) reuses `bdx`, which becomes
  `pool` again; `transfers` counts it.
* In `SwapProtocol` either party receives messages only for this swap.
  `BobBuffersProof` is the one effect of another swap of the same pair: its event
  loop, running instead of this swap or left behind by it, buffers the proof, and
  acknowledges it unless the row exists (its primary key is the swap).
* `SwapDatabase` keeps of a state its kind, whose secrets it holds and the restore
  height; the conversion to rows and back is modelled, including the variants that
  are stored under another name or without secrets. Its steps go from a state to
  any that `next_state` can return; when they may is `SwapProtocol`'s business.
* Amounts of `Quotes` are scaled down: `U64` stands for 2^64, and truncation,
  saturation and overflow are kept. Decimals are exact, as `rust_decimal` is in the
  ranges used.
* libp2p (`Messaging`, `Discovery`, `SwapSetup`) delivers a request once, fails it after
  its timeout or with its connection; events are handled one at a time, in any order
  that the swarm can produce.

## 3. Runs

The swap runs use timelocks of two blocks and a finality of one confirmation: there is
a block in which TxLock is final and nothing has expired, one between the
cancel and the punish timelock, and the expiry itself. Larger values add blocks in
which no test of the code changes its answer; the theorems cover all values.

| Run | Instance | Shows |
|---|---|---|
| `swap_safety` | one stop per party anywhere, swallowed failures, lost messages, manual commands, both scenarios | `TypeOK`, `Atomicity`, `RedeemBacked`, `AliceRecordsTruth`, `BobRecordsTruth`, `RecordsNeverRegress`, and `ImplementsContract`: the protocol refines `SwapContract` |
| `swap_liveness` | the ASB stays up, Bob stops once; no swallowed failures | `AliceTerminates`, `BobSettles`; `AbortIsSafe` |
| `swap_lock` | one buy, two resumes, one cancel-and-refund, two suspensions | `OneSwap`, `ReleaseOwned`, `SuspensionTakesEffect` |
| `messaging` | two swaps of one pair, two event loops of Bob, two losses or stops | `AckedIsKept`, `NothingStranded`, `SendingConcludes` |
| `swap_setup` | two Bobs, each honest, configured differently or with one message that is off; amounts below, at and above the limits; a balance for one swap and a half | `EitherGetsOut`, `SetupAgreement`, `SpendKeyRevealed`, `HonestPsbtAccepted`, `UncoveredOnlyIfOvertaken` |
| `beldex_wallet` | one swap that locks, two that refund, one that redeems; two faults | `RefundKept`, `WatchConcludes`, `RefundsConclude`, `RedeemConcludes` |
| `electrum` | one subscription, one caller, a chain of three blocks, one failed fetch, sync and a send | `StatusSound`, `StatusNeverGoesBack`, `WaitConcludes` |
| `discovery` | one node and the ASB itself configured as one, two sellers with or without an address, two drops, one refusal | `EverybodyAccounted`, `Relisted`, `ListingConcludes` |
| `buy_amount` | prices 0, low and high, balances below and above the reserve, fees below and above the relay minimum and the bound, deposits of dust and of more | `QuoteSound`, `AmountSound`, `FeesLeaveRefund`, `WaitEnds` |
| `database` | two swaps, two peers, eight rows, two stops; the role is chosen at the start | `ListedIsUsable`, `MovedIsStored`, `RunsFromRecord`, `SecretsOnRecord`, `RestoreCoversTransfer` |
| `claim_*` | the smallest instance that shows it | one statement of the repository each, violated |

Why these bounds are enough. One stop per party covers a stop at every control
point, before or after every step of the other party, followed by a resume or a
manual command; a task that fails by itself (`AFail`, `BFail`) and is resumed does
not count as a stop. Two event loops are the one in use and one left over, two
swaps the one that runs and the one a proof may be for; two faults are a lost
connection and a restart on top of it. Two setups are the smallest number in which
one overtakes the other. With two refunds one can close the wallet of the other.
In `electrum` one reader is fetched for the first time while the other is
refreshed, and three blocks make a transaction pass two confirmations. In `database`
eight rows let one swap reach its end and another its lock. Invariants that are
conjunctions (`NothingStranded`, `EitherGetsOut`, `RefundKept`, `StatusSound`,
`EverybodyAccounted`, `QuoteSound`, `AmountSound`, `ListedIsUsable`) are defined by their
named parts, each with its own statement (the module's type invariant among them);
each part but the types is broken by a mutant of its own.

`CHECK_DEADLOCK FALSE` stands where the system may stop: requests, handshakes and
listings that have ended, faults used up, a chain at its bound. In `electrum` there
is also a real deadlock, which `WaitConcludes` names. In the swap runs blocks are
always mined, so the deadlock check says nothing about a swap that is stuck; the
liveness properties do.

### Fairness

* `swap_liveness`: weak fairness of the steps of both tasks (tokio polls a ready
  task), of `AResume` (the ASB resumes all swaps when it starts) and `BResume` (a user
  resumes a swap, which the CLI asks for), of mining, for each transaction in the
  mempool, and of Beldex confirmations. Nothing is assumed of messages, which
  may all be lost, nor of stops and commands. Stops of Alice are excluded because
  two of them are not recovered from: between creating and sweeping the refund
  wallet, and while TxPunish waits for its finality (the broadcast is then refused
  and no TxRefund exists). For Bob the same holds of a crash between the broadcast
  of TxLock and its insert.
* `swap_lock`: a task that is ready to see its signal, or to release the lock, is polled.
* `messaging`: tasks that are ready run, the backoff of redial ends, and libp2p delivers
  a request or reports its failure (its timeout guarantees one of them).
* `beldex_wallet`: tasks go on, blocks are mined, and whoever runs a side starts it again.
* `electrum`: time passes, tasks run, and the mutexes are granted in turn: tokio's mutex
  is a FIFO queue, hence strong fairness of taking it.
* `discovery`: a task that was woken is polled, and what was asked for is answered or
  fails. Nothing is assumed of `Wake`: `poll` of the rendezvous behaviour returns Pending
  with a dial in its queue, and whether anything wakes the ASB's event loop afterwards is
  not in its hands, so `Relisted` has `[]<>awake` as a premise (TLC refutes it without).
  `Registered` is strongly fair: the answer of a node reaches `poll` behind the queue of
  dials, so it may have to wait for a later round.
* `buy_amount`: the request itself goes on; nothing is assumed of the user or of others.

### Claims

Two runs violate a statement of the repository, quoted in `PROJECT.json`:

* `claim_bob_refunds`: TxLock and TxCancel pay the same script, and
  `check_for_tx_cancel` accepts any transaction in its history: a Bob whose Alice never
  locks never publishes TxCancel.
* `claim_safe_abort`: a crash between the BDX transfer and its insert lets an
  aborted swap have moved BDX.

### Observations

Behaviour of the code that is in the model, and that a property names as its
exception or leaves out on purpose:

* Swap. A manual cancel "succeeds" before the timelock (`cancel_and_refund.rs:78`, the
  same look at the history); TxLock's change is taken for TxRefund
  (`bob/state.rs:764`), so `BobRecordsTruth` says of `BtcRefunded` only what holds without
  change; `cancel_and_refund` accepts a swap that is recorded as refunded
  (`cancel_and_refund.rs:47`) and overwrites that end with `BtcCancelled` (`:67-82`, after
  which it refunds again) or, when its look at the chain fails, with `BtcPunished`
  (`:90-96`), the exception of `RecordsNeverRegress`; a redeem published just before the cancel timelock is missed
  (`bob/swap.rs:297`), the exception of `BobSettles`; `BtcPunished` is recorded from the
  epoch alone; a failed broadcast of TxCancel is taken for a published one.
* Requests. Sending the suspension signal fails when nobody listens (`api.rs:141`,
  against the comment at `:129`); `resume_swap` can fail while it holds the lock
  (`request.rs:768`); event loops are detached, not stopped.
* Messages. A second copy of a buffered proof violates the primary key and is not
  acknowledged; a proof whose request failed is sent again only after a restart; one that
  reaches a swap which does not read proofs any more ends Bob's event loop, and with it
  his run, after the ten seconds of libp2p.
* Beldex wallet. A refund wallet can be generated only once (`beldex/wallet.rs:136`), and
  each later attempt closes the default wallet first; transfers and sweeps act on
  whichever wallet is loaded; `create_from_and_load` fails when a failed generation
  has left no wallet open; half an executable is taken for the whole one.
* Bitcoin wallet. `sync` takes the client and then the wallet, `send_to_address` and
  `max_giveable` the wallet and then the client; `last_sync` is set before the fetch, so
  that a script whose first fetch failed is reported unseen.
* Discovery. A node that was lost is queued and dialled only when something else wakes
  the event loop (`asb/network.rs:386-445`, and `:373-375` for one's own id); a refused
  registration stays Pending; a node that is dialled twice is mistaken for disconnected.
  `list_sellers` does not return when the discovery fails or the rendezvous point sells
  nothing. It drops a seller when the failure of its request is reported
  (`list_sellers.rs:258-264`) before the list is complete, although `list_sellers.rs:22-24`
  and `docs/cli/README.md:115-124` have such sellers in the list, and one that is
  registered without an address; what it keeps for a seller out of reach is the empty
  address (`:201`).
* Amounts. `balance - max_giveable` can underflow when another request syncs in
  between; a spread below a satoshi is lost; the bounds of a fee contradict each other
  for small amounts, and an amount near dust ends the request with an error; the
  feed keeps its last price when its source is gone.
* Database. A buy that is refused or stopped leaves rows in `peers` and
  `beldex_addresses` that nothing reads; an ASB that stops before the first insert
  forgets the swap, which `MovedIsStored` shows to be harmless.

## 4. Proofs

Every invariant and every action property that a passing run checks is also a theorem,
without the bounds of the run: for all timelocks and finality depths of at least one
block, any number of stops, rows, swaps, sessions, peers, event loops, readers and
requests, all amounts, prices and rates, and every choice of the flags. The assumptions
are the named ones of the modules:

* `TimelockAssumption`, `EnvironmentAssumption`, `ManualCommandsAssumption` (the swap),
  `DatabaseAssumption`, and in `SwapLock` that `NoRequest` is not a request: ranges of
  constants, and values that stand for "none" are nothing else;
* `MessagingAssumption`, `ElectrumAssumption`, `WalletAssumption`: the same;
* `SetupAssumption`: rates are positive, and an amount exceeds the fees of TxCancel and
  TxRefund, without which neither could be built. That this is so of what the ASB
  accepts is `FeesLeaveRefund`, a theorem about `BuyAmount`;
* `RendezvousAssumption`: the ASB's configuration names finitely many rendezvous nodes
  (with infinitely many, a round of dialling would have no end);
* `QuotesAssumption`, `BuyAssumption`: amounts fit their width, the spread is a
  percentage, the ASB's minimum is at most its maximum.

* `TypeCorrect` (`SwapProofs`): `Spec => []TypeOK`. `TypeOK` is inductive by
  itself; there is a lemma per action. Its part `TaskTypeOK` says which states a task can
  be in at which point of its step: none runs on from an end of the swap, and one that is
  stopped has nothing but its record.
* `Invariance` (`SwapProofs`): `Spec => []IndInv`, again a lemma per action.
* `AtomicityHolds`, `RedeemBackedHolds`, `AliceRecordsTruthHolds`, `BobRecordsTruthHolds`:
  from `Invariance`.
* `RecordsNeverRegressHolds`: `AliceWrites` and `BobWrites` say what a step may
  write into a database, and `IndInv` excludes the rest. A record of locked coins is
  never taken back by either party, and an end is overwritten only where `BobReopens`
  says so.
* `AbortIsSafeHolds`: under `~CrashBeforeSave`, from a second invariant. The run checks it
  on an instance without stops of Alice; the theorem allows them.
* `Refinement` (`SwapRefinementProofs`): `Spec => ImplementsContract`. A broadcast is the
  contract step of its transaction, a transfer `LockBdx`, a sweep `ReturnBdx` or
  `BuyBdx`; everything else stutters.
* `OneSwapHolds`, `ReleaseOwnedHolds` (`SwapLockProofs`): `LockInv` is inductive together
  with the types: exactly the owner of the lock is not idle. Neither property is
  inductive alone, because a release looks at nobody's identity.
* `ListedIsUsableHolds`, `MovedIsStoredHolds`, `RunsFromRecordHolds`, `SecretsOnRecordHolds`,
  `RestoreCoversTransferHolds` (`DatabaseProofs`): from `DbInvariance`,
  `DbSpec => []DbInv`.
* `EitherGetsOutHolds`, `SetupAgreementHolds`, `SpendKeyRevealedHolds`,
  `HonestPsbtAcceptedHolds`, `UncoveredOnlyIfOvertakenHolds` (`SetupProofs`): from
  `SetupInvariance`, `SetupSpec => []SetupInv`.
* `AckedIsKeptHolds`, `NothingStrandedHolds` (`MessagingProofs`): from
  `MessagingInvariance`, `MsgSpec => []MsgInv`.
* `StatusSoundHolds`, `StatusNeverGoesBackHolds` and `RefundKeptHolds` (`WalletProofs`):
  from `ElectrumInvariance` and `WalletInvariance`.
* `EverybodyAccountedHolds` and `QuoteSoundHolds`, `AmountSoundHolds`,
  `FeesLeaveRefundHolds` (`OfferProofs`): from `DiscoveryInvariance` and `BuyInvariance`.

Why `IndInv` is what it is. `Atomicity` says that swept BDX imply a transaction on
Bitcoin; a sweep is guarded only by the state a task is in, so the states must
imply the transactions (`AliceInv`, `BobInv`), for the state in memory and, because a
stop falls back to it, for the one in the database; `MemoryInv` says when the two
may differ, and how far the one in memory may be ahead. `RedeemBacked` needs that TxRedeem is published only by an Alice who
holds the encrypted signature, and that the signature exists only once Bob has
accepted the lock (`EncSigInv`). For this to stay true Alice must not transfer again,
which would take `bdx` back to `pool`: `ProofInv` says that whatever leads to a
signature exists only after she has *recorded* her transfer. `ChainInv` states which
transactions exclude each other.

Why `DbInv` is what it is. That a listed swap can be resumed depends on the order of
writes before its first row exists, so `TablesInv` follows the writes of a buy and of
the ASB through the task's control points. What a resume loads is what a run had in
memory, so `Fits` states once what a state must say (whose secrets, which height, of
which role), `MemoryInv` demands it of the memory and `RowsInv` of the last row; the
first row is fixed for `ListedIsShown`. `ChainsInv` orders the lock transactions and the
height, without which a restore height taken after a resume could not be bounded.

Why `SetupInv` is what it is. Whether Bob can refund is decided by what is in his
`State2`, which is made of messages that were sent and checked long before. So the
invariant speaks of one session at a time and says, for each state of each side, which
messages it has received (`AliceHas`, `BobHas`), that they are the ones the other's
configuration makes it send (`WireHas` for the one on its way), and which checks they
have passed. What a check establishes is kept as the check itself (`verify_sig` of the
received signature under the received key); the last steps, `InvGetsOut` and `InvAgrees`,
derive from it that both sides compute the same digests. They need the form of TxLock:
the shared output is the first one and there may be change (`PsbtShape`), and it pays
what was agreed only after `TxLock::from_psbt` has looked (`PsbtPays`). `Covered` is
about the balance alone: the snapshot is what is unlocked until another swap's transfer.

Why `MsgInv` is what it is. That an acknowledged proof is kept is not inductive, because
Bob's loop acknowledges after it has handed the proof on: `ProofTravels` says that a
held proof is still in the channel of its own swap, `LoopWorks` that the channel of a
loop that goes on holds nothing else. A loop whose run ends while it holds a proof ends
without answering. On Alice's side the danger is a restart: `AliceWorks` says that
her process runs all the unfinished swaps or none, so a signature that arrives finds its
receiver. `RunWorks` ties Bob's run to its loop. `BufferedOnlyWhileDisconnected` carries
itself once every connection is known to be gone when she stops.

Why the invariants of the wallets are what they are. `StatusSound` compares a report with
the chain, but the report comes from the cache: `CacheBehindChain` says that the cache
shows an earlier moment of the chain, and `CacheNeverBehindReport` that nobody was told
more than the cache says now, from which `StatusNeverGoesBack` follows as well.
`TrackedIsFetched` is what the first status needs: a script enters `script_history` before
its history is fetched. For `RefundKept`, `RefundProgress` follows the wallet file through
the calls of a refund: past `generate_from_keys` it exists, and no task of another swap
works in a refund's program counter.

Why the invariants of the offer are what they are. `DiscoveryInv` is
`EverybodyAccounted` with `ListProgress`, which counts a quote request as under way until
its answer or failure and knows of every seller that was told of (`told`) whether a
failure has taken it off the list (`dropped`). In `BuyInv` the amount is followed from the quote to the ASB's check:
`QuoteCurrent` says what the quote was computed from, `GiveCovered` and `AcceptedCovered`
what is known of the amount at each step. The arithmetic (truncating division, saturating
subtraction, percentages of the spread) is in lemmas of its own.

Two lemmas keep the leaves of `SwapProofs` small: `StepKinds` splits `Next` by action, and
`EnvironmentStep` treats mining, confirmations and lost messages together. The set
of messages stays opaque to the prover; `MessageNames` provides its members.

Each inductive invariant was checked by TLC on the instance of its run before it was
proved.

Only model-checked, because fairness and ENABLED are outside the prover's reach:
`AliceTerminates`, `BobSettles`, `SuspensionTakesEffect`, `SendingConcludes`,
`WatchConcludes`, `RefundsConclude`, `RedeemConcludes`, `WaitConcludes`, `Relisted`,
`ListingConcludes`, `WaitEnds`; and the two claims, which are counterexamples.

## 5. Not modelled

* Environment and seed (constants, key derivation), command line and configuration
  (straight-line code without state of its own), transports and Tor (pure I/O), the
  JSON-RPC server (hands calls to the requests), the desktop application (an
  interface over the requests), test harnesses and thin RPC clients, vendored code.
* Inside modelled parts: migrations of the schema and the JSON text of a row, CBOR
  encodings, bdk's coin selection and database, key generation, requests that only
  read and print, the lengths of backoffs and intervals.

See `PROJECT.json`, "components", for the status of each.

## 6. Plan

The order follows the harm a mistake does. Done: the swap, its recovery commands, its
contract; the swap lock; the setup; messages; both wallets; discovery; quotes; the
database; and the proofs of every safety property of these. Left:

1. A refinement between `Messaging` and the message part of `SwapProtocol`, and between
   `SwapDatabase` and its `save`, in place of the correspondence by name.
2. The agreement of `SwapSetup` as an assumption of `SwapProtocol`, whose transactions
   and signatures are taken to be the agreed ones.
