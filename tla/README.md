# Hayate in TLA+

Hayate is a Cardano indexer and wallet in Rust.  It follows a node over the
node-to-client chain-sync protocol, keeps the UTxOs, histories and events of the
configured wallets and tokens in LSM trees, and serves them over gRPC
(UTxORPC).  Beside the indexer the repository holds a second binary that tracks
stake (`hayate-node`), a reader for cardano-node's immutable database, the
ledger's reward formulas, and a command-line wallet with an air-gapped signing
flow.

This directory holds the specifications.  Paths below are relative to the
repository's `src/`.

## 1. Inventory

### 1.1 The indexer

| Component | State | Operations | Talks to |
|---|---|---|---|
| Chain-sync session (`main.rs` `run_chain_sync`, `chain_sync.rs`) | the connection, its start point | connect and intersect, next block / rollback / await, shutdown, restart on signal | node (chain-sync), processor, restart signal |
| Block processor (`indexer/block_processor.rs`) | filter, `current_epoch`, `current_slot`, rollback buffer of 100 blocks, snapshot timer | `process_block`, `rollback_to`, `save_current_tips`, `create_final_snapshot` | storage, by one awaited message per read or write |
| Network storage (`indexer/mod.rs`) | 14 LSM trees and their snapshots | open (restore), insert / delete / scan per tree, `save_all_snapshots`, `cleanup_all_snapshots` | cardano-lsm |
| Storage manager (`indexer/storage_manager.rs`) | `Option<NetworkStorage>`, an unbounded FIFO queue of commands | one command per storage operation, take/return, rewind of the tip, shutdown | processor, API |
| Snapshot manager (`snapshot_manager.rs`) | time of the last snapshot | `should_snapshot` (5 or 10 minutes), clean-up | processor, storage |
| Indexer (`indexer/mod.rs` `HayateIndexer`) | accounts, tracked addresses, storage handles, broadcast channels of 1,000 blocks and 10 restarts | add network / account / address, broadcast block, signal restart | session, API |
| Query API (`api/query.rs`) | none of its own | ReadUtxos, SearchUtxos, GetTxHistory, ReadUtxoEvents, GetBlockByHash, AddAddressAndRollback | storage (several calls per request), indexer |
| Watch API (`api/watch.rs`) | one channel of 100 per stream | FollowTip | broadcast channel |
| Submit API (`api/submit.rs`) | none | SubmitTx | node |
| Block walker (`indexer/block_walker.rs`) | none | walk N blocks back along `prev_hash` | node, block hash index |
| Rewards tracker (`rewards.rs`) | snapshots, withdrawals, delegations | record, sum by prefix scan | storage snapshots |

What is hard here: `process_block` and `rollback_to` are long sequences of
awaited writes with no transaction around them, and an error or a crash can fall
between any two; the writes are in memory until a snapshot; tips are stored
rarely and snapshots by the clock, so what a restart finds is a mix of moments;
the node rolls back at will, deeper than the buffer if it must; API requests read
in several calls while blocks are processed, and one of them rewinds the tips of
a running session.

What makes it correct: between two responses of the node the trees are the ones
the announced chain defines, whatever forks were left behind; redundant trees
(address index, events, balances, tips) never contradict the UTxO tree; what a
restart loads is coherent and no tip is ahead of its data; nothing hangs.

### 1.2 The rest

* **hayate-node** (`node/main.rs`, `node/storage.rs`): a sequential loop over
  chain-sync with its own UTxO tree and an in-memory stake map that is written
  out per epoch.  Hard: no rollback, memory that a restart loses, blocks that
  fail half-way, the loop's `awaiting` flag.  Correct if the stake of an epoch is
  the sum of the unspent outputs per credential, and if it keeps following.
* **Immutable DB** (`storage/immutable.rs`): look-ups from slot to block through
  two index files; `storage/volatile.rs` and `storage/chain_db.rs` are stubs.
* **Reward formulas** (`rewards_calculation.rs`): rational arithmetic.
* **Wallet** (`wallet/`): transaction building (`unified_tx/builder.rs` and two
  older builders), storage of wallets (`storage.rs`, `gpg.rs`), signing across an
  air gap (`portal.rs`, `portal_cli.rs`), multisig (`multisig.rs`,
  `multisig_cli.rs`), Plutus encodings, key derivation.  Hard: a fee that depends
  on the transaction that depends on the fee; value conservation with change and
  minimum outputs; retries of what may have been done; files written in several
  steps; witnesses collected from several signers in any order.

`PROJECT.json` lists every component with its status, and every place of the code
where one of these difficulties bites (`hazards`), with the property that would
catch it or the reason why none does.

## 2. The modules and how they fit

| Subject | Modules | Instance | Proofs |
|---|---|---|---|
| following the chain: trees, rollback, crash, restart | `CardanoChain` < `NetworkStorage` < `BlockProcessor` < `ChainSync` | `MCChainSync` | `ChainSyncProofs`, `SumProofs` < `ChainMirrorProofs` |
| the task that owns the trees, and what it promises | `StorageCommands` < `StorageManager`, refining `AtomicStorage` | `MCStorageManager` | `StorageManagerProofs` |
| session, requests and streams side by side | `IndexerService` | `MCIndexerService` | `IndexerServiceProofs` |
| hayate-node | `CardanoChain` < `HayateNode` | `MCHayateNode` | `SumProofs` < `HayateNodeProofs` |
| building, signing and sending a transaction | `CoinSelection` < `UnifiedTxBuilder` | `MCUnifiedTxBuilder` | `SumProofs` < `UnifiedTxBuilderProofs` |
| wallet files, portal set-up, N-of-K spending | `WalletStore` < `MultisigPortal` | `MCMultisigPortal` | `SumProofs` < `MultisigPortalProofs` |

(`A < B`: B extends A.)  The cut between the first three is by what interferes:

* `ChainSync` has forks, failing blocks, crashes and snapshots, one process and
  no second reader of the trees: an awaited sequence of writes inside one item of
  a block is one step there.
* `StorageManager` shows that a call of a storage handle may be taken for one
  atomic step, whoever else calls, gives up or shuts the manager down.
* `IndexerService` builds on that: every storage call of the session and of the
  requests is a step, on one chain without crashes, so that the interleavings
  themselves are small enough to explore.

Definitions named "As if ..." in a comment (`LargeOnly`, `NeverHung`, ...) are
not used by any action: each is a slip that the code could have made, kept
beside the definition it would replace, with which some property fails
(`mutants` in `PROJECT.json`).

Recursion is written as recursive functions or folds, never as RECURSIVE
operators.

## 3. Module by module

### `CardanoChain` - the environment

A constant tree of blocks (`ChainTo`, `SlotOf`, `TxsOf`, `InputsOf`,
`OutputsOf`, `TokensOf`), with the ledger's guarantees as assumptions: slots grow
along a chain, a transaction occurs once, spends only unspent outputs created
before.  TLC evaluates them on every instance.  Blocks, transactions and
addresses are identities; a block is its hash.

### `NetworkStorage` - `indexer/mod.rs`

One variable per tree, under the name of the field.  A tree is a partial
function, or a set where the value carries nothing but its key.  `snapshots` maps
a slot to what `save_all_snapshots` wrote, which is every tree but the balances.
`LatestSnapshots` and `Load` are `open`: the snapshot with the highest slot, or
empty trees; balances from zero.  The balance tree is a `MonoidalLsmTree`, but
the storage manager uses it as a plain map (`update_balance` overwrites).

### `BlockProcessor` - `indexer/block_processor.rs`

`phase` says where `process_block` or `rollback_to` stands; `info`, `txn`, `pos`,
`event_index`, `addresses_affected` and `epoch_boundary` are their locals.

| Code | Actions |
|---|---|
| `process_block`, first test | `BeginBlock`, `RejectBlock` |
| `process_transaction`, `process_input`, `process_output` | `ProcessInput`, `ProcessOutput`, `FailBlock`, `EndTx` |
| events | `WriteCreatedEvent`, `WriteSpentEvent` |
| metadata, buffer, tips, snapshot | `FinishBlock` |
| `rollback_to` | `IgnoreRollback`, `BeginRollback`, `UndoBlock`, `BlockUndone`, `EndRollback` |
| `rollback_block` | `RestoreSpent`, `DeleteSpentRecords`, `DeleteEvents`, `DeleteCreated` |

One input, output, event or undone item is one step, and a crash may fall between
any two.  The awaited writes inside one item are one step: memory is lost as a
whole, so no crash can tell them apart, and no second actor reads the trees in
this module.  (`IndexerService` splits them.)

The wallet filter is reduced to what it decides: `FilterOf` gives the addresses
accepted for a set of wallets.  `rollback_buffer` keeps for each block the keys
and data `RollbackInfo` keeps.

### `ChainSync` - `main.rs` `run_chain_sync`, `chain_sync.rs`

`Start` opens the storage, resumes from the lowest wallet tip and connects; when
the node does not have that point, or the stored hash is empty, the session runs
from the origin, since the answer of `find_intersect` is not looked at.  The first
response is a rollback to the intersection (`FirstResponse`).  Then the node
extends the chain (`RollForward`), rolls back (`Rollback`) or has nothing
(`Await`).  `Shutdown` is SIGINT or SIGTERM between two responses: tips and a
snapshot.  `Crash` is a crash at any step, or a lost connection, which leaves the
session before tips are saved.

Two history variables are read by properties only: `exact` (the trees are known
to follow the announced chain) and `balanced` (no restart has emptied the
balances).  `exact` turns false when the code meets one of its limits: a block
rejected or failed, a rollback ignored or deeper than the buffer, a session that
starts at another point than the data it loads or with another filter.

Tips are stored at epoch boundaries and on shutdown only (`save_current_tips`),
snapshots by the clock.  Both are in the model, and so is what follows from them:
a restart restores each tree from the snapshot with the highest slot (not the one
written last), resumes at the tip stored in it (not where the snapshot was
taken), and replays blocks over their own effects.

### `StorageCommands`, `StorageManager`, `AtomicStorage` - `indexer/storage_manager.rs`

The trees are reduced to cells `<<tree, key>>`.  The forty commands of
`StorageCommand` differ in which cells they read or overwrite, and are the
records of `ReadCommand` and `WriteCommand`; `save`, `take`, `return` and
`shutdown` are `PlainCommand` and `ReturnCommand`.  `Obey` and `Reply` are
`handle_command`: its effect and its answer, both refused when the storage has
been taken.

| Code | Actions |
|---|---|
| a method of `StorageHandle`: `sender.send`, `rx.await` | `Send`, `Receive` |
| the future of a handle is dropped at an await | `GiveUp` |
| `take_storage`, use of what was taken, `return_storage` | `Send`, `Use`, `Return` |
| `StorageManager::run`: `recv`, `handle_command` | `Handle` |
| `run` returns after Shutdown, the receiver is dropped | `Close` |

`AtomicStorage` is the promise without a queue: a pending call takes effect at
one moment between call and answer, in any order; calls pending when the manager
goes away fail; everybody is answered.  `StorageManager` implements it with
`pending <- {queue[i] : i \in DOMAIN queue}`.  No other file of the repository
calls `take_storage` or `return_storage`; they are modelled because they are
public.

### `IndexerService` - `main.rs`, `indexer/mod.rs`, `indexer/block_walker.rs`, `api/query.rs`, `api/watch.rs`

| Code | Actions |
|---|---|
| `run_chain_sync` up to its loop | `Resume`, `Connect`, `BuildFilter`, `SubscribeRestart` |
| the restart branch of its `select!` | `Restart` |
| `rollback_to`, as far as it writes tips | `RollBackward`, `RewindWallet` |
| `process_block`, call by call | `BeginBlock`, `ProcessInput`, `DeleteUtxo`, `ProcessOutput`, `IndexUtxo`, `TrackTokens`, `WriteEvent`, `StoreMetadata`, `SaveTips`, `BroadcastBlock` |
| `read_utxos` | `ReadIndex`, `ReadOutput`, `ReadTip` |
| `search_utxos` by policy | `SearchPolicy`, `ScanOutput` |
| `read_utxo_events` without a filter | `ReadEvent` |
| `get_block_by_hash` | `ReadMetadata`, `ReadParent`, `FetchBlock` |
| `add_address_and_rollback`, `walk_back_n_blocks` | `AddAddress`, `WalkBack`, `RewindTip`, `RewindWallets`, `SignalRestart` |
| `follow_tip` and its channels | `FollowTip`, `Forward`, `Deliver`, `CloseStream` |
| the client hangs up | `Leave` |

`signals` counts what the session's receiver has not read: a signal sent when
nobody is subscribed is gone, and so is what a receiver had not read when its
session restarts.  Blocks are numbers, since there is one chain.  `KeyTypes` and
`LedgerRules` are what the ledger guarantees of it: every key is that of an output
on the chain; an output is made once and spent at most once, by a later input.

What the properties had to be weakened to, because the code does not do more:
`SearchUtxos` stops at the first output of a transaction that is not there
(`query.rs:378`) and tries `ScanLimit` outputs of one (`query.rs:273`, 100), so
`SearchRegular` promises the outputs below the first gap and within the limit
only; during a replay answers may hold what was spent before, so
`ReadUtxosRegular` (in part), `EventsRegular` and the blocks of
`StreamNeverSkips` are about `seen.rewound = 0`: no rewind asked for yet.
Updates are numbered per stream, so that "in order, none missing" can be said
of a replay too.

`RewoundIsIndexed`, what AddAddressAndRollback answers, fails in three ways.  The
run shows the first: an epoch boundary in the block under way saves its tips over
the rewound ones.  With `Depths = {0}` and `EpochLength = 4` it shows the second:
the signal is sent before the session has subscribed, which then goes on without
the address in its filter.  The third takes two callers: a second rewind that goes
back fewer blocks than the first stores tips above the point the replay of the
first has reached, and the blocks in between are never replayed.  That is why
`ExactAtTip` is stated up to one rewind.  Outside the model: the
address filter of ReadUtxoEvents decodes raw bytes as hex and matches nothing, and
its limit of 100,000 events per slot (see `LimitIsReasonable` for what a block has).

### `HayateNode` - `node/main.rs`, `node/storage.rs`

`Switch` is the node adopting another chain.  The loop asks (`RollForward`,
`RollBackward`, `Await`), goes through a block (`RemoveUtxo`, `InsertUtxo`,
`FailBlock`), and ends it with epoch, nonce, distribution and tip
(`FinishBlock`); `Restart` is a crash, after which the trees are empty because
nothing saves a snapshot of them, and the chain is followed from the origin.

Modelled as it is: an empty value stands for a removed output, is also written
for one that was never there, and does not deserialize when it is removed again,
which fails the block; a rollback is logged and ignored; the snapshot of an epoch
is taken after its first block has been applied.  The comments say "snapshot the
previous epoch" (`node/main.rs:170`) and "at epoch boundary" (`node/storage.rs:226`):
by the first, the outputs of the new epoch's first block should not count, and
they do.  `SnapshotsExact` takes no side.  It says that nothing else goes wrong:
the distribution is the ledger's on one side or the other of that block, never of
a later one, and the nonce is that of all blocks up to it.  It is about sessions
without rollbacks and failing blocks: the loop ignores the former, and what that
does to the stake is the subject of `StakeIsLive` and `SpentStaysSpent`.
`update_delegation`, the pool operations and `save_all_snapshots` have no caller.

### `CoinSelection`, `UnifiedTxBuilder` - `wallet/unified_tx/builder.rs`, `wallet/transaction.rs`, `wallet/tx_builder/builder.rs`

`CoinSelection` has the greedy loop as a definition: the shortest prefix of a
list that covers lovelace and tokens, or all of it.  Both builders use it with
an order of their own.  `UnifiedTxBuilder` keeps the builder's fields in
`builder` and the call under way in `job`.

| Code | Actions |
|---|---|
| `with_utxos`, `with_utxos_from_file`, `query_utxos` | `WithUtxos`, `QueryUtxos` |
| `send_ada`, `send_assets`, `pay_to_script`, `..._with_assets` | `Send` |
| `mint_with_policy`, `mint_with_native_script`, `burn` | `Mint` |
| `spend_from_script`, `with_collateral`, `auto_collateral` | `SpendFromScript`, `WithCollateral`, `AutoCollateral` |
| `with_protocol_params`, `query_protocol_params`, `fee`, `address_scan_limit` | `WithParams`, `SetFee`, `SetScanLimit` |
| `build`: first estimate; a round of its loop; its errors | `Build`, `Iterate`, `Refuse` |
| `build_tx_internal` | `Built`, `Body`, `ChangeOutput`, `HasChange` |
| `build_and_sign_with_keys` | `Sign`, `ReturnSigned` |
| `build_sign_submit`, whose answer may be lost | `Submit` |

The size of a transaction is a formula (`TxSize`, `OutputBytes`) with the parts
that an encoding has, growing with inputs, outputs, tokens and the width of the
numbers; it is not pallas's encoder.  It is of the transaction without the
witnesses of keys, as the code measures it.  What the code leaves out is left out
in the model and named in the properties: change below the minimum goes to
nobody (the log says it is added to the fee, the fee stays as it is:
`dropped_change`); token change is raised to its minimum with lovelace that no
input has, which breaks the same `TransactionBalances` the other way;
`LovelaceConserved` is what holds beside the two: the inputs never fall short of
what is asked for, and where the change needs neither, they are worth what is
paid.  What script inputs hold is not counted, so that their lovelace is lost and
both properties speak of the wallet's inputs; minted tokens that no output asks
for are not put in the change, burnt ones are not asked of the inputs.
`sign_transaction` always returns an error.  A list of UTxOs has none twice here, and
an output is spent from a script once; the code takes any list and looks for no
duplicate.

### `WalletStore`, `MultisigPortal` - `wallet/storage.rs`, `wallet/cli.rs`, `gpg.rs`, `wallet/multisig*.rs`, `wallet/portal*.rs`

`WalletStore` takes `create_wallet` and `delete_wallet` apart into file
operations (`MakeDirectory`, `WriteFile`, `RemoveFile`); `CutShort` ends the
command after any of them, with the file being written torn or as before.  One
person works at the machine: one command runs at a time.

| Code | Actions of `MultisigPortal` |
|---|---|
| `handle_create_address`, with `--sort-keys` and without | `CreateAddress` |
| `build_tx_cbor`, `handle_sign` | `BuildTx`, `Sign` |
| `portal_init`: register, nonce, file | `PortalInit`, `Register`, `GetNonce` |
| `portal_sign_setup` on the air-gapped machine | `SignSetup` |
| `portal_complete_setup`: authenticate, claim, pick the secret up, file | `CompleteSetup`, `AuthSigner`, `ClaimBot`, `PickupSecret` |
| `propose-tx`, `submit-witness`, `fetch` | `ProposeTx`, `AddTransaction`, `SubmitWitness`, `SignTransaction`, `Fetch` |
| a request is refused, or its answer is lost after the portal has acted | `Fails` in each, `Refused` |
| another signer signs on the portal's page | `OtherSigns` |

The portal and the ledger are not in the repository.  They are modelled from the
requests: a bot is pending until it is claimed, a nonce counts until the next one,
a transaction collects witnesses, the ledger accepts what enough valid witnesses
of the script's keys sign and what balances.  Lovelace wraps at `Word`, as u64
does in a release build: `amount + fee` wraps (`portal_cli.rs:212`), and
`SignersSuffice` is about amounts that do not.  Neither `propose-tx` nor
`submit-witness` looks whether the witness is for that transaction, so the
property is about transactions whose witnesses are.  Without `--sort-keys`, which is
off by default, the order of the arguments decides the address, and two signers who
list the keys differently get two: the property asks for the policy file of the
address itself, or for two that are both in order, as `--sort-keys` makes them or as
the arguments happened to be.  A signer may be
named twice; `atLeast` then counts both entries, and the property is about the same
entries, but for two policy files with nobody named twice.

Abstracted from the encodings, and worth knowing: `extract_tx_body` finds the body
behind the header `0x84` only (`multisig.rs:219`), any other envelope is hashed
whole; `embed_vkey_witness` keeps nothing of a witness map or array of indefinite
length (`unwrap_or(0)`, `multisig.rs:334` and `:354`), fails on a tagged array and
appends a witness that is there already once more.  The model's envelopes and
witness sets are of the one shape that `build-tx` writes and the code reads.

Consequences seen in the states and worth knowing: a `create` that was cut short
leaves a directory that is not listed, that `create` refuses, and that only
`delete` removes; when the answer to the claim is lost, `complete-setup` is
refused for good and the set-up has to begin again with `init`.

## 4. Runs

Twelve runs: six that pass, six that find what the code does against what it
says.  `findings` in `PROJECT.json` quotes the line for each of the six.

| Run | Result | Shows |
|---|---|---|
| `follow_chain` | passes, 438 thousand states | `MirrorsChain`, `EventsMirrorChain`, `BalancesExact`, `HistoryComplete`: as long as `exact`, UTxOs, spend records, block index, events, balances and histories are those of the announced chain, over forks, two stops and restarts; `TypeOK`, `IndexCoherent`, `EventsContiguous`, `BufferSound`, `TipBacked`, `Settles`: what holds in every state, limits hit or not |
| `storage_manager` | passes, 159 thousand states | the refinement `ImplementsAtomicStorage` with its fairness, `EveryCallAnswered` |
| `indexer_service` | passes, 741 thousand states | what the answers of ReadUtxos, SearchUtxos and ReadUtxoEvents contain while blocks are processed and replayed, `TipsKnown`, `ExactAtTip`, `StreamNeverSkips`, `EverythingSettles` |
| `node_sync` | passes, 4 thousand states | `StakeIsLive`, `TipApplied`, `SnapshotsExact`, `SpentStaysSpent` |
| `build_transaction` | passes, 739 thousand states | `FeeConverges`, `LovelaceConserved`, `TokensConserved`, `SignedCorrectly`, `PaidOnce` |
| `multisig_portal` | passes, 1.80 million states | `ListedLoads`, `PhrasesKept`, `CredentialsWork`: commands cut short, set-ups begun again; `SignersSuffice`: whoever signs before or after whom, with policy files made with and without `--sort-keys` |
| `undo_later_blocks` | violated | a rollback within an epoch undoes nothing |
| `balances_after_restart` | violated | balances are not rebuilt from the restored UTxOs |
| `resync_after_rewind` | violated | the first block of an epoch saves its tips over the rewound ones, and the added address stays empty |
| `node_follows` | violated | after the first "caught up" hayate-node asks for no further block |
| `dropped_change` | violated | change below the minimum is in no output and not in the fee |
| `signed_is_built` | violated | tokens in the change are not in the transaction that is signed |

**Bounds.**

* `MCChainSync`: six blocks in three forks, one with an output that does not
  decode, so that it fails half-way; five transactions, two addresses, two
  wallets, two policies.  An output is created and spent in one block (t2, t3 in
  b2), a transaction is included by two forks (t4 in b3, c2), forks have blocks at
  the same slot, one with fewer events (b2, c2, d4), and one block is late: when
  the rollback from b3 to b2 is ignored, c3 has a lower slot than what was
  processed, and is turned away.  `MaxMsgs` 5 (announcements in all sessions) is
  enough to follow a fork of three blocks, roll back and follow another;
  `MaxStops` 2 gives a restart over a restart's snapshot.  `BufferSize` 2 makes a
  rollback of three blocks exceed the buffer (the code: 100), `KeepLatest` 2 makes
  the clean-up delete (the code: 10), `EpochLength` 3 puts an epoch boundary
  behind the first block.  `EventLimit` 4 is as many events as any slot gets.
  The two wallets are configured or not, and that may change between sessions.
  The two violations use other epoch lengths and neither d4 nor wallets, to keep
  their traces short.
* `MCStorageManager`: two clients with two calls each, two cells, one value; a
  client that gives up has two calls in the queue beside those of the other, and
  writes overlap in a cell.
* `MCIndexerService`: three blocks, in which an output is created, spent and paid
  back; one caller with any reading request or a stream, one that rewinds by two
  blocks; channels of capacity 1, so that a stream lags after two blocks.
* `MCHayateNode`: nine blocks in three forks, where a transaction comes again on
  another fork, another spends the same output, one block does not decode and two
  outputs do not parse; two credentials and an address without one; four changes
  of the chain and a restart.
* `MCUnifiedTxBuilder`: outputs with and without tokens, of a script, with an
  address beyond the scan limit; payments such that change is large, small, or
  there for its tokens only; fee parameters of mainnet; lists of up to two
  outputs and one mint, two builds, between them any setter.
* `MCMultisigPortal`: a wallet and a signer elsewhere, two of two, given in order
  without `--sort-keys` and out of order with it, and with a threshold that is
  refused; a spend with change and one whose sum wraps around (`Word` 16).  Two
  commands on the wallet, so that one can be begun over what another left; one
  failure, after which a set-up or a request is made again; two registrations,
  policy files, transactions built and proposals, so that a file of one can meet
  a transaction of the other.

No run uses symmetry: blocks, addresses and callers have different roles.

**Deadlock** is checked in the chain and builder runs: `Await` is always possible
between two responses, a setter between two builds.  It is not in the other
runs: once their bounds are used up everybody has been answered and nobody has to
ask again, the node's loop sleeps for ever after its first `Await`, and a person
may stop typing commands.  What must not stop is stated as liveness.

**Fairness.**  tokio polls a task as long as it can go on, and that is all that is
assumed: `WF(Step \/ Fail \/ Finish)` of the processor in `ChainSync` (the branch
of `select!` that awaits it has no competitor once it has been chosen);
`WF(Handle)` and `WF(Close)` of the manager's task in `StorageManager`;
`WF(SessionStep)`, `WF(RequestStep(c))` of each request and `WF(Forward)` of each
stream's task in `IndexerService`; `WF(Sync)` of the main task in `HayateNode`.
Nothing is assumed of the node, of signals, crashes, clients, people or the
portal; `UnifiedTxBuilder` and `MultisigPortal` state no fairness and no liveness.

## 5. Proofs

The theorems hold for every value of the constants that satisfies the named
assumptions; the runs evaluate each assumption on their instances.

**`ChainSyncProofs`.**

* `TypeCorrect`: `Spec => []TypeOK`.  `TypeOK` is inductive: it includes that a
  phase inside a block has a `RollbackInfo` to work on and that `txn` is one of
  the block's transactions, without which `info.utxos_created[pos]` would have no
  type.  Uses `ChainTypes`, `ChainShape`, `ProcessorConstants`,
  `ChainSyncConstants`, `KeepLatestType`.
* `IndexStaysCoherent`: `Spec => []IndexCoherent`, over `TypeOK`.  Every action
  that changes the UTxO tree changes the index by the same key; a snapshot is a
  copy, and opening one brings both back.
* `BufferStaysSound` and `TipStaysBacked`: neither is inductive.  `BufferSound`
  says nothing of the block index while a rollback runs, and the stored tip may
  then name a block just undone.  `BufferTipInv` adds what holds meanwhile: the
  buffered blocks at or below the target, which survive the rollback, are still
  in the block index; and a block being processed is not below `current_slot`,
  because process_block has turned late ones away, so that pushing it keeps the
  buffer in order.  `BufferTipInvariant` is the theorem, the two properties
  follow.

**`ChainMirrorProofs`**, from the same assumptions, `LedgerRules` (an input spends
an output made earlier on its chain and not spent there; a transaction is on a
chain once) and `LimitIsReasonable`.

* `TreesMirrorChain` (`MirrorsChain`): the property speaks of the moments between
  two responses.  Between them a block changes the trees item by item, a rollback
  takes its blocks back in four passes, and a crash or an error may come
  anywhere.  `MirrorInvariant` says what the trees hold in every phase.
  `AlignedInv`: the buffer is a stretch of the announced chain that ends at the
  trees, and while a rollback runs it still holds every block above the target,
  so that undoing its last block is undoing the last block of the chain.
  `MirrorInv`: the trees hold the chain before the block under way and what has
  been read of it, or what has not been undone; a buffered record names all the
  tracked outputs its block made and spent, with the blocks that made them; and a
  snapshot saved by an exact session mirrors the chain at which it was saved,
  which is what a restart goes back to.  The ledger rules are used both ways:
  processing an input finds its key because it was made before and not spent,
  and undoing a block takes away nothing of the chain before it because no key is
  made or spent twice.
* `HistoryStaysComplete` (`HistoryComplete`): inside a transaction the addresses of
  the items read so far are noted.  That of an input is looked up in the UTxO
  tree, so this needs the mirror in the middle of a block.
* `EventsStayContiguous` (`EventsContiguous`): rollback_block deletes the events of
  a slot from number 0 up to the first gap or to its limit of 100,000, so a slot
  with more would keep a tail.  `LimitIsReasonable` says what the comment there
  does, that no block has so many items (the ledger's limit on the size of a
  block keeps it far below).  `LimitInv` counts: no more is recorded than has been
  read, no more is written than was recorded, and the numbers below the next one
  are taken.  It holds for sessions that are not exact too, where a block may be
  written over the events of another at the same slot.
* `EventsMirrorTheChain` (`EventsMirrorChain`): a block's events are deleted while
  its other trees are still being undone, so the log is of another point than
  they are (`EventSteps`).  That deleting up to the first gap finds them all is
  `LimitInv`; that the `CREATED` events are those of the outputs not spent in the
  block itself follows from the mirror.

* `BalancesStayExact` (`BalancesExact`): `BalanceInv` says the same of every phase of
  a block and a rollback, since each write to the UTxO tree comes with one to the
  balance (`Matches`).  What has to be shown is that nothing is added that is
  there already, and here the mirror is needed: an output processed is new, and an
  output restored is not in the tree and is restored once, because the record of a
  block names no spent output twice (`SpentOnce`).  A debit is exact because a sum
  of natural numbers is not below any of them.

**`StorageManagerProofs`**, from `ClientNames` and `RequestTypes`.

* `StorageTypeCorrect` (`TypeOK`): a storage that travels in the queue is one that
  was taken, and whoever waits has a call that was made.
* `ManagerIsAtomic`: every step of the queue is a step of `AtomicStorage` or a
  stutter.  It needs a lemma about the model's own numbering of calls
  (`CallsDistinct`, a definition of the proofs): taking the head of the queue
  removes just that call from the set of pending ones.  This is the safety part;
  that the fairness carries over is checked by the run.

**`IndexerServiceProofs`**, from `IndexerConstants`, `KeyTypes` and `LedgerRules`.

* `IndexerTypeCorrect`: `Spec => []TypeOK`, which contains the bounds of the two
  channels.  Inside a block its number is one of the chain's and the position is
  at one of its items.
* `TipsStayKnown`: `TipsKnown` is not inductive, since it says nothing of tips
  about to be written.  `IndexInv` adds that the block whose tips are being saved
  has its metadata (`SavesKnown`) and that a rewind under way leads to an indexed
  block or to the origin (`RewindTargets`), which stays true because metadata is
  never deleted.
* `StreamStaysWhole`: `Spec => StreamNeverSkips`.  `Numbered` says that the last
  update taken, the stream's channel and the broadcast channel are numbered
  through, unless the receiver lags, in which case what it still has is never
  forwarded.  For the blocks, `FirstSession` says that before any rewind the
  session runs once and begins at tips without a slot, so that it skips no block,
  and `StreamBlocks` that updates on the way are as many blocks apart as updates.
* `WalletOutputsExact` (`ExactAtTip`): the property speaks of a session that has
  caught up; `TreesInv` says what the trees hold at every call of it.  `Bounded`:
  neither the session nor a stored tip is ahead of the blocks begun, whoever has
  rewound it.  `AtItem`: an output is removed from the index before it is removed
  from the UTxO tree and added to it after, so the index never holds an output
  that the tree does not.  `Standing`: an output of the wallets that was made and
  that no block begun has spent is in both trees, during a replay too.  The other
  direction fails during a replay, which puts back what later blocks spend;
  `SpentGone` says that this ends: up to the session's place nothing spent is
  left, and outside of a replay nothing at all.  That needs the replay to reach
  every block that was done: a session that has yet to hear of its one rewind is at
  the front of the chain, so that no replay is cut short (`OneRestart`); this is
  what a second rewind breaks.
* `SearchFindsSettled` (`SearchRegular`) and `UtxosReadSettled`
  (`ReadUtxosRegular`) add what a request has still to do (`Searching`,
  `ReadingUtxos`): every output that stands all the time has been found, or is
  ahead in its list, or its address or transaction is.  An output that stands now
  was standing when the request began, since blocks only ever spend (`Grows`,
  `SettledShrinks`); by `Standing` it is in both trees at whatever moment they are
  read.  That nothing is returned twice, or after it was spent, needs that the
  part read and the part ahead stay apart.
* `EventsAllRead` (`EventsRegular`): `FirstLog` describes a session before any
  rewind exactly, call by call: the UTxO tree (`ExactNow`), what the block has
  noted as made and spent (`Listed`), the log of every block done, under way and to
  come (`LogKept`, `LogHere`).  The log only grows at its end (`LogGrows`), so what
  a request has passed stays passed (`ReadingEvents`).

**`HayateNodeProofs`**, from `ChainTypes`, `ChainShape`, `LedgerRules` and
`NodeConstants`.

* `NodeTypeCorrect`: the loop's position is inside its block, so that the key it
  is at exists.
* `NodeTipApplied`: `TipApplied` is not inductive: while a block is processed
  nothing says what of it is done.  The strengthening says that everything
  before the loop's position is in the tree; a key in the tree is never absent
  again, and a block that fails is given up before it becomes the tip.
* `SpentNeverReturns` (`SpentStaysSpent`): a block sent again after a fork inserts
  its outputs again, and only a failing first input keeps a spent one from coming
  back.  `SpentInv` says why it fails: an output that is in the tree comes from a
  transaction all of whose inputs are spent (`OutputsSeen`); without a failure
  everything behind the loop is done, and the outputs a transaction under way has
  not come to are not in the tree (`UnderWay`).  After a failed block, when the
  loop may have left inputs untouched, what is spent is only known of the blocks
  announced so far, which is why the property is silent from there to the next
  rollback.
* `StakeCountsLive` (`StakeIsLive`): `StakeInv` follows the stake item by item.  What
  is inserted is not in the tree yet, by `SpentInv`, so it is not counted twice,
  and a debit is exact, since the sum over the live outputs of a credential is not
  below one of them: `saturating_sub` never saturates.
* `SnapshotsStayExact` (`SnapshotsExact`): `SnapInv` relates the tree to the ledger
  at every item (`Live = Made \ Gone`), the rolling nonce to the VRF outputs of the
  announced chain, the current epoch to the stored tip (`EpochsOK`), and says of
  every block that opens an epoch what is stored for it (`StoredOK`).  Slots grow
  along a chain, so epochs do not decrease, and an epoch is stored exactly once.

**`SumProofs`** states of the sums of the models (`MapThenSumSet`) what the
proofs need: the sum over a finite set and one more element is the sum and that
element's share, whatever the order in which the definition picks them.  The
induction over finite sets is done by the smallest counterexample, which exists
because strict inclusion is well-founded on them, and the recursive function
behind the sum is shown to exist in the same way (`AddsExists`).

**`UnifiedTxBuilderProofs`**, from `UtxoTypes` and `BuilderConstants`.  That the part
of a list that is in a set is a list of just those (`PartsAreLists`), and how a
part of a part and a longer list's part look (`ThoseTwice`, `ThoseOfMore`), is
proved of the recursive function `Those` with a smallest counterexample.

* `BuilderTypes` (`TypeOK`), `LovelaceIsConserved` (`LovelaceConserved`) and
  `TokensAreConserved` (`TokensConserved`): the three depend on each other, since
  the change is a natural number because the outputs selected are worth at least
  what is asked for.  `JobInv` says so of the selection at every stage of the
  search for the fee, and `TxInv` what the inputs and outputs of the transaction
  at hand are worth.  `LovelaceConserved` says that the inputs never fall short of
  the outputs asked for and the fee, whatever fee the search ends with, and that
  they are worth exactly the outputs, change and fee when nothing is over, or enough
  for a change output.
* `FeeSearchEnds`: `Spec => []FeeConverges`.  Not inductive: that the second
  round is the last depends on what the first one found.  The strengthening
  (`FeeInv`) says that in the second round the fee is what its own transaction
  needs.  A raise happens only if the change pays for it and stays above the
  minimum; then asking for that much more selects the same prefix of the list
  (`SelectionStays`), the change output is still there with no larger a coin, the
  fee is no longer to write because it was above 65,536 before
  (`MinFeeB >= 65536`; 155,381 on every network), so the transaction does not
  grow (`RaiseSuffices`).
* `SignedAsBuilt` (`SignedCorrectly`):
  between `build` and the end of the call the builder does not change, and a
  transaction is the outputs asked for with at most one change output (`TxInv`).

* `RetriesPayOnce` (`PaidOnce`, an action property).  `SentInv` says what a payment
  that the node has taken leaves behind: as long as the UTxOs are not listed again
  and the outputs and mints are the same, the builder cannot make a transaction
  that the node takes, because a script input is gone or the first output in the
  order of `select_coins` is, and every transaction takes that one (`HeadInv`).
  The order depends on the script inputs, and `spend_from_script` may come in
  between: it takes an output out of the order, so the head stays the head unless
  it becomes a script input itself (`HeadOfOrderStays`).  Outputs and mints are only
  ever appended, so other payments never become the same again.  Stating it showed
  that the model's node took a transaction without inputs, which no ledger does and
  for which the invariant fails; `Submit` now says so.

**`MultisigPortalProofs`**, from `StoreConstants`, `PortalBounds` and
`PortalArguments`.

* `WalletsLoad` (`ListedLoads`) and `PhrasesStay` (`PhrasesKept`): `StoreInv` adds
  what the command under way has done so far: the metadata is the last file
  written, and a command that writes works in a directory that was not there.
* `CredentialsAlwaysWork` (`CredentialsWork`): `SetupInv` says the same of the
  files and requests on the way to the credentials: the secret is only asked for
  once the bot of this address is claimed.
* `PortalTypeCorrect` (`TypeOK`): every script requires a signature; every file and
  request names a bot, a transaction and amounts that exist; that a change output is
  a u64 although `total_input` and `amount + fee` wrap needs the check that the one
  is not below the other.
* `SignersAlwaysSuffice` (`SignersSuffice`): `SignInv` says of every transaction, in a
  file, under way or at the portal, that the keys of a policy marked
  as in order are, that its witnesses are those of just its signers, and
  that its body is one that `build_tx_cbor` wrote.  What is listed with the same
  signers is the same script, because there is one way only to put different numbers
  in order (`SortUnique`), and such a way exists, so that `Sorted` is defined
  (`SortExists`, by inserting one key after the other); and what goes in comes out
  as long as the sums of the arguments do not wrap (`SensibleBalances`).

Only model-checked: everything about liveness and fairness (`ManagerIsAtomic` is
the safety part of the refinement).  Every invariant and every action property of
a passing run is stated by a theorem.

## 6. Not modelled

Each entry of `components` with status `not_modelled` has its reason, and each
`partly` names what it leaves out.  In short:

* key derivation, addresses, Plutus and CIP-8 encodings are cryptography or data
  without control;
* submission, protocol queries and most of the command line are I/O without state;
* the volatile and chain DB are stubs; the immutable DB reads files that nobody
  else in the repository asks for; nothing writes the trees of the rewards
  tracker, and the reward formulas are arithmetic on 64-bit products without
  control, called by their own tests only;
* of the portal: `create-wallet` and `wallets`; of multisig: `send-tx`, `drain`,
  `delegate`, `witness-tx`, `sign-msg`, which build one transaction or message
  and have no further state;
* within the modelled part: invalid (phase-2 failed) transactions, Byron boundary
  blocks, the rewards and governance trees, statistics and logging, the rollback
  command of the command line, and a snapshot that is saved or restored tree by
  tree with a crash in between: it multiplies the states of `ChainSync` beyond
  what a run explores.
