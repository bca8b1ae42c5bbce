--------------------------- MODULE NetworkStorage ---------------------------
(***************************************************************************)
(* NetworkStorage (src/indexer/mod.rs): the LSM trees of one network, the  *)
(* snapshots that make them durable, and the restore at open.              *)
(*                                                                         *)
(* A tree is a partial function from keys to values, or a set where the    *)
(* stored value is a marker byte or is determined by the key.  Writes to a *)
(* tree live in memory until a snapshot is saved; reopening the storage    *)
(* brings back the snapshot with the highest slot and nothing else.  The   *)
(* balance tree (a MonoidalLsmTree) has no snapshots.                      *)
(*                                                                         *)
(* Saving and restoring are one step each here: a crash inside             *)
(* save_all_snapshots is outside this module.                              *)
(***************************************************************************)
EXTENDS CardanoChain, FiniteSets

CONSTANTS
    WalletIds,   \* account xpubs that may be configured
    KeepLatest   \* cleanup_snapshots(Some(10))

ASSUME KeepLatestType == KeepLatest \in Nat \ {0}

VARIABLES
    utxo_tree,           \* key -> the block that created the output
    balance_tree,        \* address -> lovelace
    address_utxo_index,  \* <<address, key>> pairs
    address_tx_index,    \* <<address, tx>> pairs
    policy_tx_index,     \* <<policy, tx>> pairs
    asset_tx_index,      \* <<asset, tx>> pairs
    spent_utxo_index,    \* key -> the block and transaction that spent it
    block_events_tree,   \* <<slot, event_index>> -> event
    block_hash_index,    \* blocks with metadata
    chain_tip_tree,      \* "current_tip" or wallet id -> tip
    snapshots            \* slot -> the trees as they were saved

trees == <<utxo_tree, balance_tree, address_utxo_index, address_tx_index,
           policy_tx_index, asset_tx_index, spent_utxo_index,
           block_events_tree, block_hash_index, chain_tip_tree>>

NoTree == [x \in {} |-> Origin]

Insert(tree, k, v) == [x \in DOMAIN tree \cup {k} |-> IF x = k THEN v ELSE tree[x]]

Delete(tree, K) == [x \in DOMAIN tree \ K |-> tree[x]]

IsTree(tree, K, V) == DOMAIN tree \subseteq K /\ tree \in [DOMAIN tree -> V]

Spend == [block : Blocks, tx : Txs]

Event == [type : {"CREATED", "SPENT"}, key : Key, block : Blocks]

Tip == [slot : Nat, hash : Point]

History == [at : Point, exact : BOOLEAN, filter : SUBSET Addresses]

TipKeys == WalletIds \cup {"current_tip"}

-----------------------------------------------------------------------------
(* Balances, indexes and tips.                                             *)

\* As if the monoidal tree were used as one: amounts add up on insert.
MergeBalance(a, amount) == balance_tree' = [balance_tree EXCEPT ![a] = @ + amount]

update_balance(a, amount) == balance_tree' = [balance_tree EXCEPT ![a] = amount]

\* As if plain subtraction were used.
PlainSub(x, y) == x - y

SaturatingSub(x, y) == IF x < y THEN 0 ELSE x - y

add_utxo_to_address_index(k) ==
    address_utxo_index' = address_utxo_index \cup {<<AddressOf(k), k>>}

\* As if the entry of the whole address were deleted.
ForgetAddress(k) ==
    address_utxo_index' = {x \in address_utxo_index : x[1] # AddressOf(k)}

remove_utxo_from_address_index(k) ==
    address_utxo_index' = address_utxo_index \ {<<AddressOf(k), k>>}

\* As if each key held one list of transactions, written anew.
ReplaceTx(index, K, t) == {x \in index : x[1] \notin K} \cup (K \X {t})

\* add_tx_to_address_history, add_tx_to_policy_index, add_tx_to_asset_index
AddTx(index, K, t) == index \cup (K \X {t})

\* store_chain_tip followed by store_wallet_tip for every wallet in W
WithTips(W, slot, hash) ==
    [x \in DOMAIN chain_tip_tree \cup W \cup {"current_tip"} |->
        IF x \in W \cup {"current_tip"} THEN [slot |-> slot, hash |-> hash]
                                        ELSE chain_tip_tree[x]]

\* The slot of get_chain_tip(), or 0 when there is none.
TipSlot(tips) == IF "current_tip" \in DOMAIN tips THEN tips["current_tip"].slot ELSE 0

\* get_min_wallet_tip: the tips it may return; no tip at all is Point::Origin.
MinTips(tips, W) ==
    LET asked == IF W = {} THEN {"current_tip"} ELSE W IN
    IF asked \subseteq DOMAIN tips
    THEN {tips[w] : w \in {v \in asked : \A u \in asked : tips[v].slot <= tips[u].slot}}
    ELSE {[slot |-> 0, hash |-> Origin]}

-----------------------------------------------------------------------------
(* Snapshots.                                                              *)

(***************************************************************************)
(* What save_all_snapshots writes for one slot: every tree but the balance *)
(* tree.  The block hash index and the tips are arguments because their    *)
(* callers have just written them.  The last field is history: the point   *)
(* the trees had been brought to, whether they mirrored it, and the filter *)
(* they were written with.                                                 *)
(***************************************************************************)
SavedTrees(hashes, tips, history) ==
    [utxos |-> utxo_tree, address_utxos |-> address_utxo_index,
     address_txs |-> address_tx_index, policy_txs |-> policy_tx_index,
     asset_txs |-> asset_tx_index, spent_utxos |-> spent_utxo_index,
     events |-> block_events_tree, hashes |-> hashes, tips |-> tips,
     history |-> history]

\* cleanup_all_snapshots: the KeepLatest highest slots stay.
Cleanup(snaps) ==
    [s \in {t \in DOMAIN snaps :
                Cardinality({u \in DOMAIN snaps : u > t}) < KeepLatest} |-> snaps[s]]

EmptyTrees ==
    [utxos |-> NoTree, address_utxos |-> {}, address_txs |-> {}, policy_txs |-> {},
     asset_txs |-> {}, spent_utxos |-> NoTree, events |-> NoTree, hashes |-> {},
     tips |-> NoTree, history |-> [at |-> Origin, exact |-> TRUE, filter |-> {}]]

\* open_lsm_tree_with_snapshot: names sort by slot, the highest one is taken.
LatestSnapshots ==
    IF DOMAIN snapshots = {} THEN {EmptyTrees}
    ELSE {snapshots[s] : s \in {t \in DOMAIN snapshots : \A u \in DOMAIN snapshots : u <= t}}

\* NetworkStorage::open on the snapshot S
Load(S) ==
    /\ utxo_tree'          = S.utxos
    /\ balance_tree'       = [a \in Addresses |-> 0]
    /\ address_utxo_index' = S.address_utxos
    /\ address_tx_index'   = S.address_txs
    /\ policy_tx_index'    = S.policy_txs
    /\ asset_tx_index'     = S.asset_txs
    /\ spent_utxo_index'   = S.spent_utxos
    /\ block_events_tree'  = S.events
    /\ block_hash_index'   = S.hashes
    /\ chain_tip_tree'     = S.tips

StorageInit ==
    /\ utxo_tree = NoTree
    /\ balance_tree = [a \in Addresses |-> 0]
    /\ address_utxo_index = {}
    /\ address_tx_index = {}
    /\ policy_tx_index = {}
    /\ asset_tx_index = {}
    /\ spent_utxo_index = NoTree
    /\ block_events_tree = NoTree
    /\ block_hash_index = {}
    /\ chain_tip_tree = NoTree
    /\ snapshots = NoTree

-----------------------------------------------------------------------------
SnapshotTyped(S) ==
    /\ IsTree(S.utxos, Key, Blocks)
    /\ S.address_utxos \subseteq Addresses \X Key
    /\ S.address_txs \subseteq Addresses \X Txs
    /\ S.policy_txs \subseteq Policies \X Txs
    /\ S.asset_txs \subseteq Asset \X Txs
    /\ IsTree(S.spent_utxos, Key, Spend)
    /\ IsTree(S.events, Nat \X Nat, Event)
    /\ S.hashes \subseteq Blocks
    /\ IsTree(S.tips, TipKeys, Tip)
    /\ S.history \in History

TreesTyped ==
    /\ IsTree(utxo_tree, Key, Blocks)
    /\ address_utxo_index \subseteq Addresses \X Key
    /\ address_tx_index \subseteq Addresses \X Txs
    /\ policy_tx_index \subseteq Policies \X Txs
    /\ asset_tx_index \subseteq Asset \X Txs
    /\ IsTree(spent_utxo_index, Key, Spend)
    /\ IsTree(block_events_tree, Nat \X Nat, Event)
    /\ block_hash_index \subseteq Blocks
    /\ IsTree(chain_tip_tree, TipKeys, Tip)
    /\ balance_tree \in [Addresses -> Nat]

SnapshotsTyped ==
    /\ DOMAIN snapshots \subseteq Nat
    /\ \A s \in DOMAIN snapshots : SnapshotTyped(snapshots[s])

=============================================================================
