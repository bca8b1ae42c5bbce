--------------------------- MODULE BlockProcessor ---------------------------
(***************************************************************************)
(* BlockProcessor (src/indexer/block_processor.rs): how a block announced  *)
(* by the node is written to the trees, and how rollback_to undoes blocks. *)
(*                                                                         *)
(* process_block and rollback_to are sequences of awaited storage calls.   *)
(* Each input, output, event and undone item is a step of its own, so a    *)
(* crash can fall between any two of them; the module that runs the        *)
(* processor (ChainSync) decides when blocks arrive and when it dies.      *)
(***************************************************************************)
EXTENDS NetworkStorage

CONSTANTS
    OwnerOf,           \* address -> the wallet it derives from, or Origin
    TrackedAddresses,  \* addresses tracked by themselves
    TrackedTokens,     \* configured tokens, with or without an asset name
    AnyName,           \* a TokenConfig without asset_name
    Undecodable,       \* outputs whose address pallas cannot decode
    EpochLength,       \* 86_400 slots
    BufferSize,        \* rollback_buffer_size, 100 blocks
    EventLimit         \* events rollback_block looks for, 100_000

ASSUME ProcessorConstants ==
    /\ OwnerOf \in [Addresses -> WalletIds \cup {Origin}]
    /\ TrackedAddresses \subseteq Addresses
    /\ TrackedTokens \subseteq [policy : Policies, name : AssetNames \cup {AnyName}]
    /\ Undecodable \subseteq Key
    /\ EpochLength \in Nat \ {0}
    /\ BufferSize \in Nat \ {0}
    /\ EventLimit \in Nat

\* How many inputs and outputs come before each transaction of block b, and
\* in all of b after the last one, as far as EventLimit counts.
ItemCounts(b) ==
    {n \in [1 .. Len(TxsOf[b]) + 1 -> 0 .. EventLimit] :
        /\ n[1] = 0
        /\ \A j \in DOMAIN TxsOf[b] :
              n[j + 1] = n[j] + Len(InputsOf[TxsOf[b][j]]) + Len(OutputsOf[TxsOf[b][j]])}

\* rollback_block does not know how many events a block has and tries "up to a
\* reasonable limit".  The ledger bounds the size of a block far below it: no
\* block has more inputs and outputs than that.
ASSUME LimitIsReasonable == \A b \in Blocks : ItemCounts(b) # {}

VARIABLES
    wallet_ids,       \* wallets of this session
    filter,           \* addresses is_our_address accepts
    current_epoch,
    current_slot,
    rollback_buffer,  \* RollbackInfo of the last blocks, oldest first
    phase,            \* where process_block or rollback_to stands
    info,             \* the RollbackInfo being filled or undone
    txn,              \* the transaction being processed
    pos,              \* the item of the current loop
    event_index,
    addresses_affected,
    epoch_boundary,
    target_slot       \* argument of rollback_to

procVars == <<wallet_ids, filter, current_epoch, current_slot, rollback_buffer,
              phase, info, txn, pos, event_index, addresses_affected,
              epoch_boundary, target_slot>>

Processing == {"tx", "events"}

RollingBack == {"undo", "restore", "unevents", "delete"}

Phases == {"down", "connected", "idle"} \cup Processing \cup RollingBack

SpentInfo == [key : Key, data : Blocks, tx : Txs]

RollbackInfo == [block : Blocks, utxos_created : Seq(Key), utxos_spent : Seq(SpentInfo)]

NoInfo == <<>>

\* process_block or rollback_to returns: its locals go out of scope.
Return ==
    /\ phase' = "idle"
    /\ info' = NoInfo
    /\ txn' = 1
    /\ pos' = 1
    /\ event_index' = 0
    /\ addresses_affected' = {}
    /\ epoch_boundary' = FALSE
    /\ target_slot' = 0

SlotToEpoch(slot) == slot \div EpochLength

\* Without wallets the filter has no payment keys and accepts every output.
FilterOf(W) ==
    IF W = {} THEN Addresses
    ELSE {a \in Addresses : OwnerOf[a] \in W \/ a \in TrackedAddresses}

\* As if the check of the payment key were left out.
AnyAddress(a) == a \in Addresses

is_our_address(a) == a \in filter

-----------------------------------------------------------------------------
(* process_block                                                           *)

\* As if a late block were processed after all.
NeverLate(b) == FALSE

\* The first test of process_block
Late(b) == SlotOf[b] < current_slot

NextPhase(b, i) == IF i > Len(TxsOf[b]) THEN "events" ELSE "tx"

BeginBlock(b) ==
    /\ phase = "idle"
    /\ ~Late(b)
    /\ phase' = NextPhase(b, 1)
    /\ info' = [block |-> b, utxos_created |-> <<>>, utxos_spent |-> <<>>]
    /\ txn' = 1
    /\ pos' = 1
    /\ event_index' = 0
    /\ addresses_affected' = {}
    /\ epoch_boundary' = (SlotToEpoch(SlotOf[b]) > current_epoch)
    /\ current_epoch' = IF epoch_boundary' THEN SlotToEpoch(SlotOf[b]) ELSE current_epoch
    /\ UNCHANGED <<wallet_ids, filter, current_slot, rollback_buffer, target_slot>>
    /\ UNCHANGED <<trees, snapshots>>

\* The bail! at the top of process_block: the block is dropped.
RejectBlock(b) ==
    /\ phase = "idle"
    /\ Late(b)
    /\ UNCHANGED <<trees, snapshots, procVars>>

this_tx == TxsOf[info.block][txn]

SpendUtxo(k) ==
    /\ utxo_tree' = Delete(utxo_tree, {k})
    /\ update_balance(AddressOf(k), SaturatingSub(balance_tree[AddressOf(k)], AmountOf(k)))
    /\ remove_utxo_from_address_index(k)
    /\ spent_utxo_index' = Insert(spent_utxo_index, k, [block |-> info.block, tx |-> this_tx])
    /\ info' = [info EXCEPT !.utxos_spent =
                    Append(@, [key |-> k, data |-> utxo_tree[k], tx |-> this_tx])]
    /\ addresses_affected' = addresses_affected \cup {AddressOf(k)}

ProcessInput ==
    /\ phase = "tx"
    /\ pos <= Len(InputsOf[this_tx])
    /\ LET k == InputsOf[this_tx][pos] IN
       \/ /\ k \in DOMAIN utxo_tree
          /\ SpendUtxo(k)
       \/ /\ k \notin DOMAIN utxo_tree
          /\ UNCHANGED <<utxo_tree, balance_tree, address_utxo_index,
                         spent_utxo_index, info, addresses_affected>>
    /\ pos' = pos + 1
    /\ UNCHANGED <<address_tx_index, policy_tx_index, asset_tx_index, block_events_tree,
                   block_hash_index, chain_tip_tree, snapshots>>
    /\ UNCHANGED <<wallet_ids, filter, current_epoch, current_slot, rollback_buffer,
                   phase, txn, event_index, epoch_boundary, target_slot>>

CreateUtxo(k) ==
    /\ utxo_tree' = Insert(utxo_tree, k, info.block)
    /\ update_balance(AddressOf(k), balance_tree[AddressOf(k)] + AmountOf(k))
    /\ add_utxo_to_address_index(k)
    /\ info' = [info EXCEPT !.utxos_created = Append(@, k)]
    /\ addresses_affected' = addresses_affected \cup {AddressOf(k)}

\* The output the loop of process_transaction has reached.
output == <<this_tx, pos - Len(InputsOf[this_tx])>>

AtOutput == /\ phase = "tx"
            /\ pos > Len(InputsOf[this_tx])
            /\ pos <= Len(InputsOf[this_tx]) + Len(OutputsOf[this_tx])

ProcessOutput ==
    /\ AtOutput
    /\ output \notin Undecodable
    /\ \/ /\ is_our_address(AddressOf(output))
          /\ CreateUtxo(output)
       \/ /\ ~is_our_address(AddressOf(output))
          /\ UNCHANGED <<utxo_tree, balance_tree, address_utxo_index, info,
                         addresses_affected>>
    /\ pos' = pos + 1
    /\ UNCHANGED <<spent_utxo_index, address_tx_index, policy_tx_index, asset_tx_index,
                   block_events_tree, block_hash_index, chain_tip_tree, snapshots>>
    /\ UNCHANGED <<wallet_ids, filter, current_epoch, current_slot, rollback_buffer,
                   phase, txn, event_index, epoch_boundary, target_slot>>

\* output.address() fails: process_block returns the error with what it has
\* already written left in the trees, and run_chain_sync goes on.
FailBlock ==
    /\ AtOutput
    /\ output \in Undecodable
    /\ Return
    /\ UNCHANGED <<trees, snapshots>>
    /\ UNCHANGED <<wallet_ids, filter, current_epoch, current_slot, rollback_buffer>>

\* track_tokens_in_transaction
TrackedPolicies(t) == {x.policy : x \in {y \in TokensOf[t] :
                           \E z \in TrackedTokens : z.policy = y.policy}}

TrackedAssets(t) == {x \in TokensOf[t] :
                        \E z \in TrackedTokens : /\ z.policy = x.policy
                                                 /\ z.name \in {x.name, AnyName}}

EndTx ==
    /\ phase = "tx"
    /\ pos > Len(InputsOf[this_tx]) + Len(OutputsOf[this_tx])
    /\ address_tx_index' = AddTx(address_tx_index, addresses_affected, this_tx)
    /\ policy_tx_index' = AddTx(policy_tx_index, TrackedPolicies(this_tx), this_tx)
    /\ asset_tx_index' = AddTx(asset_tx_index, TrackedAssets(this_tx), this_tx)
    /\ txn' = txn + 1
    /\ pos' = 1
    /\ phase' = NextPhase(info.block, txn')
    /\ UNCHANGED <<utxo_tree, balance_tree, address_utxo_index, spent_utxo_index,
                   block_events_tree, block_hash_index, chain_tip_tree, snapshots>>
    /\ UNCHANGED <<wallet_ids, filter, current_epoch, current_slot, rollback_buffer, info,
                   event_index, addresses_affected, epoch_boundary, target_slot>>

WriteEvent(type, k, b) ==
    /\ block_events_tree' = Insert(block_events_tree, <<SlotOf[info.block], event_index>>,
                                   [type |-> type, key |-> k, block |-> b])
    /\ event_index' = event_index + 1

\* As if the number were counted up for an output that is gone as well.
CountMissing == UNCHANGED block_events_tree /\ event_index' = event_index + 1

\* An output spent in its own block is not in the UTxO tree any more.
SkipMissing == UNCHANGED <<block_events_tree, event_index>>

WriteCreatedEvent ==
    /\ phase = "events"
    /\ pos <= Len(info.utxos_created)
    /\ LET k == info.utxos_created[pos] IN
       \/ /\ k \in DOMAIN utxo_tree
          /\ WriteEvent("CREATED", k, utxo_tree[k])
       \/ /\ k \notin DOMAIN utxo_tree
          /\ SkipMissing
    /\ pos' = pos + 1
    /\ UNCHANGED <<utxo_tree, balance_tree, address_utxo_index, address_tx_index,
                   policy_tx_index, asset_tx_index, spent_utxo_index, block_hash_index,
                   chain_tip_tree, snapshots>>
    /\ UNCHANGED <<wallet_ids, filter, current_epoch, current_slot, rollback_buffer,
                   phase, info, txn, addresses_affected, epoch_boundary, target_slot>>

WriteSpentEvent ==
    /\ phase = "events"
    /\ pos > Len(info.utxos_created)
    /\ pos <= Len(info.utxos_created) + Len(info.utxos_spent)
    /\ WriteEvent("SPENT", info.utxos_spent[pos - Len(info.utxos_created)].key, info.block)
    /\ pos' = pos + 1
    /\ UNCHANGED <<utxo_tree, balance_tree, address_utxo_index, address_tx_index,
                   policy_tx_index, asset_tx_index, spent_utxo_index, block_hash_index,
                   chain_tip_tree, snapshots>>
    /\ UNCHANGED <<wallet_ids, filter, current_epoch, current_slot, rollback_buffer,
                   phase, info, txn, addresses_affected, epoch_boundary, target_slot>>

PushBuffer(x) ==
    LET longer == Append(rollback_buffer, x) IN
    IF Len(longer) > BufferSize THEN Tail(longer) ELSE longer

\* What save_current_tips leaves in the tip tree, given the buffer.
CurrentTips(buffer) ==
    IF buffer = <<>> THEN chain_tip_tree
    ELSE LET last == buffer[Len(buffer)].block IN WithTips(wallet_ids, SlotOf[last], last)

(***************************************************************************)
(* The end of process_block.  Whether a snapshot is due is a question of   *)
(* wall-clock time, and a failed save is only logged, so `snap` may be     *)
(* either; `history` goes into the snapshot.                               *)
(***************************************************************************)
FinishBlock(snap, history) ==
    /\ phase = "events"
    /\ pos > Len(info.utxos_created) + Len(info.utxos_spent)
    /\ block_hash_index' = block_hash_index \cup {info.block}
    /\ current_slot' = SlotOf[info.block]
    /\ rollback_buffer' = PushBuffer(info)
    /\ chain_tip_tree' = IF epoch_boundary THEN CurrentTips(rollback_buffer')
                                           ELSE chain_tip_tree
    /\ snapshots' =
        IF snap
        THEN Cleanup(Insert(snapshots, SlotOf[info.block],
                        SavedTrees(block_hash_index', chain_tip_tree', history)))
        ELSE snapshots
    /\ Return
    /\ UNCHANGED <<utxo_tree, balance_tree, address_utxo_index, address_tx_index,
                   policy_tx_index, asset_tx_index, spent_utxo_index, block_events_tree>>
    /\ UNCHANGED <<wallet_ids, filter, current_epoch>>

-----------------------------------------------------------------------------
(* rollback_to                                                             *)

\* The target is compared with the STORED tip, which process_block only
\* writes at epoch boundaries.
IgnoreRollback(slot) ==
    /\ slot >= TipSlot(chain_tip_tree)
    /\ Return
    /\ UNCHANGED <<trees, snapshots>>
    /\ UNCHANGED <<wallet_ids, filter, current_epoch, current_slot, rollback_buffer>>

BeginRollback(slot) ==
    /\ slot < TipSlot(chain_tip_tree)
    /\ phase' = "undo"
    /\ target_slot' = slot
    /\ UNCHANGED <<trees, snapshots>>
    /\ UNCHANGED <<wallet_ids, filter, current_epoch, current_slot, rollback_buffer, info,
                   txn, pos, event_index, addresses_affected, epoch_boundary>>

LastInfo == rollback_buffer[Len(rollback_buffer)]

MoreToUndo == rollback_buffer # <<>> /\ SlotOf[LastInfo.block] > target_slot

\* As if the block were only looked at with back().
KeepLast == rollback_buffer

\* pop_back
PopLast == SubSeq(rollback_buffer, 1, Len(rollback_buffer) - 1)

\* One turn of the loop, with the first call of rollback_block
UndoBlock ==
    /\ phase = "undo"
    /\ MoreToUndo
    /\ info' = LastInfo
    /\ rollback_buffer' = PopLast
    /\ block_hash_index' = block_hash_index \ {LastInfo.block}
    /\ phase' = "restore"
    /\ pos' = 1
    /\ UNCHANGED <<utxo_tree, balance_tree, address_utxo_index, address_tx_index,
                   policy_tx_index, asset_tx_index, spent_utxo_index, block_events_tree,
                   chain_tip_tree, snapshots>>
    /\ UNCHANGED <<wallet_ids, filter, current_epoch, current_slot, txn, event_index,
                   addresses_affected, epoch_boundary, target_slot>>

RestoreSpent ==
    /\ phase = "restore"
    /\ pos <= Len(info.utxos_spent)
    /\ LET x == info.utxos_spent[pos]
           a == AddressOf(x.key) IN
       /\ utxo_tree' = Insert(utxo_tree, x.key, x.data)
       /\ update_balance(a, balance_tree[a] + AmountOf(x.key))
       /\ add_utxo_to_address_index(x.key)
    /\ pos' = pos + 1
    /\ UNCHANGED <<address_tx_index, policy_tx_index, asset_tx_index, spent_utxo_index,
                   block_events_tree, block_hash_index, chain_tip_tree, snapshots>>
    /\ UNCHANGED <<wallet_ids, filter, current_epoch, current_slot, rollback_buffer, phase,
                   info, txn, event_index, addresses_affected, epoch_boundary, target_slot>>

\* As if the spend records of undone blocks were left alone.
NoRecords == {}

\* spent_utxos_recorded
RecordedSpends == {info.utxos_spent[i].key : i \in DOMAIN info.utxos_spent}

DeleteSpentRecords ==
    /\ phase = "restore"
    /\ pos > Len(info.utxos_spent)
    /\ spent_utxo_index' = Delete(spent_utxo_index, RecordedSpends)
    /\ phase' = "unevents"
    /\ UNCHANGED <<utxo_tree, balance_tree, address_utxo_index, address_tx_index,
                   policy_tx_index, asset_tx_index, block_events_tree, block_hash_index,
                   chain_tip_tree, snapshots>>
    /\ UNCHANGED <<wallet_ids, filter, current_epoch, current_slot, rollback_buffer, info,
                   txn, pos, event_index, addresses_affected, epoch_boundary, target_slot>>

\* As if events were numbered from 1.
EventRunFromOne(slot) ==
    {x \in DOMAIN block_events_tree :
        /\ x[1] = slot
        /\ x[2] \in 1 .. EventLimit
        /\ \A i \in 1 .. x[2] : <<slot, i>> \in DOMAIN block_events_tree}

\* The events of a slot from index 0 up to the first missing one.
EventRun(slot) ==
    {x \in DOMAIN block_events_tree :
        /\ x[1] = slot
        /\ x[2] < EventLimit
        /\ \A i \in 0 .. x[2] : <<slot, i>> \in DOMAIN block_events_tree}

DeleteEvents ==
    /\ phase = "unevents"
    /\ block_events_tree' = Delete(block_events_tree, EventRun(SlotOf[info.block]))
    /\ phase' = "delete"
    /\ pos' = 1
    /\ UNCHANGED <<utxo_tree, balance_tree, address_utxo_index, address_tx_index,
                   policy_tx_index, asset_tx_index, spent_utxo_index, block_hash_index,
                   chain_tip_tree, snapshots>>
    /\ UNCHANGED <<wallet_ids, filter, current_epoch, current_slot, rollback_buffer, info,
                   txn, event_index, addresses_affected, epoch_boundary, target_slot>>

DeleteCreated ==
    /\ phase = "delete"
    /\ pos <= Len(info.utxos_created)
    /\ LET k == info.utxos_created[pos]
           a == AddressOf(k) IN
       \/ /\ k \in DOMAIN utxo_tree
          /\ utxo_tree' = Delete(utxo_tree, {k})
          /\ update_balance(a, SaturatingSub(balance_tree[a], AmountOf(k)))
          /\ remove_utxo_from_address_index(k)
       \/ /\ k \notin DOMAIN utxo_tree
          /\ UNCHANGED <<utxo_tree, balance_tree, address_utxo_index>>
    /\ pos' = pos + 1
    /\ UNCHANGED <<address_tx_index, policy_tx_index, asset_tx_index, spent_utxo_index,
                   block_events_tree, block_hash_index, chain_tip_tree, snapshots>>
    /\ UNCHANGED <<wallet_ids, filter, current_epoch, current_slot, rollback_buffer, phase,
                   info, txn, event_index, addresses_affected, epoch_boundary, target_slot>>

\* Back to the loop of rollback_to.
BlockUndone ==
    /\ phase = "delete"
    /\ pos > Len(info.utxos_created)
    /\ phase' = "undo"
    /\ UNCHANGED <<trees, snapshots>>
    /\ UNCHANGED <<wallet_ids, filter, current_epoch, current_slot, rollback_buffer, info,
                   txn, pos, event_index, addresses_affected, epoch_boundary, target_slot>>

\* As if only the slot of the stored tip were reset.
SlotReset ==
    [x \in DOMAIN chain_tip_tree |-> [chain_tip_tree[x] EXCEPT !.slot = target_slot]]

\* The tips are stored with the target slot and an empty hash.
TipsReset == WithTips(wallet_ids, target_slot, Origin)

EndRollback ==
    /\ phase = "undo"
    /\ ~MoreToUndo
    /\ chain_tip_tree' = TipsReset
    /\ current_slot' = target_slot
    /\ Return
    /\ UNCHANGED <<utxo_tree, balance_tree, address_utxo_index, address_tx_index,
                   policy_tx_index, asset_tx_index, spent_utxo_index, block_events_tree,
                   block_hash_index, snapshots>>
    /\ UNCHANGED <<wallet_ids, filter, current_epoch, rollback_buffer>>

RollbackStep ==
    \/ UndoBlock
    \/ RestoreSpent
    \/ DeleteSpentRecords
    \/ DeleteEvents
    \/ DeleteCreated
    \/ BlockUndone
    \/ EndRollback

BlockStep ==
    \/ ProcessInput
    \/ ProcessOutput
    \/ EndTx
    \/ WriteCreatedEvent
    \/ WriteSpentEvent

-----------------------------------------------------------------------------
\* BlockProcessor::new, add_wallet_id, add_wallet and add_tracked_address for
\* the wallets W, over the tips that the reopened storage holds.
NewProcessor(W, tips) ==
    /\ wallet_ids' = W
    /\ filter' = FilterOf(W)
    /\ current_epoch' = 0
    /\ current_slot' = TipSlot(tips)
    /\ rollback_buffer' = <<>>
    /\ info' = NoInfo
    /\ txn' = 1
    /\ pos' = 1
    /\ event_index' = 0
    /\ addresses_affected' = {}
    /\ epoch_boundary' = FALSE
    /\ target_slot' = 0

ProcessorInit ==
    /\ wallet_ids = {}
    /\ filter = {}
    /\ current_epoch = 0
    /\ current_slot = 0
    /\ rollback_buffer = <<>>
    /\ phase = "down"
    /\ info = NoInfo
    /\ txn = 1
    /\ pos = 1
    /\ event_index = 0
    /\ addresses_affected = {}
    /\ epoch_boundary = FALSE
    /\ target_slot = 0

ProcessorTyped ==
    /\ wallet_ids \subseteq WalletIds
    /\ filter \subseteq Addresses
    /\ current_epoch \in Nat
    /\ current_slot \in Nat
    /\ rollback_buffer \in Seq(RollbackInfo)
    /\ phase \in Phases
    /\ phase \in Processing \cup (RollingBack \ {"undo"}) => info \in RollbackInfo
    /\ phase = "tx" => txn \in DOMAIN TxsOf[info.block]
    /\ pos \in Nat \ {0}
    /\ event_index \in Nat
    /\ addresses_affected \subseteq Addresses
    /\ target_slot \in Nat

=============================================================================
