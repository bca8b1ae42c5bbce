--------------------------- MODULE ChainSyncProofs ---------------------------
(***************************************************************************)
(* Proofs about ChainSync: for every block tree, wallet configuration,     *)
(* epoch length, buffer size and bound.                                    *)
(***************************************************************************)
EXTENDS ChainSync, SequenceTheorems, TLAPS

-----------------------------------------------------------------------------
(* Trees.                                                                  *)

LEMMA InsertTree ==
    ASSUME NEW K, NEW V, NEW tree, IsTree(tree, K, V), NEW k \in K, NEW v \in V
    PROVE  /\ IsTree(Insert(tree, k, v), K, V)
           /\ DOMAIN Insert(tree, k, v) = DOMAIN tree \cup {k}
BY DEF IsTree, Insert

LEMMA DeleteTree ==
    ASSUME NEW K, NEW V, NEW tree, IsTree(tree, K, V), NEW D
    PROVE  /\ IsTree(Delete(tree, D), K, V)
           /\ DOMAIN Delete(tree, D) = DOMAIN tree \ D
BY DEF IsTree, Delete

LEMMA KeyFacts ==
    /\ \A k \in Key : AddressOf(k) \in Addresses /\ AmountOf(k) \in Nat /\ k[1] \in Txs
    /\ \A t \in Txs : \A i \in DOMAIN OutputsOf[t] : <<t, i>> \in Key
<1>1. ASSUME NEW k \in Key
      PROVE  AddressOf(k) \in Addresses /\ AmountOf(k) \in Nat /\ k[1] \in Txs
  <2>1. PICK t \in Txs : \E i \in DOMAIN OutputsOf[t] : k = <<t, i>>
    BY <1>1 DEF Key, OutputKeys
  <2>2. PICK i \in DOMAIN OutputsOf[t] : k = <<t, i>>
    BY <2>1
  <2>3. OutputsOf[t] \in Seq(Output)
    BY ChainTypes
  <2>4. OutputsOf[t][i] \in Output
    BY <2>2, <2>3, ElementOfSeq
  <2>5. OutputAt(k) \in Output
    BY <2>2, <2>4 DEF OutputAt
  <2>6. QED
    BY <2>2, <2>5 DEF AddressOf, AmountOf, Output
<1>2. QED
  BY <1>1 DEF Key, OutputKeys

-----------------------------------------------------------------------------
(* The initial state.                                                      *)

LEMMA InitType == Init => TypeOK
<1>1. StorageInit => TreesTyped /\ SnapshotsTyped
  BY DEF StorageInit, TreesTyped, SnapshotsTyped, NoTree, IsTree
<1>2. ProcessorInit => ProcessorTyped
  BY DEF ProcessorInit, ProcessorTyped, Phases, Processing, RollingBack
<1>3. Init => SessionTyped
  BY DEF Init, SessionTyped, Point
<1>4. Init => FlagsTyped
  BY DEF Init, ProcessorInit, FlagsTyped
<1>5. QED
  BY <1>1, <1>2, <1>3, <1>4 DEF Init, TypeOK

-----------------------------------------------------------------------------
(* process_block.                                                          *)

\* Steps that leave a part of the state alone leave its type alone.
LEMMA KeepTrees == TreesTyped /\ UNCHANGED trees => TreesTyped'
BY DEF TreesTyped, trees

LEMMA KeepSnapshots == SnapshotsTyped /\ UNCHANGED snapshots => SnapshotsTyped'
BY DEF SnapshotsTyped

LEMMA ReturnType ==
    ASSUME ProcessorTyped, Return, wallet_ids' \subseteq WalletIds, filter' \subseteq Addresses,
           current_epoch' \in Nat, current_slot' \in Nat, rollback_buffer' \in Seq(RollbackInfo)
    PROVE  ProcessorTyped'
BY DEF ProcessorTyped, Return, Phases, Processing, RollingBack

LEMMA BeginBlockType ==
    ASSUME TypeOK, NEW b \in Blocks, BeginBlock(b)
    PROVE  TreesTyped' /\ SnapshotsTyped' /\ ProcessorTyped' /\ epoch_boundary' \in BOOLEAN
<1>1. TreesTyped' /\ SnapshotsTyped'
  BY KeepTrees, KeepSnapshots DEF TypeOK, BeginBlock
<1>2. epoch_boundary' \in BOOLEAN
  BY DEF BeginBlock
<1>3. SlotOf[b] \in Nat /\ TxsOf[b] \in Seq(Txs)
  BY ChainTypes
<1>4. SlotToEpoch(SlotOf[b]) \in Nat
  BY <1>3, ProcessorConstants DEF SlotToEpoch
<1>5. info' \in RollbackInfo /\ info'.block = b
  BY DEF BeginBlock, RollbackInfo
<1>6. phase' \in Processing /\ (phase' = "tx" => txn' \in DOMAIN TxsOf[b])
  BY <1>3 DEF BeginBlock, NextPhase, Processing
<1>7. current_epoch' \in Nat
  BY <1>4 DEF BeginBlock, TypeOK, ProcessorTyped
<1>8. ProcessorTyped'
  BY <1>3, <1>5, <1>6, <1>7 DEF BeginBlock, TypeOK, ProcessorTyped, Phases, Processing
<1>9. QED
  BY <1>1, <1>2, <1>8

LEMMA InBlock ==
    ASSUME ProcessorTyped, phase = "tx"
    PROVE  /\ info \in RollbackInfo
           /\ this_tx \in Txs
           /\ Len(InputsOf[this_tx]) \in Nat
           /\ \A i \in DOMAIN InputsOf[this_tx] : InputsOf[this_tx][i] \in Key
           /\ Len(OutputsOf[this_tx]) \in Nat
           /\ DOMAIN OutputsOf[this_tx] = 1 .. Len(OutputsOf[this_tx])
<1>1. info \in RollbackInfo /\ txn \in DOMAIN TxsOf[info.block]
  BY DEF ProcessorTyped, Processing
<1>2. TxsOf[info.block] \in Seq(Txs)
  BY <1>1, ChainTypes DEF RollbackInfo
<1>3. this_tx \in Txs
  BY <1>1, <1>2, ElementOfSeq DEF this_tx
<1>4. InputsOf[this_tx] \in Seq(Key) /\ OutputsOf[this_tx] \in Seq(Output)
  BY <1>3, ChainTypes
<1>5. QED
  BY <1>1, <1>3, <1>4, ElementOfSeq, LenProperties

LEMMA ProcessInputType ==
    ASSUME TreesTyped, ProcessorTyped, ProcessInput
    PROVE  TreesTyped' /\ ProcessorTyped'
<1>. DEFINE k == InputsOf[this_tx][pos]
<1>1. phase = "tx" /\ pos \in Nat \ {0} /\ pos <= Len(InputsOf[this_tx])
  BY DEF ProcessInput, ProcessorTyped
<1>2. info \in RollbackInfo /\ this_tx \in Txs /\ k \in Key
  <2>1. InputsOf[this_tx] \in Seq(Key)
    BY <1>1, InBlock, ChainTypes
  <2>2. pos \in DOMAIN InputsOf[this_tx]
    BY <1>1, <2>1
  <2>3. QED
    BY <1>1, <2>2, InBlock
<1>3. AddressOf(k) \in Addresses /\ AmountOf(k) \in Nat
  BY <1>2, KeyFacts
<1>4. CASE k \notin DOMAIN utxo_tree
  <2>1. UNCHANGED trees /\ UNCHANGED <<info, addresses_affected>>
    BY <1>4 DEF ProcessInput, SpendUtxo, trees
  <2>2. TreesTyped'
    BY <2>1, KeepTrees
  <2>3. ProcessorTyped'
    BY <1>1, <2>1 DEF ProcessInput, ProcessorTyped
  <2>4. QED
    BY <2>2, <2>3
<1>5. CASE k \in DOMAIN utxo_tree
  <2>1. SpendUtxo(k)
    BY <1>5 DEF ProcessInput
  <2>2. utxo_tree[k] \in Blocks /\ info.block \in Blocks
    BY <1>2, <1>5 DEF TreesTyped, IsTree, RollbackInfo
  <2>3. IsTree(utxo_tree, Key, Blocks)'
    BY <2>1, DeleteTree DEF SpendUtxo, TreesTyped
  <2>4. IsTree(spent_utxo_index, Key, Spend)'
    <3>1. [block |-> info.block, tx |-> this_tx] \in Spend
      BY <1>2, <2>2 DEF Spend
    <3>2. QED
      BY <1>2, <2>1, <3>1, InsertTree DEF SpendUtxo, TreesTyped
  <2>5. balance_tree' \in [Addresses -> Nat]
    BY <1>3, <2>1 DEF SpendUtxo, update_balance, SaturatingSub, TreesTyped
  <2>6. TreesTyped'
    BY <2>1, <2>3, <2>4, <2>5 DEF SpendUtxo, TreesTyped, ProcessInput,
           remove_utxo_from_address_index
  <2>7. info' \in RollbackInfo /\ info'.block = info.block
    <3>1. [key |-> k, data |-> utxo_tree[k], tx |-> this_tx]
              \in SpentInfo
      BY <1>2, <2>2 DEF SpentInfo
    <3>2. QED
      BY <1>2, <2>1, <3>1, AppendProperties DEF SpendUtxo, RollbackInfo
  <2>8. ProcessorTyped'
    BY <1>1, <1>3, <2>1, <2>7 DEF ProcessInput, ProcessorTyped, SpendUtxo
  <2>9. QED
    BY <2>6, <2>8
<1>6. QED
  BY <1>4, <1>5

LEMMA Offset ==
    ASSUME NEW n \in Nat, NEW m \in Nat, NEW p \in Nat, p > n, p <= n + m
    PROVE  p - n \in 1 .. m
OBVIOUS

LEMMA OutputIsKey ==
    ASSUME ProcessorTyped, AtOutput
    PROVE  output \in Key /\ AddressOf(output) \in Addresses /\ AmountOf(output) \in Nat
<1>1. pos - Len(InputsOf[this_tx]) \in DOMAIN OutputsOf[this_tx]
  <2>1. /\ phase = "tx"
        /\ pos \in Nat
        /\ pos > Len(InputsOf[this_tx])
        /\ pos <= Len(InputsOf[this_tx]) + Len(OutputsOf[this_tx])
    BY DEF AtOutput, ProcessorTyped
  <2>2. /\ Len(InputsOf[this_tx]) \in Nat
        /\ Len(OutputsOf[this_tx]) \in Nat
        /\ DOMAIN OutputsOf[this_tx] = 1 .. Len(OutputsOf[this_tx])
    BY <2>1, InBlock
  <2>3. QED
    BY <2>1, <2>2, Offset
<1>2. output \in Key
  BY <1>1, InBlock, KeyFacts DEF output, AtOutput
<1>3. QED
  BY <1>2, KeyFacts

LEMMA ProcessOutputType ==
    ASSUME TreesTyped, ProcessorTyped, ProcessOutput
    PROVE  TreesTyped' /\ ProcessorTyped'
<1>1. phase = "tx" /\ info \in RollbackInfo
  BY InBlock DEF ProcessOutput, AtOutput
<1>2. output \in Key /\ AddressOf(output) \in Addresses /\ AmountOf(output) \in Nat
  BY OutputIsKey DEF ProcessOutput
<1>3. CASE ~is_our_address(AddressOf(output))
  <2>1. UNCHANGED trees /\ UNCHANGED <<info, addresses_affected>>
    BY <1>3 DEF ProcessOutput, trees
  <2>2. TreesTyped'
    BY <2>1, KeepTrees
  <2>3. ProcessorTyped'
    BY <1>1, <2>1 DEF ProcessOutput, ProcessorTyped
  <2>4. QED
    BY <2>2, <2>3
<1>4. CASE is_our_address(AddressOf(output))
  <2>1. CreateUtxo(output)
    BY <1>4 DEF ProcessOutput
  <2>2. IsTree(utxo_tree, Key, Blocks)'
    BY <1>1, <1>2, <2>1, InsertTree DEF CreateUtxo, TreesTyped, RollbackInfo
  <2>3. balance_tree' \in [Addresses -> Nat]
    BY <1>2, <2>1 DEF CreateUtxo, update_balance, TreesTyped
  <2>4. TreesTyped'
    BY <1>2, <2>1, <2>2, <2>3 DEF CreateUtxo, TreesTyped, ProcessOutput,
           add_utxo_to_address_index
  <2>5. info' \in RollbackInfo /\ info'.block = info.block
    BY <1>1, <1>2, <2>1, AppendProperties DEF CreateUtxo, RollbackInfo
  <2>6. ProcessorTyped'
    BY <1>1, <1>2, <2>1, <2>5 DEF ProcessOutput, ProcessorTyped, CreateUtxo
  <2>7. QED
    BY <2>4, <2>6
<1>5. QED
  BY <1>3, <1>4

LEMMA FailBlockType ==
    ASSUME TreesTyped, ProcessorTyped, FailBlock
    PROVE  TreesTyped' /\ ProcessorTyped'
<1>1. TreesTyped'
  BY KeepTrees DEF FailBlock
<1>2. ProcessorTyped'
  BY ReturnType DEF FailBlock, ProcessorTyped
<1>3. QED
  BY <1>1, <1>2

LEMMA EndTxType ==
    ASSUME TreesTyped, ProcessorTyped, EndTx
    PROVE  TreesTyped' /\ ProcessorTyped'
<1>1. phase = "tx" /\ info \in RollbackInfo /\ this_tx \in Txs
  BY InBlock DEF EndTx
<1>2. TokensOf[this_tx] \subseteq Asset
  BY <1>1, ChainTypes
<1>3. TrackedPolicies(this_tx) \subseteq Policies /\ TrackedAssets(this_tx) \subseteq Asset
  BY <1>2 DEF TrackedPolicies, TrackedAssets, Asset
<1>4. TreesTyped'
  BY <1>1, <1>3 DEF EndTx, TreesTyped, ProcessorTyped, AddTx
<1>5. txn \in DOMAIN TxsOf[info.block] /\ TxsOf[info.block] \in Seq(Txs)
  BY <1>1, ChainTypes DEF ProcessorTyped, RollbackInfo
<1>6. phase' \in Processing /\ (phase' = "tx" => txn' \in DOMAIN TxsOf[info.block])
  BY <1>5 DEF EndTx, NextPhase, Processing
<1>7. ProcessorTyped'
  BY <1>1, <1>6 DEF EndTx, ProcessorTyped, Phases, Processing
<1>8. QED
  BY <1>4, <1>7

LEMMA WriteEventType ==
    ASSUME TreesTyped, ProcessorTyped, phase = "events",
           NEW type \in {"CREATED", "SPENT"}, NEW k \in Key, NEW b \in Blocks,
           WriteEvent(type, k, b)
    PROVE  IsTree(block_events_tree, Nat \X Nat, Event)' /\ event_index' \in Nat
<1>1. info.block \in Blocks
  BY DEF ProcessorTyped, Processing, RollbackInfo
<1>2. <<SlotOf[info.block], event_index>> \in Nat \X Nat
  BY <1>1, ChainTypes DEF ProcessorTyped
<1>3. [type |-> type, key |-> k, block |-> b] \in Event
  BY DEF Event
<1>4. IsTree(Insert(block_events_tree, <<SlotOf[info.block], event_index>>,
                    [type |-> type, key |-> k, block |-> b]), Nat \X Nat, Event)
  <2>1. IsTree(block_events_tree, Nat \X Nat, Event)
    BY DEF TreesTyped
  <2>2. QED
    BY <1>2, <1>3, <2>1, InsertTree
<1>5. QED
  BY <1>4 DEF WriteEvent, ProcessorTyped

\* The sequences of a RollbackInfo and their items.
LEMMA InfoItems ==
    ASSUME NEW x \in RollbackInfo
    PROVE  /\ x.block \in Blocks
           /\ SlotOf[x.block] \in Nat
           /\ Len(x.utxos_created) \in Nat
           /\ DOMAIN x.utxos_created = 1 .. Len(x.utxos_created)
           /\ \A i \in DOMAIN x.utxos_created : x.utxos_created[i] \in Key
           /\ Len(x.utxos_spent) \in Nat
           /\ DOMAIN x.utxos_spent = 1 .. Len(x.utxos_spent)
           /\ \A i \in DOMAIN x.utxos_spent :
                 x.utxos_spent[i].key \in Key /\ x.utxos_spent[i].data \in Blocks
<1>1. /\ x.block \in Blocks
      /\ x.utxos_created \in Seq(Key)
      /\ x.utxos_spent \in Seq(SpentInfo)
  BY DEF RollbackInfo
<1>2. SlotOf[x.block] \in Nat
  BY <1>1, ChainTypes
<1>3. \A i \in DOMAIN x.utxos_spent : x.utxos_spent[i] \in SpentInfo
  BY <1>1, ElementOfSeq
<1>4. \A i \in DOMAIN x.utxos_spent :
         x.utxos_spent[i].key \in Key /\ x.utxos_spent[i].data \in Blocks
  <2>1. \A y \in SpentInfo : y.key \in Key /\ y.data \in Blocks
    BY DEF SpentInfo
  <2>2. TAKE i \in DOMAIN x.utxos_spent
  <2>3. x.utxos_spent[i] \in SpentInfo
    BY <1>3
  <2>4. QED
    BY <2>1, <2>3, Zenon
<1>5. \A i \in DOMAIN x.utxos_created : x.utxos_created[i] \in Key
  BY <1>1, ElementOfSeq
<1>6. QED
  BY <1>1, <1>2, <1>4, <1>5, LenProperties

LEMMA WriteCreatedEventType ==
    ASSUME TreesTyped, ProcessorTyped, WriteCreatedEvent
    PROVE  TreesTyped' /\ ProcessorTyped'
<1>. DEFINE k == info.utxos_created[pos]
<1>1. phase = "events" /\ info \in RollbackInfo /\ pos \in Nat \ {0}
  BY DEF WriteCreatedEvent, ProcessorTyped, Processing
<1>2. k \in Key
  BY <1>1, InfoItems DEF WriteCreatedEvent
<1>3. IsTree(block_events_tree, Nat \X Nat, Event)' /\ event_index' \in Nat
  <2>1. CASE k \notin DOMAIN utxo_tree
    BY <2>1 DEF WriteCreatedEvent, WriteEvent, TreesTyped, ProcessorTyped,
           SkipMissing
  <2>2. CASE k \in DOMAIN utxo_tree
    <3>1. utxo_tree[k] \in Blocks /\ WriteEvent("CREATED", k, utxo_tree[k])
      BY <2>2 DEF WriteCreatedEvent, TreesTyped, IsTree
    <3>2. QED
      BY <1>1, <1>2, <3>1, WriteEventType
  <2>3. QED
    BY <2>1, <2>2
<1>4. TreesTyped'
  BY <1>3 DEF WriteCreatedEvent, TreesTyped
<1>5. ProcessorTyped'
  BY <1>1, <1>3 DEF WriteCreatedEvent, ProcessorTyped
<1>6. QED
  BY <1>4, <1>5

LEMMA WriteSpentEventType ==
    ASSUME TreesTyped, ProcessorTyped, WriteSpentEvent
    PROVE  TreesTyped' /\ ProcessorTyped'
<1>. DEFINE k == info.utxos_spent[pos - Len(info.utxos_created)].key
<1>1. phase = "events" /\ info \in RollbackInfo /\ pos \in Nat \ {0}
  BY DEF WriteSpentEvent, ProcessorTyped, Processing
<1>2. k \in Key /\ info.block \in Blocks
  <2>1. pos - Len(info.utxos_created) \in 1 .. Len(info.utxos_spent)
    BY <1>1, InfoItems, Offset DEF WriteSpentEvent
  <2>2. QED
    BY <1>1, <2>1, InfoItems
<1>3. WriteEvent("SPENT", k, info.block)
  BY DEF WriteSpentEvent
<1>4. IsTree(block_events_tree, Nat \X Nat, Event)' /\ event_index' \in Nat
  BY <1>1, <1>2, <1>3, WriteEventType
<1>5. TreesTyped'
  BY <1>4 DEF WriteSpentEvent, TreesTyped
<1>6. ProcessorTyped'
  BY <1>1, <1>4 DEF WriteSpentEvent, ProcessorTyped
<1>7. QED
  BY <1>5, <1>6

LEMMA PushBufferType ==
    ASSUME rollback_buffer \in Seq(RollbackInfo), NEW x \in RollbackInfo
    PROVE  PushBuffer(x) \in Seq(RollbackInfo)
<1>. DEFINE longer == Append(rollback_buffer, x)
<1>1. longer \in Seq(RollbackInfo) /\ longer # <<>>
  BY AppendProperties
<1>2. Tail(longer) \in Seq(RollbackInfo)
  BY <1>1, HeadTailProperties
<1>3. QED
  BY <1>1, <1>2 DEF PushBuffer

LEMMA WithTipsType ==
    ASSUME IsTree(chain_tip_tree, TipKeys, Tip), NEW W \in SUBSET WalletIds,
           NEW slot \in Nat, NEW hash \in Point
    PROVE  IsTree(WithTips(W, slot, hash), TipKeys, Tip)
<1>1. [slot |-> slot, hash |-> hash] \in Tip
  BY DEF Tip
<1>2. QED
  BY <1>1 DEF IsTree, WithTips, TipKeys

LEMMA CurrentTipsType ==
    ASSUME TreesTyped, ProcessorTyped, NEW buffer \in Seq(RollbackInfo)
    PROVE  IsTree(CurrentTips(buffer), TipKeys, Tip)
<1>1. IsTree(chain_tip_tree, TipKeys, Tip) /\ wallet_ids \subseteq WalletIds
  BY DEF TreesTyped, ProcessorTyped
<1>2. ASSUME buffer # <<>>
      PROVE  /\ buffer[Len(buffer)].block \in Blocks
             /\ SlotOf[buffer[Len(buffer)].block] \in Nat
  <2>1. Len(buffer) \in DOMAIN buffer
    BY <1>2
  <2>2. buffer[Len(buffer)] \in RollbackInfo
    BY <2>1, ElementOfSeq
  <2>3. QED
    BY <2>2, InfoItems
<1>3. QED
  BY <1>1, <1>2, WithTipsType DEF CurrentTips, Point

\* A snapshot of well-typed trees is well typed.
LEMMA SavedTreesType ==
    ASSUME TreesTyped, NEW hashes \in SUBSET Blocks, NEW tips, IsTree(tips, TipKeys, Tip),
           NEW history \in History
    PROVE  SnapshotTyped(SavedTrees(hashes, tips, history))
BY DEF TreesTyped, SnapshotTyped, SavedTrees

LEMMA AddSnapshotType ==
    ASSUME SnapshotsTyped, NEW slot \in Nat, NEW S, SnapshotTyped(S)
    PROVE  LET new == Insert(snapshots, slot, S) IN
           /\ DOMAIN new \subseteq Nat /\ \A s \in DOMAIN new : SnapshotTyped(new[s])
           /\ DOMAIN Cleanup(new) \subseteq DOMAIN new
           /\ \A s \in DOMAIN Cleanup(new) : Cleanup(new)[s] = new[s]
BY DEF SnapshotsTyped, Insert, Cleanup

LEMMA HistoryNowType ==
    ASSUME TypeOK PROVE HistoryNow \in History
BY DEF TypeOK, ProcessorTyped, SessionTyped, FlagsTyped, HistoryNow, History

LEMMA FinishBlockType ==
    ASSUME TreesTyped, SnapshotsTyped, ProcessorTyped, NEW snap \in BOOLEAN,
           NEW history \in History, FinishBlock(snap, history)
    PROVE  TreesTyped' /\ SnapshotsTyped' /\ ProcessorTyped'
<1>1. phase = "events" /\ info \in RollbackInfo
  BY DEF FinishBlock, ProcessorTyped, Processing
<1>2. info.block \in Blocks /\ SlotOf[info.block] \in Nat
  BY <1>1, InfoItems
<1>3. rollback_buffer' \in Seq(RollbackInfo)
  BY <1>1, PushBufferType DEF FinishBlock, ProcessorTyped
<1>4. IsTree(chain_tip_tree, TipKeys, Tip)'
  <2>1. IsTree(CurrentTips(rollback_buffer'), TipKeys, Tip)
    BY <1>3, CurrentTipsType
  <2>2. IsTree(chain_tip_tree, TipKeys, Tip)
    BY DEF TreesTyped
  <2>3. chain_tip_tree' = CurrentTips(rollback_buffer') \/ chain_tip_tree' = chain_tip_tree
    BY DEF FinishBlock
  <2>4. QED
    BY <2>1, <2>2, <2>3
<1>5. block_hash_index' \subseteq Blocks
  BY <1>2 DEF FinishBlock, TreesTyped
<1>6. TreesTyped'
  BY <1>4, <1>5 DEF FinishBlock, TreesTyped
<1>7. SnapshotsTyped'
  <2>. DEFINE S == SavedTrees(block_hash_index', chain_tip_tree', history)
              new == Insert(snapshots, SlotOf[info.block], S)
  <2>1. SnapshotTyped(S)
    BY <1>4, <1>5, SavedTreesType
  <2>2. snapshots' = Cleanup(new) \/ snapshots' = snapshots
    BY DEF FinishBlock
  <2>3. CASE snapshots' = Cleanup(new)
    BY <1>2, <2>1, <2>3, AddSnapshotType DEF SnapshotsTyped
  <2>4. CASE snapshots' = snapshots
    BY <2>4, KeepSnapshots
  <2>5. QED
    BY <2>2, <2>3, <2>4
<1>8. ProcessorTyped'
  BY <1>2, <1>3, ReturnType DEF FinishBlock, ProcessorTyped
<1>9. QED
  BY <1>6, <1>7, <1>8

-----------------------------------------------------------------------------
(* rollback_to.                                                            *)

LEMMA LastInfoType ==
    ASSUME rollback_buffer \in Seq(RollbackInfo), rollback_buffer # <<>>
    PROVE  /\ LastInfo \in RollbackInfo
           /\ SubSeq(rollback_buffer, 1, Len(rollback_buffer) - 1) \in Seq(RollbackInfo)
<1>1. Len(rollback_buffer) \in DOMAIN rollback_buffer
  OBVIOUS
<1>2. LastInfo \in RollbackInfo
  BY <1>1, ElementOfSeq DEF LastInfo
<1>3. Len(rollback_buffer) - 1 <= Len(rollback_buffer)
  BY LenProperties
<1>4. SubSeq(rollback_buffer, 1, Len(rollback_buffer) - 1) \in Seq(RollbackInfo)
  OBVIOUS
<1>5. QED
  BY <1>2, <1>4

LEMMA IgnoreRollbackType ==
    ASSUME TypeOK, NEW slot, IgnoreRollback(slot)
    PROVE  TreesTyped' /\ SnapshotsTyped' /\ ProcessorTyped'
<1>1. TreesTyped' /\ SnapshotsTyped'
  BY KeepTrees, KeepSnapshots DEF TypeOK, IgnoreRollback
<1>2. ProcessorTyped'
  BY ReturnType DEF TypeOK, IgnoreRollback, ProcessorTyped
<1>3. QED
  BY <1>1, <1>2

LEMMA BeginRollbackType ==
    ASSUME TypeOK, NEW slot \in Nat, BeginRollback(slot)
    PROVE  TreesTyped' /\ SnapshotsTyped' /\ ProcessorTyped'
<1>1. TreesTyped' /\ SnapshotsTyped'
  BY KeepTrees, KeepSnapshots DEF TypeOK, BeginRollback
<1>2. ProcessorTyped'
  BY DEF TypeOK, BeginRollback, ProcessorTyped, Phases, Processing, RollingBack
<1>3. QED
  BY <1>1, <1>2

LEMMA UndoBlockType ==
    ASSUME TreesTyped, ProcessorTyped, UndoBlock
    PROVE  TreesTyped' /\ ProcessorTyped'
<1>1. LastInfo \in RollbackInfo /\ rollback_buffer' \in Seq(RollbackInfo)
  BY LastInfoType DEF ProcessorTyped, UndoBlock, MoreToUndo, PopLast
<1>2. TreesTyped'
  BY DEF TreesTyped, UndoBlock
<1>3. ProcessorTyped'
  BY <1>1 DEF ProcessorTyped, UndoBlock, Phases, Processing, RollingBack
<1>4. QED
  BY <1>2, <1>3

LEMMA RestoreSpentType ==
    ASSUME TreesTyped, ProcessorTyped, RestoreSpent
    PROVE  TreesTyped' /\ ProcessorTyped'
<1>. DEFINE x == info.utxos_spent[pos]
            a == AddressOf(x.key)
<1>1. phase = "restore" /\ info \in RollbackInfo /\ pos \in Nat \ {0}
  BY DEF RestoreSpent, ProcessorTyped, Processing, RollingBack
<1>2. x.key \in Key /\ x.data \in Blocks
  BY <1>1, InfoItems DEF RestoreSpent
<1>3. a \in Addresses /\ AmountOf(x.key) \in Nat
  BY <1>2, KeyFacts
<1>4. /\ utxo_tree' = Insert(utxo_tree, x.key, x.data)
      /\ balance_tree' = [balance_tree EXCEPT ![a] = balance_tree[a] + AmountOf(x.key)]
      /\ address_utxo_index' = address_utxo_index \cup {<<a, x.key>>}
  BY DEF RestoreSpent, update_balance, add_utxo_to_address_index
<1>5. IsTree(utxo_tree, Key, Blocks)'
  BY <1>2, <1>4, InsertTree DEF TreesTyped
<1>6. balance_tree' \in [Addresses -> Nat]
  BY <1>3, <1>4 DEF TreesTyped
<1>7. TreesTyped'
  BY <1>2, <1>3, <1>4, <1>5, <1>6 DEF TreesTyped, RestoreSpent
<1>8. ProcessorTyped'
  BY <1>1 DEF ProcessorTyped, RestoreSpent
<1>9. QED
  BY <1>7, <1>8

LEMMA DeleteSpentRecordsType ==
    ASSUME TreesTyped, ProcessorTyped, DeleteSpentRecords
    PROVE  TreesTyped' /\ ProcessorTyped'
<1>1. IsTree(spent_utxo_index, Key, Spend)'
  BY DeleteTree DEF TreesTyped, DeleteSpentRecords
<1>2. TreesTyped'
  BY <1>1 DEF TreesTyped, DeleteSpentRecords
<1>3. ProcessorTyped'
  BY DEF ProcessorTyped, DeleteSpentRecords, Phases, Processing, RollingBack
<1>4. QED
  BY <1>2, <1>3

LEMMA DeleteEventsType ==
    ASSUME TreesTyped, ProcessorTyped, DeleteEvents
    PROVE  TreesTyped' /\ ProcessorTyped'
<1>1. IsTree(block_events_tree, Nat \X Nat, Event)'
  BY DeleteTree DEF TreesTyped, DeleteEvents
<1>2. TreesTyped'
  BY <1>1 DEF TreesTyped, DeleteEvents
<1>3. ProcessorTyped'
  BY DEF ProcessorTyped, DeleteEvents, Phases, Processing, RollingBack
<1>4. QED
  BY <1>2, <1>3

LEMMA DeleteCreatedType ==
    ASSUME TreesTyped, ProcessorTyped, DeleteCreated
    PROVE  TreesTyped' /\ ProcessorTyped'
<1>. DEFINE k == info.utxos_created[pos]
            a == AddressOf(k)
<1>1. phase = "delete" /\ info \in RollbackInfo /\ pos \in Nat \ {0}
  BY DEF DeleteCreated, ProcessorTyped, Processing, RollingBack
<1>2. k \in Key
  BY <1>1, InfoItems DEF DeleteCreated
<1>3. a \in Addresses /\ AmountOf(k) \in Nat
  BY <1>2, KeyFacts
<1>4. CASE k \notin DOMAIN utxo_tree
  <2>1. UNCHANGED trees
    BY <1>4 DEF DeleteCreated, trees
  <2>2. QED
    BY <1>1, <2>1, KeepTrees DEF ProcessorTyped, DeleteCreated
<1>5. CASE k \in DOMAIN utxo_tree
  <2>1. /\ utxo_tree' = Delete(utxo_tree, {k})
        /\ balance_tree' = [balance_tree EXCEPT ![a] = SaturatingSub(balance_tree[a], AmountOf(k))]
        /\ address_utxo_index' = address_utxo_index \ {<<a, k>>}
    BY <1>5 DEF DeleteCreated, update_balance, remove_utxo_from_address_index
  <2>2. IsTree(utxo_tree, Key, Blocks)'
    BY <2>1, DeleteTree DEF TreesTyped
  <2>3. balance_tree' \in [Addresses -> Nat]
    BY <1>3, <2>1 DEF TreesTyped, SaturatingSub
  <2>4. TreesTyped'
    BY <2>1, <2>2, <2>3 DEF TreesTyped, DeleteCreated
  <2>5. ProcessorTyped'
    BY <1>1 DEF ProcessorTyped, DeleteCreated
  <2>6. QED
    BY <2>4, <2>5
<1>6. QED
  BY <1>4, <1>5

LEMMA BlockUndoneType ==
    ASSUME TreesTyped, ProcessorTyped, BlockUndone
    PROVE  TreesTyped' /\ ProcessorTyped'
<1>1. TreesTyped'
  BY KeepTrees DEF BlockUndone
<1>2. ProcessorTyped'
  BY DEF ProcessorTyped, BlockUndone, Phases, Processing, RollingBack
<1>3. QED
  BY <1>1, <1>2

LEMMA EndRollbackType ==
    ASSUME TreesTyped, ProcessorTyped, EndRollback
    PROVE  TreesTyped' /\ ProcessorTyped'
<1>1. IsTree(chain_tip_tree, TipKeys, Tip)'
  BY WithTipsType DEF TreesTyped, ProcessorTyped, EndRollback, Point, TipsReset
<1>2. TreesTyped'
  BY <1>1 DEF TreesTyped, EndRollback
<1>3. ProcessorTyped'
  BY ReturnType DEF ProcessorTyped, EndRollback
<1>4. QED
  BY <1>2, <1>3

-----------------------------------------------------------------------------
(* Sessions.                                                               *)

LEMMA EmptyTreesType == SnapshotTyped(EmptyTrees)
BY DEF SnapshotTyped, EmptyTrees, NoTree, IsTree, History, Point

LEMMA LoadType ==
    ASSUME NEW S, SnapshotTyped(S), Load(S)
    PROVE  TreesTyped'
BY DEF SnapshotTyped, Load, TreesTyped

LEMMA TipSlotType ==
    ASSUME NEW tips, IsTree(tips, TipKeys, Tip)
    PROVE  TipSlot(tips) \in Nat
BY DEF TipSlot, IsTree, Tip

LEMMA MinTipsType ==
    ASSUME NEW tips, IsTree(tips, TipKeys, Tip), NEW W \in SUBSET WalletIds,
           NEW tip \in MinTips(tips, W)
    PROVE  tip \in Tip
BY DEF MinTips, IsTree, Tip, Point

LEMMA NewProcessorType ==
    ASSUME NEW W \in SUBSET WalletIds, NEW tips, IsTree(tips, TipKeys, Tip),
           NewProcessor(W, tips), phase' \in {"connected", "down"}
    PROVE  ProcessorTyped' /\ epoch_boundary' \in BOOLEAN
<1>1. filter' \subseteq Addresses
  BY DEF NewProcessor, FilterOf
<1>2. current_slot' \in Nat
  BY TipSlotType DEF NewProcessor
<1>3. rollback_buffer' \in Seq(RollbackInfo)
  BY DEF NewProcessor
<1>4. epoch_boundary' \in BOOLEAN
  BY DEF NewProcessor
<1>5. QED
  BY <1>1, <1>2, <1>3, <1>4
     DEF NewProcessor, ProcessorTyped, Phases, Processing, RollingBack

LEMMA StartType ==
    ASSUME TypeOK, NEW W \in WalletSets, Start(W)
    PROVE  TypeOK'
<1>. PICK S \in LatestSnapshots :
        /\ Load(S)
        /\ NewProcessor(W, S.tips)
        /\ \E tip \in MinTips(S.tips, W) : cursor' \in Intersections(tip)
        /\ exact' = ( /\ S.history.exact
                      /\ S.history.at = cursor'
                      /\ S.history.at = Origin \/ S.history.filter = filter')
        /\ balanced' = (DOMAIN S.utxos = {})
  BY DEF Start
<1>1. SnapshotTyped(S)
  BY EmptyTreesType DEF LatestSnapshots, TypeOK, SnapshotsTyped
<1>2. W \in SUBSET WalletIds
  BY ChainSyncConstants
<1>3. IsTree(S.tips, TipKeys, Tip)
  BY <1>1 DEF SnapshotTyped
<1>4. TreesTyped'
  BY <1>1, LoadType
<1>5. SnapshotsTyped'
  BY KeepSnapshots DEF TypeOK, Start
<1>6. ProcessorTyped' /\ epoch_boundary' \in BOOLEAN
  BY <1>2, <1>3, NewProcessorType DEF Start
<1>7. cursor' \in Point
  <2>1. PICK tip \in MinTips(S.tips, W) : cursor' \in Intersections(tip)
    OBVIOUS
  <2>2. tip \in Tip
    BY <1>2, <1>3, MinTipsType
  <2>3. QED
    BY <2>1, <2>2 DEF Intersections, Tip, Point
<1>8. SessionTyped'
  BY <1>7 DEF TypeOK, SessionTyped, Start
<1>9. exact' \in BOOLEAN /\ balanced' \in BOOLEAN
  OBVIOUS
<1>10. QED
  BY <1>4, <1>5, <1>6, <1>8, <1>9 DEF TypeOK, FlagsTyped

LEMMA RollForwardType ==
    ASSUME TypeOK, NEW b \in Blocks, RollForward(b)
    PROVE  TypeOK'
<1>1. SessionTyped'
  BY DEF TypeOK, SessionTyped, RollForward, Point
<1>2. exact' \in BOOLEAN /\ balanced' \in BOOLEAN
  BY DEF TypeOK, FlagsTyped, RollForward
<1>3. CASE BeginBlock(b)
  BY <1>1, <1>2, <1>3, BeginBlockType DEF TypeOK, FlagsTyped
<1>4. CASE RejectBlock(b)
  <2>1. TreesTyped' /\ SnapshotsTyped'
    BY <1>4, KeepTrees, KeepSnapshots DEF TypeOK, RejectBlock
  <2>2. ProcessorTyped'
    BY <1>4 DEF TypeOK, RejectBlock, procVars, ProcessorTyped
  <2>3. epoch_boundary' \in BOOLEAN
    BY <1>4 DEF TypeOK, RejectBlock, procVars, FlagsTyped
  <2>4. QED
    BY <1>1, <1>2, <2>1, <2>2, <2>3 DEF TypeOK, FlagsTyped
<1>5. QED
  BY <1>3, <1>4 DEF RollForward

LEMMA RollBackwardType ==
    ASSUME TypeOK, NEW p \in Point, RollBackward(p), msgs' \in Nat
    PROVE  TypeOK'
<1>1. PointSlot(p) \in Nat
  BY ChainTypes DEF PointSlot, Point
<1>2. SessionTyped'
  BY DEF TypeOK, SessionTyped, RollBackward
<1>3. exact' \in BOOLEAN /\ balanced' \in BOOLEAN
  BY DEF TypeOK, FlagsTyped, RollBackward
<1>4. epoch_boundary' \in BOOLEAN
  BY DEF TypeOK, FlagsTyped, RollBackward, IgnoreRollback, BeginRollback, Return
<1>5. TreesTyped' /\ SnapshotsTyped' /\ ProcessorTyped'
  BY <1>1, IgnoreRollbackType, BeginRollbackType DEF RollBackward
<1>6. QED
  BY <1>2, <1>3, <1>4, <1>5 DEF TypeOK, FlagsTyped

LEMMA StepType ==
    ASSUME TypeOK, Step
    PROVE  TypeOK'
<1>1. SessionTyped' /\ exact' \in BOOLEAN /\ balanced' \in BOOLEAN
  BY DEF TypeOK, SessionTyped, FlagsTyped, Step, syncVars
<1>2. SnapshotsTyped'
  BY DEF TypeOK, SnapshotsTyped, Step, BlockStep, RollbackStep, ProcessInput, ProcessOutput,
         EndTx, WriteCreatedEvent, WriteSpentEvent, UndoBlock, RestoreSpent,
         DeleteSpentRecords, DeleteEvents, DeleteCreated, BlockUndone, EndRollback
<1>3. epoch_boundary' \in BOOLEAN
  BY DEF TypeOK, FlagsTyped, Step, BlockStep, RollbackStep, ProcessInput, ProcessOutput,
         EndTx, WriteCreatedEvent, WriteSpentEvent, UndoBlock, RestoreSpent,
         DeleteSpentRecords, DeleteEvents, DeleteCreated, BlockUndone, EndRollback, Return
<1>4. TreesTyped' /\ ProcessorTyped'
  <2>1. CASE BlockStep
    BY <2>1, ProcessInputType, ProcessOutputType, EndTxType, WriteCreatedEventType,
       WriteSpentEventType DEF TypeOK, BlockStep
  <2>2. CASE RollbackStep
    BY <2>2, UndoBlockType, RestoreSpentType, DeleteSpentRecordsType, DeleteEventsType,
       DeleteCreatedType, BlockUndoneType, EndRollbackType DEF TypeOK, RollbackStep
  <2>3. QED
    BY <2>1, <2>2 DEF Step
<1>5. QED
  BY <1>1, <1>2, <1>3, <1>4 DEF TypeOK, FlagsTyped

LEMMA FailType ==
    ASSUME TypeOK, Fail
    PROVE  TypeOK'
<1>1. TreesTyped' /\ ProcessorTyped'
  BY FailBlockType DEF TypeOK, Fail
<1>2. SnapshotsTyped'
  BY KeepSnapshots DEF TypeOK, Fail, FailBlock
<1>3. SessionTyped'
  BY DEF TypeOK, SessionTyped, Fail
<1>4. FlagsTyped'
  BY DEF TypeOK, FlagsTyped, Fail, FailBlock, Return
<1>5. QED
  BY <1>1, <1>2, <1>3, <1>4 DEF TypeOK

LEMMA FinishType ==
    ASSUME TypeOK, NEW snap \in BOOLEAN, Finish(snap)
    PROVE  TypeOK'
<1>1. TreesTyped' /\ SnapshotsTyped' /\ ProcessorTyped'
  BY HistoryNowType, FinishBlockType DEF TypeOK, Finish
<1>2. SessionTyped'
  BY DEF TypeOK, SessionTyped, Finish
<1>3. FlagsTyped'
  BY DEF TypeOK, FlagsTyped, Finish, FinishBlock, Return
<1>4. QED
  BY <1>1, <1>2, <1>3 DEF TypeOK

LEMMA ExitType ==
    ASSUME TypeOK, Exit
    PROVE  TreesTyped' /\ ProcessorTyped' /\ FlagsTyped'
           /\ cursor' \in Point /\ msgs' \in Nat /\ stops' \in Nat
<1>1. TreesTyped'
  BY EmptyTreesType, LoadType DEF Exit
<1>2. IsTree(NoTree, TipKeys, Tip)
  BY DEF NoTree, IsTree
<1>3. ProcessorTyped' /\ epoch_boundary' \in BOOLEAN
  BY <1>2, NewProcessorType DEF Exit
<1>4. exact' \in BOOLEAN /\ balanced' \in BOOLEAN
  BY DEF Exit
<1>5. cursor' \in Point /\ msgs' \in Nat /\ stops' \in Nat
  BY DEF TypeOK, SessionTyped, Exit, Point
<1>6. QED
  BY <1>1, <1>3, <1>4, <1>5 DEF FlagsTyped

LEMMA ShutdownType ==
    ASSUME TypeOK, NEW saved \in BOOLEAN, Shutdown(saved)
    PROVE  TypeOK'
<1>. DEFINE S == SavedTrees(block_hash_index, CurrentTips(rollback_buffer), HistoryNow)
<1>1. SnapshotTyped(S)
  <2>1. rollback_buffer \in Seq(RollbackInfo)
    BY DEF TypeOK, ProcessorTyped
  <2>2. IsTree(CurrentTips(rollback_buffer), TipKeys, Tip)
    BY <2>1, CurrentTipsType DEF TypeOK
  <2>3. block_hash_index \subseteq Blocks
    BY DEF TypeOK, TreesTyped
  <2>4. QED
    BY <2>2, <2>3, HistoryNowType, SavedTreesType DEF TypeOK
<1>2. current_slot \in Nat
  BY DEF TypeOK, ProcessorTyped
<1>3. snapshots' = Insert(snapshots, current_slot, S) \/ snapshots' = snapshots
  BY DEF Shutdown
<1>4. SnapshotsTyped'
  <2>1. CASE snapshots' = Insert(snapshots, current_slot, S)
    BY <1>1, <1>2, <2>1, AddSnapshotType DEF TypeOK, SnapshotsTyped
  <2>2. CASE snapshots' = snapshots
    BY <2>2, KeepSnapshots DEF TypeOK
  <2>3. QED
    BY <1>3, <2>1, <2>2
<1>5. QED
  BY <1>4, ExitType DEF TypeOK, SessionTyped, Shutdown

LEMMA CrashType ==
    ASSUME TypeOK, Crash
    PROVE  TypeOK'
<1>1. SnapshotsTyped'
  BY KeepSnapshots DEF TypeOK, Crash
<1>2. QED
  BY <1>1, ExitType DEF TypeOK, SessionTyped, Crash

LEMMA StutterType ==
    ASSUME TypeOK, UNCHANGED vars
    PROVE  TypeOK'
<1>1. TreesTyped' /\ SnapshotsTyped'
  BY KeepTrees, KeepSnapshots DEF TypeOK, vars
<1>2. ProcessorTyped'
  BY DEF TypeOK, ProcessorTyped, vars, procVars
<1>3. SessionTyped' /\ FlagsTyped'
  BY DEF TypeOK, SessionTyped, FlagsTyped, vars, procVars, syncVars
<1>4. QED
  BY <1>1, <1>2, <1>3 DEF TypeOK

(***************************************************************************)
(* Every reachable state is well typed: keys in the trees are keys of real *)
(* outputs, everything stored under them names blocks and transactions of  *)
(* the chain, balances never go below zero, and every snapshot can be      *)
(* loaded.                                                                 *)
(***************************************************************************)
THEOREM TypeCorrect == Spec => []TypeOK
<1>1. TypeOK /\ [Next]_vars => TypeOK'
  <2>. SUFFICES ASSUME TypeOK, [Next]_vars PROVE TypeOK'
    OBVIOUS
  <2>1. CASE \E W \in WalletSets : Start(W)
    BY <2>1, StartType
  <2>2. CASE \E b \in Blocks : RollForward(b)
    BY <2>2, RollForwardType
  <2>3. CASE FirstResponse
    BY <2>3, RollBackwardType DEF FirstResponse, TypeOK, SessionTyped
  <2>4. CASE \E p \in Point : Rollback(p)
    BY <2>4, RollBackwardType DEF Rollback, TypeOK, SessionTyped
  <2>5. CASE Await
    BY <2>5, StutterType DEF Await
  <2>6. CASE Step
    BY <2>6, StepType
  <2>7. CASE Fail
    BY <2>7, FailType
  <2>8. CASE \E snap \in BOOLEAN : Finish(snap)
    BY <2>8, FinishType
  <2>9. CASE \E saved \in BOOLEAN : Shutdown(saved)
    BY <2>9, ShutdownType
  <2>10. CASE Crash
    BY <2>10, CrashType
  <2>11. CASE UNCHANGED vars
    BY <2>11, StutterType
  <2>12. QED
    BY <2>1, <2>2, <2>3, <2>4, <2>5, <2>6, <2>7, <2>8, <2>9, <2>10, <2>11 DEF Next
<1>2. QED
  BY InitType, <1>1, PTL DEF Spec

-----------------------------------------------------------------------------
(***************************************************************************)
(* The address index.  IndexCoherent is inductive as it stands, because    *)
(* every action either leaves both trees alone, or adds or removes one     *)
(* output in both, or loads a coherent snapshot.                           *)
(***************************************************************************)

LEMMA AddCoherent ==
    ASSUME NEW index, NEW utxos, Coherent(index, utxos), NEW k, NEW v
    PROVE  Coherent(index \cup {<<AddressOf(k), k>>}, Insert(utxos, k, v))
<1>1. DOMAIN Insert(utxos, k, v) = DOMAIN utxos \cup {k}
  BY DEF Insert
<1>2. QED
  BY <1>1 DEF Coherent

LEMMA RemoveCoherent ==
    ASSUME NEW index, NEW utxos, Coherent(index, utxos), NEW k
    PROVE  Coherent(index \ {<<AddressOf(k), k>>}, Delete(utxos, {k}))
<1>1. DOMAIN Delete(utxos, {k}) = DOMAIN utxos \ {k}
  BY DEF Delete
<1>2. QED
  BY <1>1 DEF Coherent

SnapshotsCoherent ==
    \A s \in DOMAIN snapshots : Coherent(snapshots[s].address_utxos, snapshots[s].utxos)

LEMMA InputCoherent ==
    ASSUME Coherent(address_utxo_index, utxo_tree), ProcessInput
    PROVE  Coherent(address_utxo_index, utxo_tree)'
<1>. DEFINE k == InputsOf[this_tx][pos]
<1>1. CASE k \in DOMAIN utxo_tree
  <2>1. /\ utxo_tree' = Delete(utxo_tree, {k})
        /\ address_utxo_index' = address_utxo_index \ {<<AddressOf(k), k>>}
    BY <1>1 DEF ProcessInput, SpendUtxo, remove_utxo_from_address_index
  <2>2. Coherent(address_utxo_index \ {<<AddressOf(k), k>>}, Delete(utxo_tree, {k}))
    BY RemoveCoherent
  <2>3. QED
    BY <2>1, <2>2 DEF Coherent
<1>2. CASE k \notin DOMAIN utxo_tree
  BY <1>2 DEF ProcessInput, SpendUtxo, Coherent
<1>3. QED
  BY <1>1, <1>2

LEMMA OutputCoherent ==
    ASSUME Coherent(address_utxo_index, utxo_tree), ProcessOutput
    PROVE  Coherent(address_utxo_index, utxo_tree)'
<1>1. CASE is_our_address(AddressOf(output))
  <2>1. /\ utxo_tree' = Insert(utxo_tree, output, info.block)
        /\ address_utxo_index' = address_utxo_index \cup {<<AddressOf(output), output>>}
    BY <1>1 DEF ProcessOutput, CreateUtxo,
           add_utxo_to_address_index
  <2>2. Coherent(address_utxo_index \cup {<<AddressOf(output), output>>},
                 Insert(utxo_tree, output, info.block))
    BY AddCoherent
  <2>3. QED
    BY <2>1, <2>2 DEF Coherent
<1>2. CASE ~is_our_address(AddressOf(output))
  BY <1>2 DEF ProcessOutput, Coherent
<1>3. QED
  BY <1>1, <1>2

LEMMA RestoreCoherent ==
    ASSUME Coherent(address_utxo_index, utxo_tree), RestoreSpent
    PROVE  Coherent(address_utxo_index, utxo_tree)'
<1>. DEFINE x == info.utxos_spent[pos]
<1>1. /\ utxo_tree' = Insert(utxo_tree, x.key, x.data)
      /\ address_utxo_index' = address_utxo_index \cup {<<AddressOf(x.key), x.key>>}
  BY DEF RestoreSpent, add_utxo_to_address_index
<1>2. Coherent(address_utxo_index \cup {<<AddressOf(x.key), x.key>>},
               Insert(utxo_tree, x.key, x.data))
  BY AddCoherent
<1>3. QED
  BY <1>1, <1>2 DEF Coherent

LEMMA DeleteCoherent ==
    ASSUME Coherent(address_utxo_index, utxo_tree), DeleteCreated
    PROVE  Coherent(address_utxo_index, utxo_tree)'
<1>. DEFINE k == info.utxos_created[pos]
<1>1. CASE k \in DOMAIN utxo_tree
  <2>1. /\ utxo_tree' = Delete(utxo_tree, {k})
        /\ address_utxo_index' = address_utxo_index \ {<<AddressOf(k), k>>}
    BY <1>1 DEF DeleteCreated, remove_utxo_from_address_index
  <2>2. Coherent(address_utxo_index \ {<<AddressOf(k), k>>}, Delete(utxo_tree, {k}))
    BY RemoveCoherent
  <2>3. QED
    BY <2>1, <2>2 DEF Coherent
<1>2. CASE k \notin DOMAIN utxo_tree
  BY <1>2 DEF DeleteCreated, Coherent
<1>3. QED
  BY <1>1, <1>2

\* Saving coherent trees keeps the snapshots coherent, cleanup included.
LEMMA SaveCoherent ==
    ASSUME Coherent(address_utxo_index, utxo_tree), SnapshotsCoherent,
           NEW slot, NEW hashes, NEW tips, NEW history
    PROVE  LET new == Insert(snapshots, slot, SavedTrees(hashes, tips, history)) IN
           /\ \A s \in DOMAIN new : Coherent(new[s].address_utxos, new[s].utxos)
           /\ \A s \in DOMAIN Cleanup(new) :
                 Coherent(Cleanup(new)[s].address_utxos, Cleanup(new)[s].utxos)
<1>. DEFINE S == SavedTrees(hashes, tips, history)
            new == Insert(snapshots, slot, S)
<1>1. Coherent(S.address_utxos, S.utxos)
  BY DEF SavedTrees
<1>2. ASSUME NEW s \in DOMAIN new PROVE Coherent(new[s].address_utxos, new[s].utxos)
  <2>1. CASE s = slot
    BY <1>1, <2>1 DEF Insert
  <2>2. CASE s # slot
    <3>1. s \in DOMAIN snapshots /\ new[s] = snapshots[s]
      BY <2>2 DEF Insert
    <3>2. QED
      BY <3>1 DEF SnapshotsCoherent
  <2>3. QED
    BY <2>1, <2>2
<1>3. ASSUME NEW s \in DOMAIN Cleanup(new) PROVE s \in DOMAIN new /\ Cleanup(new)[s] = new[s]
  BY DEF Cleanup
<1>4. QED
  BY <1>2, <1>3

LEMMA LoadCoherent ==
    ASSUME NEW S, Coherent(S.address_utxos, S.utxos), Load(S)
    PROVE  Coherent(address_utxo_index, utxo_tree)'
BY DEF Load, Coherent

LEMMA EmptyCoherent == Coherent(EmptyTrees.address_utxos, EmptyTrees.utxos)
BY DEF Coherent, EmptyTrees, NoTree

LEMMA StepCoherent ==
    ASSUME IndexCoherent, Step
    PROVE  IndexCoherent'
<1>1. UNCHANGED snapshots
  BY DEF Step, BlockStep, RollbackStep, ProcessInput, ProcessOutput,
         EndTx, WriteCreatedEvent, WriteSpentEvent, UndoBlock, RestoreSpent,
         DeleteSpentRecords, DeleteEvents, DeleteCreated, BlockUndone, EndRollback
<1>2. Coherent(address_utxo_index, utxo_tree)'
  <2>1. Coherent(address_utxo_index, utxo_tree)
    BY DEF IndexCoherent
  <2>2. \/ ProcessInput \/ ProcessOutput \/ RestoreSpent \/ DeleteCreated
        \/ UNCHANGED <<address_utxo_index, utxo_tree>>
    BY DEF Step, BlockStep, RollbackStep, EndTx, WriteCreatedEvent, WriteSpentEvent,
           UndoBlock, DeleteSpentRecords, DeleteEvents, BlockUndone, EndRollback, trees
  <2>3. QED
    BY <2>1, <2>2, InputCoherent, OutputCoherent, RestoreCoherent, DeleteCoherent DEF Coherent
<1>3. QED
  BY <1>1, <1>2 DEF IndexCoherent

LEMMA StartCoherent ==
    ASSUME IndexCoherent, NEW W, Start(W)
    PROVE  IndexCoherent'
<1>1. PICK S \in LatestSnapshots : Load(S)
  BY DEF Start
<1>2. Coherent(S.address_utxos, S.utxos)
  BY EmptyCoherent DEF LatestSnapshots, IndexCoherent
<1>3. Coherent(address_utxo_index, utxo_tree)'
  BY <1>1, <1>2, LoadCoherent
<1>4. UNCHANGED snapshots
  BY DEF Start
<1>5. QED
  BY <1>3, <1>4 DEF IndexCoherent

LEMMA FinishCoherent ==
    ASSUME IndexCoherent, NEW snap, Finish(snap)
    PROVE  IndexCoherent'
<1>1. /\ UNCHANGED <<utxo_tree, address_utxo_index>>
      /\ \/ snapshots' = snapshots
         \/ snapshots' = Cleanup(Insert(snapshots, SlotOf[info.block],
                            SavedTrees(block_hash_index', chain_tip_tree', HistoryNow)))
  BY DEF Finish, FinishBlock
<1>2. SnapshotsCoherent /\ Coherent(address_utxo_index, utxo_tree)
  BY DEF IndexCoherent, SnapshotsCoherent
<1>3. QED
  BY <1>1, <1>2, SaveCoherent DEF IndexCoherent, SnapshotsCoherent, Coherent

LEMMA StopCoherent ==
    ASSUME IndexCoherent, (\E saved \in BOOLEAN : Shutdown(saved)) \/ Crash
    PROVE  IndexCoherent'
<1>1. Coherent(address_utxo_index, utxo_tree)'
  BY EmptyCoherent, LoadCoherent DEF Shutdown, Crash, Exit
<1>2. \/ snapshots' = snapshots
      \/ snapshots' = Insert(snapshots, current_slot,
            SavedTrees(block_hash_index, CurrentTips(rollback_buffer), HistoryNow))
  BY DEF Shutdown, Crash
<1>3. SnapshotsCoherent /\ Coherent(address_utxo_index, utxo_tree)
  BY DEF IndexCoherent, SnapshotsCoherent
<1>4. QED
  BY <1>1, <1>2, <1>3, SaveCoherent DEF IndexCoherent, SnapshotsCoherent

(***************************************************************************)
(* The UTxO tree and the address index never disagree, whatever is         *)
(* announced, rolled back, failed, replayed, saved, lost or restored.      *)
(***************************************************************************)
THEOREM IndexStaysCoherent == Spec => []IndexCoherent
<1>1. Init => IndexCoherent
  BY DEF Init, StorageInit, IndexCoherent, Coherent, NoTree
<1>2. IndexCoherent /\ [Next]_vars => IndexCoherent'
  <2>. SUFFICES ASSUME IndexCoherent, [Next]_vars PROVE IndexCoherent'
    OBVIOUS
  <2>1. CASE UNCHANGED <<address_utxo_index, utxo_tree, snapshots>>
    BY <2>1 DEF IndexCoherent, Coherent
  <2>2. CASE \E W \in WalletSets : Start(W)
    BY <2>2, StartCoherent
  <2>3. CASE Step
    BY <2>3, StepCoherent
  <2>4. CASE \E snap \in BOOLEAN : Finish(snap)
    BY <2>4, FinishCoherent
  <2>5. CASE (\E saved \in BOOLEAN : Shutdown(saved)) \/ Crash
    BY <2>5, StopCoherent
  <2>6. ASSUME NEW b \in Blocks, RollForward(b)
        PROVE  UNCHANGED <<address_utxo_index, utxo_tree, snapshots>>
    BY <2>6 DEF RollForward, BeginBlock, RejectBlock, trees
  <2>7. ASSUME NEW p, RollBackward(p)
        PROVE  UNCHANGED <<address_utxo_index, utxo_tree, snapshots>>
    BY <2>7 DEF RollBackward, IgnoreRollback, BeginRollback, trees
  <2>8. CASE Fail
    BY <2>1, <2>8 DEF Fail, FailBlock, trees
  <2>9. CASE Await \/ UNCHANGED vars
    BY <2>1, <2>9 DEF Await, vars, trees
  <2>10. CASE \E b \in Blocks : RollForward(b)
    BY <2>1, <2>6, <2>10
  <2>11. CASE \E p \in Point : Rollback(p)
    <3>1. PICK p \in Point : RollBackward(p)
      BY <2>11 DEF Rollback
    <3>2. QED
      BY <2>1, <2>7, <3>1
  <2>12. CASE FirstResponse
    <3>1. RollBackward(cursor)
      BY <2>12 DEF FirstResponse
    <3>2. QED
      BY <2>1, <2>7, <3>1
  <2>13. QED
    BY <2>2, <2>3, <2>4, <2>5, <2>8, <2>9, <2>10, <2>11, <2>12 DEF Next
<1>3. QED
  BY <1>1, <1>2, PTL DEF Spec

-----------------------------------------------------------------------------
(***************************************************************************)
(* The rollback buffer and the stored chain tip: BufferSound and TipBacked.*)
(*                                                                         *)
(* Neither is inductive.  While rollback_to is popping, blocks above the   *)
(* target are in the buffer and no longer in the block index, so what      *)
(* survives the rollback has to be said then; and a block is only pushed   *)
(* in order because process_block has turned late ones away when it began. *)
(***************************************************************************)

Sorted(buffer) ==
    \A i, j \in DOMAIN buffer :
        i <= j => SlotOf[buffer[i].block] <= SlotOf[buffer[j].block]

AllWritten(buffer, slot, hashes) ==
    \A i \in DOMAIN buffer : /\ SlotOf[buffer[i].block] <= slot
                             /\ buffer[i].block \in hashes

SurvivorsWritten(buffer, slot, hashes) ==
    \A i \in DOMAIN buffer :
        SlotOf[buffer[i].block] <= slot => buffer[i].block \in hashes

BufferInv ==
    /\ Len(rollback_buffer) <= BufferSize
    /\ Sorted(rollback_buffer)
    /\ phase \notin RollingBack =>
           AllWritten(rollback_buffer, current_slot, block_hash_index)
    /\ phase \in RollingBack =>
           SurvivorsWritten(rollback_buffer, target_slot, block_hash_index)
    /\ phase \in Processing => current_slot <= SlotOf[info.block]

BufferTipInv == BufferInv /\ TipBacked

-----------------------------------------------------------------------------
(* The buffer.                                                             *)

LEMMA SlotsOfBuffer ==
    ASSUME NEW buffer \in Seq(RollbackInfo), NEW i \in DOMAIN buffer
    PROVE  buffer[i].block \in Blocks /\ SlotOf[buffer[i].block] \in Nat
<1>1. buffer[i] \in RollbackInfo
  BY ElementOfSeq
<1>2. QED
  BY <1>1, InfoItems

LEMMA EmptyBuffer ==
    ASSUME NEW slot, NEW hashes
    PROVE  /\ Len(<<>>) <= BufferSize
           /\ Sorted(<<>>)
           /\ AllWritten(<<>>, slot, hashes)
BY ProcessorConstants DEF Sorted, AllWritten

\* A block that is not older than the ones in the buffer goes on top of them.
LEMMA PushSound ==
    ASSUME rollback_buffer \in Seq(RollbackInfo), NEW x \in RollbackInfo,
           NEW slot \in Nat, NEW hashes,
           Len(rollback_buffer) <= BufferSize,
           Sorted(rollback_buffer),
           AllWritten(rollback_buffer, slot, hashes),
           slot <= SlotOf[x.block]
    PROVE  LET pushed == PushBuffer(x) IN
           /\ Len(pushed) <= BufferSize
           /\ Sorted(pushed)
           /\ AllWritten(pushed, SlotOf[x.block], hashes \cup {x.block})
           /\ pushed # <<>>
           /\ pushed[Len(pushed)] = x
<1>. DEFINE longer == Append(rollback_buffer, x)
            n == Len(rollback_buffer)
<1>1. /\ longer \in Seq(RollbackInfo)
      /\ longer # <<>>
      /\ n \in Nat
      /\ Len(longer) = n + 1
      /\ \A i \in 1 .. n : longer[i] = rollback_buffer[i]
      /\ longer[n + 1] = x
  BY AppendProperties, LenProperties
<1>2. SlotOf[x.block] \in Nat
  BY InfoItems
<1>3. \A i \in 1 .. n : /\ SlotOf[rollback_buffer[i].block] \in Nat
                        /\ SlotOf[rollback_buffer[i].block] <= slot
                        /\ rollback_buffer[i].block \in hashes
  BY SlotsOfBuffer, LenProperties DEF AllWritten
<1>4. Sorted(longer)
  <2>. SUFFICES ASSUME NEW i \in 1 .. n + 1, NEW j \in 1 .. n + 1, i <= j
                PROVE  SlotOf[longer[i].block] <= SlotOf[longer[j].block]
    BY <1>1, LenProperties DEF Sorted
  <2>1. CASE j = n + 1
    BY <1>1, <1>2, <1>3, <2>1
  <2>2. CASE j # n + 1
    <3>1. i \in DOMAIN rollback_buffer /\ j \in DOMAIN rollback_buffer
      BY <1>1, <2>2, LenProperties
    <3>2. longer[i] = rollback_buffer[i] /\ longer[j] = rollback_buffer[j]
      BY <1>1, <2>2
    <3>3. QED
      BY <3>1, <3>2 DEF Sorted
  <2>3. QED
    BY <2>1, <2>2
<1>5. AllWritten(longer, SlotOf[x.block], hashes \cup {x.block})
  <2>. SUFFICES ASSUME NEW i \in 1 .. n + 1
                PROVE  /\ SlotOf[longer[i].block] <= SlotOf[x.block]
                       /\ longer[i].block \in hashes \cup {x.block}
    BY <1>1, LenProperties DEF AllWritten
  <2>1. CASE i = n + 1
    BY <1>1, <1>2, <2>1
  <2>2. CASE i # n + 1
    BY <1>1, <1>2, <1>3, <2>2
  <2>3. QED
    BY <2>1, <2>2
<1>6. CASE Len(longer) > BufferSize
  <2>1. PushBuffer(x) = Tail(longer)
    BY <1>6 DEF PushBuffer
  <2>2. /\ Tail(longer) \in Seq(RollbackInfo)
        /\ Len(Tail(longer)) = n
        /\ \A i \in 1 .. n : Tail(longer)[i] = longer[i + 1]
    BY <1>1, HeadTailProperties
  <2>3. n = BufferSize /\ n > 0
    BY <1>1, <1>6, ProcessorConstants
  <2>4. DOMAIN Tail(longer) = 1 .. n /\ DOMAIN longer = 1 .. n + 1
    BY <1>1, <2>2, LenProperties
  <2>5. Sorted(Tail(longer))
    <3>. SUFFICES ASSUME NEW i \in 1 .. n, NEW j \in 1 .. n, i <= j
                  PROVE  SlotOf[Tail(longer)[i].block] <= SlotOf[Tail(longer)[j].block]
      BY <2>4 DEF Sorted
    <3>1. i + 1 \in DOMAIN longer /\ j + 1 \in DOMAIN longer /\ i + 1 <= j + 1
      BY <2>4, <1>1
    <3>2. SlotOf[longer[i + 1].block] <= SlotOf[longer[j + 1].block]
      BY <1>4, <3>1 DEF Sorted
    <3>3. QED
      BY <2>2, <3>2
  <2>6. AllWritten(Tail(longer), SlotOf[x.block], hashes \cup {x.block})
    <3>. SUFFICES ASSUME NEW i \in 1 .. n
                  PROVE  /\ SlotOf[Tail(longer)[i].block] <= SlotOf[x.block]
                         /\ Tail(longer)[i].block \in hashes \cup {x.block}
      BY <2>4 DEF AllWritten
    <3>1. i + 1 \in DOMAIN longer
      BY <2>4, <1>1
    <3>2. QED
      BY <1>5, <2>2, <3>1 DEF AllWritten
  <2>7. Tail(longer)[n] = x /\ Tail(longer) # <<>>
    BY <1>1, <2>2, <2>3
  <2>8. QED
    BY <2>1, <2>2, <2>3, <2>5, <2>6, <2>7
<1>7. CASE ~(Len(longer) > BufferSize)
  <2>1. PushBuffer(x) = longer
    BY <1>7 DEF PushBuffer
  <2>2. Len(longer) <= BufferSize
    BY <1>1, <1>7, ProcessorConstants
  <2>3. QED
    BY <1>1, <1>4, <1>5, <2>1, <2>2
<1>8. QED
  BY <1>6, <1>7

LEMMA WithoutLast ==
    ASSUME NEW S, NEW s \in Seq(S), s # <<>>
    PROVE  /\ SubSeq(s, 1, Len(s) - 1) \in Seq(S)
           /\ Len(SubSeq(s, 1, Len(s) - 1)) = Len(s) - 1
           /\ \A i \in 1 .. Len(s) - 1 : SubSeq(s, 1, Len(s) - 1)[i] = s[i]
<1>1. Len(s) \in Nat /\ Len(s) # 0
  BY LenProperties, EmptySeq
<1>2. SubSeq(s, 1, Len(s) - 1) \in Seq(S)
  OBVIOUS
<1>3. Len(SubSeq(s, 1, Len(s) - 1)) = Len(s) - 1
  <2>1. CASE Len(s) = 1
    <3>1. SubSeq(s, 1, Len(s) - 1) = <<>>
      BY <2>1, SubSeqEmpty
    <3>2. QED
      BY <2>1, <3>1, EmptySeq
  <2>2. CASE Len(s) # 1
    <3>1. 1 <= Len(s) - 1 /\ Len(s) - 1 \in Int
      <4>1. \A n \in Nat : n # 0 /\ n # 1 => 1 <= n - 1 /\ n - 1 \in Int
        OBVIOUS
      <4>2. QED
        BY <1>1, <2>2, <4>1, Zenon
    <3>2. \A i \in 1 .. Len(s) - 1 : s[i] \in S
      BY <1>1, ElementOfSeq
    <3>3. Len(SubSeq(s, 1, Len(s) - 1)) = Len(s) - 1 - 1 + 1
      BY <3>1, <3>2, SubSeqProperties
    <3>4. QED
      BY <1>1, <3>3
  <2>3. QED
    BY <2>1, <2>2
<1>4. ASSUME NEW i \in 1 .. Len(s) - 1 PROVE SubSeq(s, 1, Len(s) - 1)[i] = s[i]
  BY <1>1
<1>5. QED
  BY <1>2, <1>3, <1>4

\* Popping a block that lies above the target loses no survivor.
LEMMA PopSound ==
    ASSUME rollback_buffer \in Seq(RollbackInfo), target_slot \in Nat, NEW hashes,
           Len(rollback_buffer) <= BufferSize,
           Sorted(rollback_buffer),
           SurvivorsWritten(rollback_buffer, target_slot, hashes),
           MoreToUndo
    PROVE  /\ Len(PopLast) <= BufferSize
           /\ Sorted(PopLast)
           /\ SurvivorsWritten(PopLast, target_slot, hashes \ {LastInfo.block})
<1>. DEFINE n == Len(rollback_buffer)
<1>1. n \in Nat /\ n # 0 /\ DOMAIN rollback_buffer = 1 .. n
  BY LenProperties, EmptySeq DEF MoreToUndo
<1>2. \A i \in 1 .. n - 1 : rollback_buffer[i] \in RollbackInfo
  BY <1>1, ElementOfSeq
<1>3. /\ PopLast \in Seq(RollbackInfo)
      /\ Len(PopLast) = n - 1
      /\ \A i \in 1 .. n - 1 : PopLast[i] = rollback_buffer[i]
  BY <1>1, WithoutLast DEF PopLast
<1>4. DOMAIN PopLast = 1 .. n - 1
  BY <1>3, LenProperties
<1>5. Len(PopLast) <= BufferSize
  BY <1>1, <1>3, ProcessorConstants
<1>6. Sorted(PopLast)
  BY <1>1, <1>3, <1>4 DEF Sorted
<1>7. SurvivorsWritten(PopLast, target_slot, hashes \ {LastInfo.block})
  <2>. SUFFICES ASSUME NEW i \in 1 .. n - 1, SlotOf[PopLast[i].block] <= target_slot
                PROVE  PopLast[i].block \in hashes \ {LastInfo.block}
    BY <1>4 DEF SurvivorsWritten
  <2>1. i \in DOMAIN rollback_buffer /\ n \in DOMAIN rollback_buffer
    BY <1>1
  <2>2. PopLast[i] = rollback_buffer[i]
    BY <1>3
  <2>3. PopLast[i].block \in hashes
    BY <2>1, <2>2 DEF SurvivorsWritten
  <2>4. SlotOf[LastInfo.block] \in Nat /\ SlotOf[LastInfo.block] > target_slot
    BY <2>1, SlotsOfBuffer DEF MoreToUndo, LastInfo
  <2>5. SlotOf[PopLast[i].block] \in Nat
    BY <2>1, <2>2, SlotsOfBuffer
  <2>6. PopLast[i].block # LastInfo.block
    BY <2>4, <2>5
  <2>7. QED
    BY <2>3, <2>6
<1>8. QED
  BY <1>5, <1>6, <1>7

\* When nothing is left to undo, all that is left is a survivor.
LEMMA DoneSound ==
    ASSUME rollback_buffer \in Seq(RollbackInfo), target_slot \in Nat, NEW hashes,
           Sorted(rollback_buffer),
           SurvivorsWritten(rollback_buffer, target_slot, hashes),
           ~MoreToUndo
    PROVE  AllWritten(rollback_buffer, target_slot, hashes)
<1>. DEFINE n == Len(rollback_buffer)
<1>1. SUFFICES ASSUME NEW i \in DOMAIN rollback_buffer
               PROVE  SlotOf[rollback_buffer[i].block] <= target_slot
  BY DEF AllWritten, SurvivorsWritten
<1>2. n \in Nat /\ DOMAIN rollback_buffer = 1 .. n /\ i \in 1 .. n
  BY LenProperties
<1>3. n \in DOMAIN rollback_buffer /\ i <= n /\ rollback_buffer # <<>>
  BY <1>2
<1>4. SlotOf[rollback_buffer[i].block] <= SlotOf[rollback_buffer[n].block]
  BY <1>3 DEF Sorted
<1>5. ~(SlotOf[rollback_buffer[n].block] > target_slot)
  BY <1>3 DEF MoreToUndo, LastInfo
<1>6. SlotOf[rollback_buffer[i].block] \in Nat /\ SlotOf[rollback_buffer[n].block] \in Nat
  BY <1>3, SlotsOfBuffer
<1>7. QED
  BY <1>4, <1>5, <1>6

-----------------------------------------------------------------------------
(* Tips and snapshots.                                                     *)

SnapshotsBacked == \A s \in DOMAIN snapshots : TipIn(snapshots[s].tips, snapshots[s].hashes)

\* save_current_tips stores the tip of a block that has been written.
LEMMA CurrentTipsBacked ==
    ASSUME NEW buffer \in Seq(RollbackInfo), NEW slot, NEW hashes,
           AllWritten(buffer, slot, hashes),
           TipIn(chain_tip_tree, hashes)
    PROVE  TipIn(CurrentTips(buffer), hashes)
<1>1. CASE buffer = <<>>
  BY <1>1 DEF CurrentTips
<1>2. CASE buffer # <<>>
  <2>. DEFINE last == buffer[Len(buffer)].block
  <2>1. Len(buffer) \in DOMAIN buffer
    BY <1>2
  <2>2. last \in hashes
    BY <2>1 DEF AllWritten
  <2>3. CurrentTips(buffer) = WithTips(wallet_ids, SlotOf[last], last)
    BY <1>2 DEF CurrentTips
  <2>4. WithTips(wallet_ids, SlotOf[last], last)["current_tip"].hash = last
    BY DEF WithTips
  <2>5. QED
    BY <2>2, <2>3, <2>4 DEF TipIn
<1>3. QED
  BY <1>1, <1>2

LEMMA ResetBacked ==
    ASSUME NEW hashes
    PROVE  TipIn(TipsReset, hashes)
<1>1. TipsReset["current_tip"].hash = Origin
  BY DEF TipsReset, WithTips
<1>2. QED
  BY <1>1 DEF TipIn

\* Saving a backed tip keeps every snapshot's tip backed, cleanup included.
LEMMA SaveBacked ==
    ASSUME SnapshotsBacked, NEW slot, NEW hashes, NEW tips, NEW history,
           TipIn(tips, hashes)
    PROVE  LET new == Insert(snapshots, slot, SavedTrees(hashes, tips, history)) IN
           /\ \A s \in DOMAIN new : TipIn(new[s].tips, new[s].hashes)
           /\ \A s \in DOMAIN Cleanup(new) :
                 TipIn(Cleanup(new)[s].tips, Cleanup(new)[s].hashes)
<1>. DEFINE S == SavedTrees(hashes, tips, history)
            new == Insert(snapshots, slot, S)
<1>1. TipIn(S.tips, S.hashes)
  BY DEF SavedTrees
<1>2. ASSUME NEW s \in DOMAIN new PROVE TipIn(new[s].tips, new[s].hashes)
  <2>1. CASE s = slot
    BY <1>1, <2>1 DEF Insert
  <2>2. CASE s # slot
    <3>1. s \in DOMAIN snapshots /\ new[s] = snapshots[s]
      BY <2>2 DEF Insert
    <3>2. QED
      BY <3>1 DEF SnapshotsBacked
  <2>3. QED
    BY <2>1, <2>2
<1>3. ASSUME NEW s \in DOMAIN Cleanup(new) PROVE s \in DOMAIN new /\ Cleanup(new)[s] = new[s]
  BY DEF Cleanup
<1>4. QED
  BY <1>2, <1>3

-----------------------------------------------------------------------------
(* The steps.                                                              *)

kept == <<rollback_buffer, current_slot, block_hash_index, chain_tip_tree, snapshots>>

\* Steps of process_block that touch neither the buffer nor what backs it.
LEMMA KeepInv ==
    ASSUME BufferTipInv, UNCHANGED kept,
           phase \notin RollingBack, phase' \notin RollingBack,
           phase' \in Processing => phase \in Processing /\ info'.block = info.block
    PROVE  BufferTipInv'
<1>1. /\ rollback_buffer' = rollback_buffer
      /\ current_slot' = current_slot
      /\ block_hash_index' = block_hash_index
      /\ chain_tip_tree' = chain_tip_tree
      /\ snapshots' = snapshots
  BY DEF kept
<1>2. BufferInv'
  BY <1>1 DEF BufferTipInv, BufferInv, Sorted, AllWritten
<1>3. TipBacked'
  BY <1>1 DEF BufferTipInv, TipBacked, TipIn
<1>4. QED
  BY <1>2, <1>3 DEF BufferTipInv

\* Steps of rollback_block that touch neither.
LEMMA KeepRollingInv ==
    ASSUME BufferTipInv, UNCHANGED kept, UNCHANGED target_slot,
           phase \in RollingBack, phase' \in RollingBack
    PROVE  BufferTipInv'
<1>1. /\ rollback_buffer' = rollback_buffer
      /\ block_hash_index' = block_hash_index
      /\ target_slot' = target_slot
      /\ snapshots' = snapshots
  BY DEF kept
<1>2. phase' \notin Processing
  BY DEF Processing, RollingBack
<1>3. BufferInv'
  BY <1>1, <1>2 DEF BufferTipInv, BufferInv, Sorted, SurvivorsWritten
<1>4. TipBacked'
  BY <1>1 DEF BufferTipInv, TipBacked, TipIn
<1>5. QED
  BY <1>3, <1>4 DEF BufferTipInv

LEMMA BlockStepInv ==
    ASSUME TypeOK, BufferTipInv, BlockStep
    PROVE  BufferTipInv'
<1>1. phase \in Processing /\ info \in RollbackInfo
  BY DEF BlockStep, ProcessInput, ProcessOutput, AtOutput, EndTx, WriteCreatedEvent,
         WriteSpentEvent, Processing, TypeOK, ProcessorTyped
<1>2. phase \notin RollingBack
  BY <1>1 DEF Processing, RollingBack
<1>3. UNCHANGED kept
  BY DEF BlockStep, ProcessInput, ProcessOutput, EndTx, WriteCreatedEvent,
         WriteSpentEvent, kept
<1>4. phase' \in Processing
  BY <1>1 DEF BlockStep, ProcessInput, ProcessOutput, EndTx, WriteCreatedEvent,
              WriteSpentEvent, NextPhase, Processing
<1>5. info'.block = info.block
  <2>1. CASE ProcessInput
    BY <1>1, <2>1 DEF ProcessInput, SpendUtxo, RollbackInfo
  <2>2. CASE ProcessOutput
    BY <1>1, <2>2 DEF ProcessOutput, CreateUtxo, RollbackInfo
  <2>3. CASE EndTx \/ WriteCreatedEvent \/ WriteSpentEvent
    BY <2>3 DEF EndTx, WriteCreatedEvent, WriteSpentEvent
  <2>4. QED
    BY <2>1, <2>2, <2>3 DEF BlockStep
<1>6. phase' \notin RollingBack
  BY <1>4 DEF Processing, RollingBack
<1>7. QED
  BY <1>1, <1>2, <1>3, <1>5, <1>6, KeepInv

LEMMA UndoBlockInv ==
    ASSUME TypeOK, BufferTipInv, UndoBlock
    PROVE  BufferTipInv'
<1>1. /\ phase \in RollingBack
      /\ phase' \in RollingBack
      /\ phase' \notin Processing
  BY DEF UndoBlock, RollingBack, Processing
<1>2. /\ rollback_buffer \in Seq(RollbackInfo)
      /\ target_slot \in Nat
  BY DEF TypeOK, ProcessorTyped
<1>3. /\ rollback_buffer' = PopLast
      /\ block_hash_index' = block_hash_index \ {LastInfo.block}
      /\ target_slot' = target_slot
      /\ snapshots' = snapshots
  BY DEF UndoBlock
<1>4. /\ Len(PopLast) <= BufferSize
      /\ Sorted(PopLast)
      /\ SurvivorsWritten(PopLast, target_slot, block_hash_index \ {LastInfo.block})
  BY <1>1, <1>2, PopSound DEF BufferTipInv, BufferInv, UndoBlock
<1>5. BufferInv'
  BY <1>1, <1>3, <1>4 DEF BufferInv, Sorted, SurvivorsWritten
<1>6. TipBacked'
  BY <1>1, <1>3 DEF BufferTipInv, TipBacked, TipIn
<1>7. QED
  BY <1>5, <1>6 DEF BufferTipInv

LEMMA EndRollbackInv ==
    ASSUME TypeOK, BufferTipInv, EndRollback
    PROVE  BufferTipInv'
<1>1. /\ phase \in RollingBack
      /\ phase' \notin RollingBack
      /\ phase' \notin Processing
  BY DEF EndRollback, Return, RollingBack, Processing
<1>2. /\ rollback_buffer \in Seq(RollbackInfo)
      /\ target_slot \in Nat
  BY DEF TypeOK, ProcessorTyped
<1>3. /\ rollback_buffer' = rollback_buffer
      /\ block_hash_index' = block_hash_index
      /\ current_slot' = target_slot
      /\ chain_tip_tree' = TipsReset
      /\ snapshots' = snapshots
  BY DEF EndRollback
<1>4. AllWritten(rollback_buffer, target_slot, block_hash_index)
  BY <1>1, <1>2, DoneSound DEF BufferTipInv, BufferInv, EndRollback
<1>5. BufferInv'
  BY <1>1, <1>3, <1>4 DEF BufferTipInv, BufferInv, Sorted, AllWritten
<1>6. TipIn(chain_tip_tree, block_hash_index)'
  <2>1. TipIn(TipsReset, block_hash_index)
    BY ResetBacked
  <2>2. QED
    BY <1>3, <2>1 DEF TipIn
<1>7. TipBacked'
  BY <1>3, <1>6 DEF BufferTipInv, TipBacked, TipIn
<1>8. QED
  BY <1>5, <1>7 DEF BufferTipInv

LEMMA RollbackStepInv ==
    ASSUME TypeOK, BufferTipInv, RollbackStep
    PROVE  BufferTipInv'
<1>1. CASE RestoreSpent \/ DeleteSpentRecords \/ DeleteEvents \/ DeleteCreated \/ BlockUndone
  <2>1. phase \in RollingBack /\ phase' \in RollingBack /\ UNCHANGED target_slot
    BY <1>1 DEF RestoreSpent, DeleteSpentRecords, DeleteEvents, DeleteCreated, BlockUndone,
                RollingBack
  <2>2. UNCHANGED kept
    BY <1>1 DEF RestoreSpent, DeleteSpentRecords, DeleteEvents, DeleteCreated, BlockUndone,
                kept, trees
  <2>3. QED
    BY <2>1, <2>2, KeepRollingInv
<1>2. QED
  BY <1>1, UndoBlockInv, EndRollbackInv DEF RollbackStep

LEMMA RollForwardInv ==
    ASSUME TypeOK, BufferTipInv, NEW b \in Blocks, RollForward(b)
    PROVE  BufferTipInv'
<1>1. phase \notin RollingBack
  BY DEF RollForward, RollingBack
<1>2. current_slot \in Nat /\ SlotOf[b] \in Nat
  BY ChainTypes DEF TypeOK, ProcessorTyped
<1>3. CASE BeginBlock(b)
  <2>1. UNCHANGED kept /\ phase' \in Processing /\ info'.block = b
    BY <1>3 DEF BeginBlock, kept, trees, NextPhase, Processing
  <2>2. current_slot <= SlotOf[b]
    BY <1>2, <1>3 DEF BeginBlock, Late
  <2>3. phase' \notin RollingBack
    BY <2>1 DEF Processing, RollingBack
  <2>4. BufferInv'
    BY <1>1, <2>1, <2>2, <2>3 DEF kept, BufferTipInv, BufferInv, Sorted, AllWritten
  <2>5. TipBacked'
    BY <1>1, <2>1, <2>3 DEF kept, BufferTipInv, TipBacked, TipIn
  <2>6. QED
    BY <2>4, <2>5 DEF BufferTipInv
<1>4. CASE RejectBlock(b)
  <2>1. UNCHANGED kept /\ UNCHANGED phase /\ UNCHANGED info
    BY <1>4 DEF RejectBlock, kept, trees, procVars
  <2>2. QED
    BY <1>1, <2>1, KeepInv
<1>5. QED
  BY <1>3, <1>4 DEF RollForward

LEMMA RollBackwardInv ==
    ASSUME TypeOK, BufferTipInv, NEW p, RollBackward(p), phase \in {"connected", "idle"}
    PROVE  BufferTipInv'
<1>1. phase \notin RollingBack
  BY DEF RollingBack
<1>2. CASE IgnoreRollback(PointSlot(p))
  <2>1. UNCHANGED kept /\ phase' = "idle"
    BY <1>2 DEF IgnoreRollback, Return, kept, trees
  <2>2. phase' \notin RollingBack /\ phase' \notin Processing
    BY <2>1 DEF RollingBack, Processing
  <2>3. QED
    BY <1>1, <2>1, <2>2, KeepInv
<1>3. CASE BeginRollback(PointSlot(p))
  <2>1. UNCHANGED kept /\ phase' = "undo"
    BY <1>3 DEF BeginRollback, kept, trees
  <2>2. phase' \in RollingBack /\ phase' \notin Processing
    BY <2>1 DEF RollingBack, Processing
  <2>3. BufferInv'
    BY <1>1, <2>1, <2>2 DEF kept, BufferTipInv, BufferInv, Sorted, AllWritten,
                            SurvivorsWritten
  <2>4. TipBacked'
    BY <2>1, <2>2 DEF kept, BufferTipInv, TipBacked, TipIn
  <2>5. QED
    BY <2>3, <2>4 DEF BufferTipInv
<1>4. QED
  BY <1>2, <1>3 DEF RollBackward

LEMMA FailInv ==
    ASSUME TypeOK, BufferTipInv, Fail
    PROVE  BufferTipInv'
<1>1. UNCHANGED kept /\ phase = "tx" /\ phase' = "idle"
  BY DEF Fail, FailBlock, AtOutput, Return, kept, trees
<1>2. phase \notin RollingBack /\ phase' \notin RollingBack /\ phase' \notin Processing
  BY <1>1 DEF RollingBack, Processing
<1>3. QED
  BY <1>1, <1>2, KeepInv

LEMMA FinishInv ==
    ASSUME TypeOK, BufferTipInv, NEW snap \in BOOLEAN, Finish(snap)
    PROVE  BufferTipInv'
<1>. DEFINE buffer == PushBuffer(info)
            slot == SlotOf[info.block]
            hashes == block_hash_index \cup {info.block}
            tips == IF epoch_boundary THEN CurrentTips(buffer) ELSE chain_tip_tree
<1>1. /\ phase \in Processing
      /\ phase \notin RollingBack
      /\ phase' \notin RollingBack
      /\ phase' \notin Processing
  BY DEF Finish, FinishBlock, Return, Processing, RollingBack
<1>2. /\ info \in RollbackInfo
      /\ rollback_buffer \in Seq(RollbackInfo)
      /\ current_slot \in Nat
  BY <1>1 DEF TypeOK, ProcessorTyped
<1>3. /\ rollback_buffer' = buffer
      /\ current_slot' = slot
      /\ block_hash_index' = hashes
      /\ chain_tip_tree' = tips
      /\ \/ snapshots' = snapshots
         \/ snapshots' = Cleanup(Insert(snapshots, slot,
                                        SavedTrees(hashes, tips, HistoryNow)))
  <2>1. /\ rollback_buffer' = buffer
        /\ current_slot' = slot
        /\ block_hash_index' = hashes
    BY DEF Finish, FinishBlock
  <2>2. chain_tip_tree' = tips
    BY <2>1 DEF Finish, FinishBlock
  <2>3. \/ snapshots' = snapshots
        \/ snapshots' = Cleanup(Insert(snapshots, slot,
                            SavedTrees(block_hash_index', chain_tip_tree', HistoryNow)))
    BY DEF Finish, FinishBlock
  <2>4. QED
    BY <2>1, <2>2, <2>3
<1>4. /\ Len(buffer) <= BufferSize
      /\ Sorted(buffer)
      /\ AllWritten(buffer, slot, hashes)
      /\ buffer \in Seq(RollbackInfo)
  BY <1>1, <1>2, PushSound, PushBufferType DEF BufferTipInv, BufferInv
<1>5. BufferInv'
  BY <1>1, <1>3, <1>4 DEF BufferInv, Sorted, AllWritten
<1>6. TipIn(chain_tip_tree, hashes)
  BY <1>1 DEF BufferTipInv, TipBacked, TipIn
<1>7. TipIn(tips, hashes)
  <2>1. TipIn(CurrentTips(buffer), hashes)
    BY <1>4, <1>6, CurrentTipsBacked
  <2>2. QED
    BY <1>6, <2>1
<1>8. SnapshotsBacked
  BY DEF BufferTipInv, TipBacked, SnapshotsBacked
<1>9. \A s \in DOMAIN snapshots' : TipIn(snapshots'[s].tips, snapshots'[s].hashes)
  BY <1>3, <1>7, <1>8, SaveBacked DEF SnapshotsBacked
<1>10. TipBacked'
  BY <1>3, <1>7, <1>9 DEF TipBacked, TipIn
<1>11. QED
  BY <1>5, <1>10 DEF BufferTipInv

\* A fresh processor over trees whose tip is backed.
LEMMA FreshInv ==
    ASSUME rollback_buffer' = <<>>, phase' \in {"connected", "down"},
           TipIn(chain_tip_tree, block_hash_index)', SnapshotsBacked'
    PROVE  BufferTipInv'
<1>1. phase' \notin RollingBack /\ phase' \notin Processing
  BY DEF RollingBack, Processing
<1>2. /\ Len(<<>>) <= BufferSize
      /\ Sorted(<<>>)
      /\ AllWritten(<<>>, current_slot', block_hash_index')
  BY EmptyBuffer
<1>3. BufferInv'
  BY <1>1, <1>2 DEF BufferInv, Sorted, AllWritten
<1>4. TipBacked'
  BY DEF TipBacked, SnapshotsBacked
<1>5. QED
  BY <1>3, <1>4 DEF BufferTipInv

LEMMA StartInv ==
    ASSUME BufferTipInv, NEW W \in WalletSets, Start(W)
    PROVE  BufferTipInv'
<1>1. PICK S \in LatestSnapshots : Load(S) /\ NewProcessor(W, S.tips)
  BY DEF Start
<1>2. SnapshotsBacked /\ snapshots' = snapshots
  BY DEF BufferTipInv, TipBacked, SnapshotsBacked, Start
<1>3. TipIn(S.tips, S.hashes)
  <2>1. CASE S = EmptyTrees
    BY <2>1 DEF EmptyTrees, NoTree, TipIn
  <2>2. CASE \E s \in DOMAIN snapshots : S = snapshots[s]
    BY <1>2, <2>2 DEF SnapshotsBacked
  <2>3. QED
    BY <2>1, <2>2 DEF LatestSnapshots
<1>4. TipIn(chain_tip_tree, block_hash_index)'
  BY <1>1, <1>3 DEF Load, TipIn
<1>5. rollback_buffer' = <<>> /\ phase' = "connected"
  BY <1>1 DEF NewProcessor, Start
<1>6. SnapshotsBacked'
  BY <1>2 DEF SnapshotsBacked, TipIn
<1>7. QED
  BY <1>4, <1>5, <1>6, FreshInv

LEMMA StopInv ==
    ASSUME TypeOK, BufferTipInv, (\E saved \in BOOLEAN : Shutdown(saved)) \/ Crash
    PROVE  BufferTipInv'
<1>1. Exit
  BY DEF Shutdown, Crash
<1>2. TipIn(chain_tip_tree, block_hash_index)'
  BY <1>1 DEF Exit, Load, EmptyTrees, NoTree, TipIn
<1>3. rollback_buffer' = <<>> /\ phase' = "down"
  BY <1>1 DEF Exit, NewProcessor
<1>4. SnapshotsBacked
  BY DEF BufferTipInv, TipBacked, SnapshotsBacked
<1>5. ASSUME UNCHANGED snapshots PROVE SnapshotsBacked'
  BY <1>4, <1>5 DEF SnapshotsBacked, TipIn
<1>6. ASSUME phase \in {"connected", "idle"},
             snapshots' = Insert(snapshots, current_slot,
                 SavedTrees(block_hash_index, CurrentTips(rollback_buffer), HistoryNow))
      PROVE  SnapshotsBacked'
  <2>1. phase \notin RollingBack
    BY <1>6 DEF RollingBack
  <2>2. rollback_buffer \in Seq(RollbackInfo)
    BY DEF TypeOK, ProcessorTyped
  <2>3. TipIn(CurrentTips(rollback_buffer), block_hash_index)
    BY <2>1, <2>2, CurrentTipsBacked DEF BufferTipInv, BufferInv, TipBacked
  <2>4. \A s \in DOMAIN snapshots' : TipIn(snapshots'[s].tips, snapshots'[s].hashes)
    BY <1>4, <1>6, <2>3, SaveBacked
  <2>5. QED
    BY <2>4 DEF SnapshotsBacked, TipIn
<1>7. SnapshotsBacked'
  BY <1>5, <1>6 DEF Shutdown, Crash
<1>8. QED
  BY <1>2, <1>3, <1>7, FreshInv

LEMMA InitInv == Init => BufferTipInv
<1>. SUFFICES ASSUME Init PROVE BufferTipInv
  OBVIOUS
<1>1. /\ rollback_buffer = <<>>
      /\ phase = "down"
      /\ chain_tip_tree = NoTree
      /\ snapshots = NoTree
  BY DEF Init, ProcessorInit, StorageInit
<1>2. phase \notin RollingBack /\ phase \notin Processing
  BY <1>1 DEF RollingBack, Processing
<1>3. BufferInv
  BY <1>1, <1>2, EmptyBuffer DEF BufferInv
<1>4. TipBacked
  BY <1>1 DEF TipBacked, TipIn, NoTree
<1>5. QED
  BY <1>3, <1>4 DEF BufferTipInv

(***************************************************************************)
(* The strengthening holds in every reachable state of run_chain_sync and  *)
(* the processor: with what survives a rollback in progress, and with the  *)
(* block being processed not older than the buffer.                        *)
(***************************************************************************)
THEOREM BufferTipInvariant == Spec => []BufferTipInv
<1>1. TypeOK /\ BufferTipInv /\ [Next]_vars => BufferTipInv'
  <2>. SUFFICES ASSUME TypeOK, BufferTipInv, [Next]_vars PROVE BufferTipInv'
    OBVIOUS
  <2>1. CASE \E W \in WalletSets : Start(W)
    BY <2>1, StartInv
  <2>2. CASE \E b \in Blocks : RollForward(b)
    BY <2>2, RollForwardInv
  <2>3. CASE FirstResponse
    BY <2>3, RollBackwardInv DEF FirstResponse
  <2>4. CASE \E p \in Point : Rollback(p)
    BY <2>4, RollBackwardInv DEF Rollback
  <2>5. CASE Step
    BY <2>5, BlockStepInv, RollbackStepInv DEF Step
  <2>6. CASE Fail
    BY <2>6, FailInv
  <2>7. CASE \E snap \in BOOLEAN : Finish(snap)
    BY <2>7, FinishInv
  <2>8. CASE (\E saved \in BOOLEAN : Shutdown(saved)) \/ Crash
    BY <2>8, StopInv
  <2>9. CASE Await \/ UNCHANGED vars
    <3>1. UNCHANGED <<kept, phase, info, target_slot>>
      BY <2>9 DEF Await, vars, trees, procVars, kept
    <3>2. CASE phase \in RollingBack
      BY <3>1, <3>2, KeepRollingInv
    <3>3. CASE phase \notin RollingBack
      BY <3>1, <3>3, KeepInv
    <3>4. QED
      BY <3>2, <3>3
  <2>10. QED
    BY <2>1, <2>2, <2>3, <2>4, <2>5, <2>6, <2>7, <2>8, <2>9 DEF Next
<1>2. QED
  BY InitInv, TypeCorrect, <1>1, PTL DEF Spec

(***************************************************************************)
(* The rollback buffer is bounded, ordered by slot and made of written     *)
(* blocks whenever no rollback is under way, through ignored rollbacks,    *)
(* failed and late blocks and restarts.                                    *)
(***************************************************************************)
THEOREM BufferStaysSound == Spec => []BufferSound
<1>1. BufferTipInv => BufferSound
  BY DEF BufferTipInv, BufferInv, BufferSound, Sorted, AllWritten
<1>2. QED
  BY BufferTipInvariant, <1>1, PTL

(***************************************************************************)
(* The stored tip, in memory and in every snapshot, never names a block    *)
(* whose data is missing next to it.                                       *)
(***************************************************************************)
THEOREM TipStaysBacked == Spec => []TipBacked
<1>1. BufferTipInv => TipBacked
  BY DEF BufferTipInv
<1>2. QED
  BY BufferTipInvariant, <1>1, PTL

=============================================================================
