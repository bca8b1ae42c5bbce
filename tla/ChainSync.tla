------------------------------ MODULE ChainSync ------------------------------
(***************************************************************************)
(* run_chain_sync (src/main.rs) over HayateSync (src/chain_sync.rs): the   *)
(* session that asks a node for the next block or rollback and hands it to *)
(* the block processor, the graceful shutdown, the crash, and the start of *)
(* the next session from whatever the snapshots kept.                      *)
(*                                                                         *)
(* The node is the environment: it may announce any block that extends the *)
(* point it last announced, roll back to any point of that chain, or have  *)
(* nothing to say.  The first thing it sends in a session is a rollback to *)
(* the intersection.                                                       *)
(***************************************************************************)
EXTENDS BlockProcessor, FiniteSetsExt

CONSTANTS
    WalletSets,  \* the sets of wallets the configuration may name
    MaxMsgs,     \* bound: blocks and rollbacks announced in all sessions
    MaxStops     \* bound: sessions that end

ASSUME ChainSyncConstants ==
    /\ WalletSets \subseteq SUBSET WalletIds
    /\ WalletSets # {}
    /\ MaxMsgs \in Nat
    /\ MaxStops \in Nat

VARIABLES
    cursor,      \* the point the node last announced
    msgs, stops, \* how much of the two bounds is used

    (***********************************************************************)
    (* History, read by the properties and by no action:                   *)
    (*   exact      nothing has happened yet that leaves the trees behind  *)
    (*              the announced chain: a block rejected or failed, a     *)
    (*              rollback ignored or deeper than the buffer, a session  *)
    (*              started elsewhere than where its snapshot was taken    *)
    (*   balanced   no restart has emptied the balance tree                *)
    (***********************************************************************)
    exact, balanced

syncVars == <<cursor, msgs, stops, exact, balanced>>

vars == <<trees, snapshots, procVars, syncVars>>

Init ==
    /\ StorageInit
    /\ ProcessorInit
    /\ cursor = Origin
    /\ msgs = 0
    /\ stops = 0
    /\ exact = TRUE
    /\ balanced = TRUE

-----------------------------------------------------------------------------
(* Starting: add_network opens the storage, run_chain_sync builds the      *)
(* session.                                                                *)

\* find_intersect with the resume point alone.  Its answer is not looked at:
\* when the node does not have the point, it serves the chain from the origin.
Intersections(tip) == {tip.hash, Origin}

Start(W) ==
    /\ phase = "down"
    /\ \E S \in LatestSnapshots :
       /\ Load(S)
       /\ NewProcessor(W, S.tips)
       /\ \E tip \in MinTips(S.tips, W) : cursor' \in Intersections(tip)
       /\ exact' = ( /\ S.history.exact
                     /\ S.history.at = cursor'
                     /\ S.history.at = Origin \/ S.history.filter = filter')
       /\ balanced' = (DOMAIN S.utxos = {})
    /\ phase' = "connected"
    /\ UNCHANGED <<snapshots, msgs, stops>>

-----------------------------------------------------------------------------
(* The session loop.                                                       *)

RollForward(b) ==
    /\ phase = "idle"
    /\ msgs < MaxMsgs
    /\ PrevOf(b) = cursor
    /\ \/ BeginBlock(b) /\ UNCHANGED exact
       \/ RejectBlock(b) /\ exact' = FALSE
    /\ cursor' = b
    /\ msgs' = msgs + 1
    /\ UNCHANGED <<stops, balanced>>

PointSlot(p) == IF p = Origin THEN 0 ELSE SlotOf[p]

\* The blocks a rollback to p leaves behind can all be undone.
Undoable(p) ==
    \A b \in BlocksOf(cursor) \ BlocksOf(p) :
        /\ SlotOf[b] > PointSlot(p)
        /\ \E i \in DOMAIN rollback_buffer : rollback_buffer[i].block = b

RollBackward(p) ==
    /\ \/ IgnoreRollback(PointSlot(p)) /\ exact' = (exact /\ p = cursor)
       \/ BeginRollback(PointSlot(p)) /\ exact' = (exact /\ Undoable(p))
    /\ cursor' = p
    /\ UNCHANGED <<stops, balanced>>

FirstResponse ==
    /\ phase = "connected"
    /\ RollBackward(cursor)
    /\ UNCHANGED msgs

Rollback(p) ==
    /\ phase = "idle"
    /\ msgs < MaxMsgs
    /\ p \in PointsOf(cursor) \ {cursor}
    /\ RollBackward(p)
    /\ msgs' = msgs + 1

Await == phase = "idle" /\ UNCHANGED vars

\* The processor's own steps.
Step == (BlockStep \/ RollbackStep) /\ UNCHANGED syncVars

Fail == FailBlock /\ exact' = FALSE /\ UNCHANGED <<cursor, msgs, stops, balanced>>

HistoryNow == [at |-> cursor, exact |-> exact, filter |-> filter]

Finish(snap) ==
    /\ FinishBlock(snap, HistoryNow)
    /\ UNCHANGED <<cursor, msgs, stops, exact, balanced>>

-----------------------------------------------------------------------------
(* Stopping: the process is gone and with it everything but the snapshots. *)

Exit ==
    /\ stops < MaxStops
    /\ stops' = stops + 1
    /\ Load(EmptyTrees)
    /\ NewProcessor({}, NoTree)
    /\ phase' = "down"
    /\ cursor' = Origin
    /\ exact' = TRUE
    /\ balanced' = TRUE
    /\ UNCHANGED msgs

\* SIGINT or SIGTERM, seen by the select between two responses: the tips are
\* saved and a last snapshot is tried; if it fails that is logged.
Shutdown(saved) ==
    /\ phase \in {"connected", "idle"}
    /\ snapshots' =
        IF saved THEN Insert(snapshots, current_slot,
                        SavedTrees(block_hash_index, CurrentTips(rollback_buffer), HistoryNow))
        ELSE snapshots
    /\ Exit

\* A crash at any moment, or the connection lost: `next_result?` returns
\* from run_chain_sync before the tips are saved, and the process ends.
Crash ==
    /\ phase # "down"
    /\ Exit
    /\ UNCHANGED snapshots

Next ==
    \/ \E W \in WalletSets : Start(W)
    \/ \E b \in Blocks : RollForward(b)
    \/ FirstResponse
    \/ \E p \in Point : Rollback(p)
    \/ Await
    \/ Step
    \/ Fail
    \/ \E snap \in BOOLEAN : Finish(snap)
    \/ \E saved \in BOOLEAN : Shutdown(saved)
    \/ Crash

\* The tokio task that runs process_block or rollback_to is polled until the
\* call returns.  Nothing is assumed of the node, of signals or of crashes.
Fairness == WF_vars(Step \/ Fail \/ \E snap \in BOOLEAN : Finish(snap))

Spec == Init /\ [][Next]_vars /\ Fairness

-----------------------------------------------------------------------------
(* Type correctness of the whole: trees, snapshots, processor, session.    *)

SessionTyped ==
    /\ cursor \in Point
    /\ msgs \in Nat
    /\ stops \in Nat

FlagsTyped == epoch_boundary \in BOOLEAN /\ exact \in BOOLEAN /\ balanced \in BOOLEAN

TypeOK ==
    /\ TreesTyped
    /\ SnapshotsTyped
    /\ ProcessorTyped
    /\ SessionTyped
    /\ FlagsTyped

-----------------------------------------------------------------------------
Coherent(index, utxos) == index = {<<AddressOf(k), k>> : k \in DOMAIN utxos}

(***************************************************************************)
(* The address index names exactly the outputs in the UTxO tree, each      *)
(* under its own address, in memory and in every snapshot.  process_input, *)
(* process_output and rollback_block write the two trees separately;       *)
(* ReadUtxos trusts the index and SearchUtxos the tree, so they must never *)
(* drift apart, not after a failed block, a replay over old data, or a     *)
(* crash.                                                                  *)
(***************************************************************************)
IndexCoherent ==
    /\ Coherent(address_utxo_index, utxo_tree)
    /\ \A s \in DOMAIN snapshots : Coherent(snapshots[s].address_utxos, snapshots[s].utxos)

(***************************************************************************)
(* The reference: what the chain that ends in p says, by definition and    *)
(* without processing it block by block.                                   *)
(***************************************************************************)
CreatedOn(p) == {k \in UNION {OutputKeys(t) : t \in TxsOn(p)} : AddressOf(k) \in filter}

SpenderOn(p, k) == {t \in TxsOn(p) : k \in InputKeys(t)}

SpentOn(p) == {k \in CreatedOn(p) : SpenderOn(p, k) # {}}

BlockOf(p, t) == CHOOSE b \in BlocksOf(p) : t \in TxsIn(b)

Mirrored == phase = "idle" /\ exact

(***************************************************************************)
(* As long as no known limit of the code has been hit (`exact`), the UTxO  *)
(* set, the spend records and the block index between two responses are    *)
(* the ones of the announced chain: rollbacks undo in-block spends, spends *)
(* of older outputs and re-included transactions, and a graceful restart   *)
(* resumes where it stopped.                                               *)
(***************************************************************************)
MirrorsChain ==
    Mirrored =>
        /\ utxo_tree = [k \in CreatedOn(cursor) \ SpentOn(cursor) |-> BlockOf(cursor, k[1])]
        /\ spent_utxo_index =
            [k \in SpentOn(cursor) |->
                LET t == CHOOSE t \in SpenderOn(cursor, k) : TRUE IN
                [block |-> BlockOf(cursor, t), tx |-> t]]
        /\ block_hash_index = BlocksOf(cursor)

EventsAt(slot) ==
    {block_events_tree[x] : x \in {y \in DOMAIN block_events_tree : y[1] = slot}}

\* What ReadUtxoEvents should report for block b of the chain that ends in p:
\* an output created and spent in the same block has only its SPENT event.
EventsOf(p, b) ==
    LET spent   == {k \in SpentOn(p) : SpenderOn(p, k) \cap TxsIn(b) # {}}
        created == {k \in CreatedOn(p) : k[1] \in TxsIn(b)} \ spent IN
    {[type |-> "CREATED", key |-> k, block |-> b] : k \in created}
        \cup {[type |-> "SPENT", key |-> k, block |-> b] : k \in spent}

(***************************************************************************)
(* Under the same condition the event log of every slot is the one of the  *)
(* announced block at that slot: no event of a block that was rolled back  *)
(* survives, even when the new fork has a block at the same slot with      *)
(* fewer events.                                                           *)
(***************************************************************************)
EventsMirrorChain ==
    Mirrored =>
        /\ \A b \in BlocksOf(cursor) : EventsAt(SlotOf[b]) = EventsOf(cursor, b)
        /\ \A x \in DOMAIN block_events_tree : \E b \in BlocksOf(cursor) : SlotOf[b] = x[1]

(***************************************************************************)
(* The events of a slot are numbered without a gap, from 0.  rollback_block*)
(* deletes up to the first missing number, so a gap would leave events     *)
(* behind for good.                                                        *)
(***************************************************************************)
EventsContiguous ==
    \A x \in DOMAIN block_events_tree :
        \A i \in 0 .. x[2] : <<x[1], i>> \in DOMAIN block_events_tree

UtxosAt(a) == {k \in DOMAIN utxo_tree : AddressOf(k) = a}

Total(a) == MapThenSumSet(AmountOf, UtxosAt(a))

(***************************************************************************)
(* Within the session that built them, balances are the sums of the UTxOs: *)
(* no saturating_sub of process_input or rollback_block ever saturates.    *)
(***************************************************************************)
BalancesExact ==
    (Mirrored /\ balanced) => \A a \in Addresses : balance_tree[a] = Total(a)

TouchedBy(t) ==
    {AddressOf(k) : k \in OutputKeys(t) \cup InputKeys(t)} \cap filter

(***************************************************************************)
(* Every transaction of the announced chain is in the history of every     *)
(* tracked address it pays or spends from, and in the indexes of the       *)
(* tracked tokens it carries.                                              *)
(***************************************************************************)
HistoryComplete ==
    Mirrored =>
        \A t \in TxsOn(cursor) :
            /\ TouchedBy(t) \X {t} \subseteq address_tx_index
            /\ TrackedPolicies(t) \X {t} \subseteq policy_tx_index
            /\ TrackedAssets(t) \X {t} \subseteq asset_tx_index

(***************************************************************************)
(* What rollback_to relies on when it pops blocks until one is not above   *)
(* the target: the buffer is ordered by slot, ends at or below the current *)
(* slot, is never longer than its limit, and every block in it has been    *)
(* written.  This must survive ignored rollbacks, after which blocks of    *)
(* two forks share the buffer.                                             *)
(***************************************************************************)
BufferSound ==
    /\ Len(rollback_buffer) <= BufferSize
    /\ \A i, j \in DOMAIN rollback_buffer :
          i <= j => SlotOf[rollback_buffer[i].block] <= SlotOf[rollback_buffer[j].block]
    /\ phase \notin RollingBack =>
          \A i \in DOMAIN rollback_buffer :
              /\ SlotOf[rollback_buffer[i].block] <= current_slot
              /\ rollback_buffer[i].block \in block_hash_index

(***************************************************************************)
(* The stored chain tip, when it names a block, names one whose data is in *)
(* the trees next to it, in memory and in every snapshot: resuming from a  *)
(* tip ahead of the data would skip blocks for ever.                       *)
(***************************************************************************)
TipIn(tips, hashes) ==
    "current_tip" \in DOMAIN tips => tips["current_tip"].hash \in hashes \cup {Origin}

TipBacked ==
    /\ phase \notin RollingBack => TipIn(chain_tip_tree, block_hash_index)
    /\ \A s \in DOMAIN snapshots : TipIn(snapshots[s].tips, snapshots[s].hashes)

(***************************************************************************)
(* A block or a rollback that has been started ends, with the process or   *)
(* before it: no loop of process_block or rollback_to runs for ever.       *)
(***************************************************************************)
Settles == phase \in Processing \cup RollingBack ~> phase \in {"idle", "down"}

-----------------------------------------------------------------------------
(* What comments in the code say, and the code does not do.                *)

\* rollback_to: "This will undo all blocks after the target slot".
RollbackUndoesBlocks ==
    phase = "idle" => \A b \in block_hash_index : SlotOf[b] <= PointSlot(cursor)

\* save_all_snapshots on the balance tree: "It's derived from utxo_tree so
\* can be reconstructed on restore".
BalancesDerived == phase = "idle" => \A a \in Addresses : balance_tree[a] = Total(a)

=============================================================================
