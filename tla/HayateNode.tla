----------------------------- MODULE HayateNode -----------------------------
(***************************************************************************)
(* hayate-node (src/node/main.rs) over its storage (src/node/storage.rs)   *)
(* and HayateSync (src/chain_sync.rs): a full UTxO set, the stake of every *)
(* credential kept in memory along with it, and at the first block of an   *)
(* epoch a nonce and a distribution of stake.                              *)
(*                                                                         *)
(* The node it follows is the environment.  It may adopt a longer or       *)
(* another chain at any time; hayate-node only logs the rollback, and is   *)
(* then sent the blocks of the other fork.  The trees are written without  *)
(* snapshots, so a process that is started again starts with empty trees.  *)
(***************************************************************************)
EXTENDS CardanoChain, FiniteSetsExt, SequencesExt

CONSTANTS
    Credentials,   \* stake credentials
    StakeOf,       \* address -> its stake credential, or NoStake
    NoStake,
    HasVrf,        \* the blocks whose header is of an era parse_block_with_nonce reads
    Unparsable,    \* the blocks that pallas does not decode
    BadOutputs,    \* the outputs whose address does not parse
    EpochLength,
    MaxSwitches,   \* bound: chains the followed node adopts
    MaxRestarts    \* bound: crashes of hayate-node

ASSUME NodeConstants ==
    /\ NoStake \notin Credentials
    /\ StakeOf \in [Addresses -> Credentials \cup {NoStake}]
    /\ HasVrf \subseteq Blocks /\ Unparsable \subseteq Blocks
    /\ EpochLength \in Nat \ {0}
    /\ MaxSwitches \in Nat /\ MaxRestarts \in Nat
    /\ \A k \in Key : AmountOf(k) > 0

\* A transaction the chain constants give no input spends an output of the
\* genesis, which is in no block.
GenesisKey(tx) == <<tx, 0>>

InputsSeen(tx) == IF InputsOf[tx] = <<>> THEN <<GenesisKey(tx)>> ELSE InputsOf[tx]

AnyKey == Key \cup {GenesisKey(tx) : tx \in Txs}

VARIABLES
    node_tip,       \* the tip of the node
    cursor,         \* the point it has announced last
    utxo_tree,      \* key -> "absent", "live", or "spent" (the empty value)
    stake_tree,     \* epoch -> the distribution stored for it, if any
    nonce_tree,     \* epoch -> the nonce stored for it, if any
    chain_tip,      \* the stored tip
    current_stake,  \* credential -> lovelace (0: no entry)
    rolling_nonce,  \* the blocks folded into it, in order (<<>>: None)
    current_epoch,
    loop,           \* the main loop: what it is doing, with which block, where
    switches, restarts, \* how much of the bounds is used
    past            \* history, since the start: a block was skipped or failed, a
                    \* rollback ignored, a rollback ignored after a failed block

trees == <<utxo_tree, stake_tree, nonce_tree, chain_tip>>
memory == <<current_stake, rolling_nonce, current_epoch, loop>>
env == <<node_tip, switches, restarts>>
vars == <<trees, memory, env, cursor, past>>

Idle == [at |-> "ask", block |-> Origin, pos |-> 0]

NothingStored == [e \in {} |-> {}]

NoUtxos == [k \in AnyKey |-> "absent"]

NoStakes == [c \in Credentials |-> 0]

NoPast == [failed |-> FALSE, rolled |-> FALSE, risky |-> FALSE]

\* NodeStorage::open, and the first steps of main
Init ==
    /\ node_tip = Origin /\ cursor = Origin
    /\ utxo_tree = NoUtxos
    /\ stake_tree = NothingStored /\ nonce_tree = NothingStored
    /\ chain_tip = Origin
    /\ current_stake = NoStakes
    /\ rolling_nonce = <<>>
    /\ current_epoch = 0
    /\ loop = Idle
    /\ switches = 0 /\ restarts = 0
    /\ past = NoPast

-----------------------------------------------------------------------------
(* The node.                                                               *)

Switch(p) ==
    /\ switches < MaxSwitches
    /\ Len(ChainOf(p)) > Len(ChainOf(node_tip))
    /\ node_tip' = p
    /\ switches' = switches + 1
    /\ UNCHANGED <<trees, memory, cursor, restarts, past>>

-----------------------------------------------------------------------------
(* The main loop asks for the next response while it is not awaiting.      *)

AfterFailure == [past EXCEPT !.failed = TRUE]

AfterRollback == [past EXCEPT !.rolled = TRUE, !.risky = @ \/ past.failed]

At(step) == loop.at = step

\* The last point of the announced chain that the node still has.
Intersection ==
    CHOOSE p \in PointsOf(cursor) \cap PointsOf(node_tip) :
        \A q \in PointsOf(cursor) \cap PointsOf(node_tip) : Len(ChainOf(q)) <= Len(ChainOf(p))

\* A block that does not decode is logged and skipped.  The rolling nonce
\* takes the block's VRF output before the block is processed.
RollForward ==
    /\ At("ask")
    /\ cursor \in PointsOf(node_tip) \ {node_tip}
    /\ LET b == ChainOf(node_tip)[Len(ChainOf(cursor)) + 1] IN
       /\ cursor' = b
       /\ IF b \in Unparsable
          THEN past' = AfterFailure /\ UNCHANGED <<rolling_nonce, loop>>
          ELSE /\ rolling_nonce' = IF b \in HasVrf THEN Append(rolling_nonce, b) ELSE rolling_nonce
               /\ loop' = [at |-> "block", block |-> b, tx |-> 1, item |-> 1]
               /\ UNCHANGED past
    /\ UNCHANGED <<trees, current_stake, current_epoch, env>>

\* "TODO: Implement rollback logic"
RollBackward ==
    /\ At("ask")
    /\ cursor \notin PointsOf(node_tip)
    /\ cursor' = Intersection
    /\ past' = AfterRollback
    /\ UNCHANGED <<trees, memory, env>>

\* "Caught up, waiting for new blocks...": from then on the loop only sleeps.
Await ==
    /\ At("ask")
    /\ cursor = node_tip
    /\ loop' = [loop EXCEPT !.at = "awaiting"]
    /\ UNCHANGED <<trees, current_stake, rolling_nonce, current_epoch, env, cursor, past>>

-----------------------------------------------------------------------------
(* process_block_simple: for every transaction its inputs, then its        *)
(* outputs.  An error leaves what was written and gives the block up.      *)

Tx == TxsOf[loop.block][loop.tx]

Processing == At("block") /\ loop.tx <= Len(TxsOf[loop.block])

OnInput == loop.item <= Len(InputsSeen(Tx))

ItemKey == IF OnInput THEN InputsSeen(Tx)[loop.item]
           ELSE <<Tx, loop.item - Len(InputsSeen(Tx))>>

Advanced ==
    IF loop.item < Len(InputsSeen(Tx)) + Len(OutputsOf[Tx])
    THEN [loop EXCEPT !.item = @ + 1]
    ELSE [loop EXCEPT !.tx = @ + 1, !.item = 1]

\* As if the empty value were read as no value.
NeverUnreadable(k) == FALSE

\* The empty value of a removed output does not deserialize.
Unreadable(k) == utxo_tree[k] = "spent"

Failing == IF OnInput THEN Unreadable(ItemKey) ELSE ItemKey \in BadOutputs

\* As if the loop went on after the error to the epoch and the tip.
TipAnyway == [loop EXCEPT !.tx = Len(TxsOf[loop.block]) + 1]

\* `continue`: the block is neither counted nor made the tip.
GivenUp == Idle

FailBlock ==
    /\ Processing
    /\ Failing
    /\ loop' = GivenUp
    /\ past' = AfterFailure
    /\ UNCHANGED <<trees, current_stake, rolling_nonce, current_epoch, env, cursor>>

\* As if a removed output kept its stake.
Kept(k) == current_stake

\* saturating_sub; an entry that reaches 0 is removed
Debited(k) ==
    IF utxo_tree[k] # "live" \/ StakeOf[AddressOf(k)] = NoStake THEN current_stake
    ELSE [current_stake EXCEPT ![StakeOf[AddressOf(k)]] =
             IF @ < AmountOf(k) THEN 0 ELSE @ - AmountOf(k)]

\* The empty value is stored also for an output that was never there.
RemoveUtxo ==
    /\ Processing
    /\ OnInput
    /\ ~Failing
    /\ utxo_tree' = [utxo_tree EXCEPT ![ItemKey] = "spent"]
    /\ current_stake' = Debited(ItemKey)
    /\ loop' = Advanced
    /\ UNCHANGED <<stake_tree, nonce_tree, chain_tip, rolling_nonce, current_epoch, env,
                   cursor, past>>

Credited(k) ==
    IF StakeOf[AddressOf(k)] = NoStake THEN current_stake
    ELSE [current_stake EXCEPT ![StakeOf[AddressOf(k)]] = @ + AmountOf(k)]

InsertUtxo ==
    /\ Processing
    /\ ~OnInput
    /\ ~Failing
    /\ utxo_tree' = [utxo_tree EXCEPT ![ItemKey] = "live"]
    /\ current_stake' = Credited(ItemKey)
    /\ loop' = Advanced
    /\ UNCHANGED <<stake_tree, nonce_tree, chain_tip, rolling_nonce, current_epoch, env,
                   cursor, past>>

-----------------------------------------------------------------------------
(* After the block: the epoch, then the tip.                               *)

slot_to_epoch(slot) == slot \div EpochLength

\* snapshot_stake_distribution
Distribution == [c \in {d \in Credentials : current_stake[d] > 0} |-> current_stake[c]]

Stored(tree, epoch, value) ==
    [e \in DOMAIN tree \cup {epoch} |-> IF e = epoch THEN value ELSE tree[e]]

\* As if the epoch were not compared.
EveryBlock(epoch) == TRUE

NewEpoch(epoch) == epoch > current_epoch

FinishBlock ==
    /\ At("block")
    /\ ~Processing
    /\ LET epoch == slot_to_epoch(SlotOf[loop.block]) IN
       IF NewEpoch(epoch)
       THEN /\ nonce_tree' = IF rolling_nonce = <<>> THEN nonce_tree
                             ELSE Stored(nonce_tree, epoch, rolling_nonce)
            /\ stake_tree' = Stored(stake_tree, epoch, Distribution)
            /\ current_epoch' = epoch
       ELSE UNCHANGED <<nonce_tree, stake_tree, current_epoch>>
    /\ chain_tip' = loop.block
    /\ loop' = Idle
    /\ UNCHANGED <<utxo_tree, current_stake, rolling_nonce, env, cursor, past>>

\* A crash, a lost connection (`request_next().await?`) or a kill, and a new
\* process: it resumes from the stored tip, which no snapshot has kept.
Restart ==
    /\ restarts < MaxRestarts
    /\ restarts' = restarts + 1
    /\ utxo_tree' = NoUtxos
    /\ stake_tree' = NothingStored /\ nonce_tree' = NothingStored
    /\ chain_tip' = Origin /\ cursor' = Origin
    /\ current_stake' = NoStakes
    /\ rolling_nonce' = <<>>
    /\ current_epoch' = 0
    /\ loop' = Idle
    /\ past' = NoPast
    /\ UNCHANGED <<node_tip, switches>>

Sync == RollForward \/ RollBackward \/ Await \/ FailBlock \/ RemoveUtxo \/ InsertUtxo \/ FinishBlock

Next == (\E p \in Point : Switch(p)) \/ Sync \/ Restart

\* The main task is polled; nothing is assumed of the node or of crashes.
Spec == Init /\ [][Next]_vars /\ WF_vars(Sync)

-----------------------------------------------------------------------------
Epoch == {slot_to_epoch(SlotOf[b]) : b \in Blocks}

Loop == [at : {"ask", "awaiting"}, block : {Origin}, pos : {0}]
        \cup [at : {"block"}, block : Blocks, tx : Nat, item : Nat]

TypeOK ==
    /\ node_tip \in Point /\ cursor \in Point /\ chain_tip \in Point
    /\ utxo_tree \in [AnyKey -> {"absent", "live", "spent"}]
    /\ current_stake \in [Credentials -> Nat]
    /\ current_epoch \in Epoch \cup {0}
    /\ rolling_nonce \in Seq(HasVrf)
    /\ DOMAIN stake_tree \subseteq Epoch \ {0}
    /\ DOMAIN nonce_tree \subseteq DOMAIN stake_tree
    /\ loop \in Loop
    /\ past \in [failed : BOOLEAN, rolled : BOOLEAN, risky : BOOLEAN]

Total(c, keys) ==
    MapThenSumSet(AmountOf, {k \in keys : StakeOf[AddressOf(k)] = c})

Live == {k \in Key : utxo_tree[k] = "live"}

(***************************************************************************)
(* The stake counted along the way is the stake of the outputs in the      *)
(* tree, in the middle of a block, after a block that failed half-way, and *)
(* after forks whose transactions are sent again.                          *)
(***************************************************************************)
StakeIsLive == ~past.risky => \A c \in Credentials : current_stake[c] = Total(c, Live)

(***************************************************************************)
(* No block brings a spent output back, however often the transaction that *)
(* made it is sent; not so after a rollback over a failed block, where an  *)
(* output may have been marked spent before it was ever made.              *)
(***************************************************************************)
SpentStaysSpent ==
    [][\A k \in AnyKey :
          utxo_tree[k] = "spent" /\ ~past'.risky /\ restarts' = restarts
              => utxo_tree'[k] = "spent"]_vars

(***************************************************************************)
(* The stored tip names a block whose transactions have all been through   *)
(* the trees, whatever failed before: a block that fails half-way is never *)
(* made the tip.                                                           *)
(***************************************************************************)
Applied(b) ==
    \A tx \in TxsIn(b) :
        /\ \A k \in OutputKeys(tx) : utxo_tree[k] # "absent"
        /\ \A i \in DOMAIN InputsSeen(tx) : utxo_tree[InputsSeen(tx)[i]] # "absent"

TipApplied == chain_tip # Origin => Applied(chain_tip)

\* The ledger after a chain: what it has made and not spent.
Unspent(p) ==
    (UNION {OutputKeys(tx) : tx \in TxsOn(p)}) \ (UNION {InputKeys(tx) : tx \in TxsOn(p)})

\* The first block of the epoch on the way to p.
FirstOf(e, p) ==
    CHOOSE b \in BlocksOf(p) :
        /\ slot_to_epoch(SlotOf[b]) = e
        /\ \A a \in BlocksOf(PrevOf(b)) : slot_to_epoch(SlotOf[a]) < e

VrfsTo(p) == BlocksOf(p) \cap HasVrf

InOrder(s) == \A i, j \in DOMAIN s : i < j => SlotOf[s[i]] < SlotOf[s[j]]

FoldsVrfs(nonce, p) == nonce \in Seq(HasVrf) /\ Range(nonce) = VrfsTo(p) /\ InOrder(nonce)

StakeStored(e, p) ==
    \A c \in Credentials :
        Total(c, Unspent(p)) = IF c \in DOMAIN stake_tree[e] THEN stake_tree[e][c] ELSE 0

NonceStored(e, p) ==
    IF VrfsTo(p) = {} THEN e \notin DOMAIN nonce_tree
    ELSE e \in DOMAIN nonce_tree /\ FoldsVrfs(nonce_tree[e], p)

(***************************************************************************)
(* Without a rollback or a failing block: every epoch the chain has        *)
(* entered, but the first, has a distribution, and it is the stake in the  *)
(* ledger at the boundary, on one side or the other of the first block of  *)
(* that epoch: with nothing of an earlier block missing and nothing of a   *)
(* later one in it.  The nonce of the epoch is that of the VRF outputs up  *)
(* to that block, in order (process_block_simple and what follows it).     *)
(***************************************************************************)
SnapshotsExact ==
    ~past.failed /\ ~past.rolled =>
        /\ DOMAIN stake_tree = {slot_to_epoch(SlotOf[b]) : b \in BlocksOf(chain_tip)} \ {0}
        /\ \A e \in DOMAIN stake_tree :
              LET b == FirstOf(e, chain_tip)
              IN  (StakeStored(e, PrevOf(b)) \/ StakeStored(e, b)) /\ NonceStored(e, b)

(***************************************************************************)
(* What the log says of an answer that there is nothing yet ("Caught up,   *)
(* waiting for new blocks..."): a block the node has is stored in time.    *)
(***************************************************************************)
FollowsTheNode == \A p \in Point : (node_tip = p) ~> (chain_tip = p \/ node_tip # p)

=============================================================================
