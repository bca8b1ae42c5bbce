-------------------------- MODULE HayateNodeProofs --------------------------
(***************************************************************************)
(* Proofs about HayateNode: for every tree of blocks the followed node may *)
(* have, every choice of blocks and outputs that fail, every epoch length  *)
(* and every bound.                                                        *)
(***************************************************************************)
EXTENDS HayateNode, SumProofs, SequenceTheorems, WellFoundedInduction, TLAPS

-----------------------------------------------------------------------------
(* The constants.                                                          *)

LEMMA DivNat == \A n \in Nat, d \in Nat \ {0} : n \div d \in Nat
OBVIOUS

LEMMA EpochNat == \A b \in Blocks : slot_to_epoch(SlotOf[b]) \in Nat
BY DivNat, ChainTypes, NodeConstants DEF slot_to_epoch

LEMMA ChainFacts ==
    \A p \in Point : /\ ChainOf(p) \in Seq(Blocks)
                     /\ PointsOf(p) \subseteq Point
                     /\ Origin \in PointsOf(p)
<1>1. ASSUME NEW p \in Point PROVE ChainOf(p) \in Seq(Blocks)
  BY ChainTypes DEF ChainOf, Point
<1>2. ASSUME NEW p \in Point PROVE PointsOf(p) \subseteq Point
  BY <1>1, ElementOfSeq DEF PointsOf, BlocksOf, Point
<1>3. QED
  BY <1>1, <1>2 DEF PointsOf

\* The block after a point of a chain is a block.
LEMMA NextBlock ==
    ASSUME NEW t \in Point, NEW p \in PointsOf(t) \ {t}
    PROVE  /\ Len(ChainOf(p)) + 1 \in DOMAIN ChainOf(t)
           /\ ChainOf(t)[Len(ChainOf(p)) + 1] \in Blocks
<1>1. ChainOf(t) \in Seq(Blocks)
  BY ChainFacts
<1>2. Len(ChainOf(p)) + 1 \in DOMAIN ChainOf(t)
  <2>1. CASE p = Origin
    <3>1. t \in Blocks
      BY <2>1 DEF Point
    <3>2. t # Origin
      BY <3>1, ChainTypes
    <3>3. Len(ChainTo[t]) > 0
      BY <3>1, ChainShape
    <3>4. Len(ChainOf(t)) > 0 /\ Len(ChainOf(p)) = 0
      BY <2>1, <3>2, <3>3 DEF ChainOf
    <3>5. QED
      BY <1>1, <3>4
  <2>2. CASE p # Origin
    <3>1. PICK i \in DOMAIN ChainOf(t) : p = ChainOf(t)[i]
      BY <2>2 DEF PointsOf, BlocksOf
    <3>2. t \in Blocks /\ t # Origin
      BY <3>1, ChainTypes DEF ChainOf, Point
    <3>3. ChainOf(t) = ChainTo[t]
      BY <3>2 DEF ChainOf
    <3>4. ChainTo[p] = SubSeq(ChainTo[t], 1, i) /\ ChainTo[t][Len(ChainTo[t])] = t
      BY <3>1, <3>2, <3>3, ChainShape
    <3>5. i # Len(ChainTo[t])
      BY <3>1, <3>3, <3>4
    <3>6. i \in 1 .. Len(ChainTo[t]) /\ ChainTo[t] \in Seq(Blocks)
      BY <1>1, <3>1, <3>3
    <3>7. Len(SubSeq(ChainTo[t], 1, i)) = i
      BY <3>6
    <3>8. Len(ChainOf(p)) = i
      BY <2>2, <3>4, <3>7 DEF ChainOf
    <3>9. QED
      BY <3>3, <3>5, <3>6, <3>8
  <2>3. QED
    BY <2>1, <2>2
<1>3. QED
  BY <1>1, <1>2, ElementOfSeq

\* Two chains have a last point in common, for they have the origin.
LEMMA IntersectionFacts ==
    ASSUME cursor \in Point, node_tip \in Point
    PROVE  Intersection \in Point /\ Intersection \in PointsOf(cursor)
<1>. DEFINE S == PointsOf(cursor) \cap PointsOf(node_tip)
            L == Len(ChainOf(cursor))
            Below(p) == L - Len(ChainOf(p))
            T == {Below(p) : p \in S}
<1>1. S \subseteq Point /\ Origin \in S
  BY ChainFacts
<1>2. ChainOf(cursor) \in Seq(Blocks)
  BY ChainFacts
<1>3. ASSUME NEW p \in S PROVE Below(p) \in Nat /\ Len(ChainOf(p)) \in Nat
  <2>1. ChainOf(p) \in Seq(Blocks)
    BY <1>1, ChainFacts
  <2>2. CASE p = cursor
    BY <2>1, <2>2
  <2>3. CASE p # cursor
    <3>1. Len(ChainOf(p)) + 1 \in DOMAIN ChainOf(cursor)
      BY <2>3, NextBlock
    <3>2. QED
      BY <1>2, <2>1, <3>1
  <2>4. QED
    BY <2>2, <2>3
<1>4. T \subseteq Nat /\ T # {}
  BY <1>1, <1>3
<1>5. PICK x \in T : \A y \in T : <<y, x>> \notin OpToRel(<, Nat)
  <2>. HIDE DEF T
  <2>. QED
    BY <1>4, WFMin, NatLessThanWellFounded, Zenon
<1>6. \A y \in T : ~(y < x)
  <2>1. \A y \in T : y \in Nat /\ x \in Nat
    BY <1>4
  <2>. HIDE DEF T
  <2>. QED
    BY <1>5, <2>1, Zenon DEF OpToRel
<1>7. PICK p \in S : x = Below(p)
  OBVIOUS
<1>8. ASSUME NEW q \in S PROVE Len(ChainOf(q)) <= Len(ChainOf(p))
  <2>1. ~(Below(q) < Below(p))
    BY <1>6, <1>7
  <2>2. Len(ChainOf(q)) \in Nat /\ Len(ChainOf(p)) \in Nat /\ L \in Nat
    BY <1>2, <1>3, <1>7
  <2>3. QED
    BY <2>1, <2>2
<1>9. Intersection \in S
  BY <1>7, <1>8 DEF Intersection
<1>10. QED
  BY <1>1, <1>9

-----------------------------------------------------------------------------
(* A block in progress.                                                    *)

Items(tx) == 1 .. Len(InputsSeen(tx)) + Len(OutputsOf[tx])

\* The key of the i-th input or output.
ItemOf(tx, i) ==
    IF i <= Len(InputsSeen(tx)) THEN InputsSeen(tx)[i] ELSE <<tx, i - Len(InputsSeen(tx))>>

Seen(k) == utxo_tree[k] # "absent"

TxSeen(tx) == \A i \in Items(tx) : Seen(ItemOf(tx, i))

\* The transactions before loop.tx, and of that one the items before
\* loop.item, have been through the tree.
ProgressOK ==
    At("block") =>
        /\ loop.tx \in 1 .. Len(TxsOf[loop.block]) + 1
        /\ \A j \in 1 .. loop.tx - 1 : TxSeen(TxsOf[loop.block][j])
        /\ Processing => /\ loop.item \in Items(Tx)
                         /\ \A i \in 1 .. loop.item - 1 : Seen(ItemOf(Tx, i))

\* Only what transactions make is ever live: not an output of the genesis.
LiveKeys == \A k \in AnyKey : utxo_tree[k] = "live" => k \in Key

Inv == TypeOK /\ ProgressOK /\ TipApplied /\ LiveKeys

LEMMA ItemFacts ==
    ASSUME NEW tx \in Txs
    PROVE  /\ InputsSeen(tx) \in Seq(AnyKey) /\ OutputsOf[tx] \in Seq(Output)
           /\ Len(InputsSeen(tx)) \in Nat \ {0} /\ Len(OutputsOf[tx]) \in Nat
           /\ \A i \in Items(tx) : ItemOf(tx, i) \in AnyKey
<1>1. OutputsOf[tx] \in Seq(Output) /\ InputsOf[tx] \in Seq(Key)
  BY ChainTypes
<1>2. Key \subseteq AnyKey /\ GenesisKey(tx) \in AnyKey
  BY DEF AnyKey
<1>3. InputsSeen(tx) \in Seq(AnyKey) /\ Len(InputsSeen(tx)) \in Nat \ {0}
  <2>1. CASE InputsOf[tx] = <<>>
    <3>1. InputsSeen(tx) = <<GenesisKey(tx)>>
      BY <2>1 DEF InputsSeen
    <3>2. QED
      BY <1>2, <3>1
  <2>2. CASE InputsOf[tx] # <<>>
    <3>1. InputsSeen(tx) = InputsOf[tx]
      BY <2>2 DEF InputsSeen
    <3>2. InputsOf[tx] \in Seq(AnyKey) /\ Len(InputsOf[tx]) \in Nat
      BY <1>1, <1>2, SeqDef
    <3>3. Len(InputsOf[tx]) # 0
      BY <1>1, <2>2, EmptySeq
    <3>4. QED
      BY <3>1, <3>2, <3>3
  <2>3. QED
    BY <2>1, <2>2
<1>4. ASSUME NEW i \in Items(tx) PROVE ItemOf(tx, i) \in AnyKey
  <2>1. CASE i <= Len(InputsSeen(tx))
    BY <1>3, <2>1, ElementOfSeq DEF Items, ItemOf
  <2>2. CASE ~(i <= Len(InputsSeen(tx)))
    <3>1. i - Len(InputsSeen(tx)) \in 1 .. Len(OutputsOf[tx])
      BY <1>1, <1>3, <2>2 DEF Items
    <3>2. i - Len(InputsSeen(tx)) \in DOMAIN OutputsOf[tx]
      BY <1>1, <3>1
    <3>3. ItemOf(tx, i) \in Key
      BY <2>2, <3>2 DEF ItemOf, Key, OutputKeys
    <3>4. QED
      BY <1>2, <3>3
  <2>3. QED
    BY <2>1, <2>2
<1>5. QED
  BY <1>1, <1>3, <1>4

LEMMA One == \A m \in Nat \ {0}, n \in Nat : 1 \in 1 .. m + n
OBVIOUS

LEMMA FirstItem == \A tx \in Txs : 1 \in Items(tx)
BY One, ItemFacts DEF Items

\* Once every item of a transaction has been seen, so have the keys that
\* TipApplied names.
LEMMA SeenItems ==
    ASSUME NEW tx \in Txs, TxSeen(tx)
    PROVE  /\ \A k \in OutputKeys(tx) : utxo_tree[k] # "absent"
           /\ \A i \in DOMAIN InputsSeen(tx) : utxo_tree[InputsSeen(tx)[i]] # "absent"
<1>1. ASSUME NEW k \in OutputKeys(tx) PROVE utxo_tree[k] # "absent"
  <2>1. PICK i \in DOMAIN OutputsOf[tx] : k = <<tx, i>>
    BY DEF OutputKeys
  <2>2. i \in 1 .. Len(OutputsOf[tx])
    BY <2>1, ItemFacts
  <2>. DEFINE j == i + Len(InputsSeen(tx))
  <2>3. j \in Items(tx) /\ ~(j <= Len(InputsSeen(tx))) /\ j - Len(InputsSeen(tx)) = i
    BY <2>2, ItemFacts DEF Items
  <2>4. ItemOf(tx, j) = k
    BY <2>1, <2>3 DEF ItemOf
  <2>5. QED
    BY <2>3, <2>4 DEF TxSeen, Seen
<1>2. ASSUME NEW i \in DOMAIN InputsSeen(tx) PROVE utxo_tree[InputsSeen(tx)[i]] # "absent"
  <2>1. i \in Items(tx) /\ i <= Len(InputsSeen(tx))
    BY ItemFacts DEF Items
  <2>2. QED
    BY <2>1 DEF TxSeen, Seen, ItemOf
<1>3. QED
  BY <1>1, <1>2

\* The transaction under way, and what it may touch.
LEMMA TxFacts ==
    ASSUME TypeOK, ProgressOK, Processing
    PROVE  /\ loop.block \in Blocks /\ loop.tx \in Nat \ {0} /\ loop.item \in Nat \ {0}
           /\ loop = [at |-> "block", block |-> loop.block, tx |-> loop.tx, item |-> loop.item]
           /\ TxsOf[loop.block] \in Seq(Txs) /\ loop.tx \in DOMAIN TxsOf[loop.block]
           /\ Tx \in Txs
           /\ loop.item \in Items(Tx)
           /\ ItemKey = ItemOf(Tx, loop.item)
           /\ ItemKey \in AnyKey
           /\ ~OnInput => ItemKey \in Key
<1>1. loop \in [at : {"block"}, block : Blocks, tx : Nat, item : Nat]
  BY DEF TypeOK, Loop, Processing, At
<1>2. TxsOf[loop.block] \in Seq(Txs)
  BY <1>1, ChainTypes
<1>3. loop.tx \in DOMAIN TxsOf[loop.block]
  BY <1>1, <1>2 DEF ProgressOK, Processing
<1>4. Tx \in Txs
  BY <1>2, <1>3, ElementOfSeq DEF Tx
<1>5. loop.item \in Items(Tx)
  BY DEF ProgressOK, Processing
<1>6. ItemKey = ItemOf(Tx, loop.item)
  BY DEF ItemKey, ItemOf, OnInput
<1>7. ItemKey \in AnyKey
  BY <1>4, <1>5, <1>6, ItemFacts
<1>8. ASSUME ~OnInput PROVE ItemKey \in Key
  <2>1. loop.item - Len(InputsSeen(Tx)) \in 1 .. Len(OutputsOf[Tx])
    BY <1>4, <1>5, <1>8, ItemFacts DEF Items, OnInput
  <2>2. loop.item - Len(InputsSeen(Tx)) \in DOMAIN OutputsOf[Tx]
    BY <1>4, <2>1, ItemFacts
  <2>3. ItemKey = <<Tx, loop.item - Len(InputsSeen(Tx))>>
    BY <1>8 DEF ItemKey
  <2>4. QED
    BY <1>4, <2>2, <2>3 DEF Key, OutputKeys
<1>9. QED
  BY <1>1, <1>2, <1>3, <1>4, <1>5, <1>6, <1>7, <1>8 DEF ProgressOK, Processing, Items

-----------------------------------------------------------------------------
(* The steps.                                                              *)

LEMMA InitInv == Init => Inv
<1>. SUFFICES ASSUME Init PROVE Inv
  OBVIOUS
<1>1. TypeOK
  <2>1. utxo_tree \in [AnyKey -> {"absent", "live", "spent"}]
    BY DEF Init, NoUtxos
  <2>2. current_stake \in [Credentials -> Nat]
    BY DEF Init, NoStakes
  <2>3. DOMAIN stake_tree = {} /\ DOMAIN nonce_tree = {}
    BY DEF Init, NothingStored
  <2>4. loop \in Loop
    BY DEF Init, Loop, Idle
  <2>5. rolling_nonce \in Seq(HasVrf)
    BY DEF Init
  <2>6. past \in [failed : BOOLEAN, rolled : BOOLEAN, risky : BOOLEAN]
    BY DEF Init, NoPast
  <2>7. QED
    BY <2>1, <2>2, <2>3, <2>4, <2>5, <2>6 DEF Init, TypeOK, Point
<1>2. ProgressOK
  BY DEF Init, Idle, ProgressOK, At
<1>3. TipApplied /\ LiveKeys
  BY DEF Init, TipApplied, LiveKeys, NoUtxos
<1>4. QED
  BY <1>1, <1>2, <1>3 DEF Inv

\* Whatever leaves the tree, the tip and the place in the block alone.
LEMMA KeepProgress ==
    ASSUME ProgressOK, UNCHANGED <<utxo_tree, loop>>
    PROVE  ProgressOK'
BY DEF ProgressOK, Processing, At, Tx, TxSeen, Seen

LEMMA KeepTip ==
    TipApplied /\ LiveKeys /\ UNCHANGED <<utxo_tree, chain_tip>> => TipApplied' /\ LiveKeys'
BY DEF TipApplied, Applied, LiveKeys

LEMMA NoBlock == loop'.at # "block" => ProgressOK'
BY DEF ProgressOK, At

LEMMA SwitchInv ==
    ASSUME Inv, NEW p \in Point, Switch(p)
    PROVE  Inv'
<1>1. TypeOK'
  BY DEF Inv, TypeOK, Switch, trees, memory
<1>2. QED
  BY <1>1, KeepProgress, KeepTip DEF Inv, Switch, trees, memory

LEMMA RollForwardInv ==
    ASSUME Inv, RollForward
    PROVE  Inv'
<1>. DEFINE b == ChainOf(node_tip)[Len(ChainOf(cursor)) + 1]
<1>1. b \in Blocks
  BY NextBlock DEF Inv, TypeOK, RollForward
<1>2. UNCHANGED <<trees, current_stake, current_epoch, env>> /\ cursor' = b
  BY DEF RollForward
<1>3. /\ rolling_nonce' \in Seq(HasVrf)
      /\ past' \in [failed : BOOLEAN, rolled : BOOLEAN, risky : BOOLEAN]
      /\ \/ loop' = loop
         \/ loop' = [at |-> "block", block |-> b, tx |-> 1, item |-> 1]
  <2>1. CASE b \in Unparsable
    <3>1. past' = AfterFailure /\ UNCHANGED <<rolling_nonce, loop>>
      BY <2>1 DEF RollForward
    <3>2. QED
      BY <3>1 DEF Inv, TypeOK, AfterFailure
  <2>2. CASE b \notin Unparsable
    <3>1. /\ rolling_nonce' = IF b \in HasVrf THEN Append(rolling_nonce, b) ELSE rolling_nonce
          /\ loop' = [at |-> "block", block |-> b, tx |-> 1, item |-> 1]
          /\ UNCHANGED past
      BY <2>2 DEF RollForward
    <3>2. rolling_nonce' \in Seq(HasVrf)
      BY <3>1 DEF Inv, TypeOK
    <3>3. QED
      BY <3>1, <3>2 DEF Inv, TypeOK
  <2>3. QED
    BY <2>1, <2>2
<1>4. loop' \in Loop
  BY <1>1, <1>3 DEF Inv, TypeOK, Loop
<1>5. TypeOK'
  BY <1>1, <1>2, <1>3, <1>4 DEF Inv, TypeOK, trees, env, Point
<1>6. ProgressOK'
  <2>1. CASE loop' = loop
    BY <1>2, <2>1, KeepProgress DEF Inv, trees
  <2>2. CASE loop' = [at |-> "block", block |-> b, tx |-> 1, item |-> 1]
    <3>1. TxsOf[b] \in Seq(Txs)
      BY <1>1, ChainTypes
    <3>2. loop'.block = b /\ loop'.tx = 1 /\ loop'.item = 1
      BY <2>2
    <3>3. 1 \in 1 .. Len(TxsOf[b]) + 1 /\ 1 .. 1 - 1 = {}
      BY <3>1
    <3>4. ASSUME 1 <= Len(TxsOf[b])
          PROVE  1 \in Items(TxsOf[b][1])
      <4>1. TxsOf[b][1] \in Txs
        BY <3>1, <3>4, ElementOfSeq
      <4>2. QED
        BY <4>1, FirstItem
    <3>5. QED
      BY <3>2, <3>3, <3>4 DEF ProgressOK, Processing, Tx
  <2>3. QED
    BY <1>3, <2>1, <2>2
<1>7. TipApplied' /\ LiveKeys'
  BY <1>2, KeepTip DEF Inv, trees
<1>8. QED
  BY <1>5, <1>6, <1>7 DEF Inv

LEMMA RollBackwardInv ==
    ASSUME Inv, RollBackward
    PROVE  Inv'
<1>1. cursor' \in Point
  BY IntersectionFacts DEF Inv, TypeOK, RollBackward
<1>2. past' \in [failed : BOOLEAN, rolled : BOOLEAN, risky : BOOLEAN]
  BY DEF Inv, TypeOK, RollBackward, AfterRollback
<1>3. UNCHANGED <<trees, memory, env>>
  BY DEF RollBackward
<1>4. TypeOK'
  BY <1>1, <1>2, <1>3 DEF Inv, TypeOK, trees, memory, env
<1>5. QED
  BY <1>3, <1>4, KeepProgress, KeepTip DEF Inv, trees, memory

LEMMA AwaitInv ==
    ASSUME Inv, Await
    PROVE  Inv'
<1>1. loop' = [at |-> "awaiting", block |-> Origin, pos |-> 0]
  <2>1. loop \in [at : {"ask", "awaiting"}, block : {Origin}, pos : {0}]
    BY DEF Inv, TypeOK, Loop, Await, At
  <2>2. loop' = [loop EXCEPT !.at = "awaiting"]
    BY DEF Await
  <2>3. QED
    BY <2>1, <2>2
<1>2. loop' \in Loop
  BY <1>1 DEF Loop
<1>3. TypeOK'
  BY <1>2 DEF Inv, TypeOK, Await, trees, env
<1>4. QED
  BY <1>1, <1>3, NoBlock, KeepTip DEF Inv, Await, trees

LEMMA IdleInv ==
    ASSUME loop' = Idle
    PROVE  loop' \in Loop /\ ProgressOK'
BY NoBlock DEF Loop, Idle

LEMMA FailBlockInv ==
    ASSUME Inv, FailBlock
    PROVE  Inv'
<1>1. loop' = Idle
  BY DEF FailBlock, GivenUp
<1>2. past' \in [failed : BOOLEAN, rolled : BOOLEAN, risky : BOOLEAN]
  BY DEF Inv, TypeOK, FailBlock, AfterFailure
<1>3. TypeOK'
  BY <1>1, <1>2, IdleInv DEF Inv, TypeOK, FailBlock, trees, env
<1>4. QED
  BY <1>1, <1>3, IdleInv, KeepTip DEF Inv, FailBlock, trees

\* RemoveUtxo and InsertUtxo: one item goes through the tree.
LEMMA ItemStep ==
    ASSUME Inv, Processing, NEW v \in {"live", "spent"},
           utxo_tree' = [utxo_tree EXCEPT ![ItemKey] = v], loop' = Advanced,
           chain_tip' = chain_tip
    PROVE  /\ utxo_tree' \in [AnyKey -> {"absent", "live", "spent"}]
           /\ loop' \in Loop /\ ProgressOK' /\ TipApplied'
<1>. USE DEF Inv
<1>. DEFINE b == loop.block
            t == loop.tx
            n == loop.item
            x == Tx
            Now(k) == utxo_tree'[k] # "absent"
            TxNow(tx) == \A i \in Items(tx) : Now(ItemOf(tx, i))
<1>1. utxo_tree \in [AnyKey -> {"absent", "live", "spent"}]
  BY DEF TypeOK
<1>2. utxo_tree' \in [AnyKey -> {"absent", "live", "spent"}]
  BY <1>1
<1>3. /\ \A k \in AnyKey : Seen(k) => Now(k)
      /\ Now(ItemOf(x, n))
  BY <1>1, TxFacts DEF Seen
<1>4. ASSUME NEW tx \in Txs, TxSeen(tx) PROVE TxNow(tx)
  BY <1>3, <1>4, ItemFacts DEF TxSeen
<1>5. \A i \in 1 .. n : Now(ItemOf(x, i))
  <2>1. ASSUME NEW i \in 1 .. n PROVE Now(ItemOf(x, i))
    <3>1. i \in Items(Tx) /\ n \in Nat
      BY TxFacts DEF Items
    <3>2. CASE i = n
      BY <1>3, <3>2
    <3>3. CASE i # n
      <4>1. i \in 1 .. n - 1
        BY <3>1, <3>3
      <4>2. Seen(ItemOf(Tx, i))
        BY <4>1 DEF ProgressOK, Processing
      <4>3. QED
        BY <1>3, <3>1, <4>2, TxFacts, ItemFacts
    <3>4. QED
      BY <3>2, <3>3
  <2>2. QED
    BY <2>1
<1>6. TipApplied'
  <2>1. ASSUME chain_tip # Origin PROVE Applied(chain_tip)'
    <3>1. chain_tip \in Blocks
      BY <2>1 DEF TypeOK, Point
    <3>2. ASSUME NEW tx \in TxsIn(chain_tip)
          PROVE  /\ \A k \in OutputKeys(tx) : Now(k)
                 /\ \A i \in DOMAIN InputsSeen(tx) : Now(InputsSeen(tx)[i])
      <4>1. tx \in Txs
        BY <3>1, ChainTypes, ElementOfSeq DEF TxsIn
      <4>2. OutputKeys(tx) \subseteq AnyKey
        BY <4>1 DEF Key, AnyKey
      <4>3. \A i \in DOMAIN InputsSeen(tx) : InputsSeen(tx)[i] \in AnyKey
        BY <4>1, ItemFacts, ElementOfSeq
      <4>4. /\ \A k \in OutputKeys(tx) : Seen(k)
            /\ \A i \in DOMAIN InputsSeen(tx) : Seen(InputsSeen(tx)[i])
        BY <2>1 DEF TipApplied, Applied, Seen
      <4>5. QED
        BY <1>3, <4>2, <4>3, <4>4
    <3>3. QED
      BY <3>2 DEF Applied, Seen
  <2>2. QED
    BY <2>1 DEF TipApplied
<1>. DEFINE N == Len(InputsSeen(Tx)) + Len(OutputsOf[Tx])
<1>7. N \in Nat \ {0} /\ n \in 1 .. N
  BY TxFacts, ItemFacts DEF Items
<1>8. t \in 1 .. Len(TxsOf[b]) /\ Len(TxsOf[b]) \in Nat /\ TxsOf[b] \in Seq(Txs)
  BY TxFacts
<1>9. \A j \in 1 .. t - 1 : TxNow(TxsOf[b][j])
  <2>1. ASSUME NEW j \in 1 .. t - 1 PROVE TxNow(TxsOf[b][j])
    <3>1. TxsOf[b][j] \in Txs
      BY <1>8, ElementOfSeq
    <3>2. TxSeen(TxsOf[b][j])
      BY DEF ProgressOK, Processing
    <3>3. QED
      BY <1>4, <3>1, <3>2
  <2>2. QED
    BY <2>1
<1>10. CASE n < N
  <2>1. loop' = [at |-> "block", block |-> b, tx |-> t, item |-> n + 1]
    <3>1. loop' = [loop EXCEPT !.item = @ + 1]
      BY <1>10 DEF Advanced
    <3>2. loop = [at |-> "block", block |-> b, tx |-> t, item |-> n]
      BY TxFacts
    <3>. HIDE DEF b, t, n
    <3>3. QED
      BY <3>1, <3>2
  <2>2. loop' \in Loop
    BY <2>1, TxFacts DEF Loop
  <2>3. /\ loop'.block = b /\ loop'.tx = t /\ loop'.item = n + 1
        /\ TxsOf[loop'.block][loop'.tx] = x
    BY <2>1 DEF Tx
  <2>4. n + 1 \in Items(x) /\ n + 1 - 1 = n
    BY <1>7, <1>10 DEF Items
  <2>5. ProgressOK'
    <3>1. loop'.tx \in 1 .. Len(TxsOf[loop'.block]) + 1
      BY <1>8, <2>3
    <3>2. \A j \in 1 .. loop'.tx - 1 : TxNow(TxsOf[loop'.block][j])
      BY <1>9, <2>3
    <3>3. loop'.item \in Items(TxsOf[loop'.block][loop'.tx])
      BY <2>3, <2>4
    <3>4. ASSUME NEW i \in 1 .. loop'.item - 1
          PROVE  Now(ItemOf(TxsOf[loop'.block][loop'.tx], i))
      <4>1. loop'.item - 1 = n
        <5>1. n \in Nat /\ loop'.item = n + 1
          BY <1>7, <2>3
        <5>. HIDE DEF n
        <5>2. QED
          BY <5>1
      <4>2. i \in 1 .. n
        BY <4>1
      <4>3. QED
        BY <1>5, <2>3, <4>2
    <3>5. QED
      BY <2>3, <3>1, <3>2, <3>3, <3>4 DEF ProgressOK, Processing, Tx, TxSeen, Seen
  <2>6. QED
    BY <1>2, <1>6, <2>2, <2>5
<1>11. CASE ~(n < N)
  <2>1. loop' = [at |-> "block", block |-> b, tx |-> t + 1, item |-> 1]
    <3>1. loop' = [loop EXCEPT !.tx = @ + 1, !.item = 1]
      BY <1>11 DEF Advanced
    <3>2. loop = [at |-> "block", block |-> b, tx |-> t, item |-> n]
      BY TxFacts
    <3>. HIDE DEF b, t, n
    <3>3. QED
      BY <3>1, <3>2
  <2>2. loop' \in Loop
    BY <2>1, TxFacts DEF Loop
  <2>3. loop'.block = b /\ loop'.tx = t + 1 /\ loop'.item = 1
    BY <2>1
  <2>4. n = N
    BY <1>7, <1>11
  <2>5. TxNow(x)
    BY <1>5, <2>4 DEF TxSeen, Items
  <2>6. \A j \in 1 .. t : TxNow(TxsOf[b][j])
    <3>1. ASSUME NEW j \in 1 .. t PROVE TxNow(TxsOf[b][j])
      <4>1. CASE j = t
        <5>1. TxsOf[b][j] = Tx
          BY <4>1 DEF Tx
        <5>2. TxNow(TxsOf[b][t])
          BY <1>5, <2>4 DEF TxSeen, Items, Tx
        <5>3. QED
          BY <4>1, <5>2
      <4>2. CASE j # t
        <5>1. j \in 1 .. t - 1
          BY <1>8, <4>2
        <5>2. QED
          BY <1>9, <5>1
      <4>3. QED
        BY <4>1, <4>2
    <3>2. QED
      BY <3>1
  <2>7. ProgressOK'
    <3>1. loop'.tx \in 1 .. Len(TxsOf[loop'.block]) + 1
      BY <1>8, <2>3
    <3>2. ASSUME NEW j \in 1 .. loop'.tx - 1 PROVE TxNow(TxsOf[loop'.block][j])
      <4>1. j \in 1 .. t
        <5>1. t \in Nat /\ loop'.tx = t + 1
          BY <1>8, <2>3
        <5>. HIDE DEF t
        <5>2. QED
          BY <5>1
      <4>2. QED
        BY <2>3, <2>6, <4>1
    <3>3. ASSUME loop'.tx <= Len(TxsOf[loop'.block])
          PROVE  loop'.item \in Items(TxsOf[loop'.block][loop'.tx])
      <4>1. TxsOf[b][t + 1] \in Txs
        BY <1>8, <2>3, <3>3, ElementOfSeq
      <4>2. QED
        BY <2>3, <4>1, FirstItem
    <3>4. \A i \in 1 .. loop'.item - 1 : FALSE
      BY <2>3
    <3>5. QED
      BY <3>1, <3>2, <3>3, <3>4 DEF ProgressOK, Processing, Tx, TxSeen, Seen
  <2>8. QED
    BY <1>2, <1>6, <2>2, <2>7
<1>12. QED
  BY <1>10, <1>11

LEMMA AmountFacts == \A k \in Key : AmountOf(k) \in Nat
<1>1. ASSUME NEW k \in Key PROVE AmountOf(k) \in Nat
  <2>1. PICK t \in Txs : \E i \in DOMAIN OutputsOf[t] : k = <<t, i>>
    BY DEF Key, OutputKeys
  <2>2. PICK i \in DOMAIN OutputsOf[t] : k = <<t, i>>
    BY <2>1
  <2>3. OutputsOf[t][i] \in Output
    BY <2>2, ChainTypes, ElementOfSeq
  <2>4. QED
    BY <2>2, <2>3 DEF AmountOf, OutputAt, Output
<1>2. QED
  BY <1>1

LEMMA RemoveUtxoInv ==
    ASSUME Inv, RemoveUtxo
    PROVE  Inv'
<1>1. /\ Processing /\ utxo_tree' = [utxo_tree EXCEPT ![ItemKey] = "spent"]
      /\ loop' = Advanced /\ chain_tip' = chain_tip /\ current_stake' = Debited(ItemKey)
      /\ UNCHANGED <<stake_tree, nonce_tree, rolling_nonce, current_epoch, env, cursor, past>>
      /\ OnInput
  BY DEF RemoveUtxo
<1>2. /\ utxo_tree' \in [AnyKey -> {"absent", "live", "spent"}]
      /\ loop' \in Loop /\ ProgressOK' /\ TipApplied'
  BY <1>1, ItemStep
<1>3. current_stake' \in [Credentials -> Nat]
  <2>. DEFINE c == StakeOf[AddressOf(ItemKey)]
              a == AmountOf(ItemKey)
  <2>1. current_stake \in [Credentials -> Nat]
    BY DEF Inv, TypeOK
  <2>2. CASE utxo_tree[ItemKey] # "live" \/ c = NoStake
    BY <1>1, <2>1, <2>2 DEF Debited
  <2>3. CASE ~(utxo_tree[ItemKey] # "live" \/ c = NoStake)
    <3>1. current_stake' = [current_stake EXCEPT ![c] = IF @ < a THEN 0 ELSE @ - a]
      BY <1>1, <2>3 DEF Debited
    <3>2. ASSUME NEW d \in Credentials PROVE current_stake'[d] \in Nat
      <4>1. a \in Int
        BY <1>1, <2>3, TxFacts, AmountFacts DEF Inv, LiveKeys
      <4>2. QED
        BY <2>1, <3>1, <4>1
    <3>3. QED
      BY <2>1, <3>1, <3>2
  <2>4. QED
    BY <2>2, <2>3
<1>4. TypeOK'
  BY <1>1, <1>2, <1>3 DEF Inv, TypeOK, env
<1>5. LiveKeys'
  BY <1>1 DEF Inv, TypeOK, LiveKeys
<1>6. QED
  BY <1>2, <1>4, <1>5 DEF Inv

LEMMA InsertUtxoInv ==
    ASSUME Inv, InsertUtxo
    PROVE  Inv'
<1>1. /\ Processing /\ utxo_tree' = [utxo_tree EXCEPT ![ItemKey] = "live"]
      /\ loop' = Advanced /\ chain_tip' = chain_tip /\ current_stake' = Credited(ItemKey)
      /\ UNCHANGED <<stake_tree, nonce_tree, rolling_nonce, current_epoch, env, cursor, past>>
      /\ ~OnInput
  BY DEF InsertUtxo
<1>2. /\ utxo_tree' \in [AnyKey -> {"absent", "live", "spent"}]
      /\ loop' \in Loop /\ ProgressOK' /\ TipApplied'
  BY <1>1, ItemStep
<1>3. ItemKey \in Key /\ AmountOf(ItemKey) \in Nat
  BY <1>1, TxFacts, AmountFacts DEF Inv
<1>4. current_stake' \in [Credentials -> Nat]
  <2>. DEFINE c == StakeOf[AddressOf(ItemKey)]
              a == AmountOf(ItemKey)
  <2>1. current_stake \in [Credentials -> Nat]
    BY DEF Inv, TypeOK
  <2>2. CASE c = NoStake
    BY <1>1, <2>1, <2>2 DEF Credited
  <2>3. CASE c # NoStake
    <3>1. current_stake' = [current_stake EXCEPT ![c] = @ + a]
      BY <1>1, <2>3 DEF Credited
    <3>2. a \in Nat
      BY <1>3
    <3>. HIDE DEF a, c
    <3>3. ASSUME NEW d \in Credentials PROVE current_stake'[d] \in Nat
      BY <2>1, <3>1, <3>2
    <3>4. QED
      BY <2>1, <3>1, <3>3
  <2>4. QED
    BY <2>2, <2>3
<1>5. TypeOK'
  BY <1>1, <1>2, <1>4 DEF Inv, TypeOK, env
<1>6. LiveKeys'
  BY <1>1, <1>3 DEF Inv, TypeOK, LiveKeys
<1>7. QED
  BY <1>2, <1>5, <1>6 DEF Inv

LEMMA FinishBlockInv ==
    ASSUME Inv, FinishBlock
    PROVE  Inv'
<1>. DEFINE b == loop.block
            e == slot_to_epoch(SlotOf[b])
<1>1. /\ At("block") /\ ~Processing /\ chain_tip' = b /\ loop' = Idle
      /\ UNCHANGED <<utxo_tree, current_stake, rolling_nonce, env, cursor, past>>
  BY DEF FinishBlock
<1>2. b \in Blocks /\ loop.tx = Len(TxsOf[b]) + 1 /\ TxsOf[b] \in Seq(Txs)
  <2>1. b \in Blocks
    BY <1>1 DEF Inv, TypeOK, Loop, At
  <2>2. loop.tx \in 1 .. Len(TxsOf[b]) + 1 /\ TxsOf[b] \in Seq(Txs)
    BY <1>1, <2>1, ChainTypes DEF Inv, ProgressOK
  <2>3. ~(loop.tx <= Len(TxsOf[b]))
    BY <1>1 DEF Processing
  <2>4. QED
    BY <2>1, <2>2, <2>3
<1>3. TipApplied'
  <2>1. ASSUME NEW tx \in TxsIn(b)
        PROVE  /\ \A k \in OutputKeys(tx) : utxo_tree[k] # "absent"
               /\ \A i \in DOMAIN InputsSeen(tx) : utxo_tree[InputsSeen(tx)[i]] # "absent"
    <3>1. PICK j \in DOMAIN TxsOf[b] : tx = TxsOf[b][j]
      BY DEF TxsIn
    <3>2. j \in 1 .. loop.tx - 1
      BY <1>2, <3>1
    <3>3. TxSeen(TxsOf[b][j])
      BY <1>1, <3>2 DEF Inv, ProgressOK
    <3>4. tx \in Txs
      BY <1>2, <3>1, ElementOfSeq
    <3>5. QED
      BY <3>1, <3>3, <3>4, SeenItems
  <2>2. QED
    BY <1>1, <2>1 DEF TipApplied, Applied
<1>4. /\ current_epoch' \in Epoch \cup {0}
      /\ DOMAIN stake_tree' \subseteq Epoch \ {0}
      /\ DOMAIN nonce_tree' \subseteq DOMAIN stake_tree'
  <2>1. CASE ~NewEpoch(e)
    <3>1. UNCHANGED <<nonce_tree, stake_tree, current_epoch>>
      BY <2>1 DEF FinishBlock
    <3>2. QED
      BY <3>1 DEF Inv, TypeOK
  <2>2. CASE NewEpoch(e)
    <3>1. e \in Epoch /\ e \in Nat
      BY <1>2, EpochNat DEF Epoch
    <3>2. current_epoch \in Nat
      BY EpochNat DEF Inv, TypeOK, Epoch
    <3>3. e # 0
      BY <2>2, <3>1, <3>2 DEF NewEpoch
    <3>4. /\ nonce_tree' = nonce_tree \/ nonce_tree' = Stored(nonce_tree, e, rolling_nonce)
          /\ stake_tree' = Stored(stake_tree, e, Distribution)
          /\ current_epoch' = e
      BY <2>2 DEF FinishBlock
    <3>5. DOMAIN stake_tree' = DOMAIN stake_tree \cup {e}
      BY <3>4 DEF Stored
    <3>6. DOMAIN nonce_tree' \subseteq DOMAIN nonce_tree \cup {e}
      BY <3>4 DEF Stored
    <3>7. QED
      BY <3>1, <3>3, <3>4, <3>5, <3>6 DEF Inv, TypeOK
  <2>3. QED
    BY <2>1, <2>2
<1>5. TypeOK'
  BY <1>1, <1>2, <1>4, IdleInv DEF Inv, TypeOK, env, Point
<1>6. LiveKeys'
  BY <1>1 DEF Inv, LiveKeys
<1>7. QED
  BY <1>1, <1>3, <1>5, <1>6, IdleInv DEF Inv

LEMMA RestartInv ==
    ASSUME Inv, Restart
    PROVE  Inv'
<1>1. /\ utxo_tree' = NoUtxos /\ stake_tree' = NothingStored /\ nonce_tree' = NothingStored
      /\ chain_tip' = Origin /\ cursor' = Origin /\ current_stake' = NoStakes
      /\ rolling_nonce' = <<>> /\ current_epoch' = 0 /\ loop' = Idle /\ past' = NoPast
      /\ node_tip' = node_tip
  BY DEF Restart
<1>2. TypeOK'
  <2>1. utxo_tree' \in [AnyKey -> {"absent", "live", "spent"}]
    BY <1>1 DEF NoUtxos
  <2>2. current_stake' \in [Credentials -> Nat]
    BY <1>1 DEF NoStakes
  <2>3. DOMAIN stake_tree' = {} /\ DOMAIN nonce_tree' = {}
    BY <1>1 DEF NothingStored
  <2>4. past' \in [failed : BOOLEAN, rolled : BOOLEAN, risky : BOOLEAN]
    BY <1>1 DEF NoPast
  <2>5. QED
    BY <1>1, <2>1, <2>2, <2>3, <2>4, IdleInv DEF Inv, TypeOK, Point
<1>3. TipApplied' /\ LiveKeys'
  BY <1>1 DEF TipApplied, LiveKeys, NoUtxos
<1>4. QED
  BY <1>1, <1>2, <1>3, IdleInv DEF Inv

LEMMA NextInv == Inv /\ [Next]_vars => Inv'
<1>. SUFFICES ASSUME Inv, [Next]_vars PROVE Inv'
  OBVIOUS
<1>1. ASSUME NEW p \in Point, Switch(p) PROVE Inv'
  BY <1>1, SwitchInv
<1>2. CASE Sync
  BY <1>2, RollForwardInv, RollBackwardInv, AwaitInv, FailBlockInv, RemoveUtxoInv, InsertUtxoInv,
     FinishBlockInv DEF Sync
<1>3. CASE Restart
  BY <1>3, RestartInv
<1>4. CASE UNCHANGED vars
  <2>1. UNCHANGED <<trees, memory, env, cursor, past>>
    BY <1>4 DEF vars
  <2>2. TypeOK'
    BY <2>1 DEF Inv, TypeOK, trees, memory, env
  <2>3. QED
    BY <2>1, <2>2, KeepProgress, KeepTip DEF Inv, trees, memory
<1>5. QED
  BY <1>1, <1>2, <1>3, <1>4 DEF Next

(***************************************************************************)
(* hayate-node's variables keep their types through forks, failing blocks  *)
(* and restarts, and the tip it stores is a point of the chain.            *)
(***************************************************************************)
THEOREM NodeTypeCorrect == Spec => []TypeOK
<1>1. Inv => TypeOK
  BY DEF Inv
<1>2. QED
  BY <1>1, InitInv, NextInv, PTL DEF Spec

(***************************************************************************)
(* The stored tip is never a block that was only partly applied: every     *)
(* input and output of its transactions has been through the trees         *)
(* (process_block_simple gives a failing block up before the tip).         *)
(***************************************************************************)
THEOREM NodeTipApplied == Spec => []TipApplied
<1>1. Inv => TipApplied
  BY DEF Inv
<1>2. QED
  BY <1>1, InitInv, NextInv, PTL DEF Spec

-----------------------------------------------------------------------------
(* Chains.                                                                 *)

\* The chain of a block is a sequence of blocks that ends with it.
LEMMA ChainOfBlock ==
    ASSUME NEW b \in Blocks
    PROVE  /\ b # Origin
           /\ ChainOf(b) = ChainTo[b]
           /\ ChainTo[b] \in Seq(Blocks)
           /\ Len(ChainTo[b]) \in Nat \ {0}
           /\ DOMAIN ChainTo[b] = 1 .. Len(ChainTo[b])
           /\ ChainTo[b][Len(ChainTo[b])] = b
           /\ BlocksOf(b) = {ChainTo[b][i] : i \in 1 .. Len(ChainTo[b])}
<1>1. b # Origin /\ ChainTo[b] \in Seq(Blocks)
  BY ChainTypes
<1>2. ChainOf(b) = ChainTo[b]
  BY <1>1 DEF ChainOf
<1>3. Len(ChainTo[b]) > 0 /\ ChainTo[b][Len(ChainTo[b])] = b
  BY ChainShape
<1>4. QED
  BY <1>1, <1>2, <1>3, LenProperties DEF BlocksOf

\* The chain of the i-th block of a chain is the first i blocks of it.
LEMMA ChainPrefix ==
    ASSUME NEW b \in Blocks, NEW i \in 1 .. Len(ChainTo[b])
    PROVE  /\ ChainTo[b][i] \in Blocks
           /\ Len(ChainTo[ChainTo[b][i]]) = i
           /\ \A j \in 1 .. i : ChainTo[ChainTo[b][i]][j] = ChainTo[b][j]
<1>. DEFINE c == ChainTo[b]
<1>1. c \in Seq(Blocks) /\ Len(c) \in Nat /\ DOMAIN c = 1 .. Len(c)
  BY ChainOfBlock
<1>2. c[i] \in Blocks
  BY <1>1, ElementOfSeq
<1>3. ChainTo[c[i]] = SubSeq(c, 1, i)
  BY <1>1, ChainShape
<1>4. i \in Int /\ 1 <= i /\ i <= Len(c)
  BY <1>1
<1>5. \A j \in 1 .. i : c[j] \in Blocks
  BY <1>1, <1>4, ElementOfSeq
<1>6. /\ Len(SubSeq(c, 1, i)) = i - 1 + 1
      /\ \A j \in 1 .. i - 1 + 1 : SubSeq(c, 1, i)[j] = c[1 + j - 1]
  BY <1>4, <1>5, SubSeqProperties
<1>7. Len(SubSeq(c, 1, i)) = i
  BY <1>4, <1>6
<1>8. ASSUME NEW j \in 1 .. i PROVE SubSeq(c, 1, i)[j] = c[j]
  BY <1>4, <1>6
<1>9. QED
  BY <1>2, <1>3, <1>7, <1>8

LEMMA BlocksOfOrigin == BlocksOf(Origin) = {} /\ TxsOn(Origin) = {} /\ PointsOf(Origin) = {Origin}
BY DEF BlocksOf, ChainOf, TxsOn, PointsOf

\* Dropping the last block of a chain leaves the chain of the one before it.
LEMMA PrevFacts ==
    ASSUME NEW b \in Blocks
    PROVE  /\ PrevOf(b) \in Point
           /\ BlocksOf(b) = BlocksOf(PrevOf(b)) \cup {b}
           /\ b \notin BlocksOf(PrevOf(b))
           /\ BlocksOf(b) \subseteq Blocks
           /\ TxsOn(b) = TxsOn(PrevOf(b)) \cup TxsIn(b)
           /\ b # PrevOf(b)
<1>. DEFINE c == ChainTo[b]
            n == Len(ChainTo[b])
<1>1. /\ c \in Seq(Blocks)
      /\ n \in Nat \ {0}
      /\ c[n] = b
      /\ BlocksOf(b) = {c[i] : i \in 1 .. n}
  BY ChainOfBlock
<1>2. \A i \in 1 .. n : c[i] \in Blocks
  BY ChainPrefix
<1>3. BlocksOf(PrevOf(b)) = {c[i] : i \in 1 .. n - 1} /\ PrevOf(b) \in Point
  <2>1. CASE n = 1
    <3>1. PrevOf(b) = Origin
      BY <2>1 DEF PrevOf
    <3>2. 1 .. n - 1 = {}
      BY <2>1
    <3>3. QED
      BY <3>1, <3>2, BlocksOfOrigin DEF Point
  <2>2. CASE n # 1
    <3>1. PrevOf(b) = c[n - 1] /\ n - 1 \in 1 .. n
      <4>1. PrevOf(b) = c[n - 1]
        BY <2>2 DEF PrevOf
      <4>2. \A m \in Nat \ {0} : m # 1 => m - 1 \in 1 .. m
        OBVIOUS
      <4>3. QED
        BY <1>1, <2>2, <4>1, <4>2, Zenon
    <3>2. /\ c[n - 1] \in Blocks
          /\ Len(ChainTo[c[n - 1]]) = n - 1
          /\ \A j \in 1 .. n - 1 : ChainTo[c[n - 1]][j] = c[j]
      BY <3>1, ChainPrefix
    <3>3. BlocksOf(c[n - 1]) = {ChainTo[c[n - 1]][i] : i \in 1 .. n - 1}
      BY <3>2, ChainOfBlock
    <3>4. QED
      BY <3>1, <3>2, <3>3 DEF Point
  <2>3. QED
    BY <2>1, <2>2
<1>4. BlocksOf(b) = BlocksOf(PrevOf(b)) \cup {b}
  <2>1. 1 .. n = (1 .. n - 1) \cup {n}
    BY <1>1
  <2>2. QED
    BY <1>1, <1>3, <2>1
<1>5. b \notin BlocksOf(PrevOf(b))
  <2>1. SUFFICES ASSUME NEW i \in 1 .. n - 1, c[i] = b PROVE FALSE
    BY <1>3
  <2>2. i \in 1 .. n /\ i # n
    BY <1>1
  <2>3. Len(ChainTo[c[i]]) = i
    BY <2>2, ChainPrefix
  <2>4. QED
    BY <2>1, <2>2, <2>3
<1>6. b # PrevOf(b)
  <2>1. CASE PrevOf(b) = Origin
    BY <2>1, ChainTypes
  <2>2. CASE PrevOf(b) # Origin
    <3>1. PrevOf(b) \in BlocksOf(PrevOf(b))
      <4>1. PrevOf(b) \in Blocks
        BY <1>3, <2>2 DEF Point
      <4>2. QED
        BY <4>1, ChainOfBlock
    <3>2. QED
      BY <1>5, <3>1
  <2>3. QED
    BY <2>1, <2>2
<1>7. QED
  BY <1>1, <1>2, <1>3, <1>4, <1>5, <1>6 DEF TxsOn

\* A point other than the origin is a block of its own chain.
LEMMA LastOfChain ==
    ASSUME NEW p \in Point
    PROVE  /\ BlocksOf(p) \subseteq Blocks
           /\ p # Origin => p \in Blocks /\ p \in BlocksOf(p)
           /\ p \in PointsOf(p)
<1>1. CASE p = Origin
  BY <1>1, BlocksOfOrigin
<1>2. CASE p # Origin
  <2>1. p \in Blocks
    BY <1>2 DEF Point
  <2>2. QED
    BY <2>1, PrevFacts DEF PointsOf
<1>3. QED
  BY <1>1, <1>2

\* The chain of an earlier point is part of the chain, and does not reach
\* its end.
LEMMA EarlierPoint ==
    ASSUME NEW q \in Point, NEW p \in PointsOf(q)
    PROVE  /\ p \in Point
           /\ BlocksOf(p) \subseteq BlocksOf(q)
           /\ TxsOn(p) \subseteq TxsOn(q)
           /\ p # q => q \notin PointsOf(p) /\ q # Origin
<1>1. CASE p = Origin
  <2>1. p # q => q \notin PointsOf(p)
    BY <1>1, BlocksOfOrigin
  <2>2. QED
    BY <1>1, <2>1, BlocksOfOrigin DEF Point
<1>2. CASE p # Origin
  <2>1. q \in Blocks /\ p \in BlocksOf(q)
    BY <1>2, BlocksOfOrigin DEF PointsOf, Point
  <2>. DEFINE c == ChainTo[q]
              n == Len(c)
  <2>2. n \in Nat /\ c[n] = q /\ BlocksOf(q) = {c[i] : i \in 1 .. n}
    BY <2>1, ChainOfBlock
  <2>3. PICK i \in 1 .. n : p = c[i]
    BY <2>1, <2>2
  <2>4. p \in Blocks /\ Len(ChainTo[p]) = i /\ \A j \in 1 .. i : ChainTo[p][j] = c[j]
    BY <2>1, <2>3, ChainPrefix
  <2>5. BlocksOf(p) = {c[j] : j \in 1 .. i}
    BY <2>4, ChainOfBlock
  <2>6. 1 .. i \subseteq 1 .. n
    BY <2>2
  <2>7. BlocksOf(p) \subseteq BlocksOf(q)
    BY <2>2, <2>5, <2>6
  <2>8. ASSUME p # q PROVE q \notin PointsOf(p) /\ q # Origin
    <3>1. q # Origin
      BY <2>1, ChainTypes
    <3>2. SUFFICES ASSUME q \in BlocksOf(p) PROVE FALSE
      BY <3>1 DEF PointsOf
    <3>3. PICK j \in 1 .. i : q = c[j]
      BY <2>5, <3>2
    <3>4. Len(ChainTo[q]) = j
      BY <2>1, <2>6, <3>3, ChainPrefix
    <3>5. i = n
      BY <2>2, <2>3, <3>3, <3>4
    <3>6. QED
      BY <2>2, <2>3, <2>8, <3>5
  <2>9. QED
    BY <2>4, <2>7, <2>8 DEF Point, TxsOn
<1>3. QED
  BY <1>1, <1>2

-----------------------------------------------------------------------------
(* What is spent.                                                          *)

Spent(k) == utxo_tree[k] = "spent"

\* A transaction that has been through the tree.
Done(tx) == \A i \in DOMAIN InputsSeen(tx) : Spent(InputsSeen(tx)[i])

\* The transactions of the announced chain up to the loop's place.
Behind ==
    IF At("block")
    THEN TxsOn(PrevOf(loop.block)) \cup {TxsOf[loop.block][i] : i \in 1 .. loop.tx - 1}
    ELSE TxsOn(cursor)

AtCursor == At("block") => loop.block = cursor

\* An output in the tree comes from a transaction that is done, or has been
\* announced at a time when blocks have failed.
OutputsSeen ==
    \A k \in Key : Seen(k) => Done(k[1]) \/ (past.failed /\ k[1] \in Behind)

AllDone == ~past.failed => \A tx \in Behind : Done(tx)

\* The i-th output of the transaction under way has not been reached.
Ahead(i) == loop.item <= Len(InputsSeen(Tx)) + i

\* The transaction under way, once its first input was found unspent.
UnderWay ==
    Processing =>
        /\ \A i \in 1 .. loop.item - 1 : i \in DOMAIN InputsSeen(Tx) => Spent(InputsSeen(Tx)[i])
        /\ loop.item # 1 => \A k \in OutputKeys(Tx) : Ahead(k[2]) => ~Seen(k)

SpentInv ==
    /\ restarts \in Nat /\ AtCursor
    /\ ~past.risky => OutputsSeen /\ AllDone /\ UnderWay

LEMMA NextOfPoint ==
    ASSUME NEW t \in Point, NEW p \in PointsOf(t) \ {t}
    PROVE  LET b == ChainOf(t)[Len(ChainOf(p)) + 1] IN b \in Blocks /\ PrevOf(b) = p
<1>. DEFINE n == Len(ChainOf(p)) + 1
            c == ChainTo[t]
<1>1. n \in DOMAIN ChainOf(t) /\ ChainOf(t)[n] \in Blocks
  BY NextBlock
<1>2. t \in Blocks
  <2>1. t # Origin
    BY <1>1 DEF ChainOf
  <2>2. QED
    BY <2>1 DEF Point
<1>3. ChainOf(t) = c /\ n \in 1 .. Len(c) /\ Len(c) \in Nat
  BY <1>1, <1>2, ChainOfBlock
<1>4. c[n] \in Blocks /\ Len(ChainTo[c[n]]) = n /\ \A j \in 1 .. n : ChainTo[c[n]][j] = c[j]
  BY <1>2, <1>3, ChainPrefix
<1>5. CASE p = Origin
  <2>1. n = 1
    BY <1>5 DEF ChainOf
  <2>2. PrevOf(c[n]) = Origin
    BY <1>4, <2>1 DEF PrevOf
  <2>3. QED
    BY <1>3, <1>4, <1>5, <2>2
<1>6. CASE p # Origin
  <2>1. p \in BlocksOf(t)
    BY <1>6 DEF PointsOf
  <2>2. PICK i \in 1 .. Len(c) : p = c[i]
    BY <1>2, <2>1, ChainOfBlock
  <2>3. p \in Blocks /\ Len(ChainTo[p]) = i
    BY <1>2, <2>2, ChainPrefix
  <2>4. n = i + 1 /\ i \in 1 .. n /\ i >= 1
    BY <2>2, <2>3, ChainOfBlock
  <2>5. n # 1 /\ n - 1 = i
    BY <1>3, <2>4
  <2>6. PrevOf(c[n]) = ChainTo[c[n]][i]
    BY <1>4, <2>5 DEF PrevOf
  <2>7. QED
    BY <1>3, <1>4, <2>2, <2>4, <2>6
<1>7. QED
  BY <1>5, <1>6

LEMMA KeyFacts ==
    ASSUME NEW k \in Key
    PROVE  /\ k[1] \in Txs /\ k[2] \in DOMAIN OutputsOf[k[1]] /\ k[2] \in Nat \ {0}
           /\ k = <<k[1], k[2]>> /\ k \in AnyKey
<1>1. PICK t \in Txs : \E i \in DOMAIN OutputsOf[t] : k = <<t, i>>
  BY DEF Key, OutputKeys
<1>2. PICK i \in DOMAIN OutputsOf[t] : k = <<t, i>>
  BY <1>1
<1>3. i \in Nat \ {0}
  BY ChainTypes
<1>4. k \in AnyKey
  BY DEF AnyKey
<1>5. QED
  BY <1>2, <1>3, <1>4

\* What stays spent keeps a transaction done.
LEMMA DoneStays ==
    ASSUME \A k \in AnyKey : Spent(k) => Spent(k)', NEW tx \in Txs, Done(tx)
    PROVE  Done(tx)'
<1>1. \A i \in DOMAIN InputsSeen(tx) : InputsSeen(tx)[i] \in AnyKey
  BY ItemFacts, ElementOfSeq
<1>2. QED
  BY <1>1 DEF Done

LEMMA TxsAreTxs == \A p \in Point : TxsOn(p) \subseteq Txs
<1>1. ASSUME NEW p \in Point PROVE TxsOn(p) \subseteq Txs
  <2>1. BlocksOf(p) \subseteq Blocks
    BY LastOfChain
  <2>2. ASSUME NEW b \in BlocksOf(p) PROVE TxsIn(b) \subseteq Txs
    BY <2>1, ChainTypes, ElementOfSeq DEF TxsIn
  <2>3. QED
    BY <2>2 DEF TxsOn
<1>2. QED
  BY <1>1

LEMMA BehindTxs ==
    ASSUME TypeOK, ProgressOK
    PROVE  Behind \subseteq Txs
<1>1. CASE At("block")
  <2>1. loop.block \in Blocks /\ loop.tx \in 1 .. Len(TxsOf[loop.block]) + 1
    BY <1>1 DEF TypeOK, Loop, At, ProgressOK
  <2>2. TxsOf[loop.block] \in Seq(Txs) /\ PrevOf(loop.block) \in Point
    BY <2>1, ChainTypes, PrevFacts
  <2>3. ASSUME NEW i \in 1 .. loop.tx - 1 PROVE TxsOf[loop.block][i] \in Txs
    <3>1. i \in 1 .. Len(TxsOf[loop.block])
      BY <2>1, <2>2
    <3>2. QED
      BY <2>2, <3>1, ElementOfSeq
  <2>4. QED
    BY <1>1, <2>2, <2>3, TxsAreTxs DEF Behind
<1>2. CASE ~At("block")
  BY <1>2, TxsAreTxs DEF Behind, TypeOK
<1>3. QED
  BY <1>1, <1>2

\* The transaction under way is a new one, and spends what those before it
\* made, or an output of the genesis.
LEMMA TxIsNew ==
    ASSUME TypeOK, ProgressOK, Processing
    PROVE  /\ Tx \notin Behind
           /\ (OnInput /\ ItemKey \in Key) => ItemKey[1] \in Behind
<1>. DEFINE b == loop.block
            t == loop.tx
<1>1. /\ b \in Blocks /\ t \in DOMAIN TxsOf[b] /\ TxsOf[b] \in Seq(Txs) /\ Tx = TxsOf[b][t]
      /\ Tx \in Txs
  BY TxFacts DEF Tx
<1>2. Behind = TxsOn(PrevOf(b)) \cup {TxsOf[b][i] : i \in 1 .. t - 1}
  BY DEF Behind, Processing
<1>3. \A i \in 1 .. t - 1 : i \in DOMAIN TxsOf[b] /\ i # t
  BY <1>1
<1>4. /\ Tx \notin TxsOn(PrevOf(b))
      /\ \A i \in DOMAIN TxsOf[b] : TxsOf[b][i] = Tx => i = t
      /\ InputKeys(Tx) \subseteq CreatedBefore(b, t)
  BY <1>1, LedgerRules
<1>5. Tx \notin Behind
  BY <1>2, <1>3, <1>4
<1>6. ASSUME OnInput, ItemKey \in Key PROVE ItemKey[1] \in Behind
  <2>1. loop.item \in DOMAIN InputsSeen(Tx) /\ ItemKey = InputsSeen(Tx)[loop.item]
    BY <1>1, <1>6, TxFacts, ItemFacts DEF OnInput, ItemKey
  <2>2. InputsOf[Tx] # <<>>
    <3>1. SUFFICES ASSUME InputsOf[Tx] = <<>> PROVE FALSE
      OBVIOUS
    <3>2. InputsSeen(Tx) = <<GenesisKey(Tx)>>
      BY <3>1 DEF InputsSeen
    <3>3. ItemKey = <<Tx, 0>>
      BY <2>1, <3>2 DEF GenesisKey
    <3>4. QED
      BY <1>6, <3>3, KeyFacts
  <2>3. ItemKey \in InputKeys(Tx)
    BY <2>1, <2>2 DEF InputsSeen, InputKeys
  <2>4. PICK u \in Behind : ItemKey \in OutputKeys(u)
    BY <1>2, <1>4, <2>3 DEF CreatedBefore
  <2>5. QED
    BY <2>4 DEF OutputKeys
<1>7. QED
  BY <1>5, <1>6

LEMMA AdvanceCases ==
    ASSUME TypeOK, ProgressOK, Processing, loop' = Advanced
    PROVE  LET last == Len(InputsSeen(Tx)) + Len(OutputsOf[Tx]) IN
           \/ /\ loop.item < last
              /\ loop' = [at |-> "block", block |-> loop.block, tx |-> loop.tx,
                          item |-> loop.item + 1]
           \/ /\ loop.item = last
              /\ loop' = [at |-> "block", block |-> loop.block, tx |-> loop.tx + 1, item |-> 1]
<1>. DEFINE last == Len(InputsSeen(Tx)) + Len(OutputsOf[Tx])
            b == loop.block
            t == loop.tx
            n == loop.item
<1>1. last \in Nat /\ n \in 1 .. last
  BY TxFacts, ItemFacts DEF Items
<1>2. loop = [at |-> "block", block |-> b, tx |-> t, item |-> n]
  BY TxFacts
<1>3. CASE n < last
  <2>1. loop' = [loop EXCEPT !.item = n + 1]
    BY <1>3 DEF Advanced
  <2>. HIDE DEF b, t, n, last
  <2>2. loop' = [at |-> "block", block |-> b, tx |-> t, item |-> n + 1]
    BY <1>2, <2>1
  <2>3. QED
    BY <1>3, <2>2 DEF b, t, n, last
<1>4. CASE ~(n < last)
  <2>1. loop' = [loop EXCEPT !.tx = t + 1, !.item = 1]
    BY <1>4 DEF Advanced
  <2>2. n = last
    BY <1>1, <1>4
  <2>. HIDE DEF b, t, n, last
  <2>3. loop' = [at |-> "block", block |-> b, tx |-> t + 1, item |-> 1]
    BY <1>2, <2>1
  <2>4. QED
    BY <2>2, <2>3 DEF b, t, n, last
<1>5. QED
  BY <1>3, <1>4

\* What the transaction under way has not come to is not in the tree: it was
\* not done when its first input was found, and is not behind.
LEMMA OutputsFresh ==
    ASSUME TypeOK, ProgressOK, SpentInv, ~past.risky, Processing, ~Failing
    PROVE  \A k \in OutputKeys(Tx) :
              /\ Ahead(k[2]) => ~Seen(k)
              /\ OnInput => ItemKey # k
<1>1. Tx \in Txs /\ loop.item \in Nat \ {0}
  BY TxFacts
<1>2. ASSUME NEW k \in OutputKeys(Tx)
      PROVE  k \in Key /\ k[1] = Tx
  BY <1>1 DEF Key, OutputKeys
<1>3. ASSUME NEW k \in OutputKeys(Tx), OnInput PROVE ItemKey # k
  BY <1>2, <1>3, TxIsNew
<1>4. ASSUME NEW k \in OutputKeys(Tx), loop.item = 1 PROVE ~Seen(k)
  <2>1. 1 \in DOMAIN InputsSeen(Tx) /\ OnInput /\ ItemKey = InputsSeen(Tx)[1]
    BY <1>1, <1>4, ItemFacts DEF OnInput, ItemKey
  <2>2. ~Done(Tx)
    BY <2>1 DEF Failing, Unreadable, Done, Spent
  <2>3. Tx \notin Behind
    BY TxIsNew
  <2>4. QED
    BY <1>2, <1>4, <2>2, <2>3 DEF SpentInv, OutputsSeen
<1>5. ASSUME NEW k \in OutputKeys(Tx), loop.item # 1, Ahead(k[2]) PROVE ~Seen(k)
  BY <1>5 DEF SpentInv, UnderWay
<1>6. QED
  BY <1>3, <1>4, <1>5

\* The output at hand is not in the tree.
LEMMA OutputIsNew ==
    ASSUME TypeOK, ProgressOK, SpentInv, ~past.risky, InsertUtxo
    PROVE  /\ ItemKey \in Key /\ ~Seen(ItemKey)
           /\ ItemKey = <<Tx, loop.item - Len(InputsSeen(Tx))>>
<1>1. Processing /\ ~Failing /\ ~OnInput
  BY DEF InsertUtxo
<1>2. Tx \in Txs /\ loop.item \in Items(Tx) /\ ItemKey \in Key
  BY <1>1, TxFacts
<1>3. loop.item - Len(InputsSeen(Tx)) \in DOMAIN OutputsOf[Tx]
  BY <1>1, <1>2, ItemFacts DEF Items, OnInput
<1>4. ItemKey = <<Tx, loop.item - Len(InputsSeen(Tx))>>
  BY <1>1 DEF ItemKey
<1>5. ItemKey \in OutputKeys(Tx)
  BY <1>3, <1>4 DEF OutputKeys
<1>6. Ahead(ItemKey[2])
  <2>1. ItemKey[2] = loop.item - Len(InputsSeen(Tx))
    BY <1>4
  <2>2. loop.item \in Nat /\ Len(InputsSeen(Tx)) \in Nat
    BY <1>2, ItemFacts DEF Items
  <2>3. QED
    BY <2>1, <2>2 DEF Ahead
<1>7. QED
  BY <1>1, <1>2, <1>4, <1>5, <1>6, OutputsFresh

\* What is spent stays spent, and only the item at hand comes into the tree.
LEMMA SpentGrows ==
    ASSUME TypeOK, ProgressOK, SpentInv, ~past.risky, RemoveUtxo \/ InsertUtxo
    PROVE  /\ \A k \in AnyKey : Spent(k) => Spent(k)'
           /\ \A k \in AnyKey : Seen(k)' => Seen(k) \/ k = ItemKey
           /\ OnInput => utxo_tree'[ItemKey] = "spent"
<1>1. Processing /\ ~Failing /\ ItemKey \in AnyKey
  BY TxFacts DEF RemoveUtxo, InsertUtxo
<1>2. utxo_tree \in [AnyKey -> {"absent", "live", "spent"}]
  BY DEF TypeOK
<1>3. CASE RemoveUtxo
  <2>1. OnInput /\ utxo_tree' = [utxo_tree EXCEPT ![ItemKey] = "spent"]
    BY <1>3 DEF RemoveUtxo
  <2>2. QED
    BY <1>1, <1>2, <2>1 DEF Spent, Seen
<1>4. CASE InsertUtxo
  <2>1. ~OnInput /\ utxo_tree' = [utxo_tree EXCEPT ![ItemKey] = "live"]
    BY <1>4 DEF InsertUtxo
  <2>2. ~Spent(ItemKey)
    BY <1>4, OutputIsNew DEF Spent, Seen
  <2>3. QED
    BY <1>1, <1>2, <2>1, <2>2 DEF Spent, Seen
<1>5. QED
  BY <1>3, <1>4

LEMMA InitSpent == Init => SpentInv
<1>. SUFFICES ASSUME Init PROVE SpentInv
  OBVIOUS
<1>1. ~At("block")
  BY DEF Init, Idle, At
<1>2. \A k \in AnyKey : ~Seen(k)
  BY DEF Init, NoUtxos, Seen
<1>3. Behind = {}
  BY <1>1, BlocksOfOrigin DEF Init, Behind
<1>4. OutputsSeen
  BY <1>2, KeyFacts DEF OutputsSeen
<1>5. QED
  BY <1>1, <1>3, <1>4 DEF Init, SpentInv, AtCursor, AllDone, UnderWay, Processing

\* Steps that leave the tree alone and are not within a transaction.
LEMMA BehindGrows ==
    ASSUME OutputsSeen, UNCHANGED utxo_tree, past.failed => past'.failed, Behind \subseteq Behind'
    PROVE  OutputsSeen'
BY DEF OutputsSeen, Seen, Spent, Done

LEMMA SameSpent ==
    ASSUME SpentInv, UNCHANGED <<utxo_tree, loop, cursor, past, restarts>>
    PROVE  SpentInv'
<1>1. Behind' = Behind /\ (AtCursor <=> AtCursor')
  BY DEF Behind, At, AtCursor
<1>2. OutputsSeen => OutputsSeen'
  BY <1>1, BehindGrows
<1>3. AllDone => AllDone'
  BY <1>1 DEF AllDone, Done, Spent
<1>4. UnderWay => UnderWay'
  BY DEF UnderWay, Ahead, Processing, At, Tx, Spent, Seen
<1>5. QED
  BY <1>1, <1>2, <1>3, <1>4 DEF SpentInv

LEMMA RollForwardSpent ==
    ASSUME Inv, SpentInv, RollForward
    PROVE  SpentInv'
<1>. DEFINE b == ChainOf(node_tip)[Len(ChainOf(cursor)) + 1]
<1>1. b \in Blocks /\ PrevOf(b) = cursor
  BY NextOfPoint DEF Inv, TypeOK, RollForward
<1>2. /\ cursor' = b /\ UNCHANGED <<utxo_tree, restarts>> /\ At("ask")
      /\ \/ past' = AfterFailure /\ loop' = loop
         \/ past' = past /\ loop' = [at |-> "block", block |-> b, tx |-> 1, item |-> 1]
  BY DEF RollForward, trees, env
<1>3. Behind = TxsOn(cursor)
  BY <1>2 DEF Behind, At
<1>4. past \in [failed : BOOLEAN, rolled : BOOLEAN, risky : BOOLEAN]
  BY DEF Inv, TypeOK
<1>5. CASE past' = AfterFailure /\ loop' = loop
  <2>1. past'.failed /\ past'.risky = past.risky
    BY <1>4, <1>5 DEF AfterFailure
  <2>2. Behind' = TxsOn(b) /\ ~At("block")'
    BY <1>2, <1>5 DEF Behind, At
  <2>3. TxsOn(cursor) \subseteq TxsOn(b)
    BY <1>1, PrevFacts
  <2>4. OutputsSeen => OutputsSeen'
    BY <1>2, <1>3, <2>1, <2>2, <2>3, BehindGrows
  <2>5. QED
    BY <1>2, <2>1, <2>2, <2>4 DEF SpentInv, AtCursor, AllDone, UnderWay, Processing
<1>6. CASE past' = past /\ loop' = [at |-> "block", block |-> b, tx |-> 1, item |-> 1]
  <2>1. loop'.at = "block" /\ loop'.block = b /\ loop'.tx = 1 /\ loop'.item = 1
    BY <1>6
  <2>2. Behind' = Behind
    <3>1. Behind' = TxsOn(PrevOf(b)) \cup {TxsOf[b][i] : i \in 1 .. 1 - 1}
      BY <2>1 DEF Behind, At
    <3>2. 1 .. 1 - 1 = {}
      OBVIOUS
    <3>3. QED
      BY <1>1, <1>3, <3>1, <3>2
  <2>3. OutputsSeen => OutputsSeen'
    BY <1>2, <1>6, <2>2, BehindGrows
  <2>4. AllDone => AllDone'
    BY <1>2, <1>6, <2>2 DEF AllDone, Done, Spent
  <2>5. UnderWay'
    BY <2>1 DEF UnderWay
  <2>6. QED
    BY <1>2, <1>6, <2>1, <2>3, <2>4, <2>5 DEF SpentInv, AtCursor
<1>7. QED
  BY <1>2, <1>5, <1>6

LEMMA RollBackwardSpent ==
    ASSUME Inv, SpentInv, RollBackward
    PROVE  SpentInv'
<1>1. /\ cursor' = Intersection /\ UNCHANGED <<utxo_tree, loop, restarts>> /\ At("ask")
      /\ past' = AfterRollback
  BY DEF RollBackward, trees, memory, env
<1>2. past \in [failed : BOOLEAN, rolled : BOOLEAN, risky : BOOLEAN]
  BY DEF Inv, TypeOK
<1>3. past'.failed = past.failed /\ past'.risky = (past.risky \/ past.failed)
  BY <1>1, <1>2 DEF AfterRollback
<1>4. Behind = TxsOn(cursor) /\ Behind' = TxsOn(Intersection) /\ ~At("block")'
  BY <1>1 DEF Behind, At
<1>5. Intersection \in PointsOf(cursor) /\ cursor \in Point
  BY IntersectionFacts DEF Inv, TypeOK
<1>6. Behind' \subseteq Behind
  BY <1>4, <1>5, EarlierPoint
<1>7. ASSUME ~past'.risky PROVE OutputsSeen' /\ AllDone' /\ UnderWay'
  <2>1. ~past.risky /\ ~past.failed /\ ~past'.failed
    BY <1>3, <1>7
  <2>2. OutputsSeen'
    BY <1>1, <2>1 DEF SpentInv, OutputsSeen, Seen, Spent, Done
  <2>3. AllDone'
    BY <1>1, <1>6, <2>1 DEF SpentInv, AllDone, Spent, Done
  <2>4. QED
    BY <1>4, <2>2, <2>3 DEF UnderWay, Processing
<1>8. QED
  BY <1>1, <1>4, <1>7 DEF SpentInv, AtCursor

LEMMA AwaitSpent ==
    ASSUME Inv, SpentInv, Await
    PROVE  SpentInv'
<1>1. UNCHANGED <<utxo_tree, cursor, past, restarts>> /\ At("ask")
  BY DEF Await, trees, env
<1>2. loop'.at = "awaiting"
  BY DEF Await, Inv, TypeOK, Loop, At
<1>3. Behind' = Behind /\ ~At("block")'
  BY <1>1, <1>2 DEF Behind, At
<1>4. OutputsSeen => OutputsSeen'
  BY <1>1, <1>3, BehindGrows
<1>5. AllDone => AllDone'
  BY <1>1, <1>3 DEF AllDone, Spent, Done
<1>6. QED
  BY <1>1, <1>3, <1>4, <1>5 DEF SpentInv, AtCursor, UnderWay, Processing

\* All that is announced is behind a loop that asks for more.
LEMMA BehindAll ==
    ASSUME TypeOK, ProgressOK, AtCursor, At("block")
    PROVE  /\ Behind \subseteq TxsOn(cursor)
           /\ ~Processing => Behind = TxsOn(cursor)
<1>. DEFINE b == loop.block
<1>1. b \in Blocks /\ b = cursor /\ loop.tx \in 1 .. Len(TxsOf[b]) + 1
  BY DEF TypeOK, Loop, At, AtCursor, ProgressOK
<1>2. TxsOf[b] \in Seq(Txs) /\ DOMAIN TxsOf[b] = 1 .. Len(TxsOf[b]) /\ Len(TxsOf[b]) \in Nat
  BY <1>1, ChainTypes
<1>3. TxsOn(b) = TxsOn(PrevOf(b)) \cup TxsIn(b)
  BY <1>1, PrevFacts
<1>4. Behind = TxsOn(PrevOf(b)) \cup {TxsOf[b][i] : i \in 1 .. loop.tx - 1}
  BY DEF Behind
<1>5. 1 .. loop.tx - 1 \subseteq DOMAIN TxsOf[b]
  BY <1>1, <1>2
<1>6. ~Processing => 1 .. loop.tx - 1 = DOMAIN TxsOf[b]
  BY <1>1, <1>2 DEF Processing
<1>7. QED
  BY <1>1, <1>3, <1>4, <1>5, <1>6 DEF TxsIn

LEMMA FailBlockSpent ==
    ASSUME Inv, SpentInv, FailBlock
    PROVE  SpentInv'
<1>1. /\ UNCHANGED <<utxo_tree, cursor, restarts>> /\ At("block") /\ past' = AfterFailure
      /\ loop' = Idle
  BY DEF FailBlock, GivenUp, trees, env, Processing
<1>2. past \in [failed : BOOLEAN, rolled : BOOLEAN, risky : BOOLEAN]
  BY DEF Inv, TypeOK
<1>3. past'.failed /\ past'.risky = past.risky
  BY <1>1, <1>2 DEF AfterFailure
<1>4. ~At("block")' /\ Behind' = TxsOn(cursor)
  BY <1>1 DEF At, Idle, Behind
<1>5. Behind \subseteq Behind'
  BY <1>1, <1>4, BehindAll DEF Inv, SpentInv
<1>6. OutputsSeen => OutputsSeen'
  BY <1>1, <1>3, <1>5, BehindGrows
<1>7. QED
  BY <1>1, <1>3, <1>4, <1>6 DEF SpentInv, AtCursor, AllDone, UnderWay, Processing

LEMMA FinishBlockSpent ==
    ASSUME Inv, SpentInv, FinishBlock
    PROVE  SpentInv'
<1>1. /\ UNCHANGED <<utxo_tree, cursor, restarts, past>> /\ At("block") /\ ~Processing
      /\ loop' = Idle
  BY DEF FinishBlock, env
<1>2. ~At("block")' /\ Behind' = TxsOn(cursor)
  BY <1>1 DEF At, Idle, Behind
<1>3. Behind' = Behind
  BY <1>1, <1>2, BehindAll DEF Inv, SpentInv
<1>4. OutputsSeen => OutputsSeen'
  BY <1>1, <1>3, BehindGrows
<1>5. AllDone => AllDone'
  BY <1>1, <1>3 DEF AllDone, Spent, Done
<1>6. QED
  BY <1>1, <1>2, <1>4, <1>5 DEF SpentInv, AtCursor, UnderWay, Processing

LEMMA RestartSpent ==
    ASSUME SpentInv, Restart
    PROVE  SpentInv'
<1>1. /\ utxo_tree' = NoUtxos /\ loop' = Idle /\ cursor' = Origin /\ past' = NoPast
      /\ restarts' = restarts + 1
  BY DEF Restart
<1>2. ~At("block")'
  BY <1>1 DEF Idle, At
<1>3. \A k \in AnyKey : ~Seen(k)'
  BY <1>1 DEF NoUtxos, Seen
<1>4. Behind' = {}
  BY <1>1, <1>2, BlocksOfOrigin DEF Behind
<1>5. OutputsSeen'
  BY <1>3, KeyFacts DEF OutputsSeen
<1>6. QED
  BY <1>1, <1>2, <1>4, <1>5 DEF SpentInv, AtCursor, AllDone, UnderWay, Processing

\* RemoveUtxo and InsertUtxo.
LEMMA ItemSpent ==
    ASSUME Inv, SpentInv, RemoveUtxo \/ InsertUtxo
    PROVE  SpentInv'
<1>. DEFINE b == loop.block
            t == loop.tx
            n == loop.item
            ins == Len(InputsSeen(Tx))
            last == ins + Len(OutputsOf[Tx])
<1>1. /\ UNCHANGED <<cursor, past, restarts>> /\ Processing /\ ~Failing /\ loop' = Advanced
      /\ At("block")
  BY DEF RemoveUtxo, InsertUtxo, env, Processing
<1>2. /\ b \in Blocks /\ t \in Nat \ {0} /\ n \in 1 .. last /\ Tx \in Txs /\ Tx = TxsOf[b][t]
      /\ ins \in Nat \ {0} /\ DOMAIN InputsSeen(Tx) = 1 .. ins /\ last \in Nat /\ ins <= last
  <2>1. /\ b \in Blocks /\ t \in Nat \ {0} /\ Tx \in Txs /\ n \in Items(Tx)
        /\ Tx = TxsOf[b][t]
    BY <1>1, TxFacts DEF Inv, Tx
  <2>2. /\ InputsSeen(Tx) \in Seq(AnyKey) /\ ins \in Nat \ {0}
        /\ Len(OutputsOf[Tx]) \in Nat
    BY <2>1, ItemFacts
  <2>3. DOMAIN InputsSeen(Tx) = 1 .. ins
    BY <2>2, LenProperties
  <2>4. last \in Nat /\ ins <= last
    BY <2>2
  <2>5. n \in 1 .. last
    BY <2>1 DEF Items
  <2>. HIDE DEF b, t, n, ins, last
  <2>6. QED
    BY <2>1, <2>2, <2>3, <2>4, <2>5
<1>3. /\ loop'.at = "block" /\ loop'.block = b
      /\ \/ n < last /\ loop'.tx = t /\ loop'.item = n + 1
         \/ n = last /\ loop'.tx = t + 1 /\ loop'.item = 1
  BY <1>1, AdvanceCases DEF Inv
<1>4. Behind = TxsOn(PrevOf(b)) \cup {TxsOf[b][i] : i \in 1 .. t - 1}
  BY <1>1 DEF Behind
<1>5. /\ n < last => Behind' = Behind
      /\ n = last => Behind' = Behind \cup {Tx}
  <2>1. Behind' = TxsOn(PrevOf(b)) \cup {TxsOf[b][i] : i \in 1 .. loop'.tx - 1}
    BY <1>3 DEF Behind, At
  <2>. HIDE DEF b, t, n, ins, last
  <2>2. n < last => loop'.tx - 1 = t - 1
    BY <1>2, <1>3
  <2>3. n = last => 1 .. loop'.tx - 1 = (1 .. t - 1) \cup {t}
    BY <1>2, <1>3
  <2>4. QED
    BY <1>2, <1>4, <2>1, <2>2, <2>3
<1>6. AtCursor'
  BY <1>1, <1>3 DEF SpentInv, AtCursor
<1>. n = loop.item /\ ins = Len(InputsSeen(Tx))
  OBVIOUS
<1>. HIDE DEF b, t, n, ins, last
<1>7. SUFFICES ASSUME ~past.risky PROVE OutputsSeen' /\ AllDone' /\ UnderWay'
  BY <1>1, <1>6 DEF SpentInv
<1>8. /\ \A k \in AnyKey : Spent(k) => Spent(k)'
      /\ \A k \in AnyKey : Seen(k)' => Seen(k) \/ k = ItemKey
      /\ OnInput => utxo_tree'[ItemKey] = "spent"
  BY <1>7, SpentGrows DEF Inv
<1>9. \A tx \in Txs : Done(tx) => Done(tx)'
  BY <1>8, DoneStays
<1>10. OutputsSeen'
  <2>1. SUFFICES ASSUME NEW k \in Key, Seen(k)'
                 PROVE  Done(k[1])' \/ (past.failed /\ k[1] \in Behind')
    BY <1>1 DEF OutputsSeen
  <2>2. k \in AnyKey /\ k[1] \in Txs
    BY KeyFacts
  <2>3. Behind \subseteq Behind'
    BY <1>2, <1>5
  <2>4. CASE Seen(k)
    <3>1. Done(k[1]) \/ (past.failed /\ k[1] \in Behind)
      BY <1>7, <2>4 DEF SpentInv, OutputsSeen
    <3>2. QED
      BY <1>9, <2>2, <2>3, <3>1
  <2>5. CASE ~Seen(k) /\ OnInput
    <3>1. k = ItemKey
      BY <1>8, <2>1, <2>2, <2>5
    <3>2. k[1] \in Behind
      BY <1>1, <2>5, <3>1, TxIsNew DEF Inv
    <3>3. past.failed \/ Done(k[1])
      BY <1>7, <3>2 DEF SpentInv, AllDone
    <3>4. QED
      BY <1>9, <2>2, <2>3, <3>2, <3>3
  \* All inputs are before an output.
  <2>6. CASE ~Seen(k) /\ ~OnInput
    <3>1. k = ItemKey
      BY <1>8, <2>1, <2>2, <2>6
    <3>2. k[1] = Tx
      BY <2>6, <3>1 DEF ItemKey
    <3>3. 1 .. ins \subseteq 1 .. n - 1
      BY <1>2, <2>6 DEF OnInput
    <3>4. \A i \in DOMAIN InputsSeen(Tx) : Spent(InputsSeen(Tx)[i])
      BY <1>1, <1>2, <1>7, <3>3 DEF SpentInv, UnderWay
    <3>5. Done(Tx)
      BY <3>4 DEF Done
    <3>6. QED
      BY <1>9, <2>2, <3>2, <3>5
  <2>7. QED
    BY <2>4, <2>5, <2>6
\* The inputs up to the one at hand.
<1>11. ASSUME NEW i \in 1 .. n, i \in DOMAIN InputsSeen(Tx)
       PROVE  utxo_tree'[InputsSeen(Tx)[i]] = "spent"
  <2>1. InputsSeen(Tx)[i] \in AnyKey
    BY <1>2, <1>11, ItemFacts, ElementOfSeq
  <2>2. CASE i = n
    <3>1. OnInput
      BY <1>2, <1>11, <2>2 DEF OnInput
    <3>2. ItemKey = InputsSeen(Tx)[i]
      BY <2>2, <3>1 DEF ItemKey
    <3>3. QED
      BY <1>8, <3>1, <3>2
  <2>3. CASE i # n
    <3>1. i \in 1 .. n - 1
      BY <1>2, <2>3
    <3>2. Spent(InputsSeen(Tx)[i])
      BY <1>1, <1>7, <1>11, <3>1 DEF SpentInv, UnderWay
    <3>3. QED
      BY <1>8, <2>1, <3>2 DEF Spent
  <2>4. QED
    BY <2>2, <2>3
<1>12. AllDone'
  <2>1. SUFFICES ASSUME ~past.failed, NEW tx \in Behind' PROVE Done(tx)'
    BY <1>1 DEF AllDone
  <2>2. CASE tx \in Behind
    <3>1. tx \in Txs
      BY <2>2, BehindTxs DEF Inv
    <3>2. Done(tx)
      BY <1>7, <2>1, <2>2 DEF SpentInv, AllDone
    <3>3. QED
      BY <1>9, <3>1, <3>2
  <2>3. CASE tx \notin Behind
    <3>1. tx = Tx /\ n = last
      BY <1>2, <1>5, <2>3
    <3>2. \A i \in DOMAIN InputsSeen(Tx) : i \in 1 .. n
      BY <1>2, <3>1
    <3>3. \A i \in DOMAIN InputsSeen(Tx) : utxo_tree'[InputsSeen(Tx)[i]] = "spent"
      BY <1>11, <3>2
    <3>. DEFINE x == Tx
    <3>4. x = tx /\ \A i \in DOMAIN InputsSeen(x) : utxo_tree'[InputsSeen(x)[i]] = "spent"
      BY <3>1, <3>3
    <3>. HIDE DEF x
    <3>5. QED
      BY <3>4 DEF Done, Spent
  <2>4. QED
    BY <2>2, <2>3
<1>13. UnderWay'
  <2>1. CASE n = last
    <3>1. loop'.item = 1
      BY <1>2, <1>3, <2>1
    <3>2. 1 .. loop'.item - 1 = {}
      BY <3>1
    <3>3. QED
      BY <3>1, <3>2 DEF UnderWay
  <2>2. CASE n < last
    <3>1. loop'.block = b /\ loop'.tx = t /\ loop'.item = n + 1
      BY <1>2, <1>3, <2>2
    <3>2. Tx' = Tx
      BY <1>2, <3>1 DEF Tx
    <3>3. \A i \in 1 .. n : i \in DOMAIN InputsSeen(Tx) => utxo_tree'[InputsSeen(Tx)[i]] = "spent"
      BY <1>11
    <3>4. ASSUME NEW k \in OutputKeys(Tx), n + 1 <= ins + k[2] PROVE utxo_tree'[k] = "absent"
      <4>1. k[2] \in Nat /\ k \in AnyKey
        <5>1. k \in Key
          BY <1>2 DEF Key
        <5>2. QED
          BY <5>1, KeyFacts
      <4>2. n <= ins + k[2] /\ n - ins # k[2]
        BY <1>2, <3>4, <4>1
      <4>3. ~Seen(k) /\ (OnInput => ItemKey # k)
        BY <1>1, <1>7, <4>2, OutputsFresh DEF Inv, Ahead
      <4>4. ~OnInput => ItemKey # k
        BY <4>2 DEF ItemKey
      <4>5. QED
        BY <1>8, <4>1, <4>3, <4>4 DEF Seen
    <3>5. \A i \in 1 .. loop'.item - 1 :
              i \in DOMAIN InputsSeen(Tx') => utxo_tree'[InputsSeen(Tx')[i]] = "spent"
      <4>1. loop'.item - 1 = n
        <5>1. n \in Nat /\ loop'.item = n + 1
          BY <1>2, <3>1
        <5>2. \A m \in Nat : m + 1 - 1 = m
          OBVIOUS
        <5>3. QED
          BY <5>1, <5>2
      <4>. DEFINE x == Tx
                  y == Tx'
      <4>2. /\ x = y
            /\ \A i \in 1 .. n :
                   i \in DOMAIN InputsSeen(x) => utxo_tree'[InputsSeen(x)[i]] = "spent"
        BY <3>2, <3>3
      <4>. HIDE DEF x, y
      <4>3. \A i \in 1 .. n : i \in DOMAIN InputsSeen(y) => utxo_tree'[InputsSeen(y)[i]] = "spent"
        BY <4>2, Zenon
      <4>4. QED
        BY <4>1, <4>3 DEF y
    <3>6. \A k \in OutputKeys(Tx') :
              loop'.item <= Len(InputsSeen(Tx')) + k[2] => utxo_tree'[k] = "absent"
      BY <3>1, <3>2, <3>4
    <3>7. QED
      BY <3>5, <3>6 DEF UnderWay, Ahead, Spent, Seen
  <2>3. QED
    BY <1>2, <2>1, <2>2
<1>14. QED
  BY <1>10, <1>12, <1>13

LEMMA NextSpent == Inv /\ SpentInv /\ [Next]_vars => SpentInv'
<1>. SUFFICES ASSUME Inv, SpentInv, [Next]_vars PROVE SpentInv'
  OBVIOUS
<1>1. ASSUME NEW p \in Point, Switch(p) PROVE SpentInv'
  BY <1>1, SameSpent DEF Switch, trees, memory
<1>2. CASE Sync
  BY <1>2, RollForwardSpent, RollBackwardSpent, AwaitSpent, FailBlockSpent, ItemSpent,
     FinishBlockSpent DEF Sync
<1>3. CASE Restart
  BY <1>3, RestartSpent
<1>4. CASE UNCHANGED vars
  BY <1>4, SameSpent DEF vars, trees, memory, env
<1>5. QED
  BY <1>1, <1>2, <1>3, <1>4 DEF Next

(***************************************************************************)
(* process_block_simple never brings a spent output back into the tree,    *)
(* however often forks send the transaction that made it: its first input  *)
(* is spent too, does not deserialize, and fails the block.  After a       *)
(* failed block that holds until the next rollback.                        *)
(***************************************************************************)
THEOREM SpentNeverReturns == Spec => SpentStaysSpent
<1>. DEFINE StaysSpent == \A k \in AnyKey :
                 utxo_tree[k] = "spent" /\ ~past'.risky /\ restarts' = restarts
                     => utxo_tree'[k] = "spent"
<1>1. Inv /\ SpentInv /\ [Next]_vars => [StaysSpent]_vars
  <2>1. SUFFICES ASSUME Inv, SpentInv, Next, NEW k \in AnyKey, utxo_tree[k] = "spent",
                        ~past'.risky, restarts' = restarts
                 PROVE  utxo_tree'[k] = "spent"
    OBVIOUS
  <2>2. ~Restart
    BY <2>1 DEF Restart, SpentInv
  <2>3. CASE RemoveUtxo \/ InsertUtxo
    <3>1. ~past.risky
      BY <2>1, <2>3 DEF RemoveUtxo, InsertUtxo
    <3>2. QED
      BY <2>1, <2>3, <3>1, SpentGrows DEF Inv, Spent
  <2>4. CASE ~(RemoveUtxo \/ InsertUtxo)
    <3>1. utxo_tree' = utxo_tree
      BY <2>1, <2>2, <2>4 DEF Next, Sync, Switch, RollForward, RollBackward, Await, FailBlock,
         FinishBlock, trees
    <3>2. QED
      BY <2>1, <3>1
  <2>5. QED
    BY <2>3, <2>4
<1>2. Spec => [](Inv /\ SpentInv)
  BY InitInv, InitSpent, NextInv, NextSpent, PTL DEF Spec
<1>3. QED
  BY <1>1, <1>2, PTL DEF Spec, SpentStaysSpent

-----------------------------------------------------------------------------
(* Stake.                                                                  *)

\* What the outputs K are worth, and the live ones of a credential.
Worth(K) == MapThenSumSet(AmountOf, K)

Holding(c, K) == {k \in K : StakeOf[AddressOf(k)] = c}

StakeInv ==
    ~past.risky =>
        /\ IsFiniteSet(Live)
        /\ \A c \in Credentials : current_stake[c] = Worth(Holding(c, Live))

LEMMA WorthIsSum ==
    ASSUME NEW S, IsFiniteSet(S)
    PROVE  Worth(S) = SumOf([x \in S |-> AmountOf(x)], S)
<1>. DEFINE v == [x \in S |-> AmountOf(x)]
            Solves(g) == g = [T \in SUBSET S |->
                                IF T = {} THEN 0
                                ELSE AmountOf(Pick(T)) + g[T \ {Pick(T)}]]
            f == CHOOSE g : Solves(g)
<1>1. \A g : Adds(g, v, SUBSET S) <=> Solves(g)
  <2>1. \A T \in SUBSET S : T # {} => v[Pick(T)] = AmountOf(Pick(T))
    BY PickIsIn
  <2>. HIDE DEF v
  <2>2. QED
    BY <2>1 DEF Adds
<1>2. PICK g : Adds(g, v, SUBSET S)
  BY AddsExists
<1>3. Solves(f)
  <2>1. Solves(g)
    BY <1>1, <1>2
  <2>. HIDE DEF Solves
  <2>2. QED
    BY <2>1, Zenon
<1>4. SumOf(v, S) = f[S]
  <2>. HIDE DEF Solves, f, v
  <2>1. QED
    BY <1>1, <1>3, SumIsAdded
<1>5. Worth(S) = f[S]
  BY DEF Worth, MapThenSumSet, MapThenFoldSet, Pick
<1>. HIDE DEF f
<1>6. QED
  BY <1>4, <1>5

\* An output more is worth its amount.
LEMMA WorthAdd ==
    ASSUME NEW S \in SUBSET Key, IsFiniteSet(S), NEW k \in Key \ S
    PROVE  Worth(S) \in Nat /\ Worth(S \cup {k}) = Worth(S) + AmountOf(k)
<1>. DEFINE T == S \cup {k}
            v == [x \in S |-> AmountOf(x)]
            w == [x \in T |-> AmountOf(x)]
<1>1. IsFiniteSet(T)
  BY SmallerFinite
<1>2. /\ \A x \in S : v[x] \in Nat /\ v[x] = w[x]
      /\ \A x \in T : w[x] \in Int
      /\ w[k] = AmountOf(k)
  BY AmountFacts
<1>3. Worth(S) = SumOf(v, S) /\ Worth(T) = SumOf(w, T)
  BY <1>1, WorthIsSum
<1>. HIDE DEF v, w
<1>4. SumOf(v, S) \in Nat /\ SumOf(v, S) = SumOf(w, S)
  BY <1>2, SumNat, SumSame
<1>5. SumOf(w, T) = SumOf(w, S) + w[k]
  BY <1>2, SumAdd
<1>6. QED
  BY <1>2, <1>3, <1>4, <1>5

\* The stake over K and over K with one more output.
LEMMA HoldingAdd ==
    ASSUME NEW K \in SUBSET Key, IsFiniteSet(K), NEW k \in Key \ K, NEW c
    PROVE  /\ Worth(Holding(c, K)) \in Nat
           /\ Worth(Holding(c, K \cup {k})) =
                  Worth(Holding(c, K)) + (IF StakeOf[AddressOf(k)] = c THEN AmountOf(k) ELSE 0)
<1>1. Holding(c, K) \in SUBSET Key /\ IsFiniteSet(Holding(c, K)) /\ k \in Key \ Holding(c, K)
  BY SmallerFinite DEF Holding
<1>2. Worth(Holding(c, K)) \in Nat
  BY <1>1, WorthAdd
<1>3. CASE StakeOf[AddressOf(k)] = c
  <2>1. Holding(c, K \cup {k}) = Holding(c, K) \cup {k}
    BY <1>3 DEF Holding
  <2>2. QED
    BY <1>1, <1>2, <1>3, <2>1, WorthAdd
<1>4. CASE StakeOf[AddressOf(k)] # c
  <2>1. Holding(c, K \cup {k}) = Holding(c, K)
    BY <1>4 DEF Holding
  <2>2. QED
    BY <1>2, <1>4, <2>1
<1>5. QED
  BY <1>3, <1>4

LEMMA WorthOfNone == Worth({}) = 0
BY FS_EmptySet, WorthIsSum, SumEmpty

LEMMA EmptyStake ==
    ASSUME Live = {}, current_stake = NoStakes
    PROVE  StakeInv
<1>1. \A c : Holding(c, Live) = {}
  BY DEF Holding
<1>2. QED
  BY <1>1, WorthOfNone, FS_EmptySet DEF StakeInv, NoStakes

LEMMA SameStake ==
    StakeInv /\ UNCHANGED <<utxo_tree, current_stake>> /\ (past.risky => past'.risky) => StakeInv'
BY DEF StakeInv, Live

\* The spent output is counted, so there is no saturation to lose by.
LEMMA RemoveStake ==
    ASSUME Inv, StakeInv, RemoveUtxo
    PROVE  StakeInv'
<1>. DEFINE k == ItemKey
            s == StakeOf[AddressOf(ItemKey)]
<1>1. /\ Processing /\ utxo_tree' = [utxo_tree EXCEPT ![k] = "spent"]
      /\ past' = past /\ current_stake' = Debited(k)
  BY DEF RemoveUtxo
<1>2. k \in AnyKey
  BY <1>1, TxFacts DEF Inv
<1>3. SUFFICES ASSUME ~past.risky
               PROVE  /\ IsFiniteSet(Live')
                      /\ \A c \in Credentials : current_stake'[c] = Worth(Holding(c, Live'))
  BY <1>1 DEF StakeInv, Holding
<1>4. /\ utxo_tree \in [AnyKey -> {"absent", "live", "spent"}]
      /\ current_stake \in [Credentials -> Nat]
      /\ Key \subseteq AnyKey
  BY DEF Inv, TypeOK, AnyKey
<1>5. IsFiniteSet(Live) /\ \A c \in Credentials : current_stake[c] = Worth(Holding(c, Live))
  BY <1>3 DEF StakeInv
<1>6. Live' = Live \ {k}
  BY <1>1, <1>2, <1>4 DEF Live
<1>7. CASE utxo_tree[k] # "live"
  <2>1. current_stake' = current_stake
    BY <1>1, <1>7 DEF Debited
  <2>2. Live' = Live
    BY <1>6, <1>7 DEF Live
  <2>3. QED
    BY <1>5, <2>1, <2>2
<1>8. CASE utxo_tree[k] = "live"
  <2>. DEFINE K == Live \ {k}
  <2>1. k \in Key /\ k \in Live
    BY <1>2, <1>8 DEF Inv, LiveKeys, Live
  <2>2. K \in SUBSET Key /\ IsFiniteSet(K) /\ k \in Key \ K /\ Live = K \cup {k}
    BY <1>5, <2>1, SmallerFinite DEF Live
  <2>3. AmountOf(k) \in Nat
    BY <2>1, AmountFacts
  <2>4. ASSUME NEW c \in Credentials PROVE current_stake'[c] = Worth(Holding(c, K))
    <3>. HIDE DEF K
    <3>1. /\ Worth(Holding(c, K)) \in Nat
          /\ Worth(Holding(c, K \cup {k})) =
                 Worth(Holding(c, K)) + (IF s = c THEN AmountOf(k) ELSE 0)
      BY <2>2, HoldingAdd
    <3>2. current_stake[c] = Worth(Holding(c, K)) + (IF s = c THEN AmountOf(k) ELSE 0)
      BY <1>5, <2>2, <3>1
    <3>3. CASE s = c
      <4>1. s # NoStake
        BY <3>3, NodeConstants
      <4>2. current_stake' = [current_stake EXCEPT ![s] = IF @ < AmountOf(k) THEN 0
                                                          ELSE @ - AmountOf(k)]
        BY <1>1, <1>8, <4>1 DEF Debited
      <4>3. current_stake'[c] = IF current_stake[c] < AmountOf(k) THEN 0
                                ELSE current_stake[c] - AmountOf(k)
        BY <1>4, <3>3, <4>2
      <4>. HIDE DEF k
      <4>4. QED
        BY <2>3, <3>1, <3>2, <3>3, <4>3
    <3>4. CASE s # c
      <4>1. current_stake'[c] = current_stake[c]
        BY <1>1, <1>4, <3>4 DEF Debited
      <4>2. QED
        BY <3>1, <3>2, <3>4, <4>1
    <3>5. QED
      BY <3>3, <3>4
  <2>5. QED
    BY <1>6, <2>2, <2>4
<1>9. QED
  BY <1>7, <1>8

\* The new output is not counted yet.
LEMMA InsertStake ==
    ASSUME Inv, SpentInv, StakeInv, InsertUtxo
    PROVE  StakeInv'
<1>. DEFINE k == ItemKey
            s == StakeOf[AddressOf(ItemKey)]
<1>1. /\ utxo_tree' = [utxo_tree EXCEPT ![k] = "live"]
      /\ past' = past /\ current_stake' = Credited(k)
  BY DEF InsertUtxo
<1>2. SUFFICES ASSUME ~past.risky
               PROVE  /\ IsFiniteSet(Live')
                      /\ \A c \in Credentials : current_stake'[c] = Worth(Holding(c, Live'))
  BY <1>1 DEF StakeInv, Holding
<1>3. /\ utxo_tree \in [AnyKey -> {"absent", "live", "spent"}]
      /\ current_stake \in [Credentials -> Nat]
      /\ Key \subseteq AnyKey
  BY DEF Inv, TypeOK, AnyKey
<1>4. IsFiniteSet(Live) /\ \A c \in Credentials : current_stake[c] = Worth(Holding(c, Live))
  BY <1>2 DEF StakeInv
<1>5. k \in Key /\ utxo_tree[k] = "absent"
  BY <1>2, OutputIsNew DEF Inv, Seen
<1>6. Live' = Live \cup {k} /\ k \notin Live /\ Live \in SUBSET Key
  BY <1>1, <1>3, <1>5 DEF Live
<1>7. AmountOf(k) \in Nat
  BY <1>5, AmountFacts
<1>8. ASSUME NEW c \in Credentials PROVE current_stake'[c] = Worth(Holding(c, Live \cup {k}))
  <2>1. /\ Worth(Holding(c, Live)) \in Nat
        /\ Worth(Holding(c, Live \cup {k})) =
               Worth(Holding(c, Live)) + (IF s = c THEN AmountOf(k) ELSE 0)
    BY <1>4, <1>5, <1>6, HoldingAdd
  <2>2. CASE s = c
    <3>1. s # NoStake
      BY <2>2, NodeConstants
    <3>2. current_stake' = [current_stake EXCEPT ![s] = @ + AmountOf(k)]
      BY <1>1, <3>1 DEF Credited
    <3>3. current_stake'[c] = current_stake[c] + AmountOf(k)
      BY <1>3, <2>2, <3>2
    <3>4. QED
      BY <1>4, <2>1, <2>2, <3>3
  <2>3. CASE s # c
    <3>1. current_stake'[c] = current_stake[c]
      BY <1>1, <1>3, <2>3 DEF Credited
    <3>2. QED
      BY <1>4, <2>1, <2>3, <3>1
  <2>4. QED
    BY <2>2, <2>3
<1>9. IsFiniteSet(Live')
  BY <1>4, <1>6, SmallerFinite
<1>10. QED
  BY <1>6, <1>8, <1>9

LEMMA NextStake == Inv /\ SpentInv /\ StakeInv /\ [Next]_vars => StakeInv'
<1>. SUFFICES ASSUME Inv, SpentInv, StakeInv, [Next]_vars PROVE StakeInv'
  OBVIOUS
<1>1. past \in [failed : BOOLEAN, rolled : BOOLEAN, risky : BOOLEAN]
  BY DEF Inv, TypeOK
<1>2. past.risky => AfterFailure.risky /\ AfterRollback.risky
  BY <1>1 DEF AfterFailure, AfterRollback
<1>3. CASE UNCHANGED vars \/ \E p \in Point : Switch(p)
  BY <1>3, SameStake DEF vars, trees, memory, Switch
<1>4. CASE RollForward
  BY <1>2, <1>4, SameStake DEF RollForward, trees
<1>5. CASE RollBackward \/ Await \/ FailBlock \/ FinishBlock
  BY <1>2, <1>5, SameStake DEF RollBackward, Await, FailBlock, FinishBlock, trees, memory
<1>6. CASE RemoveUtxo \/ InsertUtxo
  BY <1>6, RemoveStake, InsertStake
<1>7. CASE Restart
  <2>1. Live' = {} /\ current_stake' = NoStakes
    BY <1>7 DEF Restart, Live, NoUtxos, AnyKey
  <2>2. \A c : Holding(c, {}) = {}
    BY DEF Holding
  <2>3. QED
    BY <2>1, <2>2, WorthOfNone, FS_EmptySet DEF StakeInv, NoStakes, Holding
<1>8. QED
  BY <1>3, <1>4, <1>5, <1>6, <1>7 DEF Next, Sync

(***************************************************************************)
(* The stake hayate-node counts along the way is the stake of the outputs  *)
(* in its tree: in the middle of a block, after a block that failed        *)
(* half-way, after forks whose transactions are sent again, and whatever   *)
(* was spent that it never saw.  Not after a rollback over a failed block. *)
(***************************************************************************)
THEOREM StakeCountsLive == Spec => []StakeIsLive
<1>1. Init => StakeInv
  <2>1. Init => Live = {} /\ current_stake = NoStakes
    BY DEF Init, Live, NoUtxos, AnyKey
  <2>2. QED
    BY <2>1, EmptyStake
<1>2. StakeInv => StakeIsLive
  BY DEF StakeInv, StakeIsLive, Total, Worth, Holding
<1>3. QED
  BY InitInv, InitSpent, NextInv, NextSpent, NextStake, <1>1, <1>2, PTL DEF Spec

-----------------------------------------------------------------------------
(* The snapshots of an epoch.                                              *)

EpochOf(b) == slot_to_epoch(SlotOf[b])

\* What the loop has put into the tree and what it has taken out, of which the
\* transaction under way has come to item n.
MadeBy(tx, n) == {k \in OutputKeys(tx) : Len(InputsSeen(tx)) + k[2] < n}

Made ==
    (UNION {OutputKeys(tx) : tx \in Behind})
        \cup (IF Processing THEN MadeBy(Tx, loop.item) ELSE {})

SeenBy(tx) == {InputsSeen(tx)[i] : i \in DOMAIN InputsSeen(tx)}

GoneBy(tx, n) == {InputsSeen(tx)[i] : i \in DOMAIN InputsSeen(tx) \cap (1 .. n - 1)}

Gone ==
    (UNION {SeenBy(tx) : tx \in Behind})
        \cup (IF Processing THEN GoneBy(Tx, loop.item) ELSE {})

\* The first block of an epoch.
Opens(b) == \A a \in BlocksOf(PrevOf(b)) : EpochOf(a) < EpochOf(b)

\* The current epoch is that of the tip.
EpochsOK ==
    /\ \A a \in BlocksOf(chain_tip) : EpochOf(a) <= current_epoch
    /\ current_epoch = 0 \/ \E a \in BlocksOf(chain_tip) : EpochOf(a) = current_epoch

StoredOK ==
    /\ DOMAIN stake_tree = {EpochOf(b) : b \in BlocksOf(chain_tip)} \ {0}
    /\ \A e \in DOMAIN stake_tree : \E b \in BlocksOf(chain_tip) : EpochOf(b) = e /\ Opens(b)
    /\ \A b \in BlocksOf(chain_tip) :
           Opens(b) /\ EpochOf(b) # 0 => StakeStored(EpochOf(b), b) /\ NonceStored(EpochOf(b), b)

SnapInv ==
    /\ past.risky => past.rolled
    /\ ~past.failed /\ ~past.rolled =>
          /\ chain_tip = IF At("block") THEN PrevOf(loop.block) ELSE cursor
          /\ Live = Made \ Gone
          /\ FoldsVrfs(rolling_nonce, cursor)
          /\ EpochsOK
          /\ StoredOK

LEMMA SlotsGrow ==
    ASSUME NEW b \in Blocks, NEW a \in BlocksOf(PrevOf(b))
    PROVE  a \in Blocks /\ SlotOf[a] \in Nat /\ SlotOf[b] \in Nat /\ SlotOf[a] < SlotOf[b]
<1>. DEFINE c == ChainTo[b]
            n == Len(ChainTo[b])
<1>1. n \in Nat \ {0} /\ c[n] = b /\ DOMAIN c = 1 .. n /\ BlocksOf(b) = {c[i] : i \in 1 .. n}
  BY ChainOfBlock
<1>2. a \in BlocksOf(b) /\ a # b /\ a \in Blocks
  BY PrevFacts
<1>3. PICK i \in 1 .. n : a = c[i]
  BY <1>1, <1>2
<1>4. i < n
  BY <1>1, <1>2, <1>3
<1>5. SlotOf[c[i]] < SlotOf[c[n]]
  BY <1>1, <1>3, <1>4, ChainShape
<1>6. QED
  BY <1>1, <1>2, <1>3, <1>5, ChainTypes

LEMMA DivMono ==
    ASSUME NEW m \in Nat, NEW n \in Nat, m <= n, NEW d \in Nat \ {0}
    PROVE  m \div d <= n \div d
<1>. DEFINE p == m \div d
            q == n \div d
<1>1. p \in Nat /\ q \in Nat
  BY DivNat
<1>2. d * p <= m /\ n < d * q + d
  OBVIOUS
<1>3. SUFFICES ASSUME q < p PROVE FALSE
  BY <1>1
<1>4. p - q - 1 \in Nat
  BY <1>1, <1>3
<1>. HIDE DEF p, q
<1>5. d * (p - q - 1) \in Nat
  BY <1>4
<1>6. d * (p - q - 1) = d * p - d * q - d
  BY <1>1
<1>7. d * p \in Nat /\ d * q \in Nat
  BY <1>1
<1>8. QED
  BY <1>2, <1>5, <1>6, <1>7

LEMMA EpochsGrow ==
    ASSUME NEW b \in Blocks, NEW a \in BlocksOf(PrevOf(b))
    PROVE  EpochOf(a) <= EpochOf(b)
BY SlotsGrow, DivMono, NodeConstants DEF EpochOf, slot_to_epoch

\* The VRF output of one more block.
LEMMA FoldNext ==
    ASSUME NEW b \in Blocks, NEW s, FoldsVrfs(s, PrevOf(b))
    PROVE  FoldsVrfs(IF b \in HasVrf THEN Append(s, b) ELSE s, b)
<1>1. s \in Seq(HasVrf) /\ Range(s) = VrfsTo(PrevOf(b)) /\ InOrder(s)
  BY DEF FoldsVrfs
<1>2. BlocksOf(b) = BlocksOf(PrevOf(b)) \cup {b}
  BY PrevFacts
<1>3. CASE b \notin HasVrf
  <2>1. VrfsTo(b) = VrfsTo(PrevOf(b))
    BY <1>2, <1>3 DEF VrfsTo
  <2>2. QED
    BY <1>1, <1>3, <2>1 DEF FoldsVrfs
<1>4. CASE b \in HasVrf
  <2>. DEFINE t == Append(s, b)
              n == Len(s)
  <2>1. /\ t \in Seq(HasVrf) /\ n \in Nat /\ DOMAIN s = 1 .. n /\ DOMAIN t = 1 .. n + 1
        /\ \A i \in 1 .. n : t[i] = s[i]
        /\ t[n + 1] = b
    BY <1>1, <1>4
  <2>2. 1 .. n + 1 = (1 .. n) \cup {n + 1}
    BY <2>1
  <2>. HIDE DEF t, n
  <2>3. VrfsTo(b) = VrfsTo(PrevOf(b)) \cup {b}
    BY <1>2, <1>4 DEF VrfsTo
  <2>4. Range(t) = Range(s) \cup {b}
    BY <2>1, <2>2 DEF Range
  <2>5. ASSUME NEW i \in 1 .. n + 1, NEW j \in 1 .. n + 1, i < j
        PROVE  SlotOf[t[i]] < SlotOf[t[j]]
    <3>1. i \in 1 .. n /\ t[i] = s[i]
      BY <2>1, <2>5
    <3>2. CASE j = n + 1
      <4>1. s[i] \in BlocksOf(PrevOf(b))
        BY <1>1, <2>1, <3>1 DEF Range, VrfsTo
      <4>2. QED
        BY <2>1, <3>1, <3>2, <4>1, SlotsGrow
    <3>3. CASE j # n + 1
      <4>1. j \in 1 .. n
        BY <2>1, <3>3
      <4>2. QED
        BY <1>1, <2>1, <2>5, <3>1, <4>1 DEF InOrder
    <3>4. QED
      BY <3>2, <3>3
  <2>6. InOrder(t)
    BY <2>1, <2>5 DEF InOrder
  <2>7. FoldsVrfs(t, b)
    BY <1>1, <2>1, <2>3, <2>4, <2>6 DEF FoldsVrfs
  <2>8. QED
    BY <1>4, <2>7 DEF t
<1>5. QED
  BY <1>3, <1>4

LEMMA FoldNone == FoldsVrfs(<<>>, Origin)
<1>1. Range(<<>>) = {} /\ InOrder(<<>>)
  BY DEF Range, InOrder
<1>2. VrfsTo(Origin) = {}
  BY BlocksOfOrigin DEF VrfsTo
<1>3. QED
  BY <1>1, <1>2 DEF FoldsVrfs

\* Without outputs of the genesis, what is gone are the inputs.
LEMMA SeenByFacts ==
    ASSUME NEW tx \in Txs
    PROVE  SeenBy(tx) \cap Key = InputKeys(tx)
<1>1. InputKeys(tx) \subseteq Key
  BY ChainTypes, ElementOfSeq DEF InputKeys
<1>2. CASE InputsOf[tx] = <<>>
  <2>1. InputKeys(tx) = {}
    BY <1>2 DEF InputKeys
  <2>2. SeenBy(tx) = {GenesisKey(tx)}
    BY <1>2 DEF SeenBy, InputsSeen
  <2>3. GenesisKey(tx) \notin Key
    BY KeyFacts DEF GenesisKey
  <2>4. QED
    BY <2>1, <2>2, <2>3
<1>3. CASE InputsOf[tx] # <<>>
  BY <1>1, <1>3 DEF SeenBy, InputsSeen, InputKeys
<1>4. QED
  BY <1>2, <1>3

\* Between blocks the tree is the ledger.
LEMMA LedgerAtRest ==
    ASSUME Inv, Live = Made \ Gone, ~Processing, Behind = TxsOn(cursor)
    PROVE  Live = Unspent(cursor)
<1>1. \A tx \in Behind : tx \in Txs
  BY BehindTxs DEF Inv
<1>2. Made = UNION {OutputKeys(tx) : tx \in TxsOn(cursor)}
  BY DEF Made
<1>3. Gone = UNION {SeenBy(tx) : tx \in TxsOn(cursor)}
  BY DEF Gone
<1>4. Made \subseteq Key
  BY <1>1, <1>2 DEF Key
<1>5. ASSUME NEW k \in Key
      PROVE  k \in Gone <=> k \in UNION {InputKeys(tx) : tx \in TxsOn(cursor)}
  <2>1. \A tx \in TxsOn(cursor) : k \in SeenBy(tx) <=> k \in InputKeys(tx)
    BY <1>1, SeenByFacts
  <2>. DEFINE B == TxsOn(cursor)
  <2>2. k \in Gone <=> \E tx \in B : k \in SeenBy(tx)
    BY <1>3
  <2>3. (\E tx \in B : k \in SeenBy(tx)) <=> (\E tx \in B : k \in InputKeys(tx))
    BY <2>1
  <2>. HIDE DEF B
  <2>4. QED
    BY <2>2, <2>3 DEF B
<1>. DEFINE In  == UNION {InputKeys(tx) : tx \in TxsOn(cursor)}
            Out == UNION {OutputKeys(tx) : tx \in TxsOn(cursor)}
<1>6. Unspent(cursor) = Out \ In /\ Made = Out
  <2>1. Unspent(cursor) = Out \ In
    BY DEF Unspent
  <2>2. QED
    BY <1>2, <2>1
<1>7. \A k \in Key : k \in Gone <=> k \in In
  BY <1>5
<1>. HIDE DEF In, Out
<1>8. QED
  BY <1>4, <1>6, <1>7

\* A transaction from its first item to its last.
LEMMA ByFirst ==
    ASSUME NEW tx \in Txs
    PROVE  MadeBy(tx, 1) = {} /\ GoneBy(tx, 1) = {}
<1>1. ASSUME NEW k \in OutputKeys(tx) PROVE ~(Len(InputsSeen(tx)) + k[2] < 1)
  <2>1. k \in Key
    BY <1>1 DEF Key
  <2>2. k[2] \in Nat \ {0} /\ Len(InputsSeen(tx)) \in Nat
    BY <2>1, KeyFacts, ItemFacts
  <2>3. QED
    BY <2>2
<1>2. 1 .. 1 - 1 = {}
  OBVIOUS
<1>3. QED
  BY <1>1, <1>2 DEF MadeBy, GoneBy

LEMMA ByNext ==
    ASSUME NEW tx \in Txs, NEW n \in Items(tx)
    PROVE  /\ n <= Len(InputsSeen(tx)) =>
                  /\ MadeBy(tx, n + 1) = MadeBy(tx, n)
                  /\ GoneBy(tx, n + 1) = GoneBy(tx, n) \cup {ItemOf(tx, n)}
           /\ ~(n <= Len(InputsSeen(tx))) =>
                  /\ MadeBy(tx, n + 1) = MadeBy(tx, n) \cup {ItemOf(tx, n)}
                  /\ GoneBy(tx, n + 1) = GoneBy(tx, n)
<1>. DEFINE ins  == Len(InputsSeen(tx))
            outs == Len(OutputsOf[tx])
<1>1. /\ ins \in Nat \ {0} /\ outs \in Nat /\ n \in 1 .. ins + outs
      /\ DOMAIN InputsSeen(tx) = 1 .. ins /\ DOMAIN OutputsOf[tx] = 1 .. outs
  BY ItemFacts, LenProperties DEF Items
<1>2. ASSUME NEW k \in OutputKeys(tx)
      PROVE  k[2] \in 1 .. outs /\ k = <<tx, k[2]>>
  BY <1>1 DEF OutputKeys
<1>3. CASE n <= ins
  <2>1. \A k \in OutputKeys(tx) : ~(ins + k[2] < n + 1) /\ ~(ins + k[2] < n)
    <3>. HIDE DEF ins, outs
    <3>1. QED
      BY <1>1, <1>2, <1>3
  <2>2. MadeBy(tx, n + 1) = {} /\ MadeBy(tx, n) = {}
    BY <2>1 DEF MadeBy
  <2>3. (1 .. ins) \cap (1 .. n + 1 - 1) = ((1 .. ins) \cap (1 .. n - 1)) \cup {n}
    <3>. HIDE DEF ins, outs
    <3>1. QED
      BY <1>1, <1>3
  <2>4. ItemOf(tx, n) = InputsSeen(tx)[n]
    BY <1>3 DEF ItemOf
  <2>5. GoneBy(tx, n + 1) = GoneBy(tx, n) \cup {ItemOf(tx, n)}
    <3>1. /\ GoneBy(tx, n + 1) = {InputsSeen(tx)[i] : i \in (1 .. ins) \cap (1 .. n + 1 - 1)}
          /\ GoneBy(tx, n) = {InputsSeen(tx)[i] : i \in (1 .. ins) \cap (1 .. n - 1)}
      BY <1>1 DEF GoneBy
    <3>. DEFINE S == (1 .. ins) \cap (1 .. n - 1)
                T == (1 .. ins) \cap (1 .. n + 1 - 1)
    <3>2. T = S \cup {n} /\ GoneBy(tx, n + 1) = {InputsSeen(tx)[i] : i \in T}
          /\ GoneBy(tx, n) = {InputsSeen(tx)[i] : i \in S}
      BY <2>3, <3>1
    <3>. HIDE DEF S, T
    <3>3. QED
      BY <2>4, <3>2
  <2>6. QED
    BY <1>3, <2>2, <2>5
<1>4. CASE ~(n <= ins)
  <2>. DEFINE k == <<tx, n - ins>>
  <2>1. n - ins \in 1 .. outs
    <3>. HIDE DEF ins, outs
    <3>1. QED
      BY <1>1, <1>4
  <2>2. k \in OutputKeys(tx) /\ ItemOf(tx, n) = k
    BY <1>1, <1>4, <2>1 DEF OutputKeys, ItemOf
  <2>3. ASSUME NEW j \in OutputKeys(tx)
        PROVE  ins + j[2] < n + 1 <=> ins + j[2] < n \/ j = k
    <3>1. j[2] \in 1 .. outs /\ j = <<tx, j[2]>>
      BY <1>2
    <3>2. j = k <=> j[2] = n - ins
      BY <3>1
    <3>. HIDE DEF k, ins, outs
    <3>3. ins + j[2] < n + 1 <=> ins + j[2] < n \/ j[2] = n - ins
      BY <1>1, <3>1
    <3>4. QED
      BY <3>2, <3>3 DEF ins
  <2>4. MadeBy(tx, n + 1) = MadeBy(tx, n) \cup {k}
    <3>. HIDE DEF k
    <3>1. \A j : j \in MadeBy(tx, n + 1) <=> j \in OutputKeys(tx) /\ ins + j[2] < n + 1
      BY DEF MadeBy
    <3>2. \A j : j \in MadeBy(tx, n) <=> j \in OutputKeys(tx) /\ ins + j[2] < n
      BY DEF MadeBy
    <3>. HIDE DEF ins
    <3>3. QED
      BY <2>2, <2>3, <3>1, <3>2
  <2>5. (1 .. ins) \cap (1 .. n + 1 - 1) = (1 .. ins) \cap (1 .. n - 1)
    <3>. HIDE DEF ins, outs
    <3>1. QED
      BY <1>1, <1>4
  <2>6. GoneBy(tx, n + 1) = GoneBy(tx, n)
    BY <1>1, <2>5 DEF GoneBy
  <2>7. QED
    BY <1>4, <2>2, <2>4, <2>6
<1>5. QED
  BY <1>3, <1>4

LEMMA ByLast ==
    ASSUME NEW tx \in Txs
    PROVE  LET last == Len(InputsSeen(tx)) + Len(OutputsOf[tx]) IN
           MadeBy(tx, last + 1) = OutputKeys(tx) /\ GoneBy(tx, last + 1) = SeenBy(tx)
<1>. DEFINE ins  == Len(InputsSeen(tx))
            outs == Len(OutputsOf[tx])
<1>1. /\ ins \in Nat \ {0} /\ outs \in Nat
      /\ DOMAIN InputsSeen(tx) = 1 .. ins /\ DOMAIN OutputsOf[tx] = 1 .. outs
  BY ItemFacts, LenProperties
<1>2. ASSUME NEW k \in OutputKeys(tx) PROVE ins + k[2] < ins + outs + 1
  <2>1. k[2] \in 1 .. outs
    BY <1>1 DEF OutputKeys
  <2>. HIDE DEF ins, outs
  <2>2. QED
    BY <1>1, <2>1
<1>3. (1 .. ins) \cap (1 .. ins + outs + 1 - 1) = 1 .. ins
  <2>. HIDE DEF ins, outs
  <2>1. QED
    BY <1>1
<1>4. MadeBy(tx, ins + outs + 1) = OutputKeys(tx)
  BY <1>2 DEF MadeBy
<1>5. GoneBy(tx, ins + outs + 1) = SeenBy(tx)
  BY <1>1, <1>3 DEF GoneBy, SeenBy
<1>6. QED
  BY <1>4, <1>5

LEMMA GoneSpent ==
    ASSUME Inv, SpentInv, ~past.failed, ~past.risky, NEW k \in Gone
    PROVE  utxo_tree[k] = "spent"
<1>1. CASE \E tx \in Behind : k \in SeenBy(tx)
  <2>1. PICK tx \in Behind : k \in SeenBy(tx)
    BY <1>1
  <2>2. Done(tx)
    BY <2>1 DEF SpentInv, AllDone
  <2>3. QED
    BY <2>1, <2>2 DEF SeenBy, Done, Spent
<1>2. CASE Processing /\ k \in GoneBy(Tx, loop.item)
  BY <1>2 DEF SpentInv, UnderWay, GoneBy, Spent
<1>3. QED
  BY <1>1, <1>2 DEF Gone

\* One item further.
LEMMA ItemMade ==
    ASSUME Inv, Inv', Processing, loop' = Advanced
    PROVE  /\ OnInput => Made' = Made /\ Gone' = Gone \cup {ItemKey}
           /\ ~OnInput => Made' = Made \cup {ItemKey} /\ Gone' = Gone
<1>. DEFINE b == loop.block
            t == loop.tx
            n == loop.item
            ins == Len(InputsSeen(Tx))
            last == ins + Len(OutputsOf[Tx])
            M == UNION {OutputKeys(tx) : tx \in Behind}
            G == UNION {SeenBy(tx) : tx \in Behind}
<1>1. /\ b \in Blocks /\ t \in Nat \ {0} /\ n \in Items(Tx) /\ Tx \in Txs /\ Tx = TxsOf[b][t]
      /\ ItemKey = ItemOf(Tx, n) /\ TxsOf[b] \in Seq(Txs) /\ t \in DOMAIN TxsOf[b]
  BY TxFacts DEF Inv, Tx
<1>2. Made = M \cup MadeBy(Tx, n) /\ Gone = G \cup GoneBy(Tx, n)
  BY DEF Made, Gone
<1>3. Made' = M \cup MadeBy(Tx, n + 1) /\ Gone' = G \cup GoneBy(Tx, n + 1)
  <2>1. CASE n < last /\ loop' = [at |-> "block", block |-> b, tx |-> t, item |-> n + 1]
    <3>1. loop'.at = "block" /\ loop'.block = b /\ loop'.tx = t /\ loop'.item = n + 1
      BY <2>1
    <3>2. Processing' /\ Tx' = Tx
      BY <1>1, <3>1 DEF Processing, At, Tx
    <3>3. Behind' = Behind
      BY <3>1 DEF Behind, At, Processing
    <3>4. /\ Made' = (UNION {OutputKeys(tx) : tx \in Behind'}) \cup MadeBy(Tx', loop'.item)
          /\ Gone' = (UNION {SeenBy(tx) : tx \in Behind'}) \cup GoneBy(Tx', loop'.item)
      BY <3>2 DEF Made, Gone, MadeBy, GoneBy, SeenBy
    <3>5. QED
      BY <3>1, <3>2, <3>3, <3>4
  <2>2. CASE n = last /\ loop' = [at |-> "block", block |-> b, tx |-> t + 1, item |-> 1]
    <3>1. loop'.at = "block" /\ loop'.block = b /\ loop'.tx = t + 1 /\ loop'.item = 1
      BY <2>2
    <3>2. Behind' = Behind \cup {Tx}
      <4>1. Behind' = TxsOn(PrevOf(b)) \cup {TxsOf[b][i] : i \in 1 .. loop'.tx - 1}
        BY <3>1 DEF Behind, At
      <4>2. Behind = TxsOn(PrevOf(b)) \cup {TxsOf[b][i] : i \in 1 .. t - 1}
        BY DEF Behind, Processing
      <4>3. 1 .. loop'.tx - 1 = (1 .. t - 1) \cup {t}
        <5>. HIDE DEF t
        <5>1. QED
          BY <1>1, <3>1
      <4>4. QED
        BY <1>1, <4>1, <4>2, <4>3
    <3>3. Processing' => MadeBy(Tx', loop'.item) = {} /\ GoneBy(Tx', loop'.item) = {}
      <4>1. SUFFICES ASSUME Processing' PROVE MadeBy(Tx', 1) = {} /\ GoneBy(Tx', 1) = {}
        BY <3>1
      <4>2. loop'.tx <= Len(TxsOf[b]) /\ Tx' = TxsOf[b][t + 1]
        BY <3>1, <4>1 DEF Processing, Tx
      <4>3. t + 1 \in 1 .. Len(TxsOf[b])
        BY <1>1, <3>1, <4>2
      <4>4. Tx' \in Txs
        BY <1>1, <4>2, <4>3, ElementOfSeq
      <4>5. QED
        BY <4>4, ByFirst
    <3>4. /\ Made' = UNION {OutputKeys(tx) : tx \in Behind'}
          /\ Gone' = UNION {SeenBy(tx) : tx \in Behind'}
      <4>1. /\ Made' = (UNION {OutputKeys(tx) : tx \in Behind'})
                          \cup (IF Processing' THEN MadeBy(Tx', loop'.item) ELSE {})
            /\ Gone' = (UNION {SeenBy(tx) : tx \in Behind'})
                          \cup (IF Processing' THEN GoneBy(Tx', loop'.item) ELSE {})
        BY DEF Made, Gone, MadeBy, GoneBy, SeenBy
      <4>2. QED
        BY <3>3, <4>1
    <3>5. MadeBy(Tx, n + 1) = OutputKeys(Tx) /\ GoneBy(Tx, n + 1) = SeenBy(Tx)
      BY <1>1, <2>2, ByLast
    <3>6. QED
      BY <3>2, <3>4, <3>5
  <2>3. QED
    BY <2>1, <2>2, AdvanceCases DEF Inv
<1>4. OnInput <=> n <= Len(InputsSeen(Tx))
  BY DEF OnInput
<1>. HIDE DEF b, t, n, ins, last, M, G
<1>5. QED
  BY <1>1, <1>2, <1>3, <1>4, ByNext

\* RemoveUtxo and InsertUtxo.
LEMMA ItemLive ==
    ASSUME Inv, Inv', SpentInv, ~past.failed, ~past.risky, RemoveUtxo \/ InsertUtxo,
           Live = Made \ Gone
    PROVE  Live' = Made' \ Gone'
<1>1. Processing /\ loop' = Advanced /\ ItemKey \in AnyKey
  BY TxFacts DEF RemoveUtxo, InsertUtxo, Inv
<1>2. utxo_tree \in [AnyKey -> {"absent", "live", "spent"}] /\ Key \subseteq AnyKey
  BY DEF Inv, TypeOK, AnyKey
<1>3. CASE RemoveUtxo
  <2>1. OnInput /\ utxo_tree' = [utxo_tree EXCEPT ![ItemKey] = "spent"]
    BY <1>3 DEF RemoveUtxo
  <2>2. Live' = Live \ {ItemKey}
    BY <1>1, <1>2, <2>1 DEF Live
  <2>3. Made' = Made /\ Gone' = Gone \cup {ItemKey}
    BY <1>1, <2>1, ItemMade
  <2>4. QED
    BY <2>2, <2>3
<1>4. CASE InsertUtxo
  <2>1. ~OnInput /\ utxo_tree' = [utxo_tree EXCEPT ![ItemKey] = "live"]
    BY <1>4 DEF InsertUtxo
  <2>2. ItemKey \in Key /\ utxo_tree[ItemKey] = "absent"
    BY <1>4, OutputIsNew DEF Inv, Seen
  <2>3. Live' = Live \cup {ItemKey}
    BY <1>1, <1>2, <2>1, <2>2 DEF Live
  <2>4. Made' = Made \cup {ItemKey} /\ Gone' = Gone
    BY <1>1, <2>1, ItemMade
  <2>5. ItemKey \notin Gone
    BY <2>2, GoneSpent
  <2>6. QED
    BY <2>3, <2>4, <2>5
<1>5. QED
  BY <1>3, <1>4

\* Whatever stores nothing and does not move the tip.
LEMMA SameStored ==
    ASSUME EpochsOK, StoredOK,
           UNCHANGED <<chain_tip, current_epoch, stake_tree, nonce_tree>>
    PROVE  EpochsOK' /\ StoredOK'
<1>1. EpochsOK'
  BY DEF EpochsOK
<1>2. ASSUME NEW e, NEW b, StakeStored(e, b) /\ NonceStored(e, b)
      PROVE  StakeStored(e, b)' /\ NonceStored(e, b)'
  BY <1>2 DEF StakeStored, NonceStored, FoldsVrfs
<1>3. StoredOK'
  BY <1>2 DEF StoredOK
<1>4. QED
  BY <1>1, <1>3

LEMMA ItemSnap ==
    ASSUME Inv, Inv', SpentInv, SnapInv, RemoveUtxo \/ InsertUtxo
    PROVE  SnapInv'
<1>1. /\ UNCHANGED <<stake_tree, nonce_tree, chain_tip, rolling_nonce, current_epoch, cursor,
                     past>>
      /\ Processing /\ loop' = Advanced /\ At("block")
  BY DEF RemoveUtxo, InsertUtxo, Processing
<1>2. loop'.at = "block" /\ loop'.block = loop.block
  BY <1>1, AdvanceCases DEF Inv
<1>3. SUFFICES ASSUME ~past.failed, ~past.rolled
               PROVE  /\ chain_tip = PrevOf(loop.block)
                      /\ Live' = Made' \ Gone'
                      /\ FoldsVrfs(rolling_nonce, cursor)
                      /\ EpochsOK' /\ StoredOK'
  BY <1>1, <1>2 DEF SnapInv, At, FoldsVrfs
<1>4. QED
  BY <1>1, <1>3, ItemLive, SameStored DEF SnapInv

\* Between two blocks.
LEMMA RestingMade ==
    ASSUME TypeOK, ~Processing
    PROVE  /\ Made = UNION {OutputKeys(tx) : tx \in Behind}
           /\ Gone = UNION {SeenBy(tx) : tx \in Behind}
BY DEF Made, Gone

LEMMA RollForwardSnap ==
    ASSUME Inv, Inv', SnapInv, RollForward
    PROVE  SnapInv'
<1>. DEFINE b == ChainOf(node_tip)[Len(ChainOf(cursor)) + 1]
<1>1. b \in Blocks /\ PrevOf(b) = cursor
  BY NextOfPoint DEF Inv, TypeOK, RollForward
<1>2. UNCHANGED <<trees, current_stake, current_epoch, env>> /\ cursor' = b /\ At("ask")
  BY DEF RollForward
<1>3. past \in [failed : BOOLEAN, rolled : BOOLEAN, risky : BOOLEAN]
  BY DEF Inv, TypeOK
<1>4. CASE b \in Unparsable
  <2>1. past' = AfterFailure
    BY <1>4 DEF RollForward
  <2>2. past'.failed /\ past'.risky = past.risky /\ past'.rolled = past.rolled
    BY <1>3, <2>1 DEF AfterFailure
  <2>3. QED
    BY <2>2 DEF SnapInv
<1>5. CASE b \notin Unparsable
  <2>1. /\ past' = past
        /\ rolling_nonce' = IF b \in HasVrf THEN Append(rolling_nonce, b) ELSE rolling_nonce
        /\ loop' = [at |-> "block", block |-> b, tx |-> 1, item |-> 1]
    BY <1>5 DEF RollForward
  <2>2. loop'.at = "block" /\ loop'.block = b /\ loop'.tx = 1 /\ loop'.item = 1
    BY <2>1
  <2>3. SUFFICES ASSUME ~past.failed, ~past.rolled
                 PROVE  /\ chain_tip' = PrevOf(b)
                        /\ Live' = Made' \ Gone'
                        /\ FoldsVrfs(rolling_nonce', b)
                        /\ EpochsOK' /\ StoredOK'
    BY <1>2, <2>1, <2>2 DEF SnapInv, At, FoldsVrfs
  <2>4. /\ chain_tip = cursor /\ Live = Made \ Gone /\ FoldsVrfs(rolling_nonce, cursor)
        /\ EpochsOK /\ StoredOK
    BY <1>2, <2>3 DEF SnapInv, At
  <2>5. Behind' = Behind
    <3>1. Behind' = TxsOn(PrevOf(b)) \cup {TxsOf[b][i] : i \in 1 .. 1 - 1}
      BY <2>2 DEF Behind, At
    <3>2. 1 .. 1 - 1 = {}
      OBVIOUS
    <3>3. Behind = TxsOn(cursor)
      BY <1>2 DEF Behind, At
    <3>4. QED
      BY <1>1, <3>1, <3>2, <3>3
  <2>6. Processing' => MadeBy(Tx', 1) = {} /\ GoneBy(Tx', 1) = {}
    <3>1. SUFFICES ASSUME Processing' PROVE MadeBy(Tx', 1) = {} /\ GoneBy(Tx', 1) = {}
      OBVIOUS
    <3>2. TxsOf[b] \in Seq(Txs) /\ 1 <= Len(TxsOf[b]) /\ Tx' = TxsOf[b][1]
      BY <1>1, <2>2, <3>1, ChainTypes DEF Processing, Tx
    <3>3. Tx' \in Txs
      BY <3>2, ElementOfSeq
    <3>4. QED
      BY <3>3, ByFirst
  <2>7. Made' = Made /\ Gone' = Gone
    <3>1. /\ Made' = (UNION {OutputKeys(tx) : tx \in Behind'})
                        \cup (IF Processing' THEN MadeBy(Tx', loop'.item) ELSE {})
          /\ Gone' = (UNION {SeenBy(tx) : tx \in Behind'})
                        \cup (IF Processing' THEN GoneBy(Tx', loop'.item) ELSE {})
      BY DEF Made, Gone, MadeBy, GoneBy, SeenBy
    <3>2. /\ Made' = UNION {OutputKeys(tx) : tx \in Behind}
          /\ Gone' = UNION {SeenBy(tx) : tx \in Behind}
      BY <2>2, <2>5, <2>6, <3>1
    <3>3. ~Processing
      BY <1>2 DEF Processing, At
    <3>4. QED
      BY <3>2, <3>3, RestingMade DEF Inv
  <2>8. Live' = Live
    BY <1>2 DEF Live, trees
  <2>9. FoldsVrfs(rolling_nonce', b)
    BY <1>1, <2>1, <2>4, FoldNext
  <2>10. EpochsOK' /\ StoredOK'
    BY <1>2, <2>4, SameStored DEF trees
  <2>11. chain_tip' = chain_tip
    BY <1>2 DEF trees
  <2>12. QED
    BY <1>1, <2>4, <2>7, <2>8, <2>9, <2>10, <2>11
<1>6. QED
  BY <1>4, <1>5

\* A step after which the exactness is no longer claimed.
LEMMA GivenUpSnap ==
    ASSUME past' \in {AfterFailure, AfterRollback}, Inv, SnapInv
    PROVE  SnapInv'
<1>1. past \in [failed : BOOLEAN, rolled : BOOLEAN, risky : BOOLEAN]
  BY DEF Inv, TypeOK
<1>2. CASE past' = AfterFailure
  <2>1. past'.failed /\ past'.risky = past.risky /\ past'.rolled = past.rolled
    BY <1>1, <1>2 DEF AfterFailure
  <2>2. QED
    BY <2>1 DEF SnapInv
<1>3. CASE past' = AfterRollback
  <2>1. past'.rolled
    BY <1>1, <1>3 DEF AfterRollback
  <2>2. QED
    BY <2>1 DEF SnapInv
<1>4. QED
  BY <1>2, <1>3

\* A step that leaves what has been applied alone, at rest before and after it.
LEMMA RestingSnap ==
    ASSUME SnapInv, UNCHANGED <<trees, rolling_nonce, current_epoch, cursor, past>>,
           Behind' = Behind, ~At("block"), ~At("block")'
    PROVE  SnapInv'
<1>1. Live' = Live /\ chain_tip' = chain_tip
  BY DEF Live, trees
<1>2. ~Processing /\ ~Processing'
  BY DEF Processing
<1>3. Made' = Made /\ Gone' = Gone
  BY <1>2 DEF Made, Gone, SeenBy
<1>4. ASSUME EpochsOK, StoredOK PROVE EpochsOK' /\ StoredOK'
  BY <1>4, SameStored DEF trees
<1>5. QED
  BY <1>1, <1>3, <1>4 DEF SnapInv, FoldsVrfs

LEMMA AwaitSnap ==
    ASSUME Inv, SnapInv, Await
    PROVE  SnapInv'
<1>1. UNCHANGED <<trees, rolling_nonce, current_epoch, cursor, past>> /\ At("ask")
  BY DEF Await
<1>2. loop'.at = "awaiting"
  BY DEF Await, Inv, TypeOK, Loop, At
<1>3. Behind' = Behind /\ ~At("block") /\ ~At("block")'
  BY <1>1, <1>2 DEF Behind, At
<1>4. QED
  BY <1>1, <1>3, RestingSnap

LEMMA StillSnap ==
    ASSUME SnapInv, UNCHANGED <<trees, memory, cursor, past>>
    PROVE  SnapInv'
<1>1. /\ Live' = Live /\ chain_tip' = chain_tip
      /\ UNCHANGED <<utxo_tree, rolling_nonce, current_epoch, loop>>
  BY DEF Live, trees, memory
<1>2. Behind' = Behind /\ Processing' = Processing /\ Tx' = Tx /\ At("block")' = At("block")
  BY <1>1 DEF Behind, Processing, Tx, At
<1>3. Made' = Made /\ Gone' = Gone
  BY <1>1, <1>2 DEF Made, Gone, MadeBy, GoneBy, SeenBy
<1>4. ASSUME EpochsOK, StoredOK PROVE EpochsOK' /\ StoredOK'
  BY <1>1, <1>4, SameStored DEF trees
<1>5. QED
  BY <1>1, <1>2, <1>3, <1>4 DEF SnapInv, FoldsVrfs

\* A new process.
Fresh ==
    /\ utxo_tree = NoUtxos /\ stake_tree = NothingStored /\ nonce_tree = NothingStored
    /\ chain_tip = Origin /\ cursor = Origin /\ rolling_nonce = <<>>
    /\ current_epoch = 0 /\ loop = Idle /\ past = NoPast

LEMMA FreshSnap == Fresh => SnapInv
<1>. SUFFICES ASSUME Fresh PROVE SnapInv
  OBVIOUS
<1>1. ~At("block") /\ ~Processing
  BY DEF Fresh, Idle, At, Processing
<1>2. Behind = {}
  BY <1>1, BlocksOfOrigin DEF Fresh, Behind
<1>3. Made = {} /\ Gone = {}
  BY <1>1, <1>2 DEF Made, Gone
<1>4. Live = {}
  BY DEF Fresh, Live, NoUtxos, AnyKey
<1>5. FoldsVrfs(rolling_nonce, cursor)
  BY FoldNone DEF Fresh
<1>6. EpochsOK /\ StoredOK
  <2>1. DOMAIN stake_tree = {} /\ BlocksOf(chain_tip) = {}
    BY BlocksOfOrigin DEF Fresh, NothingStored
  <2>2. QED
    BY <2>1 DEF Fresh, EpochsOK, StoredOK
<1>7. QED
  BY <1>1, <1>3, <1>4, <1>5, <1>6 DEF Fresh, SnapInv, NoPast

LEMMA RestartSnap == Restart => SnapInv'
<1>1. Restart => Fresh'
  BY DEF Restart, Fresh
<1>2. QED
  BY <1>1, FreshSnap, PTL

\* What is stored at the end of a block is what a snapshot should hold.
LEMMA SnapshotNow ==
    ASSUME Inv, StakeInv, ~past.risky, NEW p, Live = Unspent(p),
           FoldsVrfs(rolling_nonce, p), NEW e, e \notin DOMAIN nonce_tree,
           stake_tree' = Stored(stake_tree, e, Distribution),
           nonce_tree' = IF rolling_nonce = <<>> THEN nonce_tree
                         ELSE Stored(nonce_tree, e, rolling_nonce)
    PROVE  StakeStored(e, p)' /\ NonceStored(e, p)'
<1>1. SUFFICES /\ \A c \in Credentials :
                     Total(c, Unspent(p)) =
                         IF c \in DOMAIN stake_tree'[e] THEN stake_tree'[e][c] ELSE 0
               /\ IF VrfsTo(p) = {} THEN e \notin DOMAIN nonce_tree'
                  ELSE e \in DOMAIN nonce_tree' /\ FoldsVrfs(nonce_tree'[e], p)
  BY DEF StakeStored, NonceStored, FoldsVrfs
<1>2. stake_tree'[e] = Distribution
  BY DEF Stored
<1>3. ASSUME NEW c \in Credentials
      PROVE  Total(c, Unspent(p)) = IF c \in DOMAIN Distribution THEN Distribution[c] ELSE 0
  <2>1. current_stake[c] = Total(c, Unspent(p))
    BY DEF StakeInv, Total, Worth, Holding
  <2>2. current_stake[c] \in Nat
    BY DEF Inv, TypeOK
  <2>3. c \in DOMAIN Distribution <=> current_stake[c] > 0
    BY DEF Distribution
  <2>4. c \in DOMAIN Distribution => Distribution[c] = current_stake[c]
    BY DEF Distribution
  <2>5. QED
    BY <2>1, <2>2, <2>3, <2>4
<1>4. rolling_nonce \in Seq(HasVrf) /\ Range(rolling_nonce) = VrfsTo(p)
  BY DEF FoldsVrfs
<1>5. CASE rolling_nonce = <<>>
  <2>1. VrfsTo(p) = {}
    BY <1>4, <1>5 DEF Range
  <2>2. QED
    BY <1>2, <1>3, <1>5, <2>1
<1>6. CASE rolling_nonce # <<>>
  <2>1. DOMAIN rolling_nonce # {}
    <3>1. Len(rolling_nonce) # 0 /\ DOMAIN rolling_nonce = 1 .. Len(rolling_nonce)
      BY <1>4, <1>6, EmptySeq, LenProperties
    <3>2. Len(rolling_nonce) \in Nat
      BY <1>4, LenProperties
    <3>3. 1 \in 1 .. Len(rolling_nonce)
      BY <3>1, <3>2
    <3>4. QED
      BY <3>1, <3>3
  <2>2. VrfsTo(p) # {}
    BY <1>4, <2>1 DEF Range
  <2>3. e \in DOMAIN nonce_tree' /\ nonce_tree'[e] = rolling_nonce
    BY <1>6 DEF Stored
  <2>4. QED
    BY <1>2, <1>3, <2>2, <2>3
<1>7. QED
  BY <1>5, <1>6

\* The tip moves to a block of the epoch it is in.
LEMMA SameEpoch ==
    ASSUME Inv, EpochsOK, StoredOK, NEW b \in Blocks, PrevOf(b) = chain_tip,
           EpochOf(b) <= current_epoch, chain_tip' = b,
           UNCHANGED <<current_epoch, stake_tree, nonce_tree>>
    PROVE  EpochsOK' /\ StoredOK'
<1>1. BlocksOf(b) = BlocksOf(chain_tip) \cup {b} /\ BlocksOf(b) \subseteq Blocks
  BY PrevFacts
<1>2. EpochOf(b) \in Nat /\ current_epoch \in Nat
  BY EpochNat DEF EpochOf, Inv, TypeOK, Epoch
<1>3. EpochOf(b) = 0 \/ \E a \in BlocksOf(chain_tip) : EpochOf(a) = EpochOf(b)
  <2>1. CASE current_epoch = 0
    BY <1>2, <2>1
  <2>2. CASE current_epoch # 0
    <3>1. PICK a \in BlocksOf(chain_tip) : EpochOf(a) = current_epoch
      BY <2>2 DEF EpochsOK
    <3>2. EpochOf(a) <= EpochOf(b)
      BY <3>1, EpochsGrow
    <3>3. QED
      BY <1>2, <3>1, <3>2
  <2>3. QED
    BY <2>1, <2>2
<1>4. ~(Opens(b) /\ EpochOf(b) # 0)
  <2>1. SUFFICES ASSUME Opens(b), EpochOf(b) # 0 PROVE FALSE
    OBVIOUS
  <2>2. PICK a \in BlocksOf(chain_tip) : EpochOf(a) = EpochOf(b)
    BY <1>3, <2>1
  <2>3. EpochOf(a) < EpochOf(b)
    BY <2>1, <2>2 DEF Opens
  <2>4. QED
    BY <1>2, <2>2, <2>3
<1>5. EpochsOK'
  BY <1>1 DEF EpochsOK
<1>6. ASSUME NEW a \in BlocksOf(chain_tip), StakeStored(EpochOf(a), a), NonceStored(EpochOf(a), a)
      PROVE  StakeStored(EpochOf(a), a)' /\ NonceStored(EpochOf(a), a)'
  BY <1>6 DEF StakeStored, NonceStored, FoldsVrfs
<1>7. {EpochOf(a) : a \in BlocksOf(b)} \ {0} = {EpochOf(a) : a \in BlocksOf(chain_tip)} \ {0}
  BY <1>1, <1>3
<1>8. StoredOK'
  <2>1. DOMAIN stake_tree' = {EpochOf(a) : a \in BlocksOf(b)} \ {0}
    BY <1>7 DEF StoredOK
  <2>2. \A e \in DOMAIN stake_tree' : \E a \in BlocksOf(b) : EpochOf(a) = e /\ Opens(a)
    BY <1>1 DEF StoredOK
  <2>3. ASSUME NEW a \in BlocksOf(b), Opens(a), EpochOf(a) # 0
        PROVE  StakeStored(EpochOf(a), a)' /\ NonceStored(EpochOf(a), a)'
    BY <1>1, <1>4, <1>6, <2>3 DEF StoredOK
  <2>4. QED
    BY <2>1, <2>2, <2>3 DEF StoredOK
<1>9. QED
  BY <1>5, <1>8

\* The tip moves to the first block of a new epoch.
LEMMA NextEpoch ==
    ASSUME Inv, EpochsOK, StoredOK, NEW b \in Blocks, PrevOf(b) = chain_tip, chain_tip' = b,
           NewEpoch(EpochOf(b)), current_epoch' = EpochOf(b),
           stake_tree' = Stored(stake_tree, EpochOf(b), Distribution),
           \/ nonce_tree' = nonce_tree
           \/ nonce_tree' = Stored(nonce_tree, EpochOf(b), rolling_nonce),
           StakeStored(EpochOf(b), b)', NonceStored(EpochOf(b), b)'
    PROVE  EpochsOK' /\ StoredOK'
<1>1. /\ BlocksOf(b) = BlocksOf(chain_tip) \cup {b} /\ BlocksOf(b) \subseteq Blocks
      /\ b \notin BlocksOf(chain_tip)
  BY PrevFacts
<1>2. EpochOf(b) \in Nat /\ current_epoch \in Nat /\ current_epoch < EpochOf(b)
  BY EpochNat DEF EpochOf, Inv, TypeOK, Epoch, NewEpoch
<1>3. ASSUME NEW a \in BlocksOf(chain_tip)
      PROVE  EpochOf(a) \in Nat /\ EpochOf(a) < EpochOf(b)
  <2>1. EpochOf(a) \in Nat
    BY <1>1, EpochNat DEF EpochOf
  <2>2. EpochOf(a) <= current_epoch
    BY DEF EpochsOK
  <2>3. QED
    BY <1>2, <2>1, <2>2
<1>4. EpochsOK'
  <2>1. \A a \in BlocksOf(b) : EpochOf(a) <= EpochOf(b)
    BY <1>1, <1>2, <1>3
  <2>2. b \in BlocksOf(b)
    BY <1>1
  <2>3. QED
    BY <2>1, <2>2 DEF EpochsOK
<1>5. Opens(b)
  BY <1>3 DEF Opens
<1>6. ASSUME NEW a \in BlocksOf(chain_tip), EpochOf(a) \in DOMAIN stake_tree,
             StakeStored(EpochOf(a), a), NonceStored(EpochOf(a), a)
      PROVE  StakeStored(EpochOf(a), a)' /\ NonceStored(EpochOf(a), a)'
  <2>1. EpochOf(a) # EpochOf(b)
    BY <1>2, <1>3
  <2>2. stake_tree'[EpochOf(a)] = stake_tree[EpochOf(a)]
    BY <1>6, <2>1 DEF Stored
  <2>3. /\ EpochOf(a) \in DOMAIN nonce_tree' <=> EpochOf(a) \in DOMAIN nonce_tree
        /\ EpochOf(a) \in DOMAIN nonce_tree => nonce_tree'[EpochOf(a)] = nonce_tree[EpochOf(a)]
    BY <2>1 DEF Stored
  <2>4. StakeStored(EpochOf(a), a)'
    BY <1>6, <2>2 DEF StakeStored
  <2>5. NonceStored(EpochOf(a), a)'
    BY <1>6, <2>3 DEF NonceStored, FoldsVrfs
  <2>6. QED
    BY <2>4, <2>5
<1>7. DOMAIN stake_tree' = DOMAIN stake_tree \cup {EpochOf(b)}
  BY DEF Stored
<1>8. DOMAIN stake_tree' = {EpochOf(a) : a \in BlocksOf(b)} \ {0}
  <2>1. EpochOf(b) # 0
    BY <1>2
  <2>2. {EpochOf(a) : a \in BlocksOf(b)} = {EpochOf(a) : a \in BlocksOf(chain_tip)} \cup {EpochOf(b)}
    BY <1>1
  <2>3. QED
    BY <1>7, <2>1, <2>2 DEF StoredOK
<1>9. \A e \in DOMAIN stake_tree' : \E a \in BlocksOf(b) : EpochOf(a) = e /\ Opens(a)
  BY <1>1, <1>5, <1>7 DEF StoredOK
<1>10. ASSUME NEW a \in BlocksOf(b), Opens(a), EpochOf(a) # 0
       PROVE  StakeStored(EpochOf(a), a)' /\ NonceStored(EpochOf(a), a)'
  <2>1. CASE a = b
    BY <2>1
  <2>2. CASE a # b
    <3>1. a \in BlocksOf(chain_tip) /\ StakeStored(EpochOf(a), a) /\ NonceStored(EpochOf(a), a)
      BY <1>1, <1>10, <2>2 DEF StoredOK
    <3>2. EpochOf(a) \in DOMAIN stake_tree
      BY <1>10, <3>1 DEF StoredOK
    <3>3. QED
      BY <1>6, <3>1, <3>2
  <2>3. QED
    BY <2>1, <2>2
<1>11. StoredOK'
  BY <1>8, <1>9, <1>10 DEF StoredOK
<1>12. QED
  BY <1>4, <1>11

LEMMA FinishBlockSnap ==
    ASSUME Inv, SpentInv, StakeInv, SnapInv, FinishBlock
    PROVE  SnapInv'
<1>0. PICK b \in Blocks : b = loop.block
  BY DEF FinishBlock, Inv, TypeOK, Loop, At
<1>1. /\ At("block") /\ ~Processing /\ chain_tip' = b /\ loop' = Idle
      /\ UNCHANGED <<utxo_tree, current_stake, rolling_nonce, cursor, past>>
  BY <1>0 DEF FinishBlock
<1>2. b \in Blocks /\ cursor = b
  BY <1>0, <1>1 DEF SpentInv, AtCursor
<1>3. ~At("block")' /\ ~Processing'
  BY <1>1 DEF Idle, At, Processing
<1>4. SUFFICES ASSUME ~past.failed, ~past.rolled
               PROVE  Live' = Made' \ Gone' /\ EpochsOK' /\ StoredOK'
  BY <1>1, <1>2, <1>3 DEF SnapInv, FoldsVrfs
<1>5. /\ chain_tip = PrevOf(b) /\ Live = Made \ Gone /\ FoldsVrfs(rolling_nonce, cursor)
      /\ EpochsOK /\ StoredOK /\ ~past.risky
  BY <1>0, <1>1, <1>4 DEF SnapInv
<1>6. Behind = TxsOn(cursor)
  BY <1>1, BehindAll DEF Inv, SpentInv
<1>7. Behind' = Behind
  BY <1>1, <1>3, <1>6 DEF Behind
<1>8. Live' = Made' \ Gone'
  <2>1. Made' = Made /\ Gone' = Gone
    BY <1>1, <1>3, <1>7 DEF Made, Gone, SeenBy
  <2>2. QED
    BY <1>1, <1>5, <2>1 DEF Live
<1>9. Live = Unspent(cursor)
  BY <1>1, <1>5, <1>6, LedgerAtRest
<1>10. CASE ~NewEpoch(EpochOf(b))
  <2>1. UNCHANGED <<nonce_tree, stake_tree, current_epoch>>
    BY <1>0, <1>10 DEF FinishBlock, EpochOf
  <2>2. EpochOf(b) \in Nat /\ current_epoch \in Nat
    BY <1>2, EpochNat DEF EpochOf, Inv, TypeOK, Epoch
  <2>3. EpochOf(b) <= current_epoch
    BY <1>10, <2>2 DEF NewEpoch
  <2>4. QED
    BY <1>1, <1>2, <1>5, <1>8, <2>1, <2>3, SameEpoch
<1>11. CASE NewEpoch(EpochOf(b))
  <2>1. /\ nonce_tree' = IF rolling_nonce = <<>> THEN nonce_tree
                         ELSE Stored(nonce_tree, EpochOf(b), rolling_nonce)
        /\ stake_tree' = Stored(stake_tree, EpochOf(b), Distribution)
        /\ current_epoch' = EpochOf(b)
    BY <1>0, <1>11 DEF FinishBlock, EpochOf
  <2>2. EpochOf(b) \notin DOMAIN nonce_tree
    <3>1. SUFFICES ASSUME EpochOf(b) \in DOMAIN stake_tree PROVE FALSE
      BY DEF Inv, TypeOK
    <3>2. PICK a \in BlocksOf(chain_tip) : EpochOf(a) = EpochOf(b)
      BY <1>5, <3>1 DEF StoredOK
    <3>3. EpochOf(b) <= current_epoch
      BY <1>5, <3>2 DEF EpochsOK
    <3>4. EpochOf(b) \in Nat /\ current_epoch \in Nat
      BY <1>2, EpochNat DEF EpochOf, Inv, TypeOK, Epoch
    <3>5. QED
      BY <1>11, <3>3, <3>4 DEF NewEpoch
  <2>3. StakeStored(EpochOf(b), b)' /\ NonceStored(EpochOf(b), b)'
    BY <1>2, <1>5, <1>9, <2>1, <2>2, SnapshotNow
  <2>4. QED
    BY <1>1, <1>2, <1>5, <1>8, <1>11, <2>1, <2>3, NextEpoch
<1>12. QED
  BY <1>10, <1>11

LEMMA NextSnap == Inv /\ SpentInv /\ StakeInv /\ SnapInv /\ [Next]_vars => SnapInv'
<1>. SUFFICES ASSUME Inv, SpentInv, StakeInv, SnapInv, [Next]_vars PROVE SnapInv'
  OBVIOUS
<1>1. Inv'
  BY NextInv
<1>2. CASE UNCHANGED vars \/ \E p \in Point : Switch(p)
  BY <1>2, StillSnap DEF vars, trees, memory, Switch
<1>3. CASE RollBackward \/ FailBlock
  BY <1>3, GivenUpSnap DEF RollBackward, FailBlock
<1>4. CASE Sync /\ ~(RollBackward \/ FailBlock)
  BY <1>1, <1>4, RollForwardSnap, AwaitSnap, ItemSnap, FinishBlockSnap DEF Sync
<1>5. CASE Restart
  BY <1>5, RestartSnap
<1>6. QED
  BY <1>2, <1>3, <1>4, <1>5 DEF Next

(***************************************************************************)
(* While no block fails and none is rolled back, every epoch that the      *)
(* chain has entered has the stake and the nonce of its first block: none  *)
(* of a later block, none missed, none overwritten.                        *)
(***************************************************************************)
THEOREM SnapshotsStayExact == Spec => []SnapshotsExact
<1>1. Init => StakeInv /\ SnapInv
  <2>1. Init => Live = {} /\ current_stake = NoStakes
    BY DEF Init, Live, NoUtxos, AnyKey
  <2>2. Init => Fresh
    BY DEF Init, Fresh
  <2>3. QED
    BY <2>1, <2>2, EmptyStake, FreshSnap
<1>2. SnapInv => SnapshotsExact
  <2>1. SUFFICES ASSUME StoredOK, NEW e \in DOMAIN stake_tree
                 PROVE  LET b == FirstOf(e, chain_tip)
                        IN  (StakeStored(e, PrevOf(b)) \/ StakeStored(e, b)) /\ NonceStored(e, b)
    BY DEF SnapInv, SnapshotsExact, StoredOK, EpochOf
  <2>. DEFINE b == FirstOf(e, chain_tip)
  <2>2. \E x \in BlocksOf(chain_tip) : EpochOf(x) = e /\ Opens(x)
    BY <2>1 DEF StoredOK
  <2>3. b \in BlocksOf(chain_tip) /\ EpochOf(b) = e /\ Opens(b)
    <3>1. b = CHOOSE x \in BlocksOf(chain_tip) :
                  EpochOf(x) = e /\ \A a \in BlocksOf(PrevOf(x)) : EpochOf(a) < e
      BY DEF FirstOf, EpochOf
    <3>2. \E x \in BlocksOf(chain_tip) :
              EpochOf(x) = e /\ \A a \in BlocksOf(PrevOf(x)) : EpochOf(a) < e
      BY <2>2 DEF Opens
    <3>. HIDE DEF b
    <3>3. QED
      BY <3>1, <3>2 DEF Opens
  <2>4. e # 0
    BY <2>1 DEF StoredOK
  <2>. HIDE DEF b
  <2>5. StakeStored(e, b) /\ NonceStored(e, b)
    BY <2>1, <2>3, <2>4 DEF StoredOK
  <2>6. QED
    BY <2>5 DEF b
<1>3. QED
  BY InitInv, InitSpent, NextInv, NextSpent, NextStake, NextSnap, <1>1, <1>2, PTL DEF Spec

=============================================================================
