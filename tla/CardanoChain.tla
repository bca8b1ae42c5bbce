---------------------------- MODULE CardanoChain ----------------------------
(***************************************************************************)
(* The blocks a Cardano node can announce to Hayate over chain-sync, as    *)
(* the indexer sees them after pallas has decoded them.  Nothing here is   *)
(* Hayate's own code: it is the environment of the modules that model it.  *)
(*                                                                         *)
(* A block is identified with its hash.  ChainTo[b] is the chain that ends *)
(* in b, so the blocks form a tree: two blocks with the same parent are a  *)
(* fork.  A transaction output is named by the pair <<tx, index>>, the     *)
(* "tx_hash#index" key of the UTxO tree.                                   *)
(***************************************************************************)
EXTENDS Integers, Sequences

CONSTANTS
    Blocks,      \* block hashes
    Txs,         \* transaction hashes
    Addresses,   \* output addresses (address_hex)
    Policies,    \* native token policies
    AssetNames,  \* native token names
    Origin,      \* Point::Origin, and the empty hash `vec![]`
    ChainTo,     \* block -> the blocks from the first one up to it
    SlotOf,      \* block -> slot
    TxsOf,       \* block -> its transactions, in order
    InputsOf,    \* tx -> the outputs it spends, in order
    OutputsOf,   \* tx -> its outputs, in order
    TokensOf     \* tx -> the native tokens its outputs carry

Output == [address : Addresses, amount : Nat]

Asset  == [policy : Policies, name : AssetNames]

OutputKeys(tx) == {<<tx, i>> : i \in DOMAIN OutputsOf[tx]}

Key == UNION {OutputKeys(tx) : tx \in Txs}

OutputAt(k)  == OutputsOf[k[1]][k[2]]

AddressOf(k) == OutputAt(k).address

AmountOf(k)  == OutputAt(k).amount

InputKeys(tx) == {InputsOf[tx][i] : i \in DOMAIN InputsOf[tx]}

ASSUME ChainTypes ==
    /\ Origin \notin Blocks
    /\ ChainTo   \in [Blocks -> Seq(Blocks)]
    /\ SlotOf    \in [Blocks -> Nat]
    /\ TxsOf     \in [Blocks -> Seq(Txs)]
    /\ OutputsOf \in [Txs -> Seq(Output)]
    /\ InputsOf  \in [Txs -> Seq(Key)]
    /\ TokensOf  \in [Txs -> SUBSET Asset]

-----------------------------------------------------------------------------
(* Points of the chain: a block, or the origin.                            *)

Point == Blocks \cup {Origin}

ChainOf(p) == IF p = Origin THEN <<>> ELSE ChainTo[p]

BlocksOf(p) == {ChainOf(p)[i] : i \in DOMAIN ChainOf(p)}

PointsOf(p) == BlocksOf(p) \cup {Origin}

PrevOf(b) == LET c == ChainTo[b] IN
             IF Len(c) = 1 THEN Origin ELSE c[Len(c) - 1]

TxsIn(b) == {TxsOf[b][i] : i \in DOMAIN TxsOf[b]}

TxsOn(p) == UNION {TxsIn(b) : b \in BlocksOf(p)}

(***************************************************************************)
(* What the ledger rules guarantee of every chain a node adopts.  Blocks   *)
(* extend each other at increasing slots (Byron epoch-boundary blocks,     *)
(* which share a slot with their successor, are left out).  A transaction  *)
(* is in a chain at most once, and every output it spends was created      *)
(* earlier on that chain and not spent since.                              *)
(***************************************************************************)
ASSUME ChainShape ==
    \A b \in Blocks :
        LET c == ChainTo[b] IN
        /\ Len(c) > 0
        /\ c[Len(c)] = b
        /\ \A i \in DOMAIN c : ChainTo[c[i]] = SubSeq(c, 1, i)
        /\ \A i, j \in DOMAIN c : i < j => SlotOf[c[i]] < SlotOf[c[j]]

\* The outputs that the first j transactions of block b can spend.
CreatedBefore(b, j) ==
    UNION {OutputKeys(tx) : tx \in TxsOn(PrevOf(b)) \cup {TxsOf[b][i] : i \in 1 .. j - 1}}

SpentBefore(b, j) ==
    UNION {InputKeys(tx) : tx \in TxsOn(PrevOf(b)) \cup {TxsOf[b][i] : i \in 1 .. j - 1}}

ASSUME LedgerRules ==
    \A b \in Blocks : \A j \in DOMAIN TxsOf[b] :
        LET tx == TxsOf[b][j] IN
        /\ tx \notin TxsOn(PrevOf(b))
        /\ \A i \in DOMAIN TxsOf[b] : TxsOf[b][i] = tx => i = j
        /\ InputKeys(tx) \subseteq CreatedBefore(b, j) \ SpentBefore(b, j)
        /\ \A m, n \in DOMAIN InputsOf[tx] : InputsOf[tx][m] = InputsOf[tx][n] => m = n

=============================================================================
