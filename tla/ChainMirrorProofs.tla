------------------------- MODULE ChainMirrorProofs -------------------------
(***************************************************************************)
(* Proofs that the trees follow the chain: MirrorsChain, HistoryComplete,  *)
(* EventsContiguous, EventsMirrorChain and BalancesExact, for every block  *)
(* tree, wallet configuration, epoch length, buffer size and bound.        *)
(*                                                                         *)
(* Each speaks of the moments between two responses, and none is           *)
(* inductive.  A block changes the trees item by item, a rollback undoes   *)
(* it item by item in another order, and a restart takes the trees of a    *)
(* snapshot for the ones of the point it intersects at.  The invariants    *)
(* here say what the trees hold in between:                                *)
(*                                                                         *)
(*   Aligned    the rollback buffer is a stretch of the announced chain    *)
(*              that ends where the trees are, so the block popped next is *)
(*              the last one they hold;                                    *)
(*   Mirror     the trees hold the chain up to the block under way, and of *)
(*              that block what has been read or undone so far; a buffered *)
(*              record names all that its block did; an exact snapshot     *)
(*              mirrors the chain it was saved at;                         *)
(*   HistoryInv the transactions before the current one are indexed, and   *)
(*              the addresses of its items so far are noted;               *)
(*   LimitInv   events of a slot are numbered from 0 without a gap and     *)
(*              below the limit at which rollback_block stops deleting;    *)
(*   EventInv   the log is the one of the chain, and of the block under    *)
(*              way what the two loops have written so far;                *)
(*   BalanceInv balances are the sums of the UTxO tree in every phase, and *)
(*              a block's record names no spent output twice.              *)
(*                                                                         *)
(* What the ledger gives is used once each way: an input spends an output  *)
(* made before and not spent before, so processing an input finds its key; *)
(* and no key is made or spent twice on a chain, so undoing a block takes  *)
(* away nothing of the chain before it.                                    *)
(***************************************************************************)
EXTENDS ChainSyncProofs, SumProofs

\* What the transactions T make, and what they spend.
OutputsBy(T) == UNION {OutputKeys(t) : t \in T}

InputsBy(T) == UNION {InputKeys(t) : t \in T}

\* The blocks of the chain of p that hold transaction t.
HomesOf(p, t) == {b \in BlocksOf(p) : t \in TxsIn(b)}

\* The first j - 1 transactions of block b, and with them all that come before
\* its j-th one on its chain.
FirstTxs(b, j) == {TxsOf[b][i] : i \in 1 .. j - 1}

BeforeTxs(b, j) == TxsOn(PrevOf(b)) \cup FirstTxs(b, j)

-----------------------------------------------------------------------------
(* Chains.                                                                 *)

\* The chain of a block is a sequence of blocks that ends with it.
LEMMA ChainOfBlock ==
    ASSUME NEW b \in Blocks
    PROVE  /\ b # Origin
           /\ ChainOf(b) = ChainTo[b]
           /\ ChainTo[b] \in Seq(Blocks)
           /\ Len(ChainTo[b]) \in Nat \ {0}
           /\ DOMAIN ChainTo[b] = 1 .. Len(ChainTo[b])
           /\ ChainTo[b][Len(ChainTo[b])] = b
           /\ BlocksOf(b) = {ChainTo[b][i] : i \in 1 .. Len(ChainTo[b])}
<1>1. b # Origin /\ ChainTo[b] \in Seq(Blocks)
  BY ChainTypes
<1>2. ChainOf(b) = ChainTo[b]
  BY <1>1 DEF ChainOf
<1>3. Len(ChainTo[b]) > 0 /\ ChainTo[b][Len(ChainTo[b])] = b
  BY ChainShape
<1>4. QED
  BY <1>1, <1>2, <1>3, LenProperties DEF BlocksOf

\* The chain of the i-th block of a chain is the first i blocks of it.
LEMMA ChainPrefix ==
    ASSUME NEW b \in Blocks, NEW i \in 1 .. Len(ChainTo[b])
    PROVE  /\ ChainTo[b][i] \in Blocks
           /\ Len(ChainTo[ChainTo[b][i]]) = i
           /\ \A j \in 1 .. i : ChainTo[ChainTo[b][i]][j] = ChainTo[b][j]
<1>. DEFINE c == ChainTo[b]
<1>1. c \in Seq(Blocks) /\ Len(c) \in Nat /\ DOMAIN c = 1 .. Len(c)
  BY ChainOfBlock
<1>2. c[i] \in Blocks
  BY <1>1, ElementOfSeq
<1>3. ChainTo[c[i]] = SubSeq(c, 1, i)
  BY <1>1, ChainShape
<1>4. i \in Int /\ 1 <= i /\ i <= Len(c)
  BY <1>1
<1>5. \A j \in 1 .. i : c[j] \in Blocks
  BY <1>1, <1>4, ElementOfSeq
<1>6. Len(SubSeq(c, 1, i)) = i - 1 + 1 /\ \A j \in 1 .. i - 1 + 1 : SubSeq(c, 1, i)[j] = c[1 + j - 1]
  BY <1>4, <1>5, SubSeqProperties
<1>7. Len(SubSeq(c, 1, i)) = i
  BY <1>4, <1>6
<1>8. ASSUME NEW j \in 1 .. i PROVE SubSeq(c, 1, i)[j] = c[j]
  BY <1>4, <1>6
<1>9. QED
  BY <1>2, <1>3, <1>7, <1>8

LEMMA BlocksOfOrigin == BlocksOf(Origin) = {} /\ TxsOn(Origin) = {} /\ PointsOf(Origin) = {Origin}
BY DEF BlocksOf, ChainOf, TxsOn, PointsOf

\* Dropping the last block of a chain leaves the chain of the one before it.
LEMMA PrevFacts ==
    ASSUME NEW b \in Blocks
    PROVE  /\ PrevOf(b) \in Point
           /\ BlocksOf(b) = BlocksOf(PrevOf(b)) \cup {b}
           /\ b \notin BlocksOf(PrevOf(b))
           /\ BlocksOf(b) \subseteq Blocks
           /\ TxsOn(b) = TxsOn(PrevOf(b)) \cup TxsIn(b)
           /\ b # PrevOf(b)
<1>. DEFINE c == ChainTo[b]
            n == Len(ChainTo[b])
<1>1. /\ c \in Seq(Blocks)
      /\ n \in Nat \ {0}
      /\ c[n] = b
      /\ BlocksOf(b) = {c[i] : i \in 1 .. n}
  BY ChainOfBlock
<1>2. \A i \in 1 .. n : c[i] \in Blocks
  BY ChainPrefix
<1>3. BlocksOf(PrevOf(b)) = {c[i] : i \in 1 .. n - 1} /\ PrevOf(b) \in Point
  <2>1. CASE n = 1
    <3>1. PrevOf(b) = Origin
      BY <2>1 DEF PrevOf
    <3>2. 1 .. n - 1 = {}
      BY <2>1
    <3>3. QED
      BY <3>1, <3>2, BlocksOfOrigin DEF Point
  <2>2. CASE n # 1
    <3>1. PrevOf(b) = c[n - 1] /\ n - 1 \in 1 .. n
      <4>1. PrevOf(b) = c[n - 1]
        BY <2>2 DEF PrevOf
      <4>2. \A m \in Nat \ {0} : m # 1 => m - 1 \in 1 .. m
        OBVIOUS
      <4>3. QED
        BY <1>1, <2>2, <4>1, <4>2, Zenon
    <3>2. /\ c[n - 1] \in Blocks
          /\ Len(ChainTo[c[n - 1]]) = n - 1
          /\ \A j \in 1 .. n - 1 : ChainTo[c[n - 1]][j] = c[j]
      BY <3>1, ChainPrefix
    <3>3. BlocksOf(c[n - 1]) = {ChainTo[c[n - 1]][i] : i \in 1 .. n - 1}
      BY <3>2, ChainOfBlock
    <3>4. QED
      BY <3>1, <3>2, <3>3 DEF Point
  <2>3. QED
    BY <2>1, <2>2
<1>4. BlocksOf(b) = BlocksOf(PrevOf(b)) \cup {b}
  <2>1. 1 .. n = (1 .. n - 1) \cup {n}
    BY <1>1
  <2>2. QED
    BY <1>1, <1>3, <2>1
<1>5. b \notin BlocksOf(PrevOf(b))
  <2>1. SUFFICES ASSUME NEW i \in 1 .. n - 1, c[i] = b PROVE FALSE
    BY <1>3
  <2>2. i \in 1 .. n /\ i # n
    BY <1>1
  <2>3. Len(ChainTo[c[i]]) = i
    BY <2>2, ChainPrefix
  <2>4. QED
    BY <2>1, <2>2, <2>3
<1>6. b # PrevOf(b)
  <2>1. CASE PrevOf(b) = Origin
    BY <2>1, ChainTypes
  <2>2. CASE PrevOf(b) # Origin
    <3>1. PrevOf(b) \in BlocksOf(PrevOf(b))
      <4>1. PrevOf(b) \in Blocks
        BY <1>3, <2>2 DEF Point
      <4>2. QED
        BY <4>1, ChainOfBlock
    <3>2. QED
      BY <1>5, <3>1
  <2>3. QED
    BY <2>1, <2>2
<1>7. QED
  BY <1>1, <1>2, <1>3, <1>4, <1>5, <1>6 DEF TxsOn

\* A point other than the origin is a block of its own chain.
LEMMA LastOfChain ==
    ASSUME NEW p \in Point
    PROVE  /\ BlocksOf(p) \subseteq Blocks
           /\ p # Origin => p \in Blocks /\ p \in BlocksOf(p)
           /\ p \in PointsOf(p)
<1>1. CASE p = Origin
  BY <1>1, BlocksOfOrigin
<1>2. CASE p # Origin
  <2>1. p \in Blocks
    BY <1>2 DEF Point
  <2>2. QED
    BY <2>1, PrevFacts DEF PointsOf
<1>3. QED
  BY <1>1, <1>2

\* The chain of an earlier point is part of the chain, and does not reach
\* its end.
LEMMA EarlierPoint ==
    ASSUME NEW q \in Point, NEW p \in PointsOf(q)
    PROVE  /\ p \in Point
           /\ BlocksOf(p) \subseteq BlocksOf(q)
           /\ TxsOn(p) \subseteq TxsOn(q)
           /\ p # q => q \notin PointsOf(p) /\ q # Origin
<1>1. CASE p = Origin
  <2>1. p # q => q \notin PointsOf(p)
    BY <1>1, BlocksOfOrigin
  <2>2. QED
    BY <1>1, <2>1, BlocksOfOrigin DEF Point
<1>2. CASE p # Origin
  <2>1. q \in Blocks /\ p \in BlocksOf(q)
    BY <1>2, BlocksOfOrigin DEF PointsOf, Point
  <2>. DEFINE c == ChainTo[q]
              n == Len(c)
  <2>2. n \in Nat /\ c[n] = q /\ BlocksOf(q) = {c[i] : i \in 1 .. n}
    BY <2>1, ChainOfBlock
  <2>3. PICK i \in 1 .. n : p = c[i]
    BY <2>1, <2>2
  <2>4. p \in Blocks /\ Len(ChainTo[p]) = i /\ \A j \in 1 .. i : ChainTo[p][j] = c[j]
    BY <2>1, <2>3, ChainPrefix
  <2>5. BlocksOf(p) = {c[j] : j \in 1 .. i}
    BY <2>4, ChainOfBlock
  <2>6. 1 .. i \subseteq 1 .. n
    BY <2>2
  <2>7. BlocksOf(p) \subseteq BlocksOf(q)
    BY <2>2, <2>5, <2>6
  <2>8. ASSUME p # q PROVE q \notin PointsOf(p) /\ q # Origin
    <3>1. q # Origin
      BY <2>1, ChainTypes
    <3>2. SUFFICES ASSUME q \in BlocksOf(p) PROVE FALSE
      BY <3>1 DEF PointsOf
    <3>3. PICK j \in 1 .. i : q = c[j]
      BY <2>5, <3>2
    <3>4. Len(ChainTo[q]) = j
      BY <2>1, <2>6, <3>3, ChainPrefix
    <3>5. i = n
      BY <2>2, <2>3, <3>3, <3>4
    <3>6. QED
      BY <2>2, <2>3, <2>8, <3>5
  <2>9. QED
    BY <2>4, <2>7, <2>8 DEF Point, TxsOn
<1>3. QED
  BY <1>1, <1>2

\* Of two blocks of a chain, one is on the chain that the other extends.
LEMMA TwoBlocks ==
    ASSUME NEW q \in Point, NEW b1 \in BlocksOf(q), NEW b2 \in BlocksOf(q), b1 # b2
    PROVE  \/ b1 \in BlocksOf(PrevOf(b2)) /\ SlotOf[b1] < SlotOf[b2]
           \/ b2 \in BlocksOf(PrevOf(b1)) /\ SlotOf[b2] < SlotOf[b1]
<1>1. q \in Blocks
  BY BlocksOfOrigin DEF Point
<1>. DEFINE c == ChainTo[q]
            n == Len(c)
<1>2. n \in Nat /\ BlocksOf(q) = {c[i] : i \in 1 .. n} /\ DOMAIN c = 1 .. n
  BY <1>1, ChainOfBlock
<1>3. ASSUME NEW i \in 1 .. n, NEW j \in 1 .. n, i < j
      PROVE  c[i] \in BlocksOf(PrevOf(c[j])) /\ SlotOf[c[i]] < SlotOf[c[j]]
  <2>1. SlotOf[c[i]] < SlotOf[c[j]]
    BY <1>1, <1>2, <1>3, ChainShape
  <2>2. /\ c[j] \in Blocks
        /\ Len(ChainTo[c[j]]) = j
        /\ \A m \in 1 .. j : ChainTo[c[j]][m] = c[m]
    BY <1>1, ChainPrefix
  <2>3. Len(ChainTo[c[i]]) = i
    BY <1>1, ChainPrefix
  <2>4. BlocksOf(c[j]) = {ChainTo[c[j]][m] : m \in 1 .. j}
    BY <2>2, ChainOfBlock
  <2>5. i \in 1 .. j
    BY <1>3
  <2>6. c[i] \in BlocksOf(c[j])
    BY <2>2, <2>4, <2>5
  <2>7. c[i] # c[j]
    BY <1>3, <2>2, <2>3
  <2>8. QED
    BY <2>1, <2>2, <2>6, <2>7, PrevFacts
<1>4. PICK i \in 1 .. n : b1 = c[i]
  BY <1>2
<1>5. PICK j \in 1 .. n : b2 = c[j]
  BY <1>2
<1>6. i < j \/ j < i
  BY <1>4, <1>5
<1>7. QED
  BY <1>3, <1>4, <1>5, <1>6

-----------------------------------------------------------------------------
(* What the ledger rules say of the transactions of a chain.               *)

\* The transactions of a block, one after the other.
LEMMA TxFacts ==
    ASSUME NEW b \in Blocks
    PROVE  /\ TxsIn(b) \subseteq Txs
           /\ Len(TxsOf[b]) \in Nat
           /\ DOMAIN TxsOf[b] = 1 .. Len(TxsOf[b])
           /\ TxsIn(b) = FirstTxs(b, Len(TxsOf[b]) + 1)
           /\ BeforeTxs(b, Len(TxsOf[b]) + 1) = TxsOn(b)
           /\ BeforeTxs(b, 1) = TxsOn(PrevOf(b))
           /\ FirstTxs(b, 1) = {}
<1>1. TxsOf[b] \in Seq(Txs)
  BY ChainTypes
<1>2. /\ Len(TxsOf[b]) \in Nat
      /\ DOMAIN TxsOf[b] = 1 .. Len(TxsOf[b])
      /\ \A i \in 1 .. Len(TxsOf[b]) : TxsOf[b][i] \in Txs
  BY <1>1, ElementOfSeq, LenProperties
<1>3. TxsIn(b) = FirstTxs(b, Len(TxsOf[b]) + 1)
  BY <1>2 DEF TxsIn, FirstTxs
<1>4. FirstTxs(b, 1) = {}
  BY DEF FirstTxs
<1>5. QED
  BY <1>2, <1>3, <1>4, PrevFacts DEF TxsIn, BeforeTxs

\* A transaction is in one block of a chain.
LEMMA OneHome ==
    ASSUME NEW q \in Point, NEW t, NEW b1 \in HomesOf(q, t), NEW b2 \in HomesOf(q, t)
    PROVE  b1 = b2
<1>1. SUFFICES ASSUME b1 # b2 PROVE FALSE
  OBVIOUS
<1>2. b1 \in BlocksOf(q) /\ b2 \in BlocksOf(q) /\ t \in TxsIn(b1) /\ t \in TxsIn(b2)
  BY DEF HomesOf
<1>3. b1 \in Blocks /\ b2 \in Blocks
  BY <1>2, LastOfChain
<1>4. CASE b1 \in BlocksOf(PrevOf(b2))
  BY <1>2, <1>3, <1>4, LedgerRules DEF TxsOn, TxsIn
<1>5. CASE b2 \in BlocksOf(PrevOf(b1))
  BY <1>2, <1>3, <1>5, LedgerRules DEF TxsOn, TxsIn
<1>6. QED
  BY <1>1, <1>2, <1>4, <1>5, TwoBlocks

\* LedgerRules, in terms of what comes before a transaction: it spends what was
\* made and not yet spent, and is not there already.
LEMMA InputsBefore ==
    ASSUME NEW b \in Blocks, NEW j \in DOMAIN TxsOf[b]
    PROVE  /\ InputKeys(TxsOf[b][j]) \subseteq OutputsBy(BeforeTxs(b, j)) \ InputsBy(BeforeTxs(b, j))
           /\ TxsOf[b][j] \notin BeforeTxs(b, j)
<1>1. OutputsBy(BeforeTxs(b, j)) = CreatedBefore(b, j) /\ InputsBy(BeforeTxs(b, j)) = SpentBefore(b, j)
  BY DEF OutputsBy, InputsBy, BeforeTxs, FirstTxs, CreatedBefore, SpentBefore
<1>2. TxsOf[b][j] \notin BeforeTxs(b, j)
  <2>1. TxsOf[b][j] \notin TxsOn(PrevOf(b))
    BY LedgerRules
  <2>2. TxsOf[b][j] \notin FirstTxs(b, j)
    <3>1. SUFFICES ASSUME NEW i \in 1 .. j - 1, TxsOf[b][i] = TxsOf[b][j] PROVE FALSE
      BY DEF FirstTxs
    <3>2. i \in DOMAIN TxsOf[b] /\ i # j
      BY TxFacts
    <3>3. QED
      BY <3>1, <3>2, LedgerRules
  <2>3. QED
    BY <2>1, <2>2 DEF BeforeTxs
<1>3. QED
  BY <1>1, <1>2, LedgerRules

\* What comes before a transaction of a block, and then before the next one.
LEMMA BeforeInBlock ==
    ASSUME NEW b \in Blocks, NEW j \in 1 .. Len(TxsOf[b]) + 1
    PROVE  /\ BeforeTxs(b, j) \subseteq TxsOn(b)
           /\ FirstTxs(b, j) \subseteq TxsIn(b)
           /\ j \in DOMAIN TxsOf[b] =>
                 /\ BeforeTxs(b, j + 1) = BeforeTxs(b, j) \cup {TxsOf[b][j]}
                 /\ FirstTxs(b, j + 1) = FirstTxs(b, j) \cup {TxsOf[b][j]}
<1>1. Len(TxsOf[b]) \in Nat /\ DOMAIN TxsOf[b] = 1 .. Len(TxsOf[b])
  BY TxFacts
<1>2. 1 .. j - 1 \subseteq 1 .. Len(TxsOf[b])
  BY <1>1
<1>3. FirstTxs(b, j) \subseteq TxsIn(b)
  BY <1>1, <1>2 DEF FirstTxs, TxsIn
<1>4. BeforeTxs(b, j) \subseteq TxsOn(b)
  BY <1>3, PrevFacts DEF BeforeTxs
<1>5. FirstTxs(b, j + 1) = FirstTxs(b, j) \cup {TxsOf[b][j]}
  <2>1. 1 .. j + 1 - 1 = (1 .. j - 1) \cup {j}
    BY <1>1
  <2>2. QED
    BY <2>1 DEF FirstTxs
<1>6. QED
  BY <1>3, <1>4, <1>5 DEF BeforeTxs

\* Every input of a chain is an output of that chain.
LEMMA InputsAreOutputs ==
    ASSUME NEW p \in Point
    PROVE  /\ InputsBy(TxsOn(p)) \subseteq OutputsBy(TxsOn(p))
           /\ OutputsBy(TxsOn(p)) \subseteq Key
           /\ TxsOn(p) \subseteq Txs
<1>1. ASSUME NEW b \in BlocksOf(p), NEW j \in DOMAIN TxsOf[b]
      PROVE  InputKeys(TxsOf[b][j]) \subseteq OutputsBy(TxsOn(p))
  <2>1. b \in Blocks
    BY LastOfChain
  <2>2. InputKeys(TxsOf[b][j]) \subseteq OutputsBy(BeforeTxs(b, j))
    BY <2>1, InputsBefore
  <2>3. BeforeTxs(b, j) \subseteq TxsOn(b)
    BY <2>1, TxFacts, BeforeInBlock
  <2>4. TxsOn(b) \subseteq TxsOn(p)
    BY EarlierPoint DEF PointsOf
  <2>5. QED
    BY <2>2, <2>3, <2>4 DEF OutputsBy
<1>2. InputsBy(TxsOn(p)) \subseteq OutputsBy(TxsOn(p))
  BY <1>1 DEF InputsBy, TxsOn, TxsIn
<1>3. TxsOn(p) \subseteq Txs
  BY LastOfChain, TxFacts DEF TxsOn
<1>4. OutputsBy(TxsOn(p)) \subseteq Key
  BY <1>3 DEF OutputsBy, Key
<1>5. QED
  BY <1>2, <1>3, <1>4

\* A transaction of a chain is somewhere in a block of that chain.
LEMMA PlaceOfTx ==
    ASSUME NEW p \in Point, NEW t \in TxsOn(p)
    PROVE  \E b \in BlocksOf(p) : \E j \in DOMAIN TxsOf[b] :
              b \in Blocks /\ t = TxsOf[b][j] /\ b \in HomesOf(p, t)
BY LastOfChain DEF TxsOn, TxsIn, HomesOf

\* An output key names the transaction that made it.
LEMMA KeyOwner ==
    ASSUME NEW T, NEW k \in OutputsBy(T)
    PROVE  k[1] \in T /\ k \in OutputKeys(k[1])
BY DEF OutputsBy, OutputKeys

\* A new transaction makes new keys.
LEMMA OwnKeys ==
    ASSUME NEW T, NEW t, t \notin T
    PROVE  OutputKeys(t) \cap OutputsBy(T) = {}
BY DEF OutputsBy, OutputKeys

LEMMA SetsOfUnion ==
    ASSUME NEW T, NEW U
    PROVE  /\ OutputsBy(T \cup U) = OutputsBy(T) \cup OutputsBy(U)
           /\ InputsBy(T \cup U) = InputsBy(T) \cup InputsBy(U)
BY DEF OutputsBy, InputsBy

LEMMA SetsOfOne ==
    ASSUME NEW t
    PROVE  OutputsBy({t}) = OutputKeys(t) /\ InputsBy({t}) = InputKeys(t)
BY DEF OutputsBy, InputsBy

LEMMA SetsOfNone == OutputsBy({}) = {} /\ InputsBy({}) = {}
BY DEF OutputsBy, InputsBy

\* What a transaction spends was made before it and not spent before it, and
\* nothing up to it spends what it makes.
LEMMA TxSets ==
    ASSUME NEW b \in Blocks, NEW j \in DOMAIN TxsOf[b]
    PROVE  LET t    == TxsOf[b][j]
               made == OutputsBy(BeforeTxs(b, j))
               used == InputsBy(BeforeTxs(b, j)) IN
           /\ InputKeys(t) \subseteq made \ used
           /\ OutputKeys(t) \cap made = {}
           /\ used \subseteq made
<1>. DEFINE t    == TxsOf[b][j]
            made == OutputsBy(BeforeTxs(b, j))
            used == InputsBy(BeforeTxs(b, j))
<1>1. InputKeys(t) \subseteq made \ used
  BY InputsBefore
<1>2. OutputKeys(t) \cap made = {}
  BY InputsBefore, OwnKeys
<1>3. used \subseteq made
  <2>1. InputsBy(TxsOn(PrevOf(b))) \subseteq OutputsBy(TxsOn(PrevOf(b)))
    BY PrevFacts, InputsAreOutputs
  <2>2. ASSUME NEW i \in 1 .. j - 1
        PROVE  InputKeys(TxsOf[b][i]) \subseteq made
    <3>1. i \in DOMAIN TxsOf[b] /\ 1 .. i - 1 \subseteq 1 .. j - 1
      BY TxFacts
    <3>2. InputKeys(TxsOf[b][i]) \subseteq OutputsBy(BeforeTxs(b, i))
      BY <3>1, InputsBefore
    <3>3. BeforeTxs(b, i) \subseteq BeforeTxs(b, j)
      BY <3>1 DEF BeforeTxs, FirstTxs
    <3>4. QED
      BY <3>2, <3>3 DEF OutputsBy
  <2>3. InputsBy(FirstTxs(b, j)) \subseteq made
    BY <2>2 DEF InputsBy, FirstTxs
  <2>4. OutputsBy(TxsOn(PrevOf(b))) \subseteq made
    BY DEF OutputsBy, BeforeTxs
  <2>5. QED
    BY <2>1, <2>3, <2>4, SetsOfUnion DEF BeforeTxs
<1>4. QED
  BY <1>1, <1>2, <1>3

\* On a chain, a key is spent by one transaction.
LEMMA OneSpender ==
    ASSUME NEW p \in Point, NEW k,
           NEW t1 \in TxsOn(p), NEW t2 \in TxsOn(p), k \in InputKeys(t1), k \in InputKeys(t2)
    PROVE  t1 = t2
<1>1. SUFFICES ASSUME t1 # t2 PROVE FALSE
  OBVIOUS
<1>2. PICK b1 \in BlocksOf(p) : \E j \in DOMAIN TxsOf[b1] :
              b1 \in Blocks /\ t1 = TxsOf[b1][j] /\ b1 \in HomesOf(p, t1)
  BY PlaceOfTx
<1>3. PICK j1 \in DOMAIN TxsOf[b1] : b1 \in Blocks /\ t1 = TxsOf[b1][j1]
  BY <1>2
<1>4. PICK b2 \in BlocksOf(p) : \E j \in DOMAIN TxsOf[b2] :
              b2 \in Blocks /\ t2 = TxsOf[b2][j] /\ b2 \in HomesOf(p, t2)
  BY PlaceOfTx
<1>5. PICK j2 \in DOMAIN TxsOf[b2] : b2 \in Blocks /\ t2 = TxsOf[b2][j2]
  BY <1>4
<1>6. k \notin InputsBy(BeforeTxs(b1, j1)) /\ k \notin InputsBy(BeforeTxs(b2, j2))
  BY <1>3, <1>5, InputsBefore
<1>7. t2 \notin BeforeTxs(b1, j1) /\ t1 \notin BeforeTxs(b2, j2)
  BY <1>6 DEF InputsBy
<1>8. CASE b1 = b2
  <2>1. j1 \in 1 .. Len(TxsOf[b1]) /\ j2 \in 1 .. Len(TxsOf[b1]) /\ Len(TxsOf[b1]) \in Nat
    BY <1>3, <1>5, <1>8, TxFacts
  <2>2. j1 # j2
    BY <1>1, <1>3, <1>5, <1>8
  <2>3. j1 \in 1 .. j2 - 1 \/ j2 \in 1 .. j1 - 1
    BY <2>1, <2>2
  <2>4. QED
    BY <1>3, <1>5, <1>7, <1>8, <2>3 DEF BeforeTxs, FirstTxs
<1>9. CASE b1 # b2
  <2>1. b1 \in BlocksOf(PrevOf(b2)) \/ b2 \in BlocksOf(PrevOf(b1))
    BY <1>9, TwoBlocks
  <2>2. t1 \in TxsIn(b1) /\ t2 \in TxsIn(b2)
    BY <1>3, <1>5 DEF TxsIn
  <2>3. QED
    BY <1>7, <2>1, <2>2 DEF BeforeTxs, TxsOn
<1>10. QED
  BY <1>8, <1>9

\* The keys a block adds to the ones of the chain it extends.
LEMMA BlockSets ==
    ASSUME NEW b \in Blocks
    PROVE  LET q == PrevOf(b) IN
           /\ OutputsBy(TxsOn(b)) = OutputsBy(TxsOn(q)) \cup OutputsBy(TxsIn(b))
           /\ InputsBy(TxsOn(b)) = InputsBy(TxsOn(q)) \cup InputsBy(TxsIn(b))
           /\ OutputsBy(TxsIn(b)) \cap OutputsBy(TxsOn(q)) = {}
           /\ InputsBy(TxsIn(b)) \cap InputsBy(TxsOn(q)) = {}
           /\ InputsBy(TxsIn(b)) \subseteq OutputsBy(TxsOn(b))
           /\ InputsBy(TxsOn(q)) \subseteq OutputsBy(TxsOn(q))
<1>. DEFINE q == PrevOf(b)
<1>1. q \in Point /\ TxsOn(b) = TxsOn(q) \cup TxsIn(b)
  BY PrevFacts
<1>2. /\ OutputsBy(TxsOn(b)) = OutputsBy(TxsOn(q)) \cup OutputsBy(TxsIn(b))
      /\ InputsBy(TxsOn(b)) = InputsBy(TxsOn(q)) \cup InputsBy(TxsIn(b))
  BY <1>1, SetsOfUnion
<1>3. OutputsBy(TxsIn(b)) \cap OutputsBy(TxsOn(q)) = {}
  <2>1. SUFFICES ASSUME NEW k \in OutputsBy(TxsIn(b)), k \in OutputsBy(TxsOn(q)) PROVE FALSE
    OBVIOUS
  <2>2. k[1] \in TxsIn(b) /\ k[1] \in TxsOn(q)
    BY <2>1, KeyOwner
  <2>3. QED
    BY <2>2, LedgerRules DEF TxsIn
<1>4. InputsBy(TxsIn(b)) \cap InputsBy(TxsOn(q)) = {}
  <2>1. SUFFICES ASSUME NEW j \in DOMAIN TxsOf[b], NEW k \in InputKeys(TxsOf[b][j]),
                        k \in InputsBy(TxsOn(q))
                 PROVE  FALSE
    BY DEF InputsBy, TxsIn
  <2>2. k \in InputsBy(BeforeTxs(b, j))
    BY <2>1 DEF BeforeTxs, InputsBy
  <2>3. QED
    BY <2>2, InputsBefore
<1>5. InputsBy(TxsIn(b)) \subseteq OutputsBy(TxsOn(b))
  <2>1. b \in Point
    BY DEF Point
  <2>2. QED
    BY <1>2, <2>1, InputsAreOutputs
<1>6. InputsBy(TxsOn(q)) \subseteq OutputsBy(TxsOn(q))
  BY <1>1, InputsAreOutputs
<1>7. QED
  BY <1>2, <1>3, <1>4, <1>5, <1>6

\* Extending a chain moves no transaction to another block.
LEMMA HomesOfNext ==
    ASSUME NEW b \in Blocks, NEW t
    PROVE  /\ HomesOf(PrevOf(b), t) \subseteq HomesOf(b, t)
           /\ t \in TxsIn(b) => b \in HomesOf(b, t)
           /\ t \in TxsOn(PrevOf(b)) => HomesOf(b, t) \subseteq HomesOf(PrevOf(b), t)
<1>1. BlocksOf(b) = BlocksOf(PrevOf(b)) \cup {b}
  BY PrevFacts
<1>2. t \in TxsOn(PrevOf(b)) => t \notin TxsIn(b)
  BY LedgerRules DEF TxsIn
<1>3. QED
  BY <1>1, <1>2 DEF HomesOf

\* The phases between two responses, and those of rollback_block for one
\* buffered block.
AtRest == {"down", "connected", "idle"}

UndoingOne == {"restore", "unevents", "delete"}

\* The buffer, if it holds anything, ends with the block at p.
Attached(p) == rollback_buffer # <<>> => LastInfo.block = p

\* Each buffered block is followed by one that extends it.
Linked(buffer) ==
    \A i, j \in DOMAIN buffer : j = i + 1 => PrevOf(buffer[j].block) = buffer[i].block

\* From point p, the blocks down to the cursor are there to be undone.
Leaves(p) ==
    /\ cursor \in PointsOf(p)
    /\ \A b \in BlocksOf(p) \ BlocksOf(cursor) :
         /\ SlotOf[b] > PointSlot(cursor)
         /\ \E i \in DOMAIN rollback_buffer : rollback_buffer[i].block = b

\* The point that rollback_to has come down to.
TreePoint == IF MoreToUndo THEN LastInfo.block ELSE cursor

\* The buffer is a stretch of the announced chain that ends where the trees
\* are: undoing its last block is undoing the last block of the chain.
Aligned ==
    /\ Linked(rollback_buffer)
    /\ phase \in AtRest => Attached(cursor)
    /\ phase \in Processing => info.block = cursor /\ Attached(PrevOf(cursor))
    /\ phase \in RollingBack => target_slot = PointSlot(cursor)
    /\ phase = "undo" => Attached(TreePoint) /\ Leaves(TreePoint)
    /\ phase \in UndoingOne =>
          Attached(PrevOf(info.block)) /\ Leaves(PrevOf(info.block))

AlignedInv == exact => Aligned

\* A block that extends the last one in the buffer goes on top of it.
LEMMA PushLinked ==
    ASSUME rollback_buffer \in Seq(RollbackInfo), NEW x \in RollbackInfo,
           Linked(rollback_buffer), Attached(PrevOf(x.block))
    PROVE  LET pushed == PushBuffer(x) IN
           /\ Linked(pushed)
           /\ pushed # <<>>
           /\ pushed[Len(pushed)] = x
           /\ \A i \in DOMAIN pushed :
                 pushed[i] = x \/ \E j \in DOMAIN rollback_buffer : pushed[i] = rollback_buffer[j]
<1>. DEFINE longer == Append(rollback_buffer, x)
            n == Len(rollback_buffer)
<1>1. /\ longer \in Seq(RollbackInfo)
      /\ longer # <<>>
      /\ n \in Nat
      /\ Len(longer) = n + 1
      /\ \A i \in 1 .. n : longer[i] = rollback_buffer[i]
      /\ longer[n + 1] = x
      /\ DOMAIN rollback_buffer = 1 .. n
      /\ DOMAIN longer = 1 .. n + 1
  BY AppendProperties, LenProperties
<1>2. Linked(longer)
  <2>. SUFFICES ASSUME NEW i \in 1 .. n + 1, NEW j \in 1 .. n + 1, j = i + 1
                PROVE  PrevOf(longer[j].block) = longer[i].block
    BY <1>1 DEF Linked
  <2>1. i \in 1 .. n /\ longer[i] = rollback_buffer[i]
    BY <1>1
  <2>2. CASE j = n + 1
    <3>1. i = n /\ n # 0
      BY <1>1, <2>1, <2>2
    <3>. rollback_buffer # <<>>
      BY <3>1, EmptySeq
    <3>2. QED
      BY <1>1, <2>1, <2>2, <3>1 DEF Attached, LastInfo
  <2>3. CASE j # n + 1
    <3>1. j \in 1 .. n /\ longer[j] = rollback_buffer[j]
      BY <1>1, <2>3
    <3>2. QED
      BY <1>1, <2>1, <3>1 DEF Linked
  <2>4. QED
    BY <2>2, <2>3
<1>3. ASSUME NEW i \in DOMAIN longer
      PROVE  longer[i] = x \/ \E j \in DOMAIN rollback_buffer : longer[i] = rollback_buffer[j]
  <2>1. i = n + 1 \/ i \in 1 .. n
    BY <1>1
  <2>2. QED
    BY <1>1, <2>1
<1>4. CASE Len(longer) > BufferSize
  <2>1. PushBuffer(x) = Tail(longer)
    BY <1>4 DEF PushBuffer
  <2>2. /\ Tail(longer) \in Seq(RollbackInfo)
        /\ Len(Tail(longer)) = n
        /\ \A i \in 1 .. n : Tail(longer)[i] = longer[i + 1]
    BY <1>1, HeadTailProperties
  <2>3. n > 0 /\ DOMAIN Tail(longer) = 1 .. n
    BY <1>1, <1>4, <2>2, ProcessorConstants, LenProperties
  <2>4. Linked(Tail(longer))
    <3>. SUFFICES ASSUME NEW i \in 1 .. n, NEW j \in 1 .. n, j = i + 1
                  PROVE  PrevOf(Tail(longer)[j].block) = Tail(longer)[i].block
      BY <2>3 DEF Linked
    <3>1. i + 1 \in DOMAIN longer /\ j + 1 \in DOMAIN longer /\ j + 1 = i + 1 + 1
      BY <1>1
    <3>2. QED
      BY <1>2, <2>2, <3>1 DEF Linked
  <2>5. Tail(longer)[n] = x /\ Tail(longer) # <<>>
    <3>1. n \in 1 .. n /\ n # 0
      BY <1>1, <2>3
    <3>2. Tail(longer)[n] = longer[n + 1]
      BY <2>2, <3>1
    <3>3. Tail(longer) # <<>>
      BY <2>2, <3>1, EmptySeq
    <3>4. QED
      BY <1>1, <3>2, <3>3
  <2>6. ASSUME NEW i \in 1 .. n PROVE i + 1 \in DOMAIN longer
    BY <1>1
  <2>7. QED
    BY <1>3, <2>1, <2>2, <2>3, <2>4, <2>5, <2>6
<1>5. CASE ~(Len(longer) > BufferSize)
  <2>1. PushBuffer(x) = longer
    BY <1>5 DEF PushBuffer
  <2>2. QED
    BY <1>1, <1>2, <1>3, <2>1
<1>6. QED
  BY <1>4, <1>5

\* Popping the last block leaves a linked buffer that ends with the one before.
LEMMA PopLinked ==
    ASSUME rollback_buffer \in Seq(RollbackInfo), rollback_buffer # <<>>, Linked(rollback_buffer)
    PROVE  /\ Linked(PopLast)
           /\ PopLast # <<>> => PopLast[Len(PopLast)].block = PrevOf(LastInfo.block)
           /\ \A i \in DOMAIN PopLast : i \in DOMAIN rollback_buffer /\ PopLast[i] = rollback_buffer[i]
           /\ \A i \in DOMAIN rollback_buffer :
                 \/ rollback_buffer[i] = LastInfo
                 \/ i \in DOMAIN PopLast /\ PopLast[i] = rollback_buffer[i]
<1>. DEFINE n == Len(rollback_buffer)
<1>1. n \in Nat /\ n # 0 /\ DOMAIN rollback_buffer = 1 .. n
  BY LenProperties, EmptySeq
<1>2. /\ PopLast \in Seq(RollbackInfo)
      /\ Len(PopLast) = n - 1
      /\ \A i \in 1 .. n - 1 : PopLast[i] = rollback_buffer[i]
  BY <1>1, WithoutLast DEF PopLast
<1>3. DOMAIN PopLast = 1 .. n - 1
  BY <1>2, LenProperties
<1>4. \A i \in 1 .. n - 1 : i \in 1 .. n
  BY <1>1
<1>5. Linked(PopLast)
  BY <1>1, <1>2, <1>3, <1>4 DEF Linked
<1>6. ASSUME PopLast # <<>> PROVE PopLast[Len(PopLast)].block = PrevOf(LastInfo.block)
  <2>1. n - 1 # 0
    BY <1>2, <1>6, EmptySeq
  <2>2. n - 1 \in 1 .. n - 1 /\ n \in 1 .. n /\ n = (n - 1) + 1
    BY <1>1, <2>1
  <2>3. PrevOf(rollback_buffer[n].block) = rollback_buffer[n - 1].block
    BY <1>1, <1>4, <2>2 DEF Linked
  <2>4. QED
    BY <1>2, <2>2, <2>3 DEF LastInfo
<1>7. ASSUME NEW i \in DOMAIN rollback_buffer
      PROVE  \/ rollback_buffer[i] = LastInfo
             \/ i \in DOMAIN PopLast /\ PopLast[i] = rollback_buffer[i]
  <2>1. i = n \/ i \in 1 .. n - 1
    BY <1>1
  <2>2. CASE i = n
    BY <2>2 DEF LastInfo
  <2>3. CASE i \in 1 .. n - 1
    BY <1>2, <1>3, <2>3
  <2>4. QED
    BY <2>1, <2>2, <2>3
<1>8. QED
  BY <1>1, <1>2, <1>3, <1>4, <1>5, <1>6, <1>7

-----------------------------------------------------------------------------
\* An empty buffer is aligned with any point.
LEMMA AlignedEmpty ==
    ASSUME rollback_buffer' = <<>>, phase' \in AtRest
    PROVE  Aligned'
<1>1. Linked(<<>>)
  BY DEF Linked
<1>2. QED
  BY <1>1 DEF Aligned, AtRest, Processing, RollingBack, UndoingOne, Attached

\* A block that extends the cursor goes on top of the buffer.
LEMMA AlignedBegin ==
    ASSUME AlignedInv, NEW b \in Blocks, RollForward(b)
    PROVE  AlignedInv'
<1>1. SUFFICES ASSUME exact' PROVE Aligned'
  BY DEF AlignedInv
<1>2. BeginBlock(b) /\ exact
  BY <1>1 DEF RollForward
<1>3. /\ phase = "idle"
      /\ phase' \in Processing
      /\ info'.block = b
      /\ cursor' = b
      /\ PrevOf(b) = cursor
      /\ rollback_buffer' = rollback_buffer
  BY <1>2 DEF RollForward, BeginBlock, NextPhase, Processing
<1>4. Linked(rollback_buffer) /\ Attached(cursor)
  BY <1>2, <1>3 DEF AlignedInv, Aligned, AtRest
<1>5. Linked(rollback_buffer)' /\ Attached(PrevOf(cursor))'
  BY <1>3, <1>4 DEF Linked, Attached, LastInfo
<1>6. QED
  BY <1>3, <1>5 DEF Aligned, AtRest, Processing, RollingBack, UndoingOne

\* A rollback starts with the trees at the point announced so far.
LEMMA AlignedBackward ==
    ASSUME TypeOK, AlignedInv, phase \in AtRest, NEW p \in PointsOf(cursor), RollBackward(p)
    PROVE  AlignedInv' /\ (exact' /\ phase' = "undo" => TreePoint' = cursor)
<1>1. SUFFICES ASSUME exact' PROVE Aligned' /\ (phase' = "undo" => TreePoint' = cursor)
  BY DEF AlignedInv
<1>2. exact /\ cursor' = p /\ rollback_buffer' = rollback_buffer
  BY <1>1 DEF RollBackward, IgnoreRollback, BeginRollback
<1>3. Linked(rollback_buffer) /\ Attached(cursor)
  BY <1>2 DEF AlignedInv, Aligned
<1>4. Linked(rollback_buffer)'
  BY <1>2, <1>3 DEF Linked
<1>5. CASE IgnoreRollback(PointSlot(p)) /\ exact' = (exact /\ p = cursor)
  <2>1. phase' = "idle" /\ cursor' = cursor
    BY <1>1, <1>2, <1>5 DEF IgnoreRollback, Return
  <2>2. Attached(cursor)'
    BY <1>2, <1>3, <2>1 DEF Attached, LastInfo
  <2>3. QED
    BY <1>4, <2>1, <2>2 DEF Aligned, AtRest, Processing, RollingBack, UndoingOne
<1>6. CASE BeginRollback(PointSlot(p)) /\ exact' = (exact /\ Undoable(p))
  <2>1. phase' = "undo" /\ target_slot' = PointSlot(p) /\ Undoable(p)
    BY <1>1, <1>6 DEF BeginRollback
  <2>2. cursor \in Point
    BY DEF TypeOK, SessionTyped
  <2>3. Attached(TreePoint)' /\ Leaves(TreePoint)' /\ TreePoint' = cursor
    <3>1. CASE MoreToUndo'
      <4>1. TreePoint' = cursor /\ rollback_buffer # <<>>
        BY <1>2, <1>3, <3>1 DEF TreePoint, MoreToUndo, Attached, LastInfo
      <4>2. Attached(TreePoint)'
        BY <3>1 DEF TreePoint, Attached
      <4>3. Leaves(TreePoint)'
        BY <1>2, <2>1, <4>1 DEF Leaves, Undoable
      <4>4. QED
        BY <4>1, <4>2, <4>3
    <3>2. CASE ~MoreToUndo'
      <4>1. p = cursor
        <5>1. SUFFICES ASSUME p # cursor PROVE FALSE
          OBVIOUS
        <5>2. cursor \in BlocksOf(cursor) \ BlocksOf(p)
          BY <2>2, <5>1, EarlierPoint, LastOfChain DEF PointsOf
        <5>3. SlotOf[cursor] > PointSlot(p)
          BY <2>1, <5>2 DEF Undoable
        <5>4. PICK i \in DOMAIN rollback_buffer : rollback_buffer[i].block = cursor
          BY <2>1, <5>2 DEF Undoable
        <5>5. rollback_buffer # <<>>
          BY <5>4
        <5>6. QED
          BY <1>2, <1>3, <2>1, <3>2, <5>3, <5>5 DEF Attached, MoreToUndo, LastInfo
      <4>2. TreePoint' = p
        BY <1>2, <3>2 DEF TreePoint
      <4>3. Attached(TreePoint)'
        BY <1>2, <1>3, <4>1, <4>2 DEF Attached, LastInfo
      <4>4. Leaves(TreePoint)'
        <5>1. p \in PointsOf(p)
          BY <2>2, EarlierPoint, LastOfChain
        <5>2. QED
          BY <1>2, <4>2, <5>1 DEF Leaves
      <4>5. QED
        BY <4>1, <4>2, <4>3, <4>4
    <3>3. QED
      BY <3>1, <3>2
  <2>4. QED
    BY <1>2, <1>4, <2>1, <2>3 DEF Aligned, AtRest, Processing, RollingBack, UndoingOne
<1>7. QED
  BY <1>5, <1>6 DEF RollBackward

\* Steps inside a block, forward and backward, leave the buffer alone.
LEMMA AlignedProcessing ==
    ASSUME AlignedInv, phase \in Processing, phase' \in Processing, info'.block = info.block,
           UNCHANGED <<rollback_buffer, cursor, exact>>
    PROVE  AlignedInv'
<1>1. SUFFICES ASSUME exact' PROVE Aligned'
  BY DEF AlignedInv
<1>2. Linked(rollback_buffer) /\ info.block = cursor /\ Attached(PrevOf(cursor))
  BY <1>1 DEF AlignedInv, Aligned
<1>3. Linked(rollback_buffer)' /\ Attached(PrevOf(cursor))'
  BY <1>2 DEF Linked, Attached, LastInfo
<1>4. QED
  BY <1>2, <1>3 DEF Aligned, AtRest, Processing, RollingBack, UndoingOne

LEMMA AlignedUndoing ==
    ASSUME AlignedInv, phase \in UndoingOne, phase' \in UndoingOne,
           UNCHANGED <<rollback_buffer, cursor, exact, info, target_slot>>
    PROVE  AlignedInv'
<1>1. SUFFICES ASSUME exact' PROVE Aligned'
  BY DEF AlignedInv
<1>2. /\ Linked(rollback_buffer)
      /\ target_slot = PointSlot(cursor)
      /\ Attached(PrevOf(info.block))
      /\ Leaves(PrevOf(info.block))
  BY <1>1 DEF AlignedInv, Aligned, RollingBack, UndoingOne
<1>3. Linked(rollback_buffer)' /\ Attached(PrevOf(info.block))' /\ Leaves(PrevOf(info.block))'
  BY <1>2 DEF Linked, Attached, LastInfo, Leaves
<1>4. QED
  BY <1>2, <1>3 DEF Aligned, AtRest, Processing, RollingBack, UndoingOne

\* rollback_to pops a block of the chain.
LEMMA AlignedUndoBlock ==
    ASSUME TypeOK, AlignedInv, UndoBlock, UNCHANGED syncVars
    PROVE  AlignedInv'
<1>1. SUFFICES ASSUME exact' PROVE Aligned'
  BY DEF AlignedInv
<1>. DEFINE b == LastInfo.block
            q == PrevOf(b)
<1>2. /\ exact
      /\ UNCHANGED <<cursor, target_slot>>
      /\ phase = "undo"
      /\ phase' = "restore"
      /\ MoreToUndo
      /\ info' = LastInfo
      /\ rollback_buffer' = PopLast
  BY <1>1 DEF UndoBlock, syncVars
<1>3. rollback_buffer \in Seq(RollbackInfo) /\ rollback_buffer # <<>> /\ cursor \in Point
  BY <1>2 DEF TypeOK, ProcessorTyped, SessionTyped, MoreToUndo
<1>4. b \in Blocks /\ SlotOf[b] \in Nat /\ SlotOf[b] > target_slot
  BY <1>2, <1>3, LastInfoType, InfoItems DEF MoreToUndo
<1>5. Linked(rollback_buffer) /\ target_slot = PointSlot(cursor) /\ Leaves(b)
  BY <1>2 DEF AlignedInv, Aligned, RollingBack, TreePoint
<1>6. Linked(rollback_buffer)' /\ Attached(PrevOf(info.block))'
  BY <1>2, <1>3, <1>5, PopLinked DEF Attached, LastInfo
<1>7. b # cursor
  BY <1>4, <1>5, ChainTypes DEF PointSlot
<1>8. cursor \in PointsOf(q)
  BY <1>4, <1>5, <1>7, PrevFacts DEF Leaves, PointsOf
<1>9. ASSUME NEW c \in BlocksOf(q) \ BlocksOf(cursor)
      PROVE  /\ SlotOf[c] > PointSlot(cursor)
             /\ \E i \in DOMAIN PopLast : PopLast[i].block = c
  <2>1. c \in BlocksOf(b) \ BlocksOf(cursor) /\ c # b
    BY <1>4, PrevFacts
  <2>2. PICK i \in DOMAIN rollback_buffer : rollback_buffer[i].block = c
    BY <1>5, <2>1 DEF Leaves
  <2>3. rollback_buffer[i] # LastInfo
    BY <2>1, <2>2
  <2>4. i \in DOMAIN PopLast /\ PopLast[i] = rollback_buffer[i]
    BY <1>3, <1>5, <2>2, <2>3, PopLinked
  <2>5. QED
    BY <1>5, <2>1, <2>2, <2>4 DEF Leaves
<1>10. Leaves(PrevOf(info.block))'
  BY <1>2, <1>8, <1>9 DEF Leaves
<1>11. QED
  BY <1>2, <1>5, <1>6, <1>10 DEF Aligned, AtRest, Processing, RollingBack, UndoingOne

\* When the last block above the target is undone, the trees are back at the
\* cursor; until then the next one down is the last of the buffer.
LEMMA DownOne ==
    ASSUME rollback_buffer \in Seq(RollbackInfo), cursor \in Point, NEW q \in Point,
           target_slot = PointSlot(cursor), Attached(q), Leaves(q)
    PROVE  TreePoint = q
<1>1. cursor \in PointsOf(q) /\ PointSlot(cursor) \in Nat
  BY ChainTypes DEF Leaves, PointSlot, Point
<1>2. CASE q = cursor
  <2>1. ~MoreToUndo
    <3>1. SUFFICES ASSUME MoreToUndo PROVE FALSE
      OBVIOUS
    <3>2. q \in Blocks /\ SlotOf[q] \in Nat /\ SlotOf[q] > target_slot
      BY <3>1, LastInfoType, InfoItems DEF MoreToUndo, Attached
    <3>3. PointSlot(cursor) = SlotOf[q]
      BY <1>2, <3>2, ChainTypes DEF PointSlot
    <3>4. QED
      BY <3>2, <3>3
  <2>2. QED
    BY <1>2, <2>1 DEF TreePoint
<1>3. CASE q # cursor
  <2>1. q \in BlocksOf(q) \ BlocksOf(cursor)
    BY <1>1, <1>3, EarlierPoint, LastOfChain DEF PointsOf
  <2>2. PICK i \in DOMAIN rollback_buffer : rollback_buffer[i].block = q
    BY <2>1 DEF Leaves
  <2>3. rollback_buffer # <<>> /\ SlotOf[q] > target_slot
    BY <2>1, <2>2 DEF Leaves
  <2>4. QED
    BY <2>3 DEF TreePoint, MoreToUndo, Attached
<1>4. QED
  BY <1>2, <1>3

LEMMA AlignedBlockUndone ==
    ASSUME TypeOK, AlignedInv, BlockUndone, UNCHANGED syncVars
    PROVE  AlignedInv' /\ (exact => TreePoint' = PrevOf(info.block))
<1>1. SUFFICES ASSUME exact PROVE Aligned' /\ TreePoint' = PrevOf(info.block)
  BY DEF AlignedInv, syncVars
<1>. DEFINE q == PrevOf(info.block)
<1>2. /\ UNCHANGED <<cursor, target_slot, rollback_buffer, info>>
      /\ phase = "delete"
      /\ phase' = "undo"
  BY DEF BlockUndone, syncVars
<1>3. rollback_buffer \in Seq(RollbackInfo) /\ cursor \in Point /\ info.block \in Blocks
  BY <1>2, InfoItems DEF TypeOK, ProcessorTyped, SessionTyped, RollingBack
<1>4. q \in Point
  BY <1>3, PrevFacts
<1>5. Linked(rollback_buffer) /\ target_slot = PointSlot(cursor) /\ Attached(q) /\ Leaves(q)
  BY <1>1, <1>2 DEF AlignedInv, Aligned, RollingBack, UndoingOne
<1>6. TreePoint = q
  BY <1>3, <1>4, <1>5, DownOne
<1>7. TreePoint' = q
  BY <1>2, <1>6 DEF TreePoint, MoreToUndo, LastInfo
<1>8. Linked(rollback_buffer)' /\ Attached(TreePoint)' /\ Leaves(TreePoint)'
  BY <1>2, <1>5, <1>7 DEF Linked, Attached, LastInfo, Leaves
<1>9. QED
  BY <1>2, <1>5, <1>7, <1>8 DEF Aligned, AtRest, Processing, RollingBack, UndoingOne

LEMMA AlignedEndRollback ==
    ASSUME AlignedInv, EndRollback, UNCHANGED syncVars
    PROVE  AlignedInv'
<1>1. SUFFICES ASSUME exact' PROVE Aligned'
  BY DEF AlignedInv
<1>2. /\ exact
      /\ UNCHANGED <<cursor, rollback_buffer>>
      /\ phase = "undo"
      /\ phase' = "idle"
      /\ ~MoreToUndo
  BY <1>1 DEF EndRollback, Return, syncVars
<1>3. Linked(rollback_buffer) /\ Attached(cursor)
  BY <1>2 DEF AlignedInv, Aligned, TreePoint
<1>4. Linked(rollback_buffer)' /\ Attached(cursor)'
  BY <1>2, <1>3 DEF Linked, Attached, LastInfo
<1>5. QED
  BY <1>2, <1>4 DEF Aligned, AtRest, Processing, RollingBack, UndoingOne

\* process_block pushes its block onto the one it extends.
LEMMA AlignedFinish ==
    ASSUME TypeOK, AlignedInv, NEW snap \in BOOLEAN, Finish(snap)
    PROVE  AlignedInv'
<1>1. SUFFICES ASSUME exact' PROVE Aligned'
  BY DEF AlignedInv
<1>2. /\ exact
      /\ UNCHANGED cursor
      /\ phase = "events"
      /\ phase' = "idle"
      /\ rollback_buffer' = PushBuffer(info)
  BY <1>1 DEF Finish, FinishBlock, Return
<1>3. rollback_buffer \in Seq(RollbackInfo) /\ info \in RollbackInfo
  BY <1>2 DEF TypeOK, ProcessorTyped, Processing
<1>4. Linked(rollback_buffer) /\ info.block = cursor /\ Attached(PrevOf(cursor))
  BY <1>2 DEF AlignedInv, Aligned, Processing
<1>5. Linked(rollback_buffer)' /\ Attached(cursor)'
  BY <1>2, <1>3, <1>4, PushLinked DEF Attached, LastInfo
<1>6. QED
  BY <1>2, <1>5 DEF Aligned, AtRest, Processing, RollingBack, UndoingOne

LEMMA AlignedStep ==
    ASSUME TypeOK, AlignedInv, Step
    PROVE  AlignedInv'
<1>1. UNCHANGED syncVars /\ UNCHANGED <<cursor, exact>>
  BY DEF Step, syncVars
<1>2. CASE BlockStep
  <2>1. phase \in Processing /\ phase' \in Processing /\ UNCHANGED rollback_buffer
    BY <1>2 DEF BlockStep, ProcessInput, ProcessOutput, EndTx, WriteCreatedEvent,
           WriteSpentEvent, AtOutput, NextPhase, Processing
  <2>2. info \in RollbackInfo
    BY <2>1 DEF TypeOK, ProcessorTyped
  <2>3. info'.block = info.block
    BY <1>2, <2>2 DEF BlockStep, ProcessInput, ProcessOutput, EndTx, WriteCreatedEvent,
           WriteSpentEvent, SpendUtxo, CreateUtxo, RollbackInfo
  <2>4. QED
    BY <1>1, <2>1, <2>3, AlignedProcessing
<1>3. CASE RollbackStep
  <2>1. CASE RestoreSpent \/ DeleteSpentRecords \/ DeleteEvents \/ DeleteCreated
    <3>1. /\ phase \in UndoingOne /\ phase' \in UndoingOne
          /\ UNCHANGED <<rollback_buffer, info, target_slot>>
      BY <2>1 DEF RestoreSpent, DeleteSpentRecords, DeleteEvents, DeleteCreated, UndoingOne
    <3>2. QED
      BY <1>1, <3>1, AlignedUndoing
  <2>2. QED
    BY <1>1, <1>3, <2>1, AlignedUndoBlock, AlignedBlockUndone, AlignedEndRollback
       DEF RollbackStep
<1>4. QED
  BY <1>2, <1>3 DEF Step

LEMMA AlignedNext ==
    ASSUME TypeOK, AlignedInv, [Next]_vars
    PROVE  AlignedInv'
<1>1. ASSUME NEW W \in WalletSets, Start(W) PROVE AlignedInv'
  BY <1>1, AlignedEmpty DEF Start, NewProcessor, AtRest, AlignedInv
<1>2. ASSUME NEW b \in Blocks, RollForward(b) PROVE AlignedInv'
  BY <1>2, AlignedBegin
<1>3. CASE FirstResponse
  <2>1. cursor \in PointsOf(cursor)
    BY LastOfChain DEF TypeOK, SessionTyped
  <2>2. QED
    BY <1>3, <2>1, AlignedBackward DEF FirstResponse, AtRest
<1>4. ASSUME NEW p \in Point, Rollback(p) PROVE AlignedInv'
  BY <1>4, AlignedBackward DEF Rollback, AtRest
<1>5. CASE Step
  BY <1>5, AlignedStep
<1>6. CASE Fail
  BY <1>6 DEF Fail, AlignedInv
<1>7. ASSUME NEW snap \in BOOLEAN, Finish(snap) PROVE AlignedInv'
  BY <1>7, AlignedFinish
<1>8. ASSUME NEW saved \in BOOLEAN, Shutdown(saved) PROVE AlignedInv'
  BY <1>8, AlignedEmpty DEF Shutdown, Exit, NewProcessor, AtRest, AlignedInv
<1>9. CASE Crash
  BY <1>9, AlignedEmpty DEF Crash, Exit, NewProcessor, AtRest, AlignedInv
<1>10. CASE UNCHANGED vars
  BY <1>10 DEF vars, procVars, syncVars, AlignedInv, Aligned, Linked, Attached, LastInfo,
               TreePoint, MoreToUndo, Leaves
<1>11. QED
  BY <1>1, <1>2, <1>3, <1>4, <1>5, <1>6, <1>7, <1>8, <1>9, <1>10 DEF Next, Await

\* The keys in K that pay an address of the filter F.
Tracked(F, K) == {k \in K : AddressOf(k) \in F}

\* What transaction t has spent and made before its n-th item, inputs first.
InputsUpTo(t, n) == {InputsOf[t][i] : i \in {m \in DOMAIN InputsOf[t] : m < n}}

OutputsUpTo(t, n) ==
    {<<t, i>> : i \in {m \in DOMAIN OutputsOf[t] : Len(InputsOf[t]) + m < n}}

\* The first n - 1 entries of the two lists of a RollbackBlockInfo.
CreatedKeys(x, n) == {x.utxos_created[i] : i \in {m \in DOMAIN x.utxos_created : m < n}}

SpentKeys(x, n) == {x.utxos_spent[i].key : i \in {m \in DOMAIN x.utxos_spent : m < n}}

\* The UTxO tree holds exactly K, each output with the block that made it; the
\* spend records are exactly those of K, each with a transaction of the chain
\* that spends it and the block of that transaction.
UtxosAre(p, utxos, K) ==
    /\ DOMAIN utxos = K
    /\ \A k \in K : utxos[k] \in HomesOf(p, k[1])

SpendsAre(p, spends, K) ==
    /\ DOMAIN spends = K
    /\ \A k \in K : /\ spends[k].block \in HomesOf(p, spends[k].tx)
                    /\ k \in InputKeys(spends[k].tx)

\* Both trees for the tracked part of the keys live and used.
TreesAt(p, F, utxos, spends, live, used) ==
    /\ UtxosAre(p, utxos, Tracked(F, live))
    /\ SpendsAre(p, spends, Tracked(F, used))

\* The unspent outputs of the chain of p, and the trees that mirror that chain.
LiveAt(p) == OutputsBy(TxsOn(p)) \ InputsBy(TxsOn(p))

MirrorOf(p, F, utxos, spends, hashes) ==
    /\ TreesAt(p, F, utxos, spends, LiveAt(p), InputsBy(TxsOn(p)))
    /\ hashes = BlocksOf(p)

\* The record x of a block names the tracked keys in made and used, and with
\* each spent one the block that made it.
AllCreated(x) == {x.utxos_created[i] : i \in DOMAIN x.utxos_created}

AllSpent(x) == {x.utxos_spent[i].key : i \in DOMAIN x.utxos_spent}

Records(x, F, made, used) ==
    /\ AllCreated(x) = Tracked(F, made)
    /\ AllSpent(x) = Tracked(F, used)
    /\ \A i \in DOMAIN x.utxos_spent :
         x.utxos_spent[i].data \in HomesOf(x.block, x.utxos_spent[i].key[1])

\* The record is that of its whole block.
Recorded(x, F) == Records(x, F, OutputsBy(TxsIn(x.block)), InputsBy(TxsIn(x.block)))

\* The three trees are those of the chain of p.
Mirrors(p) == MirrorOf(p, filter, utxo_tree, spent_utxo_index, block_hash_index)

\* The trees while the j-th transaction of x.block is processed, when it has
\* made and used the keys in outs and ins.
BlockTrees(x, j, outs, ins, F, utxos, spends) ==
    LET made == OutputsBy(BeforeTxs(x.block, j)) \cup outs
        used == InputsBy(BeforeTxs(x.block, j)) \cup ins IN
    /\ TreesAt(x.block, F, utxos, spends, made \ used, used)
    /\ Records(x, F, OutputsBy(FirstTxs(x.block, j)) \cup outs,
                     InputsBy(FirstTxs(x.block, j)) \cup ins)

\* The trees while the block x is undone: n - 1 of the keys it spent are
\* back, then none of its spends is left, then n - 1 of its outputs are gone.
RestoreTrees(x, n, F, utxos, spends) ==
    TreesAt(x.block, F, utxos, spends, LiveAt(x.block) \cup SpentKeys(x, n),
            InputsBy(TxsOn(x.block)))

DeleteTrees(x, n, F, utxos, spends) ==
    LET q == PrevOf(x.block) IN
    TreesAt(x.block, F, utxos, spends,
            (OutputsBy(TxsOn(x.block)) \ InputsBy(TxsOn(q))) \ CreatedKeys(x, n),
            InputsBy(TxsOn(q)))

\* What the trees are inside process_block and rollback_block.
MirrorSteps ==
    /\ phase = "tx" =>
         BlockTrees(info, txn, OutputsUpTo(this_tx, pos), InputsUpTo(this_tx, pos),
                    filter, utxo_tree, spent_utxo_index)
    /\ phase = "events" =>
         BlockTrees(info, Len(TxsOf[info.block]) + 1, {}, {}, filter, utxo_tree, spent_utxo_index)
    /\ phase = "restore" => RestoreTrees(info, pos, filter, utxo_tree, spent_utxo_index)
    /\ phase = "unevents" => DeleteTrees(info, 1, filter, utxo_tree, spent_utxo_index)
    /\ phase = "delete" => DeleteTrees(info, pos, filter, utxo_tree, spent_utxo_index)
    /\ phase \in Processing \cup UndoingOne => block_hash_index = BlocksOf(PrevOf(info.block))
    /\ phase \in UndoingOne => Recorded(info, filter)

\* What the trees and the buffered records are in each phase.
Mirror ==
    /\ phase \in AtRest => Mirrors(cursor)
    /\ phase = "undo" => Mirrors(TreePoint)
    /\ MirrorSteps
    /\ \A i \in DOMAIN rollback_buffer : Recorded(rollback_buffer[i], filter)

\* A snapshot saved by an exact session mirrors the chain it was saved at.
SnapshotMirrors(S) ==
    S.history.exact =>
        MirrorOf(S.history.at, S.history.filter, S.utxos, S.spent_utxos, S.hashes)

\* The inductive invariant behind MirrorsChain.
MirrorInv ==
    /\ exact => Mirror
    /\ \A s \in DOMAIN snapshots : SnapshotMirrors(snapshots[s])

-----------------------------------------------------------------------------
(* Sets of keys and the trees that hold them.                              *)

\* Adding and removing keys inside and outside the filter.
LEMMA TrackedOne ==
    ASSUME NEW F, NEW K, NEW k
    PROVE  /\ AddressOf(k) \in F => Tracked(F, K \cup {k}) = Tracked(F, K) \cup {k}
           /\ AddressOf(k) \notin F => Tracked(F, K \cup {k}) = Tracked(F, K)
           /\ Tracked(F, K \ {k}) = Tracked(F, K) \ {k}
BY DEF Tracked

LEMMA TrackedSets ==
    ASSUME NEW F, NEW K, NEW L
    PROVE  /\ Tracked(F, K \cup L) = Tracked(F, K) \cup Tracked(F, L)
           /\ Tracked(F, K \ L) = Tracked(F, K) \ Tracked(F, L)
           /\ Tracked(F, Tracked(F, K)) = Tracked(F, K)
           /\ Tracked(F, K) \subseteq K
           /\ Tracked(F, {}) = {}
BY DEF Tracked

\* The four writes to the two trees.
LEMMA UtxosInsert ==
    ASSUME NEW p, NEW utxos, NEW K, UtxosAre(p, utxos, K),
           NEW k, NEW h \in HomesOf(p, k[1]), NEW L, L = K \cup {k}
    PROVE  UtxosAre(p, Insert(utxos, k, h), L)
BY DEF UtxosAre, Insert

LEMMA UtxosDelete ==
    ASSUME NEW p, NEW utxos, NEW K, UtxosAre(p, utxos, K), NEW D, NEW L, L = K \ D
    PROVE  UtxosAre(p, Delete(utxos, D), L)
BY DEF UtxosAre, Delete

LEMMA SpendsInsert ==
    ASSUME NEW p, NEW spends, NEW K, SpendsAre(p, spends, K),
           NEW t, NEW k \in InputKeys(t), NEW h \in HomesOf(p, t), NEW L, L = K \cup {k}
    PROVE  SpendsAre(p, Insert(spends, k, [block |-> h, tx |-> t]), L)
<1>. DEFINE new == Insert(spends, k, [block |-> h, tx |-> t])
<1>1. DOMAIN new = K \cup {k} /\ new[k] = [block |-> h, tx |-> t]
  BY DEF SpendsAre, Insert
<1>2. \A m \in K : m # k => new[m] = spends[m]
  BY DEF SpendsAre, Insert
<1>3. ASSUME NEW m \in K \cup {k}
      PROVE  new[m].block \in HomesOf(p, new[m].tx) /\ m \in InputKeys(new[m].tx)
  <2>1. CASE m = k
    BY <1>1, <2>1
  <2>2. CASE m # k
    BY <1>2, <2>2 DEF SpendsAre
  <2>3. QED
    BY <2>1, <2>2
<1>4. QED
  BY <1>1, <1>3 DEF SpendsAre

LEMMA SpendsDelete ==
    ASSUME NEW p, NEW spends, NEW K, SpendsAre(p, spends, K), NEW D, NEW L, L = K \ D
    PROVE  SpendsAre(p, Delete(spends, D), L)
BY DEF SpendsAre, Delete

\* What mirrors a chain is as right for the chain with one more block.
LEMMA TreesUp ==
    ASSUME NEW b \in Blocks, NEW F, NEW utxos, NEW spends, NEW live, NEW used,
           TreesAt(PrevOf(b), F, utxos, spends, live, used)
    PROVE  TreesAt(b, F, utxos, spends, live, used)
BY HomesOfNext DEF TreesAt, UtxosAre, SpendsAre

\* And the other way round, if it only holds keys of the shorter chain.
LEMMA TreesDown ==
    ASSUME NEW b \in Blocks, NEW F, NEW utxos, NEW spends, NEW live, NEW used,
           TreesAt(b, F, utxos, spends, live, used),
           live \subseteq OutputsBy(TxsOn(PrevOf(b))), used \subseteq InputsBy(TxsOn(PrevOf(b)))
    PROVE  TreesAt(PrevOf(b), F, utxos, spends, live, used)
<1>. DEFINE q == PrevOf(b)
<1>1. ASSUME NEW k \in Tracked(F, live)
      PROVE  utxos[k] \in HomesOf(q, k[1])
  <2>1. k[1] \in TxsOn(q)
    BY <1>1, KeyOwner DEF Tracked
  <2>2. QED
    BY <2>1, HomesOfNext DEF TreesAt, UtxosAre
<1>2. ASSUME NEW k \in Tracked(F, used)
      PROVE  spends[k].block \in HomesOf(q, spends[k].tx)
  <2>. DEFINE h == spends[k].block
              t == spends[k].tx
  <2>1. h \in HomesOf(b, t) /\ k \in InputKeys(t)
    BY DEF TreesAt, SpendsAre
  <2>2. k \in InputsBy(TxsOn(q))
    BY DEF Tracked
  <2>3. h # b
    <3>1. SUFFICES ASSUME h = b PROVE FALSE
      OBVIOUS
    <3>2. k \in InputsBy(TxsIn(b))
      BY <2>1, <3>1 DEF HomesOf, InputsBy
    <3>3. QED
      BY <2>2, <3>2, BlockSets
  <2>4. QED
    BY <2>1, <2>3, PrevFacts DEF HomesOf
<1>3. QED
  BY <1>1, <1>2 DEF TreesAt, UtxosAre, SpendsAre

\* At the origin there is nothing, whatever the filter.
LEMMA MirrorOfOrigin ==
    ASSUME NEW F, NEW utxos, NEW spends, NEW hashes
    PROVE  MirrorOf(Origin, F, utxos, spends, hashes) <=>
               DOMAIN utxos = {} /\ DOMAIN spends = {} /\ hashes = {}
BY BlocksOfOrigin, SetsOfNone, TrackedSets DEF MirrorOf, TreesAt, UtxosAre, SpendsAre, LiveAt

-----------------------------------------------------------------------------
(* The items of a transaction, one after the other.                        *)

\* The items of a transaction: none yet, an input more, all the inputs, an
\* output more, all of them.
LEMMA Nothing ==
    ASSUME NEW t \in Txs
    PROVE  InputsUpTo(t, 1) = {} /\ OutputsUpTo(t, 1) = {}
<1>1. InputsOf[t] \in Seq(Key) /\ OutputsOf[t] \in Seq(Output)
  BY ChainTypes
<1>2. /\ DOMAIN InputsOf[t] = 1 .. Len(InputsOf[t])
      /\ DOMAIN OutputsOf[t] = 1 .. Len(OutputsOf[t])
      /\ Len(InputsOf[t]) \in Nat
  BY <1>1, LenProperties
<1>3. QED
  BY <1>2 DEF InputsUpTo, OutputsUpTo

LEMMA OneInput ==
    ASSUME NEW t \in Txs, NEW n \in Nat \ {0}, n <= Len(InputsOf[t])
    PROVE  /\ InputsUpTo(t, n + 1) = InputsUpTo(t, n) \cup {InputsOf[t][n]}
           /\ OutputsUpTo(t, n) = {} /\ OutputsUpTo(t, n + 1) = {}
           /\ InputsOf[t][n] \in InputKeys(t) /\ InputsOf[t][n] \in Key
           /\ InputsUpTo(t, n) \subseteq InputKeys(t)
<1>1. InputsOf[t] \in Seq(Key) /\ OutputsOf[t] \in Seq(Output)
  BY ChainTypes
<1>2. /\ DOMAIN InputsOf[t] = 1 .. Len(InputsOf[t])
      /\ DOMAIN OutputsOf[t] = 1 .. Len(OutputsOf[t])
      /\ Len(InputsOf[t]) \in Nat /\ Len(OutputsOf[t]) \in Nat
  BY <1>1, LenProperties
<1>3. n \in DOMAIN InputsOf[t]
  BY <1>2
<1>4. InputsOf[t][n] \in Key /\ InputsOf[t][n] \in InputKeys(t)
  BY <1>1, <1>3, ElementOfSeq DEF InputKeys
<1>5. {m \in DOMAIN InputsOf[t] : m < n + 1} = {m \in DOMAIN InputsOf[t] : m < n} \cup {n}
  BY <1>2, <1>3
<1>6. InputsUpTo(t, n + 1) = InputsUpTo(t, n) \cup {InputsOf[t][n]}
  BY <1>5 DEF InputsUpTo
<1>7. \A m \in DOMAIN OutputsOf[t] : ~(Len(InputsOf[t]) + m < n) /\ ~(Len(InputsOf[t]) + m < n + 1)
  BY <1>2
<1>8. QED
  BY <1>4, <1>6, <1>7 DEF OutputsUpTo, InputsUpTo, InputKeys

LEMMA AllInputs ==
    ASSUME NEW t \in Txs, NEW n \in Nat, n > Len(InputsOf[t])
    PROVE  InputsUpTo(t, n) = InputKeys(t)
<1>1. InputsOf[t] \in Seq(Key)
  BY ChainTypes
<1>2. DOMAIN InputsOf[t] = 1 .. Len(InputsOf[t]) /\ Len(InputsOf[t]) \in Nat
  BY <1>1, LenProperties
<1>3. {m \in DOMAIN InputsOf[t] : m < n} = DOMAIN InputsOf[t]
  BY <1>2
<1>4. QED
  BY <1>3 DEF InputsUpTo, InputKeys

LEMMA OneOutput ==
    ASSUME NEW t \in Txs, NEW n \in Nat, n > Len(InputsOf[t]),
           n <= Len(InputsOf[t]) + Len(OutputsOf[t])
    PROVE  LET k == <<t, n - Len(InputsOf[t])>> IN
           /\ OutputsUpTo(t, n + 1) = OutputsUpTo(t, n) \cup {k}
           /\ k \in OutputKeys(t)
           /\ InputsUpTo(t, n + 1) = InputsUpTo(t, n)
           /\ OutputsUpTo(t, n) \subseteq OutputKeys(t)
<1>. DEFINE i == n - Len(InputsOf[t])
<1>1. InputsOf[t] \in Seq(Key) /\ OutputsOf[t] \in Seq(Output)
  BY ChainTypes
<1>2. /\ DOMAIN OutputsOf[t] = 1 .. Len(OutputsOf[t])
      /\ Len(InputsOf[t]) \in Nat /\ Len(OutputsOf[t]) \in Nat
  BY <1>1, LenProperties
<1>3. i \in DOMAIN OutputsOf[t]
  BY <1>2, Offset
<1>4. ASSUME NEW l \in Nat, NEW c \in Nat, NEW m \in Nat
      PROVE  l + m < c + 1 <=> (l + m < c \/ m = c - l)
  OBVIOUS
<1>5. {m \in DOMAIN OutputsOf[t] : Len(InputsOf[t]) + m < n + 1} =
          {m \in DOMAIN OutputsOf[t] : Len(InputsOf[t]) + m < n} \cup {i}
  BY <1>2, <1>3, <1>4
<1>6. n + 1 \in Nat /\ n + 1 > Len(InputsOf[t])
  BY <1>2
<1>7. InputsUpTo(t, n + 1) = InputsUpTo(t, n)
  BY <1>6, AllInputs
<1>8. QED
  BY <1>3, <1>5, <1>7 DEF OutputsUpTo, OutputKeys

LEMMA AllOutputs ==
    ASSUME NEW t \in Txs, NEW n \in Nat, n > Len(InputsOf[t]) + Len(OutputsOf[t])
    PROVE  OutputsUpTo(t, n) = OutputKeys(t) /\ InputsUpTo(t, n) = InputKeys(t)
<1>1. InputsOf[t] \in Seq(Key) /\ OutputsOf[t] \in Seq(Output)
  BY ChainTypes
<1>2. /\ DOMAIN OutputsOf[t] = 1 .. Len(OutputsOf[t])
      /\ Len(InputsOf[t]) \in Nat /\ Len(OutputsOf[t]) \in Nat
  BY <1>1, LenProperties
<1>3. ASSUME NEW i \in Nat, NEW o \in Nat, n > i + o
      PROVE  n > i /\ \A m \in 1 .. o : i + m < n
  BY <1>3
<1>4. n > Len(InputsOf[t]) /\ \A m \in 1 .. Len(OutputsOf[t]) : Len(InputsOf[t]) + m < n
  BY <1>2, <1>3
<1>5. {m \in DOMAIN OutputsOf[t] : Len(InputsOf[t]) + m < n} = DOMAIN OutputsOf[t]
  BY <1>2, <1>4
<1>6. QED
  BY <1>4, <1>5, AllInputs DEF OutputsUpTo, OutputKeys

-----------------------------------------------------------------------------
(* The record of a block.                                                  *)

\* An input of a tracked address, an output to one, and an item of neither.
LEMMA RecordSpent ==
    ASSUME NEW x \in RollbackInfo, NEW F, NEW made, NEW used, Records(x, F, made, used),
           NEW k \in Key, AddressOf(k) \in F, NEW d \in HomesOf(x.block, k[1]), NEW t
    PROVE  Records([x EXCEPT !.utxos_spent = Append(@, [key |-> k, data |-> d, tx |-> t])],
                   F, made, used \cup {k})
<1>. DEFINE e == [key |-> k, data |-> d, tx |-> t]
            s == x.utxos_spent
            y == [x EXCEPT !.utxos_spent = Append(@, e)]
            n == Len(s)
<1>1. s \in Seq(SpentInfo)
  BY DEF RollbackInfo
<1>2. /\ n \in Nat
      /\ DOMAIN s = 1 .. n
      /\ DOMAIN Append(s, e) = 1 .. n + 1
      /\ \A i \in 1 .. n : Append(s, e)[i] = s[i]
      /\ Append(s, e)[n + 1] = e
  BY <1>1
<1>3. /\ y.utxos_spent = Append(s, e)
      /\ y.utxos_created = x.utxos_created
      /\ y.block = x.block
  BY DEF RollbackInfo
<1>4. 1 .. n + 1 = (1 .. n) \cup {n + 1}
  BY <1>2
<1>5. AllSpent(y) = AllSpent(x) \cup {k}
  <2>1. {Append(s, e)[i].key : i \in 1 .. n + 1} =
            {Append(s, e)[i].key : i \in 1 .. n} \cup {Append(s, e)[n + 1].key}
    BY <1>4
  <2>2. {Append(s, e)[i].key : i \in 1 .. n} = {s[i].key : i \in 1 .. n}
    BY <1>2
  <2>3. QED
    BY <1>2, <1>3, <2>1, <2>2 DEF AllSpent
<1>6. ASSUME NEW i \in 1 .. n + 1
      PROVE  Append(s, e)[i].data \in HomesOf(x.block, Append(s, e)[i].key[1])
  <2>1. CASE i = n + 1
    BY <1>2, <2>1
  <2>2. CASE i \in 1 .. n
    BY <1>2, <2>2 DEF Records
  <2>3. QED
    BY <1>4, <2>1, <2>2
<1>7. AllSpent(y) = Tracked(F, used \cup {k})
  BY <1>5 DEF Records, Tracked
<1>8. AllCreated(y) = Tracked(F, made)
  BY <1>3 DEF Records, AllCreated
<1>9. QED
  BY <1>2, <1>3, <1>6, <1>7, <1>8 DEF Records

LEMMA RecordCreated ==
    ASSUME NEW x \in RollbackInfo, NEW F, NEW made, NEW used, Records(x, F, made, used),
           NEW k \in Key, AddressOf(k) \in F
    PROVE  Records([x EXCEPT !.utxos_created = Append(@, k)], F, made \cup {k}, used)
<1>. DEFINE s == x.utxos_created
            y == [x EXCEPT !.utxos_created = Append(@, k)]
            n == Len(s)
<1>1. s \in Seq(Key)
  BY DEF RollbackInfo
<1>2. /\ n \in Nat
      /\ DOMAIN s = 1 .. n
      /\ DOMAIN Append(s, k) = 1 .. n + 1
      /\ \A i \in 1 .. n : Append(s, k)[i] = s[i]
      /\ Append(s, k)[n + 1] = k
  BY <1>1
<1>3. /\ y.utxos_created = Append(s, k)
      /\ y.utxos_spent = x.utxos_spent
      /\ y.block = x.block
  BY DEF RollbackInfo
<1>4. 1 .. n + 1 = (1 .. n) \cup {n + 1}
  BY <1>2
<1>5. AllCreated(y) = AllCreated(x) \cup {k}
  <2>1. {Append(s, k)[i] : i \in 1 .. n + 1} =
            {Append(s, k)[i] : i \in 1 .. n} \cup {Append(s, k)[n + 1]}
    BY <1>4
  <2>2. {Append(s, k)[i] : i \in 1 .. n} = {s[i] : i \in 1 .. n}
    BY <1>2
  <2>3. QED
    BY <1>2, <1>3, <2>1, <2>2 DEF AllCreated
<1>6. AllCreated(y) = Tracked(F, made \cup {k})
  BY <1>5 DEF Records, Tracked
<1>7. AllSpent(y) = Tracked(F, used)
  BY <1>3 DEF Records, AllSpent
<1>8. QED
  BY <1>3, <1>6, <1>7 DEF Records

LEMMA RecordSkip ==
    ASSUME NEW x, NEW F, NEW made, NEW used, Records(x, F, made, used),
           NEW k, AddressOf(k) \notin F
    PROVE  Records(x, F, made \cup {k}, used) /\ Records(x, F, made, used \cup {k})
<1>1. Tracked(F, made \cup {k}) = Tracked(F, made) /\ Tracked(F, used \cup {k}) = Tracked(F, used)
  BY DEF Tracked
<1>2. QED
  BY <1>1 DEF Records

\* Types of what process_transaction works on.
LEMMA TxInBlock ==
    ASSUME TypeOK, phase = "tx"
    PROVE  /\ info \in RollbackInfo
           /\ info.block \in Blocks
           /\ txn \in DOMAIN TxsOf[info.block]
           /\ txn \in 1 .. Len(TxsOf[info.block]) + 1
           /\ txn + 1 \in 1 .. Len(TxsOf[info.block]) + 1
           /\ this_tx \in Txs
           /\ this_tx \in TxsIn(info.block)
           /\ pos \in Nat \ {0}
<1>1. info \in RollbackInfo /\ info.block \in Blocks
  BY InfoItems DEF TypeOK, ProcessorTyped, Processing
<1>2. txn \in DOMAIN TxsOf[info.block] /\ pos \in Nat \ {0}
  BY DEF TypeOK, ProcessorTyped
<1>3. Len(TxsOf[info.block]) \in Nat /\ DOMAIN TxsOf[info.block] = 1 .. Len(TxsOf[info.block])
  BY <1>1, TxFacts
<1>4. this_tx \in TxsIn(info.block) /\ this_tx \in Txs
  BY <1>1, <1>2, TxFacts DEF TxsIn, this_tx
<1>5. QED
  BY <1>1, <1>2, <1>3, <1>4

\* One input: the key of a tracked address is in the UTxO tree, since what is
\* spent was made before and the ledger spends it once.
LEMMA MirrorInput ==
    ASSUME TypeOK, Mirror, ProcessInput
    PROVE  /\ BlockTrees(info', txn', OutputsUpTo(this_tx', pos'), InputsUpTo(this_tx', pos'),
                         filter', utxo_tree', spent_utxo_index')
           /\ info'.block = info.block
           /\ LET k == InputsOf[this_tx][pos] IN
              /\ AddressOf(k) \in filter => k \in DOMAIN utxo_tree
              /\ k \notin AllSpent(info)
<1>. DEFINE b     == info.block
            t     == this_tx
            k     == InputsOf[t][pos]
            made  == OutputsBy(BeforeTxs(b, txn))
            used  == InputsBy(BeforeTxs(b, txn))
            first == OutputsBy(FirstTxs(b, txn))
            spent == InputsBy(FirstTxs(b, txn))
            ins   == InputsUpTo(t, pos)
            e     == [key |-> k, data |-> utxo_tree[k], tx |-> t]
            live  == Tracked(filter, made \ (used \cup ins))
            gone  == Tracked(filter, used \cup ins)
            live1 == Tracked(filter, made \ (used \cup (ins \cup {k})))
            gone1 == Tracked(filter, used \cup (ins \cup {k}))
<1>1. /\ phase = "tx"
      /\ info \in RollbackInfo
      /\ b \in Blocks
      /\ txn \in DOMAIN TxsOf[b]
      /\ t \in Txs
      /\ t \in TxsIn(b)
      /\ t = TxsOf[b][txn]
      /\ pos \in Nat \ {0}
      /\ pos <= Len(InputsOf[t])
  BY TxInBlock DEF ProcessInput, this_tx
<1>2. /\ InputsUpTo(t, pos + 1) = ins \cup {k}
      /\ OutputsUpTo(t, pos) = {}
      /\ OutputsUpTo(t, pos + 1) = {}
      /\ k \in InputKeys(t)
      /\ k \in Key
  BY <1>1, OneInput
<1>3. k \in made /\ k \notin used /\ k \notin ins
  <2>1. k \in made \ used
    BY <1>1, <1>2, InputsBefore
  <2>2. k \notin ins
    <3>1. SUFFICES ASSUME NEW m \in DOMAIN InputsOf[t], m < pos, InputsOf[t][m] = k PROVE FALSE
      BY DEF InputsUpTo
    <3>2. InputsOf[t] \in Seq(Key)
      BY <1>1, ChainTypes
    <3>3. pos \in DOMAIN InputsOf[t]
      BY <1>1, <3>2
    <3>4. m = pos
      BY <1>1, <3>1, <3>3, LedgerRules
    <3>5. QED
      BY <1>1, <3>1, <3>4
  <2>3. QED
    BY <2>1, <2>2
<1>4. UNCHANGED <<filter, txn>> /\ pos' = pos + 1
  BY DEF ProcessInput
<1>5. /\ UtxosAre(b, utxo_tree, live)
      /\ SpendsAre(b, spent_utxo_index, gone)
      /\ Records(info, filter, first, spent \cup ins)
  <2>1. BlockTrees(info, txn, OutputsUpTo(t, pos), ins, filter, utxo_tree, spent_utxo_index)
    BY <1>1 DEF Mirror, MirrorSteps
  <2>2. made \cup {} = made /\ first \cup {} = first
    OBVIOUS
  <2>3. BlockTrees(info, txn, {}, ins, filter, utxo_tree, spent_utxo_index)
    BY <1>2, <2>1
  <2>4. QED
    BY <2>2, <2>3, Zenon DEF BlockTrees, TreesAt
<1>6. /\ info'.block = b
      /\ UtxosAre(b, utxo_tree', live1)
      /\ SpendsAre(b, spent_utxo_index', gone1)
      /\ Records(info', filter, first, spent \cup (ins \cup {k}))
  <2>0. (spent \cup ins) \cup {k} = spent \cup (ins \cup {k})
    OBVIOUS
  <2>1. CASE AddressOf(k) \in filter
    <3>1. k \in live
      BY <1>3, <2>1 DEF Tracked
    <3>2. k \in DOMAIN utxo_tree /\ utxo_tree[k] \in HomesOf(b, k[1])
      BY <1>5, <3>1 DEF UtxosAre
    <3>3. /\ utxo_tree' = Delete(utxo_tree, {k})
          /\ spent_utxo_index' = Insert(spent_utxo_index, k, [block |-> b, tx |-> t])
          /\ info' = [info EXCEPT !.utxos_spent = Append(@, e)]
      BY <3>2 DEF ProcessInput, SpendUtxo
    <3>4. live1 = live \ {k} /\ gone1 = gone \cup {k}
      BY <2>1 DEF Tracked
    <3>5. b \in HomesOf(b, t)
      BY <1>1, HomesOfNext
    <3>6. Records(info', filter, first, (spent \cup ins) \cup {k})
      BY <1>1, <1>2, <1>5, <2>1, <3>2, <3>3, RecordSpent
    <3>7. info'.block = b
      BY <1>1, <3>3 DEF RollbackInfo
    <3>. HIDE DEF live, gone, live1, gone1
    <3>8. UtxosAre(b, utxo_tree', live1)
      BY <1>5, <3>3, <3>4, UtxosDelete
    <3>9. SpendsAre(b, spent_utxo_index', gone1)
      BY <1>2, <1>5, <3>3, <3>4, <3>5, SpendsInsert
    <3>10. QED
      BY <2>0, <3>6, <3>7, <3>8, <3>9
  <2>2. CASE AddressOf(k) \notin filter
    <3>1. k \notin DOMAIN utxo_tree
      BY <1>5, <2>2 DEF UtxosAre, Tracked
    <3>2. UNCHANGED <<utxo_tree, spent_utxo_index, info>>
      BY <3>1 DEF ProcessInput, SpendUtxo
    <3>3. live1 = live /\ gone1 = gone
      BY <2>2 DEF Tracked
    <3>4. Records(info, filter, first, (spent \cup ins) \cup {k})
      BY <1>5, <2>2, RecordSkip
    <3>. HIDE DEF live, gone, live1, gone1
    <3>5. QED
      BY <1>5, <2>0, <3>2, <3>3, <3>4
  <2>3. QED
    BY <2>1, <2>2
<1>7. this_tx' = t
  BY <1>4, <1>6 DEF this_tx
<1>8. BlockTrees(info', txn, {}, ins \cup {k}, filter, utxo_tree', spent_utxo_index')
  <2>1. made \cup {} = made /\ first \cup {} = first
    OBVIOUS
  <2>2. QED
    BY <1>6, <2>1, Zenon DEF BlockTrees, TreesAt
<1>9. OutputsUpTo(this_tx', pos') = {} /\ InputsUpTo(this_tx', pos') = ins \cup {k}
  BY <1>2, <1>4, <1>7
<1>10. AddressOf(k) \in filter => k \in DOMAIN utxo_tree
  BY <1>3, <1>5 DEF UtxosAre, Tracked
<1>11. k \notin AllSpent(info)
  <2>1. FirstTxs(b, txn) \subseteq BeforeTxs(b, txn)
    BY DEF BeforeTxs
  <2>2. spent \subseteq used
    BY <2>1 DEF InputsBy
  <2>3. AllSpent(info) \subseteq spent \cup ins
    BY <1>5 DEF Records, Tracked
  <2>4. QED
    BY <1>3, <2>2, <2>3
<1>12. QED
  BY <1>4, <1>6, <1>8, <1>9, <1>10, <1>11, Zenon

\* One output, a new key.
LEMMA MirrorOutput ==
    ASSUME TypeOK, Mirror, ProcessOutput
    PROVE  /\ BlockTrees(info', txn', OutputsUpTo(this_tx', pos'), InputsUpTo(this_tx', pos'),
                         filter', utxo_tree', spent_utxo_index')
           /\ info'.block = info.block
           /\ output \notin DOMAIN utxo_tree
<1>. DEFINE b     == info.block
            t     == this_tx
            k     == output
            made  == OutputsBy(BeforeTxs(b, txn))
            used  == InputsBy(BeforeTxs(b, txn))
            first == OutputsBy(FirstTxs(b, txn))
            spent == InputsBy(FirstTxs(b, txn))
            outs  == OutputsUpTo(t, pos)
            ins   == InputsUpTo(t, pos)
            live  == Tracked(filter, (made \cup outs) \ (used \cup ins))
            live1 == Tracked(filter, (made \cup (outs \cup {k})) \ (used \cup ins))
            gone  == Tracked(filter, used \cup ins)
<1>1. /\ phase = "tx"
      /\ info \in RollbackInfo
      /\ b \in Blocks
      /\ txn \in DOMAIN TxsOf[b]
      /\ t \in Txs
      /\ t \in TxsIn(b)
      /\ t = TxsOf[b][txn]
      /\ pos \in Nat
      /\ pos > Len(InputsOf[t])
      /\ pos <= Len(InputsOf[t]) + Len(OutputsOf[t])
  BY TxInBlock DEF ProcessOutput, AtOutput, this_tx
<1>2. /\ OutputsUpTo(t, pos + 1) = outs \cup {k}
      /\ InputsUpTo(t, pos + 1) = ins
      /\ k \in OutputKeys(t)
      /\ k \in Key
      /\ k[1] = t
      /\ ins = InputKeys(t)
  <2>1. k = <<t, pos - Len(InputsOf[t])>>
    BY DEF output
  <2>2. /\ OutputsUpTo(t, pos + 1) = outs \cup {k}
        /\ InputsUpTo(t, pos + 1) = ins
        /\ k \in OutputKeys(t)
    BY <1>1, <2>1, OneOutput
  <2>3. ins = InputKeys(t)
    BY <1>1, AllInputs
  <2>4. QED
    BY <1>1, <2>1, <2>2, <2>3 DEF Key
<1>3. k \notin used \cup ins
  <2>1. InputKeys(t) \subseteq made /\ OutputKeys(t) \cap made = {} /\ used \subseteq made
    BY <1>1, TxSets
  <2>2. QED
    BY <1>2, <2>1
<1>4. UNCHANGED <<filter, txn, spent_utxo_index>> /\ pos' = pos + 1
  BY DEF ProcessOutput
<1>5. /\ UtxosAre(b, utxo_tree, live)
      /\ SpendsAre(b, spent_utxo_index, gone)
      /\ Records(info, filter, first \cup outs, spent \cup ins)
  <2>1. BlockTrees(info, txn, outs, ins, filter, utxo_tree, spent_utxo_index)
    BY <1>1 DEF Mirror, MirrorSteps
  <2>2. QED
    BY <2>1, Zenon DEF BlockTrees, TreesAt
<1>6. /\ info'.block = b
      /\ UtxosAre(b, utxo_tree', live1)
      /\ Records(info', filter, first \cup (outs \cup {k}), spent \cup ins)
  <2>0. (first \cup outs) \cup {k} = first \cup (outs \cup {k})
    OBVIOUS
  <2>1. CASE AddressOf(k) \in filter
    <3>1. /\ utxo_tree' = Insert(utxo_tree, k, b)
          /\ info' = [info EXCEPT !.utxos_created = Append(@, k)]
      BY <2>1 DEF ProcessOutput, CreateUtxo, is_our_address
    <3>2. b \in HomesOf(b, k[1])
      BY <1>1, <1>2, HomesOfNext
    <3>3. live1 = live \cup {k}
      BY <1>3, <2>1 DEF Tracked
    <3>4. Records(info', filter, (first \cup outs) \cup {k}, spent \cup ins)
      BY <1>1, <1>2, <1>5, <2>1, <3>1, RecordCreated
    <3>5. info'.block = b
      BY <1>1, <3>1 DEF RollbackInfo
    <3>. HIDE DEF live, live1
    <3>6. UtxosAre(b, utxo_tree', live1)
      BY <1>5, <3>1, <3>2, <3>3, UtxosInsert
    <3>7. QED
      BY <2>0, <3>4, <3>5, <3>6
  <2>2. CASE AddressOf(k) \notin filter
    <3>1. UNCHANGED <<utxo_tree, info>>
      BY <2>2 DEF ProcessOutput, is_our_address
    <3>2. live1 = live
      BY <2>2 DEF Tracked
    <3>3. Records(info, filter, (first \cup outs) \cup {k}, spent \cup ins)
      BY <1>5, <2>2, RecordSkip
    <3>. HIDE DEF live, live1
    <3>4. QED
      BY <1>5, <2>0, <3>1, <3>2, <3>3
  <2>3. QED
    BY <2>1, <2>2
<1>7. this_tx' = t
  BY <1>4, <1>6 DEF this_tx
<1>8. BlockTrees(info', txn, outs \cup {k}, ins, filter, utxo_tree', spent_utxo_index')
  BY <1>4, <1>5, <1>6, Zenon DEF BlockTrees, TreesAt
<1>9. OutputsUpTo(this_tx', pos') = outs \cup {k} /\ InputsUpTo(this_tx', pos') = ins
  BY <1>2, <1>4, <1>7
<1>10. k \notin DOMAIN utxo_tree
  <2>1. OutputKeys(t) \cap made = {}
    BY <1>1, TxSets
  <2>2. \A m \in DOMAIN OutputsOf[t] : Len(InputsOf[t]) + m < pos => <<t, m>> # k
    <3>1. k = <<t, pos - Len(InputsOf[t])>>
      BY DEF output
    <3>2. Len(InputsOf[t]) \in Nat /\ DOMAIN OutputsOf[t] \subseteq Nat
      BY <1>1, ChainTypes
    <3>3. QED
      BY <1>1, <3>1, <3>2
  <2>3. k \notin outs
    BY <2>2 DEF OutputsUpTo
  <2>4. DOMAIN utxo_tree \subseteq made \cup outs
    BY <1>5 DEF UtxosAre, Tracked
  <2>5. QED
    BY <1>2, <2>1, <2>3, <2>4
<1>11. QED
  BY <1>4, <1>6, <1>8, <1>9, <1>10, Zenon

\* A transaction that is through belongs to the ones before.
LEMMA NextTx ==
    ASSUME NEW x \in RollbackInfo, NEW j \in DOMAIN TxsOf[x.block],
           NEW F, NEW utxos, NEW spends,
           BlockTrees(x, j, OutputKeys(TxsOf[x.block][j]), InputKeys(TxsOf[x.block][j]),
                      F, utxos, spends)
    PROVE  BlockTrees(x, j + 1, {}, {}, F, utxos, spends)
<1>. DEFINE b == x.block
            t == TxsOf[b][j]
<1>1. b \in Blocks
  BY InfoItems
<1>2. /\ BeforeTxs(b, j + 1) = BeforeTxs(b, j) \cup {t}
      /\ FirstTxs(b, j + 1) = FirstTxs(b, j) \cup {t}
  <2>1. j \in 1 .. Len(TxsOf[b]) + 1
    BY <1>1, TxFacts
  <2>2. QED
    BY <1>1, <2>1, BeforeInBlock
<1>3. /\ OutputsBy(BeforeTxs(b, j + 1)) \cup {} = OutputsBy(BeforeTxs(b, j)) \cup OutputKeys(t)
      /\ InputsBy(BeforeTxs(b, j + 1)) \cup {} = InputsBy(BeforeTxs(b, j)) \cup InputKeys(t)
      /\ OutputsBy(FirstTxs(b, j + 1)) \cup {} = OutputsBy(FirstTxs(b, j)) \cup OutputKeys(t)
      /\ InputsBy(FirstTxs(b, j + 1)) \cup {} = InputsBy(FirstTxs(b, j)) \cup InputKeys(t)
  BY <1>2 DEF OutputsBy, InputsBy
<1>4. QED
  BY <1>3, Zenon DEF BlockTrees

\* The end of a transaction, and after the last one the start of the events.
LEMMA MirrorEndTx ==
    ASSUME TypeOK, Mirror, EndTx
    PROVE  /\ info' = info
           /\ phase' = "tx" =>
                 BlockTrees(info', txn', OutputsUpTo(this_tx', pos'), InputsUpTo(this_tx', pos'),
                            filter', utxo_tree', spent_utxo_index')
           /\ phase' = "events" =>
                 BlockTrees(info', Len(TxsOf[info'.block]) + 1, {}, {},
                            filter', utxo_tree', spent_utxo_index')
<1>. DEFINE b == info.block
            t == this_tx
<1>1. /\ phase = "tx"
      /\ info \in RollbackInfo
      /\ b \in Blocks
      /\ txn \in DOMAIN TxsOf[b]
      /\ t \in Txs
      /\ t = TxsOf[b][txn]
      /\ pos \in Nat
      /\ pos > Len(InputsOf[t]) + Len(OutputsOf[t])
  BY TxInBlock DEF EndTx, this_tx
<1>2. /\ UNCHANGED <<filter, utxo_tree, spent_utxo_index, info>>
      /\ pos' = 1
      /\ txn' = txn + 1
      /\ phase' = NextPhase(b, txn + 1)
  BY DEF EndTx
<1>3. OutputsUpTo(t, pos) = OutputKeys(t) /\ InputsUpTo(t, pos) = InputKeys(t)
  BY <1>1, AllOutputs
<1>4. BlockTrees(info, txn, OutputKeys(t), InputKeys(t), filter, utxo_tree, spent_utxo_index)
  BY <1>1, <1>3 DEF Mirror, MirrorSteps
<1>5. BlockTrees(info, txn + 1, {}, {}, filter, utxo_tree, spent_utxo_index)
  BY <1>1, <1>4, NextTx
<1>6. Len(TxsOf[b]) \in Nat /\ DOMAIN TxsOf[b] = 1 .. Len(TxsOf[b])
  BY <1>1, TxFacts
<1>7. ASSUME phase' = "tx"
      PROVE  OutputsUpTo(this_tx', pos') = {} /\ InputsUpTo(this_tx', pos') = {}
  <2>1. txn + 1 \in DOMAIN TxsOf[b]
    BY <1>1, <1>2, <1>6, <1>7 DEF NextPhase
  <2>2. this_tx' \in Txs
    BY <1>1, <1>2, <2>1, TxFacts DEF this_tx, TxsIn
  <2>3. QED
    BY <1>2, <2>2, Nothing
<1>8. ASSUME phase' = "events" PROVE txn + 1 = Len(TxsOf[b]) + 1
  BY <1>1, <1>2, <1>6, <1>8 DEF NextPhase
<1>9. QED
  BY <1>2, <1>5, <1>7, <1>8

\* A block begins where the last one ended.
LEMMA MirrorBegin ==
    ASSUME TypeOK, Mirror, NEW b \in Blocks, PrevOf(b) = cursor, BeginBlock(b)
    PROVE  Mirror'
<1>1. /\ phase = "idle"
      /\ phase' = NextPhase(b, 1)
      /\ info' = [block |-> b, utxos_created |-> <<>>, utxos_spent |-> <<>>]
      /\ txn' = 1
      /\ pos' = 1
      /\ UNCHANGED <<filter, rollback_buffer, utxo_tree, spent_utxo_index, block_hash_index>>
  BY DEF BeginBlock, trees
<1>2. MirrorOf(cursor, filter, utxo_tree, spent_utxo_index, block_hash_index)
  BY <1>1 DEF Mirror, Mirrors, AtRest
<1>. DEFINE made == OutputsBy(BeforeTxs(b, 1)) \cup {}
            used == InputsBy(BeforeTxs(b, 1)) \cup {}
<1>3. BeforeTxs(b, 1) = TxsOn(cursor) /\ FirstTxs(b, 1) = {}
  BY TxFacts
<1>4. LiveAt(cursor) = made \ used /\ InputsBy(TxsOn(cursor)) = used
  BY <1>3 DEF LiveAt
<1>5. TreesAt(b, filter, utxo_tree, spent_utxo_index, made \ used, used)
  <2>1. TreesAt(b, filter, utxo_tree, spent_utxo_index, LiveAt(cursor), InputsBy(TxsOn(cursor)))
    BY <1>2, TreesUp DEF MirrorOf
  <2>2. QED
    BY <1>4, <2>1, Zenon
<1>6. Records(info', filter, OutputsBy(FirstTxs(b, 1)) \cup {}, InputsBy(FirstTxs(b, 1)) \cup {})
  <2>1. OutputsBy(FirstTxs(b, 1)) \cup {} = {} /\ InputsBy(FirstTxs(b, 1)) \cup {} = {}
    BY <1>3, SetsOfNone
  <2>2. AllCreated(info') = {} /\ AllSpent(info') = {} /\ info'.utxos_spent = <<>>
    BY <1>1 DEF AllCreated, AllSpent
  <2>3. Tracked(filter, {}) = {}
    BY DEF Tracked
  <2>4. Records(info', filter, {}, {})
    BY <2>2, <2>3 DEF Records
  <2>5. QED
    BY <2>1, <2>4
<1>7. BlockTrees(info', 1, {}, {}, filter', utxo_tree', spent_utxo_index')
  <2>1. info'.block = b
    BY <1>1
  <2>2. QED
    BY <1>1, <1>5, <1>6, <2>1, Zenon DEF BlockTrees
<1>8. Len(TxsOf[b]) \in Nat /\ DOMAIN TxsOf[b] = 1 .. Len(TxsOf[b])
  BY TxFacts
<1>9. ASSUME phase' = "tx"
      PROVE  OutputsUpTo(this_tx', pos') = {} /\ InputsUpTo(this_tx', pos') = {}
  <2>1. 1 \in DOMAIN TxsOf[b]
    BY <1>1, <1>8, <1>9 DEF NextPhase
  <2>2. this_tx' \in Txs
    BY <1>1, <2>1, TxFacts DEF this_tx, TxsIn
  <2>3. QED
    BY <1>1, <2>2, Nothing
<1>10. ASSUME phase' = "events" PROVE Len(TxsOf[info'.block]) + 1 = 1
  BY <1>1, <1>8, <1>10 DEF NextPhase
<1>11. block_hash_index' = BlocksOf(PrevOf(info'.block))
  BY <1>1, <1>2 DEF MirrorOf
<1>12. phase' \in Processing
  BY <1>1 DEF NextPhase, Processing
<1>13. MirrorSteps'
  BY <1>1, <1>7, <1>9, <1>10, <1>11, <1>12 DEF MirrorSteps, Processing, UndoingOne
<1>14. \A i \in DOMAIN rollback_buffer' : Recorded(rollback_buffer'[i], filter')
  BY <1>1 DEF Mirror
<1>15. QED
  BY <1>12, <1>13, <1>14 DEF Mirror, Processing, AtRest

\* Every step of process_block.
LEMMA MirrorBlockStep ==
    ASSUME TypeOK, Mirror, BlockStep
    PROVE  Mirror'
<1>1. /\ phase \in Processing
      /\ phase' \in Processing
      /\ UNCHANGED <<filter, rollback_buffer, block_hash_index>>
  BY DEF BlockStep, ProcessInput, ProcessOutput, EndTx, WriteCreatedEvent,
         WriteSpentEvent, AtOutput, NextPhase, Processing
<1>2. SUFFICES /\ info'.block = info.block
               /\ phase' = "tx" =>
                     BlockTrees(info', txn', OutputsUpTo(this_tx', pos'),
                                InputsUpTo(this_tx', pos'), filter', utxo_tree',
                                spent_utxo_index')
               /\ phase' = "events" =>
                     BlockTrees(info', Len(TxsOf[info'.block]) + 1, {}, {},
                                filter', utxo_tree', spent_utxo_index')
  <2>1. block_hash_index' = BlocksOf(PrevOf(info'.block))
    BY <1>1, <1>2 DEF Mirror, MirrorSteps
  <2>2. MirrorSteps'
    BY <1>1, <1>2, <2>1 DEF MirrorSteps, Processing, UndoingOne
  <2>3. QED
    BY <1>1, <2>2 DEF Mirror, Processing, AtRest
<1>3. CASE ProcessInput
  <2>1. phase' = "tx"
    BY <1>3 DEF ProcessInput
  <2>2. QED
    BY <1>3, <2>1, MirrorInput
<1>4. CASE ProcessOutput
  <2>1. phase' = "tx"
    BY <1>4 DEF ProcessOutput, AtOutput
  <2>2. QED
    BY <1>4, <2>1, MirrorOutput
<1>5. CASE EndTx
  BY <1>5, MirrorEndTx
<1>6. CASE WriteCreatedEvent \/ WriteSpentEvent
  <2>1. /\ phase = "events" /\ phase' = "events"
        /\ UNCHANGED <<info, utxo_tree, spent_utxo_index>>
    BY <1>6 DEF WriteCreatedEvent, WriteSpentEvent
  <2>2. QED
    BY <1>1, <2>1 DEF Mirror, MirrorSteps
<1>7. QED
  BY <1>3, <1>4, <1>5, <1>6 DEF BlockStep

\* What the trees are when the whole block has been written.
LEMMA WholeBlock ==
    ASSUME NEW x \in RollbackInfo, NEW F, NEW utxos, NEW spends,
           BlockTrees(x, Len(TxsOf[x.block]) + 1, {}, {}, F, utxos, spends)
    PROVE  /\ TreesAt(x.block, F, utxos, spends, LiveAt(x.block), InputsBy(TxsOn(x.block)))
           /\ Recorded(x, F)
<1>. DEFINE b == x.block
            n == Len(TxsOf[b]) + 1
<1>1. /\ BeforeTxs(b, n) = TxsOn(b)
      /\ FirstTxs(b, n) = TxsIn(b)
  BY InfoItems, TxFacts
<1>2. /\ (OutputsBy(BeforeTxs(b, n)) \cup {}) \ (InputsBy(BeforeTxs(b, n)) \cup {}) = LiveAt(b)
      /\ InputsBy(BeforeTxs(b, n)) \cup {} = InputsBy(TxsOn(b))
      /\ OutputsBy(FirstTxs(b, n)) \cup {} = OutputsBy(TxsIn(b))
      /\ InputsBy(FirstTxs(b, n)) \cup {} = InputsBy(TxsIn(b))
  BY <1>1 DEF LiveAt
<1>3. QED
  BY <1>2, Zenon DEF BlockTrees, Recorded

\* The end of process_block leaves the trees of the longer chain.
LEMMA MirrorFinish ==
    ASSUME TypeOK, Aligned, Mirror, NEW snap \in BOOLEAN, Finish(snap)
    PROVE  /\ Mirror'
           /\ MirrorOf(cursor, filter, utxo_tree, spent_utxo_index, block_hash_index')
<1>1. /\ phase = "events"
      /\ phase' = "idle"
      /\ rollback_buffer' = PushBuffer(info)
      /\ block_hash_index' = block_hash_index \cup {info.block}
      /\ UNCHANGED <<filter, utxo_tree, spent_utxo_index, cursor>>
  BY DEF Finish, FinishBlock, Return
<1>2. info \in RollbackInfo /\ info.block \in Blocks /\ rollback_buffer \in Seq(RollbackInfo)
  BY <1>1, InfoItems DEF TypeOK, ProcessorTyped, Processing
<1>3. info.block = cursor /\ Linked(rollback_buffer) /\ Attached(PrevOf(info.block))
  BY <1>1 DEF Aligned, Processing
<1>4. BlockTrees(info, Len(TxsOf[info.block]) + 1, {}, {}, filter, utxo_tree, spent_utxo_index)
  BY <1>1 DEF Mirror, MirrorSteps
<1>5. /\ TreesAt(cursor, filter, utxo_tree, spent_utxo_index, LiveAt(cursor),
                 InputsBy(TxsOn(cursor)))
      /\ Recorded(info, filter)
  BY <1>2, <1>3, <1>4, WholeBlock
<1>6. block_hash_index' = BlocksOf(cursor)
  BY <1>1, <1>2, <1>3, PrevFacts DEF Mirror, MirrorSteps, Processing
<1>7. MirrorOf(cursor, filter, utxo_tree, spent_utxo_index, block_hash_index')
  BY <1>5, <1>6 DEF MirrorOf
<1>8. \A i \in DOMAIN rollback_buffer' : Recorded(rollback_buffer'[i], filter')
  <2>1. TAKE i \in DOMAIN rollback_buffer'
  <2>2. \/ rollback_buffer'[i] = info
        \/ \E j \in DOMAIN rollback_buffer : rollback_buffer'[i] = rollback_buffer[j]
    BY <1>1, <1>2, <1>3, PushLinked
  <2>3. QED
    BY <1>1, <1>5, <2>2 DEF Mirror
<1>9. QED
  BY <1>1, <1>7, <1>8 DEF Mirror, Mirrors, MirrorSteps, AtRest, Processing, UndoingOne

\* The record popped by rollback_to is that of the block to undo.
LEMMA MirrorUndoBlock ==
    ASSUME TypeOK, Aligned, Mirror, UndoBlock
    PROVE  Mirror'
<1>. DEFINE b == LastInfo.block
<1>1. /\ phase = "undo"
      /\ phase' = "restore"
      /\ MoreToUndo
      /\ info' = LastInfo
      /\ pos' = 1
      /\ rollback_buffer' = PopLast
      /\ block_hash_index' = block_hash_index \ {b}
      /\ UNCHANGED <<filter, utxo_tree, spent_utxo_index>>
  BY DEF UndoBlock
<1>2. rollback_buffer \in Seq(RollbackInfo) /\ rollback_buffer # <<>>
  BY <1>1 DEF TypeOK, ProcessorTyped, MoreToUndo
<1>3. LastInfo \in RollbackInfo /\ b \in Blocks
  BY <1>2, LastInfoType, InfoItems
<1>4. MirrorOf(b, filter, utxo_tree, spent_utxo_index, block_hash_index)
  BY <1>1 DEF Mirror, Mirrors, TreePoint
<1>5. block_hash_index' = BlocksOf(PrevOf(b))
  BY <1>1, <1>3, <1>4, PrevFacts DEF MirrorOf
<1>6. Recorded(LastInfo, filter)
  <2>1. Len(rollback_buffer) \in DOMAIN rollback_buffer
    BY <1>2
  <2>2. QED
    BY <2>1 DEF Mirror, LastInfo
<1>7. RestoreTrees(info', pos', filter', utxo_tree', spent_utxo_index')
  <2>1. SpentKeys(LastInfo, 1) = {}
    BY <1>3, InfoItems DEF SpentKeys
  <2>2. LiveAt(b) \cup SpentKeys(LastInfo, 1) = LiveAt(b)
    BY <2>1
  <2>3. TreesAt(b, filter, utxo_tree, spent_utxo_index, LiveAt(b), InputsBy(TxsOn(b)))
    BY <1>4 DEF MirrorOf
  <2>4. RestoreTrees(LastInfo, 1, filter, utxo_tree, spent_utxo_index)
    BY <2>2, <2>3 DEF RestoreTrees
  <2>5. QED
    BY <1>1, <2>4
<1>8. \A i \in DOMAIN rollback_buffer' : Recorded(rollback_buffer'[i], filter')
  <2>1. Linked(rollback_buffer)
    BY DEF Aligned
  <2>2. QED
    BY <1>1, <1>2, <2>1, PopLinked DEF Mirror
<1>9. QED
  BY <1>1, <1>5, <1>6, <1>7, <1>8 DEF Mirror, MirrorSteps, AtRest, Processing, UndoingOne

\* The state of a block that is being undone.
LEMMA Undoing ==
    ASSUME TypeOK, Mirror, phase \in UndoingOne
    PROVE  /\ info \in RollbackInfo
           /\ info.block \in Blocks
           /\ PrevOf(info.block) \in Point
           /\ pos \in Nat \ {0}
           /\ Recorded(info, filter)
           /\ block_hash_index = BlocksOf(PrevOf(info.block))
           /\ DOMAIN info.utxos_spent = 1 .. Len(info.utxos_spent)
           /\ DOMAIN info.utxos_created = 1 .. Len(info.utxos_created)
           /\ Len(info.utxos_spent) \in Nat
           /\ Len(info.utxos_created) \in Nat
<1>1. info \in RollbackInfo /\ pos \in Nat \ {0}
  BY DEF TypeOK, ProcessorTyped, UndoingOne, RollingBack
<1>2. QED
  BY <1>1, InfoItems, PrevFacts DEF Mirror, MirrorSteps

\* Steps of rollback_block change what they work on only.
LEMMA UndoingFrame ==
    ASSUME phase' \in UndoingOne, Mirror, phase \in UndoingOne,
           UNCHANGED <<info, filter, rollback_buffer, block_hash_index>>,
           phase' = "restore" => RestoreTrees(info', pos', filter', utxo_tree', spent_utxo_index'),
           phase' = "unevents" => DeleteTrees(info', 1, filter', utxo_tree', spent_utxo_index'),
           phase' = "delete" => DeleteTrees(info', pos', filter', utxo_tree', spent_utxo_index')
    PROVE  Mirror'
<1>1. block_hash_index' = BlocksOf(PrevOf(info'.block)) /\ Recorded(info', filter')
  BY DEF Mirror, MirrorSteps
<1>2. MirrorSteps'
  BY <1>1 DEF MirrorSteps, Processing, UndoingOne
<1>3. QED
  BY <1>2 DEF Mirror, AtRest, UndoingOne

\* The outputs that the block spent come back, one by one.
LEMMA MirrorRestoreSpent ==
    ASSUME TypeOK, Mirror, RestoreSpent
    PROVE  Mirror'
<1>. DEFINE x == info.utxos_spent[pos]
            b == info.block
            back  == SpentKeys(info, pos)
            live  == Tracked(filter, LiveAt(b) \cup back)
            live1 == Tracked(filter, LiveAt(b) \cup (back \cup {x.key}))
            gone  == Tracked(filter, InputsBy(TxsOn(b)))
<1>1. /\ phase = "restore"
      /\ phase' = "restore"
      /\ pos <= Len(info.utxos_spent)
      /\ pos' = pos + 1
      /\ utxo_tree' = Insert(utxo_tree, x.key, x.data)
      /\ UNCHANGED <<info, filter, rollback_buffer, block_hash_index, spent_utxo_index>>
  BY DEF RestoreSpent
<1>2. /\ pos \in DOMAIN info.utxos_spent
      /\ DOMAIN info.utxos_spent = 1 .. Len(info.utxos_spent)
      /\ pos \in Nat
      /\ Recorded(info, filter)
  BY <1>1, Undoing DEF UndoingOne
<1>3. x.data \in HomesOf(b, x.key[1]) /\ AddressOf(x.key) \in filter
  <2>1. x.key \in AllSpent(info)
    BY <1>2 DEF AllSpent
  <2>2. QED
    BY <1>2, <2>1 DEF Recorded, Records, Tracked
<1>4. SpentKeys(info, pos + 1) = back \cup {x.key}
  <2>1. {m \in DOMAIN info.utxos_spent : m < pos + 1} =
            {m \in DOMAIN info.utxos_spent : m < pos} \cup {pos}
    BY <1>2
  <2>2. QED
    BY <2>1 DEF SpentKeys
<1>5. UtxosAre(b, utxo_tree, live) /\ SpendsAre(b, spent_utxo_index, gone)
  <2>1. RestoreTrees(info, pos, filter, utxo_tree, spent_utxo_index)
    BY <1>1 DEF Mirror, MirrorSteps
  <2>2. QED
    BY <2>1, Zenon DEF RestoreTrees, TreesAt
<1>6. live1 = live \cup {x.key}
  BY <1>3 DEF Tracked
<1>7. UtxosAre(b, utxo_tree', live1)
  <2>. HIDE DEF live, live1
  <2>1. QED
    BY <1>1, <1>3, <1>5, <1>6, UtxosInsert
<1>8. TreesAt(b, filter, utxo_tree', spent_utxo_index, LiveAt(b) \cup (back \cup {x.key}),
              InputsBy(TxsOn(b)))
  BY <1>5, <1>7, Zenon DEF TreesAt
<1>9. RestoreTrees(info, pos + 1, filter, utxo_tree', spent_utxo_index)
  BY <1>4, <1>8, Zenon DEF RestoreTrees
<1>10. QED
  BY <1>1, <1>9, UndoingFrame DEF UndoingOne

\* Restoring what a block spent and forgetting that it did leaves what is
\* created up to it and not spent before it.
LEMMA RestoredSets ==
    ASSUME NEW b \in Blocks, NEW F
    PROVE  LET q == PrevOf(b) IN
           /\ Tracked(F, OutputsBy(TxsOn(b)) \ InputsBy(TxsOn(q))) =
                  Tracked(F, LiveAt(b) \cup Tracked(F, InputsBy(TxsIn(b))))
           /\ Tracked(F, InputsBy(TxsOn(q))) =
                  Tracked(F, InputsBy(TxsOn(b))) \ Tracked(F, InputsBy(TxsIn(b)))
           /\ Tracked(F, LiveAt(q)) =
                  Tracked(F, (OutputsBy(TxsOn(b)) \ InputsBy(TxsOn(q)))
                                \ Tracked(F, OutputsBy(TxsIn(b))))
<1>. DEFINE q == PrevOf(b)
            ob == OutputsBy(TxsOn(b))
            oq == OutputsBy(TxsOn(q))
            ox == OutputsBy(TxsIn(b))
            ib == InputsBy(TxsOn(b))
            iq == InputsBy(TxsOn(q))
            ix == InputsBy(TxsIn(b))
<1>1. /\ ob = oq \cup ox
      /\ ib = iq \cup ix
      /\ ox \cap oq = {}
      /\ ix \cap iq = {}
      /\ ix \subseteq ob
      /\ iq \subseteq oq
  BY BlockSets
<1>. HIDE DEF ob, oq, ox, ib, iq, ix
<1>2. Tracked(F, ob \ iq) = Tracked(F, (ob \ ib) \cup Tracked(F, ix))
  BY <1>1 DEF Tracked
<1>3. Tracked(F, iq) = Tracked(F, ib) \ Tracked(F, ix)
  BY <1>1 DEF Tracked
<1>4. Tracked(F, oq \ iq) = Tracked(F, (ob \ iq) \ Tracked(F, ox))
  BY <1>1 DEF Tracked
<1>5. QED
  BY <1>2, <1>3, <1>4, Zenon DEF ob, oq, ox, ib, iq, ix, LiveAt

\* Its spend records go.
LEMMA MirrorDeleteSpentRecords ==
    ASSUME TypeOK, Mirror, DeleteSpentRecords
    PROVE  Mirror'
<1>. DEFINE b == info.block
            q == PrevOf(info.block)
            ix == Tracked(filter, InputsBy(TxsIn(b)))
            live1 == Tracked(filter, OutputsBy(TxsOn(b)) \ InputsBy(TxsOn(q)))
            gone  == Tracked(filter, InputsBy(TxsOn(b)))
            gone1 == Tracked(filter, InputsBy(TxsOn(q)))
<1>1. /\ phase = "restore"
      /\ phase' = "unevents"
      /\ pos > Len(info.utxos_spent)
      /\ spent_utxo_index' = Delete(spent_utxo_index, RecordedSpends)
      /\ UNCHANGED <<info, filter, rollback_buffer, block_hash_index, utxo_tree>>
  BY DEF DeleteSpentRecords
<1>2. /\ DOMAIN info.utxos_spent = 1 .. Len(info.utxos_spent)
      /\ Len(info.utxos_spent) \in Nat
      /\ pos \in Nat
      /\ b \in Blocks
      /\ Recorded(info, filter)
  BY <1>1, Undoing DEF UndoingOne
<1>3. SpentKeys(info, pos) = ix /\ RecordedSpends = ix
  <2>1. {m \in DOMAIN info.utxos_spent : m < pos} = DOMAIN info.utxos_spent
    BY <1>1, <1>2
  <2>2. SpentKeys(info, pos) = AllSpent(info) /\ RecordedSpends = AllSpent(info)
    BY <2>1 DEF SpentKeys, AllSpent, RecordedSpends
  <2>3. QED
    BY <1>2, <2>2 DEF Recorded, Records
<1>4. /\ UtxosAre(b, utxo_tree, Tracked(filter, LiveAt(b) \cup ix))
      /\ SpendsAre(b, spent_utxo_index, gone)
  <2>1. RestoreTrees(info, pos, filter, utxo_tree, spent_utxo_index)
    BY <1>1 DEF Mirror, MirrorSteps
  <2>2. QED
    BY <1>3, <2>1, Zenon DEF RestoreTrees, TreesAt
<1>5. live1 = Tracked(filter, LiveAt(b) \cup ix) /\ gone1 = gone \ ix
  BY <1>2, RestoredSets, Zenon
<1>6. UtxosAre(b, utxo_tree, live1)
  BY <1>4, <1>5, Zenon
<1>7. SpendsAre(b, spent_utxo_index', gone1)
  <2>. HIDE DEF gone, gone1, ix
  <2>1. QED
    BY <1>1, <1>3, <1>4, <1>5, SpendsDelete
<1>8. DeleteTrees(info, 1, filter, utxo_tree, spent_utxo_index')
  <2>1. CreatedKeys(info, 1) = {}
    BY <1>1, Undoing DEF CreatedKeys, UndoingOne
  <2>2. (OutputsBy(TxsOn(b)) \ InputsBy(TxsOn(q))) \ CreatedKeys(info, 1) =
            OutputsBy(TxsOn(b)) \ InputsBy(TxsOn(q))
    BY <2>1
  <2>3. QED
    BY <1>6, <1>7, <2>2, Zenon DEF DeleteTrees, TreesAt
<1>9. QED
  BY <1>1, <1>8, UndoingFrame DEF UndoingOne

LEMMA MirrorDeleteEvents ==
    ASSUME TypeOK, Mirror, DeleteEvents
    PROVE  Mirror'
<1>1. /\ phase = "unevents"
      /\ phase' = "delete"
      /\ pos' = 1
      /\ UNCHANGED <<info, filter, rollback_buffer, block_hash_index, utxo_tree, spent_utxo_index>>
  BY DEF DeleteEvents
<1>2. DeleteTrees(info, 1, filter, utxo_tree, spent_utxo_index)
  BY <1>1 DEF Mirror, MirrorSteps
<1>3. QED
  BY <1>1, <1>2, UndoingFrame DEF UndoingOne

\* The outputs it made go, one by one.
LEMMA MirrorDeleteCreated ==
    ASSUME TypeOK, Mirror, DeleteCreated
    PROVE  Mirror'
<1>. DEFINE k == info.utxos_created[pos]
            b == info.block
            q == PrevOf(info.block)
            left  == OutputsBy(TxsOn(b)) \ InputsBy(TxsOn(q))
            del   == CreatedKeys(info, pos)
            live  == Tracked(filter, left \ del)
            live1 == Tracked(filter, left \ (del \cup {k}))
            gone  == Tracked(filter, InputsBy(TxsOn(q)))
<1>1. /\ phase = "delete"
      /\ phase' = "delete"
      /\ pos <= Len(info.utxos_created)
      /\ pos' = pos + 1
      /\ UNCHANGED <<info, filter, rollback_buffer, block_hash_index, spent_utxo_index>>
  BY DEF DeleteCreated
<1>2. /\ pos \in DOMAIN info.utxos_created
      /\ DOMAIN info.utxos_created = 1 .. Len(info.utxos_created)
      /\ pos \in Nat
  BY <1>1, Undoing DEF UndoingOne
<1>3. CreatedKeys(info, pos + 1) = del \cup {k}
  <2>1. {m \in DOMAIN info.utxos_created : m < pos + 1} =
            {m \in DOMAIN info.utxos_created : m < pos} \cup {pos}
    BY <1>2
  <2>2. QED
    BY <2>1 DEF CreatedKeys
<1>4. UtxosAre(b, utxo_tree, live) /\ SpendsAre(b, spent_utxo_index, gone)
  <2>1. DeleteTrees(info, pos, filter, utxo_tree, spent_utxo_index)
    BY <1>1 DEF Mirror, MirrorSteps
  <2>2. QED
    BY <2>1, Zenon DEF DeleteTrees, TreesAt
<1>5. live1 = live \ {k}
  BY DEF Tracked
<1>6. UtxosAre(b, utxo_tree', live1)
  <2>. HIDE DEF live, live1
  <2>1. CASE k \in DOMAIN utxo_tree
    <3>1. utxo_tree' = Delete(utxo_tree, {k})
      BY <2>1 DEF DeleteCreated
    <3>2. QED
      BY <1>4, <1>5, <3>1, UtxosDelete
  <2>2. CASE k \notin DOMAIN utxo_tree
    <3>1. utxo_tree' = utxo_tree
      BY <2>2 DEF DeleteCreated
    <3>2. live1 = live
      BY <1>4, <1>5, <2>2 DEF UtxosAre
    <3>3. QED
      BY <1>4, <3>1, <3>2
  <2>3. QED
    BY <2>1, <2>2
<1>7. TreesAt(b, filter, utxo_tree', spent_utxo_index, left \ (del \cup {k}), InputsBy(TxsOn(q)))
  BY <1>4, <1>6, Zenon DEF TreesAt
<1>8. DeleteTrees(info, pos + 1, filter, utxo_tree', spent_utxo_index)
  BY <1>3, <1>7, Zenon DEF DeleteTrees
<1>9. QED
  BY <1>1, <1>8, UndoingFrame DEF UndoingOne

\* When a block is undone the trees are those of the chain before it.
LEMMA MirrorBlockUndone ==
    ASSUME TypeOK, Mirror, BlockUndone, TreePoint' = PrevOf(info.block)
    PROVE  Mirror'
<1>. DEFINE b == info.block
            q == PrevOf(info.block)
            ox   == Tracked(filter, OutputsBy(TxsIn(b)))
            left == OutputsBy(TxsOn(b)) \ InputsBy(TxsOn(q))
<1>1. /\ phase = "delete"
      /\ phase' = "undo"
      /\ pos > Len(info.utxos_created)
      /\ UNCHANGED <<info, filter, rollback_buffer, block_hash_index, utxo_tree, spent_utxo_index>>
  BY DEF BlockUndone, trees
<1>2. /\ DOMAIN info.utxos_created = 1 .. Len(info.utxos_created)
      /\ Len(info.utxos_created) \in Nat
      /\ pos \in Nat
      /\ b \in Blocks
      /\ Recorded(info, filter)
      /\ block_hash_index = BlocksOf(q)
  BY <1>1, Undoing DEF UndoingOne
<1>3. CreatedKeys(info, pos) = ox
  <2>1. {m \in DOMAIN info.utxos_created : m < pos} = DOMAIN info.utxos_created
    BY <1>1, <1>2
  <2>2. CreatedKeys(info, pos) = AllCreated(info)
    BY <2>1 DEF CreatedKeys, AllCreated
  <2>3. QED
    BY <1>2, <2>2 DEF Recorded, Records
<1>4. TreesAt(b, filter, utxo_tree, spent_utxo_index, LiveAt(q), InputsBy(TxsOn(q)))
  <2>1. DeleteTrees(info, pos, filter, utxo_tree, spent_utxo_index)
    BY <1>1 DEF Mirror, MirrorSteps
  <2>2. TreesAt(b, filter, utxo_tree, spent_utxo_index, left \ ox, InputsBy(TxsOn(q)))
    BY <1>3, <2>1, Zenon DEF DeleteTrees
  <2>3. Tracked(filter, LiveAt(q)) = Tracked(filter, left \ ox)
    BY <1>2, RestoredSets, Zenon
  <2>4. QED
    BY <2>2, <2>3, Zenon DEF TreesAt
<1>5. TreesAt(q, filter, utxo_tree, spent_utxo_index, LiveAt(q), InputsBy(TxsOn(q)))
  <2>1. LiveAt(q) \subseteq OutputsBy(TxsOn(q))
    BY DEF LiveAt
  <2>2. QED
    BY <1>2, <1>4, <2>1, TreesDown
<1>6. MirrorOf(q, filter, utxo_tree, spent_utxo_index, block_hash_index)
  BY <1>2, <1>5 DEF MirrorOf
<1>7. Mirrors(TreePoint)'
  BY <1>1, <1>6 DEF Mirrors
<1>8. QED
  BY <1>1, <1>7 DEF Mirror, MirrorSteps, AtRest, Processing, UndoingOne

LEMMA MirrorEndRollback ==
    ASSUME Mirror, EndRollback, UNCHANGED cursor
    PROVE  Mirror'
<1>1. /\ phase = "undo"
      /\ phase' = "idle"
      /\ ~MoreToUndo
      /\ UNCHANGED <<filter, rollback_buffer, block_hash_index, utxo_tree, spent_utxo_index>>
  BY DEF EndRollback, Return
<1>2. Mirrors(cursor)
  BY <1>1 DEF Mirror, TreePoint
<1>3. QED
  BY <1>1, <1>2 DEF Mirror, Mirrors, MirrorSteps, AtRest, Processing, UndoingOne

\* A rollback that must be applied starts with the trees of the old chain.
LEMMA MirrorBackward ==
    ASSUME Mirror, phase \in AtRest, NEW p, RollBackward(p), exact',
           phase' = "undo" => TreePoint' = cursor
    PROVE  Mirror'
<1>1. UNCHANGED <<filter, rollback_buffer, block_hash_index, utxo_tree, spent_utxo_index>>
  BY DEF RollBackward, IgnoreRollback, BeginRollback, trees
<1>2. MirrorOf(cursor, filter, utxo_tree, spent_utxo_index, block_hash_index)
  BY DEF Mirror, Mirrors
<1>3. CASE IgnoreRollback(PointSlot(p)) /\ exact' = (exact /\ p = cursor)
  <2>1. phase' = "idle" /\ cursor' = cursor
    BY <1>3 DEF RollBackward, IgnoreRollback, Return
  <2>2. QED
    BY <1>1, <1>2, <2>1 DEF Mirror, Mirrors, MirrorSteps, AtRest, Processing, UndoingOne
<1>4. CASE BeginRollback(PointSlot(p))
  <2>1. phase' = "undo"
    BY <1>4 DEF BeginRollback
  <2>2. QED
    BY <1>1, <1>2, <2>1 DEF Mirror, Mirrors, MirrorSteps, AtRest, Processing, UndoingOne
<1>5. QED
  BY <1>3, <1>4 DEF RollBackward

\* Every step of rollback_to.
LEMMA MirrorRollbackStep ==
    ASSUME TypeOK, Aligned, Mirror, RollbackStep, UNCHANGED syncVars,
           BlockUndone => TreePoint' = PrevOf(info.block)
    PROVE  Mirror'
BY MirrorUndoBlock, MirrorRestoreSpent, MirrorDeleteSpentRecords, MirrorDeleteEvents,
   MirrorDeleteCreated, MirrorBlockUndone, MirrorEndRollback DEF RollbackStep, syncVars

-----------------------------------------------------------------------------
(* Snapshots, starts and stops.                                            *)

\* Each snapshot in snaps is S or one of those there were.
SavedOrKept(slot, S, snaps) ==
    \A s \in DOMAIN snaps : snaps[s] = S \/ (s \in DOMAIN snapshots /\ snaps[s] = snapshots[s])

\* Cleanup only drops snapshots.
LEMMA SaveOrKeep ==
    ASSUME NEW slot, NEW S
    PROVE  /\ SavedOrKept(slot, S, Insert(snapshots, slot, S))
           /\ SavedOrKept(slot, S, Cleanup(Insert(snapshots, slot, S)))
BY DEF SavedOrKept, Insert, Cleanup

\* The trees that save_all_snapshots writes at the end of a block and at the
\* end of a session.
FinishSave == SavedTrees(block_hash_index', chain_tip_tree', HistoryNow)

ShutdownSave == SavedTrees(block_hash_index, CurrentTips(rollback_buffer), HistoryNow)

\* Where the snapshots of a step come from.
LEMMA SnapshotSource ==
    ASSUME [Next]_vars, NEW s \in DOMAIN snapshots'
    PROVE  \/ s \in DOMAIN snapshots /\ snapshots'[s] = snapshots[s]
           \/ (\E snap \in BOOLEAN : Finish(snap)) /\ snapshots'[s] = FinishSave
           \/ phase \in {"connected", "idle"} /\ snapshots'[s] = ShutdownSave
<1>1. CASE \E snap \in BOOLEAN : Finish(snap)
  <2>1. \/ snapshots' = snapshots
        \/ snapshots' = Cleanup(Insert(snapshots, SlotOf[info.block], FinishSave))
    BY <1>1 DEF Finish, FinishBlock, FinishSave
  <2>2. QED
    BY <1>1, <2>1, SaveOrKeep DEF SavedOrKept
<1>2. CASE \E saved \in BOOLEAN : Shutdown(saved)
  <2>1. \/ snapshots' = snapshots
        \/ snapshots' = Insert(snapshots, current_slot, ShutdownSave)
    BY <1>2 DEF Shutdown, ShutdownSave
  <2>2. phase \in {"connected", "idle"}
    BY <1>2 DEF Shutdown
  <2>3. QED
    BY <2>1, <2>2, SaveOrKeep DEF SavedOrKept
<1>3. CASE \E W \in WalletSets : Start(W)
  BY <1>3 DEF Start
<1>4. CASE \E b \in Blocks : RollForward(b)
  BY <1>4 DEF RollForward, BeginBlock, RejectBlock
<1>5. CASE FirstResponse \/ \E p \in Point : Rollback(p)
  BY <1>5 DEF FirstResponse, Rollback, RollBackward, IgnoreRollback, BeginRollback
<1>6. CASE Step
  <2>1. CASE BlockStep
    BY <2>1 DEF BlockStep, ProcessInput, ProcessOutput, EndTx, WriteCreatedEvent, WriteSpentEvent
  <2>2. CASE RollbackStep
    BY <2>2 DEF RollbackStep, UndoBlock, RestoreSpent, DeleteSpentRecords, DeleteEvents,
                DeleteCreated, BlockUndone, EndRollback
  <2>3. QED
    BY <1>6, <2>1, <2>2 DEF Step
<1>7. CASE Fail \/ Crash
  BY <1>7 DEF Fail, FailBlock, Crash
<1>8. CASE Await \/ UNCHANGED vars
  BY <1>8 DEF Await, vars
<1>9. QED
  BY <1>1, <1>2, <1>3, <1>4, <1>5, <1>6, <1>7, <1>8 DEF Next

\* A session starts from nothing or from a snapshot, and is exact only where
\* and as the snapshot was taken.
LEMMA StartFrom ==
    ASSUME NEW W \in WalletSets, Start(W)
    PROVE  \E S : /\ S = EmptyTrees \/ \E s \in DOMAIN snapshots : S = snapshots[s]
                  /\ Load(S)
                  /\ rollback_buffer' = <<>>
                  /\ phase' = "connected"
                  /\ exact' => /\ S.history.exact
                               /\ S.history.at = cursor'
                               /\ cursor' = Origin \/ S.history.filter = filter'
<1>1. PICK S \in LatestSnapshots :
          /\ Load(S)
          /\ NewProcessor(W, S.tips)
          /\ exact' = ( /\ S.history.exact
                        /\ S.history.at = cursor'
                        /\ S.history.at = Origin \/ S.history.filter = filter')
  BY DEF Start
<1>2. S = EmptyTrees \/ \E s \in DOMAIN snapshots : S = snapshots[s]
  BY DEF LatestSnapshots
<1>3. QED
  BY <1>1, <1>2 DEF Start, NewProcessor

\* Nothing in the trees mirrors the origin.
LEMMA NothingMirrors == SnapshotMirrors(EmptyTrees)
BY MirrorOfOrigin DEF SnapshotMirrors, EmptyTrees, NoTree

\* With an empty buffer and no block under way, only the trees count.
LEMMA MirrorFresh ==
    ASSUME rollback_buffer' = <<>>, phase' \in AtRest,
           MirrorOf(cursor', filter', utxo_tree', spent_utxo_index', block_hash_index')
    PROVE  Mirror'
BY DEF Mirror, Mirrors, MirrorSteps, AtRest, Processing, UndoingOne

\* An exact session resumes on the chain of its snapshot.
LEMMA MirrorStart ==
    ASSUME MirrorInv, NEW W \in WalletSets, Start(W), exact'
    PROVE  Mirror'
<1>1. PICK S : /\ S = EmptyTrees \/ \E s \in DOMAIN snapshots : S = snapshots[s]
               /\ Load(S)
               /\ rollback_buffer' = <<>>
               /\ phase' = "connected"
               /\ exact' => /\ S.history.exact
                            /\ S.history.at = cursor'
                            /\ cursor' = Origin \/ S.history.filter = filter'
  BY StartFrom
<1>2. MirrorOf(cursor', S.history.filter, S.utxos, S.spent_utxos, S.hashes)
  BY <1>1, NothingMirrors DEF MirrorInv, SnapshotMirrors
<1>3. MirrorOf(cursor', filter', S.utxos, S.spent_utxos, S.hashes)
  BY <1>1, <1>2, MirrorOfOrigin
<1>4. MirrorOf(cursor', filter', utxo_tree', spent_utxo_index', block_hash_index')
  BY <1>1, <1>3 DEF Load
<1>5. QED
  BY <1>1, <1>4, MirrorFresh DEF AtRest

LEMMA MirrorExit ==
    ASSUME Exit
    PROVE  Mirror'
<1>1. /\ cursor' = Origin
      /\ rollback_buffer' = <<>>
      /\ phase' = "down"
      /\ utxo_tree' = NoTree
      /\ spent_utxo_index' = NoTree
      /\ block_hash_index' = {}
  BY DEF Exit, Load, NewProcessor, EmptyTrees
<1>2. MirrorOf(Origin, filter', NoTree, NoTree, {})
  BY MirrorOfOrigin DEF NoTree
<1>3. QED
  BY <1>1, <1>2, MirrorFresh DEF AtRest

\* A saved snapshot mirrors the chain when the trees do.
LEMMA MirrorSnapshots ==
    ASSUME TypeOK, AlignedInv, MirrorInv, [Next]_vars, NEW s \in DOMAIN snapshots'
    PROVE  SnapshotMirrors(snapshots'[s])
<1>1. CASE s \in DOMAIN snapshots /\ snapshots'[s] = snapshots[s]
  BY <1>1 DEF MirrorInv
<1>2. CASE (\E snap \in BOOLEAN : Finish(snap)) /\ snapshots'[s] = FinishSave
  <2>. SUFFICES ASSUME exact
                PROVE  MirrorOf(cursor, filter, utxo_tree, spent_utxo_index, block_hash_index')
    BY <1>2 DEF SnapshotMirrors, FinishSave, SavedTrees, HistoryNow
  <2>. QED
    BY <1>2, MirrorFinish DEF AlignedInv, MirrorInv
<1>3. CASE phase \in {"connected", "idle"} /\ snapshots'[s] = ShutdownSave
  <2>. SUFFICES ASSUME exact
                PROVE  MirrorOf(cursor, filter, utxo_tree, spent_utxo_index, block_hash_index)
    BY <1>3 DEF SnapshotMirrors, ShutdownSave, SavedTrees, HistoryNow
  <2>. QED
    BY <1>3 DEF MirrorInv, Mirror, Mirrors, AtRest
<1>4. QED
  BY <1>1, <1>2, <1>3, SnapshotSource

\* MirrorInv is inductive, given AlignedInv.
LEMMA MirrorNext ==
    ASSUME TypeOK, AlignedInv, MirrorInv, [Next]_vars
    PROVE  MirrorInv'
<1>1. ASSUME exact' PROVE Mirror'
  <2>1. CASE \E W \in WalletSets : Start(W)
    BY <1>1, <2>1, MirrorStart
  <2>2. CASE \E b \in Blocks : RollForward(b)
    <3>1. PICK b \in Blocks : RollForward(b)
      BY <2>2
    <3>2. exact /\ BeginBlock(b) /\ PrevOf(b) = cursor
      BY <1>1, <3>1 DEF RollForward
    <3>3. QED
      BY <3>2, MirrorBegin DEF MirrorInv
  <2>3. ASSUME NEW p \in PointsOf(cursor), RollBackward(p), phase \in AtRest PROVE Mirror'
    <3>1. exact
      BY <1>1, <2>3 DEF RollBackward
    <3>2. QED
      BY <1>1, <2>3, <3>1, AlignedBackward, MirrorBackward DEF MirrorInv
  <2>4. CASE FirstResponse
    <3>1. cursor \in PointsOf(cursor)
      BY LastOfChain DEF TypeOK, SessionTyped
    <3>2. QED
      BY <2>3, <2>4, <3>1 DEF FirstResponse, AtRest
  <2>5. CASE \E p \in Point : Rollback(p)
    BY <2>3, <2>5 DEF Rollback, AtRest
  <2>6. CASE Step
    <3>1. exact /\ UNCHANGED syncVars
      BY <1>1, <2>6 DEF Step, syncVars
    <3>2. Aligned /\ Mirror
      BY <3>1 DEF AlignedInv, MirrorInv
    <3>3. CASE BlockStep
      BY <3>2, <3>3, MirrorBlockStep
    <3>4. CASE RollbackStep
      BY <3>1, <3>2, <3>4, AlignedBlockUndone, MirrorRollbackStep
    <3>5. QED
      BY <2>6, <3>3, <3>4 DEF Step
  <2>7. CASE Fail
    BY <1>1, <2>7 DEF Fail
  <2>8. CASE \E snap \in BOOLEAN : Finish(snap)
    <3>1. exact
      BY <1>1, <2>8 DEF Finish
    <3>2. QED
      BY <2>8, <3>1, MirrorFinish DEF AlignedInv, MirrorInv
  <2>9. CASE Crash \/ \E saved \in BOOLEAN : Shutdown(saved)
    BY <2>9, MirrorExit DEF Crash, Shutdown
  <2>10. CASE Await \/ UNCHANGED vars
    <3>1. exact /\ Mirror
      BY <1>1, <2>10 DEF Await, vars, syncVars, MirrorInv
    <3>2. UNCHANGED <<trees, procVars, syncVars>>
      BY <2>10 DEF Await, vars
    <3>3. QED
      BY <3>1, <3>2 DEF trees, procVars, syncVars, Mirror, Mirrors, MirrorSteps, TreePoint,
                        MoreToUndo, LastInfo, this_tx
  <2>11. QED
    BY <2>1, <2>2, <2>4, <2>5, <2>6, <2>7, <2>8, <2>9, <2>10 DEF Next
<1>2. QED
  BY <1>1, MirrorSnapshots DEF MirrorInv

LEMMA MirrorStartsTrue == Init => AlignedInv /\ MirrorInv
<1>. SUFFICES ASSUME Init PROVE AlignedInv /\ MirrorInv
  OBVIOUS
<1>1. /\ phase = "down"
      /\ rollback_buffer = <<>>
      /\ cursor = Origin
      /\ utxo_tree = NoTree
      /\ spent_utxo_index = NoTree
      /\ block_hash_index = {}
      /\ snapshots = NoTree
  BY DEF Init, ProcessorInit, StorageInit
<1>2. Aligned
  BY <1>1 DEF Aligned, AtRest, Processing, RollingBack, UndoingOne, Attached, Linked
<1>3. MirrorOf(cursor, filter, utxo_tree, spent_utxo_index, block_hash_index)
  BY <1>1, MirrorOfOrigin DEF NoTree
<1>4. Mirror
  BY <1>1, <1>3 DEF Mirror, Mirrors, MirrorSteps, AtRest, Processing, UndoingOne
<1>5. \A s \in DOMAIN snapshots : SnapshotMirrors(snapshots[s])
  BY <1>1 DEF NoTree
<1>6. QED
  BY <1>2, <1>4, <1>5 DEF AlignedInv, MirrorInv

(***************************************************************************)
(* The mirror holds in every state of an exact session, in the middle of a *)
(* block and of a rollback too, and in every snapshot that one saved: the  *)
(* buffer is a stretch of the announced chain ending at the trees, and each *)
(* record in it says what its block did to them.                           *)
(***************************************************************************)
THEOREM MirrorInvariant == Spec => [](AlignedInv /\ MirrorInv)
<1>1. TypeOK /\ (AlignedInv /\ MirrorInv) /\ [Next]_vars => (AlignedInv /\ MirrorInv)'
  BY AlignedNext, MirrorNext
<1>2. QED
  BY MirrorStartsTrue, TypeCorrect, <1>1, PTL DEF Spec

-----------------------------------------------------------------------------
(* What the trees mirror, in the words of the reference.                   *)

\* The CHOOSE of BlockOf finds the only block.
LEMMA BlockOfHome ==
    ASSUME NEW p \in Point, NEW t, NEW b \in HomesOf(p, t)
    PROVE  BlockOf(p, t) = b
<1>1. b \in BlocksOf(p) /\ t \in TxsIn(b)
  BY DEF HomesOf
<1>2. BlockOf(p, t) \in BlocksOf(p) /\ t \in TxsIn(BlockOf(p, t))
  BY <1>1 DEF BlockOf
<1>3. BlockOf(p, t) \in HomesOf(p, t)
  BY <1>2 DEF HomesOf
<1>4. QED
  BY <1>3, OneHome

\* The reference's sets, in terms of the sets used here.
LEMMA ReferenceSets ==
    ASSUME NEW p \in Point
    PROVE  /\ CreatedOn(p) = Tracked(filter, OutputsBy(TxsOn(p)))
           /\ SpentOn(p) = Tracked(filter, InputsBy(TxsOn(p)))
           /\ CreatedOn(p) \ SpentOn(p) = Tracked(filter, LiveAt(p))
<1>1. CreatedOn(p) = Tracked(filter, OutputsBy(TxsOn(p)))
  BY DEF CreatedOn, Tracked, OutputsBy
<1>2. SpentOn(p) = Tracked(filter, InputsBy(TxsOn(p)))
  BY <1>1, InputsAreOutputs DEF SpentOn, SpenderOn, Tracked, InputsBy
<1>3. QED
  BY <1>1, <1>2 DEF Tracked, LiveAt

(***************************************************************************)
(* While `exact`, whenever the processor waits for the node, the UTxO      *)
(* tree, the spend records and the block index are those of the announced  *)
(* chain.                                                                  *)
(***************************************************************************)
THEOREM TreesMirrorChain == Spec => []MirrorsChain
<1>1. TypeOK /\ MirrorInv => MirrorsChain
  <2>. SUFFICES ASSUME TypeOK, MirrorInv, phase = "idle", exact
                PROVE  /\ utxo_tree = [k \in CreatedOn(cursor) \ SpentOn(cursor) |->
                                          BlockOf(cursor, k[1])]
                       /\ spent_utxo_index =
                            [k \in SpentOn(cursor) |->
                                LET t == CHOOSE t \in SpenderOn(cursor, k) : TRUE IN
                                [block |-> BlockOf(cursor, t), tx |-> t]]
                       /\ block_hash_index = BlocksOf(cursor)
    BY DEF MirrorsChain, Mirrored
  <2>1. cursor \in Point
    BY DEF TypeOK, SessionTyped
  <2>2. MirrorOf(cursor, filter, utxo_tree, spent_utxo_index, block_hash_index)
    BY DEF MirrorInv, Mirror, Mirrors, AtRest
  <2>3. utxo_tree = [k \in CreatedOn(cursor) \ SpentOn(cursor) |-> BlockOf(cursor, k[1])]
    <3>1. DOMAIN utxo_tree = CreatedOn(cursor) \ SpentOn(cursor)
      BY <2>1, <2>2, ReferenceSets DEF MirrorOf, TreesAt, UtxosAre
    <3>2. \A k \in DOMAIN utxo_tree : utxo_tree[k] = BlockOf(cursor, k[1])
      BY <2>1, <2>2, BlockOfHome DEF MirrorOf, TreesAt, UtxosAre
    <3>3. utxo_tree \in [DOMAIN utxo_tree -> Blocks]
      BY DEF TypeOK, TreesTyped, IsTree
    <3>4. utxo_tree = [k \in DOMAIN utxo_tree |-> utxo_tree[k]]
      BY <3>3
    <3>5. QED
      BY <3>1, <3>2, <3>4
  <2>4. spent_utxo_index = [k \in SpentOn(cursor) |->
                               LET t == CHOOSE t \in SpenderOn(cursor, k) : TRUE IN
                               [block |-> BlockOf(cursor, t), tx |-> t]]
    <3>1. DOMAIN spent_utxo_index = SpentOn(cursor)
      BY <2>1, <2>2, ReferenceSets DEF MirrorOf, TreesAt, SpendsAre
    <3>2. spent_utxo_index \in [DOMAIN spent_utxo_index -> Spend]
      BY DEF TypeOK, TreesTyped, IsTree
    <3>3. ASSUME NEW k \in DOMAIN spent_utxo_index
          PROVE  spent_utxo_index[k] =
                    [block |-> BlockOf(cursor, CHOOSE t \in SpenderOn(cursor, k) : TRUE),
                     tx |-> CHOOSE t \in SpenderOn(cursor, k) : TRUE]
      <4>. DEFINE s == spent_utxo_index[k]
                  u == CHOOSE t \in SpenderOn(cursor, k) : TRUE
      <4>1. s \in Spend
        BY <3>2, <3>3
      <4>2. s.block \in HomesOf(cursor, s.tx) /\ k \in InputKeys(s.tx)
        BY <2>2, <3>3 DEF MirrorOf, TreesAt, SpendsAre
      <4>3. s.tx \in TxsOn(cursor)
        BY <4>2 DEF HomesOf, TxsOn
      <4>4. s.tx \in SpenderOn(cursor, k)
        BY <4>2, <4>3 DEF SpenderOn
      <4>5. u \in SpenderOn(cursor, k)
        BY <4>4
      <4>6. u = s.tx
        BY <2>1, <4>2, <4>3, <4>5, OneSpender DEF SpenderOn
      <4>7. BlockOf(cursor, u) = s.block
        BY <2>1, <4>2, <4>6, BlockOfHome
      <4>8. s = [block |-> s.block, tx |-> s.tx]
        BY <4>1 DEF Spend
      <4>9. QED
        BY <4>6, <4>7, <4>8
    <3>4. spent_utxo_index = [k \in DOMAIN spent_utxo_index |-> spent_utxo_index[k]]
      BY <3>2
    <3>5. QED
      BY <3>1, <3>3, <3>4
  <2>5. QED
    BY <2>2, <2>3, <2>4 DEF MirrorOf
<1>2. QED
  BY MirrorInvariant, TypeCorrect, <1>1, PTL

-----------------------------------------------------------------------------
(* The transaction histories.                                              *)

\* The addresses in F of the outputs K.
Paid(F, K) == {AddressOf(k) : k \in K} \cap F

\* The histories hold the transactions T: under each tracked address they pay
\* or spend from, and under each tracked policy and asset they carry.
Indexed(F, T, addresses, policies, assets) ==
    \A t \in T :
        /\ Paid(F, OutputKeys(t) \cup InputKeys(t)) \X {t} \subseteq addresses
        /\ TrackedPolicies(t) \X {t} \subseteq policies
        /\ TrackedAssets(t) \X {t} \subseteq assets

\* The three history trees hold T.
IndexedTo(T) == Indexed(filter, T, address_tx_index, policy_tx_index, asset_tx_index)

\* Inside a transaction: the ones before it are indexed, and the addresses
\* of its items so far are noted.
IndexedTx ==
    /\ IndexedTo(BeforeTxs(info.block, txn))
    /\ Paid(filter, OutputsUpTo(this_tx, pos) \cup InputsUpTo(this_tx, pos))
          \subseteq addresses_affected

\* A snapshot saved by an exact session has the histories of its chain.
SnapshotIndexed(S) ==
    S.history.exact =>
        Indexed(S.history.filter, TxsOn(S.history.at), S.address_txs, S.policy_txs, S.asset_txs)

\* The inductive invariant behind HistoryComplete.
HistoryInv ==
    /\ exact /\ phase = "tx" => IndexedTx
    /\ exact /\ phase # "tx" => IndexedTo(TxsOn(cursor))
    /\ \A s \in DOMAIN snapshots : SnapshotIndexed(snapshots[s])

\* Addresses of a set of keys, and of one more.
LEMMA PaidSets ==
    ASSUME NEW F, NEW K, NEW k
    PROVE  /\ Paid(F, {}) = {}
           /\ Paid(F, K \cup {k}) \subseteq Paid(F, K) \cup {AddressOf(k)}
           /\ AddressOf(k) \notin F => Paid(F, K \cup {k}) = Paid(F, K)
BY DEF Paid

\* Fewer transactions are indexed by as much.
LEMMA IndexedFewer ==
    ASSUME NEW F, NEW T, NEW a, NEW p, NEW s, Indexed(F, T, a, p, s), NEW U \in SUBSET T
    PROVE  Indexed(F, U, a, p, s)
BY DEF Indexed

\* Indexing one more transaction.
LEMMA IndexedOne ==
    ASSUME NEW F, NEW T, NEW a, NEW p, NEW s, Indexed(F, T, a, p, s), NEW t, NEW K,
           Paid(F, OutputKeys(t) \cup InputKeys(t)) \subseteq K
    PROVE  Indexed(F, T \cup {t}, AddTx(a, K, t), AddTx(p, TrackedPolicies(t), t),
                   AddTx(s, TrackedAssets(t), t))
BY DEF Indexed, AddTx

\* A tracked address of an item is noted: of an input because its key is in the
\* UTxO tree, which is where process_block looks it up.
LEMMA HistoryInput ==
    ASSUME TypeOK, Mirror, IndexedTx, ProcessInput
    PROVE  IndexedTx'
<1>. DEFINE b == info.block
            t == this_tx
            k == InputsOf[t][pos]
            K == OutputsUpTo(t, pos) \cup InputsUpTo(t, pos)
<1>1. t \in Txs /\ pos \in Nat \ {0} /\ pos <= Len(InputsOf[t]) /\ b \in Blocks
  BY TxInBlock DEF ProcessInput
<1>2. OutputsUpTo(t, pos + 1) \cup InputsUpTo(t, pos + 1) = K \cup {k}
  BY <1>1, OneInput
<1>3. AddressOf(k) \in filter => k \in DOMAIN utxo_tree
  BY MirrorInput
<1>4. info'.block = b
  BY MirrorInput
<1>5. /\ UNCHANGED <<filter, txn, address_tx_index, policy_tx_index, asset_tx_index>>
      /\ pos' = pos + 1
      /\ k \in DOMAIN utxo_tree => addresses_affected' = addresses_affected \cup {AddressOf(k)}
      /\ k \notin DOMAIN utxo_tree => addresses_affected' = addresses_affected
  BY DEF ProcessInput, SpendUtxo
<1>6. this_tx' = t
  BY <1>4, <1>5 DEF this_tx
<1>7. IndexedTo(BeforeTxs(info.block, txn))'
  BY <1>4, <1>5 DEF IndexedTx, IndexedTo
<1>8. Paid(filter, K \cup {k}) \subseteq addresses_affected'
  <2>1. Paid(filter, K) \subseteq addresses_affected
    BY DEF IndexedTx
  <2>2. Paid(filter, K \cup {k}) \subseteq Paid(filter, K) \cup {AddressOf(k)}
    BY PaidSets, Zenon
  <2>. HIDE DEF K, k
  <2>3. AddressOf(k) \notin filter => Paid(filter, K \cup {k}) = Paid(filter, K)
    BY DEF Paid
  <2>4. QED
    BY <1>3, <1>5, <2>1, <2>2, <2>3
<1>9. OutputsUpTo(this_tx', pos') \cup InputsUpTo(this_tx', pos') = K \cup {k}
  BY <1>2, <1>5, <1>6
<1>10. Paid(filter, OutputsUpTo(this_tx', pos') \cup InputsUpTo(this_tx', pos'))
          \subseteq addresses_affected'
  BY <1>8, <1>9, Zenon
<1>11. QED
  BY <1>5, <1>7, <1>10 DEF IndexedTx

LEMMA HistoryOutput ==
    ASSUME TypeOK, Mirror, IndexedTx, ProcessOutput
    PROVE  IndexedTx'
<1>. DEFINE b == info.block
            t == this_tx
            k == output
            K == OutputsUpTo(t, pos) \cup InputsUpTo(t, pos)
<1>1. /\ t \in Txs
      /\ pos \in Nat
      /\ pos > Len(InputsOf[t])
      /\ pos <= Len(InputsOf[t]) + Len(OutputsOf[t])
      /\ b \in Blocks
  BY TxInBlock DEF ProcessOutput, AtOutput
<1>2. OutputsUpTo(t, pos + 1) \cup InputsUpTo(t, pos + 1) = K \cup {k}
  BY <1>1, OneOutput DEF output
<1>3. info'.block = b
  BY MirrorOutput
<1>4. /\ UNCHANGED <<filter, txn, address_tx_index, policy_tx_index, asset_tx_index>>
      /\ pos' = pos + 1
      /\ AddressOf(k) \in filter => addresses_affected' = addresses_affected \cup {AddressOf(k)}
      /\ AddressOf(k) \notin filter => addresses_affected' = addresses_affected
  BY DEF ProcessOutput, CreateUtxo, is_our_address
<1>5. this_tx' = t
  BY <1>3, <1>4 DEF this_tx
<1>6. IndexedTo(BeforeTxs(info.block, txn))'
  BY <1>3, <1>4 DEF IndexedTx, IndexedTo
<1>7. Paid(filter, K \cup {k}) \subseteq addresses_affected'
  <2>1. Paid(filter, K) \subseteq addresses_affected
    BY DEF IndexedTx
  <2>2. Paid(filter, K \cup {k}) \subseteq Paid(filter, K) \cup {AddressOf(k)}
    BY PaidSets, Zenon
  <2>. HIDE DEF K, k
  <2>3. AddressOf(k) \notin filter => Paid(filter, K \cup {k}) = Paid(filter, K)
    BY DEF Paid
  <2>4. QED
    BY <1>4, <2>1, <2>2, <2>3
<1>8. OutputsUpTo(this_tx', pos') \cup InputsUpTo(this_tx', pos') = K \cup {k}
  BY <1>2, <1>4, <1>5
<1>9. Paid(filter, OutputsUpTo(this_tx', pos') \cup InputsUpTo(this_tx', pos'))
          \subseteq addresses_affected'
  BY <1>7, <1>8, Zenon
<1>10. QED
  BY <1>4, <1>6, <1>9 DEF IndexedTx

\* The transaction is indexed under all that it noted.
LEMMA HistoryEndTx ==
    ASSUME TypeOK, IndexedTx, EndTx
    PROVE  /\ phase' = "tx" => IndexedTx'
           /\ phase' # "tx" => IndexedTo(TxsOn(info.block))'
<1>. DEFINE b == info.block
            t == this_tx
<1>1. /\ b \in Blocks
      /\ txn \in DOMAIN TxsOf[b]
      /\ txn \in 1 .. Len(TxsOf[b]) + 1
      /\ txn + 1 \in 1 .. Len(TxsOf[b]) + 1
      /\ t \in Txs
      /\ t = TxsOf[b][txn]
      /\ pos \in Nat
      /\ pos > Len(InputsOf[t]) + Len(OutputsOf[t])
  BY TxInBlock DEF EndTx, this_tx
<1>2. /\ UNCHANGED <<filter, info, addresses_affected>>
      /\ pos' = 1
      /\ txn' = txn + 1
      /\ phase' = NextPhase(b, txn + 1)
      /\ address_tx_index' = AddTx(address_tx_index, addresses_affected, t)
      /\ policy_tx_index' = AddTx(policy_tx_index, TrackedPolicies(t), t)
      /\ asset_tx_index' = AddTx(asset_tx_index, TrackedAssets(t), t)
  BY DEF EndTx
<1>3. Paid(filter, OutputKeys(t) \cup InputKeys(t)) \subseteq addresses_affected
  BY <1>1, AllOutputs DEF IndexedTx
<1>4. Indexed(filter, BeforeTxs(b, txn) \cup {t}, address_tx_index', policy_tx_index',
              asset_tx_index')
  BY <1>2, <1>3, IndexedOne DEF IndexedTx, IndexedTo
<1>5. BeforeTxs(b, txn + 1) = BeforeTxs(b, txn) \cup {t}
  BY <1>1, BeforeInBlock
<1>6. Indexed(filter, BeforeTxs(b, txn + 1), address_tx_index', policy_tx_index', asset_tx_index')
  BY <1>4, <1>5
<1>7. Len(TxsOf[b]) \in Nat /\ DOMAIN TxsOf[b] = 1 .. Len(TxsOf[b])
  BY <1>1, TxFacts
<1>8. ASSUME phase' = "tx" PROVE IndexedTx'
  <2>1. txn + 1 \in DOMAIN TxsOf[b]
    BY <1>1, <1>2, <1>7, <1>8 DEF NextPhase
  <2>2. this_tx' \in Txs
    BY <1>1, <1>2, <2>1, TxFacts DEF this_tx, TxsIn
  <2>3. OutputsUpTo(this_tx', pos') \cup InputsUpTo(this_tx', pos') = {}
    BY <1>2, <2>2, Nothing
  <2>4. Paid(filter', OutputsUpTo(this_tx', pos') \cup InputsUpTo(this_tx', pos')) = {}
    BY <2>3, PaidSets
  <2>5. QED
    BY <1>2, <1>6, <2>4 DEF IndexedTx, IndexedTo
<1>9. ASSUME phase' # "tx" PROVE IndexedTo(TxsOn(info.block))'
  <2>1. txn + 1 = Len(TxsOf[b]) + 1
    BY <1>1, <1>2, <1>7, <1>9 DEF NextPhase
  <2>2. BeforeTxs(b, txn + 1) = TxsOn(b)
    BY <1>1, <2>1, TxFacts
  <2>3. QED
    BY <1>2, <1>6, <2>2 DEF IndexedTo
<1>10. QED
  BY <1>8, <1>9

LEMMA HistoryBegin ==
    ASSUME IndexedTo(TxsOn(cursor)), NEW b \in Blocks, PrevOf(b) = cursor, BeginBlock(b)
    PROVE  /\ phase' = "tx" => IndexedTx'
           /\ phase' # "tx" => IndexedTo(TxsOn(b))'
<1>1. /\ phase' = NextPhase(b, 1)
      /\ info'.block = b
      /\ txn' = 1
      /\ pos' = 1
      /\ UNCHANGED <<filter, address_tx_index, policy_tx_index, asset_tx_index>>
  BY DEF BeginBlock, trees
<1>2. BeforeTxs(b, 1) = TxsOn(cursor)
  BY TxFacts
<1>3. Len(TxsOf[b]) \in Nat /\ DOMAIN TxsOf[b] = 1 .. Len(TxsOf[b])
  BY TxFacts
<1>4. ASSUME phase' = "tx" PROVE IndexedTx'
  <2>1. 1 \in DOMAIN TxsOf[b]
    BY <1>1, <1>3, <1>4 DEF NextPhase
  <2>2. this_tx' \in Txs
    BY <1>1, <2>1, TxFacts DEF this_tx, TxsIn
  <2>3. OutputsUpTo(this_tx', pos') \cup InputsUpTo(this_tx', pos') = {}
    BY <1>1, <2>2, Nothing
  <2>4. Paid(filter', OutputsUpTo(this_tx', pos') \cup InputsUpTo(this_tx', pos')) = {}
    BY <2>3, PaidSets
  <2>5. QED
    BY <1>1, <1>2, <2>4 DEF IndexedTx, IndexedTo
<1>5. ASSUME phase' # "tx" PROVE IndexedTo(TxsOn(b))'
  <2>1. Len(TxsOf[b]) + 1 = 1
    BY <1>1, <1>3, <1>5 DEF NextPhase
  <2>2. TxsOn(b) = TxsOn(cursor)
    BY <1>2, <2>1, TxFacts
  <2>3. QED
    BY <1>1, <2>2 DEF IndexedTo
<1>6. QED
  BY <1>4, <1>5

LEMMA NothingIndexed ==
    ASSUME NEW F, NEW a, NEW p, NEW s
    PROVE  Indexed(F, TxsOn(Origin), a, p, s)
BY BlocksOfOrigin DEF Indexed

LEMMA HistorySnapshots ==
    ASSUME HistoryInv, [Next]_vars, NEW s \in DOMAIN snapshots'
    PROVE  SnapshotIndexed(snapshots'[s])
<1>1. CASE s \in DOMAIN snapshots /\ snapshots'[s] = snapshots[s]
  BY <1>1 DEF HistoryInv
<1>2. CASE (\E snap \in BOOLEAN : Finish(snap)) /\ snapshots'[s] = FinishSave
  <2>1. phase # "tx"
    BY <1>2 DEF Finish, FinishBlock
  <2>2. QED
    BY <1>2, <2>1 DEF HistoryInv, IndexedTo, SnapshotIndexed, FinishSave, SavedTrees, HistoryNow
<1>3. CASE phase \in {"connected", "idle"} /\ snapshots'[s] = ShutdownSave
  BY <1>3 DEF HistoryInv, IndexedTo, SnapshotIndexed, ShutdownSave, SavedTrees, HistoryNow
<1>4. QED
  BY <1>1, <1>2, <1>3, SnapshotSource

LEMMA HistoryStart ==
    ASSUME HistoryInv, NEW W \in WalletSets, Start(W), exact'
    PROVE  phase' # "tx" /\ IndexedTo(TxsOn(cursor))'
<1>1. PICK S : /\ S = EmptyTrees \/ \E s \in DOMAIN snapshots : S = snapshots[s]
               /\ Load(S)
               /\ rollback_buffer' = <<>>
               /\ phase' = "connected"
               /\ exact' => /\ S.history.exact
                            /\ S.history.at = cursor'
                            /\ cursor' = Origin \/ S.history.filter = filter'
  BY StartFrom
<1>2. UNCHANGED snapshots
  BY DEF Start
<1>3. CASE cursor' = Origin
  BY <1>1, <1>3, NothingIndexed DEF IndexedTo
<1>4. CASE cursor' # Origin
  <2>1. S # EmptyTrees
    BY <1>1, <1>4 DEF EmptyTrees
  <2>2. Indexed(filter', TxsOn(cursor'), S.address_txs, S.policy_txs, S.asset_txs)
    BY <1>1, <1>4, <2>1 DEF HistoryInv, SnapshotIndexed
  <2>3. QED
    BY <1>1, <2>2 DEF Load, IndexedTo
<1>5. QED
  BY <1>3, <1>4

\* HistoryInv is inductive, given the mirror.
LEMMA HistoryNext ==
    ASSUME TypeOK, AlignedInv, MirrorInv, HistoryInv, [Next]_vars
    PROVE  HistoryInv'
<1>1. ASSUME exact'
      PROVE  /\ phase' = "tx" => IndexedTx'
             /\ phase' # "tx" => IndexedTo(TxsOn(cursor))'
  <2>1. CASE \E W \in WalletSets : Start(W)
    BY <1>1, <2>1, HistoryStart
  <2>2. CASE \E b \in Blocks : RollForward(b)
    <3>1. PICK b \in Blocks : RollForward(b)
      BY <2>2
    <3>2. exact /\ BeginBlock(b) /\ PrevOf(b) = cursor /\ cursor' = b
      BY <1>1, <3>1 DEF RollForward
    <3>3. IndexedTo(TxsOn(cursor))
      BY <3>2 DEF HistoryInv, BeginBlock
    <3>4. QED
      BY <3>2, <3>3, HistoryBegin
  <2>3. ASSUME NEW p \in PointsOf(cursor), RollBackward(p), phase \in AtRest
        PROVE  phase' # "tx" /\ IndexedTo(TxsOn(cursor))'
    <3>1. /\ exact
          /\ cursor' = p
          /\ UNCHANGED <<filter, address_tx_index, policy_tx_index, asset_tx_index>>
          /\ phase' # "tx"
      BY <1>1, <2>3 DEF RollBackward, IgnoreRollback, BeginRollback, Return, trees
    <3>2. IndexedTo(TxsOn(cursor))
      BY <2>3, <3>1 DEF HistoryInv, AtRest
    <3>3. TxsOn(p) \subseteq TxsOn(cursor)
      BY EarlierPoint DEF TypeOK, SessionTyped
    <3>4. QED
      BY <3>1, <3>2, <3>3, IndexedFewer DEF IndexedTo
  <2>4. CASE FirstResponse
    <3>1. cursor \in PointsOf(cursor)
      BY LastOfChain DEF TypeOK, SessionTyped
    <3>2. QED
      BY <2>3, <2>4, <3>1 DEF FirstResponse, AtRest
  <2>5. CASE \E p \in Point : Rollback(p)
    BY <2>3, <2>5 DEF Rollback, AtRest
  <2>6. CASE Step
    <3>1. exact /\ UNCHANGED <<cursor, exact>>
      BY <1>1, <2>6 DEF Step, syncVars
    <3>2. Aligned /\ Mirror
      BY <3>1 DEF AlignedInv, MirrorInv
    <3>3. CASE ProcessInput
      BY <3>1, <3>2, <3>3, HistoryInput DEF HistoryInv, ProcessInput
    <3>4. CASE ProcessOutput
      BY <3>1, <3>2, <3>4, HistoryOutput DEF HistoryInv, ProcessOutput, AtOutput
    <3>5. CASE EndTx
      <4>1. phase = "tx" /\ info' = info
        BY <3>5 DEF EndTx
      <4>2. info.block = cursor
        BY <3>2, <4>1 DEF Aligned, Processing
      <4>3. IndexedTx
        BY <3>1, <4>1 DEF HistoryInv
      <4>4. QED
        BY <3>1, <3>5, <4>1, <4>2, <4>3, HistoryEndTx
    <3>6. CASE WriteCreatedEvent \/ WriteSpentEvent \/ RollbackStep
      <4>1. /\ phase # "tx" /\ phase' # "tx"
            /\ UNCHANGED <<filter, address_tx_index, policy_tx_index, asset_tx_index>>
        BY <3>6 DEF WriteCreatedEvent, WriteSpentEvent, RollbackStep, UndoBlock, RestoreSpent,
             DeleteSpentRecords, DeleteEvents, DeleteCreated, BlockUndone, EndRollback, Return,
             trees
      <4>2. QED
        BY <3>1, <4>1 DEF HistoryInv, IndexedTo
    <3>7. QED
      BY <2>6, <3>3, <3>4, <3>5, <3>6 DEF Step, BlockStep
  <2>7. CASE Fail
    BY <1>1, <2>7 DEF Fail
  <2>8. CASE \E snap \in BOOLEAN : Finish(snap)
    <3>1. /\ exact /\ phase = "events" /\ phase' = "idle"
          /\ UNCHANGED <<cursor, filter, address_tx_index, policy_tx_index, asset_tx_index>>
      BY <1>1, <2>8 DEF Finish, FinishBlock, Return
    <3>2. QED
      BY <3>1 DEF HistoryInv, IndexedTo
  <2>9. CASE Crash \/ \E saved \in BOOLEAN : Shutdown(saved)
    <3>1. cursor' = Origin /\ phase' = "down"
      BY <2>9 DEF Crash, Shutdown, Exit
    <3>2. QED
      BY <3>1, NothingIndexed DEF IndexedTo
  <2>10. CASE Await \/ UNCHANGED vars
    <3>1. UNCHANGED <<trees, procVars, syncVars>>
      BY <2>10 DEF Await, vars
    <3>2. QED
      BY <1>1, <3>1 DEF trees, procVars, syncVars, HistoryInv, IndexedTx, IndexedTo, this_tx
  <2>11. QED
    BY <2>1, <2>2, <2>4, <2>5, <2>6, <2>7, <2>8, <2>9, <2>10 DEF Next
<1>2. \A s \in DOMAIN snapshots' : SnapshotIndexed(snapshots'[s])
  BY HistorySnapshots
<1>3. QED
  BY <1>1, <1>2 DEF HistoryInv

LEMMA HistoryStartsTrue == Init => HistoryInv
<1>. SUFFICES ASSUME Init PROVE HistoryInv
  OBVIOUS
<1>1. phase = "down" /\ cursor = Origin /\ DOMAIN snapshots = {}
  BY DEF Init, ProcessorInit, StorageInit, NoTree
<1>2. QED
  BY <1>1, NothingIndexed DEF HistoryInv, IndexedTo

(***************************************************************************)
(* While `exact`, every transaction of the announced chain is in the       *)
(* history of every tracked address it pays or spends from and of every    *)
(* tracked token it carries.                                               *)
(***************************************************************************)
THEOREM HistoryStaysComplete == Spec => []HistoryComplete
<1>1. TypeOK /\ (AlignedInv /\ MirrorInv) /\ HistoryInv /\ [Next]_vars => HistoryInv'
  BY HistoryNext
<1>2. HistoryInv => HistoryComplete
  BY DEF HistoryInv, HistoryComplete, Mirrored, IndexedTo, Indexed, Paid, TouchedBy
<1>3. QED
  BY HistoryStartsTrue, TypeCorrect, MirrorInvariant, <1>1, <1>2, PTL DEF Spec

-----------------------------------------------------------------------------
(* The numbers of the events.                                              *)

\* The events of a slot are numbered from 0 without a gap, and with fewer
\* than EventLimit numbers: rollback_block deletes up to the first gap.
Contiguous(log) == \A x \in DOMAIN log : \A i \in 0 .. x[2] : <<x[1], i>> \in DOMAIN log

WithinLimit(log) == \A x \in DOMAIN log : x[2] < EventLimit

Numbered(log) == Contiguous(log) /\ WithinLimit(log)

\* The items of the current block recorded so far, which become events.
RecordedItems == Len(info.utxos_created) + Len(info.utxos_spent)

\* In a transaction no more is recorded than has been read, and the events of
\* its block start from 0.
CountedTx ==
    /\ event_index = 0
    /\ pos <= Len(InputsOf[this_tx]) + Len(OutputsOf[this_tx]) + 1
    /\ \E n \in ItemCounts(info.block) : RecordedItems <= n[txn] + pos - 1

\* While events are written, those with a smaller number are there, and no more
\* can follow than the limit allows.
CountedEvents ==
    /\ event_index < pos
    /\ RecordedItems <= EventLimit
    /\ \A i \in 0 .. event_index - 1 : <<SlotOf[info.block], i>> \in DOMAIN block_events_tree

\* The inductive invariant behind EventsContiguous.
LimitInv ==
    /\ Numbered(block_events_tree)
    /\ phase = "tx" => CountedTx
    /\ phase = "events" => CountedEvents
    /\ \A s \in DOMAIN snapshots : Numbered(snapshots[s].events)

\* One step of a count of items.
LEMMA CountsTyped ==
    ASSUME NEW b \in Blocks, NEW n \in ItemCounts(b), NEW j \in DOMAIN TxsOf[b]
    PROVE  LET t == TxsOf[b][j] IN
           /\ n[j] \in Nat /\ n[j + 1] \in Nat
           /\ Len(InputsOf[t]) \in Nat /\ Len(OutputsOf[t]) \in Nat
           /\ n[j + 1] = n[j] + Len(InputsOf[t]) + Len(OutputsOf[t])
<1>. DEFINE t == TxsOf[b][j]
            l == Len(TxsOf[b])
<1>1. l \in Nat /\ DOMAIN TxsOf[b] = 1 .. l /\ t \in Txs
  BY TxFacts DEF TxsIn
<1>2. Len(InputsOf[t]) \in Nat /\ Len(OutputsOf[t]) \in Nat
  BY <1>1, ChainTypes, LenProperties
<1>3. /\ n \in [1 .. l + 1 -> 0 .. EventLimit]
      /\ n[j + 1] = n[j] + Len(InputsOf[t]) + Len(OutputsOf[t])
  BY DEF ItemCounts
<1>4. j \in 1 .. l + 1 /\ j + 1 \in 1 .. l + 1
  BY <1>1
<1>5. n[j] \in 0 .. EventLimit /\ n[j + 1] \in 0 .. EventLimit
  BY <1>3, <1>4
<1>6. EventLimit \in Nat
  BY ProcessorConstants
<1>7. QED
  BY <1>2, <1>3, <1>5, <1>6

\* Counting, apart from what is counted.
LEMMA Counting ==
    ASSUME NEW a \in Nat, NEW b \in Nat, NEW m \in Nat, NEW p \in Nat, NEW r \in Nat
    PROVE  /\ 1 <= a + b + 1
           /\ p <= a => p <= a + b
           /\ p <= a + b => p + 1 <= a + b + 1
           /\ r <= m + p - 1 => r <= m + (p + 1) - 1 /\ r + 1 <= m + (p + 1) - 1
           /\ r <= m => r <= m + 1 - 1
OBVIOUS

LEMMA LimitBegin ==
    ASSUME NEW b \in Blocks, BeginBlock(b)
    PROVE  /\ phase' = "tx" => CountedTx'
           /\ phase' = "events" => CountedEvents'
<1>1. /\ phase' = NextPhase(b, 1)
      /\ info' = [block |-> b, utxos_created |-> <<>>, utxos_spent |-> <<>>]
      /\ txn' = 1
      /\ pos' = 1
      /\ event_index' = 0
  BY DEF BeginBlock
<1>2. RecordedItems' = 0 /\ info'.block = b
  BY <1>1 DEF RecordedItems
<1>3. EventLimit \in Nat
  BY ProcessorConstants
<1>4. Len(TxsOf[b]) \in Nat /\ DOMAIN TxsOf[b] = 1 .. Len(TxsOf[b])
  BY TxFacts
<1>5. ASSUME phase' = "tx" PROVE CountedTx'
  <2>1. 1 \in DOMAIN TxsOf[b] /\ this_tx' = TxsOf[b][1]
    BY <1>1, <1>4, <1>5 DEF NextPhase, this_tx
  <2>2. PICK n \in ItemCounts(b) : TRUE
    BY LimitIsReasonable
  <2>3. /\ n[1] \in Nat
        /\ Len(InputsOf[this_tx']) \in Nat /\ Len(OutputsOf[this_tx']) \in Nat
    BY <2>1, <2>2, CountsTyped
  <2>4. pos' <= Len(InputsOf[this_tx']) + Len(OutputsOf[this_tx']) + 1
    BY <1>1, <2>3, Counting
  <2>5. RecordedItems' <= n[txn'] + pos' - 1
    BY <1>1, <1>2, <2>3
  <2>6. QED
    BY <1>1, <1>2, <2>4, <2>5 DEF CountedTx
<1>6. ASSUME phase' = "events" PROVE CountedEvents'
  BY <1>1, <1>2, <1>3 DEF CountedEvents
<1>7. QED
  BY <1>5, <1>6

LEMMA InfoCounted ==
    ASSUME info \in RollbackInfo
    PROVE  RecordedItems \in Nat
<1>1. Len(info.utxos_created) \in Nat /\ Len(info.utxos_spent) \in Nat
  BY InfoItems
<1>2. ASSUME NEW a \in Nat, NEW b \in Nat PROVE a + b \in Nat
  OBVIOUS
<1>3. QED
  BY <1>1, <1>2 DEF RecordedItems

\* An item read is an item recorded at most.
LEMMA LimitItem ==
    ASSUME TypeOK, CountedTx, ProcessInput \/ ProcessOutput
    PROVE  CountedTx'
<1>. DEFINE t == this_tx
            b == info.block
<1>1. /\ phase = "tx"
      /\ info \in RollbackInfo
      /\ b \in Blocks
      /\ txn \in DOMAIN TxsOf[b]
      /\ t = TxsOf[b][txn]
      /\ pos \in Nat
  BY TxInBlock DEF ProcessInput, ProcessOutput, AtOutput, this_tx
<1>2. PICK n \in ItemCounts(b) : RecordedItems <= n[txn] + pos - 1
  BY DEF CountedTx
<1>3. /\ n[txn] \in Nat
      /\ Len(InputsOf[t]) \in Nat /\ Len(OutputsOf[t]) \in Nat
  BY <1>1, CountsTyped
<1>4. pos <= Len(InputsOf[t]) + Len(OutputsOf[t])
  <2>1. pos <= Len(InputsOf[t]) \/ pos <= Len(InputsOf[t]) + Len(OutputsOf[t])
    BY DEF ProcessInput, ProcessOutput, AtOutput
  <2>2. QED
    BY <1>1, <1>3, <2>1, Counting
<1>5. UNCHANGED <<txn, event_index>> /\ pos' = pos + 1
  BY DEF ProcessInput, ProcessOutput
<1>6. /\ info.utxos_created \in Seq(Key)
      /\ info.utxos_spent \in Seq(SpentInfo)
  BY <1>1 DEF RollbackInfo
<1>7. RecordedItems \in Nat
  BY <1>1, InfoCounted
<1>8. info'.block = b /\ RecordedItems' \in {RecordedItems, RecordedItems + 1}
  <2>1. CASE info' = info
    BY <2>1 DEF RecordedItems
  <2>2. ASSUME NEW e, info' = [info EXCEPT !.utxos_spent = Append(@, e)]
        PROVE  info'.block = b /\ RecordedItems' = RecordedItems + 1
    <3>1. /\ info'.block = b
          /\ info'.utxos_created = info.utxos_created
          /\ info'.utxos_spent = Append(info.utxos_spent, e)
      BY <1>1, <2>2 DEF RollbackInfo
    <3>2. Len(Append(info.utxos_spent, e)) = Len(info.utxos_spent) + 1
      BY <1>6
    <3>3. Len(info.utxos_created) \in Nat /\ Len(info.utxos_spent) \in Nat
      BY <1>6, LenProperties
    <3>4. ASSUME NEW a \in Nat, NEW c \in Nat PROVE a + (c + 1) = (a + c) + 1
      OBVIOUS
    <3>5. QED
      BY <3>1, <3>2, <3>3, <3>4 DEF RecordedItems
  <2>3. ASSUME NEW e, info' = [info EXCEPT !.utxos_created = Append(@, e)]
        PROVE  info'.block = b /\ RecordedItems' = RecordedItems + 1
    <3>1. /\ info'.block = b
          /\ info'.utxos_spent = info.utxos_spent
          /\ info'.utxos_created = Append(info.utxos_created, e)
      BY <1>1, <2>3 DEF RollbackInfo
    <3>2. Len(Append(info.utxos_created, e)) = Len(info.utxos_created) + 1
      BY <1>6
    <3>3. Len(info.utxos_created) \in Nat /\ Len(info.utxos_spent) \in Nat
      BY <1>6, LenProperties
    <3>4. ASSUME NEW a \in Nat, NEW c \in Nat PROVE (a + 1) + c = (a + c) + 1
      OBVIOUS
    <3>5. RecordedItems' = (Len(info.utxos_created) + 1) + Len(info.utxos_spent)
      BY <3>1, <3>2 DEF RecordedItems
    <3>6. QED
      BY <3>1, <3>3, <3>4, <3>5 DEF RecordedItems
  <2>4. \/ info' = info
        \/ \E e : info' = [info EXCEPT !.utxos_spent = Append(@, e)]
        \/ \E e : info' = [info EXCEPT !.utxos_created = Append(@, e)]
    BY DEF ProcessInput, ProcessOutput, SpendUtxo, CreateUtxo
  <2>5. QED
    BY <2>1, <2>2, <2>3, <2>4
<1>9. this_tx' = t
  BY <1>5, <1>8 DEF this_tx
<1>10. pos' <= Len(InputsOf[t]) + Len(OutputsOf[t]) + 1
  BY <1>1, <1>3, <1>4, <1>5, Counting
<1>11. RecordedItems' <= n[txn] + pos' - 1
  BY <1>1, <1>2, <1>3, <1>5, <1>7, <1>8, Counting
<1>12. QED
  BY <1>5, <1>8, <1>9, <1>10, <1>11 DEF CountedTx

LEMMA LimitEndTx ==
    ASSUME TypeOK, CountedTx, EndTx
    PROVE  /\ phase' = "tx" => CountedTx'
           /\ phase' = "events" => CountedEvents'
<1>. DEFINE t == this_tx
            b == info.block
<1>1. /\ phase = "tx"
      /\ info \in RollbackInfo
      /\ b \in Blocks
      /\ txn \in DOMAIN TxsOf[b]
      /\ t = TxsOf[b][txn]
      /\ pos \in Nat
  BY TxInBlock DEF EndTx, this_tx
<1>2. PICK n \in ItemCounts(b) : RecordedItems <= n[txn] + pos - 1
  BY DEF CountedTx
<1>3. /\ n[txn] \in Nat
      /\ Len(InputsOf[t]) \in Nat /\ Len(OutputsOf[t]) \in Nat
      /\ n[txn + 1] = n[txn] + Len(InputsOf[t]) + Len(OutputsOf[t])
  BY <1>1, CountsTyped
<1>4. pos <= Len(InputsOf[t]) + Len(OutputsOf[t]) + 1
  BY DEF CountedTx
<1>5. RecordedItems \in Nat
  BY <1>1, InfoCounted
<1>6. RecordedItems <= n[txn + 1]
  <2>1. ASSUME NEW r \in Nat, NEW m \in Nat, NEW p \in Nat, NEW a \in Nat, NEW c \in Nat,
               r <= m + p - 1, p <= a + c + 1
        PROVE  r <= m + a + c
    BY <2>1
  <2>2. RecordedItems <= n[txn] + Len(InputsOf[t]) + Len(OutputsOf[t])
    BY <1>1, <1>2, <1>3, <1>4, <1>5, <2>1
  <2>3. QED
    BY <1>3, <2>2
<1>7. /\ UNCHANGED <<info, event_index, block_events_tree>>
      /\ event_index = 0
      /\ pos' = 1
      /\ txn' = txn + 1
      /\ phase' = NextPhase(b, txn + 1)
  BY DEF EndTx, CountedTx
<1>8. Len(TxsOf[b]) \in Nat /\ DOMAIN TxsOf[b] = 1 .. Len(TxsOf[b])
  BY <1>1, TxFacts
<1>9. ASSUME phase' = "tx" PROVE CountedTx'
  <2>1. txn + 1 \in DOMAIN TxsOf[b] /\ this_tx' = TxsOf[b][txn + 1]
    BY <1>1, <1>7, <1>8, <1>9 DEF NextPhase, this_tx
  <2>2. /\ n[txn + 1] \in Nat
        /\ Len(InputsOf[this_tx']) \in Nat /\ Len(OutputsOf[this_tx']) \in Nat
    BY <1>1, <2>1, CountsTyped
  <2>3. pos' <= Len(InputsOf[this_tx']) + Len(OutputsOf[this_tx']) + 1
    BY <1>7, <2>2, Counting
  <2>4. RecordedItems' = RecordedItems
    BY <1>7 DEF RecordedItems
  <2>5. RecordedItems' <= n[txn'] + pos' - 1
    BY <1>5, <1>6, <1>7, <2>2, <2>4, Counting
  <2>6. QED
    BY <1>7, <2>3, <2>5 DEF CountedTx
<1>10. ASSUME phase' = "events" PROVE CountedEvents'
  <2>1. n[txn + 1] \in 0 .. EventLimit
    BY <1>1, <1>8 DEF ItemCounts
  <2>2. EventLimit \in Nat
    BY ProcessorConstants
  <2>3. RecordedItems <= EventLimit
    BY <1>5, <1>6, <2>1, <2>2
  <2>4. RecordedItems' = RecordedItems
    BY <1>7 DEF RecordedItems
  <2>5. QED
    BY <1>7, <2>3, <2>4 DEF CountedEvents
<1>11. QED
  BY <1>9, <1>10

\* The next number after a run from 0 continues it.
LEMMA NumberNext ==
    ASSUME NEW log, Numbered(log), NEW slot, NEW n \in Nat, n < EventLimit, NEW e,
           \A i \in 0 .. n - 1 : <<slot, i>> \in DOMAIN log
    PROVE  /\ Numbered(Insert(log, <<slot, n>>, e))
           /\ \A i \in 0 .. n : <<slot, i>> \in DOMAIN Insert(log, <<slot, n>>, e)
<1>. DEFINE new == Insert(log, <<slot, n>>, e)
<1>1. DOMAIN new = DOMAIN log \cup {<<slot, n>>}
  BY DEF Insert
<1>2. \A i \in 0 .. n : <<slot, i>> \in DOMAIN new
  BY <1>1
<1>3. WithinLimit(new)
  BY <1>1 DEF WithinLimit, Numbered
<1>4. Contiguous(new)
  <2>1. ASSUME NEW x \in DOMAIN log, NEW i \in 0 .. x[2] PROVE <<x[1], i>> \in DOMAIN new
    BY <1>1, <2>1 DEF Contiguous, Numbered
  <2>2. <<slot, n>>[1] = slot /\ <<slot, n>>[2] = n
    OBVIOUS
  <2>3. QED
    BY <1>1, <1>2, <2>1, <2>2 DEF Contiguous
<1>5. QED
  BY <1>2, <1>3, <1>4 DEF Numbered

\* An event gets the next number of its slot, or the limit bounds it.
LEMMA LimitWrite ==
    ASSUME TypeOK, phase = "events", Numbered(block_events_tree), CountedEvents,
           WriteCreatedEvent \/ WriteSpentEvent
    PROVE  Numbered(block_events_tree') /\ CountedEvents'
<1>1. /\ pos \in Nat
      /\ event_index \in Nat
      /\ info \in RollbackInfo
  BY DEF TypeOK, ProcessorTyped, Processing
<1>2. /\ Len(info.utxos_created) \in Nat
      /\ Len(info.utxos_spent) \in Nat
  BY <1>1, InfoItems
<1>3. EventLimit \in Nat
  BY ProcessorConstants
<1>4. pos <= RecordedItems
  <2>1. \/ pos <= Len(info.utxos_created)
        \/ pos <= Len(info.utxos_created) + Len(info.utxos_spent)
    BY DEF WriteCreatedEvent, WriteSpentEvent
  <2>2. QED
    BY <1>1, <1>2, <2>1, Counting DEF RecordedItems
<1>5. event_index < EventLimit
  <2>1. event_index < pos /\ RecordedItems <= EventLimit
    BY DEF CountedEvents
  <2>2. ASSUME NEW e \in Nat, NEW p \in Nat, NEW r \in Nat, NEW l \in Nat,
               e < p, p <= r, r <= l
        PROVE  e < l
    BY <2>2
  <2>3. QED
    BY <1>1, <1>3, <1>4, <2>1, <2>2, InfoCounted
<1>6. UNCHANGED info /\ pos' = pos + 1
  BY DEF WriteCreatedEvent, WriteSpentEvent
<1>7. CASE UNCHANGED <<block_events_tree, event_index>>
  <2>1. event_index < pos'
    BY <1>1, <1>6 DEF CountedEvents
  <2>2. QED
    BY <1>6, <1>7, <2>1 DEF CountedEvents, RecordedItems
<1>8. ASSUME NEW e, event_index' = event_index + 1,
             block_events_tree' = Insert(block_events_tree, <<SlotOf[info.block], event_index>>, e)
      PROVE  Numbered(block_events_tree') /\ CountedEvents'
  <2>1. \A i \in 0 .. event_index - 1 : <<SlotOf[info.block], i>> \in DOMAIN block_events_tree
    BY DEF CountedEvents
  <2>2. /\ Numbered(block_events_tree')
        /\ \A i \in 0 .. event_index : <<SlotOf[info.block], i>> \in DOMAIN block_events_tree'
    BY <1>1, <1>5, <1>8, <2>1, NumberNext
  <2>3. event_index' < pos' /\ event_index' - 1 = event_index
    BY <1>1, <1>6, <1>8 DEF CountedEvents
  <2>4. RecordedItems' <= EventLimit
    BY <1>6 DEF CountedEvents, RecordedItems
  <2>5. QED
    BY <1>6, <2>2, <2>3, <2>4 DEF CountedEvents
<1>9. QED
  BY <1>7, <1>8 DEF WriteCreatedEvent, WriteSpentEvent, WriteEvent, SkipMissing

\* In a numbered log, DeleteEvents finds all the events of the slot.
LEMMA WholeRun ==
    ASSUME TypeOK, Numbered(block_events_tree), NEW slot
    PROVE  EventRun(slot) = {x \in DOMAIN block_events_tree : x[1] = slot}
<1>1. ASSUME NEW x \in DOMAIN block_events_tree, x[1] = slot
      PROVE  x[2] < EventLimit /\ \A i \in 0 .. x[2] : <<slot, i>> \in DOMAIN block_events_tree
  BY <1>1 DEF Numbered, Contiguous, WithinLimit
<1>2. QED
  BY <1>1 DEF EventRun

LEMMA LimitDelete ==
    ASSUME TypeOK, Numbered(block_events_tree), DeleteEvents
    PROVE  Numbered(block_events_tree')
<1>. DEFINE slot == SlotOf[info.block]
<1>1. block_events_tree' = Delete(block_events_tree, EventRun(slot))
  BY DEF DeleteEvents
<1>2. DOMAIN block_events_tree' = {x \in DOMAIN block_events_tree : x[1] # slot}
  BY <1>1, WholeRun DEF Delete
<1>3. QED
  BY <1>2 DEF Numbered, Contiguous, WithinLimit

LEMMA EmptyLog ==
    ASSUME NEW log, DOMAIN log = {}
    PROVE  Numbered(log)
BY DEF Numbered, Contiguous, WithinLimit

LEMMA LimitSnapshots ==
    ASSUME LimitInv, [Next]_vars, NEW s \in DOMAIN snapshots'
    PROVE  Numbered(snapshots'[s].events)
<1>1. FinishSave.events = block_events_tree /\ ShutdownSave.events = block_events_tree
  BY DEF FinishSave, ShutdownSave, SavedTrees
<1>2. \/ snapshots'[s].events = block_events_tree
      \/ s \in DOMAIN snapshots /\ snapshots'[s] = snapshots[s]
  BY <1>1, SnapshotSource
<1>3. QED
  BY <1>2 DEF LimitInv

\* LimitInv is inductive.
LEMMA LimitNext ==
    ASSUME TypeOK, LimitInv, [Next]_vars
    PROVE  LimitInv'
<1>1. CASE \E W \in WalletSets : Start(W)
  <2>1. PICK W \in WalletSets : Start(W)
    BY <1>1
  <2>2. PICK S : /\ S = EmptyTrees \/ \E s \in DOMAIN snapshots : S = snapshots[s]
                 /\ Load(S)
                 /\ phase' = "connected"
    BY <2>1, StartFrom
  <2>3. Numbered(S.events)
    BY <2>2, EmptyLog DEF LimitInv, EmptyTrees, NoTree
  <2>4. QED
    BY <2>2, <2>3, LimitSnapshots DEF LimitInv, Load
<1>2. CASE \E b \in Blocks : RollForward(b)
  <2>1. PICK b \in Blocks : RollForward(b)
    BY <1>2
  <2>2. UNCHANGED block_events_tree
    BY <2>1 DEF RollForward, BeginBlock, RejectBlock, trees
  <2>3. CASE BeginBlock(b)
    BY <2>2, <2>3, LimitBegin, LimitSnapshots DEF LimitInv
  <2>4. CASE RejectBlock(b)
    BY <2>2, <2>4, LimitSnapshots DEF LimitInv, RejectBlock, procVars
  <2>5. QED
    BY <2>1, <2>3, <2>4 DEF RollForward
<1>3. CASE ProcessInput \/ ProcessOutput
  <2>1. phase = "tx" /\ phase' = "tx" /\ UNCHANGED block_events_tree
    BY <1>3 DEF ProcessInput, ProcessOutput, AtOutput
  <2>2. QED
    BY <1>3, <2>1, LimitItem, LimitSnapshots DEF LimitInv
<1>4. CASE EndTx
  <2>1. phase = "tx" /\ UNCHANGED block_events_tree
    BY <1>4 DEF EndTx
  <2>2. QED
    BY <1>4, <2>1, LimitEndTx, LimitSnapshots DEF LimitInv
<1>5. CASE WriteCreatedEvent \/ WriteSpentEvent
  <2>1. phase = "events" /\ phase' = "events"
    BY <1>5 DEF WriteCreatedEvent, WriteSpentEvent
  <2>2. QED
    BY <1>5, <2>1, LimitWrite, LimitSnapshots DEF LimitInv
<1>6. CASE DeleteEvents
  <2>1. phase' = "delete"
    BY <1>6 DEF DeleteEvents
  <2>2. QED
    BY <1>6, <2>1, LimitDelete, LimitSnapshots DEF LimitInv
<1>7. ASSUME UNCHANGED block_events_tree, phase' \notin Processing
      PROVE  LimitInv'
  BY <1>7, LimitSnapshots DEF LimitInv, Processing
<1>8. CASE \/ UndoBlock \/ RestoreSpent \/ DeleteSpentRecords
           \/ DeleteCreated \/ BlockUndone \/ EndRollback
  <2>1. UNCHANGED block_events_tree /\ phase' \notin Processing
    BY <1>8 DEF UndoBlock, RestoreSpent, DeleteSpentRecords, DeleteCreated, BlockUndone,
                EndRollback, Return, Processing, trees
  <2>2. QED
    BY <1>7, <2>1
<1>9. CASE \/ FirstResponse \/ Fail
           \/ (\E p \in Point : Rollback(p))
           \/ (\E snap \in BOOLEAN : Finish(snap))
  <2>1. UNCHANGED block_events_tree /\ phase' \notin Processing
    BY <1>9 DEF FirstResponse, Rollback, RollBackward, IgnoreRollback, BeginRollback, Fail,
                FailBlock, Finish, FinishBlock, Return, Processing, trees
  <2>2. QED
    BY <1>7, <2>1
<1>10. CASE Crash \/ \E saved \in BOOLEAN : Shutdown(saved)
  <2>1. phase' = "down" /\ block_events_tree' = NoTree
    BY <1>10 DEF Crash, Shutdown, Exit, Load, EmptyTrees
  <2>2. Numbered(block_events_tree')
    BY <2>1, EmptyLog DEF NoTree
  <2>3. QED
    BY <2>1, <2>2, LimitSnapshots DEF LimitInv
<1>11. CASE Await \/ UNCHANGED vars
  <2>1. UNCHANGED <<trees, procVars, syncVars>>
    BY <1>11 DEF Await, vars
  <2>2. QED
    BY <2>1, LimitSnapshots DEF trees, procVars, LimitInv, CountedTx, CountedEvents,
       RecordedItems, this_tx
<1>12. QED
  BY <1>1, <1>2, <1>3, <1>4, <1>5, <1>6, <1>8, <1>9, <1>10, <1>11
     DEF Next, Step, BlockStep, RollbackStep

LEMMA LimitStartsTrue == Init => LimitInv
<1>. SUFFICES ASSUME Init PROVE LimitInv
  OBVIOUS
<1>1. phase = "down" /\ DOMAIN block_events_tree = {} /\ DOMAIN snapshots = {}
  BY DEF Init, ProcessorInit, StorageInit, NoTree
<1>2. QED
  BY <1>1, EmptyLog DEF LimitInv

(***************************************************************************)
(* In every state, and in every snapshot, each slot's events are numbered  *)
(* from 0 without a gap and below the limit of rollback_block.             *)
(***************************************************************************)
THEOREM LimitInvariant == Spec => []LimitInv
<1>1. TypeOK /\ LimitInv /\ [Next]_vars => LimitInv'
  BY LimitNext
<1>2. QED
  BY LimitStartsTrue, TypeCorrect, <1>1, PTL DEF Spec

(***************************************************************************)
(* The events of a slot are numbered from 0 without a gap in every state:  *)
(* after failed blocks, a block written over the events of another, a      *)
(* rollback or a crash in the middle of either.  It rests on               *)
(* LimitIsReasonable: beyond the limit rollback_block leaves events behind.*)
(***************************************************************************)
THEOREM EventsStayContiguous == Spec => []EventsContiguous
<1>1. LimitInv => EventsContiguous
  BY DEF LimitInv, Numbered, Contiguous, EventsContiguous
<1>2. QED
  BY LimitInvariant, <1>1, PTL

-----------------------------------------------------------------------------
(* The events themselves.                                                  *)

\* The events of a slot, whatever their numbers.
Written(log, slot) == {log[x] : x \in {y \in DOMAIN log : y[1] = slot}}

\* The events that process_block writes.
Created(k, b) == [type |-> "CREATED", key |-> k, block |-> b]

Spent(k, b) == [type |-> "SPENT", key |-> k, block |-> b]

\* The events of block b: an output spent in its own block has no CREATED.
EventsIn(F, b) ==
    {Created(k, b) : k \in Tracked(F, OutputsBy(TxsIn(b)) \ InputsBy(TxsIn(b)))}
        \cup {Spent(k, b) : k \in Tracked(F, InputsBy(TxsIn(b)))}

\* The log is the one of the blocks B.
LogOf(F, B, log) ==
    /\ \A b \in B : Written(log, SlotOf[b]) = EventsIn(F, b)
    /\ \A x \in DOMAIN log : \E b \in B : SlotOf[b] = x[1]

\* The events of block x written when the loop has reached the n-th item.
EventsUpTo(x, n, utxos) ==
    LET m == Len(x.utxos_created) IN
    {Created(x.utxos_created[i], x.block) :
        i \in {j \in DOMAIN x.utxos_created : j < n /\ x.utxos_created[j] \in DOMAIN utxos}}
    \cup {Spent(x.utxos_spent[i].key, x.block) : i \in {j \in DOMAIN x.utxos_spent : m + j < n}}

\* The log while the events of block x are written: those of the blocks
\* before it, and some of its own, numbered up to next.
LogWith(F, x, n, utxos, next, log) ==
    /\ \A b \in BlocksOf(PrevOf(x.block)) : Written(log, SlotOf[b]) = EventsIn(F, b)
    /\ \A y \in DOMAIN log : \E b \in BlocksOf(x.block) : SlotOf[b] = y[1]
    /\ Written(log, SlotOf[x.block]) = EventsUpTo(x, n, utxos)
    /\ \A y \in DOMAIN log : y[1] = SlotOf[x.block] => y[2] < next

\* What the log is in each phase: a block's events are deleted while its other
\* trees are still being undone.
EventSteps ==
    /\ phase \in AtRest => LogOf(filter, BlocksOf(cursor), block_events_tree)
    /\ phase = "undo" => LogOf(filter, BlocksOf(TreePoint), block_events_tree)
    /\ phase = "tx" => LogOf(filter, BlocksOf(PrevOf(info.block)), block_events_tree)
    /\ phase = "events" =>
         LogWith(filter, info, pos, utxo_tree, event_index, block_events_tree)
    /\ phase \in {"restore", "unevents"} =>
         LogOf(filter, BlocksOf(info.block), block_events_tree)
    /\ phase = "delete" => LogOf(filter, BlocksOf(PrevOf(info.block)), block_events_tree)

\* A snapshot saved by an exact session has the event log of its chain.
SnapshotLog(S) ==
    S.history.exact => LogOf(S.history.filter, BlocksOf(S.history.at), S.events)

\* The inductive invariant behind EventsMirrorChain.
EventInv ==
    /\ exact => EventSteps
    /\ \A s \in DOMAIN snapshots : SnapshotLog(snapshots[s])

LEMMA EmptyEvents ==
    ASSUME NEW F, NEW log, DOMAIN log = {}
    PROVE  LogOf(F, BlocksOf(Origin), log)
BY BlocksOfOrigin DEF LogOf

LEMMA OriginLog ==
    ASSUME NEW F, NEW G, NEW log, LogOf(F, BlocksOf(Origin), log)
    PROVE  LogOf(G, BlocksOf(Origin), log)
BY BlocksOfOrigin DEF LogOf

\* Blocks of a chain have slots of their own.
LEMMA OwnSlot ==
    ASSUME NEW q \in Point, NEW b1 \in BlocksOf(q), NEW b2 \in BlocksOf(q), b1 # b2
    PROVE  SlotOf[b1] # SlotOf[b2]
<1>1. b1 \in Blocks /\ b2 \in Blocks
  BY LastOfChain
<1>2. SlotOf[b1] \in Nat /\ SlotOf[b2] \in Nat
  BY <1>1, ChainTypes
<1>3. SlotOf[b1] < SlotOf[b2] \/ SlotOf[b2] < SlotOf[b1]
  BY TwoBlocks
<1>4. QED
  BY <1>2, <1>3

LEMMA PrevSlots ==
    ASSUME NEW b \in Blocks
    PROVE  /\ \A a \in BlocksOf(PrevOf(b)) : SlotOf[a] # SlotOf[b]
           /\ BlocksOf(b) = BlocksOf(PrevOf(b)) \cup {b}
<1>1. b \in Point
  BY DEF Point
<1>2. QED
  BY <1>1, PrevFacts, OwnSlot

\* Before its first event a block has none.
LEMMA LogBegin ==
    ASSUME NEW F, NEW x \in RollbackInfo, NEW log, NEW utxos,
           LogOf(F, BlocksOf(PrevOf(x.block)), log)
    PROVE  LogWith(F, x, 1, utxos, 0, log)
<1>1. x.block \in Blocks
  BY InfoItems
<1>2. \A y \in DOMAIN log : y[1] # SlotOf[x.block]
  BY <1>1, PrevSlots DEF LogOf
<1>3. Written(log, SlotOf[x.block]) = {}
  BY <1>2 DEF Written
<1>4. EventsUpTo(x, 1, utxos) = {}
  <2>1. /\ DOMAIN x.utxos_created = 1 .. Len(x.utxos_created)
        /\ DOMAIN x.utxos_spent = 1 .. Len(x.utxos_spent)
        /\ Len(x.utxos_created) \in Nat
        /\ Len(x.utxos_spent) \in Nat
    BY InfoItems
  <2>2. \A j \in DOMAIN x.utxos_created : ~(j < 1)
    BY <2>1
  <2>3. \A j \in DOMAIN x.utxos_spent : ~(Len(x.utxos_created) + j < 1)
    BY <2>1
  <2>4. QED
    BY <2>2, <2>3 DEF EventsUpTo
<1>5. QED
  BY <1>1, <1>2, <1>3, <1>4, PrevSlots DEF LogWith, LogOf

\* One more event at the end.
LEMMA WriteNext ==
    ASSUME NEW F, NEW x \in RollbackInfo, NEW n, NEW utxos, NEW next \in Nat,
           NEW log, IsTree(log, Nat \X Nat, Event),
           LogWith(F, x, n, utxos, next, log),
           NEW e, NEW n2, EventsUpTo(x, n2, utxos) = EventsUpTo(x, n, utxos) \cup {e}
    PROVE  LogWith(F, x, n2, utxos, next + 1, Insert(log, <<SlotOf[x.block], next>>, e))
<1>. DEFINE slot == SlotOf[x.block]
            new == Insert(log, <<slot, next>>, e)
<1>1. x.block \in Blocks
  BY InfoItems
<1>2. DOMAIN new = DOMAIN log \cup {<<slot, next>>}
  BY DEF Insert
<1>3. <<slot, next>> \notin DOMAIN log
  <2>1. <<slot, next>>[1] = slot /\ <<slot, next>>[2] = next
    OBVIOUS
  <2>2. QED
    BY <2>1 DEF LogWith
<1>4. new[<<slot, next>>] = e /\ \A y \in DOMAIN log : new[y] = log[y]
  BY <1>3 DEF Insert
<1>5. Written(new, slot) = Written(log, slot) \cup {e}
  BY <1>2, <1>4 DEF Written
<1>6. ASSUME NEW s, s # slot PROVE Written(new, s) = Written(log, s)
  BY <1>2, <1>4, <1>6 DEF Written
<1>7. \A b \in BlocksOf(PrevOf(x.block)) : Written(new, SlotOf[b]) = EventsIn(F, b)
  BY <1>1, <1>6, PrevSlots DEF LogWith
<1>8. \A y \in DOMAIN new : \E b \in BlocksOf(x.block) : SlotOf[b] = y[1]
  <2>1. x.block \in BlocksOf(x.block)
    BY <1>1, PrevFacts
  <2>2. QED
    BY <1>2, <2>1 DEF LogWith
<1>9. \A y \in DOMAIN new : y[1] = slot => y[2] < next + 1
  <2>1. ASSUME NEW y \in DOMAIN log, y[1] = slot PROVE y[2] < next + 1
    <3>1. y[2] \in Nat
      BY DEF IsTree
    <3>2. y[2] < next
      BY <2>1 DEF LogWith
    <3>3. QED
      BY <3>1, <3>2
  <2>2. QED
    BY <1>2, <2>1
<1>10. Written(new, slot) = EventsUpTo(x, n2, utxos)
  BY <1>5 DEF LogWith
<1>11. QED
  BY <1>7, <1>8, <1>9, <1>10 DEF LogWith

\* One step of the two loops that write events.
LEMMA NextCreated ==
    ASSUME NEW x \in RollbackInfo, NEW n \in Nat \ {0}, n <= Len(x.utxos_created), NEW utxos
    PROVE  LET k == x.utxos_created[n] IN
           /\ k \in AllCreated(x)
           /\ k \in DOMAIN utxos =>
                EventsUpTo(x, n + 1, utxos) = EventsUpTo(x, n, utxos) \cup {Created(k, x.block)}
           /\ k \notin DOMAIN utxos => EventsUpTo(x, n + 1, utxos) = EventsUpTo(x, n, utxos)
<1>. DEFINE c == x.utxos_created
            s == x.utxos_spent
            k == c[n]
            m == Len(c)
            old == {j \in DOMAIN c : j < n /\ c[j] \in DOMAIN utxos}
            new == {j \in DOMAIN c : j < n + 1 /\ c[j] \in DOMAIN utxos}
<1>1. DOMAIN c = 1 .. m /\ DOMAIN s = 1 .. Len(s) /\ m \in Nat /\ Len(s) \in Nat
  BY InfoItems
<1>2. \A j \in DOMAIN s : ~(m + j < n) /\ ~(m + j < n + 1)
  BY <1>1
<1>3. n \in DOMAIN c /\ k \in AllCreated(x)
  BY <1>1 DEF AllCreated
<1>4. k \in DOMAIN utxos => new = old \cup {n}
  BY <1>1, <1>3
<1>5. k \notin DOMAIN utxos => new = old
  BY <1>1, <1>3
<1>6. {j \in DOMAIN s : m + j < n} = {} /\ {j \in DOMAIN s : m + j < n + 1} = {}
  BY <1>2
<1>7. /\ EventsUpTo(x, n, utxos) = {Created(c[i], x.block) : i \in old}
      /\ EventsUpTo(x, n + 1, utxos) = {Created(c[i], x.block) : i \in new}
  BY <1>6 DEF EventsUpTo
<1>8. QED
  BY <1>3, <1>4, <1>5, <1>7

LEMMA NextSpent ==
    ASSUME NEW x \in RollbackInfo, NEW n \in Nat, n > Len(x.utxos_created),
           n <= Len(x.utxos_created) + Len(x.utxos_spent), NEW utxos
    PROVE  EventsUpTo(x, n + 1, utxos) = EventsUpTo(x, n, utxos)
              \cup {Spent(x.utxos_spent[n - Len(x.utxos_created)].key, x.block)}
<1>. DEFINE c == x.utxos_created
            s == x.utxos_spent
            m == Len(c)
            old == {j \in DOMAIN s : m + j < n}
            new == {j \in DOMAIN s : m + j < n + 1}
<1>1. DOMAIN c = 1 .. m /\ DOMAIN s = 1 .. Len(s) /\ m \in Nat /\ Len(s) \in Nat
  BY InfoItems
<1>2. n - m \in DOMAIN s /\ new = old \cup {n - m}
  <2>1. ASSUME NEW a \in Nat, NEW b \in Nat, n > a, n <= a + b
        PROVE  n - a \in 1 .. b /\ \A j \in 1 .. b : a + j < n + 1 <=> a + j < n \/ j = n - a
    BY <2>1
  <2>2. n - m \in 1 .. Len(s) /\ \A j \in 1 .. Len(s) : m + j < n + 1 <=> m + j < n \/ j = n - m
    BY <1>1, <2>1
  <2>3. QED
    BY <1>1, <2>2
<1>3. {j \in DOMAIN c : j < n + 1 /\ c[j] \in DOMAIN utxos}
        = {j \in DOMAIN c : j < n /\ c[j] \in DOMAIN utxos}
  BY <1>1
<1>4. {Spent(s[i].key, x.block) : i \in new}
        = {Spent(s[i].key, x.block) : i \in old} \cup {Spent(s[n - m].key, x.block)}
  BY <1>2
<1>5. QED
  BY <1>3, <1>4 DEF EventsUpTo

LEMMA AllEvents ==
    ASSUME NEW x \in RollbackInfo, NEW n \in Nat,
           n > Len(x.utxos_created) + Len(x.utxos_spent), NEW utxos
    PROVE  EventsUpTo(x, n, utxos) =
               {Created(k, x.block) : k \in AllCreated(x) \cap DOMAIN utxos}
                   \cup {Spent(k, x.block) : k \in AllSpent(x)}
<1>. DEFINE c == x.utxos_created
            s == x.utxos_spent
            m == Len(c)
<1>1. DOMAIN c = 1 .. m /\ DOMAIN s = 1 .. Len(s) /\ m \in Nat /\ Len(s) \in Nat
  BY InfoItems
<1>2. (\A j \in DOMAIN c : j < n) /\ \A j \in DOMAIN s : m + j < n
  <2>1. ASSUME NEW a \in Nat, NEW b \in Nat, n > a + b
        PROVE  (\A j \in 1 .. a : j < n) /\ \A j \in 1 .. b : a + j < n
    BY <2>1
  <2>2. QED
    BY <1>1, <2>1
<1>3. {j \in DOMAIN c : j < n /\ c[j] \in DOMAIN utxos} = {j \in DOMAIN c : c[j] \in DOMAIN utxos}
  BY <1>2
<1>4. {j \in DOMAIN s : m + j < n} = DOMAIN s
  BY <1>2
<1>5. {Created(c[i], x.block) : i \in {j \in DOMAIN c : c[j] \in DOMAIN utxos}}
        = {Created(k, x.block) : k \in AllCreated(x) \cap DOMAIN utxos}
  BY DEF AllCreated
<1>6. {Spent(s[i].key, x.block) : i \in DOMAIN s} = {Spent(k, x.block) : k \in AllSpent(x)}
  BY DEF AllSpent
<1>7. QED
  BY <1>3, <1>4, <1>5, <1>6 DEF EventsUpTo

\* What the mirror says of the block whose events are written.
LEMMA BlockWritten ==
    ASSUME TypeOK, Mirror, phase = "events"
    PROVE  /\ info \in RollbackInfo
           /\ info.block \in Blocks
           /\ DOMAIN utxo_tree = Tracked(filter, LiveAt(info.block))
           /\ \A k \in DOMAIN utxo_tree : utxo_tree[k] \in HomesOf(info.block, k[1])
           /\ AllCreated(info) = Tracked(filter, OutputsBy(TxsIn(info.block)))
           /\ AllSpent(info) = Tracked(filter, InputsBy(TxsIn(info.block)))
<1>1. info \in RollbackInfo
  BY DEF TypeOK, ProcessorTyped, Processing
<1>2. BlockTrees(info, Len(TxsOf[info.block]) + 1, {}, {}, filter, utxo_tree, spent_utxo_index)
  BY DEF Mirror, MirrorSteps
<1>3. /\ TreesAt(info.block, filter, utxo_tree, spent_utxo_index, LiveAt(info.block),
                 InputsBy(TxsOn(info.block)))
      /\ Recorded(info, filter)
  BY <1>1, <1>2, WholeBlock
<1>4. QED
  BY <1>1, <1>3, InfoItems DEF TreesAt, UtxosAre, Recorded, Records

\* A step that writes an event or skips a spent output.
LEMMA LogWrite ==
    ASSUME TypeOK, Mirror, phase = "events", WriteCreatedEvent \/ WriteSpentEvent,
           LogWith(filter, info, pos, utxo_tree, event_index, block_events_tree)
    PROVE  LogWith(filter, info, pos', utxo_tree, event_index', block_events_tree')
<1>1. /\ info \in RollbackInfo
      /\ pos \in Nat \ {0}
      /\ event_index \in Nat
      /\ pos' = pos + 1
      /\ IsTree(block_events_tree, Nat \X Nat, Event)
  BY BlockWritten DEF TypeOK, ProcessorTyped, TreesTyped, WriteCreatedEvent, WriteSpentEvent
<1>2. CASE WriteCreatedEvent
  <2>. DEFINE k == info.utxos_created[pos]
  <2>1. pos <= Len(info.utxos_created)
    BY <1>2 DEF WriteCreatedEvent
  <2>2. /\ k \in AllCreated(info)
        /\ k \in DOMAIN utxo_tree => EventsUpTo(info, pos + 1, utxo_tree) =
               EventsUpTo(info, pos, utxo_tree) \cup {Created(k, info.block)}
        /\ k \notin DOMAIN utxo_tree =>
               EventsUpTo(info, pos + 1, utxo_tree) = EventsUpTo(info, pos, utxo_tree)
    BY <1>1, <2>1, NextCreated
  <2>3. CASE k \in DOMAIN utxo_tree
    <3>1. utxo_tree[k] = info.block
      <4>1. utxo_tree[k] \in HomesOf(info.block, k[1])
        BY <2>3, BlockWritten
      <4>2. k \in OutputsBy(TxsIn(info.block))
        BY <2>2, BlockWritten DEF Tracked
      <4>3. info.block \in HomesOf(info.block, k[1])
        BY <4>2, BlockWritten, KeyOwner, HomesOfNext
      <4>4. info.block \in Point
        BY BlockWritten DEF Point
      <4>5. QED
        BY <4>1, <4>3, <4>4, OneHome
    <3>2. /\ event_index' = event_index + 1
          /\ block_events_tree' = Insert(block_events_tree, <<SlotOf[info.block], event_index>>,
                                         Created(k, info.block))
      BY <1>2, <2>3, <3>1 DEF WriteCreatedEvent, WriteEvent, Created
    <3>3. QED
      BY <1>1, <2>2, <2>3, <3>2, WriteNext
  <2>4. CASE k \notin DOMAIN utxo_tree
    <3>1. UNCHANGED <<block_events_tree, event_index>>
      BY <1>2, <2>4 DEF WriteCreatedEvent, SkipMissing
    <3>2. QED
      BY <1>1, <2>2, <2>4, <3>1 DEF LogWith
  <2>5. QED
    BY <2>3, <2>4
<1>3. CASE WriteSpentEvent
  <2>. DEFINE k == info.utxos_spent[pos - Len(info.utxos_created)].key
  <2>1. /\ event_index' = event_index + 1
        /\ block_events_tree' = Insert(block_events_tree, <<SlotOf[info.block], event_index>>,
                                       Spent(k, info.block))
    BY <1>3 DEF WriteSpentEvent, WriteEvent, Spent
  <2>2. EventsUpTo(info, pos + 1, utxo_tree) =
          EventsUpTo(info, pos, utxo_tree) \cup {Spent(k, info.block)}
    BY <1>1, <1>3, NextSpent DEF WriteSpentEvent
  <2>3. QED
    BY <1>1, <2>1, <2>2, WriteNext
<1>4. QED
  BY <1>2, <1>3

\* All the events of the block are written.
LEMMA LogFinish ==
    ASSUME TypeOK, Mirror, phase = "events",
           pos > Len(info.utxos_created) + Len(info.utxos_spent),
           LogWith(filter, info, pos, utxo_tree, event_index, block_events_tree)
    PROVE  LogOf(filter, BlocksOf(info.block), block_events_tree)
<1>. DEFINE b == info.block
            ox == OutputsBy(TxsIn(b))
            ix == InputsBy(TxsIn(b))
<1>1. info \in RollbackInfo /\ b \in Blocks /\ pos \in Nat
  BY BlockWritten DEF TypeOK, ProcessorTyped
<1>2. Written(block_events_tree, SlotOf[b]) =
          {Created(k, b) : k \in AllCreated(info) \cap DOMAIN utxo_tree}
              \cup {Spent(k, b) : k \in AllSpent(info)}
  BY <1>1, AllEvents DEF LogWith
<1>3. AllCreated(info) \cap DOMAIN utxo_tree = Tracked(filter, ox \ ix)
  <2>. DEFINE q == PrevOf(b)
              iq == InputsBy(TxsOn(q))
              oq == OutputsBy(TxsOn(q))
  <2>1. /\ AllCreated(info) = Tracked(filter, ox)
        /\ DOMAIN utxo_tree = Tracked(filter, OutputsBy(TxsOn(b)) \ InputsBy(TxsOn(b)))
    BY BlockWritten DEF LiveAt
  <2>2. /\ OutputsBy(TxsOn(b)) = oq \cup ox
        /\ InputsBy(TxsOn(b)) = iq \cup ix
        /\ ox \cap oq = {}
        /\ iq \subseteq oq
    BY <1>1, BlockSets
  <2>3. DOMAIN utxo_tree = Tracked(filter, (oq \cup ox) \ (iq \cup ix))
    BY <2>1, <2>2
  <2>. HIDE DEF iq, oq, ix, ox
  <2>4. Tracked(filter, ox) \cap Tracked(filter, (oq \cup ox) \ (iq \cup ix))
          = Tracked(filter, ox \ ix)
    BY <2>2 DEF Tracked
  <2>5. QED
    BY <2>1, <2>3, <2>4
<1>4. AllSpent(info) = Tracked(filter, ix)
  BY BlockWritten
<1>5. Written(block_events_tree, SlotOf[b]) = EventsIn(filter, b)
  BY <1>2, <1>3, <1>4 DEF EventsIn
<1>6. QED
  BY <1>1, <1>5, PrevSlots DEF LogWith, LogOf

\* Without the events of its last block the log is that of the chain before.
LEMMA LogUndo ==
    ASSUME NEW F, NEW b \in Blocks, NEW log, LogOf(F, BlocksOf(b), log)
    PROVE  LogOf(F, BlocksOf(PrevOf(b)), Delete(log, {x \in DOMAIN log : x[1] = SlotOf[b]}))
<1>. DEFINE new == Delete(log, {x \in DOMAIN log : x[1] = SlotOf[b]})
<1>1. DOMAIN new = {x \in DOMAIN log : x[1] # SlotOf[b]}
  BY DEF Delete
<1>2. \A x \in DOMAIN new : new[x] = log[x]
  BY DEF Delete
<1>3. ASSUME NEW s, s # SlotOf[b] PROVE Written(new, s) = Written(log, s)
  BY <1>1, <1>2, <1>3 DEF Written
<1>4. \A a \in BlocksOf(PrevOf(b)) : Written(new, SlotOf[a]) = EventsIn(F, a)
  BY <1>3, PrevSlots DEF LogOf
<1>5. \A x \in DOMAIN new : \E a \in BlocksOf(PrevOf(b)) : SlotOf[a] = x[1]
  BY <1>1, PrevSlots DEF LogOf
<1>6. QED
  BY <1>4, <1>5 DEF LogOf

\* The end of process_block leaves the log of the whole chain.
LEMMA FinishLog ==
    ASSUME TypeOK, AlignedInv, MirrorInv, EventInv, exact, \E snap \in BOOLEAN : Finish(snap)
    PROVE  LogOf(filter, BlocksOf(cursor), block_events_tree)
<1>1. /\ phase = "events"
      /\ pos > Len(info.utxos_created) + Len(info.utxos_spent)
  BY DEF Finish, FinishBlock
<1>2. Mirror /\ info.block = cursor
  BY <1>1 DEF MirrorInv, AlignedInv, Aligned, Processing
<1>3. LogWith(filter, info, pos, utxo_tree, event_index, block_events_tree)
  BY <1>1 DEF EventInv, EventSteps
<1>4. QED
  BY <1>1, <1>2, <1>3, LogFinish

\* A saved snapshot has the log of the chain when the tree does.
LEMMA EventSnapshots ==
    ASSUME TypeOK, AlignedInv, MirrorInv, EventInv, [Next]_vars, NEW s \in DOMAIN snapshots'
    PROVE  SnapshotLog(snapshots'[s])
<1>1. CASE s \in DOMAIN snapshots /\ snapshots'[s] = snapshots[s]
  BY <1>1 DEF EventInv
<1>2. CASE (\E snap \in BOOLEAN : Finish(snap)) /\ snapshots'[s] = FinishSave
  <2>1. /\ snapshots'[s].history = HistoryNow
        /\ snapshots'[s].events = block_events_tree
    BY <1>2 DEF FinishSave, SavedTrees
  <2>2. ASSUME exact PROVE LogOf(filter, BlocksOf(cursor), block_events_tree)
    BY <1>2, <2>2, FinishLog
  <2>3. QED
    BY <2>1, <2>2 DEF SnapshotLog, HistoryNow
<1>3. CASE phase \in {"connected", "idle"} /\ snapshots'[s] = ShutdownSave
  <2>1. /\ snapshots'[s].history = HistoryNow
        /\ snapshots'[s].events = block_events_tree
    BY <1>3 DEF ShutdownSave, SavedTrees
  <2>2. exact => LogOf(filter, BlocksOf(cursor), block_events_tree)
    BY <1>3 DEF EventInv, EventSteps, AtRest
  <2>3. QED
    BY <2>1, <2>2 DEF SnapshotLog, HistoryNow
<1>4. QED
  BY <1>1, <1>2, <1>3, SnapshotSource

LEMMA EventStart ==
    ASSUME EventInv, NEW W \in WalletSets, Start(W), exact'
    PROVE  EventSteps'
<1>1. PICK S : /\ S = EmptyTrees \/ \E s \in DOMAIN snapshots : S = snapshots[s]
               /\ Load(S)
               /\ rollback_buffer' = <<>>
               /\ phase' = "connected"
               /\ exact' => /\ S.history.exact
                            /\ S.history.at = cursor'
                            /\ cursor' = Origin \/ S.history.filter = filter'
  BY StartFrom
<1>2. LogOf(S.history.filter, BlocksOf(cursor'), S.events)
  <2>1. CASE S = EmptyTrees
    <3>1. DOMAIN S.events = {} /\ S.history.at = Origin
      BY <2>1 DEF EmptyTrees, NoTree
    <3>2. cursor' = Origin
      BY <1>1, <3>1
    <3>3. QED
      BY <3>1, <3>2, EmptyEvents
  <2>2. CASE \E s \in DOMAIN snapshots : S = snapshots[s]
    BY <1>1, <2>2 DEF EventInv, SnapshotLog
  <2>3. QED
    BY <1>1, <2>1, <2>2
<1>3. LogOf(filter', BlocksOf(cursor'), S.events)
  BY <1>1, <1>2, OriginLog
<1>4. block_events_tree' = S.events
  BY <1>1 DEF Load
<1>5. QED
  BY <1>1, <1>3, <1>4 DEF EventSteps, AtRest

LEMMA EventStep ==
    ASSUME TypeOK, AlignedInv, MirrorInv, LimitInv, EventInv, exact, Step
    PROVE  EventSteps'
<1>1. UNCHANGED <<cursor, exact>> /\ UNCHANGED syncVars
  BY DEF Step, syncVars
<1>2. Aligned /\ Mirror /\ EventSteps
  BY DEF AlignedInv, MirrorInv, EventInv
<1>3. CASE ProcessInput \/ ProcessOutput
  <2>1. /\ phase = "tx" /\ phase' = "tx"
        /\ UNCHANGED <<filter, block_events_tree>>
        /\ info'.block = info.block
    BY <1>2, <1>3, MirrorInput, MirrorOutput DEF ProcessInput, ProcessOutput, AtOutput
  <2>2. QED
    BY <1>2, <2>1 DEF EventSteps, AtRest
<1>4. CASE EndTx
  <2>1. /\ phase = "tx" /\ phase' \in {"tx", "events"}
        /\ UNCHANGED <<filter, block_events_tree, utxo_tree, info, event_index>>
        /\ pos' = 1
        /\ info \in RollbackInfo
        /\ event_index = 0
    BY <1>4, TxInBlock DEF EndTx, NextPhase, LimitInv, CountedTx
  <2>2. LogOf(filter, BlocksOf(PrevOf(info.block)), block_events_tree)
    BY <1>2, <2>1 DEF EventSteps
  <2>3. LogWith(filter, info, 1, utxo_tree, 0, block_events_tree)
    BY <2>1, <2>2, LogBegin
  <2>4. QED
    BY <2>1, <2>2, <2>3 DEF EventSteps, AtRest
<1>5. CASE WriteCreatedEvent \/ WriteSpentEvent
  <2>1. /\ phase = "events" /\ phase' = "events"
        /\ UNCHANGED <<filter, utxo_tree, info>>
    BY <1>5 DEF WriteCreatedEvent, WriteSpentEvent
  <2>2. LogWith(filter, info, pos', utxo_tree, event_index', block_events_tree')
    BY <1>2, <1>5, <2>1, LogWrite DEF EventSteps
  <2>3. QED
    BY <2>1, <2>2 DEF EventSteps, AtRest
<1>6. CASE UndoBlock
  <2>1. /\ phase = "undo" /\ phase' = "restore"
        /\ MoreToUndo
        /\ info' = LastInfo
        /\ UNCHANGED <<filter, block_events_tree>>
    BY <1>6 DEF UndoBlock
  <2>2. LogOf(filter, BlocksOf(LastInfo.block), block_events_tree)
    BY <1>2, <2>1 DEF EventSteps, TreePoint
  <2>3. QED
    BY <2>1, <2>2 DEF EventSteps, AtRest
<1>7. CASE RestoreSpent \/ DeleteSpentRecords \/ DeleteCreated
  <2>1. /\ \/ phase \in {"restore", "unevents"} /\ phase' \in {"restore", "unevents"}
           \/ phase = "delete" /\ phase' = "delete"
        /\ UNCHANGED <<filter, block_events_tree, info>>
    BY <1>7 DEF RestoreSpent, DeleteSpentRecords, DeleteCreated
  <2>2. QED
    BY <1>2, <2>1 DEF EventSteps, AtRest
<1>8. CASE DeleteEvents
  <2>1. /\ phase = "unevents" /\ phase' = "delete"
        /\ UNCHANGED <<filter, info>>
        /\ block_events_tree' = Delete(block_events_tree, EventRun(SlotOf[info.block]))
    BY <1>8 DEF DeleteEvents
  <2>2. EventRun(SlotOf[info.block]) = {x \in DOMAIN block_events_tree : x[1] = SlotOf[info.block]}
    BY WholeRun DEF LimitInv
  <2>3. info.block \in Blocks
    BY <2>1, InfoItems DEF TypeOK, ProcessorTyped, RollingBack
  <2>4. LogOf(filter, BlocksOf(info.block), block_events_tree)
    BY <1>2, <2>1 DEF EventSteps
  <2>5. LogOf(filter, BlocksOf(PrevOf(info.block)), block_events_tree')
    BY <2>1, <2>2, <2>3, <2>4, LogUndo
  <2>6. QED
    BY <2>1, <2>5 DEF EventSteps, AtRest
<1>9. CASE BlockUndone
  <2>1. /\ phase = "delete" /\ phase' = "undo"
        /\ UNCHANGED <<filter, block_events_tree>>
    BY <1>9 DEF BlockUndone, trees
  <2>2. TreePoint' = PrevOf(info.block)
    BY <1>1, <1>9, AlignedBlockUndone
  <2>3. QED
    BY <1>2, <2>1, <2>2 DEF EventSteps, AtRest
<1>10. CASE EndRollback
  <2>1. /\ phase = "undo" /\ phase' = "idle"
        /\ ~MoreToUndo
        /\ UNCHANGED <<filter, block_events_tree>>
    BY <1>10 DEF EndRollback, Return
  <2>2. LogOf(filter, BlocksOf(cursor), block_events_tree)
    BY <1>2, <2>1 DEF EventSteps, TreePoint
  <2>3. QED
    BY <1>1, <2>1, <2>2 DEF EventSteps, AtRest
<1>11. QED
  BY <1>3, <1>4, <1>5, <1>6, <1>7, <1>8, <1>9, <1>10 DEF Step, BlockStep, RollbackStep

\* EventInv is inductive, given the mirror and the numbering.
LEMMA EventNext ==
    ASSUME TypeOK, AlignedInv, MirrorInv, LimitInv, EventInv, [Next]_vars
    PROVE  EventInv'
<1>1. ASSUME exact' PROVE EventSteps'
  <2>1. CASE \E W \in WalletSets : Start(W)
    BY <1>1, <2>1, EventStart
  <2>2. CASE \E b \in Blocks : RollForward(b)
    <3>1. PICK b \in Blocks : RollForward(b)
      BY <2>2
    <3>2. exact /\ BeginBlock(b) /\ PrevOf(b) = cursor
      BY <1>1, <3>1 DEF RollForward
    <3>3. /\ phase = "idle" /\ phase' \in {"tx", "events"}
          /\ info' = [block |-> b, utxos_created |-> <<>>, utxos_spent |-> <<>>]
          /\ pos' = 1
          /\ event_index' = 0
          /\ UNCHANGED <<filter, block_events_tree, utxo_tree>>
      BY <3>2 DEF BeginBlock, NextPhase, trees
    <3>4. LogOf(filter, BlocksOf(PrevOf(b)), block_events_tree)
      BY <3>2, <3>3 DEF EventInv, EventSteps, AtRest
    <3>5. info' \in RollbackInfo /\ info'.block = b
      BY <3>3 DEF RollbackInfo
    <3>6. LogWith(filter, info', 1, utxo_tree, 0, block_events_tree)
      BY <3>4, <3>5, LogBegin
    <3>7. QED
      BY <3>3, <3>4, <3>5, <3>6 DEF EventSteps, AtRest
  <2>3. ASSUME NEW p \in PointsOf(cursor), RollBackward(p), phase \in AtRest
        PROVE  EventSteps'
    <3>1. /\ exact
          /\ cursor' = p
          /\ UNCHANGED <<filter, block_events_tree>>
      BY <1>1, <2>3 DEF RollBackward, IgnoreRollback, BeginRollback, trees
    <3>2. LogOf(filter, BlocksOf(cursor), block_events_tree)
      BY <2>3, <3>1 DEF EventInv, EventSteps
    <3>3. CASE phase' = "undo"
      <4>1. TreePoint' = cursor
        BY <1>1, <2>3, <3>3, AlignedBackward
      <4>2. QED
        BY <3>1, <3>2, <3>3, <4>1 DEF EventSteps, AtRest
    <3>4. CASE phase' # "undo"
      <4>1. phase' = "idle" /\ p = cursor
        BY <1>1, <2>3, <3>4 DEF RollBackward, IgnoreRollback, BeginRollback, Return
      <4>2. QED
        BY <3>1, <3>2, <4>1 DEF EventSteps, AtRest
    <3>5. QED
      BY <3>3, <3>4
  <2>4. CASE FirstResponse
    <3>1. cursor \in PointsOf(cursor)
      BY LastOfChain DEF TypeOK, SessionTyped
    <3>2. QED
      BY <2>3, <2>4, <3>1 DEF FirstResponse, AtRest
  <2>5. CASE \E p \in Point : Rollback(p)
    BY <2>3, <2>5 DEF Rollback, AtRest
  <2>6. CASE Step
    <3>1. exact
      BY <1>1, <2>6 DEF Step, syncVars
    <3>2. QED
      BY <2>6, <3>1, EventStep
  <2>7. CASE Fail
    BY <1>1, <2>7 DEF Fail
  <2>8. CASE \E snap \in BOOLEAN : Finish(snap)
    <3>1. /\ exact /\ phase' = "idle"
          /\ UNCHANGED <<cursor, filter, block_events_tree>>
      BY <1>1, <2>8 DEF Finish, FinishBlock, Return
    <3>2. QED
      BY <2>8, <3>1, FinishLog DEF EventSteps, AtRest
  <2>9. CASE Crash \/ \E saved \in BOOLEAN : Shutdown(saved)
    <3>1. cursor' = Origin /\ phase' = "down" /\ DOMAIN block_events_tree' = {}
      BY <2>9 DEF Crash, Shutdown, Exit, Load, EmptyTrees, NoTree
    <3>2. QED
      BY <3>1, EmptyEvents DEF EventSteps, AtRest
  <2>10. CASE Await \/ UNCHANGED vars
    <3>1. UNCHANGED <<trees, procVars, syncVars>>
      BY <2>10 DEF Await, vars
    <3>2. exact /\ EventSteps
      BY <1>1, <3>1 DEF syncVars, EventInv
    <3>3. QED
      BY <3>1, <3>2 DEF trees, procVars, syncVars, EventSteps, TreePoint, MoreToUndo, LastInfo
  <2>11. QED
    BY <2>1, <2>2, <2>4, <2>5, <2>6, <2>7, <2>8, <2>9, <2>10 DEF Next
<1>2. QED
  BY <1>1, EventSnapshots DEF EventInv

LEMMA EventsStartTrue == Init => EventInv
<1>. SUFFICES ASSUME Init PROVE EventInv
  OBVIOUS
<1>1. /\ phase = "down"
      /\ cursor = Origin
      /\ DOMAIN block_events_tree = {}
      /\ DOMAIN snapshots = {}
  BY DEF Init, ProcessorInit, StorageInit, NoTree
<1>2. QED
  BY <1>1, EmptyEvents DEF EventInv, EventSteps, AtRest

\* The events of a block of the chain, in the words of the reference.
LEMMA EventsOfBlock ==
    ASSUME NEW p \in Point, NEW b \in BlocksOf(p)
    PROVE  EventsOf(p, b) = EventsIn(filter, b)
<1>. DEFINE spent == {k \in SpentOn(p) : SpenderOn(p, k) \cap TxsIn(b) # {}}
            created == {k \in CreatedOn(p) : k[1] \in TxsIn(b)} \ spent
            ix == InputsBy(TxsIn(b))
            ox == OutputsBy(TxsIn(b))
<1>1. TxsIn(b) \subseteq TxsOn(p)
  BY DEF TxsOn
<1>2. spent = Tracked(filter, ix)
  <2>1. ASSUME NEW k, AddressOf(k) \in filter
        PROVE  k \in SpentOn(p) /\ SpenderOn(p, k) \cap TxsIn(b) # {} <=> k \in ix
    BY <1>1, <2>1, ReferenceSets DEF SpenderOn, Tracked, InputsBy
  <2>2. \A k \in SpentOn(p) : AddressOf(k) \in filter
    BY ReferenceSets DEF Tracked
  <2>3. \A k : k \in spent <=> k \in Tracked(filter, ix)
    BY <2>1, <2>2 DEF Tracked
  <2>4. QED
    BY <2>3
<1>3. {k \in CreatedOn(p) : k[1] \in TxsIn(b)} = Tracked(filter, ox)
  <2>1. ASSUME NEW k
        PROVE  k \in OutputsBy(TxsOn(p)) /\ k[1] \in TxsIn(b) <=> k \in ox
    BY <1>1, KeyOwner DEF OutputsBy
  <2>2. CreatedOn(p) = Tracked(filter, OutputsBy(TxsOn(p)))
    BY ReferenceSets
  <2>3. QED
    BY <2>1, <2>2 DEF Tracked
<1>4. created = Tracked(filter, ox \ ix)
  BY <1>2, <1>3 DEF Tracked
<1>5. EventsOf(p, b) = {[type |-> "CREATED", key |-> k, block |-> b] : k \in created}
                           \cup {[type |-> "SPENT", key |-> k, block |-> b] : k \in spent}
  BY DEF EventsOf
<1>6. QED
  BY <1>2, <1>4, <1>5 DEF EventsIn, Created, Spent

(***************************************************************************)
(* While `exact`, the event log between two responses is the one of the    *)
(* announced chain: every slot has the events of the announced block at    *)
(* that slot and no other, and there is no event of a block that was       *)
(* rolled back.                                                            *)
(***************************************************************************)
THEOREM EventsMirrorTheChain == Spec => []EventsMirrorChain
<1>1. /\ TypeOK /\ (AlignedInv /\ MirrorInv) /\ LimitInv /\ EventInv
      /\ [Next]_vars
      => EventInv'
  BY EventNext
<1>2. TypeOK /\ EventInv => EventsMirrorChain
  <2>. SUFFICES ASSUME TypeOK, EventInv, phase = "idle", exact
                PROVE  /\ \A b \in BlocksOf(cursor) : EventsAt(SlotOf[b]) = EventsOf(cursor, b)
                       /\ \A x \in DOMAIN block_events_tree :
                             \E b \in BlocksOf(cursor) : SlotOf[b] = x[1]
    BY DEF EventsMirrorChain, Mirrored
  <2>1. LogOf(filter, BlocksOf(cursor), block_events_tree)
    BY DEF EventInv, EventSteps, AtRest
  <2>2. ASSUME NEW slot PROVE EventsAt(slot) = Written(block_events_tree, slot)
    BY DEF EventsAt, Written
  <2>3. cursor \in Point
    BY DEF TypeOK, SessionTyped
  <2>4. QED
    BY <2>1, <2>2, <2>3, EventsOfBlock DEF LogOf
<1>3. QED
  BY EventsStartTrue, TypeCorrect, MirrorInvariant, LimitInvariant, <1>1, <1>2, PTL DEF Spec

-----------------------------------------------------------------------------
(* Balances.                                                               *)

\* What the outputs K are worth, and those of a UTxO tree that pay a.
Worth(K) == MapThenSumSet(AmountOf, K)

Held(utxos, a) == {k \in DOMAIN utxos : AddressOf(k) = a}

Matches(utxos, balances) ==
    /\ IsFiniteSet(DOMAIN utxos)
    /\ \A a \in Addresses : balances[a] = Worth(Held(utxos, a))

LEMMA WorthIsSum ==
    ASSUME NEW S, IsFiniteSet(S)
    PROVE  Worth(S) = SumOf([x \in S |-> AmountOf(x)], S)
<1>. DEFINE v == [x \in S |-> AmountOf(x)]
            Solves(g) == g = [T \in SUBSET S |->
                                IF T = {} THEN 0
                                ELSE AmountOf(Pick(T)) + g[T \ {Pick(T)}]]
            f == CHOOSE g : Solves(g)
<1>1. \A g : Adds(g, v, SUBSET S) <=> Solves(g)
  <2>1. \A T \in SUBSET S : T # {} => v[Pick(T)] = AmountOf(Pick(T))
    BY PickIsIn
  <2>. HIDE DEF v
  <2>2. QED
    BY <2>1 DEF Adds
<1>2. PICK g : Adds(g, v, SUBSET S)
  BY AddsExists
<1>3. Solves(f)
  <2>1. Solves(g)
    BY <1>1, <1>2
  <2>. HIDE DEF Solves
  <2>2. QED
    BY <2>1, Zenon
<1>4. SumOf(v, S) = f[S]
  <2>. HIDE DEF Solves, f, v
  <2>1. QED
    BY <1>1, <1>3, SumIsAdded
<1>5. Worth(S) = f[S]
  BY DEF Worth, MapThenSumSet, MapThenFoldSet, Pick
<1>. HIDE DEF f
<1>6. QED
  BY <1>4, <1>5

LEMMA AmountType ==
    ASSUME NEW k \in Key
    PROVE  AmountOf(k) \in Nat /\ AddressOf(k) \in Addresses
<1>0. PICK t \in Txs : k \in OutputKeys(t)
  BY DEF Key
<1>1. PICK i \in DOMAIN OutputsOf[t] : k = <<t, i>>
  BY <1>0 DEF OutputKeys
<1>2. OutputsOf[t][i] \in Output
  BY ChainTypes, ElementOfSeq
<1>3. OutputAt(k) = OutputsOf[t][i]
  BY <1>1 DEF OutputAt
<1>4. QED
  BY <1>2, <1>3 DEF AmountOf, AddressOf, Output

\* An output more is worth its amount.
LEMMA WorthAdd ==
    ASSUME NEW S \in SUBSET Key, IsFiniteSet(S), NEW k \in Key \ S
    PROVE  Worth(S) \in Nat /\ Worth(S \cup {k}) = Worth(S) + AmountOf(k)
<1>. DEFINE T == S \cup {k}
            v == [x \in S |-> AmountOf(x)]
            w == [x \in T |-> AmountOf(x)]
<1>1. IsFiniteSet(T)
  BY SmallerFinite
<1>2. /\ \A x \in S : v[x] \in Nat /\ v[x] = w[x]
      /\ \A x \in T : w[x] \in Int
      /\ w[k] = AmountOf(k)
  BY AmountType
<1>3. Worth(S) = SumOf(v, S) /\ Worth(T) = SumOf(w, T)
  BY <1>1, WorthIsSum
<1>. HIDE DEF v, w
<1>4. SumOf(v, S) \in Nat /\ SumOf(v, S) = SumOf(w, S)
  BY <1>2, SumNat, SumSame
<1>5. SumOf(w, T) = SumOf(w, S) + w[k]
  BY <1>2, SumAdd
<1>6. QED
  BY <1>2, <1>3, <1>4, <1>5

\* An output that comes and one that goes.
LEMMA CreditMatches ==
    ASSUME NEW utxos, DOMAIN utxos \subseteq Key, NEW balances \in [Addresses -> Nat],
           Matches(utxos, balances), NEW k \in Key \ DOMAIN utxos, NEW h
    PROVE  Matches(Insert(utxos, k, h),
                   [balances EXCEPT ![AddressOf(k)] = balances[AddressOf(k)] + AmountOf(k)])
<1>. DEFINE a    == AddressOf(k)
            new  == Insert(utxos, k, h)
            paid == [balances EXCEPT ![a] = balances[a] + AmountOf(k)]
<1>1. DOMAIN new = DOMAIN utxos \cup {k} /\ IsFiniteSet(DOMAIN new)
  BY SmallerFinite DEF Insert, Matches
<1>2. a \in Addresses /\ AmountOf(k) \in Nat
  BY AmountType
<1>3. ASSUME NEW c \in Addresses
      PROVE  paid[c] = Worth(Held(new, c))
  <2>1. /\ balances[c] = Worth(Held(utxos, c))
        /\ Held(utxos, c) \in SUBSET Key
        /\ k \notin Held(utxos, c)
    BY DEF Matches, Held
  <2>2. IsFiniteSet(Held(utxos, c))
    BY SmallerFinite DEF Matches, Held
  <2>3. CASE c = a
    <3>1. Held(new, c) = Held(utxos, c) \cup {k}
      BY <1>1, <2>3 DEF Held
    <3>2. QED
      BY <1>2, <2>1, <2>2, <2>3, <3>1, WorthAdd
  <2>4. CASE c # a
    <3>1. Held(new, c) = Held(utxos, c)
      BY <1>1, <2>4 DEF Held
    <3>2. QED
      BY <2>1, <2>4, <3>1
  <2>5. QED
    BY <2>3, <2>4
<1>4. QED
  BY <1>1, <1>3 DEF Matches

LEMMA DebitMatches ==
    ASSUME NEW utxos, DOMAIN utxos \subseteq Key, NEW balances \in [Addresses -> Nat],
           Matches(utxos, balances), NEW k \in DOMAIN utxos
    PROVE  Matches(Delete(utxos, {k}),
                   [balances EXCEPT ![AddressOf(k)] =
                        SaturatingSub(balances[AddressOf(k)], AmountOf(k))])
<1>. DEFINE a    == AddressOf(k)
            new  == Delete(utxos, {k})
            paid == [balances EXCEPT ![a] = SaturatingSub(balances[a], AmountOf(k))]
<1>1. DOMAIN new = DOMAIN utxos \ {k} /\ IsFiniteSet(DOMAIN new)
  BY SmallerFinite DEF Delete, Matches
<1>2. k \in Key /\ a \in Addresses /\ AmountOf(k) \in Nat
  BY AmountType
<1>3. ASSUME NEW c \in Addresses
      PROVE  paid[c] = Worth(Held(new, c))
  <2>1. /\ balances[c] = Worth(Held(utxos, c))
        /\ Held(new, c) \in SUBSET Key
        /\ k \notin Held(new, c)
    BY <1>1 DEF Matches, Held
  <2>2. IsFiniteSet(Held(new, c))
    BY <1>1, SmallerFinite DEF Held
  <2>3. CASE c = a
    <3>1. Held(utxos, c) = Held(new, c) \cup {k}
      BY <1>1, <2>3 DEF Held
    <3>2. /\ Worth(Held(new, c)) \in Nat
          /\ balances[c] = Worth(Held(new, c)) + AmountOf(k)
      BY <1>2, <2>1, <2>2, <3>1, WorthAdd
    <3>3. SaturatingSub(balances[c], AmountOf(k)) = Worth(Held(new, c))
      BY <1>2, <3>2 DEF SaturatingSub
    <3>4. QED
      BY <2>3, <3>3
  <2>4. CASE c # a
    <3>1. Held(new, c) = Held(utxos, c)
      BY <1>1, <2>4 DEF Held
    <3>2. QED
      BY <2>1, <2>4, <3>1
  <2>5. QED
    BY <2>3, <2>4
<1>4. QED
  BY <1>1, <1>3 DEF Matches

LEMMA EmptyMatches ==
    ASSUME NEW utxos, DOMAIN utxos = {}
    PROVE  Matches(utxos, [a \in Addresses |-> 0])
<1>1. \A a : Held(utxos, a) = {}
  BY DEF Held
<1>2. Worth({}) = 0
  BY FS_EmptySet, WorthIsSum, SumEmpty
<1>3. QED
  BY <1>1, <1>2, FS_EmptySet DEF Matches

\* No key is recorded as spent twice in a block.
Distinct(x) ==
    \A i, j \in DOMAIN x.utxos_spent :
        x.utxos_spent[i].key = x.utxos_spent[j].key => i = j

SpentOnce ==
    /\ phase \in Processing \cup UndoingOne => Distinct(info)
    /\ \A i \in DOMAIN rollback_buffer : Distinct(rollback_buffer[i])

\* The inductive invariant behind BalancesExact.
BalanceInv ==
    /\ exact => SpentOnce
    /\ (exact /\ balanced) => Matches(utxo_tree, balance_tree)

LEMMA DistinctAppend ==
    ASSUME NEW x \in RollbackInfo, Distinct(x), NEW k \in Key, k \notin AllSpent(x),
           NEW d, NEW t
    PROVE  Distinct([x EXCEPT !.utxos_spent = Append(@, [key |-> k, data |-> d, tx |-> t])])
<1>. DEFINE e == [key |-> k, data |-> d, tx |-> t]
            s == x.utxos_spent
            y == [x EXCEPT !.utxos_spent = Append(@, e)]
            n == Len(s)
<1>1. s \in Seq(SpentInfo)
  BY DEF RollbackInfo
<1>2. /\ n \in Nat
      /\ DOMAIN s = 1 .. n
      /\ DOMAIN Append(s, e) = 1 .. n + 1
      /\ \A i \in 1 .. n : Append(s, e)[i] = s[i]
      /\ Append(s, e)[n + 1] = e
  BY <1>1
<1>3. y.utxos_spent = Append(s, e)
  BY DEF RollbackInfo
<1>4. 1 .. n + 1 = (1 .. n) \cup {n + 1}
  BY <1>2
<1>5. \A i \in 1 .. n : Append(s, e)[i].key # k
  BY <1>2 DEF AllSpent
<1>6. Append(s, e)[n + 1].key = k
  BY <1>2
<1>7. \A i, j \in 1 .. n : Append(s, e)[i].key = Append(s, e)[j].key => i = j
  BY <1>2 DEF Distinct
<1>8. QED
  BY <1>2, <1>3, <1>4, <1>5, <1>6, <1>7 DEF Distinct

LEMMA UtxosTyped ==
    ASSUME TypeOK
    PROVE  DOMAIN utxo_tree \subseteq Key /\ balance_tree \in [Addresses -> Nat]
BY DEF TypeOK, TreesTyped, IsTree

\* An input of a tracked address takes its amount from the balance, which has it.
LEMMA BalanceInput ==
    ASSUME TypeOK, Mirror, SpentOnce, ProcessInput
    PROVE  /\ SpentOnce'
           /\ Matches(utxo_tree, balance_tree) => Matches(utxo_tree, balance_tree)'
<1>. DEFINE k == InputsOf[this_tx][pos]
            e == [key |-> k, data |-> utxo_tree[k], tx |-> this_tx]
<1>1. /\ phase = "tx" /\ phase' = "tx"
      /\ info \in RollbackInfo
      /\ rollback_buffer' = rollback_buffer
  BY TxInBlock DEF ProcessInput
<1>2. k \notin AllSpent(info)
  BY MirrorInput
<1>3. CASE k \in DOMAIN utxo_tree
  <2>1. SpendUtxo(k)
    BY <1>3 DEF ProcessInput
  <2>2. k \in Key
    BY <1>3, UtxosTyped
  <2>3. info' = [info EXCEPT !.utxos_spent = Append(@, e)]
    BY <2>1 DEF SpendUtxo
  <2>4. Distinct(info)
    BY <1>1 DEF SpentOnce, Processing
  <2>5. Distinct(info')
    BY <1>1, <1>2, <2>2, <2>3, <2>4, DistinctAppend
  <2>6. SpentOnce'
    BY <1>1, <2>5 DEF SpentOnce
  <2>7. /\ utxo_tree' = Delete(utxo_tree, {k})
        /\ balance_tree' = [balance_tree EXCEPT ![AddressOf(k)] =
                               SaturatingSub(balance_tree[AddressOf(k)], AmountOf(k))]
    BY <2>1 DEF SpendUtxo, update_balance
  <2>8. Matches(utxo_tree, balance_tree) => Matches(utxo_tree', balance_tree')
    <3>. HIDE DEF k
    <3>1. QED
      BY <1>3, <2>7, UtxosTyped, DebitMatches
  <2>9. QED
    BY <2>6, <2>8 DEF Matches, Held
<1>4. CASE k \notin DOMAIN utxo_tree
  <2>1. UNCHANGED <<utxo_tree, balance_tree, info>>
    BY <1>4 DEF ProcessInput
  <2>2. QED
    BY <1>1, <2>1 DEF SpentOnce, Matches, Held, Distinct
<1>5. QED
  BY <1>3, <1>4

LEMMA BalanceOutput ==
    ASSUME TypeOK, Mirror, SpentOnce, ProcessOutput
    PROVE  /\ SpentOnce'
           /\ Matches(utxo_tree, balance_tree) => Matches(utxo_tree, balance_tree)'
<1>1. /\ phase = "tx" /\ phase' = "tx"
      /\ info \in RollbackInfo
      /\ rollback_buffer' = rollback_buffer
  BY TxInBlock DEF ProcessOutput, AtOutput
<1>2. output \notin DOMAIN utxo_tree
  BY MirrorOutput
<1>3. output \in Key
  <2>1. this_tx \in Txs /\ pos \in Nat
    BY <1>1, TxInBlock
  <2>2. output \in OutputKeys(this_tx)
    BY <2>1, OneOutput DEF ProcessOutput, AtOutput, output
  <2>3. QED
    BY <2>1, <2>2 DEF Key
<1>4. CASE AddressOf(output) \in filter
  <2>1. CreateUtxo(output)
    BY <1>4 DEF ProcessOutput, is_our_address
  <2>2. /\ utxo_tree' = Insert(utxo_tree, output, info.block)
        /\ balance_tree' = [balance_tree EXCEPT ![AddressOf(output)] =
                               balance_tree[AddressOf(output)] + AmountOf(output)]
        /\ info' = [info EXCEPT !.utxos_created = Append(@, output)]
    BY <2>1 DEF CreateUtxo, update_balance
  <2>3. info'.utxos_spent = info.utxos_spent
    BY <1>1, <2>2 DEF RollbackInfo
  <2>4. SpentOnce'
    BY <1>1, <2>3 DEF SpentOnce, Distinct, Processing
  <2>5. Matches(utxo_tree, balance_tree) => Matches(utxo_tree', balance_tree')
    BY <1>2, <1>3, <2>2, UtxosTyped, CreditMatches
  <2>6. QED
    BY <2>4, <2>5 DEF Matches, Held
<1>5. CASE AddressOf(output) \notin filter
  <2>1. UNCHANGED <<utxo_tree, balance_tree, info>>
    BY <1>5 DEF ProcessOutput, is_our_address
  <2>2. QED
    BY <1>1, <2>1 DEF SpentOnce, Matches, Held, Distinct
<1>6. QED
  BY <1>4, <1>5

\* rollback_block gives back what a spent output was worth, once.
LEMMA BalanceRestoreSpent ==
    ASSUME TypeOK, Mirror, SpentOnce, RestoreSpent
    PROVE  Matches(utxo_tree, balance_tree) => Matches(utxo_tree, balance_tree)'
<1>. DEFINE x == info.utxos_spent[pos]
            b == info.block
<1>1. /\ phase = "restore"
      /\ pos <= Len(info.utxos_spent)
      /\ utxo_tree' = Insert(utxo_tree, x.key, x.data)
      /\ balance_tree' = [balance_tree EXCEPT ![AddressOf(x.key)] =
                             balance_tree[AddressOf(x.key)] + AmountOf(x.key)]
  BY DEF RestoreSpent, update_balance
<1>2. /\ pos \in DOMAIN info.utxos_spent
      /\ pos \in Nat
      /\ info \in RollbackInfo
      /\ b \in Blocks
      /\ DOMAIN info.utxos_spent \subseteq Nat
      /\ Recorded(info, filter)
  BY <1>1, Undoing DEF UndoingOne
<1>3. x.key \in Key
  BY <1>2, InfoItems
<1>4. x.key \notin LiveAt(b)
  <2>1. x.key \in AllSpent(info)
    BY <1>2 DEF AllSpent
  <2>2. x.key \in InputsBy(TxsIn(b))
    BY <1>2, <2>1 DEF Recorded, Records, Tracked
  <2>3. TxsIn(b) \subseteq TxsOn(b)
    BY <1>2, PrevFacts
  <2>4. QED
    BY <2>2, <2>3 DEF LiveAt, InputsBy
<1>5. x.key \notin SpentKeys(info, pos)
  <2>1. Distinct(info)
    BY <1>1 DEF SpentOnce, UndoingOne
  <2>2. QED
    BY <1>2, <2>1 DEF SpentKeys, Distinct
<1>6. x.key \notin DOMAIN utxo_tree
  <2>1. RestoreTrees(info, pos, filter, utxo_tree, spent_utxo_index)
    BY <1>1 DEF Mirror, MirrorSteps
  <2>2. DOMAIN utxo_tree = Tracked(filter, LiveAt(b) \cup SpentKeys(info, pos))
    BY <2>1, Zenon DEF RestoreTrees, TreesAt, UtxosAre
  <2>3. QED
    BY <1>4, <1>5, <2>2 DEF Tracked
<1>7. Matches(utxo_tree, balance_tree) => Matches(utxo_tree', balance_tree')
  <2>. HIDE DEF x
  <2>1. QED
    BY <1>1, <1>3, <1>6, UtxosTyped, CreditMatches
<1>8. QED
  BY <1>7 DEF Matches, Held

LEMMA BalanceDeleteCreated ==
    ASSUME TypeOK, DeleteCreated
    PROVE  Matches(utxo_tree, balance_tree) => Matches(utxo_tree, balance_tree)'
<1>. DEFINE k == info.utxos_created[pos]
<1>1. CASE k \in DOMAIN utxo_tree
  <2>1. /\ utxo_tree' = Delete(utxo_tree, {k})
        /\ balance_tree' = [balance_tree EXCEPT ![AddressOf(k)] =
                               SaturatingSub(balance_tree[AddressOf(k)], AmountOf(k))]
    BY <1>1 DEF DeleteCreated, update_balance
  <2>2. Matches(utxo_tree, balance_tree) => Matches(utxo_tree', balance_tree')
    <3>. HIDE DEF k
    <3>1. QED
      BY <1>1, <2>1, UtxosTyped, DebitMatches
  <2>3. QED
    BY <2>2 DEF Matches, Held
<1>2. CASE k \notin DOMAIN utxo_tree
  BY <1>2 DEF DeleteCreated, Matches, Held
<1>3. QED
  BY <1>1, <1>2

\* The other steps of the processor leave outputs and balances alone.
LEMMA BalanceFrame ==
    ASSUME TypeOK, Aligned, SpentOnce,
           \/ EndTx \/ WriteCreatedEvent \/ WriteSpentEvent
           \/ UndoBlock \/ DeleteSpentRecords \/ DeleteEvents \/ BlockUndone \/ EndRollback
           \/ \E snap \in BOOLEAN : Finish(snap)
    PROVE  SpentOnce' /\ UNCHANGED <<utxo_tree, balance_tree>>
<1>1. CASE EndTx \/ WriteCreatedEvent \/ WriteSpentEvent \/ DeleteSpentRecords \/ DeleteEvents
  <2>1. /\ phase \in Processing \cup UndoingOne
        /\ UNCHANGED <<info, rollback_buffer, utxo_tree, balance_tree>>
    BY <1>1 DEF EndTx, WriteCreatedEvent, WriteSpentEvent, DeleteSpentRecords, DeleteEvents,
         Processing, UndoingOne
  <2>2. QED
    BY <2>1 DEF SpentOnce, Distinct
<1>2. CASE UndoBlock
  <2>1. /\ info' = LastInfo /\ rollback_buffer' = PopLast
        /\ rollback_buffer \in Seq(RollbackInfo) /\ rollback_buffer # <<>>
        /\ UNCHANGED <<utxo_tree, balance_tree>>
    BY <1>2 DEF UndoBlock, MoreToUndo, TypeOK, ProcessorTyped
  <2>2. Len(rollback_buffer) \in DOMAIN rollback_buffer
    BY <2>1
  <2>3. \A i \in DOMAIN PopLast : i \in DOMAIN rollback_buffer /\ PopLast[i] = rollback_buffer[i]
    BY <2>1, PopLinked DEF Aligned
  <2>4. Distinct(LastInfo) /\ \A i \in DOMAIN PopLast : Distinct(PopLast[i])
    BY <2>2, <2>3 DEF SpentOnce, LastInfo
  <2>5. Distinct(info') /\ \A i \in DOMAIN rollback_buffer' : Distinct(rollback_buffer'[i])
    BY <2>1, <2>4
  <2>6. QED
    BY <2>1, <2>5 DEF SpentOnce
<1>3. CASE BlockUndone \/ EndRollback
  <2>1. /\ phase' \notin Processing \cup UndoingOne
        /\ UNCHANGED <<rollback_buffer, utxo_tree, balance_tree>>
    BY <1>3 DEF BlockUndone, EndRollback, Return, trees, Processing, UndoingOne
  <2>2. QED
    BY <2>1 DEF SpentOnce, Distinct
<1>4. CASE \E snap \in BOOLEAN : Finish(snap)
  <2>1. /\ phase = "events" /\ phase' = "idle"
        /\ rollback_buffer' = PushBuffer(info)
        /\ UNCHANGED <<utxo_tree, balance_tree>>
    BY <1>4 DEF Finish, FinishBlock, Return
  <2>2. info \in RollbackInfo /\ rollback_buffer \in Seq(RollbackInfo)
    BY <2>1 DEF TypeOK, ProcessorTyped, Processing
  <2>3. Linked(rollback_buffer) /\ Attached(PrevOf(info.block)) /\ Distinct(info)
    BY <2>1 DEF Aligned, SpentOnce, Processing
  <2>4. ASSUME NEW i \in DOMAIN rollback_buffer'
        PROVE  Distinct(rollback_buffer'[i])
    <3>1. \/ rollback_buffer'[i] = info
          \/ \E j \in DOMAIN rollback_buffer : rollback_buffer'[i] = rollback_buffer[j]
      BY <2>1, <2>2, <2>3, <2>4, PushLinked
    <3>2. QED
      BY <2>3, <3>1 DEF SpentOnce
  <2>5. QED
    BY <2>1, <2>4 DEF SpentOnce, Processing, UndoingOne
<1>5. QED
  BY <1>1, <1>2, <1>3, <1>4

\* A session starts with an empty buffer, and with balances of 0, which match
\* the outputs of a snapshot without any.
LEMMA BalanceStart ==
    ASSUME NEW W \in WalletSets, Start(W)
    PROVE  SpentOnce' /\ (balanced' => Matches(utxo_tree, balance_tree)')
<1>1. PICK S \in LatestSnapshots : /\ Load(S)
                                   /\ NewProcessor(W, S.tips)
                                   /\ balanced' = (DOMAIN S.utxos = {})
  BY DEF Start
<1>2. /\ phase' = "connected"
      /\ rollback_buffer' = <<>>
      /\ utxo_tree' = S.utxos
      /\ balance_tree' = [a \in Addresses |-> 0]
  BY <1>1 DEF Start, Load, NewProcessor
<1>3. balanced' => Matches(utxo_tree', balance_tree')
  BY <1>1, <1>2, EmptyMatches
<1>4. QED
  BY <1>2, <1>3 DEF SpentOnce, Processing, UndoingOne, Matches, Held

LEMMA BalanceExit ==
    ASSUME Exit
    PROVE  SpentOnce' /\ Matches(utxo_tree, balance_tree)'
<1>1. /\ phase' = "down"
      /\ rollback_buffer' = <<>>
      /\ utxo_tree' = NoTree
      /\ balance_tree' = [a \in Addresses |-> 0]
  BY DEF Exit, Load, NewProcessor, EmptyTrees
<1>2. Matches(utxo_tree', balance_tree')
  BY <1>1, EmptyMatches DEF NoTree
<1>3. QED
  BY <1>1, <1>2 DEF SpentOnce, Processing, UndoingOne, Matches, Held

LEMMA BalanceNext ==
    ASSUME TypeOK, AlignedInv, MirrorInv, BalanceInv, [Next]_vars
    PROVE  BalanceInv'
<1>1. SUFFICES ASSUME exact'
               PROVE  SpentOnce' /\ (balanced' => Matches(utxo_tree, balance_tree)')
  BY DEF BalanceInv
<1>2. CASE \E W \in WalletSets : Start(W)
  BY <1>2, BalanceStart
<1>3. CASE \E b \in Blocks : RollForward(b)
  <2>1. PICK b \in Blocks : RollForward(b)
    BY <1>3
  <2>2. exact /\ BeginBlock(b) /\ balanced' = balanced
    BY <1>1, <2>1 DEF RollForward
  <2>3. /\ info'.utxos_spent = <<>>
        /\ UNCHANGED <<rollback_buffer, utxo_tree, balance_tree>>
    BY <2>2 DEF BeginBlock, trees
  <2>4. DOMAIN info'.utxos_spent = {}
    BY <2>3
  <2>5. Distinct(info)'
    BY <2>4 DEF Distinct
  <2>6. SpentOnce'
    BY <2>2, <2>3, <2>5 DEF BalanceInv, SpentOnce, Distinct
  <2>7. QED
    BY <2>2, <2>3, <2>6 DEF BalanceInv, Matches, Held
<1>4. ASSUME NEW p, RollBackward(p), phase \in AtRest
      PROVE  SpentOnce' /\ (balanced' => Matches(utxo_tree, balance_tree)')
  <2>1. /\ exact
        /\ phase' \notin Processing \cup UndoingOne
        /\ UNCHANGED <<rollback_buffer, utxo_tree, balance_tree, balanced>>
    BY <1>1, <1>4 DEF RollBackward, IgnoreRollback, BeginRollback, Return, trees, Processing,
         UndoingOne
  <2>2. QED
    BY <2>1 DEF BalanceInv, SpentOnce, Distinct, Matches, Held
<1>5. CASE FirstResponse
  BY <1>4, <1>5 DEF FirstResponse, AtRest
<1>6. CASE \E p \in Point : Rollback(p)
  BY <1>4, <1>6 DEF Rollback, AtRest
<1>7. CASE Step \/ \E snap \in BOOLEAN : Finish(snap)
  <2>1. exact /\ UNCHANGED balanced
    BY <1>1, <1>7 DEF Step, syncVars, Finish
  <2>2. Aligned /\ Mirror /\ SpentOnce
    BY <2>1 DEF AlignedInv, MirrorInv, BalanceInv
  <2>3. CASE ProcessInput
    BY <2>1, <2>2, <2>3, BalanceInput DEF BalanceInv
  <2>4. CASE ProcessOutput
    BY <2>1, <2>2, <2>4, BalanceOutput DEF BalanceInv
  <2>5. ASSUME RestoreSpent \/ DeleteCreated PROVE SpentOnce'
    <3>1. /\ phase \in UndoingOne
          /\ UNCHANGED <<info, rollback_buffer>>
      BY <2>5 DEF RestoreSpent, DeleteCreated, UndoingOne
    <3>2. QED
      BY <2>2, <3>1 DEF SpentOnce, Distinct
  <2>6. CASE RestoreSpent
    BY <2>1, <2>2, <2>5, <2>6, BalanceRestoreSpent DEF BalanceInv
  <2>7. CASE DeleteCreated
    BY <2>1, <2>5, <2>7, BalanceDeleteCreated DEF BalanceInv
  <2>8. ASSUME \/ EndTx \/ WriteCreatedEvent \/ WriteSpentEvent
               \/ UndoBlock \/ DeleteSpentRecords \/ DeleteEvents \/ BlockUndone \/ EndRollback
               \/ \E snap \in BOOLEAN : Finish(snap)
        PROVE  SpentOnce' /\ (balanced' => Matches(utxo_tree, balance_tree)')
    <3>1. SpentOnce' /\ UNCHANGED <<utxo_tree, balance_tree>>
      BY <2>2, <2>8, BalanceFrame
    <3>2. QED
      BY <2>1, <3>1 DEF BalanceInv, Matches, Held
  <2>9. QED
    BY <1>7, <2>3, <2>4, <2>6, <2>7, <2>8 DEF Step, BlockStep, RollbackStep
<1>8. CASE Fail
  BY <1>1, <1>8 DEF Fail
<1>9. CASE Crash \/ \E saved \in BOOLEAN : Shutdown(saved)
  BY <1>9, BalanceExit DEF Crash, Shutdown
<1>10. CASE Await \/ UNCHANGED vars
  <2>1. UNCHANGED <<trees, procVars, syncVars>>
    BY <1>10 DEF Await, vars
  <2>2. QED
    BY <1>1, <2>1 DEF trees, procVars, syncVars, BalanceInv, SpentOnce, Distinct, Matches, Held
<1>11. QED
  BY <1>2, <1>3, <1>5, <1>6, <1>7, <1>8, <1>9, <1>10 DEF Next

LEMMA BalanceStartsTrue == Init => BalanceInv
<1>. SUFFICES ASSUME Init PROVE BalanceInv
  OBVIOUS
<1>1. /\ phase = "down"
      /\ rollback_buffer = <<>>
      /\ utxo_tree = NoTree
      /\ balance_tree = [a \in Addresses |-> 0]
  BY DEF Init, ProcessorInit, StorageInit
<1>2. Matches(utxo_tree, balance_tree)
  BY <1>1, EmptyMatches DEF NoTree
<1>3. QED
  BY <1>1, <1>2 DEF BalanceInv, SpentOnce, Processing, UndoingOne

(***************************************************************************)
(* While `exact`, and until a restart that finds outputs, the balance of   *)
(* every address is what its unspent outputs are worth: saturating_sub     *)
(* never saturates and no output is counted twice.                         *)
(***************************************************************************)
THEOREM BalancesStayExact == Spec => []BalancesExact
<1>1. TypeOK /\ (AlignedInv /\ MirrorInv) /\ BalanceInv /\ [Next]_vars => BalanceInv'
  BY BalanceNext
<1>2. BalanceInv => BalancesExact
  BY DEF BalanceInv, BalancesExact, Mirrored, Matches, Worth, Held, Total, UtxosAt
<1>3. QED
  BY BalanceStartsTrue, TypeCorrect, MirrorInvariant, <1>1, <1>2, PTL DEF Spec

=============================================================================
