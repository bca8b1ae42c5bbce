----------------------- MODULE UnifiedTxBuilderProofs -----------------------
(***************************************************************************)
(* Proofs about the transaction builder, for every wallet, fee parameter   *)
(* and list of payments: the search for the fee ends with its second try,  *)
(* value is conserved, no output is spent twice in a transaction, and a    *)
(* call that is made again does not pay twice.                             *)
(*                                                                         *)
(* The argument for the fee is that of the code's check on the change: a   *)
(* fee is raised only if the change pays for it and stays above the        *)
(* minimum, so the same outputs are selected, the transaction keeps its    *)
(* change output, and its size does not grow.                              *)
(***************************************************************************)
EXTENDS UnifiedTxBuilder, SumProofs, SequenceTheorems

(***************************************************************************)
(* The smallest of a set of natural numbers is one of them and below the   *)
(* others.                                                                 *)
(***************************************************************************)
LEMMA MinIsLeast ==
    ASSUME NEW S \in SUBSET Nat, S # {}
    PROVE  Min(S) \in S /\ \A n \in S : Min(S) <= n
<1>1. \E n \in S : \A m \in S : ~(<<m, n>> \in OpToRel(<, Nat))
  BY WFMin, NatLessThanWellFounded, Zenon
<1>2. \A m, n \in Nat : m < n => <<m, n>> \in OpToRel(<, Nat)
  BY DEF OpToRel
<1>3. PICK n \in S : \A m \in S : ~(<<m, n>> \in OpToRel(<, Nat))
  BY <1>1
<1>4. \A m \in S : ~(m < n)
  BY <1>2, <1>3
<1>5. \A m \in S : n <= m
  BY <1>4
<1> QED
  BY <1>5 DEF Min

-----------------------------------------------------------------------------
(* Parts of lists.                                                         *)

\* The recursion of Those up to the n-th element.
Upto(f, list, S, n) ==
    f = [i \in 0 .. n |-> IF i = 0 THEN <<>>
                          ELSE IF list[i] \in S THEN Append(f[i - 1], list[i]) ELSE f[i - 1]]

LEMMA UptoExists ==
    ASSUME NEW list, NEW S
    PROVE  \A n \in Nat : \E f : Upto(f, list, S, n)
<1> DEFINE N == {n \in Nat : ~\E f : Upto(f, list, S, n)}
<1>1. SUFFICES ASSUME N # {} PROVE FALSE
  OBVIOUS
<1>2. PICK m \in N : \A n \in N : m <= n
  BY <1>1, MinIsLeast
<1>3. CASE m = 0
  <2> DEFINE f == [i \in 0 .. 0 |-> <<>>]
  <2>1. Upto(f, list, S, 0)
    BY DEF Upto
  <2> HIDE DEF f
  <2> QED
    BY <1>2, <1>3, <2>1
<1>4. CASE m # 0
  <2>1. m - 1 \in Nat /\ m - 1 \notin N
    BY <1>2, <1>4
  <2>2. PICK f : Upto(f, list, S, m - 1)
    BY <2>1
  <2> DEFINE g == [i \in 0 .. m |->
                      IF i < m THEN f[i]
                      ELSE IF list[i] \in S THEN Append(f[i - 1], list[i]) ELSE f[i - 1]]
  <2>3. ASSUME NEW i \in 0 .. m
        PROVE  g[i] = IF i = 0 THEN <<>>
                      ELSE IF list[i] \in S THEN Append(g[i - 1], list[i]) ELSE g[i - 1]
    <3>1. i # 0 => i - 1 \in 0 .. m /\ i - 1 < m
      BY <1>2
    <3>2. i # 0 => g[i - 1] = f[i - 1]
      BY <3>1
    <3>3. CASE i < m
      <4>1. i \in 0 .. m - 1 /\ g[i] = f[i]
        BY <1>2, <3>3
      <4>2. f[i] = IF i = 0 THEN <<>>
                   ELSE IF list[i] \in S THEN Append(f[i - 1], list[i]) ELSE f[i - 1]
        BY <2>2, <4>1 DEF Upto
      <4> QED
        BY <3>2, <4>1, <4>2
    <3>4. CASE ~(i < m)
      <4>1. i = m /\ i # 0
        BY <1>2, <1>4, <3>4
      <4>2. g[i] = IF list[i] \in S THEN Append(f[i - 1], list[i]) ELSE f[i - 1]
        BY <3>4
      <4> QED
        BY <3>2, <4>1, <4>2
    <3> QED
      BY <3>3, <3>4
  <2>4. g = [i \in 0 .. m |-> g[i]]
    OBVIOUS
  <2> HIDE DEF g
  <2>5. Upto(g, list, S, m)
    BY <2>3, <2>4 DEF Upto
  <2> QED
    BY <1>2, <2>5
<1> QED
  BY <1>3, <1>4

Step(f, list, S, i) == f[i] = IF list[i] \in S THEN Append(f[i - 1], list[i]) ELSE f[i - 1]

LEMMA UptoStep ==
    ASSUME NEW f, NEW list, NEW S, NEW n \in Nat, Upto(f, list, S, n), NEW i \in 1 .. n
    PROVE  Step(f, list, S, i)
<1>1. i \in 0 .. n /\ i # 0
  OBVIOUS
<1> QED
  BY <1>1 DEF Upto, Step

Agree(list, other, n) == \A i \in 1 .. n : list[i] = other[i]

Same(f, g, n) == f[n] = g[n]

\* The first n elements decide the recursion up to n.
LEMMA UptoSame ==
    ASSUME NEW list, NEW other, NEW S, NEW f, NEW g, NEW n \in Nat, NEW m \in Nat, n <= m,
           Upto(f, list, S, n), Upto(g, other, S, m), Agree(list, other, n)
    PROVE  Same(f, g, n)
<1> DEFINE N == {i \in 0 .. n : f[i] # g[i]}
<1>1. SUFFICES ASSUME N # {} PROVE FALSE
  BY DEF Same
<1>2. N \in SUBSET Nat
  OBVIOUS
<1>3. PICK k \in N : \A i \in N : k <= i
  BY <1>1, <1>2, MinIsLeast
<1>4. k \in 0 .. n /\ k \in 0 .. m /\ f[k] # g[k]
  BY <1>3
<1>5. /\ f[k] = IF k = 0 THEN <<>>
                ELSE IF list[k] \in S THEN Append(f[k - 1], list[k]) ELSE f[k - 1]
      /\ g[k] = IF k = 0 THEN <<>>
                ELSE IF other[k] \in S THEN Append(g[k - 1], other[k]) ELSE g[k - 1]
  BY <1>4 DEF Upto
<1>6. CASE k = 0
  BY <1>4, <1>5, <1>6
<1>7. CASE k # 0
  <2>1. k - 1 \in 0 .. n /\ k \in 1 .. n /\ ~(k <= k - 1)
    BY <1>4, <1>7
  <2>2. f[k - 1] = g[k - 1] /\ list[k] = other[k]
    BY <1>3, <2>1 DEF Agree
  <2> QED
    BY <1>4, <1>5, <1>7, <2>2
<1> QED
  BY <1>6, <1>7

LEMMA ThoseUpto ==
    ASSUME NEW list, Len(list) \in Nat, NEW S, NEW f, Upto(f, list, S, Len(list))
    PROVE  Those(list, S) = f[Len(list)]
<1> DEFINE g == CHOOSE h : Upto(h, list, S, Len(list))
<1>1. Upto(g, list, S, Len(list))
  BY Zenon
<1>2. Those(list, S) = g[Len(list)]
  BY DEF Those, Upto
<1> HIDE DEF g
<1>3. g[Len(list)] = f[Len(list)]
  <2>1. Len(list) <= Len(list) /\ Agree(list, list, Len(list))
    BY DEF Agree
  <2>2. Same(g, f, Len(list))
    BY <1>1, <2>1, UptoSame, Zenon
  <2> QED
    BY <2>2 DEF Same
<1> QED
  BY <1>2, <1>3

LEMMA ThoseOfNone == \A S : Those(<<>>, S) = <<>>
<1>1. ASSUME NEW S PROVE Those(<<>>, S) = <<>>
  <2>1. Len(<<>>) = 0
    OBVIOUS
  <2>2. PICK f : Upto(f, <<>>, S, 0)
    BY UptoExists
  <2>3. f[0] = <<>>
    BY <2>2 DEF Upto
  <2>4. Those(<<>>, S) = f[Len(<<>>)]
    BY <2>1, <2>2, ThoseUpto
  <2> QED
    BY <2>1, <2>3, <2>4
<1> QED
  BY <1>1

\* An element more.
LEMMA ThoseOfMore ==
    ASSUME NEW T, NEW list \in Seq(T), NEW e \in T, NEW S
    PROVE  Those(Append(list, e), S) = IF e \in S THEN Append(Those(list, S), e)
                                       ELSE Those(list, S)
<1> DEFINE more == Append(list, e)
           n    == Len(list)
<1>1. n \in Nat /\ Len(more) = n + 1 /\ more[n + 1] = e /\ \A i \in 1 .. n : more[i] = list[i]
  OBVIOUS
<1> HIDE DEF more, n
<1>2. PICK f : Upto(f, list, S, n)
  BY <1>1, UptoExists
<1>3. n + 1 \in Nat
  BY <1>1
<1>4. PICK g : Upto(g, more, S, n + 1)
  BY <1>3, UptoExists
<1>5. Those(list, S) = f[n]
  BY <1>1, <1>2, ThoseUpto DEF n
<1>6. Those(more, S) = g[n + 1]
  BY <1>1, <1>3, <1>4, ThoseUpto
<1>7. f[n] = g[n]
  <2>1. n <= n + 1 /\ Agree(list, more, n)
    BY <1>1 DEF Agree
  <2>2. Same(f, g, n)
    BY <1>1, <1>2, <1>3, <1>4, <2>1, UptoSame, Zenon
  <2> QED
    BY <2>2 DEF Same
<1>8. g[n + 1] = IF more[n + 1] \in S THEN Append(g[n], more[n + 1]) ELSE g[n]
  <2>1. n + 1 \in 1 .. n + 1 /\ (n + 1) - 1 = n
    BY <1>1
  <2>2. g[n + 1] = IF more[n + 1] \in S THEN Append(g[(n + 1) - 1], more[n + 1])
                   ELSE g[(n + 1) - 1]
    <3>1. Step(g, more, S, n + 1)
      BY <1>3, <1>4, <2>1, UptoStep, Zenon
    <3> QED
      BY <3>1 DEF Step
  <2> QED
    BY <2>1, <2>2
<1>9. Those(more, S) = IF e \in S THEN Append(Those(list, S), e) ELSE Those(list, S)
  BY <1>1, <1>5, <1>6, <1>7, <1>8
<1> QED
  BY <1>9 DEF more

LEMMA ListsAreSequences ==
    ASSUME NEW list \in UtxoLists
    PROVE  list \in Seq(Utxos)
<1>1. Cardinality(Utxos) \in Nat
  BY UtxoTypes, FS_CardinalityType
<1> QED
  BY <1>1, SeqDef DEF UtxoLists, SeqOf

\* What a part of the first n elements of a list is.
PartOf(p, list, S, n) ==
    /\ p \in Seq(Utxos)
    /\ Len(p) <= n
    /\ \A j \in 1 .. Len(p) : p[j] \in S /\ \E k \in 1 .. n : p[j] = list[k]
    /\ \A k \in 1 .. n : list[k] \in S => \E j \in 1 .. Len(p) : p[j] = list[k]
    /\ \A i, j \in 1 .. Len(p) : p[i] = p[j] => i = j

LEMMA PartGrows ==
    ASSUME NEW list \in Seq(Utxos), \A i, j \in 1 .. Len(list) : list[i] = list[j] => i = j,
           NEW S, NEW n \in 1 .. Len(list), NEW p, PartOf(p, list, S, n - 1)
    PROVE  PartOf(IF list[n] \in S THEN Append(p, list[n]) ELSE p, list, S, n)
<1>1. n - 1 \in Nat /\ n \in Nat /\ list[n] \in Utxos
  OBVIOUS
<1>2. CASE list[n] \notin S
  <2>1. \A k \in 1 .. n : k \in 1 .. n - 1 \/ k = n
    BY <1>1
  <2>2. \A k \in 1 .. n - 1 : k \in 1 .. n
    BY <1>1
  <2>3. p \in Seq(Utxos) /\ Len(p) <= n
    BY <1>1 DEF PartOf
  <2>4. \A j \in 1 .. Len(p) : p[j] \in S /\ \E k \in 1 .. n : p[j] = list[k]
    BY <2>2 DEF PartOf
  <2>5. \A k \in 1 .. n : list[k] \in S => \E j \in 1 .. Len(p) : p[j] = list[k]
    BY <1>2, <2>1 DEF PartOf
  <2> QED
    BY <1>2, <2>3, <2>4, <2>5 DEF PartOf
<1>3. CASE list[n] \in S
  <2> DEFINE q == Append(p, list[n])
             m == Len(p)
  <2>1. p \in Seq(Utxos) /\ m \in Nat /\ m <= n - 1
    BY DEF PartOf
  <2>2. /\ q \in Seq(Utxos) /\ Len(q) = m + 1 /\ q[m + 1] = list[n]
        /\ \A j \in 1 .. m : q[j] = p[j]
    BY <1>1, <2>1
  <2> HIDE DEF q
  <2>3. \A j \in 1 .. m + 1 : j \in 1 .. m \/ j = m + 1
    BY <2>1
  <2>4. \A j \in 1 .. m : j \in 1 .. m + 1
    BY <2>1
  <2>5. \A k \in 1 .. n : k \in 1 .. n - 1 \/ k = n
    BY <1>1
  <2>6. \A k \in 1 .. n - 1 : k \in 1 .. n /\ k \in 1 .. Len(list) /\ k # n
    BY <1>1
  <2>7. \A j \in 1 .. m : p[j] \in S /\ \E k \in 1 .. n - 1 : p[j] = list[k]
    BY DEF PartOf
  <2>8. \A j \in 1 .. m + 1 : q[j] \in S /\ \E k \in 1 .. n : q[j] = list[k]
    <3>1. \A j \in 1 .. m : q[j] \in S /\ \E k \in 1 .. n : q[j] = list[k]
      BY <2>2, <2>6, <2>7
    <3>2. q[m + 1] \in S /\ q[m + 1] = list[n] /\ n \in 1 .. n
      BY <1>1, <1>3, <2>2
    <3> QED
      BY <2>3, <3>1, <3>2
  <2>9. \A k \in 1 .. n : list[k] \in S => \E j \in 1 .. m + 1 : q[j] = list[k]
    <3>1. \A k \in 1 .. n - 1 : list[k] \in S => \E j \in 1 .. m : p[j] = list[k]
      BY DEF PartOf
    <3>2. m + 1 \in 1 .. m + 1
      BY <2>1
    <3> QED
      BY <2>2, <2>4, <2>5, <3>1, <3>2
  <2>10. \A j \in 1 .. m : p[j] # list[n]
    BY <2>6, <2>7
  <2>11. \A i, j \in 1 .. m : p[i] = p[j] => i = j
    BY DEF PartOf
  <2>12. \A i, j \in 1 .. m + 1 : q[i] = q[j] => i = j
    BY <2>2, <2>3, <2>10, <2>11
  <2>13. m + 1 <= n
    BY <1>1, <2>1
  <2>14. PartOf(q, list, S, n)
    BY <2>2, <2>8, <2>9, <2>12, <2>13 DEF PartOf
  <2> QED
    BY <1>3, <2>14 DEF q
<1> QED
  BY <1>2, <1>3

\* A part of a list of distinct outputs is one, and has what the list has of the set.
LEMMA PartsAreLists ==
    \A s \in UtxoLists, S \in SUBSET Utxos :
        Those(s, S) \in UtxoLists /\ ToSet(Those(s, S)) = ToSet(s) \cap S
<1>1. SUFFICES ASSUME NEW s \in UtxoLists, NEW S \in SUBSET Utxos
               PROVE  Those(s, S) \in UtxoLists /\ ToSet(Those(s, S)) = ToSet(s) \cap S
  OBVIOUS
<1> DEFINE n == Len(s)
           c == Cardinality(Utxos)
<1>2. c \in Nat
  BY UtxoTypes, FS_CardinalityType
<1>3. s \in Seq(Utxos) /\ n \in Nat /\ DOMAIN s = 1 .. n
  BY ListsAreSequences
<1>4. n <= c
  <2>1. PICK m \in 0 .. c : s \in [1 .. m -> Utxos]
    BY DEF UtxoLists, SeqOf
  <2>2. DOMAIN s = 1 .. m /\ m \in Nat
    BY <1>2, <2>1
  <2>3. n = m
    <3> HIDE DEF n
    <3>1. 1 .. n = 1 .. m
      BY <1>3, <2>2
    <3> QED
      BY <1>3, <2>2, <3>1
  <2> QED
    BY <1>2, <2>1, <2>3
<1>5. \A i, j \in 1 .. n : s[i] = s[j] => i = j
  BY <1>3 DEF UtxoLists, IsInjective
<1>6. PICK f : Upto(f, s, S, n)
  BY <1>3, UptoExists
<1>7. PartOf(f[n], s, S, n)
  <2> DEFINE N == {i \in 0 .. n : ~PartOf(f[i], s, S, i)}
  <2>1. SUFFICES ASSUME N # {} PROVE FALSE
    <3>1. n \in 0 .. n
      BY <1>3
    <3> QED
      BY <3>1
  <2>2. N \in SUBSET Nat
    BY <1>3
  <2>3. PICK k \in N : \A i \in N : k <= i
    BY <2>1, <2>2, MinIsLeast
  <2>4. k \in 0 .. n /\ ~PartOf(f[k], s, S, k)
    BY <2>3
  <2>5. f[k] = IF k = 0 THEN <<>>
               ELSE IF s[k] \in S THEN Append(f[k - 1], s[k]) ELSE f[k - 1]
    BY <2>4, <1>6 DEF Upto
  <2>6. CASE k = 0
    <3>1. f[k] = <<>>
      BY <2>5, <2>6
    <3>2. PartOf(<<>>, s, S, 0)
      BY DEF PartOf
    <3> QED
      BY <2>4, <2>6, <3>1, <3>2
  <2>7. CASE k # 0
    <3>1. k - 1 \in 0 .. n /\ k \in 1 .. n /\ ~(k <= k - 1)
      BY <1>3, <2>4, <2>7
    <3>2. PartOf(f[k - 1], s, S, k - 1)
      BY <2>3, <3>1
    <3>3. PartOf(IF s[k] \in S THEN Append(f[k - 1], s[k]) ELSE f[k - 1], s, S, k)
      BY <1>3, <1>5, <3>1, <3>2, PartGrows
    <3> QED
      BY <2>4, <2>5, <2>7, <3>3
  <2> QED
    BY <2>6, <2>7
<1> DEFINE p == Those(s, S)
<1>8. p = f[n]
  BY <1>3, <1>6, ThoseUpto
<1>9. PartOf(p, s, S, n)
  BY <1>7, <1>8
<1> HIDE DEF p
<1>10. p \in Seq(Utxos) /\ Len(p) \in Nat /\ DOMAIN p = 1 .. Len(p) /\ Len(p) <= n
  BY <1>9 DEF PartOf
<1>11. p \in UtxoLists
  <2>1. Len(p) \in 0 .. c
    BY <1>2, <1>3, <1>4, <1>10
  <2>2. p \in [1 .. Len(p) -> Utxos]
    BY <1>10
  <2>3. p \in SeqOf(Utxos, c)
    BY <2>1, <2>2 DEF SeqOf
  <2>4. IsInjective(p)
    BY <1>9, <1>10 DEF PartOf, IsInjective
  <2> QED
    BY <2>3, <2>4 DEF UtxoLists
<1>12. ToSet(p) = ToSet(s) \cap S
  <2>1. \A j \in 1 .. Len(p) : p[j] \in S /\ \E k \in 1 .. n : p[j] = s[k]
    BY <1>9 DEF PartOf
  <2>2. \A k \in 1 .. n : s[k] \in S => \E j \in 1 .. Len(p) : p[j] = s[k]
    BY <1>9 DEF PartOf
  <2> HIDE DEF n
  <2>3. ASSUME NEW u \in ToSet(p) PROVE u \in ToSet(s) \cap S
    <3>1. PICK j \in 1 .. Len(p) : u = p[j]
      BY <1>10 DEF ToSet
    <3> QED
      BY <1>3, <2>1, <3>1 DEF ToSet
  <2>4. ASSUME NEW u \in ToSet(s) \cap S PROVE u \in ToSet(p)
    <3>1. PICK k \in 1 .. n : u = s[k]
      BY <1>3 DEF ToSet
    <3> QED
      BY <1>10, <2>2, <3>1 DEF ToSet
  <2> QED
    BY <2>3, <2>4
<1> QED
  BY <1>11, <1>12 DEF p

-----------------------------------------------------------------------------
(* Sums.                                                                   *)

(***************************************************************************)
(* The sums of the model are sums of functions.                            *)
(***************************************************************************)
LEMMA CoinsIsSum == \A S : Coins(S) = SumOf(CoinOf, S)
BY DEF Coins, SumOf, MapThenSumSet, MapThenFoldSet

LEMMA AmountIsSum ==
    ASSUME NEW t, NEW S \in SUBSET Utxos
    PROVE  Amount(t, S) = SumOf([x \in S |-> TokensOf[x][t]], S)
<1> DEFINE v == [x \in S |-> TokensOf[x][t]]
           Solves(g) == g = [T \in SUBSET S |->
                               IF T = {} THEN 0
                               ELSE TokensOf[Pick(T)][t] + g[T \ {Pick(T)}]]
           f == CHOOSE g : Solves(g)
<1>1. IsFiniteSet(S)
  BY UtxoTypes, FS_Subset
<1>2. \A g : Adds(g, v, SUBSET S) <=> Solves(g)
  <2>1. \A T \in SUBSET S : T # {} => v[Pick(T)] = TokensOf[Pick(T)][t]
    BY PickIsIn
  <2> HIDE DEF v
  <2> QED
    BY <2>1 DEF Adds
<1>3. PICK g : Adds(g, v, SUBSET S)
  BY <1>1, AddsExists
<1>4. Solves(f)
  <2>1. Solves(g)
    BY <1>2, <1>3
  <2> HIDE DEF Solves
  <2> QED
    BY <2>1, Zenon
<1>5. SumOf(v, S) = f[S]
  <2> HIDE DEF Solves, f, v
  <2> QED
    BY <1>1, <1>2, <1>4, SumIsAdded
<1>6. Amount(t, S) = f[S]
  BY DEF Amount, MapThenSumSet, MapThenFoldSet, Pick
<1> HIDE DEF f
<1> QED
  BY <1>5, <1>6

LEMMA PaidIsSum ==
    ASSUME NEW outputs, IsFiniteSet(DOMAIN outputs)
    PROVE  Paid(outputs) = SumOf([x \in DOMAIN outputs |-> outputs[x].coin], DOMAIN outputs)
<1> DEFINE S == DOMAIN outputs
           v == [x \in S |-> outputs[x].coin]
           Solves(g) == g = [T \in SUBSET S |->
                               IF T = {} THEN 0
                               ELSE outputs[Pick(T)].coin + g[T \ {Pick(T)}]]
           f == CHOOSE g : Solves(g)
<1>1. IsFiniteSet(S)
  OBVIOUS
<1>2. \A g : Adds(g, v, SUBSET S) <=> Solves(g)
  <2>1. \A T \in SUBSET S : T # {} => v[Pick(T)] = outputs[Pick(T)].coin
    BY PickIsIn
  <2> HIDE DEF S, v
  <2> QED
    BY <2>1 DEF Adds
<1>3. PICK g : Adds(g, v, SUBSET S)
  BY <1>1, AddsExists
<1>4. Solves(f)
  <2>1. Solves(g)
    BY <1>2, <1>3
  <2> HIDE DEF Solves
  <2> QED
    BY <2>1, Zenon
<1>5. SumOf(v, S) = f[S]
  <2> HIDE DEF Solves, f, v, S
  <2> QED
    BY <1>1, <1>2, <1>4, SumIsAdded
<1>6. Paid(outputs) = f[S]
  BY DEF Paid, MapThenSumSet, MapThenFoldSet, Pick
<1> HIDE DEF f
<1> QED
  BY <1>5, <1>6

LEMMA PaidTokensIsSum ==
    ASSUME NEW outputs, IsFiniteSet(DOMAIN outputs), NEW t
    PROVE  PaidTokens(t, outputs) = SumOf([x \in DOMAIN outputs |-> outputs[x].tokens[t]], DOMAIN outputs)
<1> DEFINE S == DOMAIN outputs
           v == [x \in S |-> outputs[x].tokens[t]]
           Solves(g) == g = [T \in SUBSET S |->
                               IF T = {} THEN 0
                               ELSE outputs[Pick(T)].tokens[t] + g[T \ {Pick(T)}]]
           f == CHOOSE g : Solves(g)
<1>1. IsFiniteSet(S)
  OBVIOUS
<1>2. \A g : Adds(g, v, SUBSET S) <=> Solves(g)
  <2>1. \A T \in SUBSET S : T # {} => v[Pick(T)] = outputs[Pick(T)].tokens[t]
    BY PickIsIn
  <2> HIDE DEF S, v
  <2> QED
    BY <2>1 DEF Adds
<1>3. PICK g : Adds(g, v, SUBSET S)
  BY <1>1, AddsExists
<1>4. Solves(f)
  <2>1. Solves(g)
    BY <1>2, <1>3
  <2> HIDE DEF Solves
  <2> QED
    BY <2>1, Zenon
<1>5. SumOf(v, S) = f[S]
  <2> HIDE DEF Solves, f, v, S
  <2> QED
    BY <1>1, <1>2, <1>4, SumIsAdded
<1>6. PaidTokens(t, outputs) = f[S]
  BY DEF PaidTokens, MapThenSumSet, MapThenFoldSet, Pick
<1> HIDE DEF f
<1> QED
  BY <1>5, <1>6

LEMMA ExtraSizeIsSum ==
    ASSUME NEW outputs, IsFiniteSet(DOMAIN outputs)
    PROVE  ExtraSize(outputs) = SumOf([x \in DOMAIN outputs |-> ExtraBytes(outputs[x])], DOMAIN outputs)
<1> DEFINE S == DOMAIN outputs
           v == [x \in S |-> ExtraBytes(outputs[x])]
           Solves(g) == g = [T \in SUBSET S |->
                               IF T = {} THEN 0
                               ELSE ExtraBytes(outputs[Pick(T)]) + g[T \ {Pick(T)}]]
           f == CHOOSE g : Solves(g)
<1>1. IsFiniteSet(S)
  OBVIOUS
<1>2. \A g : Adds(g, v, SUBSET S) <=> Solves(g)
  <2>1. \A T \in SUBSET S : T # {} => v[Pick(T)] = ExtraBytes(outputs[Pick(T)])
    BY PickIsIn
  <2> HIDE DEF S, v
  <2> QED
    BY <2>1 DEF Adds
<1>3. PICK g : Adds(g, v, SUBSET S)
  BY <1>1, AddsExists
<1>4. Solves(f)
  <2>1. Solves(g)
    BY <1>2, <1>3
  <2> HIDE DEF Solves
  <2> QED
    BY <2>1, Zenon
<1>5. SumOf(v, S) = f[S]
  <2> HIDE DEF Solves, f, v, S
  <2> QED
    BY <1>1, <1>2, <1>4, SumIsAdded
<1>6. ExtraSize(outputs) = f[S]
  BY DEF ExtraSize, MapThenSumSet, MapThenFoldSet, Pick
<1> HIDE DEF f
<1> QED
  BY <1>5, <1>6

LEMMA SizeIsSum ==
    ASSUME NEW outputs, IsFiniteSet(DOMAIN outputs)
    PROVE  Size(outputs) = SumOf([x \in DOMAIN outputs |-> OutputBytes(outputs[x])], DOMAIN outputs)
<1> DEFINE S == DOMAIN outputs
           v == [x \in S |-> OutputBytes(outputs[x])]
           Solves(g) == g = [T \in SUBSET S |->
                               IF T = {} THEN 0
                               ELSE OutputBytes(outputs[Pick(T)]) + g[T \ {Pick(T)}]]
           f == CHOOSE g : Solves(g)
<1>1. IsFiniteSet(S)
  OBVIOUS
<1>2. \A g : Adds(g, v, SUBSET S) <=> Solves(g)
  <2>1. \A T \in SUBSET S : T # {} => v[Pick(T)] = OutputBytes(outputs[Pick(T)])
    BY PickIsIn
  <2> HIDE DEF S, v
  <2> QED
    BY <2>1 DEF Adds
<1>3. PICK g : Adds(g, v, SUBSET S)
  BY <1>1, AddsExists
<1>4. Solves(f)
  <2>1. Solves(g)
    BY <1>2, <1>3
  <2> HIDE DEF Solves
  <2> QED
    BY <2>1, Zenon
<1>5. SumOf(v, S) = f[S]
  <2> HIDE DEF Solves, f, v, S
  <2> QED
    BY <1>1, <1>2, <1>4, SumIsAdded
<1>6. Size(outputs) = f[S]
  BY DEF Size, MapThenSumSet, MapThenFoldSet, Pick
<1> HIDE DEF f
<1> QED
  BY <1>5, <1>6

LEMMA MintedIsSum ==
    ASSUME NEW t, NEW mints, IsFiniteSet(DOMAIN mints)
    PROVE  LET minting == {i \in DOMAIN mints : mints[i].token = t /\ mints[i].amount > 0}
           IN  Minted(t, mints) = SumOf([x \in minting |-> mints[x].amount], minting)
<1> DEFINE S == {i \in DOMAIN mints : mints[i].token = t /\ mints[i].amount > 0}
           v == [x \in S |-> mints[x].amount]
           Solves(g) == g = [T \in SUBSET S |->
                               IF T = {} THEN 0
                               ELSE mints[Pick(T)].amount + g[T \ {Pick(T)}]]
           f == CHOOSE g : Solves(g)
<1>1. IsFiniteSet(S)
  BY FS_Subset
<1>2. \A g : Adds(g, v, SUBSET S) <=> Solves(g)
  <2>1. \A T \in SUBSET S : T # {} => v[Pick(T)] = mints[Pick(T)].amount
    BY PickIsIn
  <2> HIDE DEF S, v
  <2> QED
    BY <2>1 DEF Adds
<1>3. PICK g : Adds(g, v, SUBSET S)
  BY <1>1, AddsExists
<1>4. Solves(f)
  <2>1. Solves(g)
    BY <1>2, <1>3
  <2> HIDE DEF Solves
  <2> QED
    BY <2>1, Zenon
<1>5. SumOf(v, S) = f[S]
  <2> HIDE DEF Solves, f, v, S
  <2> QED
    BY <1>1, <1>2, <1>4, SumIsAdded
<1>6. Minted(t, mints) = f[S]
  BY DEF Minted, MapThenSumSet, MapThenFoldSet, Pick
<1> HIDE DEF f
<1> QED
  BY <1>5, <1>6

(***************************************************************************)
(* What the outputs of a wallet hold.                                      *)
(***************************************************************************)
LEMMA SumsAreNumbers ==
    ASSUME NEW S \in SUBSET Utxos
    PROVE  Coins(S) \in Nat /\ \A t \in Tokens : Amount(t, S) \in Nat
<1>1. IsFiniteSet(S) /\ \A u \in S : CoinOf[u] \in Nat
  BY UtxoTypes, FS_Subset
<1>2. Coins(S) \in Nat
  BY <1>1, CoinsIsSum, SumNat
<1>3. ASSUME NEW t \in Tokens PROVE Amount(t, S) \in Nat
  <2> DEFINE v == [u \in S |-> TokensOf[u][t]]
  <2>1. \A u \in S : v[u] \in Nat
    BY UtxoTypes
  <2>2. Amount(t, S) = SumOf(v, S)
    BY AmountIsSum
  <2> HIDE DEF v
  <2> QED
    BY <1>1, <2>1, <2>2, SumNat
<1> QED
  BY <1>2, <1>3

\* Numbers of a list add up to a number.
LEMMA ListSum ==
    ASSUME NEW n \in Nat, NEW v, \A i \in 1 .. n : v[i] \in Nat
    PROVE  SumOf(v, 1 .. n) \in Nat
<1>1. IsFiniteSet(1 .. n)
  BY FS_Interval
<1> QED
  BY <1>1, SumNat

LEMMA ListSumMore ==
    ASSUME NEW n \in Nat, NEW v, NEW w,
           \A i \in 1 .. n : v[i] \in Nat /\ w[i] = v[i], w[n + 1] \in Int
    PROVE  SumOf(w, 1 .. n + 1) = SumOf(v, 1 .. n) + w[n + 1]
<1>1. IsFiniteSet(1 .. n) /\ n + 1 \notin 1 .. n /\ 1 .. n + 1 = (1 .. n) \cup {n + 1}
  <2>1. IsFiniteSet(1 .. n)
    BY FS_Interval
  <2> QED
    BY <2>1
<1>2. \A i \in (1 .. n) \cup {n + 1} : w[i] \in Int
  OBVIOUS
<1>3. SumOf(w, (1 .. n) \cup {n + 1}) = SumOf(w, 1 .. n) + w[n + 1]
  <2> DEFINE S == 1 .. n
             e == n + 1
  <2>1. IsFiniteSet(S) /\ e \notin S /\ \A i \in S \cup {e} : w[i] \in Int
    BY <1>1, <1>2
  <2> HIDE DEF S, e
  <2>2. SumOf(w, S \cup {e}) = SumOf(w, S) + w[e]
    BY <2>1, SumAdd
  <2> QED
    BY <2>2 DEF S, e
<1>4. SumOf(w, 1 .. n) = SumOf(v, 1 .. n)
  BY <1>1, SumSame
<1> QED
  BY <1>1, <1>3, <1>4

LEMMA TokenCounts ==
    ASSUME NEW tokens
    PROVE  TokenCount(tokens) \in Nat
<1>1. IsFiniteSet({t \in Tokens : tokens[t] > 0})
  BY UtxoTypes, FS_Subset
<1> QED
  BY <1>1, FS_CardinalityType DEF TokenCount

LEMMA BytesAreNumbers ==
    ASSUME NEW o \in Output
    PROVE  OutputBytes(o) \in Nat /\ ExtraBytes(o) \in Nat
<1>1. o.coin \in Nat /\ TokenCount(o.tokens) \in Nat
  BY TokenCounts DEF Output
<1>2. Bytes(o.coin) \in Nat
  BY <1>1 DEF Bytes
<1> QED
  BY <1>1, <1>2 DEF OutputBytes, ExtraBytes

(***************************************************************************)
(* The outputs asked for are a sequence, and what they sum to are numbers. *)
(***************************************************************************)
LEMMA OutputsAsked ==
    ASSUME NEW outputs \in OutputLists
    PROVE  /\ outputs \in Seq(Payments)
           /\ DOMAIN outputs = 1 .. Len(outputs) /\ Len(outputs) \in Nat
           /\ \A i \in DOMAIN outputs : outputs[i] \in Output
           /\ Paid(outputs) \in Nat /\ Size(outputs) \in Nat /\ ExtraSize(outputs) \in Nat
           /\ \A t \in Tokens : PaidTokens(t, outputs) \in Nat
<1>1. outputs \in Seq(Payments)
  BY BuilderConstants, SeqDef DEF OutputLists, BoundedSeq, SeqOf
<1>2. DOMAIN outputs = 1 .. Len(outputs) /\ Len(outputs) \in Nat
  BY <1>1, LenProperties
<1>3. \A i \in DOMAIN outputs : outputs[i] \in Output
  BY <1>1, <1>2, ElementOfSeq, BuilderConstants
<1>4. IsFiniteSet(DOMAIN outputs)
  BY <1>2, FS_Interval
<1>5. Paid(outputs) \in Nat
  <2> DEFINE v == [i \in DOMAIN outputs |-> outputs[i].coin]
  <2>1. \A i \in DOMAIN outputs : v[i] \in Nat
    BY <1>3 DEF Output
  <2>2. Paid(outputs) = SumOf(v, DOMAIN outputs)
    BY <1>4, PaidIsSum
  <2> HIDE DEF v
  <2> QED
    BY <1>4, <2>1, <2>2, SumNat
<1>6. Size(outputs) \in Nat
  <2> DEFINE v == [i \in DOMAIN outputs |-> OutputBytes(outputs[i])]
  <2>1. \A i \in DOMAIN outputs : v[i] \in Nat
    BY <1>3, BytesAreNumbers
  <2>2. Size(outputs) = SumOf(v, DOMAIN outputs)
    BY <1>4, SizeIsSum
  <2> HIDE DEF v
  <2> QED
    BY <1>4, <2>1, <2>2, SumNat
<1>7. ExtraSize(outputs) \in Nat
  <2> DEFINE v == [i \in DOMAIN outputs |-> ExtraBytes(outputs[i])]
  <2>1. \A i \in DOMAIN outputs : v[i] \in Nat
    BY <1>3, BytesAreNumbers
  <2>2. ExtraSize(outputs) = SumOf(v, DOMAIN outputs)
    BY <1>4, ExtraSizeIsSum
  <2> HIDE DEF v
  <2> QED
    BY <1>4, <2>1, <2>2, SumNat
<1>8. ASSUME NEW t \in Tokens PROVE PaidTokens(t, outputs) \in Nat
  <2> DEFINE v == [i \in DOMAIN outputs |-> outputs[i].tokens[t]]
  <2>1. \A i \in DOMAIN outputs : v[i] \in Nat
    BY <1>3 DEF Output
  <2>2. PaidTokens(t, outputs) = SumOf(v, DOMAIN outputs)
    BY <1>4, PaidTokensIsSum
  <2> HIDE DEF v
  <2> QED
    BY <1>4, <2>1, <2>2, SumNat
<1> QED
  BY <1>1, <1>2, <1>3, <1>5, <1>6, <1>7, <1>8

(***************************************************************************)
(* One output more.                                                        *)
(***************************************************************************)
LEMMA PaidMore ==
    ASSUME NEW outputs \in OutputLists, NEW c, c.coin \in Int
    PROVE  /\ Paid(outputs \o <<c>>) = Paid(outputs) + c.coin
           /\ \A t \in Tokens : c.tokens[t] \in Int =>
                 PaidTokens(t, outputs \o <<c>>) = PaidTokens(t, outputs) + c.tokens[t]
<1> DEFINE more == outputs \o <<c>>
           n == Len(outputs)
<1>1. /\ n \in Nat /\ DOMAIN outputs = 1 .. n
      /\ \A i \in DOMAIN outputs : outputs[i] \in Output
  BY OutputsAsked
<1>2. /\ DOMAIN more = 1 .. n + 1
      /\ more[n + 1] = c
      /\ \A i \in 1 .. n : more[i] = outputs[i]
  <2> DEFINE S == Payments \cup {c}
  <2>1. outputs \in Seq(Payments)
    BY OutputsAsked
  <2>2. outputs \in Seq(S)
    BY <2>1, SeqMonotonic, Zenon
  <2>3. <<c>> \in Seq(S) /\ Len(<<c>>) = 1 /\ <<c>>[1] = c
    OBVIOUS
  <2>4. /\ more \in Seq(S) /\ Len(more) = n + 1
        /\ \A i \in 1 .. n + 1 : more[i] = IF i <= n THEN outputs[i] ELSE <<c>>[i - n]
    BY <1>1, <2>2, <2>3, ConcatProperties
  <2>5. DOMAIN more = 1 .. n + 1
    BY <2>4, LenProperties
  <2>6. n + 1 \in 1 .. n + 1 /\ n + 1 - n = 1 /\ ~(n + 1 <= n) /\ 1 .. n \subseteq 1 .. n + 1
    BY <1>1
  <2> QED
    BY <2>3, <2>4, <2>5, <2>6
<1> HIDE DEF more, n
<1>3. IsFiniteSet(DOMAIN outputs) /\ IsFiniteSet(DOMAIN more)
  BY <1>1, <1>2, FS_Interval
<1>4. Paid(more) = Paid(outputs) + c.coin
  <2> DEFINE v == [i \in DOMAIN outputs |-> outputs[i].coin]
             w == [i \in DOMAIN more |-> more[i].coin]
  <2>1. /\ \A i \in 1 .. n : v[i] \in Nat /\ w[i] = v[i]
        /\ w[n + 1] = c.coin
    BY <1>1, <1>2 DEF Output
  <2>2. Paid(outputs) = SumOf(v, 1 .. n) /\ Paid(more) = SumOf(w, 1 .. n + 1)
    BY <1>1, <1>2, <1>3, PaidIsSum
  <2> HIDE DEF v, w
  <2> QED
    BY <1>1, <2>1, <2>2, ListSumMore
<1>5. ASSUME NEW t \in Tokens, c.tokens[t] \in Int
      PROVE  PaidTokens(t, more) = PaidTokens(t, outputs) + c.tokens[t]
  <2> DEFINE v == [i \in DOMAIN outputs |-> outputs[i].tokens[t]]
             w == [i \in DOMAIN more |-> more[i].tokens[t]]
  <2>1. /\ \A i \in 1 .. n : v[i] \in Nat /\ w[i] = v[i]
        /\ w[n + 1] = c.tokens[t]
    BY <1>1, <1>2 DEF Output
  <2>2. /\ PaidTokens(t, outputs) = SumOf(v, 1 .. n)
        /\ PaidTokens(t, more) = SumOf(w, 1 .. n + 1)
    BY <1>1, <1>2, <1>3, PaidTokensIsSum
  <2> HIDE DEF v, w
  <2>3. w[n + 1] \in Int
    BY <1>5, <2>1
  <2>4. PaidTokens(t, more) = PaidTokens(t, outputs) + w[n + 1]
    BY <1>1, <2>1, <2>2, <2>3, ListSumMore
  <2> QED
    BY <2>1, <2>4
<1> QED
  BY <1>4, <1>5 DEF more

LEMMA MintedIsNumber ==
    ASSUME NEW mints \in Seq(Mints), NEW t
    PROVE  Minted(t, mints) \in Nat /\ (mints = <<>> => Minted(t, mints) = 0)
<1> DEFINE S == {i \in DOMAIN mints : mints[i].token = t /\ mints[i].amount > 0}
           v == [i \in S |-> mints[i].amount]
<1>1. DOMAIN mints = 1 .. Len(mints) /\ Len(mints) \in Nat
  BY LenProperties
<1>2. IsFiniteSet(DOMAIN mints)
  BY <1>1, FS_Interval
<1>3. IsFiniteSet(S)
  BY <1>2, FS_Subset
<1>4. \A i \in S : v[i] \in Nat
  <2>1. \A i \in DOMAIN mints : mints[i].amount \in Int
    BY <1>1, ElementOfSeq, BuilderConstants
  <2> QED
    BY <2>1
<1>5. Minted(t, mints) = SumOf(v, S)
  BY <1>2, MintedIsSum
<1>6. mints = <<>> => S = {}
  BY <1>1, EmptySeq
<1> HIDE DEF S, v
<1> QED
  BY <1>3, <1>4, <1>5, <1>6, SumNat, SumEmpty

-----------------------------------------------------------------------------
(* Coin selection.                                                         *)

\* The prefixes of a list that cover what is asked for.
Enough(order, coins, tokens) ==
    {n \in 1 .. Len(order) : Covers(First(order, n), coins, tokens)}

(***************************************************************************)
(* select_coins takes a prefix of the list.                                *)
(***************************************************************************)
LEMMA TakenIsPrefix ==
    ASSUME NEW order \in Seq(Utxos), NEW coins, NEW tokens
    PROVE  /\ Taken(order, coins, tokens) \in 0 .. Len(order)
           /\ Enough(order, coins, tokens) # {} =>
                /\ Taken(order, coins, tokens) \in Enough(order, coins, tokens)
                /\ \A n \in Enough(order, coins, tokens) : Taken(order, coins, tokens) <= n
<1>1. Enough(order, coins, tokens) \in SUBSET Nat
  BY DEF Enough
<1>2. ASSUME Enough(order, coins, tokens) # {}
      PROVE  /\ Taken(order, coins, tokens) \in Enough(order, coins, tokens)
             /\ \A n \in Enough(order, coins, tokens) : Taken(order, coins, tokens) <= n
  <2>1. Taken(order, coins, tokens) = Min(Enough(order, coins, tokens))
    BY <1>2 DEF Taken, Enough
  <2> QED
    BY <1>1, <1>2, <2>1, MinIsLeast
<1>3. Taken(order, coins, tokens) \in 0 .. Len(order)
  <2>1. CASE Enough(order, coins, tokens) = {}
    <3>1. Taken(order, coins, tokens) = Len(order)
      BY <2>1 DEF Taken, Enough
    <3> QED
      BY <3>1, LenProperties
  <2>2. CASE Enough(order, coins, tokens) # {}
    BY <1>2, <2>2 DEF Enough
  <2> QED
    BY <2>1, <2>2
<1> QED
  BY <1>2, <1>3

(***************************************************************************)
(* What is selected comes from the list, and counts in natural numbers.    *)
(***************************************************************************)
LEMMA SelectedFromList ==
    ASSUME NEW order \in Seq(Utxos), NEW n \in 0 .. Len(order)
    PROVE  /\ First(order, n) \subseteq ToSet(order)
           /\ First(order, n) \in SUBSET Utxos
           /\ Coins(First(order, n)) \in Nat
           /\ \A t \in Tokens : Amount(t, First(order, n)) \in Nat
<1>1. First(order, n) \subseteq ToSet(order) /\ First(order, n) \subseteq Utxos
  BY DEF First, ToSet
<1> QED
  BY <1>1, SumsAreNumbers

(***************************************************************************)
(* Asking for more lovelace than before, but not for more than the change  *)
(* there was, selects the same outputs.                                    *)
(***************************************************************************)
LEMMA SelectionStays ==
    ASSUME NEW order \in Seq(Utxos), NEW coins \in Nat, NEW more \in Nat, NEW tokens,
           Suffices(order, coins, tokens),
           ChangeCoins(order, coins, tokens) >= more
    PROVE  Taken(order, coins + more, tokens) = Taken(order, coins, tokens)
<1> DEFINE T == Taken(order, coins, tokens)
           U == Taken(order, coins + more, tokens)
<1>1. T \in 0 .. Len(order) /\ Coins(First(order, T)) \in Nat
  BY TakenIsPrefix, SelectedFromList
<1>2. Covers(First(order, T), coins + more, tokens)
  BY <1>1 DEF Suffices, Covers, ChangeCoins, Selected
<1>3. Enough(order, coins + more, tokens) \subseteq Enough(order, coins, tokens)
  <2>1. SUFFICES ASSUME NEW n \in Enough(order, coins + more, tokens)
                 PROVE  n \in Enough(order, coins, tokens)
    OBVIOUS
  <2>2. n \in 0 .. Len(order)
    BY <2>1 DEF Enough
  <2>3. Coins(First(order, n)) \in Nat
    BY <2>2, SelectedFromList
  <2> QED
    BY <2>1, <2>3 DEF Enough, Covers
<1>4. CASE Enough(order, coins, tokens) = {}
  <2>1. Enough(order, coins + more, tokens) = {}
    BY <1>3, <1>4
  <2> QED
    BY <1>4, <2>1 DEF Taken, Enough
<1>5. CASE Enough(order, coins, tokens) # {}
  <2>1. T \in Enough(order, coins, tokens)
        /\ \A n \in Enough(order, coins, tokens) : T <= n
    BY <1>5, TakenIsPrefix
  <2>2. T \in Enough(order, coins + more, tokens)
    BY <1>2, <2>1 DEF Enough
  <2>3. /\ U \in Enough(order, coins + more, tokens)
        /\ \A n \in Enough(order, coins + more, tokens) : U <= n
    BY <2>2, TakenIsPrefix
  <2>4. T <= U /\ U <= T
    BY <1>3, <2>1, <2>2, <2>3
  <2>5. T \in Nat /\ U \in Nat
    BY <2>2, <2>3 DEF Enough
  <2> QED
    BY <2>4, <2>5
<1> QED
  BY <1>4, <1>5

-----------------------------------------------------------------------------
(* The invariant.                                                          *)

\* What the builder holds between calls.
BuilderInv ==
    /\ DOMAIN builder = {"client", "utxos", "outputs", "mints", "scripts", "collateral",
                         "fee", "limit", "params"}
    /\ builder.utxos # None => The(builder.utxos) \in UtxoLists
    /\ builder.outputs \in OutputLists
    /\ builder.mints \in Seq(Mints)
    /\ builder.scripts \subseteq ScriptUtxos
    /\ builder.collateral # None => The(builder.collateral) \in Seq(Utxos)
    /\ builder.fee # None => The(builder.fee) \in Nat
    /\ builder.limit \in Nat

\* The transaction that a try with a fee makes, and the fee that it needs.
Attempt(fee) ==
    Built(Selected(Order, Paid(builder.outputs) + fee, NeededTokens),
          ChangeCoins(Order, Paid(builder.outputs) + fee, NeededTokens),
          ChangeTokens(Order, Paid(builder.outputs) + fee, NeededTokens), fee)

Required(fee) == estimate_fee(TxSize(Attempt(fee)))

\* The second try has the fee that its transaction needs.
FeeInv ==
    job.at = "fee" =>
        /\ job.iteration \in {1, 2}
        /\ job.fee \in Nat
        /\ builder.fee = None => job.fee >= MinFeeB
        /\ builder.fee # None => job.fee = The(builder.fee)
        /\ job.iteration = 2 => Required(job.fee) <= job.fee

\* What LovelaceConserved and TokensConserved say of a transaction.
LovelaceOf(tx) ==
    LET over == CoinsOver(tx)
        tokens == TokensOver(tx)
    IN  /\ over >= 0
        /\ \/ over = 0 /\ tokens = NoTokens
           \/ over >= LeastChange(tokens)
           => Coins(tx.inputs) = Paid(tx.outputs) + tx.fee

TokensOfTx(tx) ==
    \A t \in Tokens :
        LET out == PaidTokens(t, tx.outputs)
        IN  /\ out <= Amount(t, tx.inputs) + Minted(t, builder.mints)
            /\ builder.mints = <<>> => out = Amount(t, tx.inputs)

\* What was built is the outputs asked for and at most one change output.
TxInv ==
    HasTx =>
        /\ job.tx.inputs \subseteq Utxos \ builder.scripts
        /\ \/ job.tx = Body(job.tx.inputs, <<>>, job.tx.fee)
           \/ LET c == Last(job.tx.outputs) IN
              /\ job.tx = Body(job.tx.inputs, <<c>>, job.tx.fee)
              /\ c = [coin |-> c.coin, tokens |-> c.tokens, kind |-> "payment"]
              /\ c.coin \in Nat /\ c.tokens \in [Tokens -> Nat]
              /\ c.tokens = NoTokens => c.coin > 0
        /\ LovelaceOf(job.tx) /\ TokensOfTx(job.tx)

\* There is a transaction only after the search for the fee.
JobInv ==
    /\ job.fee \in Nat /\ job.iteration \in 0 .. 2
    /\ ~HasTx => job.tx = NoTx

SignedInv ==
    job.at = "signed" =>
        job.signed = [tx |-> Body(job.tx.inputs, Readded(ChangeAmount), job.tx.fee), keys |-> Keys]

IInv ==
    /\ unspent \subseteq Utxos
    /\ BuilderInv
    /\ DOMAIN job = DOMAIN Idle
    /\ JobInv
    /\ FeeInv
    /\ TxInv
    /\ SignedInv

(***************************************************************************)
(* select_coins never looks at an output that is spent as a script input.  *)
(***************************************************************************)
LEMMA OrderIsFree ==
    ASSUME BuilderInv, builder.utxos # None
    PROVE  /\ Order \in Seq(Utxos)
           /\ ToSet(Order) \subseteq Utxos \ builder.scripts
<1> DEFINE free  == Spendable(The(builder.utxos))
           pure  == Those(free, {u \in Utxos : ~HasTokens(u)})
           mixed == Those(free, {u \in Utxos : HasTokens(u)})
<1>1. free \in UtxoLists /\ ToSet(free) \subseteq Utxos \ builder.scripts
  <2>1. The(builder.utxos) \in UtxoLists
    BY DEF BuilderInv
  <2> QED
    BY <2>1, PartsAreLists DEF Spendable
<1>2. pure \in UtxoLists /\ ToSet(pure) \subseteq ToSet(free)
  BY <1>1, PartsAreLists
<1>3. mixed \in UtxoLists /\ ToSet(mixed) \subseteq ToSet(free)
  BY <1>1, PartsAreLists
<1>4. pure \in Seq(Utxos) /\ mixed \in Seq(Utxos)
  BY <1>2, <1>3, ListsAreSequences
<1> HIDE DEF free, pure, mixed
<1>5. ASSUME NEW s \in Seq(Utxos), NEW t \in Seq(Utxos)
      PROVE  s \o t \in Seq(Utxos) /\ ToSet(s \o t) \subseteq ToSet(s) \cup ToSet(t)
  <2>1. /\ s \o t \in Seq(Utxos)
        /\ DOMAIN (s \o t) = 1 .. Len(s) + Len(t)
        /\ DOMAIN s = 1 .. Len(s) /\ DOMAIN t = 1 .. Len(t)
        /\ Len(s) \in Nat /\ Len(t) \in Nat
        /\ \A i \in 1 .. Len(s) + Len(t) :
              (s \o t)[i] = IF i <= Len(s) THEN s[i] ELSE t[i - Len(s)]
    BY ConcatProperties, LenProperties
  <2>2. ASSUME NEW i \in DOMAIN (s \o t)
        PROVE  (s \o t)[i] \in ToSet(s) \cup ToSet(t)
    <3>1. CASE i <= Len(s)
      BY <2>1, <2>2, <3>1 DEF ToSet
    <3>2. CASE ~(i <= Len(s))
      <4>1. i - Len(s) \in DOMAIN t
        BY <2>1, <2>2, <3>2
      <4> QED
        BY <2>1, <2>2, <3>2, <4>1 DEF ToSet
    <3> QED
      BY <3>1, <3>2
  <2> QED
    BY <2>1, <2>2 DEF ToSet
<1>6. Order = mixed \o pure \/ Order = pure \o mixed
  BY DEF Order, free, pure, mixed
<1> QED
  BY <1>1, <1>2, <1>3, <1>4, <1>5, <1>6

-----------------------------------------------------------------------------
(* The size of a transaction and the fee it needs.                         *)

CollateralOf == IF HasPlutus THEN The(builder.collateral) ELSE <<>>

\* The part of the size that does not depend on the change and the fee.
Rest(inputs) ==
    90 + 36 * Cardinality(inputs) + 200 * Cardinality(builder.scripts)
    + 36 * Len(CollateralOf)
    + 60 * Len(builder.mints) + Size(builder.outputs)

LEMMA RestIsNumber ==
    ASSUME BuilderInv, NEW inputs \in SUBSET Utxos, HasPlutus => builder.collateral # None
    PROVE  Rest(inputs) \in Nat
<1>1. Cardinality(inputs) \in Nat /\ Cardinality(builder.scripts) \in Nat
  <2>1. inputs \subseteq Utxos /\ builder.scripts \subseteq Utxos /\ IsFiniteSet(Utxos)
    BY BuilderConstants, UtxoTypes DEF BuilderInv
  <2>2. IsFiniteSet(inputs) /\ IsFiniteSet(builder.scripts)
    BY <2>1, FS_Subset
  <2> QED
    BY <2>2, FS_CardinalityType
<1>2. Len(CollateralOf) \in Nat
  BY LenProperties, EmptySeq DEF BuilderInv, CollateralOf
<1>3. Len(builder.mints) \in Nat
  BY LenProperties DEF BuilderInv
<1>4. Size(builder.outputs) \in Nat
  BY OutputsAsked DEF BuilderInv
<1> DEFINE a == Cardinality(inputs)
           b == Cardinality(builder.scripts)
           c == Len(CollateralOf)
           d == Len(builder.mints)
           e == Size(builder.outputs)
<1>5. Rest(inputs) = 90 + 36 * a + 200 * b + 36 * c + 60 * d + e
  BY DEF Rest
<1> HIDE DEF a, b, c, d, e
<1>6. a \in Nat /\ b \in Nat /\ c \in Nat /\ d \in Nat /\ e \in Nat
  BY <1>1, <1>2, <1>3, <1>4 DEF a, b, c, d, e
<1> QED
  BY <1>5, <1>6

(***************************************************************************)
(* A transaction with a change output, taken apart.                        *)
(***************************************************************************)
LEMMA ChangeIsLast ==
    ASSUME BuilderInv, NEW inputs, NEW c, NEW fee
    PROVE  LET tx == Body(inputs, <<c>>, fee) IN
           /\ Len(tx.outputs) = Len(builder.outputs) + 1
           /\ Len(builder.outputs) \in Nat
           /\ Last(tx.outputs) = c
<1> DEFINE S == Payments \cup {c}
<1>1. builder.outputs \in Seq(Payments)
  BY OutputsAsked DEF BuilderInv
<1>2. builder.outputs \in Seq(S)
  BY <1>1, SeqMonotonic, Zenon
<1>3. <<c>> \in Seq(S) /\ Len(<<c>>) = 1 /\ <<c>>[1] = c
  OBVIOUS
<1>4. Len(builder.outputs) \in Nat
  BY <1>1, LenProperties
<1>5. /\ Len(builder.outputs \o <<c>>) = Len(builder.outputs) + 1
      /\ (builder.outputs \o <<c>>)[Len(builder.outputs) + 1] = c
  BY <1>2, <1>3, <1>4, ConcatProperties
<1> QED
  BY <1>4, <1>5 DEF Body, Last

LEMMA SizeWithChange ==
    ASSUME BuilderInv, NEW inputs \in SUBSET Utxos, NEW c, NEW fee
    PROVE  TxSize(Body(inputs, <<c>>, fee)) = Rest(inputs) + Bytes(fee) + OutputBytes(c)
<1> DEFINE tx == Body(inputs, <<c>>, fee)
<1>1. Len(tx.outputs) > Len(builder.outputs) /\ Last(tx.outputs) = c
  BY ChangeIsLast
<1>2. /\ tx.inputs = inputs /\ tx.scripts = builder.scripts /\ tx.fee = fee
      /\ tx.mints = builder.mints
      /\ tx.collateral = CollateralOf
  BY DEF Body, CollateralOf
<1> QED
  BY <1>1, <1>2 DEF TxSize, Rest

LEMMA SizeWithout ==
    ASSUME BuilderInv, NEW inputs \in SUBSET Utxos, NEW fee
    PROVE  TxSize(Body(inputs, <<>>, fee)) = Rest(inputs) + Bytes(fee) + 0
<1> DEFINE tx == Body(inputs, <<>>, fee)
<1>1. tx.outputs = builder.outputs /\ Len(builder.outputs) \in Nat
  <2>1. builder.outputs \in Seq(Payments)
    BY OutputsAsked DEF BuilderInv
  <2> QED
    BY <2>1, ConcatEmptySeq, LenProperties DEF Body
<1>2. /\ tx.inputs = inputs /\ tx.scripts = builder.scripts /\ tx.fee = fee
      /\ tx.mints = builder.mints
      /\ tx.collateral = CollateralOf
  BY DEF Body, CollateralOf
<1> QED
  BY <1>1, <1>2 DEF TxSize, Rest

(***************************************************************************)
(* The encoding of a larger number is not shorter.                         *)
(***************************************************************************)
LEMMA BytesGrow ==
    ASSUME NEW m \in Nat, NEW n \in Nat, m <= n
    PROVE  Bytes(m) \in Nat /\ Bytes(n) \in Nat /\ Bytes(m) <= Bytes(n)
BY DEF Bytes

LEMMA MinChangeIsNumber == MinChange \in Nat \ {0}
BY BuilderConstants DEF MinChange

LEMMA ChangeIsCoins ==
    ASSUME NEW coins \in Nat, NEW tokens, HasChange(coins, tokens)
    PROVE  LET c == ChangeOutput(coins, tokens) IN
           /\ c = [coin |-> c.coin, tokens |-> tokens, kind |-> "payment"]
           /\ c.coin \in Nat
           /\ tokens = NoTokens => c.coin > 0
<1>1. MinChange \in Nat \ {0} /\ TokenMinimum(tokens) \in Nat
  BY MinChangeIsNumber, TokenCounts, BuilderConstants DEF TokenMinimum
<1> QED
  BY <1>1 DEF ChangeOutput, HasChange, LeastChange

LEMMA ChangeSize ==
    ASSUME NEW m \in Nat, NEW n \in Nat, m <= n, NEW tokens
    PROVE  LET small == OutputBytes([coin |-> m, tokens |-> tokens, kind |-> "payment"])
               large == OutputBytes([coin |-> n, tokens |-> tokens, kind |-> "payment"])
           IN  small \in Nat /\ large \in Nat /\ small <= large
<1>1. TokenCount(tokens) \in Nat /\ Bytes(m) \in Nat /\ Bytes(n) \in Nat /\ Bytes(m) <= Bytes(n)
  BY TokenCounts, BytesGrow
<1> QED
  BY <1>1 DEF OutputBytes

(***************************************************************************)
(* What a try selects, and what is over.                                   *)
(***************************************************************************)
LEMMA TrySelects ==
    ASSUME BuilderInv, builder.utxos # None, NEW coins \in Nat,
           Suffices(Order, coins, NeededTokens)
    PROVE  /\ Selected(Order, coins, NeededTokens) \in SUBSET Utxos
           /\ Selected(Order, coins, NeededTokens) \subseteq Utxos \ builder.scripts
           /\ ChangeCoins(Order, coins, NeededTokens) \in Nat
<1>1. Order \in Seq(Utxos) /\ ToSet(Order) \subseteq Utxos \ builder.scripts
  BY OrderIsFree
<1>2. Taken(Order, coins, NeededTokens) \in 0 .. Len(Order)
  BY <1>1, TakenIsPrefix
<1>3. /\ Selected(Order, coins, NeededTokens) \subseteq ToSet(Order)
      /\ Selected(Order, coins, NeededTokens) \in SUBSET Utxos
      /\ Coins(Selected(Order, coins, NeededTokens)) \in Nat
  BY <1>1, <1>2, SelectedFromList DEF Selected
<1> QED
  BY <1>1, <1>3 DEF Suffices, Covers, ChangeCoins

LEMMA AttemptSize ==
    ASSUME BuilderInv, HasPlutus => builder.collateral # None, NEW inputs \in SUBSET Utxos,
           NEW coins \in Nat, NEW tokens, NEW fee \in Nat
    PROVE  TxSize(Built(inputs, coins, tokens, fee)) \in Nat
<1>1. Rest(inputs) \in Nat /\ Bytes(fee) \in Nat
  BY RestIsNumber, BytesGrow
<1>2. CASE HasChange(coins, tokens)
  <2> DEFINE c == ChangeOutput(coins, tokens)
  <2>1. c = [coin |-> c.coin, tokens |-> tokens, kind |-> "payment"] /\ c.coin \in Nat
    BY <1>2, ChangeIsCoins
  <2>2. OutputBytes(c) \in Nat
    BY <2>1, ChangeSize
  <2>3. TxSize(Body(inputs, <<c>>, fee)) = Rest(inputs) + Bytes(fee) + OutputBytes(c)
    BY SizeWithChange
  <2>4. Built(inputs, coins, tokens, fee) = Body(inputs, <<c>>, fee)
    BY <1>2 DEF Built
  <2> QED
    BY <1>1, <2>2, <2>3, <2>4
<1>3. CASE ~HasChange(coins, tokens)
  <2>1. Built(inputs, coins, tokens, fee) = Body(inputs, <<>>, fee)
    BY <1>3 DEF Built
  <2> QED
    BY <1>1, <2>1, SizeWithout
<1> QED
  BY <1>2, <1>3

LEMMA TimesGrows ==
    ASSUME NEW a \in Nat, NEW m \in Nat, NEW n \in Nat, m <= n
    PROVE  a * m \in Nat /\ a * n \in Nat /\ a * m <= a * n
<1>1. PICK d \in Nat : n = m + d
  <2>1. n - m \in Nat /\ n = m + (n - m)
    OBVIOUS
  <2> QED
    BY <2>1
<1>2. a * n = a * m + a * d /\ a * d \in Nat /\ a * m \in Nat
  BY <1>1
<1> QED
  BY <1>1, <1>2

(***************************************************************************)
(* A try whose change pays for the raise is followed by one with the fee   *)
(* that its transaction needs.                                             *)
(***************************************************************************)
LEMMA RaiseSuffices ==
    ASSUME BuilderInv, builder.utxos # None, builder.fee = None,
           HasPlutus => builder.collateral # None,
           NEW fee \in Nat, fee >= MinFeeB,
           Suffices(Order, Paid(builder.outputs) + fee, NeededTokens),
           Required(fee) > fee,
           ChangeCoins(Order, Paid(builder.outputs) + fee, NeededTokens)
              >= (Required(fee) - fee) + MinChange
    PROVE  /\ Required(fee) \in Nat
           /\ Required(fee) >= MinFeeB
           /\ Required(Required(fee)) <= Required(fee)
<1> DEFINE coins  == Paid(builder.outputs) + fee
           sel    == Selected(Order, coins, NeededTokens)
           change == ChangeCoins(Order, coins, NeededTokens)
           tokens == ChangeTokens(Order, coins, NeededTokens)
           next   == Required(fee)
           more   == next - fee
           c1     == ChangeOutput(change, tokens)
           c2     == ChangeOutput(change - more, tokens)
<1>1. Paid(builder.outputs) \in Nat /\ coins \in Nat
  BY OutputsAsked DEF BuilderInv
<1>2. sel \in SUBSET Utxos /\ change \in Nat
  BY <1>1, TrySelects
<1>3. Rest(sel) \in Nat
  BY <1>2, RestIsNumber
<1>4. TxSize(Attempt(fee)) \in Nat
  BY <1>2, AttemptSize DEF Attempt
<1>5. MinFeeA \in Nat /\ MinFeeB \in Nat /\ MinFeeB >= 65536
  BY BuilderConstants
<1>6. \A f : Required(f) = MinFeeA * TxSize(Attempt(f)) + MinFeeB
  BY DEF Required, estimate_fee
<1>7. next \in Nat /\ next >= MinFeeB
  BY <1>4, <1>5, <1>6, TimesGrows
<1>8. more \in Nat /\ change >= more /\ change - more \in Nat /\ change - more >= MinChange
      /\ change >= MinChange
  BY <1>2, <1>7, MinChangeIsNumber
<1>9. Taken(Order, coins + more, NeededTokens) = Taken(Order, coins, NeededTokens)
  BY <1>1, <1>8, OrderIsFree, SelectionStays
<1>10. Paid(builder.outputs) + next = coins + more
  BY <1>1, <1>7
<1>11. /\ Selected(Order, coins + more, NeededTokens) = sel
       /\ ChangeTokens(Order, coins + more, NeededTokens) = tokens
  BY <1>9 DEF Selected, ChangeTokens
<1>12. ChangeCoins(Order, coins + more, NeededTokens) = change - more
  <2>1. Coins(sel) \in Nat
    BY <1>2, SumsAreNumbers
  <2> QED
    BY <1>1, <1>8, <1>11, <2>1 DEF ChangeCoins
<1>13. Attempt(fee) = Body(sel, <<c1>>, fee) /\ Attempt(next) = Body(sel, <<c2>>, next)
  <2>1. HasChange(change, tokens) /\ HasChange(change - more, tokens)
    BY <1>8 DEF HasChange
  <2>2. Attempt(next) = Built(sel, change - more, tokens, next)
    BY <1>10, <1>11, <1>12 DEF Attempt
  <2> QED
    BY <2>1, <2>2 DEF Attempt, Built
<1>14. /\ c1 = [coin |-> c1.coin, tokens |-> tokens, kind |-> "payment"]
       /\ c2 = [coin |-> c2.coin, tokens |-> tokens, kind |-> "payment"]
       /\ c1.coin \in Nat /\ c2.coin \in Nat /\ c2.coin <= c1.coin
  <2>1. HasChange(change, tokens) /\ HasChange(change - more, tokens)
    BY <1>8 DEF HasChange
  <2>2. MinChange \in Nat /\ TokenMinimum(tokens) \in Nat
    BY MinChangeIsNumber, TokenCounts, BuilderConstants DEF TokenMinimum
  <2>3. c2.coin <= c1.coin
    BY <1>2, <1>8, <2>2 DEF ChangeOutput, LeastChange
  <2> QED
    BY <1>2, <1>8, <2>1, <2>3, ChangeIsCoins
<1>15. /\ TxSize(Attempt(fee)) = Rest(sel) + Bytes(fee) + OutputBytes(c1)
       /\ TxSize(Attempt(next)) = Rest(sel) + Bytes(next) + OutputBytes(c2)
  BY <1>2, <1>13, SizeWithChange
<1>16. Bytes(fee) = 5 /\ Bytes(next) = 5
  BY <1>5, <1>7 DEF Bytes
<1>17. OutputBytes(c1) \in Nat /\ OutputBytes(c2) \in Nat /\ OutputBytes(c2) <= OutputBytes(c1)
  BY <1>14, ChangeSize
<1>18. TxSize(Attempt(next)) \in Nat /\ TxSize(Attempt(next)) <= TxSize(Attempt(fee))
  BY <1>3, <1>15, <1>16, <1>17
<1>19. MinFeeA * TxSize(Attempt(next)) <= MinFeeA * TxSize(Attempt(fee))
       /\ MinFeeA * TxSize(Attempt(next)) \in Nat /\ MinFeeA * TxSize(Attempt(fee)) \in Nat
  BY <1>4, <1>5, <1>18, TimesGrows
<1>20. Required(next) <= next
  BY <1>5, <1>6, <1>19
<1> QED
  BY <1>7, <1>20

-----------------------------------------------------------------------------
(* What a try pays.                                                        *)

(***************************************************************************)
(* The change of a body is the part after the outputs asked for.           *)
(***************************************************************************)
LEMMA ChangeOfBody ==
    ASSUME BuilderInv, NEW inputs, NEW c, NEW fee
    PROVE  /\ Change(Body(inputs, <<c>>, fee)) # <<>>
           /\ Change(Body(inputs, <<>>, fee)) = <<>>
           /\ Body(inputs, <<>>, fee).outputs = builder.outputs
<1>1. builder.outputs \in Seq(Payments) /\ Len(builder.outputs) \in Nat
  BY OutputsAsked DEF BuilderInv
<1>2. Change(Body(inputs, <<c>>, fee)) # <<>>
  <2> DEFINE s == Body(inputs, <<c>>, fee).outputs
             n == Len(builder.outputs)
  <2>1. Len(s) = n + 1 /\ n \in Nat
    BY ChangeIsLast
  <2>2. Change(Body(inputs, <<c>>, fee)) = SubSeq(s, n + 1, n + 1)
    BY <2>1 DEF Change
  <2> HIDE DEF s, n
  <2>3. Len(SubSeq(s, n + 1, n + 1)) = 1
    BY <2>1, SubSeqProperties
  <2>4. Len(Change(Body(inputs, <<c>>, fee))) = 1
    BY <2>2, <2>3
  <2> QED
    BY <2>4, EmptySeq
<1>3. Body(inputs, <<>>, fee).outputs = builder.outputs
  BY <1>1, ConcatEmptySeq DEF Body
<1>4. Change(Body(inputs, <<>>, fee)) = <<>>
  <2> DEFINE n == Len(builder.outputs)
  <2>1. Change(Body(inputs, <<>>, fee)) = SubSeq(builder.outputs, n + 1, n)
    BY <1>3 DEF Change
  <2>2. n \in Nat
    BY <1>1
  <2> HIDE DEF n
  <2>3. Len(SubSeq(builder.outputs, n + 1, n)) = 0 /\ SubSeq(builder.outputs, n + 1, n) \in Seq(Payments)
    BY <1>1, <2>2, SubSeqProperties
  <2> QED
    BY <2>1, <2>3, EmptySeq
<1> QED
  BY <1>2, <1>3, <1>4

(***************************************************************************)
(* What a try gives back of the tokens.                                    *)
(***************************************************************************)
LEMMA TryTokens ==
    ASSUME BuilderInv, builder.utxos # None, NEW coins \in Nat,
           Suffices(Order, coins, NeededTokens)
    PROVE  LET sel == Selected(Order, coins, NeededTokens)
               tokens == ChangeTokens(Order, coins, NeededTokens)
           IN  \A t \in Tokens :
                  /\ Needed(t) \in Nat /\ Amount(t, sel) \in Nat
                  /\ tokens[t] = Amount(t, sel) - Needed(t)
                  /\ tokens[t] \in Nat
<1> DEFINE sel == Selected(Order, coins, NeededTokens)
<1>1. sel \in SUBSET Utxos
  BY TrySelects
<1>2. ASSUME NEW t \in Tokens
      PROVE  /\ Needed(t) \in Nat /\ Amount(t, sel) \in Nat
             /\ Amount(t, sel) >= Needed(t)
  <2>1. Amount(t, sel) \in Nat
    BY <1>1, SumsAreNumbers
  <2>2. PaidTokens(t, builder.outputs) \in Nat /\ Minted(t, builder.mints) \in Nat
    BY OutputsAsked, MintedIsNumber DEF BuilderInv
  <2>3. Amount(t, sel) >= NeededTokens[t]
    BY DEF Suffices, Covers
  <2> QED
    BY <2>1, <2>2, <2>3 DEF Needed, NeededTokens
<1> QED
  BY <1>2 DEF ChangeTokens, NeededTokens

(***************************************************************************)
(* A try conserves lovelace and tokens.                                    *)
(***************************************************************************)
LEMMA AttemptConserves ==
    ASSUME BuilderInv, builder.utxos # None, NEW fee \in Nat,
           Suffices(Order, Paid(builder.outputs) + fee, NeededTokens)
    PROVE  LovelaceOf(Attempt(fee)) /\ TokensOfTx(Attempt(fee))
<1> DEFINE paid   == Paid(builder.outputs)
           coins  == paid + fee
           sel    == Selected(Order, coins, NeededTokens)
           change == ChangeCoins(Order, coins, NeededTokens)
           tokens == ChangeTokens(Order, coins, NeededTokens)
           c      == ChangeOutput(change, tokens)
           tx     == Attempt(fee)
<1>1. builder.outputs \in OutputLists /\ paid \in Nat /\ coins \in Nat
  BY OutputsAsked DEF BuilderInv
<1>2. sel \in SUBSET Utxos /\ change \in Nat
  BY <1>1, TrySelects
<1>3. Coins(sel) \in Nat /\ Coins(sel) = paid + fee + change
  BY <1>1, <1>2, SumsAreNumbers DEF ChangeCoins
<1>4. \A t \in Tokens :
         /\ Needed(t) \in Nat /\ Amount(t, sel) \in Nat
         /\ tokens[t] = Amount(t, sel) - Needed(t)
         /\ tokens[t] \in Nat
  BY <1>1, TryTokens
<1>5. /\ tx = Built(sel, change, tokens, fee)
      /\ \A s : Body(sel, s, fee).inputs = sel /\ Body(sel, s, fee).fee = fee
                /\ Body(sel, s, fee).outputs = builder.outputs \o s
  BY DEF Attempt, Body
<1>6. MinChange \in Nat \ {0} /\ TokenMinimum(tokens) \in Nat
  BY MinChangeIsNumber, TokenCounts, BuilderConstants DEF TokenMinimum
<1>7. \A t \in Tokens : PaidTokens(t, builder.outputs) \in Nat
                        /\ Minted(t, builder.mints) \in Nat
                        /\ (builder.mints = <<>> => Minted(t, builder.mints) = 0)
  BY <1>1, OutputsAsked, MintedIsNumber DEF BuilderInv
<1>8. \A t \in Tokens : Needed(t) = IF PaidTokens(t, builder.outputs) <= Minted(t, builder.mints)
                                    THEN 0
                                    ELSE PaidTokens(t, builder.outputs) - Minted(t, builder.mints)
  BY DEF Needed
<1>11. TokensOver(tx) = tokens
  <2>1. tx.inputs = sel
    BY <1>5 DEF Built
  <2> QED
    BY <2>1 DEF TokensOver, ChangeTokens, NeededTokens
<1>9. CASE HasChange(change, tokens)
  <2>1. tx = Body(sel, <<c>>, fee)
    BY <1>5, <1>9 DEF Built
  <2>2. tx.inputs = sel /\ tx.fee = fee /\ tx.outputs = builder.outputs \o <<c>>
    BY <1>5, <2>1
  <2>3. /\ c.tokens = tokens /\ c.coin \in Nat
        /\ tokens = NoTokens => c.coin = change /\ change >= MinChange
        /\ change >= LeastChange(tokens) => c.coin = change
    BY <1>2, <1>6, <1>9 DEF ChangeOutput, HasChange, LeastChange
  <2>4. Change(tx) # <<>> /\ Last(tx.outputs) = c
    BY <2>1, ChangeOfBody, ChangeIsLast
  <2> HIDE DEF c, tx, sel, change, tokens, paid, coins
  <2>5. Paid(tx.outputs) = paid + c.coin
    BY <1>1, <2>2, <2>3, PaidMore DEF paid
  <2>6. LovelaceOf(tx)
    <3>1. Coins(tx.inputs) = paid + fee + change /\ Paid(tx.outputs) = paid + c.coin
      BY <1>3, <2>2, <2>5
    <3>2. CoinsOver(tx) = change
      BY <1>1, <1>2, <2>2, <3>1 DEF CoinsOver, paid
    <3>3. TokensOver(tx) = tokens
      BY <1>11
    <3>4. ~(change = 0 /\ tokens = NoTokens)
      BY <1>6, <2>3
    <3>5. change >= LeastChange(tokens) => Coins(tx.inputs) = Paid(tx.outputs) + tx.fee
      BY <1>1, <1>2, <2>2, <2>3, <3>1
    <3> QED
      BY <1>2, <3>2, <3>3, <3>4, <3>5 DEF LovelaceOf
  <2>7. ASSUME NEW t \in Tokens
        PROVE  PaidTokens(t, tx.outputs) = PaidTokens(t, builder.outputs) + tokens[t]
    <3>1. c.coin \in Int /\ c.tokens[t] \in Int
      BY <1>4, <2>3
    <3>2. PaidTokens(t, tx.outputs) = PaidTokens(t, builder.outputs) + c.tokens[t]
      BY <1>1, <2>2, <3>1, PaidMore
    <3> QED
      BY <2>3, <3>2
  <2>8. TokensOfTx(tx)
    BY <1>4, <1>7, <1>8, <2>2, <2>7 DEF TokensOfTx
  <2> QED
    BY <2>6, <2>8 DEF tx
<1>10. CASE ~HasChange(change, tokens)
  <2>1. tx = Body(sel, <<>>, fee) /\ tokens = NoTokens /\ change < MinChange
    BY <1>2, <1>5, <1>6, <1>10 DEF Built, HasChange
  <2>2. tx.inputs = sel /\ tx.fee = fee /\ tx.outputs = builder.outputs /\ Change(tx) = <<>>
    BY <1>5, <2>1, ChangeOfBody
  <2> HIDE DEF c, tx, sel, change, tokens, paid, coins
  <2>3. LovelaceOf(tx)
    <3>1. Coins(tx.inputs) = paid + fee + change /\ Paid(tx.outputs) = paid
      BY <1>3, <2>2 DEF paid
    <3>2. CoinsOver(tx) = change
      BY <1>1, <1>2, <2>2, <3>1 DEF CoinsOver, paid
    <3>3. TokensOver(tx) = tokens
      BY <1>11
    <3>4. ~(change >= LeastChange(tokens))
      BY <1>2, <1>6, <2>1 DEF LeastChange
    <3> QED
      BY <1>1, <1>2, <2>2, <3>1, <3>2, <3>3, <3>4 DEF LovelaceOf
  <2>4. \A t \in Tokens : tokens[t] = 0
    BY <2>1 DEF NoTokens
  <2>5. \A t \in Tokens : /\ PaidTokens(t, tx.outputs) = PaidTokens(t, builder.outputs)
                          /\ Amount(t, tx.inputs) = Amount(t, sel)
    BY <2>2
  <2>6. TokensOfTx(tx)
    BY <1>4, <1>7, <1>8, <2>4, <2>5 DEF TokensOfTx
  <2> QED
    BY <2>3, <2>6 DEF tx
<1> QED
  BY <1>9, <1>10

-----------------------------------------------------------------------------
(* Steps.                                                                  *)

\* A setter is given what its field may hold.
FieldOK(field, value) ==
    \/ field = "utxos" /\ The(value) \in UtxoLists
    \/ field = "outputs" /\ value \in OutputLists
    \/ field = "mints" /\ value \in Seq(Mints)
    \/ field = "scripts" /\ value \subseteq ScriptUtxos
    \/ field = "collateral" /\ The(value) \in Seq(Utxos)
    \/ field = "fee" /\ (value # None => The(value) \in Nat)
    \/ field = "limit" /\ value \in Nat
    \/ field = "params"

(***************************************************************************)
(* Nothing is being built when a setter is called.                         *)
(***************************************************************************)
LEMMA SettingKeeps ==
    ASSUME IInv, NEW field, NEW value, FieldOK(field, value), Setting(field, value)
    PROVE  IInv'
<1>1. /\ job' = job /\ job.at = "idle" /\ unspent' = unspent
      /\ builder' = [builder EXCEPT ![field] = value]
  BY DEF Setting
<1>2. BuilderInv'
  BY <1>1 DEF IInv, BuilderInv, FieldOK
<1>3. FeeInv' /\ TxInv' /\ SignedInv' /\ JobInv'
  BY <1>1 DEF IInv, JobInv, FeeInv, TxInv, SignedInv, HasTx
<1> QED
  BY <1>1, <1>2, <1>3 DEF IInv, Idle

(***************************************************************************)
(* When a call returns, only the builder matters.                          *)
(***************************************************************************)
LEMMA IdleKeeps ==
    ASSUME (unspent \subseteq Utxos)', BuilderInv', job' = Idle
    PROVE  IInv'
<1>1. /\ job'.at = "idle" /\ (DOMAIN job = DOMAIN Idle)'
      /\ job'.fee = 0 /\ job'.iteration = 0 /\ job'.tx = NoTx
  BY DEF Idle
<1> QED
  BY <1>1 DEF IInv, JobInv, FeeInv, TxInv, SignedInv, HasTx

LEMMA BuilderStays ==
    ASSUME BuilderInv, builder' = builder
    PROVE  BuilderInv'
BY DEF BuilderInv

(***************************************************************************)
(* What a fee needs depends on the builder only.                           *)
(***************************************************************************)
LEMMA RequiredStays ==
    ASSUME builder' = builder, NEW f, job'.fee = f, Required(f) <= f
    PROVE  (Required(job.fee) <= job.fee)'
<1>1. Order' = Order /\ NeededTokens' = NeededTokens
  BY DEF Order, NeededTokens, Needed, Spendable
<1>2. Attempt(job.fee)' = Attempt(f)
  BY <1>1 DEF Attempt, Built, Body, HasPlutus
<1>3. TxSize(Attempt(job.fee))' = TxSize(Attempt(f))
  BY <1>2 DEF TxSize
<1>4. Required(job.fee)' = Required(f)
  BY <1>3 DEF Required, estimate_fee
<1> QED
  BY <1>4

LEMMA InitTyped == Init => IInv
<1> SUFFICES ASSUME Init PROVE IInv
  OBVIOUS
<1>1. builder.outputs = <<>> /\ <<>> \in OutputLists
  <2>1. <<>> \in [1 .. 0 -> Payments] /\ 0 \in 0 .. MaxOutputs
    BY BuilderConstants
  <2> QED
    BY <2>1 DEF Init, OutputLists, BoundedSeq, SeqOf
<1>2. <<>> \in Seq(Mints)
  BY EmptySeq
<1>3. BuilderInv
  <2>1. PICK online \in BOOLEAN :
          builder = [client |-> online, utxos |-> None, outputs |-> <<>>, mints |-> <<>>,
                     scripts |-> {}, collateral |-> None, fee |-> None, limit |-> Max(Limits),
                     params |-> FALSE]
    BY DEF Init
  <2>2. Max(Limits) \in Nat
    <3>1. Max(Limits) \in Limits /\ Limits \subseteq Nat
      BY BuilderConstants
    <3> QED
      BY <3>1, Zenon
  <2> HIDE DEF None
  <2>3. builder.utxos = None /\ builder.collateral = None /\ builder.fee = None
    BY <2>1
  <2>4. builder.scripts = {} /\ builder.mints = <<>> /\ builder.limit = Max(Limits)
    BY <2>1
  <2>5. DOMAIN builder = {"client", "utxos", "outputs", "mints", "scripts", "collateral",
                          "fee", "limit", "params"}
    BY <2>1
  <2> QED
    BY <1>1, <1>2, <2>2, <2>3, <2>4, <2>5 DEF BuilderInv
<1> QED
  BY <1>3 DEF Init, IInv, JobInv, FeeInv, TxInv, SignedInv, HasTx, Idle

(***************************************************************************)
(* The setters.                                                            *)
(***************************************************************************)
LEMMA SettersKeep ==
    ASSUME IInv,
           \/ WithUtxos \/ QueryUtxos \/ Send \/ Mint \/ SpendFromScript
           \/ WithCollateral \/ AutoCollateral \/ WithParams \/ SetFee \/ SetScanLimit
    PROVE  IInv'
<1>1. \A v : The(Some(v)) = v
  BY DEF The, Some
<1>2. CASE WithUtxos
  <2>1. PICK s \in Listings : Setting("utxos", Some(s))
    BY <1>2 DEF WithUtxos
  <2>2. FieldOK("utxos", Some(s))
    BY <1>1, BuilderConstants DEF FieldOK
  <2> QED
    BY <2>1, <2>2, SettingKeeps
<1>3. CASE QueryUtxos
  <2> DEFINE own(s) == Those(s, {u \in unspent \ ScriptUtxos : IndexOf[u] < builder.limit})
  <2>1. PICK s \in Listings : Setting("utxos", Some(own(s)))
    BY <1>3 DEF QueryUtxos
  <2>2. own(s) \in UtxoLists
    BY BuilderConstants, PartsAreLists DEF IInv
  <2>3. FieldOK("utxos", Some(own(s)))
    BY <1>1, <2>2 DEF FieldOK
  <2> QED
    BY <2>1, <2>3, SettingKeeps
<1>4. CASE Send
  <2>1. PICK o \in Payments : Setting("outputs", Append(builder.outputs, o))
    BY <1>4 DEF Send, Set
  <2>2. Append(builder.outputs, o) \in OutputLists
    <3>1. builder.outputs \in Seq(Payments) /\ Len(builder.outputs) < MaxOutputs
      BY <1>4, OutputsAsked DEF IInv, BuilderInv, Send
    <3>2. /\ Append(builder.outputs, o) \in Seq(Payments)
          /\ Len(Append(builder.outputs, o)) = Len(builder.outputs) + 1
          /\ Len(builder.outputs) \in Nat
      BY <3>1, LenProperties
    <3>3. Append(builder.outputs, o) \in [1 .. Len(Append(builder.outputs, o)) -> Payments]
      BY <3>2, LenProperties
    <3>4. Len(Append(builder.outputs, o)) \in 0 .. MaxOutputs
      BY <3>1, <3>2, BuilderConstants
    <3> QED
      BY <3>3, <3>4 DEF OutputLists, BoundedSeq, SeqOf
  <2>3. FieldOK("outputs", Append(builder.outputs, o))
    BY <2>2 DEF FieldOK
  <2> QED
    BY <2>1, <2>3, SettingKeeps
<1>5. CASE Mint
  <2>1. PICK m \in Mints : Setting("mints", Append(builder.mints, m))
    BY <1>5 DEF Mint, Set
  <2>2. Append(builder.mints, m) \in Seq(Mints)
    BY DEF IInv, BuilderInv
  <2>3. FieldOK("mints", Append(builder.mints, m))
    BY <2>2 DEF FieldOK
  <2> QED
    BY <2>1, <2>3, SettingKeeps
<1>6. CASE SpendFromScript
  <2>1. PICK u \in ScriptUtxos : Setting("scripts", builder.scripts \cup {u})
    BY <1>6 DEF SpendFromScript, Set
  <2>2. FieldOK("scripts", builder.scripts \cup {u})
    BY DEF FieldOK, IInv, BuilderInv
  <2> QED
    BY <2>1, <2>2, SettingKeeps
<1>7. CASE WithCollateral
  <2>1. PICK s \in Listings : Setting("collateral", Some(s))
    BY <1>7 DEF WithCollateral, Set
  <2>2. s \in Seq(Utxos)
    BY BuilderConstants, ListsAreSequences
  <2>3. FieldOK("collateral", Some(s))
    BY <1>1, <2>2 DEF FieldOK
  <2> QED
    BY <2>1, <2>3, SettingKeeps
<1>8. CASE AutoCollateral
  <2> DEFINE order == Those(The(builder.utxos), {u \in Utxos : Pure(u)})
             n == Taken(order, 5 * Ada, NoTokens)
  <2>1. builder.utxos # None /\ Setting("collateral", Some(SubSeq(order, 1, n)))
    BY <1>8 DEF AutoCollateral, Set
  <2>2. order \in Seq(Utxos)
    BY <2>1, PartsAreLists, ListsAreSequences DEF IInv, BuilderInv
  <2> HIDE DEF order
  <2>3. n \in 0 .. Len(order) /\ Len(order) \in Nat
    BY <2>2, TakenIsPrefix, LenProperties
  <2> HIDE DEF n
  <2>4. SubSeq(order, 1, n) \in Seq(Utxos)
    <3>1. \A i \in 1 .. n : order[i] \in Utxos
      BY <2>2, <2>3, ElementOfSeq
    <3> QED
      BY <2>3, <3>1, SubSeqProperties
  <2>5. FieldOK("collateral", Some(SubSeq(order, 1, n)))
    BY <1>1, <2>4 DEF FieldOK
  <2> QED
    BY <2>1, <2>5, SettingKeeps
<1>9. CASE WithParams
  BY <1>9, SettingKeeps DEF WithParams, Set, FieldOK
<1>10. CASE SetFee
  <2>1. PICK f \in {None} \cup {Some(m) : m \in FixedFees} : Setting("fee", f)
    BY <1>10 DEF SetFee, Set
  <2>2. FieldOK("fee", f)
    BY <1>1, BuilderConstants DEF FieldOK
  <2> QED
    BY <2>1, <2>2, SettingKeeps
<1>11. CASE SetScanLimit
  <2>1. PICK m \in Limits : Setting("limit", m)
    BY <1>11 DEF SetScanLimit, Set
  <2>2. FieldOK("limit", m)
    BY BuilderConstants DEF FieldOK
  <2> QED
    BY <2>1, <2>2, SettingKeeps
<1> QED
  BY <1>2, <1>3, <1>4, <1>5, <1>6, <1>7, <1>8, <1>9, <1>10, <1>11

(***************************************************************************)
(* The search starts with an estimate, which is no smaller than the fixed  *)
(* part of every fee.                                                      *)
(***************************************************************************)
LEMMA BuildKeeps ==
    ASSUME IInv, NEW want, Build(want)
    PROVE  IInv'
<1>1. (unspent \subseteq Utxos)'
  BY DEF Build, IInv
<1>2. CASE /\ builder' = [builder EXCEPT !.params = TRUE]
           /\ job' = [Idle EXCEPT !.at = "fee", !.want = want,
                                  !.fee = estimate_fee(FirstEstimate), !.iteration = 1]
  <2>1. BuilderInv'
    BY <1>2 DEF IInv, BuilderInv
  <2>2. FirstEstimate \in Nat
    <3>1. /\ Paid(builder.outputs) \in Nat /\ ExtraSize(builder.outputs) \in Nat
          /\ Len(builder.outputs) \in Nat
      BY OutputsAsked, LenProperties DEF IInv, BuilderInv
    <3>2. 10 * Ada \in Nat /\ 10 * Ada > 0
      BY BuilderConstants
    <3>3. Paid(builder.outputs) \div (10 * Ada) \in Nat
      BY <3>1, <3>2
    <3> QED
      BY <3>1, <3>3 DEF FirstEstimate
  <2>3. MinFeeA * FirstEstimate \in Nat /\ MinFeeB \in Nat
    BY <2>2, BuilderConstants
  <2>4. /\ builder.fee = None => estimate_fee(FirstEstimate) \in Nat
                                 /\ estimate_fee(FirstEstimate) >= MinFeeB
        /\ builder.fee # None => estimate_fee(FirstEstimate) = The(builder.fee)
                                 /\ The(builder.fee) \in Nat
    BY <2>3 DEF estimate_fee, IInv, BuilderInv
  <2>5. /\ job'.at = "fee" /\ job'.iteration = 1 /\ job'.fee = estimate_fee(FirstEstimate)
        /\ DOMAIN job' = DOMAIN Idle /\ job'.tx = NoTx
    BY <1>2 DEF Idle
  <2>6. builder'.fee = builder.fee
    BY <1>2 DEF IInv, BuilderInv
  <2>7. FeeInv'
    BY <2>4, <2>5, <2>6 DEF FeeInv
  <2>8. TxInv' /\ SignedInv' /\ JobInv'
    BY <2>4, <2>5 DEF TxInv, SignedInv, JobInv, HasTx
  <2> QED
    BY <1>1, <2>1, <2>5, <2>7, <2>8 DEF IInv
<1>3. CASE builder' = builder /\ job' = job
  <2>1. job.at = "idle"
    BY DEF Build
  <2>2. BuilderInv' /\ (DOMAIN job = DOMAIN Idle)'
    BY <1>3, BuilderStays DEF IInv
  <2>3. FeeInv' /\ TxInv' /\ SignedInv' /\ JobInv'
    BY <1>3, <2>1 DEF IInv, JobInv, FeeInv, TxInv, SignedInv, HasTx
  <2> QED
    BY <1>1, <2>2, <2>3 DEF IInv
<1> QED
  BY <1>2, <1>3 DEF Build

(***************************************************************************)
(* What a try builds.                                                      *)
(***************************************************************************)
LEMMA BuiltIsBody ==
    ASSUME BuilderInv, NEW inputs, NEW coins \in Nat, NEW tokens \in [Tokens -> Nat], NEW fee
    PROVE  LET tx == Built(inputs, coins, tokens, fee)
               c == Last(tx.outputs)
           IN  /\ tx.inputs = inputs /\ tx.fee = fee
               /\ \/ tx = Body(tx.inputs, <<>>, tx.fee)
                  \/ /\ tx = Body(tx.inputs, <<c>>, tx.fee)
                     /\ c = [coin |-> c.coin, tokens |-> c.tokens, kind |-> "payment"]
                     /\ c.coin \in Nat /\ c.tokens \in [Tokens -> Nat]
                     /\ c.tokens = NoTokens => c.coin > 0
<1> DEFINE c == ChangeOutput(coins, tokens)
<1>1. \A change : Body(inputs, change, fee).inputs = inputs /\ Body(inputs, change, fee).fee = fee
  BY DEF Body
<1>2. CASE HasChange(coins, tokens)
  <2>1. Built(inputs, coins, tokens, fee) = Body(inputs, <<c>>, fee)
    BY <1>2 DEF Built
  <2>2. Last(Body(inputs, <<c>>, fee).outputs) = c
    BY ChangeIsLast
  <2>3. /\ c = [coin |-> c.coin, tokens |-> tokens, kind |-> "payment"]
        /\ c.coin \in Nat
        /\ tokens = NoTokens => c.coin > 0
    BY <1>2, ChangeIsCoins
  <2> HIDE DEF c
  <2>4. c.tokens = tokens
    BY <2>3
  <2> QED
    BY <1>1, <2>1, <2>2, <2>3, <2>4
<1>3. CASE ~HasChange(coins, tokens)
  <2>1. Built(inputs, coins, tokens, fee) = Body(inputs, <<>>, fee)
    BY <1>3 DEF Built
  <2> QED
    BY <1>1, <2>1
<1> QED
  BY <1>2, <1>3

(***************************************************************************)
(* One round of the search.  The second one is the last, by FeeInv.        *)
(***************************************************************************)
LEMMA IterateKeeps ==
    ASSUME IInv, Iterate
    PROVE  IInv'
<1> DEFINE coins == Paid(builder.outputs) + job.fee
           sel == Selected(Order, coins, NeededTokens)
           change == ChangeCoins(Order, coins, NeededTokens)
           tokens == ChangeTokens(Order, coins, NeededTokens)
           tx == Built(sel, change, tokens, job.fee)
<1>1. /\ job.at = "fee" /\ builder' = builder /\ unspent' = unspent
      /\ builder.utxos # None /\ Suffices(Order, coins, NeededTokens)
      /\ HasPlutus => builder.collateral # None
  BY DEF Iterate, CanBuild, Fails
<1>2. BuilderInv /\ BuilderInv' /\ (unspent \subseteq Utxos)'
  BY <1>1, BuilderStays DEF IInv
<1>3. /\ job.iteration \in {1, 2} /\ job.fee \in Nat
      /\ builder.fee = None => job.fee >= MinFeeB
      /\ builder.fee # None => job.fee = The(builder.fee)
      /\ job.iteration = 2 => Required(job.fee) <= job.fee
  BY <1>1 DEF IInv, FeeInv
<1>4. coins \in Nat
  BY <1>2, <1>3, OutputsAsked DEF BuilderInv
<1>5. sel \in SUBSET Utxos /\ sel \subseteq Utxos \ builder.scripts /\ change \in Nat
  BY <1>1, <1>2, <1>4, TrySelects
<1>6. Attempt(job.fee) = tx /\ Required(job.fee) = estimate_fee(TxSize(tx))
  BY DEF Attempt, Required
<1>7. CASE job' = [job EXCEPT !.at = "built", !.tx = tx]
  <2>1. /\ job'.at = "built" /\ job'.tx = tx /\ DOMAIN job' = DOMAIN Idle
        /\ job'.fee = job.fee /\ job'.iteration = job.iteration
    BY <1>7 DEF IInv, Idle
  <2>2. /\ tx.inputs = sel
        /\ \/ tx = Body(tx.inputs, <<>>, tx.fee)
           \/ LET c == Last(tx.outputs) IN
              /\ tx = Body(tx.inputs, <<c>>, tx.fee)
              /\ c = [coin |-> c.coin, tokens |-> c.tokens, kind |-> "payment"]
              /\ c.coin \in Nat /\ c.tokens \in [Tokens -> Nat]
              /\ c.tokens = NoTokens => c.coin > 0
    <3>1. tokens \in [Tokens -> Nat]
      BY <1>1, <1>2, <1>4, TryTokens DEF ChangeTokens
    <3> QED
      BY <1>2, <1>5, <3>1, BuiltIsBody
  <2>3. LovelaceOf(tx) /\ TokensOfTx(tx)
    BY <1>1, <1>2, <1>3, <1>6, AttemptConserves
  <2> HIDE DEF tx, sel
  <2>4. LovelaceOf(job.tx)' /\ TokensOfTx(job.tx)'
    BY <1>1, <2>1, <2>3 DEF LovelaceOf, CoinsOver, TokensOver, Needed, TokensOfTx
  <2>5. TxInv'
    BY <1>1, <1>5, <2>1, <2>2, <2>4 DEF TxInv, Body, HasPlutus
  <2>6. FeeInv' /\ SignedInv' /\ JobInv'
    BY <1>3, <2>1 DEF FeeInv, SignedInv, JobInv, HasTx
  <2> QED
    BY <1>2, <2>1, <2>5, <2>6 DEF IInv
<1>8. CASE /\ Required(job.fee) > job.fee
           /\ change >= (Required(job.fee) - job.fee) + MinChange
           /\ job' = [job EXCEPT !.fee = Required(job.fee), !.iteration = @ + 1]
  <2>1. builder.fee = None
    <3>1. builder.fee # None => Required(job.fee) = job.fee
      BY <1>3 DEF Required, estimate_fee
    <3> QED
      BY <1>3, <1>8, <3>1
  <2>2. /\ Required(job.fee) \in Nat /\ Required(job.fee) >= MinFeeB
        /\ Required(Required(job.fee)) <= Required(job.fee)
    BY <1>1, <1>2, <1>3, <1>8, <2>1, RaiseSuffices
  <2>3. job.iteration = 1
    BY <1>3, <1>8, <2>2
  <2>4. /\ job'.at = "fee" /\ job'.fee = Required(job.fee) /\ job'.iteration = 2
        /\ DOMAIN job' = DOMAIN Idle /\ job'.tx = NoTx
    BY <1>1, <1>8, <2>3 DEF IInv, Idle, JobInv, HasTx
  <2>5. (Required(job.fee) <= job.fee)'
    BY <1>1, <2>2, <2>4, RequiredStays
  <2>6. FeeInv'
    BY <1>1, <2>1, <2>2, <2>4, <2>5 DEF FeeInv
  <2>7. TxInv' /\ SignedInv' /\ JobInv'
    BY <2>2, <2>4 DEF TxInv, SignedInv, JobInv, HasTx
  <2> QED
    BY <1>2, <2>4, <2>6, <2>7 DEF IInv
<1>9. CASE job' = Idle
  BY <1>2, <1>9, IdleKeeps
<1> QED
  BY <1>6, <1>7, <1>8, <1>9 DEF Iterate, Fails, Raised

LEMMA ReturnsKeep ==
    ASSUME IInv, Refuse \/ ReturnBuilt \/ ReturnSigned \/ Submit
    PROVE  IInv'
<1>1. job' = Idle /\ builder' = builder /\ unspent' \subseteq unspent
  BY DEF Refuse, ReturnBuilt, ReturnSigned, Submit, Fails
<1>2. BuilderInv' /\ (unspent \subseteq Utxos)'
  BY <1>1, BuilderStays DEF IInv
<1> QED
  BY <1>1, <1>2, IdleKeeps

LEMMA SignKeeps ==
    ASSUME IInv, Sign
    PROVE  IInv'
<1> DEFINE signed == [tx |-> Body(job.tx.inputs, Readded(ChangeAmount), job.tx.fee), keys |-> Keys]
<1>1. /\ job.at = "built" /\ builder' = builder /\ unspent' = unspent
      /\ job' = [job EXCEPT !.at = "signed", !.signed = signed]
  BY DEF Sign
<1>2. BuilderInv' /\ (unspent \subseteq Utxos)'
  BY <1>1, BuilderStays DEF IInv
<1> HIDE DEF signed
<1>3. /\ job'.at = "signed" /\ job'.tx = job.tx /\ job'.signed = signed
      /\ DOMAIN job' = DOMAIN Idle
      /\ job'.fee = job.fee /\ job'.iteration = job.iteration
  BY <1>1 DEF IInv, Idle
<1>4. FeeInv' /\ JobInv'
  BY <1>3 DEF IInv, FeeInv, JobInv, HasTx
<1>5. TxInv'
  <2>1. TxInv /\ HasTx
    BY <1>1 DEF IInv, HasTx
  <2>2. LovelaceOf(job.tx)' /\ TokensOfTx(job.tx)'
    BY <1>1, <1>3, <2>1 DEF TxInv, LovelaceOf, CoinsOver, TokensOver, Needed, TokensOfTx
  <2> QED
    BY <1>1, <1>3, <2>1, <2>2 DEF TxInv, Body, HasPlutus
<1>6. SignedInv'
  <2>1. ChangeAmount' = ChangeAmount /\ Keys' = Keys
    BY <1>1, <1>3 DEF ChangeAmount, Keys
  <2>2. signed' = signed
    BY <1>1, <1>3, <2>1 DEF signed, Body, HasPlutus
  <2> QED
    BY <1>3, <2>2 DEF SignedInv, signed
<1> QED
  BY <1>2, <1>3, <1>4, <1>5, <1>6 DEF IInv

LEMMA StutterKeeps ==
    ASSUME IInv, UNCHANGED vars
    PROVE  IInv'
<1>1. builder' = builder /\ job' = job /\ unspent' = unspent
  BY DEF vars
<1>2. BuilderInv' /\ (unspent \subseteq Utxos)' /\ (DOMAIN job = DOMAIN Idle)'
  BY <1>1, BuilderStays DEF IInv
<1>3. FeeInv'
  <2>1. job.at = "fee" /\ job.iteration = 2 => (Required(job.fee) <= job.fee)'
    BY <1>1, RequiredStays DEF IInv, FeeInv
  <2> QED
    BY <1>1, <2>1 DEF IInv, FeeInv
<1>4. TxInv' /\ JobInv'
  <2>1. HasTx => LovelaceOf(job.tx)' /\ TokensOfTx(job.tx)'
    BY <1>1 DEF IInv, TxInv, LovelaceOf, CoinsOver, TokensOver, Needed, TokensOfTx
  <2> QED
    BY <1>1, <2>1 DEF IInv, TxInv, JobInv, HasTx, Body, HasPlutus
<1>5. SignedInv'
  <2>1. ChangeAmount' = ChangeAmount /\ Keys' = Keys
    BY <1>1 DEF ChangeAmount, Keys
  <2> QED
    BY <1>1, <2>1 DEF IInv, SignedInv, Body, HasPlutus
<1> QED
  BY <1>2, <1>3, <1>4, <1>5 DEF IInv

THEOREM BuilderInvariant == Spec => []IInv
<1>1. Init => IInv
  BY InitTyped
<1>2. IInv /\ [Next]_vars => IInv'
  <2> SUFFICES ASSUME IInv, [Next]_vars PROVE IInv'
    OBVIOUS
  <2>1. CASE \/ WithUtxos \/ QueryUtxos \/ Send \/ Mint \/ SpendFromScript
             \/ WithCollateral \/ AutoCollateral \/ WithParams \/ SetFee \/ SetScanLimit
    BY <2>1, SettersKeep
  <2>2. CASE \E want \in {"build", "sign", "submit"} : Build(want)
    BY <2>2, BuildKeeps
  <2>3. CASE Iterate
    BY <2>3, IterateKeeps
  <2>4. CASE Refuse \/ ReturnBuilt \/ ReturnSigned \/ Submit
    BY <2>4, ReturnsKeep
  <2>5. CASE Sign
    BY <2>5, SignKeeps
  <2>6. CASE UNCHANGED vars
    BY <2>6, StutterKeeps
  <2> QED
    BY <2>1, <2>2, <2>3, <2>4, <2>5, <2>6 DEF Next
<1> QED
  BY <1>1, <1>2, PTL DEF Spec

-----------------------------------------------------------------------------
(* The properties.                                                         *)

(***************************************************************************)
(* The search for the fee ends with its second try: "did not converge      *)
(* after 3 iterations" is never reached.                                   *)
(***************************************************************************)
THEOREM FeeSearchEnds == Spec => []FeeConverges
<1>1. IInv => FeeConverges
  BY DEF IInv, FeeInv, FeeConverges
<1> QED
  BY <1>1, BuilderInvariant, PTL

(***************************************************************************)
(* The builder and its call are well typed: no subtraction of the coin     *)
(* selection goes below zero, so every output is one a ledger can have.    *)
(***************************************************************************)
THEOREM BuilderTypes == Spec => []TypeOK
<1>1. IInv => TypeOK
  <2> SUFFICES ASSUME IInv PROVE TypeOK
    OBVIOUS
  <2>1. BuilderInv /\ JobInv /\ TxInv
    BY DEF IInv
  <2>2. builder.outputs \in Seq(Payments)
    BY <2>1, OutputsAsked DEF BuilderInv
  <2>3. builder.utxos # None => /\ IsInjective(The(builder.utxos))
                                /\ ToSet(The(builder.utxos)) \subseteq Utxos
    <3>1. \A s \in UtxoLists : IsInjective(s) /\ s \in Seq(Utxos)
      BY ListsAreSequences DEF UtxoLists
    <3>2. \A s \in Seq(Utxos) : ToSet(s) \subseteq Utxos
      BY LenProperties, ElementOfSeq DEF ToSet
    <3> QED
      BY <2>1, <3>1, <3>2 DEF BuilderInv
  <2>4. job.tx # NoTx => \A i \in DOMAIN job.tx.outputs : job.tx.outputs[i] \in Output
    <3>1. SUFFICES ASSUME HasTx
                   PROVE  \A i \in DOMAIN job.tx.outputs : job.tx.outputs[i] \in Output
      BY <2>1 DEF JobInv
    <3>2. CASE job.tx = Body(job.tx.inputs, <<>>, job.tx.fee)
      <4>1. job.tx.outputs = builder.outputs
        BY <2>1, <3>2, ChangeOfBody
      <4> QED
        BY <2>1, <4>1, OutputsAsked DEF BuilderInv
    <3>3. CASE LET c == Last(job.tx.outputs) IN
               /\ job.tx = Body(job.tx.inputs, <<c>>, job.tx.fee)
               /\ c = [coin |-> c.coin, tokens |-> c.tokens, kind |-> "payment"]
               /\ c.coin \in Nat /\ c.tokens \in [Tokens -> Nat]
      <4> DEFINE c == Last(job.tx.outputs)
      <4>1. c \in Output
        BY <3>3 DEF Output
      <4>2. job.tx.outputs = builder.outputs \o <<c>>
        <5>1. \A inputs, s, fee : Body(inputs, s, fee).outputs = builder.outputs \o s
          BY DEF Body
        <5>2. PICK inputs, fee : job.tx = Body(inputs, <<c>>, fee)
          BY <3>3
        <5> QED
          BY <5>1, <5>2
      <4>3. builder.outputs \in Seq(Output)
        <5>1. Payments \subseteq Output
          BY BuilderConstants
        <5> QED
          BY <2>2, <5>1, SeqMonotonic, Zenon
      <4>4. <<c>> \in Seq(Output)
        BY <4>1
      <4>5. job.tx.outputs \in Seq(Output)
        BY <4>2, <4>3, <4>4, ConcatProperties
      <4> QED
        BY <4>5, LenProperties, ElementOfSeq
    <3> QED
      BY <2>1, <3>1, <3>2, <3>3 DEF TxInv
  <2> QED
    BY <2>1, <2>2, <2>3, <2>4 DEF TypeOK, IInv, JobInv
<1> QED
  BY <1>1, BuilderInvariant, PTL

(***************************************************************************)
(* The wallet's inputs pay for the outputs asked for and the fee, and are  *)
(* worth exactly the outputs, the change and the fee when nothing is over  *)
(* or enough for a change output.                                          *)
(***************************************************************************)
THEOREM LovelaceIsConserved == Spec => []LovelaceConserved
<1>1. IInv => LovelaceConserved
  BY DEF IInv, TxInv, LovelaceOf, LovelaceConserved
<1> QED
  BY <1>1, BuilderInvariant, PTL

(***************************************************************************)
(* No token is paid out that is neither in the inputs nor minted, and      *)
(* without mints every token of the inputs goes into an output.            *)
(***************************************************************************)
THEOREM TokensAreConserved == Spec => []TokensConserved
<1>1. IInv => TokensConserved
  BY DEF IInv, TxInv, TokensOfTx, TokensConserved
<1> QED
  BY <1>1, BuilderInvariant, PTL

(***************************************************************************)
(* What is signed is what was built, unless the change has tokens, and all *)
(* keys are among those that sign unless one is beyond the scan limit.     *)
(***************************************************************************)
THEOREM SignedAsBuilt == Spec => []SignedCorrectly
<1>1. IInv => SignedCorrectly
  <2> SUFFICES ASSUME IInv, job.at = "signed" PROVE SignedCorrectly
    BY DEF SignedCorrectly
  <2>1. /\ BuilderInv /\ HasTx /\ TxInv
        /\ job.signed.tx = Body(job.tx.inputs, Readded(ChangeAmount), job.tx.fee)
        /\ job.signed.keys = Keys
        /\ job.tx.inputs \subseteq Utxos
    BY DEF IInv, SignedInv, TxInv, HasTx
  <2>2. \/ job.signed.tx = job.tx
        \/ Change(job.tx) # <<>> /\ Last(job.tx.outputs).tokens # NoTokens
    <3>1. CASE job.tx = Body(job.tx.inputs, <<>>, job.tx.fee)
      <4>1. job.tx.outputs = builder.outputs /\ Len(builder.outputs) \in Nat
        <5>1. builder.outputs \in Seq(Payments)
          BY <2>1, OutputsAsked DEF BuilderInv
        <5>2. Body(job.tx.inputs, <<>>, job.tx.fee).outputs = builder.outputs \o <<>>
          BY DEF Body
        <5>3. job.tx.outputs = builder.outputs \o <<>>
          BY <3>1, <5>2, Zenon
        <5> QED
          BY <5>1, <5>3, ConcatEmptySeq, LenProperties
      <4>2. Readded(ChangeAmount) = <<>>
        BY <4>1 DEF ChangeAmount, Readded
      <4> QED
        BY <2>1, <3>1, <4>2
    <3>2. CASE LET c == Last(job.tx.outputs) IN
               /\ job.tx = Body(job.tx.inputs, <<c>>, job.tx.fee)
               /\ c = [coin |-> c.coin, tokens |-> c.tokens, kind |-> "payment"]
               /\ c.coin \in Nat
               /\ c.tokens = NoTokens => c.coin > 0
      <4> DEFINE c == Last(job.tx.outputs)
      <4>1. Len(job.tx.outputs) = Len(builder.outputs) + 1 /\ Len(builder.outputs) \in Nat
        BY <2>1, <3>2, ChangeIsLast
      <4>2. ChangeAmount = c.coin
        BY <4>1 DEF ChangeAmount
      <4>3. CASE c.tokens = NoTokens
        <5>1. Readded(ChangeAmount) = <<c>>
          BY <3>2, <4>2, <4>3 DEF Readded
        <5> QED
          BY <2>1, <3>2, <5>1
      <4>4. CASE c.tokens # NoTokens
        <5>1. Change(job.tx) = SubSeq(job.tx.outputs, Len(builder.outputs) + 1,
                                      Len(builder.outputs) + 1)
          BY <4>1 DEF Change
        <5>2. Len(Change(job.tx)) = 1
          BY <4>1, <5>1, SubSeqProperties
        <5>3. Change(job.tx) # <<>>
          BY <5>2, EmptySeq
        <5> QED
          BY <4>4, <5>3
      <4> QED
        BY <4>3, <4>4
    <3> QED
      BY <2>1, <3>1, <3>2 DEF TxInv
  <2>3. \/ job.signed.keys = {IndexOf[u] : u \in job.tx.inputs}
        \/ \E u \in job.tx.inputs : IndexOf[u] >= builder.limit
    <3>1. builder.limit \in Nat /\ \A u \in job.tx.inputs : IndexOf[u] \in Nat
      BY <2>1, BuilderConstants DEF BuilderInv
    <3>2. CASE \A u \in job.tx.inputs : IndexOf[u] < builder.limit
      <4>1. {v \in job.tx.inputs : IndexOf[v] < builder.limit} = job.tx.inputs
        BY <3>2
      <4> QED
        BY <2>1, <4>1 DEF Keys
    <3>3. CASE ~(\A u \in job.tx.inputs : IndexOf[u] < builder.limit)
      BY <3>1, <3>3
    <3> QED
      BY <3>2, <3>3
  <2> QED
    BY <2>2, <2>3 DEF SignedCorrectly
<1> QED
  BY <1>1, BuilderInvariant, PTL

-----------------------------------------------------------------------------
(* A retry.                                                                *)

LEMMA PrefixMore ==
    ASSUME NEW T, NEW s \in Seq(T), NEW n \in 1 .. Len(s)
    PROVE  /\ SubSeq(s, 1, n - 1) \in Seq(T) /\ s[n] \in T
           /\ SubSeq(s, 1, n) = Append(SubSeq(s, 1, n - 1), s[n])
<1>1. Len(s) \in Nat /\ n \in Nat /\ n - 1 \in Nat /\ \A i \in 1 .. Len(s) : s[i] \in T
  BY LenProperties, ElementOfSeq
<1>2. /\ SubSeq(s, 1, n) \in Seq(T) /\ Len(SubSeq(s, 1, n)) = n
      /\ \A i \in 1 .. n : SubSeq(s, 1, n)[i] = s[i]
  OBVIOUS
<1>3. /\ SubSeq(s, 1, n - 1) \in Seq(T) /\ Len(SubSeq(s, 1, n - 1)) = n - 1
      /\ \A i \in 1 .. n - 1 : SubSeq(s, 1, n - 1)[i] = s[i]
  OBVIOUS
<1> DEFINE a == SubSeq(s, 1, n)
           b == SubSeq(s, 1, n - 1)
<1> HIDE DEF a, b
<1>4. s[n] \in T
  BY <1>1
<1>5. /\ Append(b, s[n]) \in Seq(T) /\ Len(Append(b, s[n])) = n
      /\ \A i \in 1 .. n : Append(b, s[n])[i] = s[i]
  <2>1. b \in Seq(T) /\ Len(b) = n - 1 /\ \A i \in 1 .. n - 1 : b[i] = s[i]
    BY <1>3 DEF b
  <2>2. \A i \in 1 .. n : i \in 1 .. n - 1 \/ i = n
    BY <1>1
  <2> QED
    BY <1>1, <1>4, <2>1, <2>2
<1>6. a = Append(b, s[n])
  BY <1>2, <1>5, SeqEqual DEF a
<1> QED
  BY <1>3, <1>4, <1>6 DEF a, b

LEMMA WholePrefix ==
    ASSUME NEW T, NEW s \in Seq(T)
    PROVE  SubSeq(s, 1, Len(s)) = s /\ SubSeq(s, 1, 0) = <<>>
OBVIOUS

\* What an element more adds to the part.
OneMore(s, e, S) ==
    Those(Append(s, e), S) = IF e \in S THEN Append(Those(s, S), e) ELSE Those(s, S)

LEMMA OneMoreOf ==
    ASSUME NEW s \in Seq(Utxos), NEW e \in Utxos, NEW S
    PROVE  OneMore(s, e, S)
<1>1. Those(Append(s, e), S) = IF e \in S THEN Append(Those(s, S), e) ELSE Those(s, S)
  BY ThoseOfMore
<1> QED
  BY <1>1 DEF OneMore

\* A part of a part.
Twice(s, A, B) ==
    Those(s, A) \in Seq(Utxos) /\ Those(Those(s, A), B) = Those(s, A \cap B)

LEMMA TwiceMore ==
    ASSUME NEW s \in Seq(Utxos), NEW e \in Utxos, NEW A, NEW B, Twice(s, A, B)
    PROVE  Twice(Append(s, e), A, B)
<1>1. Those(s, A) \in Seq(Utxos) /\ Those(Those(s, A), B) = Those(s, A \cap B)
  BY DEF Twice
<1>2. OneMore(s, e, A) /\ OneMore(s, e, A \cap B)
  BY OneMoreOf, Zenon
<1>3. OneMore(Those(s, A), e, B)
  BY <1>1, OneMoreOf, Zenon
<1>4. CASE e \in A
  <2>1. Those(Append(s, e), A) = Append(Those(s, A), e)
    BY <1>2, <1>4 DEF OneMore
  <2>2. Append(Those(s, A), e) \in Seq(Utxos)
    BY <1>1
  <2>3. Those(Append(Those(s, A), e), B) = Those(Append(s, e), A \cap B)
    BY <1>1, <1>2, <1>3, <1>4 DEF OneMore
  <2> QED
    BY <2>1, <2>2, <2>3 DEF Twice
<1>5. CASE e \notin A
  <2>1. Those(Append(s, e), A) = Those(s, A)
    BY <1>2, <1>5 DEF OneMore
  <2>2. Those(Append(s, e), A \cap B) = Those(s, A \cap B)
    BY <1>2, <1>5 DEF OneMore
  <2> QED
    BY <1>1, <2>1, <2>2 DEF Twice
<1> QED
  BY <1>4, <1>5

LEMMA ThoseTwice ==
    ASSUME NEW s \in Seq(Utxos), NEW A, NEW B
    PROVE  Twice(s, A, B)
<1> DEFINE N == {n \in 0 .. Len(s) : ~Twice(SubSeq(s, 1, n), A, B)}
<1>1. Len(s) \in Nat
  BY LenProperties
<1>2. ASSUME N # {} PROVE FALSE
  <2>1. N \in SUBSET Nat
    BY <1>1
  <2>2. PICK n \in N : \A i \in N : n <= i
    BY <1>2, <2>1, MinIsLeast
  <2>3. n \in 0 .. Len(s) /\ ~Twice(SubSeq(s, 1, n), A, B)
    BY <2>2
  <2>4. CASE n = 0
    <3>1. SubSeq(s, 1, n) = <<>>
      BY <2>4, WholePrefix
    <3>2. Twice(<<>>, A, B)
      BY ThoseOfNone, EmptySeq DEF Twice
    <3> QED
      BY <2>3, <3>1, <3>2
  <2>5. CASE n # 0
    <3>1. n \in 1 .. Len(s) /\ n - 1 \in 0 .. Len(s) /\ ~(n <= n - 1)
      BY <1>1, <2>3, <2>5
    <3>2. Twice(SubSeq(s, 1, n - 1), A, B)
      BY <2>2, <3>1
    <3>3. /\ SubSeq(s, 1, n - 1) \in Seq(Utxos) /\ s[n] \in Utxos
          /\ SubSeq(s, 1, n) = Append(SubSeq(s, 1, n - 1), s[n])
      BY <3>1, PrefixMore
    <3>4. Twice(Append(SubSeq(s, 1, n - 1), s[n]), A, B)
      BY <3>2, <3>3, TwiceMore, Zenon
    <3> QED
      BY <2>3, <3>3, <3>4
  <2> QED
    BY <2>4, <2>5
<1>3. Len(s) \notin N /\ Len(s) \in 0 .. Len(s)
  BY <1>1, <1>2
<1>4. Twice(SubSeq(s, 1, Len(s)), A, B)
  BY <1>3
<1> QED
  BY <1>4, WholePrefix

\* The first element stays the first if it stays at all.
StartsWith(s, e) == s \in Seq(Utxos) /\ Len(s) > 0 /\ s[1] = e

LEMMA StartsMore ==
    ASSUME NEW s, NEW first, StartsWith(s, first), NEW e \in Utxos
    PROVE  StartsWith(Append(s, e), first)
BY DEF StartsWith

LEMMA HeadStays ==
    ASSUME NEW s \in Seq(Utxos), s # <<>>, NEW S, s[1] \in S
    PROVE  StartsWith(Those(s, S), s[1])
<1> DEFINE N == {n \in 1 .. Len(s) : ~StartsWith(Those(SubSeq(s, 1, n), S), s[1])}
<1>1. Len(s) \in Nat /\ Len(s) > 0 /\ s[1] \in Utxos
  BY LenProperties, EmptySeq
<1>2. ASSUME N # {} PROVE FALSE
  <2>1. N \in SUBSET Nat
    BY <1>1
  <2>2. PICK n \in N : \A i \in N : n <= i
    BY <1>2, <2>1, MinIsLeast
  <2>3. n \in 1 .. Len(s) /\ ~StartsWith(Those(SubSeq(s, 1, n), S), s[1])
    BY <2>2
  <2>4. /\ SubSeq(s, 1, n - 1) \in Seq(Utxos) /\ s[n] \in Utxos
        /\ SubSeq(s, 1, n) = Append(SubSeq(s, 1, n - 1), s[n])
    BY <2>3, PrefixMore
  <2>5. OneMore(SubSeq(s, 1, n - 1), s[n], S)
    BY <2>4, OneMoreOf, Zenon
  <2>6. Those(SubSeq(s, 1, n), S)
          = IF s[n] \in S THEN Append(Those(SubSeq(s, 1, n - 1), S), s[n])
            ELSE Those(SubSeq(s, 1, n - 1), S)
    BY <2>4, <2>5 DEF OneMore
  <2>7. CASE n = 1
    <3>1. SubSeq(s, 1, n - 1) = <<>>
      <4>1. n - 1 = 0
        BY <2>7
      <4> QED
        BY <4>1, WholePrefix
    <3>2. Those(SubSeq(s, 1, n), S) = Append(<<>>, s[1])
      BY <2>6, <2>7, <3>1, ThoseOfNone
    <3>3. StartsWith(Append(<<>>, s[1]), s[1])
      BY <1>1 DEF StartsWith
    <3> QED
      BY <2>3, <3>2, <3>3
  <2>8. CASE n # 1
    <3>1. n - 1 \in 1 .. Len(s) /\ ~(n <= n - 1)
      BY <1>1, <2>3, <2>8
    <3>2. StartsWith(Those(SubSeq(s, 1, n - 1), S), s[1])
      BY <2>2, <3>1
    <3>3. StartsWith(Append(Those(SubSeq(s, 1, n - 1), S), s[n]), s[1])
      BY <2>4, <3>2, StartsMore, Zenon
    <3> QED
      BY <2>3, <2>6, <3>2, <3>3
  <2> QED
    BY <2>7, <2>8
<1>3. Len(s) \notin N /\ Len(s) \in 1 .. Len(s)
  BY <1>1, <1>2
<1>4. StartsWith(Those(SubSeq(s, 1, Len(s)), S), s[1])
  BY <1>3
<1> QED
  BY <1>4, WholePrefix

(***************************************************************************)
(* The outputs of one kind that select_coins may take.                     *)
(***************************************************************************)
Kind(S) == Those(Spendable(The(builder.utxos)), S)

Wealthy == {u \in Utxos : HasTokens(u)}

Plain == {u \in Utxos : ~HasTokens(u)}

LEMMA OrderOfKinds ==
    Order = IF \E t \in Tokens : NeededTokens[t] > 0 THEN Kind(Wealthy) \o Kind(Plain)
            ELSE Kind(Plain) \o Kind(Wealthy)
BY DEF Order, Kind, Wealthy, Plain

LEMMA KindsAreLists ==
    ASSUME BuilderInv, builder.utxos # None, NEW S \in SUBSET Utxos
    PROVE  /\ Kind(S) \in Seq(Utxos)
           /\ ToSet(Kind(S)) \subseteq Utxos \ builder.scripts
<1>1. The(builder.utxos) \in UtxoLists
  BY DEF BuilderInv
<1>2. /\ Spendable(The(builder.utxos)) \in UtxoLists
      /\ ToSet(Spendable(The(builder.utxos))) \subseteq Utxos \ builder.scripts
  BY <1>1, PartsAreLists DEF Spendable
<1>3. /\ Kind(S) \in UtxoLists
      /\ ToSet(Kind(S)) \subseteq ToSet(Spendable(The(builder.utxos)))
  BY <1>2, PartsAreLists DEF Kind
<1> QED
  BY <1>2, <1>3, ListsAreSequences

\* Another output spent by its script is taken out of what is left.
LEMMA KindShrinks ==
    ASSUME BuilderInv, builder.utxos # None, NEW S \in SUBSET Utxos, NEW u,
           builder'.utxos = builder.utxos, builder'.scripts = builder.scripts \cup {u}
    PROVE  Kind(S)' = Those(Kind(S), Utxos \ (builder.scripts \cup {u}))
<1> DEFINE s == The(builder.utxos)
           A == Utxos \ builder.scripts
           B == Utxos \ (builder.scripts \cup {u})
<1>1. s \in Seq(Utxos)
  BY ListsAreSequences DEF BuilderInv
<1> HIDE DEF s, A, B
<1>2. Twice(s, A, S) /\ Twice(s, B, S) /\ Twice(s, A \cap S, B)
  BY <1>1, ThoseTwice, Zenon
<1>3. (A \cap S) \cap B = B \cap S
  BY DEF A, B
<1>4. Those(Those(s, B), S) = Those(Those(Those(s, A), S), B)
  BY <1>2, <1>3 DEF Twice
<1>5. Kind(S) = Those(Those(s, A), S)
  BY DEF Kind, Spendable, s, A
<1>6. Kind(S)' = Those(Those(s, B), S)
  BY DEF Kind, Spendable, s, B
<1> QED
  BY <1>4, <1>5, <1>6 DEF B

LEMMA OrderStays ==
    ASSUME builder'.utxos = builder.utxos, builder'.outputs = builder.outputs,
           builder'.mints = builder.mints, builder'.scripts = builder.scripts
    PROVE  Order' = Order
BY DEF Order, NeededTokens, Needed, Spendable

LEMMA JoinedHead ==
    ASSUME NEW a \in Seq(Utxos), NEW b \in Seq(Utxos)
    PROVE  /\ a # <<>> => StartsWith(a \o b, a[1])
           /\ a = <<>> => a \o b = b
<1>1. /\ Len(a) \in Nat /\ Len(b) \in Nat /\ a \o b \in Seq(Utxos)
      /\ Len(a \o b) = Len(a) + Len(b)
  OBVIOUS
<1>2. ASSUME a # <<>> PROVE StartsWith(a \o b, a[1])
  <2>1. Len(a) > 0
    BY <1>1, <1>2, EmptySeq
  <2>2. (a \o b)[1] = a[1]
    BY <1>1, <2>1, ConcatProperties
  <2> QED
    BY <1>1, <2>1, <2>2 DEF StartsWith
<1>3. ASSUME a = <<>> PROVE a \o b = b
  BY <1>3, ConcatEmptySeq
<1> QED
  BY <1>2, <1>3

\* The first output that select_coins would take stays the first until it is spent by its script.
LEMMA JoinedStays ==
    ASSUME NEW a \in Seq(Utxos), NEW b \in Seq(Utxos), NEW S,
           a \o b # <<>>, (a \o b)[1] \in S
    PROVE  /\ Those(a, S) \o Those(b, S) # <<>>
           /\ (Those(a, S) \o Those(b, S))[1] = (a \o b)[1]
<1>1. Those(a, S) \in Seq(Utxos) /\ Those(b, S) \in Seq(Utxos)
  <2>1. Twice(a, S, S) /\ Twice(b, S, S)
    BY ThoseTwice, Zenon
  <2> QED
    BY <2>1 DEF Twice
<1>2. CASE a # <<>>
  <2>1. (a \o b)[1] = a[1]
    BY <1>2, JoinedHead DEF StartsWith
  <2>2. StartsWith(Those(a, S), a[1])
    BY <1>2, <2>1, HeadStays
  <2>3. Those(a, S) # <<>> /\ Those(a, S)[1] = a[1]
    BY <2>2, EmptySeq DEF StartsWith
  <2>4. StartsWith(Those(a, S) \o Those(b, S), Those(a, S)[1])
    BY <1>1, <2>3, JoinedHead
  <2> QED
    BY <2>1, <2>3, <2>4, EmptySeq DEF StartsWith
<1>3. CASE a = <<>>
  <2>1. a \o b = b
    BY <1>3, JoinedHead
  <2>2. Those(a, S) = <<>>
    BY <1>3, ThoseOfNone
  <2>3. Those(a, S) \o Those(b, S) = Those(b, S)
    BY <1>1, <2>2, JoinedHead
  <2>4. StartsWith(Those(b, S), b[1])
    BY <2>1, HeadStays
  <2> QED
    BY <2>1, <2>3, <2>4, EmptySeq DEF StartsWith
<1> QED
  BY <1>2, <1>3

LEMMA HeadOfOrderStays ==
    ASSUME BuilderInv, builder.utxos # None, NEW u,
           builder'.utxos = builder.utxos, builder'.outputs = builder.outputs,
           builder'.mints = builder.mints, builder'.scripts = builder.scripts \cup {u},
           Order # <<>>, Order[1] # u
    PROVE  Order' # <<>> /\ Order'[1] = Order[1]
<1> DEFINE B == Utxos \ (builder.scripts \cup {u})
           w == Kind(Wealthy)
           p == Kind(Plain)
<1>1. Wealthy \in SUBSET Utxos /\ Plain \in SUBSET Utxos
  BY DEF Wealthy, Plain
<1>2. w \in Seq(Utxos) /\ p \in Seq(Utxos)
  BY <1>1, KindsAreLists
<1>3. Order[1] \in B
  <2>1. Order \in Seq(Utxos) /\ ToSet(Order) \subseteq Utxos \ builder.scripts
    BY OrderIsFree
  <2>2. 1 \in DOMAIN Order
    BY <2>1, EmptySeq, LenProperties
  <2>3. Order[1] \in ToSet(Order)
    BY <2>2 DEF ToSet
  <2> QED
    BY <2>1, <2>3
<1>4. /\ Kind(Wealthy)' = Those(w, B)
      /\ Kind(Plain)' = Those(p, B)
  <2>1. Wealthy' = Wealthy /\ Plain' = Plain
    BY DEF Wealthy, Plain
  <2> QED
    BY <1>1, <2>1, KindShrinks
<1>5. NeededTokens' = NeededTokens
  BY DEF NeededTokens, Needed
<1>8. Order' = IF \E t \in Tokens : NeededTokens'[t] > 0 THEN Kind(Wealthy)' \o Kind(Plain)'
               ELSE Kind(Plain)' \o Kind(Wealthy)'
  BY DEF Order, Kind, Wealthy, Plain
<1> HIDE DEF B, w, p
<1>6. CASE \E t \in Tokens : NeededTokens[t] > 0
  <2>1. Order = w \o p
    BY <1>6, OrderOfKinds DEF w, p
  <2>2. Order' = Those(w, B) \o Those(p, B)
    BY <1>4, <1>5, <1>6, <1>8
  <2> QED
    BY <1>2, <1>3, <2>1, <2>2, JoinedStays
<1>7. CASE ~\E t \in Tokens : NeededTokens[t] > 0
  <2>1. Order = p \o w
    BY <1>7, OrderOfKinds DEF w, p
  <2>2. Order' = Those(p, B) \o Those(w, B)
    BY <1>4, <1>5, <1>7, <1>8
  <2> QED
    BY <1>2, <1>3, <2>1, <2>2, JoinedStays
<1> QED
  BY <1>6, <1>7

(***************************************************************************)
(* A transaction takes the first output of the order, if there is one.     *)
(***************************************************************************)
HeadInv ==
    HasTx =>
        /\ builder.utxos # None
        /\ Order # <<>> => Order[1] \in job.tx.inputs
        /\ Order = <<>> => job.tx.inputs = {}
        /\ job.tx.scripts = builder.scripts

\* No transaction that the builder makes can be taken until the UTxOs are listed again
\* or the outputs or mints are others.
Doomed ==
    \/ ~(builder.scripts \subseteq unspent)
    \/ builder.utxos # None /\ Order # <<>> /\ Order[1] \notin unspent

(***************************************************************************)
(* What the node has taken was asked for with no more outputs and mints    *)
(* than there are now, and asking for the same again is in vain.           *)
(***************************************************************************)
SentInv ==
    /\ \A p \in sent : /\ Len(p[1]) \in 0 .. Len(builder.outputs)
                      /\ Len(p[2]) \in 0 .. Len(builder.mints)
    /\ <<builder.outputs, builder.mints>> \in sent => Doomed

RetryInv == IInv /\ HeadInv /\ SentInv

LEMMA SelectedHead ==
    ASSUME NEW order \in Seq(Utxos), NEW coins, NEW tokens
    PROVE  /\ order # <<>> => order[1] \in Selected(order, coins, tokens)
           /\ order = <<>> => Selected(order, coins, tokens) = {}
<1> DEFINE n == Taken(order, coins, tokens)
<1>1. /\ n \in 0 .. Len(order) /\ Len(order) \in Nat
      /\ Enough(order, coins, tokens) # {} => n \in Enough(order, coins, tokens)
  BY TakenIsPrefix, LenProperties
<1>2. Enough(order, coins, tokens) = {} => n = Len(order)
  BY DEF Taken, Enough
<1>3. Enough(order, coins, tokens) \subseteq 1 .. Len(order)
  BY DEF Enough
<1>4. Selected(order, coins, tokens) = {order[i] : i \in 1 .. n}
  BY DEF Selected, First
<1> HIDE DEF n
<1>5. CASE order # <<>>
  <2>1. Len(order) > 0
    BY <1>1, <1>5, EmptySeq
  <2>2. 1 \in 1 .. n
    BY <1>1, <1>2, <1>3, <2>1
  <2> QED
    BY <1>4, <1>5, <2>2
<1>6. CASE order = <<>>
  <2>1. Len(order) = 0
    BY <1>6
  <2>2. 1 .. n = {}
    BY <1>1, <2>1
  <2> QED
    BY <1>4, <1>6, <2>2
<1> QED
  BY <1>5, <1>6

\* While the order, the scripts and what was taken are as before.
LEMMA SentStays ==
    ASSUME SentInv, sent' = sent, unspent' = unspent,
           builder'.utxos = builder.utxos, builder'.outputs = builder.outputs,
           builder'.mints = builder.mints, builder'.scripts = builder.scripts
    PROVE  SentInv'
<1>1. Order' = Order
  BY OrderStays
<1>2. Doomed' = Doomed
  BY <1>1 DEF Doomed
<1> QED
  BY <1>2 DEF SentInv

LEMMA HeadStaysTaken ==
    ASSUME HeadInv, HasTx, builder' = builder, job'.tx = job.tx
    PROVE  HeadInv'
<1>1. Order' = Order
  BY OrderStays
<1> QED
  BY <1>1 DEF HeadInv

LEMMA NothingBuilt ==
    ASSUME ~HasTx'
    PROVE  HeadInv'
BY DEF HeadInv

(***************************************************************************)
(* The setters.                                                            *)
(***************************************************************************)
LEMMA SettersRetry ==
    ASSUME RetryInv,
           \/ WithUtxos \/ QueryUtxos \/ Send \/ Mint \/ SpendFromScript
           \/ WithCollateral \/ AutoCollateral \/ WithParams \/ SetFee \/ SetScanLimit
    PROVE  HeadInv' /\ SentInv'
<1>1. BuilderInv
  BY DEF RetryInv, IInv
<1>2. DOMAIN builder = {"client", "utxos", "outputs", "mints", "scripts", "collateral",
                        "fee", "limit", "params"}
  BY <1>1 DEF BuilderInv
<1>3. \A field, value : Setting(field, value) =>
          /\ job' = job /\ job.at = "idle" /\ unspent' = unspent
          /\ builder' = [builder EXCEPT ![field] = value]
  BY DEF Setting
<1>4. HeadInv'
  <2>1. \E field, value : Setting(field, value)
    BY DEF WithUtxos, QueryUtxos, Send, Mint, SpendFromScript, WithCollateral, AutoCollateral,
           WithParams, SetFee, SetScanLimit, Set
  <2>2. job' = job /\ job.at = "idle"
    BY <1>3, <2>1
  <2> QED
    BY <2>2, NothingBuilt DEF HasTx
<1>5. CASE WithUtxos \/ QueryUtxos
  <2>1. sent' = {}
    BY <1>5 DEF WithUtxos, QueryUtxos
  <2> QED
    BY <1>4, <2>1 DEF SentInv
<1>6. builder.outputs \in Seq(Payments) /\ builder.mints \in Seq(Mints)
      /\ Len(builder.outputs) \in Nat /\ Len(builder.mints) \in Nat
  BY <1>1, OutputsAsked, LenProperties DEF BuilderInv
<1>7. \A p \in sent : /\ Len(p[1]) \in 0 .. Len(builder.outputs)
                      /\ Len(p[2]) \in 0 .. Len(builder.mints)
  BY DEF RetryInv, SentInv
<1>8. CASE Send
  <2>1. PICK o \in Payments : Setting("outputs", Append(builder.outputs, o)) /\ sent' = sent
    BY <1>8 DEF Send, Set
  <2> DEFINE more == Append(builder.outputs, o)
  <2>2. Len(more) = Len(builder.outputs) + 1
    BY <1>6
  <2>3. builder' = [builder EXCEPT !["outputs"] = more]
    BY <1>3, <2>1
  <2> HIDE DEF more
  <2>4. builder'.outputs = more /\ builder'.mints = builder.mints
    BY <1>2, <2>3
  <2>5. <<more, builder.mints>> \notin sent
    BY <1>6, <1>7, <2>2
  <2>6. \A p \in sent : Len(p[1]) \in 0 .. Len(more)
    BY <1>6, <1>7, <2>2
  <2>7. SentInv'
    BY <1>7, <2>1, <2>4, <2>5, <2>6 DEF SentInv
  <2> QED
    BY <1>4, <2>7
<1>9. CASE Mint
  <2>1. PICK m \in Mints : Setting("mints", Append(builder.mints, m)) /\ sent' = sent
    BY <1>9 DEF Mint, Set
  <2> DEFINE more == Append(builder.mints, m)
  <2>2. Len(more) = Len(builder.mints) + 1
    BY <1>6
  <2>3. builder' = [builder EXCEPT !["mints"] = more]
    BY <1>3, <2>1
  <2> HIDE DEF more
  <2>4. builder'.mints = more /\ builder'.outputs = builder.outputs
    BY <1>2, <2>3
  <2>5. <<builder.outputs, more>> \notin sent
    BY <1>6, <1>7, <2>2
  <2>6. \A p \in sent : Len(p[2]) \in 0 .. Len(more)
    BY <1>6, <1>7, <2>2
  <2>7. SentInv'
    BY <1>7, <2>1, <2>4, <2>5, <2>6 DEF SentInv
  <2> QED
    BY <1>4, <2>7
<1>10. CASE SpendFromScript
  <2>1. PICK u \in ScriptUtxos : /\ Setting("scripts", builder.scripts \cup {u})
                                 /\ sent' = sent
    BY <1>10 DEF SpendFromScript, Set
  <2>2. /\ builder' = [builder EXCEPT !["scripts"] = builder.scripts \cup {u}]
        /\ unspent' = unspent
    BY <1>3, <2>1
  <2>3. /\ builder'.scripts = builder.scripts \cup {u} /\ builder'.utxos = builder.utxos
        /\ builder'.outputs = builder.outputs /\ builder'.mints = builder.mints
    BY <1>2, <2>2
  <2>4. Doomed => Doomed'
    <3>1. CASE ~(builder.scripts \subseteq unspent)
      BY <2>2, <2>3, <3>1 DEF Doomed
    <3>2. CASE builder.utxos # None /\ Order # <<>> /\ Order[1] \notin unspent
      <4>1. CASE Order[1] = u
        BY <2>2, <2>3, <3>2, <4>1 DEF Doomed
      <4>2. CASE Order[1] # u
        <5>1. Order' # <<>> /\ Order'[1] = Order[1]
          BY <1>1, <2>3, <3>2, <4>2, HeadOfOrderStays
        <5> QED
          BY <2>2, <2>3, <3>2, <5>1 DEF Doomed
      <4> QED
        BY <4>1, <4>2
    <3> QED
      BY <3>1, <3>2 DEF Doomed
  <2>5. SentInv'
    BY <1>7, <2>1, <2>3, <2>4 DEF RetryInv, SentInv
  <2> QED
    BY <1>4, <2>5
<1>11. CASE WithCollateral \/ AutoCollateral \/ WithParams \/ SetFee \/ SetScanLimit
  <2>1. /\ sent' = sent
        /\ \E field \in {"collateral", "params", "fee", "limit"} :
              \E value : Setting(field, value)
    BY <1>11 DEF WithCollateral, AutoCollateral, WithParams, SetFee, SetScanLimit, Set
  <2>2. PICK field \in {"collateral", "params", "fee", "limit"} :
           \E value : Setting(field, value)
    BY <2>1
  <2>3. PICK value : Setting(field, value)
    BY <2>2
  <2>4. unspent' = unspent /\ builder' = [builder EXCEPT ![field] = value]
    BY <1>3, <2>3
  <2>5. /\ builder'.scripts = builder.scripts /\ builder'.utxos = builder.utxos
        /\ builder'.outputs = builder.outputs /\ builder'.mints = builder.mints
    BY <1>2, <2>4
  <2> QED
    BY <1>4, <2>1, <2>4, <2>5, SentStays DEF RetryInv
<1> QED
  BY <1>5, <1>8, <1>9, <1>10, <1>11

(***************************************************************************)
(* The steps of a call up to the signature.                                *)
(***************************************************************************)
LEMMA BuildRetry ==
    ASSUME RetryInv, NEW want, Build(want)
    PROVE  HeadInv' /\ SentInv'
<1>1. BuilderInv
  BY DEF RetryInv, IInv
<1>2. ~HasTx'
  BY DEF Build, HasTx, Idle
<1>3. /\ builder'.scripts = builder.scripts /\ builder'.utxos = builder.utxos
      /\ builder'.outputs = builder.outputs /\ builder'.mints = builder.mints
      /\ sent' = sent /\ unspent' = unspent
  <2>1. builder' = [builder EXCEPT !.params = TRUE] \/ builder' = builder
    BY DEF Build
  <2> QED
    BY <1>1, <2>1 DEF Build, BuilderInv
<1> QED
  BY <1>2, <1>3, NothingBuilt, SentStays DEF RetryInv

LEMMA IterateRetry ==
    ASSUME RetryInv, Iterate
    PROVE  HeadInv' /\ SentInv'
<1> DEFINE coins == Paid(builder.outputs) + job.fee
           sel == Selected(Order, coins, NeededTokens)
           tx == Built(sel, ChangeCoins(Order, coins, NeededTokens),
                       ChangeTokens(Order, coins, NeededTokens), job.fee)
<1>1. /\ job.at = "fee" /\ builder' = builder /\ unspent' = unspent /\ sent' = sent
      /\ builder.utxos # None /\ BuilderInv
  BY DEF Iterate, CanBuild, Fails, RetryInv, IInv
<1>2. SentInv'
  BY <1>1, SentStays DEF RetryInv
<1>3. CASE job' = [job EXCEPT !.at = "built", !.tx = tx]
  <2>1. job'.tx = tx
    BY <1>3 DEF RetryInv, IInv, Idle
  <2>2. tx.inputs = sel /\ tx.scripts = builder.scripts
    BY DEF Built, Body
  <2>3. Order \in Seq(Utxos)
    BY <1>1, OrderIsFree
  <2>4. /\ Order # <<>> => Order[1] \in sel
        /\ Order = <<>> => sel = {}
    BY <2>3, SelectedHead
  <2>5. Order' = Order
    BY <1>1, OrderStays
  <2> HIDE DEF tx, sel
  <2> QED
    BY <1>1, <1>2, <2>1, <2>2, <2>4, <2>5 DEF HeadInv
<1>4. CASE job'.at \in {"fee", "idle"}
  BY <1>2, <1>4, NothingBuilt DEF HasTx
<1>5. job' = [job EXCEPT !.at = "built", !.tx = tx] \/ job'.at \in {"fee", "idle"}
  <2> DEFINE raised == Raised(estimate_fee(TxSize(tx)))
  <2>1. \/ job' = [job EXCEPT !.at = "built", !.tx = tx]
        \/ job' = [job EXCEPT !.fee = raised, !.iteration = @ + 1]
        \/ job' = Idle
    BY Zenon DEF Iterate, Fails
  <2> HIDE DEF tx, raised
  <2>2. ASSUME job' = [job EXCEPT !.fee = raised, !.iteration = @ + 1]
        PROVE  job'.at = "fee"
    BY <1>1, <2>2 DEF RetryInv, IInv, Idle
  <2>3. Idle.at = "idle"
    BY DEF Idle
  <2> QED
    BY <2>1, <2>2, <2>3
<1> QED
  BY <1>3, <1>4, <1>5

LEMMA ReturnsRetry ==
    ASSUME RetryInv, Refuse \/ ReturnBuilt \/ ReturnSigned
    PROVE  HeadInv' /\ SentInv'
<1>1. job' = Idle /\ builder' = builder /\ sent' = sent /\ unspent' = unspent
  BY DEF Refuse, ReturnBuilt, ReturnSigned, Fails
<1>2. ~HasTx'
  BY <1>1 DEF HasTx, Idle
<1> QED
  BY <1>1, <1>2, NothingBuilt, SentStays DEF RetryInv

LEMMA SignRetry ==
    ASSUME RetryInv, Sign
    PROVE  HeadInv' /\ SentInv'
<1>1. /\ builder' = builder /\ sent' = sent /\ unspent' = unspent /\ HasTx
  BY DEF Sign, HasTx
<1>2. job'.tx = job.tx
  BY DEF Sign, RetryInv, IInv, Idle
<1> QED
  BY <1>1, <1>2, HeadStaysTaken, SentStays DEF RetryInv

(***************************************************************************)
(* What is submitted takes the head of the order and the script inputs.    *)
(***************************************************************************)
LEMMA SignedTakes ==
    ASSUME RetryInv, job.at = "signed"
    PROVE  /\ job.signed.tx.scripts = builder.scripts
           /\ builder.utxos # None
           /\ Order # <<>> => Order[1] \in job.signed.tx.inputs
           /\ Order = <<>> => job.signed.tx.inputs = {}
<1>1. HasTx
  BY DEF HasTx
<1>2. job.signed.tx = Body(job.tx.inputs, Readded(ChangeAmount), job.tx.fee)
  BY DEF RetryInv, IInv, SignedInv
<1>3. job.signed.tx.inputs = job.tx.inputs /\ job.signed.tx.scripts = builder.scripts
  BY <1>2 DEF Body
<1> QED
  BY <1>1, <1>3 DEF RetryInv, HeadInv

LEMMA SubmitRetry ==
    ASSUME RetryInv, Submit
    PROVE  HeadInv' /\ SentInv'
<1> DEFINE spent == job.signed.tx.inputs \cup job.signed.tx.scripts
           pair == <<builder.outputs, builder.mints>>
<1>1. job.at = "signed" /\ job' = Idle /\ builder' = builder
  BY DEF Submit
<1>2. HeadInv'
  BY <1>1, NothingBuilt DEF HasTx, Idle
<1>3. CASE /\ spent # {} /\ spent \subseteq unspent
           /\ unspent' = unspent \ spent /\ sent' = sent \cup {pair}
  <2>1. /\ job.signed.tx.scripts = builder.scripts
        /\ builder.utxos # None
        /\ Order # <<>> => Order[1] \in job.signed.tx.inputs
        /\ Order = <<>> => job.signed.tx.inputs = {}
    BY <1>1, SignedTakes
  <2>2. Order' = Order
    BY <1>1, OrderStays
  <2>3. Doomed'
    <3>1. CASE builder.scripts # {}
      BY <1>1, <1>3, <2>1, <3>1 DEF Doomed
    <3>2. CASE builder.scripts = {}
      <4>1. Order # <<>>
        BY <1>3, <2>1, <3>2
      <4> QED
        BY <1>1, <1>3, <2>1, <2>2, <4>1 DEF Doomed
    <3> QED
      BY <3>1, <3>2
  <2>4. /\ Len(pair[1]) \in 0 .. Len(builder.outputs)
        /\ Len(pair[2]) \in 0 .. Len(builder.mints)
    <3>1. builder.outputs \in Seq(Payments) /\ builder.mints \in Seq(Mints)
      BY OutputsAsked DEF RetryInv, IInv, BuilderInv
    <3>2. Len(builder.outputs) \in Nat /\ Len(builder.mints) \in Nat
      BY <3>1, LenProperties
    <3> QED
      BY <3>2
  <2> HIDE DEF pair
  <2>5. \A p \in sent' : /\ Len(p[1]) \in 0 .. Len(builder.outputs)
                         /\ Len(p[2]) \in 0 .. Len(builder.mints)
    BY <1>3, <2>4 DEF RetryInv, SentInv
  <2>6. SentInv'
    BY <1>1, <2>3, <2>5 DEF SentInv
  <2> QED
    BY <1>2, <2>6
<1>4. CASE UNCHANGED <<unspent, sent>>
  BY <1>1, <1>2, <1>4, SentStays DEF RetryInv
<1> QED
  BY <1>3, <1>4 DEF Submit

THEOREM RetryInvariant == Spec => []RetryInv
<1>1. Init => HeadInv /\ SentInv
  <2> SUFFICES ASSUME Init PROVE HeadInv /\ SentInv
    OBVIOUS
  <2>1. ~HasTx /\ sent = {}
    BY DEF Init, Idle, HasTx
  <2> QED
    BY <2>1 DEF HeadInv, SentInv
<1>2. RetryInv /\ [Next]_vars => (HeadInv /\ SentInv)'
  <2> SUFFICES ASSUME RetryInv, [Next]_vars PROVE HeadInv' /\ SentInv'
    OBVIOUS
  <2>1. CASE \/ WithUtxos \/ QueryUtxos \/ Send \/ Mint \/ SpendFromScript
             \/ WithCollateral \/ AutoCollateral \/ WithParams \/ SetFee \/ SetScanLimit
    BY <2>1, SettersRetry
  <2>2. CASE \E want \in {"build", "sign", "submit"} : Build(want)
    BY <2>2, BuildRetry
  <2>3. CASE Iterate
    BY <2>3, IterateRetry
  <2>4. CASE Refuse \/ ReturnBuilt \/ ReturnSigned
    BY <2>4, ReturnsRetry
  <2>5. CASE Sign
    BY <2>5, SignRetry
  <2>6. CASE Submit
    BY <2>6, SubmitRetry
  <2>7. CASE UNCHANGED vars
    <3>1. builder' = builder /\ job' = job /\ sent' = sent /\ unspent' = unspent
      BY <2>7 DEF vars
    <3>2. HeadInv'
      <4>1. CASE HasTx
        BY <3>1, <4>1, HeadStaysTaken DEF RetryInv
      <4>2. CASE ~HasTx
        BY <3>1, <4>2, NothingBuilt DEF HasTx
      <4> QED
        BY <4>1, <4>2
    <3>3. SentInv'
      BY <3>1, SentStays DEF RetryInv
    <3> QED
      BY <3>2, <3>3
  <2> QED
    BY <2>1, <2>2, <2>3, <2>4, <2>5, <2>6, <2>7 DEF Next
<1>3. RetryInv <=> IInv /\ HeadInv /\ SentInv
  BY DEF RetryInv
<1> QED
  BY <1>1, <1>2, <1>3, BuilderInvariant, PTL DEF Spec

(***************************************************************************)
(* Calling build_sign_submit again does not pay twice: until the UTxOs are *)
(* listed again, a second transaction with the same outputs and mints      *)
(* takes an input of the first, and the node refuses it.                   *)
(***************************************************************************)
THEOREM RetriesPayOnce == Spec => PaidOnce
<1>1. RetryInv /\ [Next]_vars =>
        [job.at = "signed" /\ unspent' # unspent
           => <<builder.outputs, builder.mints>> \notin sent]_vars
  <2> SUFFICES ASSUME RetryInv, Next, job.at = "signed", unspent' # unspent,
                      <<builder.outputs, builder.mints>> \in sent
               PROVE  FALSE
    OBVIOUS
  <2>1. Submit
    BY DEF Next, WithUtxos, QueryUtxos, Send, Mint, SpendFromScript, WithCollateral,
           AutoCollateral, WithParams, SetFee, SetScanLimit, Set, Setting, Build, Iterate,
           Refuse, ReturnBuilt, Sign, ReturnSigned, Fails
  <2>2. job.signed.tx.inputs \cup job.signed.tx.scripts \subseteq unspent
    BY <2>1 DEF Submit
  <2>3. Doomed
    BY DEF RetryInv, SentInv
  <2> QED
    BY <2>2, <2>3, SignedTakes DEF Doomed
<1> QED
  BY <1>1, RetryInvariant, PTL DEF Spec, PaidOnce

=============================================================================
