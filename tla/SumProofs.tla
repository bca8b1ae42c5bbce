----------------------------- MODULE SumProofs -----------------------------
(***************************************************************************)
(* Sums over finite sets, as MapThenSumSet computes them: by removing one  *)
(* element after the other.  A sum is a number, does not depend on the     *)
(* order, and grows by what is added.                                      *)
(*                                                                         *)
(* The induction over the sets is spelled out as the choice of a smallest  *)
(* counterexample.                                                         *)
(***************************************************************************)
EXTENDS Integers, FiniteSetsExt, FiniteSetTheorems, WellFoundedInduction, TLAPS

\* The sum of the values of a function over a set.
SumOf(v, S) == MapThenSumSet(LAMBDA x : v[x], S)

Pick(S) == CHOOSE x \in S : TRUE

\* f adds up v over each of the sets in D.
Adds(f, v, D) ==
    f = [S \in D |-> IF S = {} THEN 0 ELSE v[Pick(S)] + f[S \ {Pick(S)}]]

LEMMA PickIsIn == \A S : S # {} => Pick(S) \in S
BY DEF Pick

(***************************************************************************)
(* Among finite sets that are not all as wished, there is a smallest one.  *)
(***************************************************************************)
HasSmallest(F) == \E T \in F : \A U \in F : U \subseteq T => U = T

LEMMA SmallestSet ==
    ASSUME NEW S, NEW F, F \subseteq SUBSET S, F # {}, \A T \in F : IsFiniteSet(T)
    PROVE  HasSmallest(F)
<1>1. F \subseteq FiniteSubsetsOf(S)
  BY DEF FiniteSubsetsOf
<1>2. PICK T \in F : \A U \in F : ~(<<U, T>> \in StrictSubsetOrdering(S))
  BY <1>1, FS_StrictSubsetOrderingWellFounded, WFMin, Zenon
<1>3. ASSUME NEW U \in F, U \subseteq T, U # T PROVE FALSE
  <2>1. <<U, T>> \in StrictSubsetOrdering(S)
    BY <1>1, <1>3 DEF StrictSubsetOrdering
  <2> QED
    BY <1>2, <2>1
<1> QED
  BY <1>2, <1>3 DEF HasSmallest

LEMMA SmallerFinite ==
    ASSUME NEW S, IsFiniteSet(S)
    PROVE  /\ \A T \in SUBSET S : IsFiniteSet(T)
           /\ \A x : IsFiniteSet(S \cup {x}) /\ IsFiniteSet(S \ {x})
BY FS_Subset, FS_AddElement, FS_RemoveElement

LEMMA AddsUnique ==
    ASSUME NEW v, NEW S, IsFiniteSet(S), NEW f, NEW g,
           Adds(f, v, SUBSET S), Adds(g, v, SUBSET S)
    PROVE  f[S] = g[S]
<1> DEFINE F == {T \in SUBSET S : f[T] # g[T]}
<1>1. SUFFICES ASSUME F # {} PROVE FALSE
  OBVIOUS
<1>2. PICK T \in F : \A U \in F : U \subseteq T => U = T
  <2>1. F \subseteq SUBSET S /\ F # {} /\ \A T \in F : IsFiniteSet(T)
    BY <1>1, SmallerFinite
  <2> HIDE DEF F
  <2>2. HasSmallest(F)
    BY <2>1, SmallestSet, Zenon
  <2> QED
    BY <2>2 DEF HasSmallest
<1>3. /\ f[T] = IF T = {} THEN 0 ELSE v[Pick(T)] + f[T \ {Pick(T)}]
      /\ g[T] = IF T = {} THEN 0 ELSE v[Pick(T)] + g[T \ {Pick(T)}]
  BY DEF Adds
<1>4. CASE T = {}
  BY <1>3, <1>4
<1>5. CASE T # {}
  <2>1. Pick(T) \in T
    BY <1>5, PickIsIn
  <2>2. f[T \ {Pick(T)}] = g[T \ {Pick(T)}]
    BY <1>2, <2>1
  <2> QED
    BY <1>3, <1>5, <2>2
<1> QED
  BY <1>4, <1>5

(***************************************************************************)
(* The recursion that MapThenSumSet is defined by has a solution.          *)
(***************************************************************************)
LEMMA SumIsAdded ==
    ASSUME NEW v, NEW S, NEW f, Adds(f, v, SUBSET S), IsFiniteSet(S)
    PROVE  SumOf(v, S) = f[S]
<1> DEFINE g == CHOOSE g : Adds(g, v, SUBSET S)
<1>1. Adds(g, v, SUBSET S)
  BY Zenon
<1>2. SumOf(v, S) = g[S]
  BY DEF SumOf, MapThenSumSet, MapThenFoldSet, Adds, Pick
<1> HIDE DEF g
<1> QED
  BY <1>1, <1>2, AddsUnique

LEMMA SumBelow ==
    ASSUME NEW v, NEW S, IsFiniteSet(S), NEW f, Adds(f, v, SUBSET S), NEW T \in SUBSET S
    PROVE  SumOf(v, T) = f[T]
<1> DEFINE g == [U \in SUBSET T |-> f[U]]
<1>1. ASSUME NEW U \in SUBSET T
      PROVE  g[U] = IF U = {} THEN 0 ELSE v[Pick(U)] + g[U \ {Pick(U)}]
  <2>1. U \in SUBSET S /\ U \ {Pick(U)} \in SUBSET T
    OBVIOUS
  <2>2. f[U] = IF U = {} THEN 0 ELSE v[Pick(U)] + f[U \ {Pick(U)}]
    BY <2>1 DEF Adds
  <2> QED
    BY <2>1, <2>2
<1>2. Adds(g, v, SUBSET T)
  BY <1>1 DEF Adds
<1>3. IsFiniteSet(T) /\ g[T] = f[T]
  BY SmallerFinite
<1> HIDE DEF g
<1> QED
  BY <1>2, <1>3, SumIsAdded

LEMMA SumStep ==
    ASSUME NEW v, NEW S, NEW f, Adds(f, v, SUBSET S), IsFiniteSet(S)
    PROVE  SumOf(v, S) = IF S = {} THEN 0 ELSE v[Pick(S)] + SumOf(v, S \ {Pick(S)})
<1>1. SumOf(v, S) = f[S]
  BY SumIsAdded
<1>2. f[S] = IF S = {} THEN 0 ELSE v[Pick(S)] + f[S \ {Pick(S)}]
  BY DEF Adds
<1> DEFINE T == S \ {Pick(S)}
<1>3. T \in SUBSET S /\ IsFiniteSet(T)
  BY SmallerFinite
<1> HIDE DEF T
<1>5. SumOf(v, T) = f[T]
  BY <1>3, SumBelow
<1> QED
  BY <1>1, <1>2, <1>5 DEF T

LEMMA AddsExists ==
    ASSUME NEW v, NEW S, IsFiniteSet(S)
    PROVE  \E f : Adds(f, v, SUBSET S)
<1> DEFINE F == {T \in SUBSET S : ~\E f : Adds(f, v, SUBSET T)}
<1>1. SUFFICES ASSUME F # {} PROVE FALSE
  OBVIOUS
<1>2. PICK T \in F : \A U \in F : U \subseteq T => U = T
  <2>1. F \subseteq SUBSET S /\ F # {} /\ \A T \in F : IsFiniteSet(T)
    BY <1>1, SmallerFinite
  <2> HIDE DEF F
  <2>2. HasSmallest(F)
    BY <2>1, SmallestSet, Zenon
  <2> QED
    BY <2>2 DEF HasSmallest
<1>3. ASSUME NEW U \in SUBSET T, U # T
      PROVE  SumOf(v, U) = IF U = {} THEN 0 ELSE v[Pick(U)] + SumOf(v, U \ {Pick(U)})
  <2>1. U \in SUBSET S /\ U \notin F
    BY <1>2, <1>3
  <2>2. PICK f : Adds(f, v, SUBSET U)
    BY <2>1
  <2>3. IsFiniteSet(U)
    BY <2>1, SmallerFinite
  <2> QED
    BY <2>2, <2>3, SumStep
<1> DEFINE f == [U \in SUBSET T |->
                    IF U = {} THEN 0 ELSE v[Pick(U)] + SumOf(v, U \ {Pick(U)})]
<1>4. ASSUME NEW U \in SUBSET T
      PROVE  f[U] = IF U = {} THEN 0 ELSE v[Pick(U)] + f[U \ {Pick(U)}]
  <2>1. CASE U = {}
    BY <2>1
  <2>2. CASE U # {}
    <3>1. Pick(U) \in U
      BY <2>2, PickIsIn
    <3>2. U \ {Pick(U)} \in SUBSET T /\ U \ {Pick(U)} # T
      BY <3>1
    <3>3. SumOf(v, U \ {Pick(U)}) = f[U \ {Pick(U)}]
      BY <1>3, <3>2
    <3> QED
      BY <2>2, <3>3
  <2> QED
    BY <2>1, <2>2
<1>5. Adds(f, v, SUBSET T)
  BY <1>4 DEF Adds
<1> QED
  BY <1>5

LEMMA SumRec ==
    ASSUME NEW v, NEW S, IsFiniteSet(S)
    PROVE  SumOf(v, S) = IF S = {} THEN 0 ELSE v[Pick(S)] + SumOf(v, S \ {Pick(S)})
BY AddsExists, SumStep

(***************************************************************************)
(* What a sum is.                                                          *)
(***************************************************************************)
LEMMA SumEmpty == \A v : SumOf(v, {}) = 0
BY SumRec, FS_EmptySet

LEMMA SumInt ==
    ASSUME NEW S, IsFiniteSet(S), NEW v, \A x \in S : v[x] \in Int
    PROVE  SumOf(v, S) \in Int
<1> DEFINE F == {T \in SUBSET S : SumOf(v, T) \notin Int}
<1>1. SUFFICES ASSUME F # {} PROVE FALSE
  OBVIOUS
<1>2. PICK T \in F : \A U \in F : U \subseteq T => U = T
  <2>1. F \subseteq SUBSET S /\ F # {} /\ \A T \in F : IsFiniteSet(T)
    BY <1>1, SmallerFinite
  <2> HIDE DEF F
  <2>2. HasSmallest(F)
    BY <2>1, SmallestSet, Zenon
  <2> QED
    BY <2>2 DEF HasSmallest
<1>3. SumOf(v, T) = IF T = {} THEN 0 ELSE v[Pick(T)] + SumOf(v, T \ {Pick(T)})
  BY SumRec, SmallerFinite
<1>4. T # {}
  BY <1>2, <1>3
<1>5. Pick(T) \in T
  BY <1>4, PickIsIn
<1>6. SumOf(v, T \ {Pick(T)}) \in Int
  BY <1>2, <1>5
<1> QED
  BY <1>2, <1>3, <1>5, <1>6

LEMMA SumNat ==
    ASSUME NEW S, IsFiniteSet(S), NEW v, \A x \in S : v[x] \in Nat
    PROVE  SumOf(v, S) \in Nat
<1> DEFINE F == {T \in SUBSET S : SumOf(v, T) \notin Nat}
<1>1. SUFFICES ASSUME F # {} PROVE FALSE
  OBVIOUS
<1>2. PICK T \in F : \A U \in F : U \subseteq T => U = T
  <2>1. F \subseteq SUBSET S /\ F # {} /\ \A T \in F : IsFiniteSet(T)
    BY <1>1, SmallerFinite
  <2> HIDE DEF F
  <2>2. HasSmallest(F)
    BY <2>1, SmallestSet, Zenon
  <2> QED
    BY <2>2 DEF HasSmallest
<1>3. SumOf(v, T) = IF T = {} THEN 0 ELSE v[Pick(T)] + SumOf(v, T \ {Pick(T)})
  BY SumRec, SmallerFinite
<1>4. T # {}
  BY <1>2, <1>3
<1>5. Pick(T) \in T
  BY <1>4, PickIsIn
<1>6. SumOf(v, T \ {Pick(T)}) \in Nat
  BY <1>2, <1>5
<1> QED
  BY <1>2, <1>3, <1>5, <1>6

(***************************************************************************)
(* An element more adds its value, wherever the recursion comes to it.     *)
(***************************************************************************)
LEMMA SumAdds ==
    ASSUME NEW S, IsFiniteSet(S), NEW v, \A x \in S : v[x] \in Int
    PROVE  \A T \in SUBSET S, e \in S :
               e \notin T => SumOf(v, T \cup {e}) = SumOf(v, T) + v[e]
<1> DEFINE F == {T \in SUBSET S :
                   \E e \in S : e \notin T /\ SumOf(v, T \cup {e}) # SumOf(v, T) + v[e]}
<1>1. SUFFICES ASSUME F # {} PROVE FALSE
  OBVIOUS
<1>2. PICK T \in F : \A U \in F : U \subseteq T => U = T
  <2>1. F \subseteq SUBSET S /\ F # {} /\ \A T \in F : IsFiniteSet(T)
    BY <1>1, SmallerFinite
  <2> HIDE DEF F
  <2>2. HasSmallest(F)
    BY <2>1, SmallestSet, Zenon
  <2> QED
    BY <2>2 DEF HasSmallest
<1>3. PICK e \in S : e \notin T /\ SumOf(v, T \cup {e}) # SumOf(v, T) + v[e]
  OBVIOUS
<1>4. IsFiniteSet(T) /\ IsFiniteSet(T \cup {e}) /\ T \subseteq S
  BY SmallerFinite
<1>5. PICK p : p = Pick(T \cup {e})
  OBVIOUS
<1>6. p \in T \cup {e}
  BY <1>5, PickIsIn
<1>7. SumOf(v, T \cup {e}) = v[p] + SumOf(v, (T \cup {e}) \ {p})
  BY <1>4, <1>5, SumRec
<1>8. SumOf(v, T) \in Int
  BY <1>4, SumInt
<1>9. CASE p = e
  <2>1. (T \cup {e}) \ {p} = T
    BY <1>3, <1>9
  <2> QED
    <3>1. SumOf(v, T \cup {e}) = v[e] + SumOf(v, T) /\ v[e] \in Int
      BY <1>7, <1>9, <2>1
    <3> HIDE DEF F
    <3> QED
      BY <1>3, <1>8, <3>1
<1>10. CASE p # e
  <2>1. PICK R : R = T \ {p}
    OBVIOUS
  <2>2. p \in T /\ (T \cup {e}) \ {p} = R \cup {e} /\ T = R \cup {p} /\ p \notin R /\ e \notin R
    BY <1>3, <1>6, <1>10, <2>1
  <2>3. R \in SUBSET S /\ R \notin F /\ IsFiniteSet(R) /\ p \in S
    BY <1>2, <1>4, <2>1, <2>2, SmallerFinite
  <2>4. SumOf(v, R \cup {e}) = SumOf(v, R) + v[e] /\ SumOf(v, R \cup {p}) = SumOf(v, R) + v[p]
    BY <2>2, <2>3
  <2>5. SumOf(v, R) \in Int /\ v[p] \in Int /\ v[e] \in Int
    BY <2>3, SumInt
  <2>6. PICK r \in Int : r = SumOf(v, R)
    BY <2>5
  <2>7. /\ SumOf(v, T \cup {e}) = v[p] + (r + v[e])
        /\ SumOf(v, T) = r + v[p]
    BY <1>7, <2>2, <2>4, <2>6
  <2> HIDE DEF F
  <2> QED
    BY <1>3, <2>5, <2>7
<1> QED
  BY <1>9, <1>10

LEMMA SumAdd ==
    ASSUME NEW S, IsFiniteSet(S), NEW e, e \notin S,
           NEW v, \A x \in S \cup {e} : v[x] \in Int
    PROVE  SumOf(v, S \cup {e}) = SumOf(v, S) + v[e]
<1> DEFINE U == S \cup {e}
<1>1. IsFiniteSet(U) /\ S \in SUBSET U /\ e \in U
  BY SmallerFinite
<1>2. \A x \in U : v[x] \in Int
  OBVIOUS
<1> HIDE DEF U
<1> QED
  BY <1>1, <1>2, SumAdds

(***************************************************************************)
(* A sum only looks at the values over its set.                            *)
(***************************************************************************)
LEMMA SumSame ==
    ASSUME NEW S, IsFiniteSet(S), NEW v, NEW w, \A x \in S : v[x] = w[x]
    PROVE  SumOf(v, S) = SumOf(w, S)
<1> DEFINE F == {T \in SUBSET S : SumOf(v, T) # SumOf(w, T)}
<1>1. SUFFICES ASSUME F # {} PROVE FALSE
  OBVIOUS
<1>2. PICK T \in F : \A U \in F : U \subseteq T => U = T
  <2>1. F \subseteq SUBSET S /\ F # {} /\ \A T \in F : IsFiniteSet(T)
    BY <1>1, SmallerFinite
  <2> HIDE DEF F
  <2>2. HasSmallest(F)
    BY <2>1, SmallestSet, Zenon
  <2> QED
    BY <2>2 DEF HasSmallest
<1>3. /\ SumOf(v, T) = IF T = {} THEN 0 ELSE v[Pick(T)] + SumOf(v, T \ {Pick(T)})
      /\ SumOf(w, T) = IF T = {} THEN 0 ELSE w[Pick(T)] + SumOf(w, T \ {Pick(T)})
  BY SumRec, SmallerFinite
<1>4. T # {}
  BY <1>2, <1>3
<1>5. Pick(T) \in T
  BY <1>4, PickIsIn
<1>6. SumOf(v, T \ {Pick(T)}) = SumOf(w, T \ {Pick(T)})
  BY <1>2, <1>5
<1> QED
  BY <1>2, <1>3, <1>5, <1>6

============================================================================
