----------------------------- MODULE SumTheorems -----------------------------
(* Sums of natural numbers, SumFunction of the community modules: what the    *)
(* proofs about quotas and invoices need to know of them.  The sum is counted *)
(* as a set of units, f[x] of them for each x, so that the facts about the    *)
(* cardinality of finite sets apply to it.                                    *)
EXTENDS Integers, FiniteSets, Functions, FiniteSetTheorems,
        WellFoundedInduction, TLAPS

\* Multiplication keeps an order.
LEMMA ProductOrder ==
    ASSUME NEW a \in Nat, NEW b \in Nat, NEW c \in Nat, a <= b
    PROVE  a * c <= b * c
<1>1. PICK d \in Nat : b = a + d
  <2>1. b - a \in Nat /\ b = a + (b - a)
    OBVIOUS
  <2> QED
    BY <2>1
<1>2. b * c = a * c + d * c /\ d * c \in Nat /\ a * c \in Nat
  BY <1>1
<1> QED
  BY <1>2

\* So does division.
LEMMA DivisionOrder ==
    ASSUME NEW a \in Nat, NEW b \in Nat, NEW d \in Nat \ {0}, a <= b
    PROVE  a \div d \in Nat /\ a \div d <= b \div d
<1>1. PICK p \in Nat : p = a \div d /\ p * d <= a
  OBVIOUS
<1>2. PICK q \in Nat : q = b \div d /\ b < (q + 1) * d
  OBVIOUS
<1>3. ASSUME q < p PROVE FALSE
  <2>1. (q + 1) * d <= p * d
    BY <1>3, ProductOrder
  <2>2. (q + 1) * d \in Nat /\ p * d \in Nat
    OBVIOUS
  <2> QED
    BY <1>1, <1>2, <2>1, <2>2
<1> QED
  BY <1>1, <1>2, <1>3

Units(f, S) == {p \in S \X (UNION {1..f[x] : x \in S}) : p[2] <= f[p[1]]}

\* One element more adds as many units as it has.
LEMMA UnitsOfOneMore ==
    ASSUME NEW S, IsFiniteSet(S), NEW f, \A x \in S : f[x] \in Nat,
           IsFiniteSet(Units(f, S)),
           NEW e, e \notin S, f[e] \in Nat
    PROVE  /\ IsFiniteSet(Units(f, S \cup {e}))
           /\ Cardinality(Units(f, S \cup {e})) = Cardinality(Units(f, S)) + f[e]
<1> DEFINE new == {e} \X (1..f[e])
<1>1. Units(f, S \cup {e}) = Units(f, S) \cup new /\ Units(f, S) \cap new = {}
  BY DEF Units
<1>2. IsFiniteSet(1..f[e]) /\ Cardinality(1..f[e]) = f[e]
  BY FS_Interval
<1>3. IsFiniteSet({e}) /\ Cardinality({e}) = 1
  BY FS_Singleton
<1>4. IsFiniteSet(new) /\ Cardinality(new) = Cardinality({e}) * Cardinality(1..f[e])
  BY <1>2, <1>3, FS_Product, Zenon
<1>5. Cardinality(new) = f[e]
  BY <1>2, <1>3, <1>4
<1> HIDE DEF new
<1>6. /\ IsFiniteSet(Units(f, S) \cup new)
      /\ Cardinality(Units(f, S) \cup new) =
             Cardinality(Units(f, S)) + Cardinality(new) - Cardinality({})
  BY <1>1, <1>4, FS_Union
<1>7. Cardinality(Units(f, S)) \in Nat /\ Cardinality({}) = 0
  BY FS_EmptySet, FS_CardinalityType
<1>8. /\ IsFiniteSet(Units(f, S \cup {e}))
      /\ Cardinality(Units(f, S \cup {e})) =
             Cardinality(Units(f, S)) + Cardinality(new) - Cardinality({})
  BY <1>1, <1>6, Zenon
<1> QED
  BY <1>5, <1>7, <1>8

\* Finitely many arguments have finitely many units.
LEMMA UnitsAreFinite ==
    ASSUME NEW S, IsFiniteSet(S), NEW f, \A x \in S : f[x] \in Nat
    PROVE  IsFiniteSet(Units(f, S))
<1> DEFINE numbers == [x \in S |-> 1..f[x]]
<1>1. \A x \in S : IsFiniteSet(1..f[x])
  BY FS_Interval
<1>2. IsFiniteSet({1..f[x] : x \in S})
  <2>1. numbers \in Surjection(S, {1..f[x] : x \in S})
    BY DEF Surjection
  <2> QED
    BY <2>1, FS_Surjection
<1>3. IsFiniteSet(UNION {1..f[x] : x \in S})
  BY <1>1, <1>2, FS_UNION
<1>4. IsFiniteSet(S \X (UNION {1..f[x] : x \in S}))
  BY <1>3, FS_Product
<1> QED
  BY <1>4, FS_Subset DEF Units

\* The recursion that defines SumFunctionOnSet, and the argument it takes next.
First(T) == CHOOSE x \in T : TRUE

Recursion(g, f, S) ==
    g = [T \in SUBSET S |-> IF T = {} THEN 0
                            ELSE f[First(T)] + g[T \ {First(T)}]]

\* The sum is the value of a function that satisfies the recursion.
LEMMA SumRecursion ==
    ASSUME NEW f, NEW S
    PROVE  SumFunctionOnSet(f, S) = (CHOOSE g : Recursion(g, f, S))[S]
BY DEF SumFunctionOnSet, FoldFunctionOnSet, MapThenFoldSet, Recursion, First

\* The numbers of units satisfy the recursion, and no other function does: a
\* smallest set on which another one differs would be without its first element
\* a smaller one.
LEMMA SumIsCount ==
    ASSUME NEW S, IsFiniteSet(S), NEW f, \A x \in S : f[x] \in Nat
    PROVE  SumFunctionOnSet(f, S) = Cardinality(Units(f, S))
<1> DEFINE count == [T \in SUBSET S |-> Cardinality(Units(f, T))]
<1>1. ASSUME NEW T \in SUBSET S
      PROVE  IsFiniteSet(T)
  BY FS_Subset
<1>2. ASSUME NEW T \in SUBSET S, T # {}
      PROVE  /\ First(T) \in T /\ T \ {First(T)} \in SUBSET S
             /\ Cardinality(Units(f, T)) =
                    f[First(T)] + Cardinality(Units(f, T \ {First(T)}))
  <2>1. First(T) \in T
    BY <1>2 DEF First
  <2> DEFINE e == First(T)
             rest == T \ {e}
  <2>2. IsFiniteSet(rest) /\ e \notin rest /\ rest \cup {e} = T /\ rest \in SUBSET S
    BY <1>1, <2>1
  <2>3. IsFiniteSet(Units(f, rest)) /\ Cardinality(Units(f, rest)) \in Nat
    BY <2>2, UnitsAreFinite, FS_CardinalityType
  <2> HIDE DEF e
  <2>4. Cardinality(Units(f, rest \cup {e})) = Cardinality(Units(f, rest)) + f[e]
    BY <2>1, <2>2, <2>3, UnitsOfOneMore DEF e
  <2>5. Cardinality(Units(f, T)) = Cardinality(Units(f, rest)) + f[e]
    BY <2>2, <2>4, Zenon
  <2>6. f[e] \in Nat
    BY <2>1 DEF e
  <2> QED
    BY <2>1, <2>2, <2>3, <2>5, <2>6 DEF e
<1>3. Cardinality(Units(f, {})) = 0
  <2>1. Units(f, {}) = {}
    BY DEF Units
  <2> QED
    BY <2>1, FS_EmptySet
<1>4. Recursion(count, f, S)
  <2>1. ASSUME NEW T \in SUBSET S
        PROVE  count[T] = IF T = {} THEN 0 ELSE f[First(T)] + count[T \ {First(T)}]
    BY <1>2, <1>3
  <2> QED
    BY <2>1 DEF Recursion
<1>5. ASSUME NEW g, Recursion(g, f, S) PROVE g[S] = count[S]
  <2> DEFINE wrong == {T \in SUBSET S : g[T] # count[T]}
  <2>1. ASSUME wrong # {} PROVE FALSE
    <3>1. IsWellFoundedOn(StrictSubsetOrdering(S), SUBSET S)
      BY FS_StrictSubsetOrderingWellFounded, FS_FiniteSubsetsOfFinite
    <3>2. PICK T \in wrong : \A U \in wrong : <<U, T>> \notin StrictSubsetOrdering(S)
      BY <2>1, <3>1, WFMin
    <3>3. T # {} /\ g[T \ {First(T)}] # count[T \ {First(T)}]
      BY <1>2, <1>3, <1>5, <3>2 DEF Recursion
    <3>4. T \ {First(T)} \in wrong /\ T \ {First(T)} # T
      BY <1>2, <3>3
    <3> QED
      BY <3>2, <3>4 DEF StrictSubsetOrdering
  <2> QED
    BY <2>1
<1> HIDE DEF count
<1>6. Recursion(CHOOSE g : Recursion(g, f, S), f, S)
  BY <1>4
<1> QED
  BY <1>5, <1>6, SumRecursion DEF count

-----------------------------------------------------------------------------
(* What the other modules cite.                                              *)

\* The sum of a function is the number of its units.
LEMMA SumCounts ==
    ASSUME NEW S, IsFiniteSet(S), NEW f \in [S -> Nat]
    PROVE  /\ SumFunction(f) = Cardinality(Units(f, S))
           /\ IsFiniteSet(Units(f, S)) /\ SumFunction(f) \in Nat
<1>1. SumFunction(f) = SumFunctionOnSet(f, S)
  BY DEF SumFunction
<1> QED
  BY <1>1, SumIsCount, UnitsAreFinite, FS_CardinalityType

\* Nothing adds up to zero.
LEMMA SumOfNothing ==
    ASSUME NEW f \in [{} -> Nat]
    PROVE  SumFunction(f) = 0
<1>1. Units(f, {}) = {}
  BY DEF Units
<1> QED
  BY <1>1, SumCounts, FS_EmptySet

\* One argument more adds its value.
LEMMA SumOfOneMore ==
    ASSUME NEW S, IsFiniteSet(S), NEW e, e \notin S,
           NEW f \in [S -> Nat], NEW g \in [S \cup {e} -> Nat],
           \A x \in S : g[x] = f[x]
    PROVE  SumFunction(g) = SumFunction(f) + g[e]
<1>1. Units(g, S) = Units(f, S)
  BY DEF Units
<1>2. IsFiniteSet(Units(g, S)) /\ IsFiniteSet(S \cup {e})
  BY <1>1, SumCounts, FS_AddElement
<1>3. Cardinality(Units(g, S \cup {e})) = Cardinality(Units(g, S)) + g[e]
  BY <1>2, UnitsOfOneMore
<1> QED
  BY <1>1, <1>2, <1>3, SumCounts

\* More arguments and larger values give no smaller sum.
LEMMA SumMonotone ==
    ASSUME NEW T, IsFiniteSet(T), NEW S \in SUBSET T,
           NEW f \in [S -> Nat], NEW g \in [T -> Nat],
           \A x \in S : f[x] <= g[x]
    PROVE  SumFunction(f) <= SumFunction(g)
<1>1. Units(f, S) \subseteq Units(g, T)
  BY DEF Units
<1>2. IsFiniteSet(S)
  BY FS_Subset
<1>3. Cardinality(Units(f, S)) <= Cardinality(Units(g, T))
  BY <1>1, SumCounts, FS_Subset
<1> QED
  BY <1>2, <1>3, SumCounts

\* A bound of the values bounds the sum.
LEMMA SumBounded ==
    ASSUME NEW S, IsFiniteSet(S), NEW f \in [S -> Nat], NEW m \in Nat,
           \A x \in S : f[x] <= m
    PROVE  SumFunction(f) <= Cardinality(S) * m
<1>1. Units(f, S) \subseteq S \X (1..m)
  BY DEF Units
<1>2. IsFiniteSet(1..m) /\ Cardinality(1..m) = m
  BY FS_Interval
<1>3. /\ IsFiniteSet(S \X (1..m))
      /\ Cardinality(S \X (1..m)) = Cardinality(S) * Cardinality(1..m)
  BY <1>2, FS_Product
<1>4. Cardinality(Units(f, S)) <= Cardinality(S \X (1..m))
  BY <1>1, <1>3, FS_Subset
<1> QED
  BY <1>2, <1>3, <1>4, SumCounts
=============================================================================
