---------------------------- MODULE SumTheorems -----------------------------
(***************************************************************************)
(* Sums over finite sets, as the community modules fold them: a sum is the *)
(* number of units it adds less the number it takes away, from which every *)
(* other law follows by induction over the subsets of a set.               *)
(***************************************************************************)
EXTENDS Integers, Functions, FiniteSetTheorems, WellFoundedInduction, TLAPS

-----------------------------------------------------------------------------
(* Induction over finite sets.                                             *)

\* What holds of {}, and of a set if it does of the set less each element, holds.
LEMMA FiniteInduction ==
  ASSUME NEW S, IsFiniteSet(S), NEW Good,
         {} \in Good,
         \A T \in SUBSET S : T # {} /\ (\A x \in T : T \ {x} \in Good) => T \in Good
  PROVE  S \in Good
<1> DEFINE Bad == {T \in SUBSET S : T \notin Good}
<1>1. SUFFICES ASSUME Bad # {} PROVE FALSE
  OBVIOUS
<1>2. IsWellFoundedOn(StrictSubsetOrdering(S), SUBSET S)
  BY FS_StrictSubsetOrderingWellFounded, FS_FiniteSubsetsOfFinite
<1>3. PICK T \in Bad : \A U \in Bad : <<U, T>> \notin StrictSubsetOrdering(S)
  <2>1. Bad \subseteq SUBSET S
    OBVIOUS
  <2> HIDE DEF Bad
  <2>2. QED
    BY <1>1, <1>2, <2>1, WFMin
<1>4. T # {} /\ T \subseteq S
  OBVIOUS
<1>5. \A x \in T : <<T \ {x}, T>> \in StrictSubsetOrdering(S)
  BY <1>4 DEF StrictSubsetOrdering
<1>6. \A x \in T : T \ {x} \in Good
  BY <1>3, <1>4, <1>5
<1>7. QED
  BY <1>4, <1>6

-----------------------------------------------------------------------------
(* A sum is a number of units.                                             *)

\* Each x of S as often as f says.
Units(f, S) == {u \in S \X Nat : u[2] \in 1..f[u[1]]}

Minus(f) == [x \in DOMAIN f |-> -f[x]]

Balance(f, S) == Cardinality(Units(f, S)) - Cardinality(Units(Minus(f), S))

Positive(n) == IF n > 0 THEN n ELSE 0

LEMMA UnitsOfOne ==
  ASSUME NEW x, NEW n \in Int
  PROVE  IsFiniteSet({x} \X (1..n)) /\ Cardinality({x} \X (1..n)) = Positive(n)
<1>1. IsFiniteSet(1..n) /\ Cardinality(1..n) = Positive(n)
  BY FS_Interval DEF Positive
<1>2. IsFiniteSet({x}) /\ Cardinality({x}) = 1
  BY FS_Singleton
<1>3. Positive(n) \in Int
  BY DEF Positive
<1>4. QED
  BY <1>1, <1>2, <1>3, FS_Product

LEMMA UnitsStep ==
  ASSUME NEW D, NEW f \in [D -> Int], NEW T \in SUBSET D, NEW x \in T,
         IsFiniteSet(Units(f, T \ {x}))
  PROVE  /\ IsFiniteSet(Units(f, T))
         /\ Cardinality(Units(f, T)) = Cardinality(Units(f, T \ {x})) + Positive(f[x])
<1> DEFINE one == {x} \X (1..f[x])
           rest == Units(f, T \ {x})
<1>1. Units(f, T) = rest \cup one /\ rest \cap one = {}
  BY DEF Units
<1>2. f[x] \in Int
  OBVIOUS
<1>3. IsFiniteSet(one) /\ Cardinality(one) = Positive(f[x])
  BY <1>2, UnitsOfOne
<1> HIDE DEF one, rest
<1>4. IsFiniteSet(rest) /\ Cardinality({}) = 0
  BY FS_EmptySet DEF rest
<1>5. IsFiniteSet(rest \cup one) /\ Cardinality(rest \cup one) = Cardinality(rest) + Cardinality(one) - 0
  BY <1>1, <1>3, <1>4, FS_Union
<1>6. Cardinality(rest) \in Nat /\ Positive(f[x]) \in Nat
  BY <1>2, <1>4, FS_CardinalityType DEF Positive
<1>7. QED
  BY <1>1, <1>3, <1>5, <1>6 DEF rest

LEMMA UnitsFinite ==
  ASSUME NEW D, NEW f \in [D -> Int], NEW S \in SUBSET D, IsFiniteSet(S)
  PROVE  IsFiniteSet(Units(f, S))
<1> DEFINE Good == {T \in SUBSET S : IsFiniteSet(Units(f, T))}
<1>1. {} \in Good
  <2>1. Units(f, {}) = {}
    BY DEF Units
  <2>2. QED
    BY <2>1, FS_EmptySet
<1>2. ASSUME NEW T \in SUBSET S, T # {}, \A x \in T : T \ {x} \in Good
      PROVE  T \in Good
  <2>1. PICK x \in T : IsFiniteSet(Units(f, T \ {x}))
    BY <1>2
  <2>2. QED
    BY <2>1, UnitsStep
<1>3. S \in Good
  <2> HIDE DEF Good
  <2>1. QED
    BY <1>1, <1>2, FiniteInduction
<1>4. QED
  BY <1>3

LEMMA BalanceStep ==
  ASSUME NEW D, NEW f \in [D -> Int], NEW S \in SUBSET D, IsFiniteSet(S), NEW x \in S
  PROVE  Balance(f, S) = f[x] + Balance(f, S \ {x})
<1>1. Minus(f) \in [D -> Int] /\ Minus(f)[x] = -f[x] /\ f[x] \in Int
  BY DEF Minus
<1>2. IsFiniteSet(S \ {x}) /\ S \ {x} \in SUBSET D
  BY FS_RemoveElement
<1>3. /\ IsFiniteSet(Units(f, S \ {x})) /\ IsFiniteSet(Units(Minus(f), S \ {x}))
  BY <1>1, <1>2, UnitsFinite
<1>4. Cardinality(Units(f, S)) = Cardinality(Units(f, S \ {x})) + Positive(f[x])
  BY <1>3, UnitsStep
<1>5. Cardinality(Units(Minus(f), S)) = Cardinality(Units(Minus(f), S \ {x})) + Positive(-f[x])
  BY <1>1, <1>3, UnitsStep
<1>6. /\ Cardinality(Units(f, S \ {x})) \in Nat
      /\ Cardinality(Units(Minus(f), S \ {x})) \in Nat
  BY <1>3, FS_CardinalityType
<1>7. QED
  BY <1>1, <1>4, <1>5, <1>6 DEF Balance, Positive

LEMMA BalanceTyped ==
  ASSUME NEW D, NEW f \in [D -> Int], NEW S \in SUBSET D, IsFiniteSet(S)
  PROVE  Balance(f, S) \in Int
<1>1. Minus(f) \in [D -> Int]
  BY DEF Minus
<1>2. IsFiniteSet(Units(f, S)) /\ IsFiniteSet(Units(Minus(f), S))
  BY <1>1, UnitsFinite
<1>3. QED
  BY <1>2, FS_CardinalityType DEF Balance

LEMMA BalanceOfNone == ASSUME NEW f PROVE Balance(f, {}) = 0
  BY FS_EmptySet DEF Balance, Units

-----------------------------------------------------------------------------
(* The fold of the community modules is that number.                       *)

Pick(T) == CHOOSE x \in T : TRUE

Folded(f, S, g) ==
  g = [T \in SUBSET S |-> IF T = {} THEN 0 ELSE f[Pick(T)] + g[T \ {Pick(T)}]]

\* A function with integer values where they count.
Terms(f, S) == [x \in S |-> f[x]]

LEMMA FoldIsBalance ==
  ASSUME NEW f, NEW S, IsFiniteSet(S), \A x \in S : f[x] \in Int
  PROVE  (CHOOSE g : Folded(f, S, g))[S] = Balance(Terms(f, S), S)
<1> DEFINE g == CHOOSE h : Folded(f, S, h)
           b == [T \in SUBSET S |-> Balance(Terms(f, S), T)]
<1>1. ASSUME NEW T \in SUBSET S, T # {}
      PROVE  Pick(T) \in T /\ b[T] = f[Pick(T)] + b[T \ {Pick(T)}]
  <2>1. Pick(T) \in T
    BY <1>1 DEF Pick
  <2>2. Terms(f, S) \in [S -> Int] /\ Terms(f, S)[Pick(T)] = f[Pick(T)]
    BY <2>1 DEF Terms
  <2>3. IsFiniteSet(T) /\ T \ {Pick(T)} \in SUBSET S
    BY FS_Subset
  <2>4. QED
    BY <2>1, <2>2, <2>3, BalanceStep
<1>2. Folded(f, S, b)
  BY <1>1, BalanceOfNone DEF Folded
<1>3. Folded(f, S, g)
  BY <1>2
<1> HIDE DEF g, b
<1> DEFINE Good == {T \in SUBSET S : g[T] = b[T]}
<1>4. {} \in Good
  BY <1>2, <1>3 DEF Folded
<1>5. ASSUME NEW T \in SUBSET S, T # {}, \A x \in T : T \ {x} \in Good
      PROVE  T \in Good
  <2>1. Pick(T) \in T /\ b[T] = f[Pick(T)] + b[T \ {Pick(T)}] /\ T \ {Pick(T)} \in SUBSET S
    BY <1>1, <1>5
  <2>2. g[T] = f[Pick(T)] + g[T \ {Pick(T)}]
    BY <1>3, <1>5 DEF Folded
  <2>3. QED
    BY <1>5, <2>1, <2>2
<1>6. S \in Good
  <2> HIDE DEF Good
  <2>1. QED
    BY <1>4, <1>5, FiniteInduction
<1>7. QED
  BY <1>6 DEF g, b

LEMMA SumIsBalance ==
  ASSUME NEW f, NEW S, IsFiniteSet(S), \A x \in S : f[x] \in Int
  PROVE  SumFunctionOnSet(f, S) = Balance(Terms(f, S), S)
<1>1. SumFunctionOnSet(f, S) = (CHOOSE g : Folded(f, S, g))[S]
  BY DEF SumFunctionOnSet, FoldFunctionOnSet, MapThenFoldSet, Folded, Pick
<1>2. QED
  BY <1>1, FoldIsBalance

-----------------------------------------------------------------------------
(* The laws of sums that the proofs about the components cite.             *)

\* A sum of integers is an integer.
LEMMA SumTyped ==
  ASSUME NEW f, NEW S, IsFiniteSet(S), \A x \in S : f[x] \in Int
  PROVE  SumFunctionOnSet(f, S) \in Int
<1>1. Terms(f, S) \in [S -> Int]
  BY DEF Terms
<1>2. QED
  BY <1>1, SumIsBalance, BalanceTyped

\* Without terms it is 0.
LEMMA SumOfNone == ASSUME NEW f PROVE SumFunctionOnSet(f, {}) = 0
BY SumIsBalance, BalanceOfNone, FS_EmptySet

\* Any term can be taken out of a sum.
LEMMA SumTakesOut ==
  ASSUME NEW f, NEW S, IsFiniteSet(S), \A y \in S : f[y] \in Int, NEW x \in S
  PROVE  /\ SumFunctionOnSet(f, S) = f[x] + SumFunctionOnSet(f, S \ {x})
         /\ SumFunctionOnSet(f, S \ {x}) \in Int
<1> DEFINE R == S \ {x}
<1>1. IsFiniteSet(R)
  BY FS_RemoveElement
<1>2. Terms(f, S) \in [S -> Int] /\ Terms(f, S)[x] = f[x]
  BY DEF Terms
<1>3. Units(Terms(f, S), R) = Units(Terms(f, R), R)
  BY DEF Units, Terms
<1>4. Units(Minus(Terms(f, S)), R) = Units(Minus(Terms(f, R)), R)
  BY DEF Units, Terms, Minus
<1>5. Balance(Terms(f, S), R) = Balance(Terms(f, R), R)
  BY <1>3, <1>4 DEF Balance
<1>6. SumFunctionOnSet(f, R) = Balance(Terms(f, R), R)
  BY <1>1, SumIsBalance
<1>7. Balance(Terms(f, S), S) = f[x] + Balance(Terms(f, S), R)
  BY <1>2, BalanceStep
<1>8. QED
  BY <1>1, <1>5, <1>6, <1>7, SumIsBalance, SumTyped

\* A sum depends on its own terms alone.
LEMMA SumSame ==
  ASSUME NEW f, NEW g, NEW S, IsFiniteSet(S), \A x \in S : f[x] \in Int /\ g[x] = f[x]
  PROVE  SumFunctionOnSet(g, S) = SumFunctionOnSet(f, S)
<1>1. Terms(f, S) = Terms(g, S)
  BY DEF Terms
<1>2. QED
  BY <1>1, SumIsBalance

\* One term changes.
LEMMA SumChanges ==
  ASSUME NEW f, NEW g, NEW S, IsFiniteSet(S), NEW x \in S,
         \A y \in S : f[y] \in Int /\ g[y] \in Int,
         \A y \in S \ {x} : g[y] = f[y]
  PROVE  /\ SumFunctionOnSet(g, S) = SumFunctionOnSet(f, S) + g[x] - f[x]
         /\ SumFunctionOnSet(f, S) \in Int
<1>1. IsFiniteSet(S \ {x})
  BY FS_RemoveElement
<1>2. SumFunctionOnSet(g, S \ {x}) = SumFunctionOnSet(f, S \ {x})
  BY <1>1, SumSame
<1>3. /\ SumFunctionOnSet(f, S) = f[x] + SumFunctionOnSet(f, S \ {x})
      /\ SumFunctionOnSet(f, S \ {x}) \in Int
  BY SumTakesOut
<1>4. SumFunctionOnSet(g, S) = g[x] + SumFunctionOnSet(g, S \ {x})
  BY SumTakesOut
<1>5. QED
  BY <1>2, <1>3, <1>4

\* Two sums over the same set are added term by term.
LEMMA SumAdds ==
  ASSUME NEW f, NEW g, NEW h, NEW S, IsFiniteSet(S),
         \A x \in S : f[x] \in Int /\ g[x] \in Int /\ h[x] = f[x] + g[x]
  PROVE  SumFunctionOnSet(h, S) = SumFunctionOnSet(f, S) + SumFunctionOnSet(g, S)
<1> DEFINE F(T) == SumFunctionOnSet(f, T)
           G(T) == SumFunctionOnSet(g, T)
           H(T) == SumFunctionOnSet(h, T)
           Good == {T \in SUBSET S : H(T) = F(T) + G(T)}
<1>1. {} \in Good
  BY SumOfNone
<1>2. ASSUME NEW T \in SUBSET S, T # {}, \A x \in T : T \ {x} \in Good
      PROVE  T \in Good
  <2>1. PICK x \in T : H(T \ {x}) = F(T \ {x}) + G(T \ {x})
    BY <1>2
  <2>2. IsFiniteSet(T)
    BY FS_Subset
  <2>3. F(T) = f[x] + F(T \ {x}) /\ F(T \ {x}) \in Int
    BY <2>2, SumTakesOut
  <2>4. G(T) = g[x] + G(T \ {x}) /\ G(T \ {x}) \in Int
    BY <2>2, SumTakesOut
  <2>5. H(T) = h[x] + H(T \ {x})
    BY <2>2, SumTakesOut
  <2>6. h[x] = f[x] + g[x] /\ f[x] \in Int /\ g[x] \in Int
    OBVIOUS
  <2> HIDE DEF F, G, H
  <2>7. H(T) = F(T) + G(T)
    BY <2>1, <2>3, <2>4, <2>5, <2>6
  <2>8. QED
    BY <2>7 DEF F, G, H
<1>3. S \in Good
  <2> HIDE DEF Good
  <2>1. QED
    BY <1>1, <1>2, FiniteInduction
<1>4. QED
  BY <1>3

\* Larger terms have the larger sum.
LEMMA SumMonotone ==
  ASSUME NEW f, NEW g, NEW S, IsFiniteSet(S),
         \A x \in S : f[x] \in Int /\ g[x] \in Int /\ f[x] <= g[x]
  PROVE  SumFunctionOnSet(f, S) <= SumFunctionOnSet(g, S)
<1> DEFINE F(T) == SumFunctionOnSet(f, T)
           G(T) == SumFunctionOnSet(g, T)
           Good == {T \in SUBSET S : F(T) <= G(T)}
<1>1. {} \in Good
  BY SumOfNone
<1>2. ASSUME NEW T \in SUBSET S, T # {}, \A x \in T : T \ {x} \in Good
      PROVE  T \in Good
  <2>1. PICK x \in T : F(T \ {x}) <= G(T \ {x})
    BY <1>2
  <2>2. IsFiniteSet(T)
    BY FS_Subset
  <2>3. F(T) = f[x] + F(T \ {x}) /\ F(T \ {x}) \in Int
    BY <2>2, SumTakesOut
  <2>4. G(T) = g[x] + G(T \ {x}) /\ G(T \ {x}) \in Int
    BY <2>2, SumTakesOut
  <2>5. f[x] \in Int /\ g[x] \in Int /\ f[x] <= g[x]
    OBVIOUS
  <2> HIDE DEF F, G
  <2>6. F(T) <= G(T)
    BY <2>1, <2>3, <2>4, <2>5
  <2>7. QED
    BY <2>6 DEF F, G
<1>3. S \in Good
  <2> HIDE DEF Good
  <2>1. QED
    BY <1>1, <1>2, FiniteInduction
<1>4. QED
  BY <1>3
\* What is outside a part may as well be counted as 0.
LEMMA SumOverPart ==
  ASSUME NEW f, NEW S, IsFiniteSet(S), NEW T \in SUBSET S, \A x \in T : f[x] \in Int
  PROVE  SumFunctionOnSet(f, T) =
           SumFunctionOnSet([x \in S |-> IF x \in T THEN f[x] ELSE 0], S)
<1> DEFINE g == [x \in S |-> IF x \in T THEN f[x] ELSE 0]
           F(U) == SumFunctionOnSet(f, T \cap U)
           G(U) == SumFunctionOnSet(g, U)
           Good == {U \in SUBSET S : F(U) = G(U)}
<1>1. {} \in Good
  BY SumOfNone
<1>2. ASSUME NEW U \in SUBSET S, U # {}, \A x \in U : U \ {x} \in Good
      PROVE  U \in Good
  <2>1. PICK x \in U : F(U \ {x}) = G(U \ {x})
    BY <1>2
  <2>2. IsFiniteSet(U) /\ IsFiniteSet(T \cap U)
    BY FS_Subset
  <2>3. G(U) = g[x] + G(U \ {x}) /\ G(U \ {x}) \in Int
    <3>1. \A y \in U : g[y] \in Int
      OBVIOUS
    <3> HIDE DEF g
    <3>2. QED
      BY <2>2, <3>1, SumTakesOut
  <2>4. CASE x \in T
    <3>1. (T \cap U) \ {x} = T \cap (U \ {x}) /\ g[x] = f[x]
      BY <2>4
    <3>2. F(U) = f[x] + F(U \ {x})
      <4>1. SumFunctionOnSet(f, T \cap U) = f[x] + SumFunctionOnSet(f, (T \cap U) \ {x})
        BY <2>2, <2>4, SumTakesOut
      <4>2. QED
        BY <3>1, <4>1
    <3>3. QED
      BY <2>1, <2>3, <3>1, <3>2
  <2>5. CASE x \notin T
    <3>1. T \cap U = T \cap (U \ {x}) /\ g[x] = 0
      BY <2>5
    <3>2. F(U) = F(U \ {x})
      BY <3>1
    <3> HIDE DEF F, G, g
    <3>3. F(U) = G(U)
      BY <2>1, <2>3, <3>1, <3>2
    <3>4. QED
      BY <3>3 DEF F, G, g
  <2>6. QED
    BY <2>4, <2>5
<1>3. S \in Good
  <2> HIDE DEF Good
  <2>1. QED
    BY <1>1, <1>2, FiniteInduction
<1>4. S = S \cap S /\ T \cap S = T
  OBVIOUS
<1>5. QED
  BY <1>3, <1>4
\* Without any term that counts it is 0 too.
LEMMA SumOfZeros ==
  ASSUME NEW f, NEW S, IsFiniteSet(S), \A x \in S : f[x] = 0
  PROVE  SumFunctionOnSet(f, S) = 0
<1> DEFINE g == [x \in S |-> IF x \in {} THEN f[x] ELSE 0]
<1>1. SumFunctionOnSet(f, {}) = SumFunctionOnSet(g, S)
  BY SumOverPart
<1>2. SumFunctionOnSet(f, S) = SumFunctionOnSet(g, S)
  <2>1. \A x \in S : g[x] \in Int /\ f[x] = g[x]
    OBVIOUS
  <2> HIDE DEF g
  <2>2. QED
    BY <2>1, SumSame
<1>3. QED
  BY <1>1, <1>2, SumOfNone
=============================================================================
