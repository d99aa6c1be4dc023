----------------------------- MODULE SumTheorems -----------------------------
(***************************************************************************)
(* Facts about sums over finite sets, SumFunctionOnSet of the community     *)
(* modules.  The operator is a fold, that is a recursive function over the  *)
(* subsets of its argument; what is proved about it here for every finite   *)
(* set rests on induction over subsets in the form of a set of subsets      *)
(* (SubsetInduction), which needs no operator as a parameter.               *)
(***************************************************************************)
EXTENDS Integers, FiniteSets, Functions, FiniteSetTheorems, TLAPS

\* A set of subsets of a finite set has a minimal member.
LEMMA SmallestSubset ==
    ASSUME NEW S, IsFiniteSet(S), NEW Bad \in SUBSET SUBSET S, Bad # {}
    PROVE  \E T \in Bad : \A U \in Bad : U \subseteq T => U = T
<1> DEFINE R == StrictSubsetOrdering(S)
<1>1. IsWellFoundedOn(R, SUBSET S)
    BY FS_StrictSubsetOrderingWellFounded, FS_FiniteSubsetsOfFinite
<1>2. PICK T \in Bad : \A U \in Bad : ~(<<U, T>> \in R)
    <2> HIDE DEF R
    <2> QED
        BY <1>1, WFMin
<1> QED
    BY <1>2 DEF StrictSubsetOrdering

\* Induction over the subsets of a finite set, one element more at a time.
LEMMA SubsetInduction ==
    ASSUME NEW S, IsFiniteSet(S), NEW G,
           {} \in G,
           \A T \in SUBSET S : \A x \in T : T \ {x} \in G => T \in G
    PROVE  S \in G
<1> DEFINE Bad == {T \in SUBSET S : T \notin G}
<1>1. SUFFICES ASSUME S \notin G PROVE FALSE
    OBVIOUS
<1>2. PICK T \in Bad : \A U \in Bad : U \subseteq T => U = T
    <2>1. S \in Bad
        BY <1>1
    <2> HIDE DEF Bad
    <2>2. Bad \in SUBSET SUBSET S
        BY DEF Bad
    <2> QED
        BY <2>1, <2>2, SmallestSubset
<1>3. PICK x \in T : TRUE
    BY <1>2
<1>4. T \ {x} \in Bad
    BY <1>2, <1>3
<1> QED
    BY <1>2, <1>3, <1>4

-----------------------------------------------------------------------------
\* The fold behind a sum takes the elements in this order.
First(s) == CHOOSE x \in s : TRUE

\* g adds f up, over every set in D.
AddsUp(f, D, g) == g = [s \in D |-> IF s = {} THEN 0 ELSE f[First(s)] + g[s \ {First(s)}]]

LEMMA FirstIsIn == \A s : s # {} => First(s) \in s
BY DEF First

LEMMA SumIsFold ==
    ASSUME NEW f, NEW S
    PROVE  SumFunctionOnSet(f, S) = (CHOOSE g : AddsUp(f, SUBSET S, g))[S]
BY DEF SumFunctionOnSet, FoldFunctionOnSet, MapThenFoldSet, AddsUp, First

\* The sets of at most n elements can be added up if those of fewer can.
LEMMA FoldExists ==
    ASSUME NEW f, NEW S, IsFiniteSet(S)
    PROVE  \E g : AddsUp(f, SUBSET S, g)
<1> DEFINE Upto(T) == {U \in SUBSET S : Cardinality(U) <= Cardinality(T)}
           G == {T \in SUBSET S : \E g : AddsUp(f, Upto(T), g)}
<1>0. \A U \in SUBSET S : IsFiniteSet(U) /\ Cardinality(U) \in Nat /\ Cardinality(U) <= Cardinality(S)
    BY FS_Subset, FS_CardinalityType
<1>1. {} \in G
    <2>1. Upto({}) = {{}}
        BY <1>0, FS_EmptySet
    <2>2. AddsUp(f, Upto({}), [s \in Upto({}) |-> 0])
        BY <2>1 DEF AddsUp
    <2> QED
        BY <2>2
<1>2. ASSUME NEW T \in SUBSET S, NEW x \in T, T \ {x} \in G PROVE T \in G
    <2>1. PICK g : AddsUp(f, Upto(T \ {x}), g)
        BY <1>2
    <2> DEFINE h == [s \in Upto(T) |-> IF s = {} THEN 0 ELSE f[First(s)] + g[s \ {First(s)}]]
    <2>2. Cardinality(T \ {x}) = Cardinality(T) - 1
        BY <1>0, FS_RemoveElement
    <2>3. ASSUME NEW s \in Upto(T), s # {} PROVE s \ {First(s)} \in Upto(T \ {x})
        <3>1. First(s) \in s /\ IsFiniteSet(s) /\ Cardinality(s) \in Nat
            BY <1>0, <2>3, FirstIsIn
        <3>2. Cardinality(s \ {First(s)}) = Cardinality(s) - 1
            BY <3>1, FS_RemoveElement
        <3> QED
            BY <1>0, <2>2, <3>1, <3>2
    <2>4. \A s \in Upto(T \ {x}) : s \in Upto(T) /\ h[s] = g[s]
        <3> SUFFICES ASSUME NEW s \in Upto(T \ {x}) PROVE s \in Upto(T) /\ h[s] = g[s]
            OBVIOUS
        <3>1. s \in Upto(T)
            BY <1>0, <2>2
        <3>2. g[s] = IF s = {} THEN 0 ELSE f[First(s)] + g[s \ {First(s)}]
            BY <2>1 DEF AddsUp
        <3> QED
            BY <3>1, <3>2
    <2>5. h = [s \in Upto(T) |-> IF s = {} THEN 0 ELSE f[First(s)] + h[s \ {First(s)}]]
        BY <2>3, <2>4
    <2>6. AddsUp(f, Upto(T), h)
        BY <2>5 DEF AddsUp
    <2> QED
        BY <2>6
<1>3. S \in G
    <2> HIDE DEF G
    <2> QED
        BY <1>1, <1>2, SubsetInduction
<1>4. Upto(S) = SUBSET S
    BY <1>0
<1> QED
    BY <1>3, <1>4

LEMMA FoldIsUnique ==
    ASSUME NEW f, NEW S, IsFiniteSet(S), NEW g, NEW h, AddsUp(f, SUBSET S, g), AddsUp(f, SUBSET S, h)
    PROVE  \A T \in SUBSET S : g[T] = h[T]
<1> SUFFICES ASSUME NEW T \in SUBSET S PROVE g[T] = h[T]
    OBVIOUS
<1> DEFINE Bad == {U \in SUBSET S : g[U] # h[U]}
<1>2. SUFFICES ASSUME T \in Bad PROVE FALSE
    OBVIOUS
<1>3. PICK U \in Bad : \A V \in Bad : V \subseteq U => V = U
    <2>1. Bad \in SUBSET SUBSET S
        OBVIOUS
    <2> HIDE DEF Bad
    <2> QED
        BY <1>2, <2>1, SmallestSubset
<1>4. /\ g[U] = IF U = {} THEN 0 ELSE f[First(U)] + g[U \ {First(U)}]
      /\ h[U] = IF U = {} THEN 0 ELSE f[First(U)] + h[U \ {First(U)}]
    BY <1>3 DEF AddsUp
<1>5. U # {} /\ First(U) \in U
    BY <1>3, <1>4, FirstIsIn
<1>6. U \ {First(U)} \in Bad
    BY <1>3, <1>4, <1>5
<1> QED
    BY <1>3, <1>5, <1>6

\* A sum over a subset is read off the fold of the whole set.
LEMMA SumOfSubset ==
    ASSUME NEW f, NEW S, IsFiniteSet(S), NEW g, AddsUp(f, SUBSET S, g), NEW T \in SUBSET S
    PROVE  SumFunctionOnSet(f, T) = g[T]
<1> DEFINE h == CHOOSE k : AddsUp(f, SUBSET T, k)
           r == [s \in SUBSET T |-> g[s]]
<1>1. IsFiniteSet(T)
    BY FS_Subset
<1>2. AddsUp(f, SUBSET T, h)
    BY <1>1, FoldExists
<1>3. AddsUp(f, SUBSET T, r)
    <2>1. \A s \in SUBSET T : g[s] = IF s = {} THEN 0 ELSE f[First(s)] + g[s \ {First(s)}]
        BY DEF AddsUp
    <2>2. r = [s \in SUBSET T |-> IF s = {} THEN 0 ELSE f[First(s)] + r[s \ {First(s)}]]
        BY <2>1
    <2> QED
        BY <2>2 DEF AddsUp
<1>4. h[T] = r[T]
    <2> HIDE DEF h, r
    <2> QED
        BY <1>1, <1>2, <1>3, FoldIsUnique
<1> QED
    BY <1>4, SumIsFold

-----------------------------------------------------------------------------
\* The sum over no elements.
LEMMA SumEmpty == ASSUME NEW f PROVE SumFunctionOnSet(f, {}) = 0
<1>1. PICK g : AddsUp(f, SUBSET {}, g)
    BY FoldExists, FS_EmptySet
<1>2. SumFunctionOnSet(f, {}) = g[{}]
    BY <1>1, SumOfSubset, FS_EmptySet
<1> QED
    BY <1>1, <1>2 DEF AddsUp

LEMMA SumFirst ==
    ASSUME NEW f, NEW S, IsFiniteSet(S), S # {}
    PROVE  SumFunctionOnSet(f, S) = f[First(S)] + SumFunctionOnSet(f, S \ {First(S)})
<1>1. PICK g : AddsUp(f, SUBSET S, g)
    BY FoldExists
<1>2. SumFunctionOnSet(f, S) = g[S]
    BY <1>1, SumOfSubset
<1>3. SumFunctionOnSet(f, S \ {First(S)}) = g[S \ {First(S)}]
    BY <1>1, SumOfSubset
<1> QED
    BY <1>1, <1>2, <1>3 DEF AddsUp

-----------------------------------------------------------------------------
\* The sum of integers is an integer.
LEMMA SumInt ==
    ASSUME NEW S, IsFiniteSet(S), NEW f, \A x \in S : f[x] \in Int
    PROVE  SumFunctionOnSet(f, S) \in Int
<1> DEFINE G == {T \in SUBSET S : SumFunctionOnSet(f, T) \in Int}
           Bad == {T \in SUBSET S : T \notin G}
<1>1. SUFFICES ASSUME S \in Bad PROVE FALSE
    BY SMT
<1>2. PICK T \in Bad : \A U \in Bad : U \subseteq T => U = T
    <2>1. Bad \in SUBSET SUBSET S
        OBVIOUS
    <2> HIDE DEF Bad
    <2> QED
        BY <1>1, <2>1, SmallestSubset
<1>3. T # {} /\ First(T) \in T /\ IsFiniteSet(T)
    <2>1. SumFunctionOnSet(f, {}) \in Int
        BY SumEmpty
    <2>2. T # {} /\ T \in SUBSET S
        BY <1>2, <2>1
    <2> QED
        BY <2>2, FirstIsIn, FS_Subset
<1>4. SumFunctionOnSet(f, T \ {First(T)}) \in Int
    BY <1>2, <1>3
<1>5. SumFunctionOnSet(f, T) = f[First(T)] + SumFunctionOnSet(f, T \ {First(T)})
    BY <1>3, SumFirst
<1> QED
    BY <1>2, <1>3, <1>4, <1>5

\* Any element may be taken out first.
LEMMA SumSplit ==
    ASSUME NEW S, IsFiniteSet(S), NEW f, \A x \in S : f[x] \in Int, NEW x \in S
    PROVE  SumFunctionOnSet(f, S) = f[x] + SumFunctionOnSet(f, S \ {x})
<1> DEFINE Fits(T) == \A y \in T : SumFunctionOnSet(f, T) = f[y] + SumFunctionOnSet(f, T \ {y})
           Bad == {T \in SUBSET S : ~Fits(T)}
<1>1. SUFFICES ASSUME S \in Bad PROVE FALSE
    OBVIOUS
<1>2. PICK T \in Bad : \A U \in Bad : U \subseteq T => U = T
    <2>1. Bad \in SUBSET SUBSET S
        OBVIOUS
    <2> HIDE DEF Bad
    <2> QED
        BY <1>1, <2>1, SmallestSubset
<1>3. PICK y \in T : SumFunctionOnSet(f, T) # f[y] + SumFunctionOnSet(f, T \ {y})
    BY <1>2
<1> DEFINE z == First(T)
<1>4. z \in T /\ IsFiniteSet(T) /\ T \subseteq S
    BY <1>2, <1>3, FirstIsIn, FS_Subset
<1>5. SumFunctionOnSet(f, T) = f[z] + SumFunctionOnSet(f, T \ {z})
    BY <1>4, SumFirst
<1>6. y # z
    BY <1>3, <1>5
<1> HIDE DEF z
<1>7. Fits(T \ {z}) /\ Fits(T \ {y})
    BY <1>2, <1>3, <1>4
<1>8. (T \ {z}) \ {y} = (T \ {y}) \ {z}
    OBVIOUS
<1> DEFINE rest == SumFunctionOnSet(f, (T \ {y}) \ {z})
<1>9. SumFunctionOnSet(f, T \ {z}) = f[y] + rest
    BY <1>3, <1>4, <1>6, <1>7, <1>8
<1>10. SumFunctionOnSet(f, T \ {y}) = f[z] + rest
    BY <1>3, <1>4, <1>6, <1>7
<1>11. rest \in Int
    <2>1. IsFiniteSet((T \ {y}) \ {z})
        BY <1>4, FS_Subset
    <2> QED
        BY <1>4, <2>1, SumInt
<1>12. f[y] \in Int /\ f[z] \in Int
    BY <1>3, <1>4
<1> HIDE DEF rest
<1> QED
    BY <1>3, <1>5, <1>9, <1>10, <1>11, <1>12

LEMMA SumAdd ==
    ASSUME NEW S, IsFiniteSet(S), NEW x, x \notin S, NEW f, \A y \in S \cup {x} : f[y] \in Int
    PROVE  SumFunctionOnSet(f, S \cup {x}) = f[x] + SumFunctionOnSet(f, S)
<1>1. (S \cup {x}) \ {x} = S /\ IsFiniteSet(S \cup {x})
    BY FS_AddElement
<1> QED
    BY <1>1, SumSplit

-----------------------------------------------------------------------------
\* If p times each term of f is at most q times that of g, so it is of their sums.
LEMMA SumScaledBound ==
    ASSUME NEW S, IsFiniteSet(S), NEW f, NEW g, NEW p \in Int, NEW q \in Int,
           \A x \in S : f[x] \in Int /\ g[x] \in Int /\ p * f[x] <= q * g[x]
    PROVE  p * SumFunctionOnSet(f, S) <= q * SumFunctionOnSet(g, S)
<1> DEFINE Holds(T) == p * SumFunctionOnSet(f, T) <= q * SumFunctionOnSet(g, T)
           G == {T \in SUBSET S : Holds(T)}
<1>1. {} \in G
    BY SumEmpty
<1>2. ASSUME NEW T \in SUBSET S, NEW x \in T, T \ {x} \in G PROVE T \in G
    <2>1. IsFiniteSet(T) /\ IsFiniteSet(T \ {x})
        BY FS_Subset
    <2>2. /\ SumFunctionOnSet(f, T) = f[x] + SumFunctionOnSet(f, T \ {x})
          /\ SumFunctionOnSet(g, T) = g[x] + SumFunctionOnSet(g, T \ {x})
        BY <2>1, SumSplit
    <2>3. /\ SumFunctionOnSet(f, T \ {x}) \in Int /\ SumFunctionOnSet(g, T \ {x}) \in Int
        BY <2>1, SumInt
    <2>4. p * SumFunctionOnSet(f, T \ {x}) <= q * SumFunctionOnSet(g, T \ {x})
        BY <1>2
    <2>5. p * f[x] <= q * g[x] /\ f[x] \in Int /\ g[x] \in Int
        OBVIOUS
    <2>6. ASSUME NEW a \in Int, NEW b \in Int, NEW c \in Int, NEW d \in Int, p * a <= q * b, p * c <= q * d
          PROVE  p * (a + c) <= q * (b + d)
        <3>1. p * (a + c) = p * a + p * c /\ q * (b + d) = q * b + q * d
            OBVIOUS
        <3> QED
            BY <2>6, <3>1
    <2> QED
        BY <2>2, <2>3, <2>4, <2>5, <2>6
<1> HIDE DEF G
<1>3. S \in G
    BY <1>1, <1>2, SubsetInduction
<1> QED
    BY <1>3 DEF G

\* A sum grows with its terms.
LEMMA SumMonotonic ==
    ASSUME NEW S, IsFiniteSet(S), NEW f, NEW g,
           \A x \in S : f[x] \in Int /\ g[x] \in Int /\ f[x] <= g[x]
    PROVE  SumFunctionOnSet(f, S) <= SumFunctionOnSet(g, S)
<1>1. 1 * SumFunctionOnSet(f, S) <= 1 * SumFunctionOnSet(g, S)
    BY SumScaledBound
<1>2. SumFunctionOnSet(f, S) \in Int /\ SumFunctionOnSet(g, S) \in Int
    BY SumInt
<1> QED
    BY <1>1, <1>2

\* A sum depends on its terms only.
LEMMA SumEqual ==
    ASSUME NEW S, IsFiniteSet(S), NEW f, NEW g, \A x \in S : f[x] \in Int /\ f[x] = g[x]
    PROVE  SumFunctionOnSet(f, S) = SumFunctionOnSet(g, S)
<1>1. /\ SumFunctionOnSet(f, S) <= SumFunctionOnSet(g, S)
      /\ SumFunctionOnSet(g, S) <= SumFunctionOnSet(f, S)
    BY SumMonotonic
<1>2. SumFunctionOnSet(f, S) \in Int /\ SumFunctionOnSet(g, S) \in Int
    BY SumInt
<1> QED
    BY <1>1, <1>2

LEMMA SumZero ==
    ASSUME NEW S, IsFiniteSet(S), NEW f, \A x \in S : f[x] = 0
    PROVE  SumFunctionOnSet(f, S) = 0
<1>1. 0 * SumFunctionOnSet(f, S) <= 1 * SumFunctionOnSet(f, S) /\ 1 * SumFunctionOnSet(f, S) <= 0 * SumFunctionOnSet(f, S)
    BY SumScaledBound
<1>2. SumFunctionOnSet(f, S) \in Int
    BY SumInt
<1> QED
    BY <1>1, <1>2

LEMMA SumNat ==
    ASSUME NEW S, IsFiniteSet(S), NEW f, \A x \in S : f[x] \in Nat
    PROVE  SumFunctionOnSet(f, S) \in Nat
<1>1. 0 * SumFunctionOnSet(f, S) <= 1 * SumFunctionOnSet(f, S)
    BY SumScaledBound
<1>2. SumFunctionOnSet(f, S) \in Int
    BY SumInt
<1> QED
    BY <1>1, <1>2

\* Changing one term changes the sum by as much.
LEMMA SumUpdate ==
    ASSUME NEW S, IsFiniteSet(S), NEW f, NEW g, NEW x \in S,
           \A y \in S : f[y] \in Int /\ g[y] \in Int /\ (y # x => g[y] = f[y])
    PROVE  SumFunctionOnSet(g, S) = SumFunctionOnSet(f, S) + (g[x] - f[x])
<1>1. IsFiniteSet(S \ {x})
    BY FS_Subset
<1>2. SumFunctionOnSet(f, S \ {x}) = SumFunctionOnSet(g, S \ {x}) /\ SumFunctionOnSet(g, S \ {x}) \in Int
    BY <1>1, SumEqual, SumInt
<1>3. /\ SumFunctionOnSet(f, S) = f[x] + SumFunctionOnSet(f, S \ {x})
      /\ SumFunctionOnSet(g, S) = g[x] + SumFunctionOnSet(g, S \ {x})
    BY SumSplit
<1> QED
    BY <1>2, <1>3

\* The sum of sums, term by term.
LEMMA SumPointwise ==
    ASSUME NEW S, IsFiniteSet(S), NEW f, NEW g, NEW h,
           \A x \in S : f[x] \in Int /\ g[x] \in Int /\ h[x] = f[x] + g[x]
    PROVE  SumFunctionOnSet(h, S) = SumFunctionOnSet(f, S) + SumFunctionOnSet(g, S)
<1> DEFINE Holds(T) == SumFunctionOnSet(h, T) = SumFunctionOnSet(f, T) + SumFunctionOnSet(g, T)
           G == {T \in SUBSET S : Holds(T)}
<1>1. {} \in G
    BY SumEmpty
<1>2. ASSUME NEW T \in SUBSET S, NEW x \in T, T \ {x} \in G PROVE T \in G
    <2>1. IsFiniteSet(T) /\ IsFiniteSet(T \ {x})
        BY FS_Subset
    <2>2. /\ SumFunctionOnSet(f, T) = f[x] + SumFunctionOnSet(f, T \ {x})
          /\ SumFunctionOnSet(g, T) = g[x] + SumFunctionOnSet(g, T \ {x})
          /\ SumFunctionOnSet(h, T) = h[x] + SumFunctionOnSet(h, T \ {x})
        BY <2>1, SumSplit
    <2>3. /\ SumFunctionOnSet(f, T \ {x}) \in Int /\ SumFunctionOnSet(g, T \ {x}) \in Int
        BY <2>1, SumInt
    <2> QED
        BY <1>2, <2>2, <2>3
<1> HIDE DEF G
<1>3. S \in G
    BY <1>1, <1>2, SubsetInduction
<1> QED
    BY <1>3 DEF G

\* Terms that are zero may be left out.
LEMMA SumOfSupport ==
    ASSUME NEW S, IsFiniteSet(S), NEW T \in SUBSET S, NEW f,
           \A x \in S : f[x] \in Int /\ (x \notin T => f[x] = 0)
    PROVE  SumFunctionOnSet(f, S) = SumFunctionOnSet(f, T)
<1> DEFINE G == {U \in SUBSET S : SumFunctionOnSet(f, U) = SumFunctionOnSet(f, U \cap T)}
<1>1. {} \in G
    OBVIOUS
<1>2. ASSUME NEW U \in SUBSET S, NEW x \in U, U \ {x} \in G PROVE U \in G
    <2>1. IsFiniteSet(U) /\ IsFiniteSet(U \ {x}) /\ IsFiniteSet(U \cap T)
        BY FS_Subset
    <2>2. SumFunctionOnSet(f, U) = f[x] + SumFunctionOnSet(f, U \ {x})
        BY <2>1, SumSplit
    <2>3. SumFunctionOnSet(f, U \ {x}) = SumFunctionOnSet(f, (U \ {x}) \cap T)
        BY <1>2
    <2>4. CASE x \in T
        <3>1. (U \ {x}) \cap T = (U \cap T) \ {x} /\ x \in U \cap T
            BY <2>4
        <3>2. SumFunctionOnSet(f, U \cap T) = f[x] + SumFunctionOnSet(f, (U \cap T) \ {x})
            BY <2>1, <3>1, SumSplit
        <3> QED
            BY <2>2, <2>3, <3>1, <3>2
    <2>5. CASE x \notin T
        <3>1. (U \ {x}) \cap T = U \cap T
            BY <2>5
        <3>2. SumFunctionOnSet(f, U) = f[x] + SumFunctionOnSet(f, U \cap T)
            BY <2>2, <2>3, <3>1
        <3>3. SumFunctionOnSet(f, U \cap T) \in Int /\ f[x] = 0
            BY <2>1, <2>5, SumInt
        <3> QED
            BY <3>2, <3>3
    <2> QED
        BY <2>4, <2>5
<1> HIDE DEF G
<1>3. S \in G
    BY <1>1, <1>2, SubsetInduction
<1>4. S \cap T = T
    OBVIOUS
<1> QED
    BY <1>3, <1>4 DEF G

\* No term exceeds the sum of naturals.
LEMMA SumAtLeastTerm ==
    ASSUME NEW S, IsFiniteSet(S), NEW f, \A x \in S : f[x] \in Nat, NEW x \in S
    PROVE  f[x] <= SumFunctionOnSet(f, S)
<1>1. IsFiniteSet(S \ {x})
    BY FS_Subset
<1>2. SumFunctionOnSet(f, S \ {x}) \in Nat
    BY <1>1, SumNat
<1>3. SumFunctionOnSet(f, S) = f[x] + SumFunctionOnSet(f, S \ {x})
    BY SumSplit
<1> QED
    BY <1>2, <1>3

\* A sum of equal terms is the term times their number.
LEMMA SumConstant ==
    ASSUME NEW S, IsFiniteSet(S), NEW c \in Int, NEW f, \A x \in S : f[x] = c
    PROVE  SumFunctionOnSet(f, S) = c * Cardinality(S)
<1> DEFINE G == {T \in SUBSET S : SumFunctionOnSet(f, T) = c * Cardinality(T)}
<1>1. {} \in G
    BY SumEmpty, FS_EmptySet
<1>2. ASSUME NEW T \in SUBSET S, NEW x \in T, T \ {x} \in G PROVE T \in G
    <2>1. IsFiniteSet(T) /\ IsFiniteSet(T \ {x})
        BY FS_Subset
    <2>2. SumFunctionOnSet(f, T) = c + SumFunctionOnSet(f, T \ {x})
        BY <2>1, SumSplit
    <2>3. Cardinality(T \ {x}) = Cardinality(T) - 1 /\ Cardinality(T) \in Nat
        BY <2>1, FS_RemoveElement, FS_CardinalityType
    <2>4. c * Cardinality(T) = c + c * (Cardinality(T) - 1)
        BY <2>3
    <2> QED
        BY <1>2, <2>2, <2>3, <2>4
<1> HIDE DEF G
<1>3. S \in G
    BY <1>1, <1>2, SubsetInduction
<1> QED
    BY <1>3 DEF G

\* A common factor can be taken out of a sum.
LEMMA SumScaled ==
    ASSUME NEW S, IsFiniteSet(S), NEW p \in Int, NEW f, NEW g,
           \A x \in S : f[x] \in Int /\ g[x] \in Int /\ g[x] = p * f[x]
    PROVE  SumFunctionOnSet(g, S) = p * SumFunctionOnSet(f, S)
<1>1. /\ 1 * SumFunctionOnSet(g, S) <= p * SumFunctionOnSet(f, S)
      /\ p * SumFunctionOnSet(f, S) <= 1 * SumFunctionOnSet(g, S)
    BY SumScaledBound
<1>2. SumFunctionOnSet(f, S) \in Int /\ SumFunctionOnSet(g, S) \in Int
    BY SumInt
<1>3. p * SumFunctionOnSet(f, S) \in Int
    BY <1>2
<1> QED
    BY <1>1, <1>2, <1>3

\* The floors of shares of a sum never add up to more than the sum, and fall short of it by
\* less than one for each share that is not zero.
LEMMA FloorsOfShares ==
    ASSUME NEW S, IsFiniteSet(S), NEW stake, NEW share, NEW p \in Nat, p > 0, NEW l \in Nat,
           \A x \in S : stake[x] \in Nat /\ share[x] = (stake[x] * l) \div p,
           SumFunctionOnSet(stake, S) = p
    PROVE  /\ SumFunctionOnSet(share, S) \in 0..l
           /\ l - SumFunctionOnSet(share, S) < Cardinality(S)
<1>0. \A n \in Nat : n \div p \in Nat /\ p * (n \div p) <= n /\ n <= p * (n \div p) + (p - 1)
  OBVIOUS
<1>1. ASSUME NEW x \in S
      PROVE  share[x] \in Nat /\ p * share[x] <= l * stake[x] /\ l * stake[x] <= p * share[x] + (p - 1)
  <2>1. stake[x] * l \in Nat /\ stake[x] * l = l * stake[x]
    OBVIOUS
  <2> QED
    BY <1>0, <2>1
<1>2. p * SumFunctionOnSet(share, S) <= l * SumFunctionOnSet(stake, S)
  <2>1. \A x \in S : share[x] \in Int /\ stake[x] \in Int /\ p * share[x] <= l * stake[x]
    BY <1>1
  <2>2. p \in Int /\ l \in Int
    OBVIOUS
  <2> QED
    BY <2>1, <2>2, SumScaledBound, Zenon
<1>3. SumFunctionOnSet(share, S) \in Nat
  BY <1>1, SumNat
<1> DEFINE total == SumFunctionOnSet(share, S)
           scaled == [x \in S |-> p * share[x]]
           slack == [x \in S |-> p - 1]
           above == [x \in S |-> scaled[x] + slack[x]]
<1>4. /\ \A x \in S : scaled[x] = p * share[x] /\ slack[x] = p - 1 /\ above[x] = scaled[x] + slack[x]
      /\ \A x \in S : scaled[x] \in Int /\ slack[x] \in Int /\ above[x] \in Int
  BY <1>1
<1> HIDE DEF scaled, slack, above
<1>5. SumFunctionOnSet(scaled, S) = p * total
  BY <1>1, <1>4, SumScaled
<1>6. SumFunctionOnSet(slack, S) = (p - 1) * Cardinality(S)
  BY <1>4, SumConstant
<1>7. SumFunctionOnSet(above, S) = SumFunctionOnSet(scaled, S) + SumFunctionOnSet(slack, S)
  BY <1>4, SumPointwise
<1>8. l * SumFunctionOnSet(stake, S) <= 1 * SumFunctionOnSet(above, S)
  <2>1. \A x \in S : stake[x] \in Int /\ above[x] \in Int /\ l * stake[x] <= 1 * above[x]
    <3> SUFFICES ASSUME NEW x \in S
                 PROVE  stake[x] \in Int /\ above[x] \in Int /\ l * stake[x] <= 1 * above[x]
      OBVIOUS
    <3>1. above[x] = p * share[x] + (p - 1) /\ above[x] \in Int
      BY <1>4
    <3> QED
      BY <1>1, <3>1
  <2>2. 1 \in Int /\ l \in Int
    OBVIOUS
  <2> QED
    BY <2>1, <2>2, SumScaledBound, Zenon
<1>9. Cardinality(S) \in Nat /\ Cardinality(S) > 0
  <2>1. S # {}
    <3>1. SumFunctionOnSet(stake, {}) = 0
      BY SumEmpty
    <3> QED
      BY <3>1
  <2> QED
    BY <2>1, FS_CardinalityType, FS_EmptySet
<1> DEFINE n == Cardinality(S)
<1>10. p * total <= l * p /\ l * p <= p * total + (p - 1) * n
  <2>1. (p - 1) * n \in Int /\ p * total \in Int /\ l * p \in Int
    BY <1>3, <1>9
  <2> QED
    BY <1>2, <1>5, <1>6, <1>7, <1>8, <2>1
<1> HIDE DEF total, n
<1>11. total \in Nat /\ n \in Nat /\ n > 0
  BY <1>3, <1>9 DEF total, n
<1>12. total <= l
  <2>1. SUFFICES ASSUME total >= l + 1 PROVE FALSE
    BY <1>11
  <2>2. p * total >= p * (l + 1)
    BY <1>11, <2>1
  <2>3. p * (l + 1) = l * p + p
    OBVIOUS
  <2> QED
    BY <1>10, <1>11, <2>2, <2>3
<1>13. l - total < n
  <2>1. SUFFICES ASSUME l >= total + n PROVE FALSE
    BY <1>11
  <2>2. p * l >= p * (total + n)
    BY <1>11, <2>1
  <2>3. p * (total + n) = p * total + p * n /\ (p - 1) * n = p * n - n /\ p * l = l * p
    BY <1>11
  <2>4. p * total \in Int /\ p * n \in Int /\ p * l \in Int
    BY <1>11
  <2> QED
    BY <1>10, <1>11, <2>2, <2>3, <2>4
<1> QED
  BY <1>11, <1>12, <1>13 DEF total, n

\* A sum may be split in two.
LEMMA SumUnion ==
    ASSUME NEW S, IsFiniteSet(S), NEW T \in SUBSET S, NEW f, \A x \in S : f[x] \in Int
    PROVE  SumFunctionOnSet(f, S) = SumFunctionOnSet(f, T) + SumFunctionOnSet(f, S \ T)
<1> DEFINE g == [x \in S |-> IF x \in T THEN f[x] ELSE 0]
           h == [x \in S |-> IF x \in T THEN 0 ELSE f[x]]
<1>1. \A x \in S : g[x] \in Int /\ h[x] \in Int /\ f[x] = g[x] + h[x]
    OBVIOUS
<1>2. \A x \in S : (x \notin T => g[x] = 0) /\ (x \notin S \ T => h[x] = 0)
    OBVIOUS
<1>3. (\A x \in T : f[x] \in Int /\ f[x] = g[x]) /\ (\A x \in S \ T : f[x] \in Int /\ f[x] = h[x])
    OBVIOUS
<1> HIDE DEF g, h
<1>4. IsFiniteSet(T) /\ IsFiniteSet(S \ T)
    BY FS_Subset
<1>5. SumFunctionOnSet(f, S) = SumFunctionOnSet(g, S) + SumFunctionOnSet(h, S)
    BY <1>1, SumPointwise
<1>6. SumFunctionOnSet(g, S) = SumFunctionOnSet(g, T)
    BY <1>1, <1>2, SumOfSupport
<1>7. SumFunctionOnSet(h, S) = SumFunctionOnSet(h, S \ T)
    BY <1>1, <1>2, SumOfSupport
<1>8. SumFunctionOnSet(f, T) = SumFunctionOnSet(g, T)
    BY <1>3, <1>4, SumEqual
<1>9. SumFunctionOnSet(f, S \ T) = SumFunctionOnSet(h, S \ T)
    BY <1>3, <1>4, SumEqual
<1> QED
    BY <1>5, <1>6, <1>7, <1>8, <1>9

\* A sum may be taken row by row or column by column.
LEMMA SumExchange ==
    ASSUME NEW S, IsFiniteSet(S), NEW T, IsFiniteSet(T), NEW f, \A x \in S, y \in T : f[x][y] \in Int
    PROVE  SumFunctionOnSet([x \in S |-> SumFunctionOnSet(f[x], T)], S)
             = SumFunctionOnSet([y \in T |-> SumFunctionOnSet([x \in S |-> f[x][y]], S)], T)
<1> DEFINE row == [x \in S |-> SumFunctionOnSet(f[x], T)]
           cell == [y \in T |-> [x \in S |-> f[x][y]]]
           col(U) == [y \in T |-> SumFunctionOnSet(cell[y], U)]
           G == {U \in SUBSET S : SumFunctionOnSet(row, U) = SumFunctionOnSet(col(U), T)}
<1>0. /\ \A x \in S : row[x] = SumFunctionOnSet(f[x], T)
      /\ \A y \in T, x \in S : cell[y][x] \in Int /\ cell[y][x] = f[x][y]
      /\ \A y \in T : cell[y] = [x \in S |-> f[x][y]]
      /\ \A U : \A y \in T : col(U)[y] = SumFunctionOnSet(cell[y], U)
    OBVIOUS
<1>a. \A x \in S : row[x] \in Int
    BY <1>0, SumInt
<1> HIDE DEF cell, row, col
<1>1. {} \in G
    <2>1. \A y \in T : col({})[y] = 0
        BY <1>0, SumEmpty
    <2>2. SumFunctionOnSet(col({}), T) = 0
        BY <2>1, SumZero
    <2> QED
        BY <2>2, SumEmpty
<1>2. ASSUME NEW U \in SUBSET S, NEW x \in U, U \ {x} \in G PROVE U \in G
    <2> DEFINE V == U \ {x}
    <2>1. IsFiniteSet(U) /\ IsFiniteSet(V) /\ V \in SUBSET S /\ U \in SUBSET S /\ x \in S
        BY FS_Subset
    <2>2. SumFunctionOnSet(row, U) = row[x] + SumFunctionOnSet(row, V)
        BY <2>1, <1>a, SumSplit
    <2>3. \A y \in T : /\ col(U)[y] = f[x][y] + col(V)[y]
                       /\ col(V)[y] \in Int /\ f[x][y] \in Int
        <3> SUFFICES ASSUME NEW y \in T PROVE /\ col(U)[y] = f[x][y] + col(V)[y]
                                              /\ col(V)[y] \in Int /\ f[x][y] \in Int
            OBVIOUS
        <3>1. SumFunctionOnSet(cell[y], U) = cell[y][x] + SumFunctionOnSet(cell[y], V)
            BY <1>0, <2>1, SumSplit
        <3>2. SumFunctionOnSet(cell[y], V) \in Int
            BY <1>0, <2>1, SumInt
        <3> QED
            BY <1>0, <2>1, <3>1, <3>2
    <2>4. SumFunctionOnSet(col(U), T) = SumFunctionOnSet(f[x], T) + SumFunctionOnSet(col(V), T)
        BY <2>3, SumPointwise
    <2>5. SumFunctionOnSet(row, V) = SumFunctionOnSet(col(V), T)
        BY <1>2
    <2> QED
        BY <1>0, <2>1, <2>2, <2>4, <2>5
<1> HIDE DEF G
<1>3. S \in G
    BY <1>1, <1>2, SubsetInduction
<1>4. SumFunctionOnSet(row, S) = SumFunctionOnSet(col(S), T)
    BY <1>3 DEF G
<1>5. col(S) = [y \in T |-> SumFunctionOnSet([x \in S |-> f[x][y]], S)]
    <2>1. \A y \in T : SumFunctionOnSet(cell[y], S) = SumFunctionOnSet([x \in S |-> f[x][y]], S)
        BY <1>0
    <2> QED
        BY <2>1 DEF col
<1> QED
    BY <1>4, <1>5 DEF row

\* A sum may be taken class by class.
LEMMA SumByClass ==
    ASSUME NEW S, IsFiniteSet(S), NEW C, IsFiniteSet(C), NEW f, NEW class,
           \A x \in S : f[x] \in Int /\ class[x] \in C
    PROVE  SumFunctionOnSet([c \in C |-> SumFunctionOnSet(f, {x \in S : class[x] = c})], C)
             = SumFunctionOnSet(f, S)
<1> DEFINE cell == [c \in C |-> [x \in S |-> IF class[x] = c THEN f[x] ELSE 0]]
           part(c) == {x \in S : class[x] = c}
           byClass == [c \in C |-> SumFunctionOnSet(cell[c], S)]
           byTerm == [x \in S |-> SumFunctionOnSet([c \in C |-> cell[c][x]], C)]
<1>1. /\ \A c \in C, x \in S : cell[c][x] = (IF class[x] = c THEN f[x] ELSE 0) /\ cell[c][x] \in Int
      /\ \A c \in C : byClass[c] = SumFunctionOnSet(cell[c], S)
      /\ \A x \in S : byTerm[x] = SumFunctionOnSet([c \in C |-> cell[c][x]], C)
    BY SMTT(30)
<1> HIDE DEF cell
<1>2. SumFunctionOnSet(byClass, C) = SumFunctionOnSet(byTerm, S)
    BY <1>1, SumExchange, SMTT(60)
<1> HIDE DEF byTerm, byClass
<1>3. \A x \in S : byTerm[x] = f[x]
    <2> SUFFICES ASSUME NEW x \in S PROVE byTerm[x] = f[x]
        OBVIOUS
    <2> DEFINE at == [c \in C |-> cell[c][x]]
    <2>1. /\ \A c \in C : at[c] \in Int /\ (c \notin {class[x]} => at[c] = 0)
          /\ {class[x]} \in SUBSET C /\ at[class[x]] = f[x] /\ f[x] \in Int
        BY <1>1
    <2>2. byTerm[x] = SumFunctionOnSet(at, C)
        BY <1>1
    <2> HIDE DEF at
    <2>3. SumFunctionOnSet(at, C) = SumFunctionOnSet(at, {class[x]})
        BY <2>1, SumOfSupport
    <2>4. SumFunctionOnSet(at, {class[x]}) = at[class[x]] + SumFunctionOnSet(at, {class[x]} \ {class[x]})
        BY <2>1, FS_Singleton, SumSplit
    <2>5. {class[x]} \ {class[x]} = {}
        OBVIOUS
    <2> QED
        BY <2>1, <2>2, <2>3, <2>4, <2>5, SumEmpty
<1>4. SumFunctionOnSet(f, S) = SumFunctionOnSet(byTerm, S)
    BY <1>3, SumEqual
<1>5. \A c \in C : byClass[c] = SumFunctionOnSet(f, part(c))
    <2> SUFFICES ASSUME NEW c \in C PROVE byClass[c] = SumFunctionOnSet(f, part(c))
        OBVIOUS
    <2>1. part(c) \in SUBSET S /\ IsFiniteSet(part(c))
        BY FS_Subset
    <2>2. /\ \A x \in S : cell[c][x] \in Int /\ (x \notin part(c) => cell[c][x] = 0)
          /\ \A x \in part(c) : f[x] \in Int /\ f[x] = cell[c][x]
        BY <1>1
    <2> HIDE DEF part
    <2>3. SumFunctionOnSet(cell[c], S) = SumFunctionOnSet(cell[c], part(c))
        BY <2>1, <2>2, SumOfSupport
    <2>4. SumFunctionOnSet(f, part(c)) = SumFunctionOnSet(cell[c], part(c))
        BY <2>1, <2>2, SumEqual
    <2> QED
        BY <1>1, <2>3, <2>4
<1>6. byClass = [c \in C |-> SumFunctionOnSet(f, part(c))]
    BY <1>5 DEF byClass
<1> QED
    BY <1>2, <1>4, <1>6

\* A sum of one term, the others zero, is that term.
LEMMA SumOfOne ==
    ASSUME NEW S, IsFiniteSet(S), NEW x \in S, NEW f, f[x] \in Int, \A y \in S : y # x => f[y] = 0
    PROVE  SumFunctionOnSet(f, S) = f[x]
<1>1. \A y \in S : f[y] \in Int /\ (y \notin {x} => f[y] = 0)
    OBVIOUS
<1>2. SumFunctionOnSet(f, S) = SumFunctionOnSet(f, {x})
    <2>1. {x} \in SUBSET S
        OBVIOUS
    <2> QED
        BY <1>1, <2>1, SumOfSupport
<1>3. SumFunctionOnSet(f, {x}) = f[x] + SumFunctionOnSet(f, {x} \ {x})
    BY FS_Singleton, SumSplit
<1>4. {x} \ {x} = {}
    OBVIOUS
<1> QED
    BY <1>2, <1>3, <1>4, SumEmpty

\* The same of functions summed over their whole domain.
LEMMA SumFunctionUpdate ==
    ASSUME NEW S, IsFiniteSet(S), NEW f, NEW g, DOMAIN f = S, DOMAIN g = S, NEW x \in S,
           \A y \in S : f[y] \in Int /\ g[y] \in Int /\ (y # x => g[y] = f[y])
    PROVE  SumFunction(g) = SumFunction(f) + (g[x] - f[x])
  BY SumUpdate DEF SumFunction

LEMMA SumFunctionZero ==
    ASSUME NEW S, IsFiniteSet(S), NEW f, DOMAIN f = S, \A x \in S : f[x] = 0
    PROVE  SumFunction(f) = 0
  BY SumZero DEF SumFunction
=============================================================================
