------------------------------ MODULE FiniteSums ------------------------------
(***************************************************************************)
(* Facts about SumFunctionOnSet, the sum of an integer function over a     *)
(* finite set of indices.  Each is proved from a smallest counterexample:  *)
(* the finite subsets of a set are well founded, and a set of bad subsets  *)
(* that is not empty has one whose strict subsets are all good.            *)
(***************************************************************************)
EXTENDS Integers, FiniteSetsExt, FiniteSetTheorems, WellFoundedInduction, TLAPS

\* Of a non-empty set of subsets of a finite set some one is minimal.
LEMMA SmallestSubset ==
  ASSUME NEW S, IsFiniteSet(S), NEW B \in SUBSET (SUBSET S), B # {}
  PROVE  \E T \in B : \A U \in B : U \subseteq T => U = T
<1>1. IsWellFoundedOn(StrictSubsetOrdering(S), SUBSET S)
  BY FS_StrictSubsetOrderingWellFounded, FS_FiniteSubsetsOfFinite
<1>2. PICK T \in B : \A U \in B : <<U, T>> \notin StrictSubsetOrdering(S)
  BY <1>1, WFMin
<1>3. QED
  BY <1>2 DEF StrictSubsetOrdering

\* The element a sum takes next, and the recursion it solves.
Pick(s) == CHOOSE x \in s : TRUE
Solves(h, f, S) ==
  h = [s \in SUBSET S |-> IF s = {} THEN 0 ELSE f[Pick(s)] + h[s \ {Pick(s)}]]
Solution(f, S) == CHOOSE h : Solves(h, f, S)

LEMMA PickIsIn == ASSUME NEW s, s # {} PROVE Pick(s) \in s
BY DEF Pick

LEMMA SumIsSolution ==
  ASSUME NEW f, NEW S
  PROVE  SumFunctionOnSet(f, S) = Solution(f, S)[S]
BY DEF SumFunctionOnSet, FoldFunctionOnSet, MapThenFoldSet, Solution, Solves, Pick

\* Solutions agree on the subsets they have in common.
LEMMA SolutionsAgree ==
  ASSUME NEW S, IsFiniteSet(S), NEW T, S \subseteq T, NEW f, NEW g, NEW h,
         Solves(g, f, S), Solves(h, f, T)
  PROVE  \A s \in SUBSET S : g[s] = h[s]
<1> DEFINE B == {s \in SUBSET S : g[s] # h[s]}
<1>1. SUFFICES ASSUME B # {} PROVE FALSE
  OBVIOUS
<1>2. PICK s \in B : \A u \in B : u \subseteq s => u = s
  <2>1. B \in SUBSET (SUBSET S)
    OBVIOUS
  <2>2. QED
    <3> HIDE DEF B
    <3> QED  BY <1>1, <2>1, SmallestSubset
<1>3. s # {}
  BY DEF Solves
<1>4. Pick(s) \in s /\ s \ {Pick(s)} \notin B
  BY <1>2, <1>3, PickIsIn
<1>5. g[s \ {Pick(s)}] = h[s \ {Pick(s)}]
  BY <1>4
<1>6. g[s] = f[Pick(s)] + g[s \ {Pick(s)}] /\ h[s] = f[Pick(s)] + h[s \ {Pick(s)}]
  BY <1>3 DEF Solves
<1>7. QED
  BY <1>5, <1>6

\* There is a solution for every finite set.
LEMMA SolutionExists ==
  ASSUME NEW S, IsFiniteSet(S), NEW f
  PROVE  Solves(Solution(f, S), f, S)
<1> DEFINE Good(T) == \E h : Solves(h, f, T)
           B == {T \in SUBSET S : ~Good(T)}
<1>1. SUFFICES ASSUME B # {} PROVE FALSE
  BY DEF Solution
<1>2. PICK T \in B : \A u \in B : u \subseteq T => u = T
  <2>1. B \in SUBSET (SUBSET S)
    OBVIOUS
  <2>2. QED
    <3> HIDE DEF B
    <3> QED  BY <1>1, <2>1, SmallestSubset
<1>3. \A u \in SUBSET T : u # T => Solves(Solution(f, u), f, u)
  BY <1>2 DEF Solution
<1> DEFINE Value(u) == Solution(f, u)[u]
           h == [s \in SUBSET T |-> IF s = {} THEN 0
                                    ELSE f[Pick(s)] + Value(s \ {Pick(s)})]
<1>4. ASSUME NEW u \in SUBSET T, u # T PROVE h[u] = Value(u)
  <2>1. CASE u = {}
    BY <1>3, <2>1 DEF Solves
  <2>2. CASE u # {}
    <3> DEFINE v == u \ {Pick(u)}
    <3>1. Pick(u) \in u /\ v \subseteq u /\ v # u /\ IsFiniteSet(v)
      BY <2>2, PickIsIn, FS_Subset
    <3>2. Solves(Solution(f, u), f, u) /\ Solves(Solution(f, v), f, v)
      BY <1>3, <1>4, <3>1
    <3>3. Solution(f, v)[v] = Solution(f, u)[v]
      <4> HIDE DEF v
      <4> QED  BY <3>1, <3>2, SolutionsAgree
    <3>4. Solution(f, u)[u] = f[Pick(u)] + Solution(f, u)[v]
      BY <2>2, <3>2 DEF Solves
    <3>5. QED
      BY <2>2, <3>3, <3>4
  <2>3. QED
    BY <2>1, <2>2
<1>5. \A s \in SUBSET T : s # {} =>
        h[s] = f[Pick(s)] + h[s \ {Pick(s)}]
  <2> SUFFICES ASSUME NEW s \in SUBSET T, s # {}
               PROVE  h[s] = f[Pick(s)] + h[s \ {Pick(s)}]
    OBVIOUS
  <2>1. s \ {Pick(s)} \in SUBSET T /\ s \ {Pick(s)} # T
    BY PickIsIn
  <2>2. h[s \ {Pick(s)}] = Value(s \ {Pick(s)})
    <3> HIDE DEF h, Value
    <3> QED  BY <1>4, <2>1
  <2>3. QED
    BY <2>2
<1>6. Solves(h, f, T)
  <2>1. h = [s \in SUBSET T |-> h[s]] /\ h[{}] = 0
    OBVIOUS
  <2>2. QED
    <3> HIDE DEF h
    <3> QED  BY <1>5, <2>1 DEF Solves
<1>7. QED
  BY <1>6

\* The defining equations of a sum.
LEMMA SumUnfolds ==
  ASSUME NEW S, IsFiniteSet(S), NEW f
  PROVE  /\ SumFunctionOnSet(f, {}) = 0
         /\ S # {} => SumFunctionOnSet(f, S)
                        = f[Pick(S)] + SumFunctionOnSet(f, S \ {Pick(S)})
<1>1. SumFunctionOnSet(f, {}) = 0
  <2>1. Solves(Solution(f, {}), f, {})
    BY SolutionExists, FS_EmptySet
  <2>2. QED
    BY <2>1, SumIsSolution DEF Solves
<1>2. ASSUME S # {}
      PROVE  SumFunctionOnSet(f, S) = f[Pick(S)] + SumFunctionOnSet(f, S \ {Pick(S)})
  <2> DEFINE v == S \ {Pick(S)}
  <2>1. Pick(S) \in S /\ IsFiniteSet(v) /\ v \subseteq S
    BY <1>2, PickIsIn, FS_Subset
  <2>2. Solves(Solution(f, S), f, S) /\ Solves(Solution(f, v), f, v)
    <3> HIDE DEF v
    <3> QED  BY <2>1, SolutionExists
  <2>3. Solution(f, v)[v] = Solution(f, S)[v]
    <3> HIDE DEF v
    <3> QED  BY <2>1, <2>2, SolutionsAgree
  <2>4. Solution(f, S)[S] = f[Pick(S)] + Solution(f, S)[v]
    BY <1>2, <2>2 DEF Solves
  <2>5. QED
    BY <2>3, <2>4, SumIsSolution
<1>3. QED
  BY <1>1, <1>2

LEMMA SumOfNothing == ASSUME NEW f PROVE SumFunctionOnSet(f, {}) = 0
BY FS_EmptySet, SumUnfolds

LEMMA SumPicks ==
  ASSUME NEW S, IsFiniteSet(S), NEW f, S # {}
  PROVE  SumFunctionOnSet(f, S) = f[Pick(S)] + SumFunctionOnSet(f, S \ {Pick(S)})
BY SumUnfolds

-----------------------------------------------------------------------------
(***************************************************************************)
(* What sums have in common with addition.                                 *)
(***************************************************************************)
Integral(f, S) == \A x \in S : f[x] \in Int

\* A sum of integers is an integer.
LEMMA SumIsInteger ==
  ASSUME NEW S, IsFiniteSet(S), NEW f, Integral(f, S)
  PROVE  \A T \in SUBSET S : SumFunctionOnSet(f, T) \in Int
<1> DEFINE B == {T \in SUBSET S : SumFunctionOnSet(f, T) \notin Int}
<1>1. SUFFICES ASSUME B # {} PROVE FALSE
  OBVIOUS
<1>2. PICK T \in B : \A U \in B : U \subseteq T => U = T
  <2>1. B \in SUBSET (SUBSET S)
    OBVIOUS
  <2>2. QED
    <3> HIDE DEF B
    <3> QED  BY <1>1, <2>1, SmallestSubset
<1>3. IsFiniteSet(T) /\ T # {}
  <2>1. IsFiniteSet(T)
    BY FS_Subset
  <2>2. ASSUME T = {} PROVE FALSE
    <3>1. SumFunctionOnSet(f, T) = 0
      BY <2>2, SumOfNothing
    <3>2. QED  BY <3>1
  <2>3. QED
    BY <2>1, <2>2
<1>4. Pick(T) \in T
  BY <1>3, PickIsIn
<1>5. SumFunctionOnSet(f, T \ {Pick(T)}) \in Int
  BY <1>2, <1>4
<1>6. f[Pick(T)] \in Int
  BY <1>4 DEF Integral
<1>7. SumFunctionOnSet(f, T) = f[Pick(T)] + SumFunctionOnSet(f, T \ {Pick(T)})
  BY <1>3, SumPicks
<1>8. QED
  <2>1. SumFunctionOnSet(f, T) \in Int
    BY <1>5, <1>6, <1>7
  <2>2. QED  BY <2>1

\* Any element may be taken first.
LEMMA SumTakes ==
  ASSUME NEW S, IsFiniteSet(S), NEW f, Integral(f, S)
  PROVE  \A T \in SUBSET S : \A y \in T :
           SumFunctionOnSet(f, T) = f[y] + SumFunctionOnSet(f, T \ {y})
<1> DEFINE B == {T \in SUBSET S : \E y \in T :
                   SumFunctionOnSet(f, T) # f[y] + SumFunctionOnSet(f, T \ {y})}
<1>1. SUFFICES ASSUME B # {} PROVE FALSE
  OBVIOUS
<1>2. PICK T \in B : \A U \in B : U \subseteq T => U = T
  <2>1. B \in SUBSET (SUBSET S)
    OBVIOUS
  <2>2. QED
    <3> HIDE DEF B
    <3> QED  BY <1>1, <2>1, SmallestSubset
<1>3. PICK y \in T : SumFunctionOnSet(f, T) # f[y] + SumFunctionOnSet(f, T \ {y})
  BY <1>2
<1> DEFINE c == Pick(T)
<1>4. IsFiniteSet(T) /\ c \in T
  BY FS_Subset, PickIsIn
<1>5. SumFunctionOnSet(f, T) = f[c] + SumFunctionOnSet(f, T \ {c})
  BY <1>4, SumPicks
<1>6. c # y
  BY <1>3, <1>5
<1> HIDE DEF c
<1>7. T \ {c} \notin B /\ T \ {y} \notin B
  BY <1>2, <1>4
<1>8. SumFunctionOnSet(f, T \ {c}) = f[y] + SumFunctionOnSet(f, (T \ {c}) \ {y})
  BY <1>4, <1>6, <1>7
<1>9. SumFunctionOnSet(f, T \ {y}) = f[c] + SumFunctionOnSet(f, (T \ {y}) \ {c})
  BY <1>4, <1>6, <1>7
<1>10. (T \ {c}) \ {y} = (T \ {y}) \ {c}
  OBVIOUS
<1>11. f[c] \in Int /\ f[y] \in Int /\ SumFunctionOnSet(f, (T \ {y}) \ {c}) \in Int
  <2>1. (T \ {y}) \ {c} \in SUBSET S
    OBVIOUS
  <2>2. QED
    BY <1>4, <2>1, SumIsInteger DEF Integral
<1>12. SumFunctionOnSet(f, T) = f[y] + SumFunctionOnSet(f, T \ {y})
  <2> DEFINE rest == SumFunctionOnSet(f, (T \ {y}) \ {c})
             withoutC == SumFunctionOnSet(f, T \ {c})
             withoutY == SumFunctionOnSet(f, T \ {y})
  <2>1. withoutC = f[y] + rest
    BY <1>8, <1>10
  <2>2. withoutY = f[c] + rest /\ SumFunctionOnSet(f, T) = f[c] + withoutC
    BY <1>5, <1>9
  <2>3. rest \in Int /\ f[c] \in Int /\ f[y] \in Int
    BY <1>11
  <2>4. QED
    <3> HIDE DEF rest, withoutC, withoutY
    <3>1. SumFunctionOnSet(f, T) = f[y] + withoutY
      BY <2>1, <2>2, <2>3
    <3>2. QED  BY <3>1 DEF withoutY
<1>13. QED
  BY <1>3, <1>12

\* The sum of f is that of g less k times that of h, if that is so at every
\* element.
LEMMA SumLinear ==
  ASSUME NEW S, IsFiniteSet(S), NEW f, NEW g, NEW h, NEW k \in Int,
         Integral(g, S), Integral(h, S), \A x \in S : f[x] = g[x] - k * h[x]
  PROVE  SumFunctionOnSet(f, S) = SumFunctionOnSet(g, S) - k * SumFunctionOnSet(h, S)
<1> DEFINE Good(T) == SumFunctionOnSet(f, T)
                        = SumFunctionOnSet(g, T) - k * SumFunctionOnSet(h, T)
           B == {T \in SUBSET S : ~Good(T)}
<1>1. SUFFICES ASSUME B # {} PROVE FALSE
  OBVIOUS
<1>2. PICK T \in B : \A U \in B : U \subseteq T => U = T
  <2>1. B \in SUBSET (SUBSET S)
    OBVIOUS
  <2>2. QED
    <3> HIDE DEF B
    <3> QED  BY <1>1, <2>1, SmallestSubset
<1>3. IsFiniteSet(T)
  BY FS_Subset
<1>4. T # {}
  <2>1. Good({})
    BY SumOfNothing
  <2>2. QED
    <3> HIDE DEF Good
    <3> QED  BY <2>1
<1> DEFINE c == Pick(T)
           v == T \ {c}
<1>5. c \in T /\ v \in SUBSET S
  BY <1>4, PickIsIn
<1>6. /\ SumFunctionOnSet(f, T) = f[c] + SumFunctionOnSet(f, v)
      /\ SumFunctionOnSet(g, T) = g[c] + SumFunctionOnSet(g, v)
      /\ SumFunctionOnSet(h, T) = h[c] + SumFunctionOnSet(h, v)
  BY <1>3, <1>4, SumPicks
<1>7. Good(v)
  BY <1>2, <1>5
<1>8. /\ g[c] \in Int /\ h[c] \in Int /\ f[c] = g[c] - k * h[c]
      /\ SumFunctionOnSet(g, v) \in Int /\ SumFunctionOnSet(h, v) \in Int
  <2> HIDE DEF v
  <2> QED  BY <1>5, SumIsInteger DEF Integral
<1>9. SumFunctionOnSet(f, T) = (g[c] - k * h[c])
         + (SumFunctionOnSet(g, v) - k * SumFunctionOnSet(h, v))
  BY <1>6, <1>7, <1>8
<1>10. k * (h[c] + SumFunctionOnSet(h, v)) = k * h[c] + k * SumFunctionOnSet(h, v)
  <2> HIDE DEF c, v
  <2>1. \A a, b \in Int : k * (a + b) = k * a + k * b
    OBVIOUS
  <2>2. QED
    BY <1>8, <2>1
<1>11. k * h[c] \in Int /\ k * SumFunctionOnSet(h, v) \in Int
  BY <1>8
<1>12. QED
  <2> HIDE DEF c, v
  <2> QED  BY <1>2, <1>6, <1>8, <1>9, <1>10, <1>11

\* Functions that agree have the same sum.
LEMMA SumSame ==
  ASSUME NEW S, IsFiniteSet(S), NEW f, NEW g, Integral(g, S), \A x \in S : f[x] = g[x]
  PROVE  SumFunctionOnSet(f, S) = SumFunctionOnSet(g, S)
<1> DEFINE zero == [x \in S |-> 0]
<1>1. Integral(zero, S) /\ \A x \in S : f[x] = g[x] - 0 * zero[x]
  BY DEF Integral
<1>2. SumFunctionOnSet(f, S) = SumFunctionOnSet(g, S) - 0 * SumFunctionOnSet(zero, S)
  <2> HIDE DEF zero
  <2> QED  BY <1>1, SumLinear
<1>3. SumFunctionOnSet(g, S) \in Int /\ SumFunctionOnSet(zero, S) \in Int
  <2> HIDE DEF zero
  <2> QED  BY <1>1, SumIsInteger
<1>4. QED
  <2> HIDE DEF zero
  <2>1. \A a, b \in Int : a - 0 * b = a
    OBVIOUS
  <2>2. QED  BY <1>2, <1>3, <2>1

\* Where no f is more than a tenth of g and a half, nor is the sum by more than
\* a half for each element.
LEMMA SumRounded ==
  ASSUME NEW S, IsFiniteSet(S), NEW f, NEW g, Integral(f, S), Integral(g, S),
         \A x \in S : 10 * f[x] <= g[x] + 5
  PROVE  10 * SumFunctionOnSet(f, S) <= SumFunctionOnSet(g, S) + 5 * Cardinality(S)
<1> DEFINE Good(T) == 10 * SumFunctionOnSet(f, T)
                        <= SumFunctionOnSet(g, T) + 5 * Cardinality(T)
           B == {T \in SUBSET S : ~Good(T)}
<1>1. SUFFICES ASSUME B # {} PROVE FALSE
  OBVIOUS
<1>2. PICK T \in B : \A U \in B : U \subseteq T => U = T
  <2>1. B \in SUBSET (SUBSET S)
    OBVIOUS
  <2>2. QED
    <3> HIDE DEF B
    <3> QED  BY <1>1, <2>1, SmallestSubset
<1>3. IsFiniteSet(T)
  BY FS_Subset
<1>4. T # {}
  <2>1. Good({})
    BY SumOfNothing, FS_EmptySet
  <2>2. QED
    <3> HIDE DEF Good
    <3> QED  BY <2>1
<1> DEFINE c == Pick(T)
           v == T \ {c}
<1>5. c \in T /\ v \in SUBSET S
  BY <1>4, PickIsIn
<1>6. /\ SumFunctionOnSet(f, T) = f[c] + SumFunctionOnSet(f, v)
      /\ SumFunctionOnSet(g, T) = g[c] + SumFunctionOnSet(g, v)
  BY <1>3, <1>4, SumPicks
<1>7. Good(v)
  BY <1>2, <1>5
<1>8. Cardinality(v) = Cardinality(T) - 1 /\ Cardinality(T) \in Nat
  BY <1>3, <1>5, FS_RemoveElement, FS_CardinalityType
<1>9. /\ g[c] \in Int /\ f[c] \in Int /\ 10 * f[c] <= g[c] + 5
      /\ SumFunctionOnSet(f, v) \in Int /\ SumFunctionOnSet(g, v) \in Int
  <2> HIDE DEF v
  <2> QED  BY <1>5, SumIsInteger DEF Integral
<1>10. Good(T)
  <2> HIDE DEF c, v
  <2> QED  BY <1>6, <1>7, <1>8, <1>9
<1>11. QED
  BY <1>10

\* Indices may be renamed, one by one.
ImageOf(m, S) == {m[x] : x \in S}
OneToOne(m, S) == \A x, y \in S : m[x] = m[y] => x = y

LEMMA ImageIsFinite ==
  ASSUME NEW S, IsFiniteSet(S), NEW m, OneToOne(m, S)
  PROVE  IsFiniteSet(ImageOf(m, S)) /\ Cardinality(ImageOf(m, S)) = Cardinality(S)
<1> DEFINE n == [x \in S |-> m[x]]
<1>1. n \in Bijection(S, ImageOf(m, S))
  BY DEF Bijection, Injection, Surjection, IsInjective, ImageOf, OneToOne
<1>2. QED
  BY <1>1, FS_Bijection DEF ExistsBijection

LEMMA SumRenamed ==
  ASSUME NEW S, IsFiniteSet(S), NEW m, OneToOne(m, S), NEW f, NEW g,
         Integral(f, S), \A x \in S : f[x] = g[m[x]]
  PROVE  SumFunctionOnSet(f, S) = SumFunctionOnSet(g, ImageOf(m, S))
<1> DEFINE Good(T) == SumFunctionOnSet(f, T) = SumFunctionOnSet(g, ImageOf(m, T))
           B == {T \in SUBSET S : ~Good(T)}
<1>1. SUFFICES ASSUME B # {} PROVE FALSE
  OBVIOUS
<1>2. PICK T \in B : \A U \in B : U \subseteq T => U = T
  <2>1. B \in SUBSET (SUBSET S)
    OBVIOUS
  <2>2. QED
    <3> HIDE DEF B
    <3> QED  BY <1>1, <2>1, SmallestSubset
<1>3. IsFiniteSet(T)
  BY FS_Subset
<1>4. T # {}
  <2>1. ImageOf(m, {}) = {}
    BY DEF ImageOf
  <2>2. Good({})
    BY <2>1, SumOfNothing
  <2>3. QED
    <3> HIDE DEF Good
    <3> QED  BY <2>2
<1> DEFINE c == Pick(T)
           v == T \ {c}
<1>5. c \in T /\ v \in SUBSET S /\ c \in S
  BY <1>4, PickIsIn
<1>6. SumFunctionOnSet(f, T) = f[c] + SumFunctionOnSet(f, v)
  BY <1>3, <1>4, SumPicks
<1>7. Good(v)
  BY <1>2, <1>5
<1>8. m[c] \in ImageOf(m, T) /\ ImageOf(m, v) = ImageOf(m, T) \ {m[c]}
  BY <1>5 DEF ImageOf, OneToOne
<1>9. IsFiniteSet(ImageOf(m, S)) /\ Integral(g, ImageOf(m, S))
      /\ ImageOf(m, T) \in SUBSET ImageOf(m, S)
  <2>1. IsFiniteSet(ImageOf(m, S))
    BY ImageIsFinite
  <2>2. QED
    BY <2>1 DEF ImageOf, Integral
<1>10. SumFunctionOnSet(g, ImageOf(m, T))
         = g[m[c]] + SumFunctionOnSet(g, ImageOf(m, T) \ {m[c]})
  <2> HIDE DEF c
  <2> QED  BY <1>8, <1>9, SumTakes
<1>11. Good(T)
  <2> HIDE DEF c, v
  <2> QED  BY <1>5, <1>6, <1>7, <1>8, <1>10
<1>12. QED
  BY <1>11
=============================================================================
