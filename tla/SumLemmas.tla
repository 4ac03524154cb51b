----------------------------- MODULE SumLemmas -----------------------------
(***************************************************************************)
(* What SumFunctionOnSet of the community modules computes.  The models    *)
(* add up orders, calls and rows with it, and the folds it rests on are    *)
(* recursive functions of which the provers know nothing: these lemmas say *)
(* that the recursion defines a function, that the sum does not depend on  *)
(* the order the elements are taken in, and how it changes with one value. *)
(*                                                                         *)
(* Induction on finite sets is by smallest counterexample: WFMin speaks of *)
(* sets, so no operator has to be instantiated.                            *)
(***************************************************************************)
EXTENDS Integers, FiniteSets, Functions, FiniteSetTheorems, WellFoundedInduction, TLAPS

Pick(s) == CHOOSE x \in s : TRUE

\* g adds up f over every subset of S, the way the fold does it.
Adds(f, S, g) ==
  g = [s \in SUBSET S |-> IF s = {} THEN 0 ELSE f[Pick(s)] + g[s \ {Pick(s)}]]

\* The element the fold picks is one of the set.
LEMMA PickIn == \A s : s # {} => Pick(s) \in s
BY DEF Pick

\* SumFunctionOnSet is the fold of the community modules, one picked element
\* at a time.
LEMMA SumIsFold ==
  \A f, S : SumFunctionOnSet(f, S) = (CHOOSE g : Adds(f, S, g))[S]
BY DEF SumFunctionOnSet, FoldFunctionOnSet, MapThenFoldSet, Adds, Pick

\* Of the finite sets with a property one has the least elements.
LEMMA SmallestSet ==
  ASSUME NEW S, IsFiniteSet(S), NEW Bad \in SUBSET SUBSET S, Bad # {}
  PROVE  \E T \in Bad : \A U \in SUBSET T : U # T => U \notin Bad
<1>1. IsWellFoundedOn(StrictSubsetOrdering(S), SUBSET S)
  BY FS_StrictSubsetOrderingWellFounded, FS_FiniteSubsetsOfFinite
<1>2. PICK T \in Bad : \A U \in Bad : <<U, T>> \notin StrictSubsetOrdering(S)
  BY <1>1, WFMin
<1>3. \A U \in SUBSET T : U # T => U \notin Bad
  BY <1>2 DEF StrictSubsetOrdering
<1> QED
  BY <1>3

\* Two functions that add up one element at a time agree: on a smallest set
\* where they differ, they differ on a smaller one.
LEMMA AddsUnique ==
  ASSUME NEW S, IsFiniteSet(S), NEW f, NEW T, NEW U, NEW g, NEW h,
         T \subseteq S, U \subseteq S, Adds(f, T, g), Adds(f, U, h)
  PROVE  \A s \in SUBSET (T \cap U) : g[s] = h[s]
<1> DEFINE Bad == {s \in SUBSET (T \cap U) : g[s] # h[s]}
<1>1. SUFFICES ASSUME Bad # {} PROVE FALSE
  OBVIOUS
<1>2. Bad \in SUBSET SUBSET S
  OBVIOUS
<1>3. PICK s \in Bad : \A r \in SUBSET s : r # s => r \notin Bad
  <2> HIDE DEF Bad
  <2> QED BY <1>1, <1>2, SmallestSet
<1>4. s \in SUBSET T /\ s \in SUBSET U /\ g[s] # h[s]
  BY <1>3
<1>5. /\ g[s] = IF s = {} THEN 0 ELSE f[Pick(s)] + g[s \ {Pick(s)}]
      /\ h[s] = IF s = {} THEN 0 ELSE f[Pick(s)] + h[s \ {Pick(s)}]
  BY <1>4 DEF Adds
<1>6. s # {}
  BY <1>4, <1>5
<1>7. s \ {Pick(s)} \notin Bad
  BY <1>3, <1>6, PickIn
<1>8. g[s \ {Pick(s)}] = h[s \ {Pick(s)}]
  BY <1>4, <1>7
<1> QED
  BY <1>4, <1>5, <1>6, <1>8

\* Such a function exists for every finite set, by the same argument.
LEMMA AddsExists ==
  ASSUME NEW S, IsFiniteSet(S), NEW f
  PROVE  \E g : Adds(f, S, g)
<1> DEFINE Bad == {T \in SUBSET S : ~ \E g : Adds(f, T, g)}
           val(T) == (CHOOSE g : Adds(f, T, g))[T]
<1>1. SUFFICES ASSUME Bad # {} PROVE FALSE
  OBVIOUS
<1>2. Bad \in SUBSET SUBSET S
  OBVIOUS
<1>3. PICK T \in Bad : \A U \in SUBSET T : U # T => U \notin Bad
  <2> HIDE DEF Bad
  <2> QED BY <1>1, <1>2, SmallestSet
<1>4. \A U \in SUBSET T : U # T => Adds(f, U, CHOOSE g : Adds(f, U, g))
  BY <1>3
<1>5. ASSUME NEW U \in SUBSET T, U # T
      PROVE  val(U) = IF U = {} THEN 0 ELSE f[Pick(U)] + val(U \ {Pick(U)})
  <2> DEFINE V == U \ {Pick(U)}
             gU == CHOOSE g : Adds(f, U, g)
             gV == CHOOSE g : Adds(f, V, g)
  <2>1. Adds(f, U, gU) /\ val(U) = gU[U]
    BY <1>4, <1>5
  <2>2. val(U) = IF U = {} THEN 0 ELSE f[Pick(U)] + gU[V]
    BY <2>1 DEF Adds
  <2>3. V \in SUBSET T /\ V # T
    BY <1>5
  <2>4. Adds(f, V, gV) /\ val(V) = gV[V]
    BY <1>4, <2>3
  <2>5. V \in SUBSET (U \cap V) /\ U \subseteq S /\ V \subseteq S
    BY <1>5, <1>3
  <2>6. gU[V] = gV[V]
    <3> HIDE DEF V, gU, gV
    <3> QED BY <2>1, <2>4, <2>5, AddsUnique
  <2> QED
    BY <2>2, <2>4, <2>6
<1> DEFINE k == [s \in SUBSET T |-> IF s = {} THEN 0 ELSE f[Pick(s)] + val(s \ {Pick(s)})]
<1>6. ASSUME NEW s \in SUBSET T, s # {}
      PROVE  k[s \ {Pick(s)}] = val(s \ {Pick(s)})
  <2> DEFINE U == s \ {Pick(s)}
  <2>1. U \in SUBSET T /\ U # T
    BY <1>6, PickIn
  <2>2. val(U) = IF U = {} THEN 0 ELSE f[Pick(U)] + val(U \ {Pick(U)})
    <3> HIDE DEF U, val
    <3> QED BY <1>5, <2>1
  <2> HIDE DEF U, val
  <2>3. k[U] = val(U)
    BY <2>1, <2>2
  <2> QED
    BY <2>3 DEF U
<1>7. Adds(f, T, k)
  <2> HIDE DEF val
  <2> SUFFICES k = [s \in SUBSET T |-> IF s = {} THEN 0 ELSE f[Pick(s)] + k[s \ {Pick(s)}]]
    BY DEF Adds
  <2>1. \A s \in SUBSET T : k[s] = IF s = {} THEN 0 ELSE f[Pick(s)] + k[s \ {Pick(s)}]
    BY <1>6
  <2> HIDE DEF k
  <2>2. k = [s \in SUBSET T |-> k[s]]
    BY DEF k
  <2> QED
    BY <2>1, <2>2
<1> QED
  BY <1>3, <1>7

-----------------------------------------------------------------------------
\* Nothing adds up to zero.
LEMMA SumEmpty == \A f : SumFunctionOnSet(f, {}) = 0
<1> SUFFICES ASSUME NEW f PROVE SumFunctionOnSet(f, {}) = 0
  OBVIOUS
<1>1. IsFiniteSet({})
  BY FS_EmptySet
<1>2. PICK g : Adds(f, {}, g)
  BY <1>1, AddsExists
<1>3. Adds(f, {}, CHOOSE h : Adds(f, {}, h))
  BY <1>2
<1> QED
  BY <1>3, SumIsFold DEF Adds

\* The sum is the picked element's value and the sum of the rest.
LEMMA SumPick ==
  ASSUME NEW S, IsFiniteSet(S), NEW f, S # {}
  PROVE  SumFunctionOnSet(f, S) = f[Pick(S)] + SumFunctionOnSet(f, S \ {Pick(S)})
<1> DEFINE R == S \ {Pick(S)}
           g == CHOOSE h : Adds(f, S, h)
           r == CHOOSE h : Adds(f, R, h)
<1>1. Adds(f, S, g)
  BY AddsExists
<1>2. IsFiniteSet(R)
  BY FS_Subset
<1>3. Adds(f, R, r)
  <2> HIDE DEF R
  <2> QED BY <1>2, AddsExists
<1>4. g[S] = f[Pick(S)] + g[R]
  BY <1>1 DEF Adds
<1>5. R \subseteq S /\ R \in SUBSET (S \cap R)
  OBVIOUS
<1>6. g[R] = r[R]
  <2> HIDE DEF R, g, r
  <2> QED BY <1>1, <1>3, <1>5, AddsUnique
<1>7. SumFunctionOnSet(f, S) = g[S] /\ SumFunctionOnSet(f, R) = r[R]
  BY SumIsFold
<1> QED
  BY <1>4, <1>6, <1>7

\* Integers add up to an integer.
LEMMA SumInt ==
  ASSUME NEW S, IsFiniteSet(S), NEW f, \A x \in S : f[x] \in Int
  PROVE  SumFunctionOnSet(f, S) \in Int
<1> DEFINE Bad == {T \in SUBSET S : SumFunctionOnSet(f, T) \notin Int}
<1>1. SUFFICES ASSUME Bad # {} PROVE FALSE
  OBVIOUS
<1>2. Bad \in SUBSET SUBSET S
  OBVIOUS
<1>3. PICK T \in Bad : \A U \in SUBSET T : U # T => U \notin Bad
  <2> HIDE DEF Bad
  <2> QED BY <1>1, <1>2, SmallestSet
<1>4. T # {}
  BY SumEmpty
<1>5. IsFiniteSet(T)
  BY FS_Subset
<1>6. SumFunctionOnSet(f, T) = f[Pick(T)] + SumFunctionOnSet(f, T \ {Pick(T)})
  BY <1>4, <1>5, SumPick
<1>7. Pick(T) \in S /\ T \ {Pick(T)} \notin Bad
  BY <1>3, <1>4, PickIn
<1>8. SumFunctionOnSet(f, T \ {Pick(T)}) \in Int
  BY <1>7
<1> QED
  BY <1>6, <1>7, <1>8

\* The element taken out may be any: the sum does not depend on the order.
LEMMA SumTakeOut ==
  ASSUME NEW S, IsFiniteSet(S), NEW f, \A x \in S : f[x] \in Int, NEW e \in S
  PROVE  SumFunctionOnSet(f, S) = f[e] + SumFunctionOnSet(f, S \ {e})
<1> DEFINE Sum(T) == SumFunctionOnSet(f, T)
           Bad == {T \in SUBSET S : \E x \in T : Sum(T) # f[x] + Sum(T \ {x})}
<1>1. SUFFICES ASSUME Bad # {} PROVE FALSE
  BY DEF Bad
<1>2. Bad \in SUBSET SUBSET S
  OBVIOUS
<1>3. PICK T \in Bad : \A U \in SUBSET T : U # T => U \notin Bad
  <2> HIDE DEF Bad
  <2> QED BY <1>1, <1>2, SmallestSet
<1>4. PICK x \in T : Sum(T) # f[x] + Sum(T \ {x})
  BY <1>3
<1> DEFINE y == Pick(T)
<1>5. y \in T
  BY PickIn
<1>6. \A U \in SUBSET T : IsFiniteSet(U)
  BY FS_Subset
<1>7. Sum(T) = f[y] + Sum(T \ {y})
  BY <1>4, <1>6, SumPick
<1>8. x # y
  BY <1>4, <1>7
<1> HIDE DEF y
<1>9. /\ Sum(T \ {y}) = f[x] + Sum((T \ {y}) \ {x})
      /\ Sum(T \ {x}) = f[y] + Sum((T \ {x}) \ {y})
  <2>1. T \ {y} \notin Bad /\ T \ {x} \notin Bad
    BY <1>3, <1>4, <1>5
  <2> QED
    BY <2>1, <1>4, <1>5, <1>8
<1>10. (T \ {y}) \ {x} = (T \ {x}) \ {y}
  OBVIOUS
<1>11. Sum((T \ {x}) \ {y}) \in Int
  <2>1. IsFiniteSet((T \ {x}) \ {y})
    BY <1>6
  <2> QED
    BY <2>1, SumInt
<1>12. f[x] \in Int /\ f[y] \in Int
  BY <1>5
<1> DEFINE rest == Sum((T \ {x}) \ {y})
<1>13. /\ Sum(T) = f[y] + (f[x] + rest)
       /\ f[x] + Sum(T \ {x}) = f[x] + (f[y] + rest)
  BY <1>7, <1>9, <1>10
<1>14. f[y] + (f[x] + rest) = f[x] + (f[y] + rest)
  <2> HIDE DEF rest
  <2> QED BY <1>11, <1>12 DEF rest
<1> QED
  BY <1>4, <1>13, <1>14

\* Functions that agree on the set have the same sum.
LEMMA SumAgrees ==
  ASSUME NEW S, IsFiniteSet(S), NEW f, NEW g, \A x \in S : f[x] = g[x]
  PROVE  SumFunctionOnSet(f, S) = SumFunctionOnSet(g, S)
<1> DEFINE Bad == {T \in SUBSET S : SumFunctionOnSet(f, T) # SumFunctionOnSet(g, T)}
<1>1. SUFFICES ASSUME Bad # {} PROVE FALSE
  OBVIOUS
<1>2. Bad \in SUBSET SUBSET S
  OBVIOUS
<1>3. PICK T \in Bad : \A U \in SUBSET T : U # T => U \notin Bad
  <2> HIDE DEF Bad
  <2> QED BY <1>1, <1>2, SmallestSet
<1>4. T # {}
  BY SumEmpty
<1>5. IsFiniteSet(T)
  BY FS_Subset
<1>6. /\ SumFunctionOnSet(f, T) = f[Pick(T)] + SumFunctionOnSet(f, T \ {Pick(T)})
      /\ SumFunctionOnSet(g, T) = g[Pick(T)] + SumFunctionOnSet(g, T \ {Pick(T)})
  BY <1>4, <1>5, SumPick
<1>7. Pick(T) \in S /\ T \ {Pick(T)} \notin Bad
  BY <1>3, <1>4, PickIn
<1> QED
  BY <1>6, <1>7

\* Smaller values add up to a smaller sum.
LEMMA SumMonotone ==
  ASSUME NEW S, IsFiniteSet(S), NEW f, NEW g,
         \A x \in S : f[x] \in Int /\ g[x] \in Int /\ f[x] <= g[x]
  PROVE  SumFunctionOnSet(f, S) <= SumFunctionOnSet(g, S)
<1> DEFINE Bad == {T \in SUBSET S : ~(SumFunctionOnSet(f, T) <= SumFunctionOnSet(g, T))}
<1>1. SUFFICES ASSUME Bad # {} PROVE FALSE
  OBVIOUS
<1>2. Bad \in SUBSET SUBSET S
  OBVIOUS
<1>3. PICK T \in Bad : \A U \in SUBSET T : U # T => U \notin Bad
  <2> HIDE DEF Bad
  <2> QED BY <1>1, <1>2, SmallestSet
<1>4. T # {}
  BY SumEmpty
<1>5. \A U \in SUBSET T : IsFiniteSet(U)
  BY FS_Subset
<1>6. /\ SumFunctionOnSet(f, T) = f[Pick(T)] + SumFunctionOnSet(f, T \ {Pick(T)})
      /\ SumFunctionOnSet(g, T) = g[Pick(T)] + SumFunctionOnSet(g, T \ {Pick(T)})
  BY <1>4, <1>5, SumPick
<1>7. Pick(T) \in S /\ T \ {Pick(T)} \notin Bad
  BY <1>3, <1>4, PickIn
<1>8. /\ SumFunctionOnSet(f, T \ {Pick(T)}) \in Int
      /\ SumFunctionOnSet(g, T \ {Pick(T)}) \in Int
  <2>1. IsFiniteSet(T \ {Pick(T)})
    BY <1>5
  <2> QED
    BY <2>1, SumInt
<1> QED
  BY <1>6, <1>7, <1>8

\* Zeros add up to zero.
LEMMA SumZero ==
  ASSUME NEW S, IsFiniteSet(S), NEW f, \A x \in S : f[x] = 0
  PROVE  SumFunctionOnSet(f, S) = 0
<1> DEFINE Bad == {T \in SUBSET S : SumFunctionOnSet(f, T) # 0}
<1>1. SUFFICES ASSUME Bad # {} PROVE FALSE
  OBVIOUS
<1>2. Bad \in SUBSET SUBSET S
  OBVIOUS
<1>3. PICK T \in Bad : \A U \in SUBSET T : U # T => U \notin Bad
  <2> HIDE DEF Bad
  <2> QED BY <1>1, <1>2, SmallestSet
<1>4. T # {}
  BY SumEmpty
<1>5. IsFiniteSet(T)
  BY FS_Subset
<1>6. SumFunctionOnSet(f, T) = f[Pick(T)] + SumFunctionOnSet(f, T \ {Pick(T)})
  BY <1>4, <1>5, SumPick
<1>7. Pick(T) \in S /\ T \ {Pick(T)} \notin Bad
  BY <1>3, <1>4, PickIn
<1> QED
  BY <1>6, <1>7

\* Naturals add up to a natural, and none is more than the sum.
LEMMA SumNat ==
  ASSUME NEW S, IsFiniteSet(S), NEW f, \A x \in S : f[x] \in Nat
  PROVE  /\ SumFunctionOnSet(f, S) \in Nat
         /\ \A x \in S : f[x] <= SumFunctionOnSet(f, S)
<1> DEFINE z == [x \in S |-> 0]
<1>1. \A T \in SUBSET S : SumFunctionOnSet(f, T) \in Nat
  <2> TAKE T \in SUBSET S
  <2>1. IsFiniteSet(T)
    BY FS_Subset
  <2>2. SumFunctionOnSet(f, T) \in Int
    BY <2>1, SumInt
  <2>3. SumFunctionOnSet(z, T) = 0
    BY <2>1, SumZero
  <2>4. SumFunctionOnSet(z, T) <= SumFunctionOnSet(f, T)
    <3>1. \A x \in T : z[x] \in Int /\ f[x] \in Int /\ z[x] <= f[x]
      OBVIOUS
    <3> HIDE DEF z
    <3> QED
      BY <2>1, <3>1, SumMonotone
  <2> QED
    BY <2>2, <2>3, <2>4
<1>2. ASSUME NEW x \in S PROVE f[x] <= SumFunctionOnSet(f, S)
  <2>1. SumFunctionOnSet(f, S) = f[x] + SumFunctionOnSet(f, S \ {x})
    BY SumTakeOut
  <2>2. SumFunctionOnSet(f, S \ {x}) \in Nat
    BY <1>1
  <2> QED
    BY <2>1, <2>2
<1> QED
  BY <1>1, <1>2

\* One value changes: the sum changes by as much.
LEMMA SumChange ==
  ASSUME NEW S, IsFiniteSet(S), NEW f, NEW g, NEW e \in S,
         \A x \in S : f[x] \in Int /\ g[x] \in Int,
         \A x \in S \ {e} : f[x] = g[x]
  PROVE  SumFunctionOnSet(g, S) = SumFunctionOnSet(f, S) - f[e] + g[e]
<1>1. IsFiniteSet(S \ {e})
  BY FS_Subset
<1>2. /\ SumFunctionOnSet(f, S) = f[e] + SumFunctionOnSet(f, S \ {e})
      /\ SumFunctionOnSet(g, S) = g[e] + SumFunctionOnSet(g, S \ {e})
  BY SumTakeOut
<1>3. SumFunctionOnSet(f, S \ {e}) = SumFunctionOnSet(g, S \ {e})
  BY <1>1, SumAgrees
<1>4. SumFunctionOnSet(g, S \ {e}) \in Int
  BY <1>1, SumInt
<1> QED
  BY <1>2, <1>3, <1>4

=============================================================================
