--------------------------------- MODULE Sums ---------------------------------
(***************************************************************************)
(* Sums over finite sets (SumFunctionOnSet of the community modules): the  *)
(* laws by which amounts of rows add up, whatever the order the fold takes *)
(* them in.  The provers have no induction over data; a smallest subset on *)
(* which a law would fail takes its place.                                 *)
(***************************************************************************)
EXTENDS Integers, FiniteSets, Functions, FiniteSetTheorems, WellFoundedInduction, TLAPS

\* The element a fold takes first.
Pick(T) == CHOOSE x \in T : TRUE

\* sum is the recursive function of the fold, on the subsets of S.
Adds(f, S, sum) ==
    sum = [T \in SUBSET S |-> IF T = {} THEN 0 ELSE f[Pick(T)] + sum[T \ {Pick(T)}]]

\* A sum, written out.
LEMMA SumIs == ASSUME NEW f, NEW S PROVE SumFunctionOnSet(f, S) = (CHOOSE sum : Adds(f, S, sum))[S]
BY DEF SumFunctionOnSet, FoldFunctionOnSet, MapThenFoldSet, Adds, Pick

\* Of finite sets, one that is minimal.
LEMMA LeastSubset ==
    ASSUME NEW S, IsFiniteSet(S), NEW B, B \subseteq SUBSET S, B # {}
    PROVE  \E T \in B : T \subseteq S /\ \A U \in SUBSET T : U # T => U \notin B
<1>1. IsWellFoundedOn(StrictSubsetOrdering(S), SUBSET S)
  BY FS_StrictSubsetOrderingWellFounded, FS_FiniteSubsetsOfFinite
<1>2. PICK T \in B : \A U \in B : <<U, T>> \notin StrictSubsetOrdering(S)
  BY <1>1, WFMin
<1>3. T \subseteq S
  BY <1>2
<1>4. ASSUME NEW U \in SUBSET T, U # T, U \in B PROVE FALSE
  BY <1>2, <1>3, <1>4 DEF StrictSubsetOrdering
<1> QED
  BY <1>2, <1>3, <1>4

\* It is one of the set.
LEMMA Picks == ASSUME NEW T, T # {} PROVE Pick(T) \in T
BY DEF Pick

\* Two recursive functions agree where both are defined.
LEMMA OneSum ==
    ASSUME NEW f, NEW S, IsFiniteSet(S), NEW R, NEW g, NEW h, Adds(f, S, g), Adds(f, R, h),
           NEW V \in SUBSET S, V \subseteq R
    PROVE  g[V] = h[V]
<1> SUFFICES ASSUME g[V] # h[V] PROVE FALSE
  OBVIOUS
<1> DEFINE B == {T \in SUBSET S : T \subseteq R /\ g[T] # h[T]}
<1>1. PICK T \in B : T \subseteq S /\ \A U \in SUBSET T : U # T => U \notin B
  <2>1. B \subseteq SUBSET S /\ B # {}
    OBVIOUS
  <2> HIDE DEF B
  <2> QED
    BY <2>1, LeastSubset
<1>2. /\ g[T] = IF T = {} THEN 0 ELSE f[Pick(T)] + g[T \ {Pick(T)}]
      /\ h[T] = IF T = {} THEN 0 ELSE f[Pick(T)] + h[T \ {Pick(T)}]
  BY <1>1 DEF Adds
<1>3. T # {}
  BY <1>1, <1>2
<1>4. T \ {Pick(T)} \in SUBSET T /\ T \ {Pick(T)} # T
  BY <1>3, Picks
<1>5. g[T \ {Pick(T)}] = h[T \ {Pick(T)}]
  BY <1>1, <1>4
<1> QED
  BY <1>1, <1>2, <1>5

\* What such a function, if there is one, says of the whole set.
Total(f, S) == (CHOOSE sum : Adds(f, S, sum))[S]

\* The recursion has a solution.
LEMMA SumExists == ASSUME NEW f, NEW S, IsFiniteSet(S) PROVE \E g : Adds(f, S, g)
<1> SUFFICES ASSUME ~\E g : Adds(f, S, g) PROVE FALSE
  OBVIOUS
<1> DEFINE B == {T \in SUBSET S : ~\E g : Adds(f, T, g)}
<1>1. PICK T \in B : T \subseteq S /\ \A U \in SUBSET T : U # T => U \notin B
  <2>1. B \subseteq SUBSET S /\ B # {}
    OBVIOUS
  <2> HIDE DEF B
  <2> QED
    BY <2>1, LeastSubset
<1>2. ~\E g : Adds(f, T, g)
  BY <1>1
<1>3. ASSUME NEW U \in SUBSET T, U # T PROVE Adds(f, U, CHOOSE g : Adds(f, U, g)) /\ IsFiniteSet(U)
  BY <1>1, <1>3, FS_Subset
<1>4. ASSUME NEW U \in SUBSET T, U # T
      PROVE  Total(f, U) = IF U = {} THEN 0 ELSE f[Pick(U)] + Total(f, U \ {Pick(U)})
  <2>1. PICK g : g = CHOOSE sum : Adds(f, U, sum)
    OBVIOUS
  <2>2. Adds(f, U, g) /\ IsFiniteSet(U)
    BY <1>3, <1>4, <2>1
  <2>3. g[U] = IF U = {} THEN 0 ELSE f[Pick(U)] + g[U \ {Pick(U)}]
    BY <2>2 DEF Adds
  <2>4. CASE U # {}
    <3>1. PICK V : V = U \ {Pick(U)}
      OBVIOUS
    <3>2. V \in SUBSET T /\ V # T /\ V \in SUBSET U
      BY <3>1, <1>4
    <3>3. PICK h : h = CHOOSE sum : Adds(f, V, sum)
      OBVIOUS
    <3>4. Adds(f, V, h)
      BY <1>3, <3>2, <3>3
    <3>5. g[V] = h[V]
      BY <2>2, <3>2, <3>4, OneSum
    <3> QED
      BY <2>1, <2>3, <2>4, <3>1, <3>3, <3>5 DEF Total
  <2>5. CASE U = {}
    BY <2>1, <2>3, <2>5 DEF Total
  <2> QED
    BY <2>4, <2>5
<1> DEFINE G == [U \in SUBSET T |-> IF U = {} THEN 0 ELSE f[Pick(U)] + Total(f, U \ {Pick(U)})]
<1>5. ASSUME NEW U \in SUBSET T, U # {} PROVE Total(f, U \ {Pick(U)}) = G[U \ {Pick(U)}]
  <2>1. PICK V : V = U \ {Pick(U)}
    OBVIOUS
  <2>2. V \in SUBSET T /\ V # T
    BY <1>5, <2>1, Picks
  <2>3. Total(f, V) = G[V]
    BY <2>2, <1>4
  <2> QED
    BY <2>1, <2>3
<1>6. G = [U \in SUBSET T |-> IF U = {} THEN 0 ELSE f[Pick(U)] + G[U \ {Pick(U)}]]
  BY <1>5
<1> HIDE DEF G
<1>7. Adds(f, T, G)
  BY <1>6 DEF Adds
<1> QED
  BY <1>2, <1>7

\* The sum over a set is a value picked from it and the sum over the rest.
LEMMA SumPick ==
    ASSUME NEW f, NEW S, IsFiniteSet(S), S # {}
    PROVE  SumFunctionOnSet(f, S) = f[Pick(S)] + SumFunctionOnSet(f, S \ {Pick(S)})
<1>1. PICK g : g = CHOOSE sum : Adds(f, S, sum)
  OBVIOUS
<1>2. PICK V : V = S \ {Pick(S)}
  OBVIOUS
<1>3. PICK h : h = CHOOSE sum : Adds(f, V, sum)
  OBVIOUS
<1>4. Adds(f, S, g) /\ Adds(f, V, h) /\ V \in SUBSET S
  BY <1>1, <1>2, <1>3, SumExists, FS_RemoveElement
<1>5. g[V] = h[V]
  BY <1>4, OneSum
<1>6. g[S] = f[Pick(S)] + g[V]
  BY <1>2, <1>4 DEF Adds
<1> QED
  BY <1>1, <1>2, <1>3, <1>5, <1>6, SumIs

\* Nothing adds up to zero.
LEMMA SumEmpty == ASSUME NEW f PROVE SumFunctionOnSet(f, {}) = 0
<1>1. PICK g : g = CHOOSE sum : Adds(f, {}, sum)
  OBVIOUS
<1>2. Adds(f, {}, g)
  BY <1>1, SumExists, FS_EmptySet
<1>3. g[{}] = 0
  BY <1>2 DEF Adds
<1> QED
  BY <1>1, <1>3, SumIs

\* Sums of integers are integers.
LEMMA SumType ==
    ASSUME NEW f, NEW S, IsFiniteSet(S), \A x \in S : f[x] \in Int
    PROVE  SumFunctionOnSet(f, S) \in Int
<1> SUFFICES ASSUME SumFunctionOnSet(f, S) \notin Int PROVE FALSE
  OBVIOUS
<1> DEFINE B == {T \in SUBSET S : SumFunctionOnSet(f, T) \notin Int}
<1>1. PICK T \in B : T \subseteq S /\ \A U \in SUBSET T : U # T => U \notin B
  <2>1. B \subseteq SUBSET S /\ B # {}
    OBVIOUS
  <2> HIDE DEF B
  <2> QED
    BY <2>1, LeastSubset
<1>2. T # {} /\ IsFiniteSet(T)
  <2>1. ASSUME T = {} PROVE FALSE
    BY <1>1, <2>1, SumEmpty
  <2> QED
    BY <1>1, <2>1, FS_Subset
<1>3. PICK c : c = Pick(T)
  OBVIOUS
<1>4. c \in T /\ SumFunctionOnSet(f, T) = f[c] + SumFunctionOnSet(f, T \ {c})
  BY <1>2, <1>3, SumPick, Picks
<1>5. SumFunctionOnSet(f, T \ {c}) \in Int
  BY <1>1, <1>4
<1>6. f[c] \in Int /\ SumFunctionOnSet(f, T) \notin Int
  BY <1>1, <1>4
<1> HIDE DEF B
<1> QED
  BY <1>4, <1>5, <1>6

\* Any value may be taken out of a sum.
LEMMA SumRemove ==
    ASSUME NEW f, NEW S, IsFiniteSet(S), \A x \in S : f[x] \in Int, NEW x \in S
    PROVE  SumFunctionOnSet(f, S) = f[x] + SumFunctionOnSet(f, S \ {x})
<1> SUFFICES ASSUME SumFunctionOnSet(f, S) # f[x] + SumFunctionOnSet(f, S \ {x}) PROVE FALSE
  OBVIOUS
<1> DEFINE B == {T \in SUBSET S : \E y \in T : SumFunctionOnSet(f, T) # f[y] + SumFunctionOnSet(f, T \ {y})}
<1>1. PICK T \in B : T \subseteq S /\ \A U \in SUBSET T : U # T => U \notin B
  <2>1. B \subseteq SUBSET S /\ B # {}
    OBVIOUS
  <2> HIDE DEF B
  <2> QED
    BY <2>1, LeastSubset
<1>2. PICK y \in T : SumFunctionOnSet(f, T) # f[y] + SumFunctionOnSet(f, T \ {y})
  BY <1>1
<1>3. PICK c : c = Pick(T)
  OBVIOUS
<1>4. IsFiniteSet(T) /\ c \in T /\ SumFunctionOnSet(f, T) = f[c] + SumFunctionOnSet(f, T \ {c})
  BY <1>1, <1>2, <1>3, FS_Subset, SumPick, Picks
<1>5. c # y
  BY <1>2, <1>4
<1>6. SumFunctionOnSet(f, T \ {c}) = f[y] + SumFunctionOnSet(f, (T \ {c}) \ {y})
  BY <1>1, <1>2, <1>4, <1>5
<1>7. SumFunctionOnSet(f, T \ {y}) = f[c] + SumFunctionOnSet(f, (T \ {y}) \ {c})
  BY <1>1, <1>2, <1>4, <1>5
<1>8. (T \ {c}) \ {y} = (T \ {y}) \ {c}
  OBVIOUS
<1>9. IsFiniteSet((T \ {c}) \ {y}) /\ \A z \in (T \ {c}) \ {y} : f[z] \in Int
  BY <1>1, <1>4, FS_RemoveElement
<1>10. SumFunctionOnSet(f, (T \ {c}) \ {y}) \in Int
  BY <1>9, SumType
<1> HIDE DEF B
<1>11. f[y] \in Int /\ f[c] \in Int
  BY <1>1, <1>2, <1>4
<1>12. PICK k \in Int : k = SumFunctionOnSet(f, (T \ {c}) \ {y})
  BY <1>10
<1>13. SumFunctionOnSet(f, T \ {c}) = f[y] + k /\ SumFunctionOnSet(f, T \ {y}) = f[c] + k
  BY <1>6, <1>7, <1>8, <1>12
<1>14. SumFunctionOnSet(f, T) = f[c] + (f[y] + k)
  BY <1>4, <1>13
<1>15. SumFunctionOnSet(f, T) # f[y] + (f[c] + k)
  BY <1>2, <1>13
<1> QED
  BY <1>11, <1>12, <1>14, <1>15

\* A value more.
LEMMA SumAdd ==
    ASSUME NEW f, NEW S, IsFiniteSet(S), NEW x, x \notin S, \A y \in S : f[y] \in Int, f[x] \in Int
    PROVE  SumFunctionOnSet(f, S \union {x}) = f[x] + SumFunctionOnSet(f, S)
<1>1. IsFiniteSet(S \union {x}) /\ (S \union {x}) \ {x} = S
  BY FS_AddElement
<1>2. SumFunctionOnSet(f, S \union {x}) = f[x] + SumFunctionOnSet(f, (S \union {x}) \ {x})
  BY <1>1, SumRemove
<1> QED
  BY <1>1, <1>2

\* Sums depend on the values alone; under a bijection of the indices too.
LEMMA SumBijection ==
    ASSUME NEW f, NEW S, IsFiniteSet(S), \A x \in S : f[x] \in Int, NEW g, NEW R, NEW b,
           DOMAIN b = S, \A x \in S : b[x] \in R /\ f[x] = g[b[x]],
           \A x, y \in S : b[x] = b[y] => x = y, \A r \in R : \E x \in S : b[x] = r
    PROVE  SumFunctionOnSet(f, S) = SumFunctionOnSet(g, R)
<1> SUFFICES ASSUME SumFunctionOnSet(f, S) # SumFunctionOnSet(g, R) PROVE FALSE
  OBVIOUS
<1> DEFINE Image(T) == {b[x] : x \in T}
<1> DEFINE B == {T \in SUBSET S : SumFunctionOnSet(f, T) # SumFunctionOnSet(g, Image(T))}
<1>1. PICK T \in B : T \subseteq S /\ \A U \in SUBSET T : U # T => U \notin B
  <2>1. Image(S) = R
    OBVIOUS
  <2>2. B \subseteq SUBSET S /\ B # {}
    BY <2>1
  <2> HIDE DEF B
  <2> QED
    BY <2>2, LeastSubset
<1>2. T # {}
  <2>1. ASSUME T = {} PROVE FALSE
    <3>1. Image(T) = {} /\ SumFunctionOnSet(f, T) # SumFunctionOnSet(g, Image(T))
      BY <1>1, <2>1
    <3> HIDE DEF Image
    <3> QED
      BY <2>1, <3>1, SumEmpty
  <2> QED
    BY <2>1
<1>3. PICK c : c \in T
  BY <1>2
<1>4. SumFunctionOnSet(f, T) = f[c] + SumFunctionOnSet(f, T \ {c})
  BY <1>1, <1>3, SumRemove, FS_Subset
<1>5. SumFunctionOnSet(f, T \ {c}) = SumFunctionOnSet(g, Image(T \ {c}))
  BY <1>1, <1>3
<1>6. Image(T \ {c}) = Image(T) \ {b[c]} /\ b[c] \in Image(T)
  BY <1>1, <1>3
<1>7. IsFiniteSet(Image(T))
  <2>1. IsFiniteSet(T)
    BY <1>1, FS_Subset
  <2>2. [x \in T |-> b[x]] \in Surjection(T, Image(T))
    BY DEF Surjection
  <2> HIDE DEF Image
  <2> QED
    BY <2>1, <2>2, FS_Surjection
<1>8. \A r \in Image(T) : g[r] \in Int
  BY <1>1
<1>9. SumFunctionOnSet(g, Image(T)) = g[b[c]] + SumFunctionOnSet(g, Image(T) \ {b[c]})
  <2> HIDE DEF Image
  <2> QED
    BY <1>6, <1>7, <1>8, SumRemove
<1>10. SumFunctionOnSet(f, T) # SumFunctionOnSet(g, Image(T)) /\ f[c] = g[b[c]]
  BY <1>1, <1>3
<1> HIDE DEF B, Image
<1> QED
  BY <1>4, <1>5, <1>6, <1>9, <1>10

\* Functions that agree on a set have the same sum over it.
LEMMA SumAgrees ==
    ASSUME NEW f, NEW g, NEW S, IsFiniteSet(S), \A x \in S : f[x] = g[x] /\ f[x] \in Int
    PROVE  SumFunctionOnSet(f, S) = SumFunctionOnSet(g, S)
<1>1. PICK b : b = [x \in S |-> x]
  OBVIOUS
<1>2. DOMAIN b = S /\ \A x \in S : b[x] = x
  BY <1>1
<1> QED
  BY <1>2, SumBijection

\* Sums add up.
LEMMA SumPlus ==
    ASSUME NEW f, NEW g, NEW h, NEW S, IsFiniteSet(S),
           \A x \in S : f[x] \in Int /\ g[x] \in Int /\ h[x] = f[x] + g[x]
    PROVE  SumFunctionOnSet(h, S) = SumFunctionOnSet(f, S) + SumFunctionOnSet(g, S)
<1> SUFFICES ASSUME SumFunctionOnSet(h, S) # SumFunctionOnSet(f, S) + SumFunctionOnSet(g, S) PROVE FALSE
  OBVIOUS
<1> DEFINE B == {T \in SUBSET S : SumFunctionOnSet(h, T) # SumFunctionOnSet(f, T) + SumFunctionOnSet(g, T)}
<1>1. PICK T \in B : T \subseteq S /\ \A U \in SUBSET T : U # T => U \notin B
  <2>1. B \subseteq SUBSET S /\ B # {}
    OBVIOUS
  <2> HIDE DEF B
  <2> QED
    BY <2>1, LeastSubset
<1>2. T # {}
  <2>1. ASSUME T = {} PROVE FALSE
    BY <1>1, <2>1, SumEmpty
  <2> QED
    BY <2>1
<1>3. PICK c : c \in T
  BY <1>2
<1>4. IsFiniteSet(T) /\ IsFiniteSet(T \ {c})
  BY <1>1, FS_Subset, FS_RemoveElement
<1>5. \A x \in T : h[x] \in Int /\ f[x] \in Int /\ g[x] \in Int
  BY <1>1
<1>6. /\ SumFunctionOnSet(h, T) = h[c] + SumFunctionOnSet(h, T \ {c})
      /\ SumFunctionOnSet(f, T) = f[c] + SumFunctionOnSet(f, T \ {c})
      /\ SumFunctionOnSet(g, T) = g[c] + SumFunctionOnSet(g, T \ {c})
  BY <1>3, <1>4, <1>5, SumRemove
<1>7. SumFunctionOnSet(h, T \ {c}) = SumFunctionOnSet(f, T \ {c}) + SumFunctionOnSet(g, T \ {c})
  BY <1>1, <1>3
<1>8. SumFunctionOnSet(f, T \ {c}) \in Int /\ SumFunctionOnSet(g, T \ {c}) \in Int
  BY <1>4, <1>5, SumType
<1>9. h[c] = f[c] + g[c] /\ f[c] \in Int /\ g[c] \in Int
  BY <1>1, <1>3
<1>10. SumFunctionOnSet(h, T) # SumFunctionOnSet(f, T) + SumFunctionOnSet(g, T)
  BY <1>1
<1> HIDE DEF B
<1> QED
  BY <1>6, <1>7, <1>8, <1>9, <1>10

\* The sum over two disjoint sets.
LEMMA SumUnion ==
    ASSUME NEW f, NEW R, NEW S, IsFiniteSet(R), IsFiniteSet(S), R \intersect S = {},
           \A x \in R \union S : f[x] \in Int
    PROVE  SumFunctionOnSet(f, R \union S) = SumFunctionOnSet(f, R) + SumFunctionOnSet(f, S)
<1> SUFFICES ASSUME SumFunctionOnSet(f, R \union S) # SumFunctionOnSet(f, R) + SumFunctionOnSet(f, S)
             PROVE  FALSE
  OBVIOUS
<1> DEFINE B == {T \in SUBSET S : SumFunctionOnSet(f, R \union T) #
                                     SumFunctionOnSet(f, R) + SumFunctionOnSet(f, T)}
<1>1. PICK T \in B : T \subseteq S /\ \A U \in SUBSET T : U # T => U \notin B
  <2>1. B \subseteq SUBSET S /\ B # {}
    OBVIOUS
  <2> HIDE DEF B
  <2> QED
    BY <2>1, LeastSubset
<1>2. SumFunctionOnSet(f, R) \in Int
  BY SumType
<1>3. SumFunctionOnSet(f, R \union T) # SumFunctionOnSet(f, R) + SumFunctionOnSet(f, T)
  BY <1>1
<1>4. T # {}
  <2>1. ASSUME T = {} PROVE FALSE
    <3>1. R \union T = R
      BY <2>1
    <3> HIDE DEF B
    <3> QED
      BY <1>2, <1>3, <2>1, <3>1, SumEmpty
  <2> QED
    BY <2>1
<1>5. PICK c : c \in T
  BY <1>4
<1>6. IsFiniteSet(T) /\ IsFiniteSet(T \ {c})
  BY <1>1, FS_Subset, FS_RemoveElement
<1>7. c \notin R /\ (R \union T) \ {c} = R \union (T \ {c}) /\ IsFiniteSet(R \union T)
  BY <1>1, <1>5, <1>6, FS_Union
<1>8. \A x \in R \union T : f[x] \in Int
  BY <1>1
<1>9. /\ SumFunctionOnSet(f, R \union T) = f[c] + SumFunctionOnSet(f, R \union (T \ {c}))
      /\ SumFunctionOnSet(f, T) = f[c] + SumFunctionOnSet(f, T \ {c})
  BY <1>5, <1>6, <1>7, <1>8, SumRemove
<1>10. SumFunctionOnSet(f, R \union (T \ {c})) = SumFunctionOnSet(f, R) + SumFunctionOnSet(f, T \ {c})
  BY <1>1, <1>5
<1>11. SumFunctionOnSet(f, T \ {c}) \in Int /\ f[c] \in Int
  BY <1>5, <1>6, <1>8, SumType
<1> HIDE DEF B
<1> QED
  BY <1>2, <1>3, <1>9, <1>10, <1>11

\* A sum of values none of which is negative is not.
LEMMA SumNat ==
    ASSUME NEW f, NEW S, IsFiniteSet(S), \A x \in S : f[x] \in Nat
    PROVE  SumFunctionOnSet(f, S) \in Nat
<1> SUFFICES ASSUME SumFunctionOnSet(f, S) \notin Nat PROVE FALSE
  OBVIOUS
<1> DEFINE B == {T \in SUBSET S : SumFunctionOnSet(f, T) \notin Nat}
<1>1. PICK T \in B : T \subseteq S /\ \A U \in SUBSET T : U # T => U \notin B
  <2>1. B \subseteq SUBSET S /\ B # {}
    OBVIOUS
  <2> HIDE DEF B
  <2> QED
    BY <2>1, LeastSubset
<1>2. T # {} /\ IsFiniteSet(T)
  <2>1. ASSUME T = {} PROVE FALSE
    BY <1>1, <2>1, SumEmpty
  <2> QED
    BY <1>1, <2>1, FS_Subset
<1>3. PICK c : c = Pick(T)
  OBVIOUS
<1>4. c \in T /\ SumFunctionOnSet(f, T) = f[c] + SumFunctionOnSet(f, T \ {c})
  BY <1>2, <1>3, SumPick, Picks
<1>5. SumFunctionOnSet(f, T \ {c}) \in Nat
  BY <1>1, <1>4
<1>6. f[c] \in Nat /\ SumFunctionOnSet(f, T) \notin Nat
  BY <1>1, <1>4
<1> HIDE DEF B
<1> QED
  BY <1>4, <1>5, <1>6

\* A sum of rounded tenths is off by what each rounding may lose.
LEMMA SumRounded ==
    ASSUME NEW f, NEW g, NEW S, IsFiniteSet(S), NEW e \in Nat,
           \A x \in S : f[x] \in Int /\ g[x] \in Int /\ 10 * f[x] - g[x] <= e /\ g[x] - 10 * f[x] <= e
    PROVE  /\ 10 * SumFunctionOnSet(f, S) - SumFunctionOnSet(g, S) <= e * Cardinality(S)
           /\ SumFunctionOnSet(g, S) - 10 * SumFunctionOnSet(f, S) <= e * Cardinality(S)
<1> DEFINE Near(T) == /\ 10 * SumFunctionOnSet(f, T) - SumFunctionOnSet(g, T) <= e * Cardinality(T)
                      /\ SumFunctionOnSet(g, T) - 10 * SumFunctionOnSet(f, T) <= e * Cardinality(T)
<1> SUFFICES ASSUME ~Near(S) PROVE FALSE
  OBVIOUS
<1> DEFINE B == {T \in SUBSET S : ~Near(T)}
<1>1. PICK T \in B : T \subseteq S /\ \A U \in SUBSET T : U # T => U \notin B
  <2>1. B \subseteq SUBSET S /\ B # {}
    OBVIOUS
  <2> HIDE DEF B
  <2> QED
    BY <2>1, LeastSubset
<1>2. T # {}
  <2>1. ASSUME T = {} PROVE FALSE
    <3>1. SumFunctionOnSet(f, T) = 0 /\ SumFunctionOnSet(g, T) = 0 /\ Cardinality(T) = 0
      BY <2>1, SumEmpty, FS_EmptySet
    <3>2. Near(T)
      BY <3>1
    <3> QED
      BY <1>1, <3>2
  <2> QED
    BY <2>1
<1>3. PICK c : c \in T
  BY <1>2
<1>4. IsFiniteSet(T) /\ IsFiniteSet(T \ {c}) /\ Cardinality(T \ {c}) = Cardinality(T) - 1
  BY <1>1, <1>3, FS_Subset, FS_RemoveElement
<1>5. \A x \in T : f[x] \in Int /\ g[x] \in Int
  BY <1>1
<1>6. /\ SumFunctionOnSet(f, T) = f[c] + SumFunctionOnSet(f, T \ {c})
      /\ SumFunctionOnSet(g, T) = g[c] + SumFunctionOnSet(g, T \ {c})
  BY <1>3, <1>4, <1>5, SumRemove
<1>7. PICK F \in Int, G \in Int : F = SumFunctionOnSet(f, T \ {c}) /\ G = SumFunctionOnSet(g, T \ {c})
  BY <1>4, <1>5, SumType
<1>8. PICK n \in Nat : n = Cardinality(T \ {c}) /\ Cardinality(T) = n + 1
  BY <1>4, FS_CardinalityType
<1>9. PICK m \in Int : m = e * n /\ e * (n + 1) = m + e
  OBVIOUS
<1>10. Near(T \ {c})
  BY <1>1, <1>3
<1>11. 10 * F - G <= m /\ G - 10 * F <= m
  BY <1>7, <1>8, <1>9, <1>10
<1>12. f[c] \in Int /\ g[c] \in Int /\ 10 * f[c] - g[c] <= e /\ g[c] - 10 * f[c] <= e
  BY <1>1, <1>3
<1>13. 10 * (f[c] + F) - (g[c] + G) <= m + e /\ (g[c] + G) - 10 * (f[c] + F) <= m + e
  BY <1>9, <1>11, <1>12
<1>14. Near(T)
  BY <1>6, <1>7, <1>8, <1>9, <1>13
<1> QED
  BY <1>1, <1>14

\* Zeros add up to zero.
LEMMA SumZero ==
    ASSUME NEW f, NEW S, IsFiniteSet(S), \A x \in S : f[x] = 0
    PROVE  SumFunctionOnSet(f, S) = 0
<1>1. \A x \in S : f[x] \in Int /\ f[x] = f[x] + f[x]
  OBVIOUS
<1>2. SumFunctionOnSet(f, S) = SumFunctionOnSet(f, S) + SumFunctionOnSet(f, S)
  BY <1>1, SumPlus
<1>3. PICK k \in Int : k = SumFunctionOnSet(f, S)
  BY <1>1, SumType
<1>4. k \in Int /\ k = k + k
  BY <1>2, <1>3
<1>5. k = 0
  BY <1>4
<1> QED
  BY <1>3, <1>5

\* A sum with its signs turned.
LEMMA SumNegated ==
    ASSUME NEW f, NEW g, NEW S, IsFiniteSet(S), \A x \in S : f[x] \in Int /\ g[x] = -f[x]
    PROVE  SumFunctionOnSet(g, S) = -SumFunctionOnSet(f, S)
<1>1. PICK zero : zero = [x \in S |-> 0]
  OBVIOUS
<1>2. \A x \in S : g[x] \in Int /\ f[x] \in Int /\ zero[x] = f[x] + g[x]
  BY <1>1
<1>3. SumFunctionOnSet(zero, S) = SumFunctionOnSet(f, S) + SumFunctionOnSet(g, S)
  BY <1>2, SumPlus
<1>4. SumFunctionOnSet(zero, S) = 0
  BY <1>1, SumZero
<1>5. SumFunctionOnSet(f, S) \in Int /\ SumFunctionOnSet(g, S) \in Int
  BY <1>2, SumType
<1> QED
  BY <1>3, <1>4, <1>5

===============================================================================
