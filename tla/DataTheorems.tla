---------------------------- MODULE DataTheorems ----------------------------
(***************************************************************************)
(* What the proofs about the components cite: facts about Go maps, sums    *)
(* over them and unsigned words; about sorting, the order of the collected *)
(* routes and the concatenation of lists; and about folds as loops, whose  *)
(* state before each iteration an invariant can describe.                  *)
(***************************************************************************)
EXTENDS GoMap, RouteList, FiniteSetTheorems, WellFoundedInduction, TLAPS

\* A loop over a list has a last iteration with any property some iteration
\* has: a non-empty set of positions has a largest member.
LEMMA LastPosition ==
    ASSUME NEW n \in Nat, NEW T \in SUBSET (1 .. n), T # {}
    PROVE  \E i \in T : \A j \in T : j <= i
<1> DEFINE U == {n - i : i \in T}
<1>1. U \subseteq Nat /\ U # {}
  <2>1. \A i \in T : n - i \in Nat
    OBVIOUS
  <2>2. U # {}
    <3>1. PICK i \in T : TRUE
      OBVIOUS
    <3>2. n - i \in U
      OBVIOUS
    <3> QED BY <3>2
  <2> QED BY <2>1, <2>2
<1>2. \E x \in U : \A y \in U : ~(<<y, x>> \in OpToRel(<, Nat))
  <2> HIDE DEF U
  <2> QED BY <1>1, NatLessThanWellFounded, WFMin
<1>3. PICK x \in U : \A y \in U : ~(y < x)
  BY <1>1, <1>2 DEF OpToRel
<1>4. PICK i \in T : x = n - i
  BY <1>3
<1>5. \A j \in T : j <= i
  <2> SUFFICES ASSUME NEW j \in T PROVE j <= i
    OBVIOUS
  <2>1. ~(n - j < x)
    BY <1>3
  <2> QED BY <1>4, <2>1
<1> QED BY <1>5

\* Put and Drop keep a map a map.
LEMMA PutIsMap ==
    ASSUME NEW K, NEW V, NEW m, IsMap(m, K, V), NEW k \in K, NEW v \in V
    PROVE  IsMap(Put(m, k, v), K, V)
BY DEF IsMap, Put

\* Deleting a key keeps a map a map.
LEMMA DropIsMap ==
    ASSUME NEW K, NEW V, NEW m, IsMap(m, K, V), NEW k
    PROVE  IsMap(Drop(m, k), K, V)
BY DEF IsMap, Drop

-----------------------------------------------------------------------------
(***************************************************************************)
(* Sums.  The library adds up a function over a set by taking out one      *)
(* element after the other, whichever CHOOSE names.  The provers cannot    *)
(* use its recursive definition as it stands: that the recursion has a     *)
(* solution, that the solution is unique and what it is, follows from      *)
(* looking at a smallest set for which it would fail.                      *)
(***************************************************************************)
\* The element that is taken out of s, and the recursion.
OneOf(s) == CHOOSE x \in s : TRUE
Unfolds(g, f, S) ==
    g = [s \in SUBSET S |-> IF s = {} THEN 0 ELSE f[OneOf(s)] + g[s \ {OneOf(s)}]]

\* The library's sum is the value of the recursion at the whole set.
LEMMA SumIsUnfolded ==
    ASSUME NEW f, NEW S
    PROVE  SumFunctionOnSet(f, S) = (CHOOSE g : Unfolds(g, f, S))[S]
BY DEF SumFunctionOnSet, FoldFunctionOnSet, MapThenFoldSet, Unfolds, OneOf

\* A non-empty set of natural numbers has a least member.
LEMMA LeastNat ==
    ASSUME NEW U \in SUBSET Nat, U # {}
    PROVE  \E x \in U : \A y \in U : x <= y
<1>1. PICK x \in U : \A y \in U : ~(<<y, x>> \in OpToRel(<, Nat))
  BY NatLessThanWellFounded, WFMin
<1>2. \A y \in U : ~(y < x)
  BY <1>1 DEF OpToRel
<1> QED
  BY <1>2

\* Taking an element out of a finite set.
LEMMA OneOut ==
    ASSUME NEW s, IsFiniteSet(s), s # {}
    PROVE  /\ OneOf(s) \in s
           /\ IsFiniteSet(s \ {OneOf(s)})
           /\ Cardinality(s) \in Nat
           /\ Cardinality(s \ {OneOf(s)}) \in Nat
           /\ Cardinality(s \ {OneOf(s)}) = Cardinality(s) - 1
<1>1. OneOf(s) \in s
  BY DEF OneOf
<1> QED
  BY <1>1, FS_RemoveElement, FS_CardinalityType

\* The recursion by which the library adds has a solution over a finite set.
LEMMA UnfoldingExists ==
    ASSUME NEW f, NEW S, IsFiniteSet(S)
    PROVE  \E g : Unfolds(g, f, S)
<1> DEFINE Small(n) == {s \in SUBSET S : Cardinality(s) <= n}
           Up(g, n) == [s \in Small(n) |-> IF s = {} THEN 0 ELSE f[OneOf(s)] + g[s \ {OneOf(s)}]]
           Solved(n) == \E g : g = Up(g, n)
           Bad == {n \in Nat : ~Solved(n)}
<1>1. \A s \in SUBSET S : IsFiniteSet(s) /\ Cardinality(s) \in Nat /\ Cardinality(s) <= Cardinality(S)
  BY FS_Subset, FS_CardinalityType
<1>2. Cardinality(S) \in Nat
  BY FS_CardinalityType
<1>3. Bad = {}
  <2> SUFFICES ASSUME Bad # {} PROVE FALSE
    OBVIOUS
  <2>1. PICK n \in Bad : \A m \in Bad : n <= m
    <3> HIDE DEF Bad
    <3>1. Bad \in SUBSET Nat
      BY DEF Bad
    <3> QED
      BY <3>1, LeastNat
  <2>2. n \in Nat /\ ~Solved(n)
    <3> HIDE DEF Solved
    <3> QED
      OBVIOUS
  <2>3. CASE n = 0
    <3> DEFINE h == [s \in Small(n) |-> 0]
    <3>1. \A s \in Small(n) : s = {}
      BY <1>1, <2>3, FS_EmptySet
    <3>2. h = Up(h, n)
      BY <3>1
    <3> QED
      BY <2>2, <3>2
  <2>4. CASE n # 0
    <3>1. n - 1 \in Nat /\ n - 1 < n
      BY <2>2, <2>4
    <3>2. Solved(n - 1)
      <4> HIDE DEF Solved
      <4> QED
        BY <2>1, <2>2, <3>1
    <3>5. PICK g : g = Up(g, n - 1)
      BY <3>2
    <3> DEFINE h == Up(g, n)
    <3>3. ASSUME NEW s \in Small(n), s # {}
          PROVE  h[s \ {OneOf(s)}] = g[s \ {OneOf(s)}]
      <4> DEFINE t == s \ {OneOf(s)}
      <4>1. t \in Small(n - 1) /\ t \in Small(n)
        <5>1. Cardinality(t) = Cardinality(s) - 1 /\ Cardinality(t) \in Nat /\ Cardinality(s) \in Nat
          BY <3>3, <1>1, OneOut
        <5>2. Cardinality(s) <= n
          OBVIOUS
        <5>3. t \in SUBSET S
          OBVIOUS
        <5> HIDE DEF t
        <5> QED
          BY <5>1, <5>2, <5>3, <2>2
      <4>2. g[t] = IF t = {} THEN 0 ELSE f[OneOf(t)] + g[t \ {OneOf(t)}]
        <5> HIDE DEF t, Small
        <5> QED
          BY <3>5, <4>1
      <4>3. h[t] = IF t = {} THEN 0 ELSE f[OneOf(t)] + g[t \ {OneOf(t)}]
        <5> HIDE DEF t, Small
        <5> QED
          BY <4>1
      <4> QED
        BY <4>2, <4>3
    <3>4. h = Up(h, n)
      <4> SUFFICES ASSUME NEW s \in Small(n)
                   PROVE  (IF s = {} THEN 0 ELSE f[OneOf(s)] + g[s \ {OneOf(s)}])
                          = (IF s = {} THEN 0 ELSE f[OneOf(s)] + h[s \ {OneOf(s)}])
        OBVIOUS
      <4> HIDE DEF h, Small
      <4> QED
        BY <3>3
    <3> QED
      BY <2>2, <3>4
  <2> QED
    BY <2>3, <2>4
<1>4. Solved(Cardinality(S))
  <2> HIDE DEF Solved
  <2> QED
    BY <1>2, <1>3
<1>6. PICK g : g = Up(g, Cardinality(S))
  BY <1>4
<1>5. Small(Cardinality(S)) = SUBSET S
  BY <1>1
<1> QED
  BY <1>5, <1>6 DEF Unfolds

\* Of the subsets of a finite set with some property, one is smallest.
LEMMA SmallestSubset ==
    ASSUME NEW S, IsFiniteSet(S), NEW B \in SUBSET SUBSET S, B # {}
    PROVE  \E s \in B : IsFiniteSet(s) /\ \A t \in B : Cardinality(t) \in Nat /\ Cardinality(s) <= Cardinality(t)
<1> DEFINE U == {Cardinality(s) : s \in B}
<1>1. \A s \in B : IsFiniteSet(s) /\ Cardinality(s) \in Nat
  BY FS_Subset, FS_CardinalityType
<1>2. U \in SUBSET Nat /\ U # {}
  BY <1>1
<1>3. PICK x \in U : \A y \in U : x <= y
  <2> HIDE DEF U
  <2> QED
    BY <1>2, LeastNat
<1>4. PICK s \in B : x = Cardinality(s)
  OBVIOUS
<1> QED
  BY <1>1, <1>3, <1>4

\* Two solutions of the recursion agree wherever both are defined.
LEMMA UnfoldingUnique ==
    ASSUME NEW f, NEW S, IsFiniteSet(S), NEW T, NEW g, NEW h, Unfolds(g, f, S), Unfolds(h, f, T),
           NEW s, s \subseteq S, s \subseteq T
    PROVE  g[s] = h[s]
<1> DEFINE Bad == {t \in SUBSET s : g[t] # h[t]}
<1>1. Bad = {}
  <2> SUFFICES ASSUME Bad # {} PROVE FALSE
    OBVIOUS
  <2>1. IsFiniteSet(s)
    BY FS_Subset
  <2>2. PICK t \in Bad : IsFiniteSet(t) /\ \A u \in Bad : Cardinality(u) \in Nat /\ Cardinality(t) <= Cardinality(u)
    <3>1. Bad \in SUBSET SUBSET s
      OBVIOUS
    <3> HIDE DEF Bad
    <3> QED
      BY <2>1, <3>1, SmallestSubset
  <2>3. t \in SUBSET s /\ g[t] # h[t]
    OBVIOUS
  <2>4. /\ g[t] = IF t = {} THEN 0 ELSE f[OneOf(t)] + g[t \ {OneOf(t)}]
        /\ h[t] = IF t = {} THEN 0 ELSE f[OneOf(t)] + h[t \ {OneOf(t)}]
    BY <2>3 DEF Unfolds
  <2>5. t # {}
    BY <2>3, <2>4
  <2>6. Cardinality(t \ {OneOf(t)}) = Cardinality(t) - 1 /\ Cardinality(t) \in Nat /\ Cardinality(t \ {OneOf(t)}) \in Nat
    BY <2>2, <2>5, OneOut
  <2>7. t \ {OneOf(t)} \notin Bad
    <3> HIDE DEF Bad
    <3> QED
      BY <2>2, <2>6
  <2>8. g[t \ {OneOf(t)}] = h[t \ {OneOf(t)}]
    BY <2>3, <2>7
  <2> QED
    BY <2>3, <2>4, <2>5, <2>8
<1> QED
  BY <1>1

\* The sum over a finite set takes one element out and adds up the rest.
LEMMA SumStep ==
    ASSUME NEW f, NEW S, IsFiniteSet(S)
    PROVE  SumFunctionOnSet(f, S)
           = IF S = {} THEN 0 ELSE f[OneOf(S)] + SumFunctionOnSet(f, S \ {OneOf(S)})
<1> DEFINE g == CHOOSE g : Unfolds(g, f, S)
           R == S \ {OneOf(S)}
           h == CHOOSE h : Unfolds(h, f, R)
<1>1. Unfolds(g, f, S)
  BY UnfoldingExists
<1>2. IsFiniteSet(R)
  BY FS_Subset
<1>3. Unfolds(h, f, R)
  <2> HIDE DEF R
  <2> QED
    BY <1>2, UnfoldingExists
<1>4. SumFunctionOnSet(f, S) = g[S] /\ SumFunctionOnSet(f, R) = h[R]
  <2> HIDE DEF R
  <2> QED
    BY SumIsUnfolded
<1>5. g[R] = h[R]
  <2>1. R \subseteq S
    OBVIOUS
  <2> HIDE DEF R, g, h
  <2> QED
    BY <1>1, <1>3, <2>1, UnfoldingUnique
<1>6. g[S] = IF S = {} THEN 0 ELSE f[OneOf(S)] + g[R]
  <2> HIDE DEF g
  <2> QED
    BY <1>1 DEF Unfolds
<1> HIDE DEF g, h, R
<1> QED
  BY <1>4, <1>5, <1>6 DEF R

\* A sum of natural numbers is a natural number.
LEMMA SumType ==
    ASSUME NEW f, NEW S, IsFiniteSet(S), \A x \in S : f[x] \in Nat
    PROVE  SumFunctionOnSet(f, S) \in Nat
<1> DEFINE Bad == {t \in SUBSET S : SumFunctionOnSet(f, t) \notin Nat}
<1>1. Bad = {}
  <2> SUFFICES ASSUME Bad # {} PROVE FALSE
    OBVIOUS
  <2>1. PICK t \in Bad : IsFiniteSet(t) /\ \A u \in Bad : Cardinality(u) \in Nat /\ Cardinality(t) <= Cardinality(u)
    <3>1. Bad \in SUBSET SUBSET S
      OBVIOUS
    <3> HIDE DEF Bad
    <3> QED
      BY <3>1, SmallestSubset
  <2>2. t \in SUBSET S /\ SumFunctionOnSet(f, t) \notin Nat
    OBVIOUS
  <2>3. SumFunctionOnSet(f, t) = IF t = {} THEN 0 ELSE f[OneOf(t)] + SumFunctionOnSet(f, t \ {OneOf(t)})
    BY <2>1, SumStep
  <2>4. t # {}
    BY <2>2, <2>3
  <2>5. /\ OneOf(t) \in t
        /\ Cardinality(t \ {OneOf(t)}) = Cardinality(t) - 1 /\ Cardinality(t) \in Nat
    BY <2>1, <2>4, OneOut
  <2>6. t \ {OneOf(t)} \notin Bad
    <3> HIDE DEF Bad
    <3> QED
      BY <2>1, <2>5
  <2>7. SumFunctionOnSet(f, t \ {OneOf(t)}) \in Nat
    BY <2>2, <2>6
  <2>8. f[OneOf(t)] \in Nat
    BY <2>2, <2>5
  <2> QED
    BY <2>2, <2>3, <2>4, <2>7, <2>8
<1> QED
  BY <1>1

\* Any element may be the one that is taken out.
LEMMA SumWithout ==
    ASSUME NEW f, NEW S, IsFiniteSet(S), \A x \in S : f[x] \in Nat, NEW z \in S
    PROVE  SumFunctionOnSet(f, S) = f[z] + SumFunctionOnSet(f, S \ {z})
<1> DEFINE Sum(t) == SumFunctionOnSet(f, t)
           Bad == {t \in SUBSET S : \E x \in t : Sum(t) # f[x] + Sum(t \ {x})}
<1> HIDE DEF Sum
<1>1. Bad = {}
  <2> SUFFICES ASSUME Bad # {} PROVE FALSE
    OBVIOUS
  <2>1. PICK t \in Bad : IsFiniteSet(t) /\ \A u \in Bad : Cardinality(u) \in Nat /\ Cardinality(t) <= Cardinality(u)
    <3>1. Bad \in SUBSET SUBSET S
      OBVIOUS
    <3> HIDE DEF Bad
    <3> QED
      BY <3>1, SmallestSubset
  <2>2. t \in SUBSET S
    OBVIOUS
  <2>3. PICK x \in t : Sum(t) # f[x] + Sum(t \ {x})
    OBVIOUS
  <2> DEFINE y == OneOf(t)
  <2>4. y \in t /\ Sum(t) = f[y] + Sum(t \ {y})
    <3>1. t # {}
      BY <2>3
    <3> QED
      BY <2>1, <3>1, SumStep, OneOut DEF Sum
  <2> HIDE DEF y
  <2>5. x # y
    BY <2>3, <2>4
  <2>6. ASSUME NEW u \in SUBSET t, u # t
        PROVE  \A v \in u : Sum(u) = f[v] + Sum(u \ {v})
    <3>1. Cardinality(u) < Cardinality(t) /\ Cardinality(u) \in Nat /\ Cardinality(t) \in Nat
      BY <2>1, <2>6, FS_Subset, FS_CardinalityType
    <3>2. u \notin Bad
      <4> HIDE DEF Bad
      <4> QED
        BY <2>1, <3>1
    <3> QED
      BY <2>2, <3>2
  <2>7. Sum(t \ {y}) = f[x] + Sum((t \ {y}) \ {x})
    BY <2>4, <2>5, <2>6
  <2>8. Sum(t \ {x}) = f[y] + Sum((t \ {x}) \ {y})
    BY <2>4, <2>5, <2>6
  <2>9. (t \ {y}) \ {x} = (t \ {x}) \ {y}
    OBVIOUS
  <2>10. f[x] \in Nat /\ f[y] \in Nat /\ Sum((t \ {x}) \ {y}) \in Nat
    <3>1. IsFiniteSet((t \ {x}) \ {y})
      BY <2>1, FS_Subset
    <3> QED
      BY <2>2, <2>4, <3>1, SumType DEF Sum
  <2> DEFINE rest == Sum((t \ {x}) \ {y})
             a == f[x]
             b == f[y]
  <2>11. Sum(t) = b + (a + rest) /\ Sum(t) # a + (b + rest)
    BY <2>3, <2>4, <2>7, <2>8, <2>9
  <2>12. a \in Nat /\ b \in Nat /\ rest \in Nat
    BY <2>10
  <2> HIDE DEF a, b, rest, Bad
  <2> QED
    BY <2>11, <2>12
<1> QED
  BY <1>1 DEF Sum

\* A sum does not depend on what its terms are called.
LEMMA SumRenamed ==
    ASSUME NEW f, NEW S, IsFiniteSet(S), \A x \in S : f[x] \in Nat,
           NEW e, \A x, y \in S : e[x] = e[y] => x = y,
           NEW g, \A x \in S : g[e[x]] = f[x]
    PROVE  SumFunctionOnSet(g, {e[x] : x \in S}) = SumFunctionOnSet(f, S)
<1> DEFINE To(t) == {e[x] : x \in t}
           Bad == {t \in SUBSET S : SumFunctionOnSet(g, To(t)) # SumFunctionOnSet(f, t)}
<1>1. Bad = {}
  <2> SUFFICES ASSUME Bad # {} PROVE FALSE
    OBVIOUS
  <2>1. PICK t \in Bad : IsFiniteSet(t) /\ \A u \in Bad : Cardinality(u) \in Nat /\ Cardinality(t) <= Cardinality(u)
    <3>1. Bad \in SUBSET SUBSET S
      OBVIOUS
    <3> HIDE DEF Bad
    <3> QED
      BY <3>1, SmallestSubset
  <2>2. t \in SUBSET S /\ SumFunctionOnSet(g, To(t)) # SumFunctionOnSet(f, t)
    OBVIOUS
  <2>3. t # {}
    <3>1. SumFunctionOnSet(g, {}) = 0 /\ SumFunctionOnSet(f, {}) = 0
      BY FS_EmptySet, SumStep
    <3>2. To({}) = {}
      OBVIOUS
    <3> QED
      BY <2>2, <3>1, <3>2
  <2> DEFINE x == OneOf(t)
             u == t \ {x}
  <2>4. x \in t /\ Cardinality(u) = Cardinality(t) - 1 /\ Cardinality(t) \in Nat
    BY <2>1, <2>3, OneOut
  <2>5. SumFunctionOnSet(f, t) = f[x] + SumFunctionOnSet(f, u)
    BY <2>1, <2>3, SumStep
  <2> HIDE DEF x
  <2>6. u \notin Bad
    <3> HIDE DEF Bad, u
    <3> QED
      BY <2>1, <2>4
  <2>7. SumFunctionOnSet(g, To(u)) = SumFunctionOnSet(f, u)
    BY <2>2, <2>6
  <2>8. To(u) = To(t) \ {e[x]}
    BY <2>2, <2>4
  <2>9. SumFunctionOnSet(g, To(t)) = g[e[x]] + SumFunctionOnSet(g, To(t) \ {e[x]})
    <3>1. IsFiniteSet(To(t))
      <4>1. [y \in t |-> e[y]] \in Surjection(t, To(t))
        BY DEF Surjection
      <4> HIDE DEF To
      <4> QED
        BY <2>1, <4>1, FS_Surjection
    <3>2. \A y \in To(t) : g[y] \in Nat
      BY <2>2
    <3>3. e[x] \in To(t)
      BY <2>4
    <3> HIDE DEF To
    <3> QED
      BY <3>1, <3>2, <3>3, SumWithout
  <2>10. g[e[x]] = f[x]
    BY <2>2, <2>4
  <2> HIDE DEF To, u, Bad
  <2> QED
    BY <2>2, <2>5, <2>7, <2>8, <2>9, <2>10
<1> QED
  BY <1>1

-----------------------------------------------------------------------------
(***************************************************************************)
(* Unsigned words.                                                         *)
(***************************************************************************)
\* Numbers that differ by a multiple of the word are the same in the word.
LEMMA ModShift ==
    ASSUME NEW W \in Nat \ {0}, NEW q \in Int, NEW a \in Int
    PROVE  (W * q + a) % W = a % W
<1>1. PICK p \in Int, s \in 0 .. W - 1 : a = W * p + s /\ s = a % W
  <2>1. a = W * (a \div W) + (a % W) /\ a \div W \in Int /\ (a % W) \in 0 .. W - 1
    OBVIOUS
  <2> QED BY <2>1
<1>2. W * q + a = W * (q + p) + s
  BY <1>1
<1>3. (W * (q + p) + s) % W = s
  OBVIOUS
<1> QED
  BY <1>1, <1>2, <1>3

\* Adding within the word.
LEMMA ModAdd ==
    ASSUME NEW W \in Nat \ {0}, NEW a \in Int, NEW b \in Int
    PROVE  ((a % W) + b) % W = (a + b) % W
<1>1. PICK q \in Int, r \in Int : a = W * q + r /\ r = a % W
  <2>1. a = W * (a \div W) + (a % W) /\ a \div W \in Int /\ (a % W) \in Int
    OBVIOUS
  <2> QED BY <2>1
<1>2. a + b = W * q + (r + b) /\ r + b \in Int
  BY <1>1
<1>3. (W * q + (r + b)) % W = (r + b) % W
  BY <1>2, ModShift
<1> QED
  BY <1>1, <1>2, <1>3
-----------------------------------------------------------------------------
(***************************************************************************)
(* Sorting.                                                                *)
(***************************************************************************)
\* No two positions have equally many before them, and there are as many places
\* as positions: every place in the order is taken, once.
LEMMA NthRight ==
    ASSUME NEW P \in SUBSET Nat, IsFiniteSet(P), NEW c, \A i \in P : c[i] \in Int
    PROVE  /\ Cardinality(P) \in Nat
           /\ \A n \in 1 .. Cardinality(P) : Nth(P, c, n) \in P
           /\ \A i \in P : \E n \in 1 .. Cardinality(P) : Nth(P, c, n) = i
           /\ \A n, m \in 1 .. Cardinality(P) : c[Nth(P, c, n)] < c[Nth(P, c, m)] => n < m
<1> DEFINE N == Cardinality(P)
           rank == [i \in P |-> Cardinality(Earlier(P, c, i)) + 1]
<1>1. N \in Nat
  BY FS_CardinalityType
<1>2. \A i \in P : /\ IsFiniteSet(Earlier(P, c, i)) /\ Cardinality(Earlier(P, c, i)) \in Nat
                   /\ Earlier(P, c, i) \subseteq P /\ i \notin Earlier(P, c, i)
  <2>1. \A i \in P : Earlier(P, c, i) \subseteq P /\ i \notin Earlier(P, c, i)
    BY DEF Earlier
  <2> QED
    BY <2>1, FS_Subset, FS_CardinalityType
<1>3. \A i \in P : Cardinality(Earlier(P, c, i)) < N
  <2>1. \A i \in P : Earlier(P, c, i) \subseteq P /\ Earlier(P, c, i) # P
    BY <1>2
  <2> QED
    BY <1>1, <1>2, <2>1, FS_Subset
<1>4. ASSUME NEW i \in P, NEW j \in P, i \in Earlier(P, c, j)
      PROVE  Cardinality(Earlier(P, c, i)) < Cardinality(Earlier(P, c, j))
  <2>1. Earlier(P, c, i) \subseteq Earlier(P, c, j)
    <3> SUFFICES ASSUME NEW k \in Earlier(P, c, i) PROVE k \in Earlier(P, c, j)
      OBVIOUS
    <3>1. k \in P /\ (c[k] < c[i] \/ (c[k] = c[i] /\ k < i)) /\ (c[i] < c[j] \/ (c[i] = c[j] /\ i < j))
      BY <1>4 DEF Earlier
    <3>2. c[k] \in Int /\ c[i] \in Int /\ c[j] \in Int /\ k \in Int /\ i \in Int /\ j \in Int
      BY <3>1
    <3>3. c[k] < c[j] \/ (c[k] = c[j] /\ k < j)
      BY <3>1, <3>2
    <3> QED
      BY <3>1, <3>3 DEF Earlier
  <2>2. Earlier(P, c, i) # Earlier(P, c, j)
    BY <1>2, <1>4
  <2> QED
    BY <1>2, <2>1, <2>2, FS_Subset
<1>5. \A i, j \in P : i # j => i \in Earlier(P, c, j) \/ j \in Earlier(P, c, i)
  <2> SUFFICES ASSUME NEW i \in P, NEW j \in P, i # j
               PROVE  i \in Earlier(P, c, j) \/ j \in Earlier(P, c, i)
    OBVIOUS
  <2>1. c[i] \in Int /\ c[j] \in Int /\ i \in Int /\ j \in Int
    OBVIOUS
  <2> QED
    BY <2>1 DEF Earlier
<1>6. \A i, j \in P : rank[i] = rank[j] => i = j
  BY <1>2, <1>4, <1>5
<1>7. rank \in [P -> 1 .. N]
  BY <1>1, <1>2, <1>3
<1>8. rank \in Injection(P, 1 .. N)
  <2> HIDE DEF rank, N
  <2> QED
    BY <1>6, <1>7 DEF Injection, IsInjective
<1>9. IsFiniteSet(1 .. N) /\ Cardinality(1 .. N) = N
  <2> HIDE DEF N
  <2> QED
    BY <1>1, FS_Interval
<1>10. rank \in Surjection(P, 1 .. N)
  <2>1. Cardinality(P) = Cardinality(1 .. N)
    BY <1>9
  <2> HIDE DEF rank, N
  <2> QED
    BY <1>8, <1>9, <2>1, FS_Injection
<1>11. \A n \in 1 .. N : \E i \in P : rank[i] = n
  <2> HIDE DEF rank
  <2> QED
    BY <1>10 DEF Surjection
<1>12. \A n \in 1 .. N : \E i \in P : Cardinality(Earlier(P, c, i)) = n - 1
  BY <1>2, <1>11
<1>13. \A n \in 1 .. N : Nth(P, c, n) \in P /\ Cardinality(Earlier(P, c, Nth(P, c, n))) = n - 1
  BY <1>12 DEF Nth
<1>14. ASSUME NEW i \in P PROVE \E n \in 1 .. N : Nth(P, c, n) = i
  <2> DEFINE n == rank[i]
  <2>1. n \in 1 .. N /\ n = Cardinality(Earlier(P, c, i)) + 1
    BY <1>7
  <2>2. Nth(P, c, n) \in P /\ Cardinality(Earlier(P, c, Nth(P, c, n))) = n - 1
    BY <1>13, <2>1
  <2>3. rank[Nth(P, c, n)] = n
    BY <1>2, <2>1, <2>2
  <2>4. Nth(P, c, n) = i
    BY <1>6, <2>2, <2>3
  <2> QED
    BY <2>1, <2>4
<1>15. ASSUME NEW n \in 1 .. N, NEW m \in 1 .. N, c[Nth(P, c, n)] < c[Nth(P, c, m)]
       PROVE  n < m
  <2> DEFINE i == Nth(P, c, n)
             j == Nth(P, c, m)
  <2>1. i \in P /\ j \in P /\ Cardinality(Earlier(P, c, i)) = n - 1 /\ Cardinality(Earlier(P, c, j)) = m - 1
    BY <1>13
  <2>2. i \in Earlier(P, c, j)
    BY <1>15, <2>1 DEF Earlier
  <2>3. Cardinality(Earlier(P, c, i)) < Cardinality(Earlier(P, c, j))
    <3> HIDE DEF i, j
    <3> QED
      BY <1>4, <2>1, <2>2
  <2> QED
    BY <1>1, <2>1, <2>3
<1> QED
  BY <1>1, <1>13, <1>14, <1>15

\* r lists the entries of s at the positions P, the n-th being that at f[n], by
\* increasing key.
Sorts(f, r, s, P, c) ==
    /\ Cardinality(P) \in Nat
    /\ f \in [1 .. Cardinality(P) -> P]
    /\ r = [n \in 1 .. Cardinality(P) |-> s[f[n]]]
    /\ \A i \in P : \E n \in 1 .. Cardinality(P) : f[n] = i
    /\ \A n, m \in 1 .. Cardinality(P) : c[f[n]] < c[f[m]] => n < m

\* Sorting does that.
LEMMA SortedRight ==
    ASSUME NEW N \in Nat, NEW s, NEW P \in SUBSET (1 .. N), NEW c, \A i \in P : c[i] \in Int
    PROVE  \E f : Sorts(f, SortedAt(s, P, c), s, P, c)
<1>1. P \in SUBSET Nat /\ IsFiniteSet(P)
  <2>1. IsFiniteSet(1 .. N)
    BY FS_Interval, 1 \in Int, N \in Int
  <2>2. P \in SUBSET Nat /\ P \in SUBSET (1 .. N)
    OBVIOUS
  <2> QED
    BY <2>1, <2>2, FS_Subset, Zenon
<1>2. /\ Cardinality(P) \in Nat
      /\ \A n \in 1 .. Cardinality(P) : Nth(P, c, n) \in P
      /\ \A i \in P : \E n \in 1 .. Cardinality(P) : Nth(P, c, n) = i
      /\ \A n, m \in 1 .. Cardinality(P) : c[Nth(P, c, n)] < c[Nth(P, c, m)] => n < m
  BY <1>1, NthRight
<1> DEFINE f == [n \in 1 .. Cardinality(P) |-> Nth(P, c, n)]
<1>3. f \in [1 .. Cardinality(P) -> P]
  BY <1>2
<1>4. SortedAt(s, P, c) = [n \in 1 .. Cardinality(P) |-> s[f[n]]]
  BY DEF SortedAt
<1>5. \A i \in P : \E n \in 1 .. Cardinality(P) : f[n] = i
  BY <1>2
<1>6. \A n, m \in 1 .. Cardinality(P) : c[f[n]] < c[f[m]] => n < m
  BY <1>2
<1> HIDE DEF f
<1> QED
  BY <1>2, <1>3, <1>4, <1>5, <1>6 DEF Sorts
-----------------------------------------------------------------------------
(***************************************************************************)
(* Concatenation.                                                          *)
(***************************************************************************)
\* g solves the recursion by which the library concatenates the first n lists.
Joins(g, s, n) == g = [i \in 1 .. n |-> IF i = 1 THEN s[i] ELSE g[i - 1] \o s[i]]

\* The recursion has a solution.
LEMMA JoinsExists ==
    ASSUME NEW s, NEW n \in Nat
    PROVE  \E g : Joins(g, s, n)
<1> DEFINE Bad == {m \in Nat : ~ \E g : Joins(g, s, m)}
<1>1. Bad = {}
  <2> SUFFICES ASSUME Bad # {} PROVE FALSE
    OBVIOUS
  <2>1. PICK m \in Bad : \A k \in Bad : m <= k
    <3>1. Bad \in SUBSET Nat
      OBVIOUS
    <3> HIDE DEF Bad
    <3> QED
      BY <3>1, LeastNat
  <2>2. m \in Nat /\ ~ \E g : Joins(g, s, m)
    OBVIOUS
  <2>3. m # 0
    <3>1. Joins([i \in {} |-> 0], s, 0)
      BY DEF Joins
    <3> QED
      BY <2>2, <3>1
  <2>4. m - 1 \in Nat /\ m - 1 \notin Bad
    <3> HIDE DEF Bad
    <3> QED
      BY <2>1, <2>2, <2>3
  <2>5. PICK g : Joins(g, s, m - 1)
    BY <2>4
  <2> DEFINE h == [i \in 1 .. m |-> IF i = 1 THEN s[i] ELSE g[i - 1] \o s[i]]
  <2>6. \A i \in 1 .. m - 1 : h[i] = g[i]
    <3>1. \A i \in 1 .. m - 1 : g[i] = IF i = 1 THEN s[i] ELSE g[i - 1] \o s[i]
      BY <2>5 DEF Joins
    <3>2. \A i \in 1 .. m - 1 : i \in 1 .. m
      BY <2>2
    <3> QED
      BY <3>1, <3>2
  <2>7. \A i \in 1 .. m : i # 1 => h[i - 1] = g[i - 1]
    <3> HIDE DEF h
    <3> QED
      BY <2>2, <2>6
  <2>8. \A i \in 1 .. m : h[i] = IF i = 1 THEN s[i] ELSE h[i - 1] \o s[i]
    <3>1. \A i \in 1 .. m : h[i] = IF i = 1 THEN s[i] ELSE g[i - 1] \o s[i]
      OBVIOUS
    <3> HIDE DEF h
    <3> QED
      BY <2>7, <3>1
  <2>9. h = [i \in 1 .. m |-> h[i]]
    OBVIOUS
  <2>10. Joins(h, s, m)
    <3> HIDE DEF h
    <3> QED
      BY <2>8, <2>9 DEF Joins
  <2> QED
    BY <2>2, <2>10
<1> QED
  BY <1>1

Alike(s, t, n) == \A i \in 1 .. n : s[i] = t[i]

\* Solutions for lists that begin alike begin alike.
LEMMA JoinsUnique ==
    ASSUME NEW s, NEW n \in Nat, NEW g, Joins(g, s, n), NEW t, NEW p \in Nat, NEW h, Joins(h, t, p),
           n <= p, Alike(s, t, n)
    PROVE  \A k \in 1 .. n : g[k] = h[k]
<1> DEFINE Bad == {m \in 1 .. n : g[m] # h[m]}
<1>1. Bad = {}
  <2> SUFFICES ASSUME Bad # {} PROVE FALSE
    OBVIOUS
  <2>1. PICK m \in Bad : \A j \in Bad : m <= j
    <3>1. Bad \in SUBSET Nat
      OBVIOUS
    <3> HIDE DEF Bad
    <3> QED
      BY <3>1, LeastNat
  <2>2. m \in 1 .. n /\ g[m] # h[m]
    OBVIOUS
  <2>3. /\ g[m] = IF m = 1 THEN s[m] ELSE g[m - 1] \o s[m]
        /\ h[m] = IF m = 1 THEN t[m] ELSE h[m - 1] \o t[m]
    <3>1. m \in 1 .. p
      BY <2>2
    <3> QED
      BY <2>2, <3>1 DEF Joins
  <2>4. m # 1
    BY <2>2, <2>3 DEF Alike
  <2>5. m - 1 \in 1 .. n /\ m - 1 \notin Bad
    <3> HIDE DEF Bad
    <3> QED
      BY <2>1, <2>2, <2>4
  <2>6. g[m - 1] = h[m - 1]
    BY <2>5
  <2> QED
    BY <2>2, <2>3, <2>4, <2>6 DEF Alike
<1> QED
  BY <1>1

\* One list more.
LEMMA FlattenMore ==
    ASSUME NEW X, NEW n \in Nat, NEW s \in [1 .. n -> Seq(X)], NEW t \in [1 .. n + 1 -> Seq(X)],
           \A i \in 1 .. n : s[i] = t[i]
    PROVE  FlattenSeq(t) = FlattenSeq(s) \o t[n + 1]
<1>1. Len(s) = n /\ Len(t) = n + 1
  OBVIOUS
<1> DEFINE g == CHOOSE g : Joins(g, s, n)
           h == CHOOSE h : Joins(h, t, n + 1)
<1>2. Joins(g, s, n) /\ Joins(h, t, n + 1)
  <2>1. (\E x : Joins(x, s, n)) /\ \E x : Joins(x, t, n + 1)
    BY JoinsExists, n + 1 \in Nat
  <2> QED
    BY <2>1
<1>3. FlattenSeq(t) = h[n + 1]
  BY <1>1 DEF FlattenSeq, Joins
<1>4. FlattenSeq(s) = IF n = 0 THEN s ELSE g[n]
  BY <1>1 DEF FlattenSeq, Joins
<1> HIDE DEF g, h
<1>5. h[n + 1] = IF n = 0 THEN t[n + 1] ELSE h[n] \o t[n + 1]
  <2>1. \A i \in 1 .. n + 1 : h[i] = IF i = 1 THEN t[i] ELSE h[i - 1] \o t[i]
    BY <1>2 DEF Joins
  <2>2. n + 1 \in 1 .. n + 1 /\ (n + 1) - 1 = n /\ (n + 1 = 1 <=> n = 0)
    OBVIOUS
  <2> QED
    BY <2>1, <2>2
<1>6. CASE n = 0
  <2>1. s = <<>> /\ t[n + 1] \in Seq(X)
    BY <1>6
  <2> QED
    BY <1>3, <1>4, <1>5, <1>6, <2>1
<1>7. CASE n # 0
  <2>1. n \in 1 .. n /\ n <= n + 1
    BY <1>7
  <2>2. g[n] = h[n]
    <3> DEFINE p == n + 1
    <3>1. p \in Nat /\ n <= p /\ Joins(g, s, n) /\ Joins(h, t, p)
      BY <1>2
    <3>2. Alike(s, t, n)
      BY DEF Alike
    <3> HIDE DEF p
    <3>3. \A k \in 1 .. n : g[k] = h[k]
      BY <3>1, <3>2, JoinsUnique
    <3> QED
      BY <2>1, <3>3
  <2> QED
    BY <1>3, <1>4, <1>5, <1>7, <2>2
<1> QED
  BY <1>6, <1>7
-----------------------------------------------------------------------------
(***************************************************************************)
(* Lists, and the order of the one that Collect returns.                   *)
(***************************************************************************)
IsList(s) == s \in Seq({s[i] : i \in DOMAIN s})

Ordered(list) == \A i, j \in DOMAIN list : Comes(list[i], list[j]) => i < j

\* A list has the positions from one to its length.
LEMMA ListShape ==
    ASSUME NEW s, IsList(s)
    PROVE  Len(s) \in Nat /\ DOMAIN s = 1 .. Len(s)
BY DEF IsList

\* Functions on an initial segment are lists.
LEMMA SegmentIsList ==
    ASSUME NEW n \in Nat, NEW s, DOMAIN s = 1 .. n, s = [i \in DOMAIN s |-> s[i]]
    PROVE  IsList(s) /\ Len(s) = n
<1> DEFINE X == {s[i] : i \in DOMAIN s}
<1>1. \A i \in 1 .. n : s[i] \in X
  OBVIOUS
<1> HIDE DEF X
<1>2. s \in [1 .. n -> X]
  BY <1>1
<1>3. s \in Seq(X) /\ Len(s) = n
  BY <1>2
<1> QED
  BY <1>3 DEF IsList, X

\* One entry more at the end.
LEMMA ListAppend ==
    ASSUME NEW s, IsList(s), NEW e
    PROVE  /\ IsList(Append(s, e))
           /\ Len(Append(s, e)) = Len(s) + 1
           /\ Append(s, e)[Len(s) + 1] = e
           /\ \A i \in 1 .. Len(s) : Append(s, e)[i] = s[i]
<1> DEFINE X == {s[i] : i \in DOMAIN s} \cup {e}
           t == Append(s, e)
<1>1. s \in Seq(X) /\ e \in X
  <2>1. \A i \in DOMAIN s : s[i] \in X
    OBVIOUS
  <2>2. Len(s) \in Nat /\ DOMAIN s = 1 .. Len(s) /\ s = [i \in DOMAIN s |-> s[i]]
    BY DEF IsList
  <2>3. e \in X
    OBVIOUS
  <2> HIDE DEF X
  <2>4. s \in [1 .. Len(s) -> X]
    BY <2>1, <2>2
  <2> QED
    BY <2>2, <2>3, <2>4
<1> HIDE DEF X
<1>2. /\ t \in Seq(X) /\ Len(s) \in Nat /\ Len(t) = Len(s) + 1 /\ t[Len(s) + 1] = e
      /\ \A i \in 1 .. Len(s) : t[i] = s[i]
  BY <1>1
<1> HIDE DEF t
<1>3. DOMAIN t = 1 .. Len(s) + 1 /\ t = [i \in DOMAIN t |-> t[i]] /\ Len(s) + 1 \in Nat
  BY <1>2
<1>4. IsList(t)
  BY <1>3, SegmentIsList
<1> QED
  BY <1>2, <1>4 DEF t

\* The order puts the same entries in the places that Comes asks for.
LEMMA InOrderRight ==
    ASSUME NEW b, IsList(b), \A i \in DOMAIN b : Len(b[i].Path) \in Int /\ b[i].CapiProcessGUID \in Int
    PROVE  /\ IsList(InOrder(b)) /\ Len(InOrder(b)) = Len(b)
           /\ \A i \in DOMAIN InOrder(b) : \E j \in DOMAIN b : InOrder(b)[i] = b[j]
           /\ \A j \in DOMAIN b : \E i \in DOMAIN InOrder(b) : InOrder(b)[i] = b[j]
           /\ Ordered(InOrder(b))
<1> DEFINE P == WithPath(b)
           Q == WithoutPath(b)
           p == Cardinality(P)
           q == Cardinality(Q)
           r == InOrder(b)
<1>1. Len(b) \in Nat /\ DOMAIN b = 1 .. Len(b)
  BY ListShape
<1>2. P \in SUBSET (1 .. Len(b)) /\ Q \in SUBSET (1 .. Len(b)) /\ P \cap Q = {} /\ P \cup Q = 1 .. Len(b)
  BY <1>1 DEF WithPath, WithoutPath
<1>3. /\ \A i \in P : PathLengths(b)[i] = Len(b[i].Path) /\ b[i].Path # <<>>
      /\ \A i \in Q : Processes(b)[i] = b[i].CapiProcessGUID /\ b[i].Path = <<>>
  BY <1>2 DEF PathLengths, Processes, WithPath, WithoutPath
<1>4. (\A i \in P : PathLengths(b)[i] \in Int) /\ (\A i \in Q : Processes(b)[i] \in Int)
  BY <1>1, <1>2, <1>3
<1>5. r = SortedAt(b, P, PathLengths(b)) \o SortedAt(b, Q, Processes(b))
  BY DEF InOrder
<1> HIDE DEF P, Q, r
<1>6. PICK f :
          /\ p \in Nat /\ f \in [1 .. p -> P]
          /\ SortedAt(b, P, PathLengths(b)) = [n \in 1 .. p |-> b[f[n]]]
          /\ \A i \in P : \E n \in 1 .. p : f[n] = i
          /\ \A n, m \in 1 .. p : PathLengths(b)[f[n]] < PathLengths(b)[f[m]] => n < m
  <2>1. \E f : Sorts(f, SortedAt(b, P, PathLengths(b)), b, P, PathLengths(b))
    BY <1>1, <1>2, <1>4, SortedRight
  <2> QED
    BY <2>1 DEF Sorts
<1>7. PICK g :
          /\ q \in Nat /\ g \in [1 .. q -> Q]
          /\ SortedAt(b, Q, Processes(b)) = [n \in 1 .. q |-> b[g[n]]]
          /\ \A i \in Q : \E n \in 1 .. q : g[n] = i
          /\ \A n, m \in 1 .. q : Processes(b)[g[n]] < Processes(b)[g[m]] => n < m
  <2>1. \E g : Sorts(g, SortedAt(b, Q, Processes(b)), b, Q, Processes(b))
    BY <1>1, <1>2, <1>4, SortedRight
  <2> QED
    BY <2>1 DEF Sorts
<1>8. p + q = Len(b)
  <2>1. IsFiniteSet(1 .. Len(b)) /\ Cardinality(1 .. Len(b)) = Len(b)
    BY <1>1, FS_Interval
  <2>2. IsFiniteSet(P) /\ IsFiniteSet(Q)
    BY <1>2, <2>1, FS_Subset
  <2>3. Cardinality(P \cup Q) = Cardinality(P) + Cardinality(Q) - Cardinality(P \cap Q)
    BY <2>2, FS_Union
  <2>4. Cardinality(P \cap Q) = 0
    BY <1>2, FS_EmptySet
  <2>5. Cardinality(P \cup Q) = Len(b)
    BY <1>2, <2>1
  <2>6. p \in Nat /\ q \in Nat
    BY <1>6, <1>7
  <2>7. Len(b) = p + q - 0
    BY <2>3, <2>4, <2>5
  <2> HIDE DEF p, q
  <2> QED
    BY <2>6, <2>7
<1> HIDE DEF p, q
<1>9. /\ DOMAIN r = 1 .. p + q /\ r = [i \in DOMAIN r |-> r[i]]
      /\ \A i \in 1 .. p : r[i] = b[f[i]]
      /\ \A i \in 1 .. q : r[p + i] = b[g[i]]
  <2> DEFINE X == {b[i] : i \in DOMAIN b}
             u == [n \in 1 .. p |-> b[f[n]]]
             v == [n \in 1 .. q |-> b[g[n]]]
  <2>1. u \in [1 .. p -> X] /\ v \in [1 .. q -> X]
    BY <1>1, <1>2, <1>6, <1>7
  <2>2. r = u \o v
    BY <1>5, <1>6, <1>7
  <2>3. (\A i \in 1 .. p : u[i] = b[f[i]]) /\ (\A i \in 1 .. q : v[i] = b[g[i]])
    OBVIOUS
  <2> HIDE DEF X, u, v
  <2>4. u \in Seq(X) /\ v \in Seq(X) /\ Len(u) = p /\ Len(v) = q
    BY <1>6, <1>7, <2>1
  <2>5. r \in Seq(X) /\ Len(r) = p + q
    <3>1. u \o v \in Seq(X) /\ Len(u \o v) = Len(u) + Len(v)
      BY <2>4
    <3> QED
      BY <2>2, <2>4, <3>1
  <2>6. \A i \in 1 .. p : r[i] = u[i]
    BY <2>2, <2>4, <1>6, <1>7
  <2>7. \A i \in 1 .. q : r[p + i] = v[i]
    BY <2>2, <2>4, <1>6, <1>7
  <2> QED
    BY <2>3, <2>5, <2>6, <2>7
<1>10. IsList(r) /\ Len(r) = Len(b)
  BY <1>1, <1>8, <1>9, SegmentIsList
<1>11. ASSUME NEW i \in DOMAIN r
       PROVE  \/ i \in 1 .. p
              \/ \E k \in 1 .. q : i = p + k
  <2>1. i \in 1 .. p + q
    BY <1>9
  <2>2. CASE i > p
    <3>1. i - p \in 1 .. q /\ i = p + (i - p)
      BY <1>6, <1>7, <2>1, <2>2
    <3> QED
      BY <3>1
  <2> QED
    BY <1>6, <1>7, <2>1, <2>2
<1>12. ASSUME NEW i \in DOMAIN r PROVE \E j \in DOMAIN b : r[i] = b[j]
  <2>1. CASE i \in 1 .. p
    BY <1>1, <1>2, <1>6, <1>9, <2>1
  <2>2. ASSUME NEW k \in 1 .. q, i = p + k PROVE \E j \in DOMAIN b : r[i] = b[j]
    BY <1>1, <1>2, <1>7, <1>9, <2>2
  <2> QED
    BY <1>11, <2>1, <2>2
<1>13. ASSUME NEW j \in DOMAIN b PROVE \E i \in DOMAIN r : r[i] = b[j]
  <2>1. CASE j \in P
    <3>1. PICK n \in 1 .. p : f[n] = j
      BY <1>6, <2>1
    <3>2. n \in DOMAIN r
      BY <1>6, <1>7, <1>9, <3>1
    <3> QED
      BY <1>9, <3>1, <3>2
  <2>2. CASE j \in Q
    <3>1. PICK n \in 1 .. q : g[n] = j
      BY <1>7, <2>2
    <3>2. p + n \in DOMAIN r
      BY <1>6, <1>7, <1>9, <3>1
    <3> QED
      BY <1>9, <3>1, <3>2
  <2> QED
    BY <1>1, <1>2, <2>1, <2>2
<1>14. ASSUME NEW i \in DOMAIN r, NEW j \in DOMAIN r, Comes(r[i], r[j]) PROVE i < j
  <2>1. CASE i \in 1 .. p /\ j \in 1 .. p
    <3>1. r[i] = b[f[i]] /\ r[j] = b[f[j]] /\ f[i] \in P /\ f[j] \in P
      BY <1>6, <1>9, <2>1
    <3>2. r[i].Path # <<>> /\ r[j].Path # <<>>
      BY <1>3, <3>1
    <3>3. Len(r[i].Path) < Len(r[j].Path)
      BY <1>14, <3>2 DEF Comes
    <3>4. PathLengths(b)[f[i]] < PathLengths(b)[f[j]]
      BY <1>3, <3>1, <3>3
    <3> QED
      BY <1>6, <2>1, <3>4
  <2>2. ASSUME NEW k \in 1 .. q, i = p + k, j \in 1 .. p PROVE FALSE
    <3>1. r[i] = b[g[k]] /\ r[j] = b[f[j]] /\ g[k] \in Q /\ f[j] \in P
      BY <1>6, <1>7, <1>9, <2>2
    <3>2. r[i].Path = <<>> /\ r[j].Path # <<>>
      BY <1>3, <3>1
    <3> QED
      BY <1>14, <3>2 DEF Comes
  <2>3. ASSUME NEW k \in 1 .. q, NEW l \in 1 .. q, i = p + k, j = p + l PROVE i < j
    <3>1. r[i] = b[g[k]] /\ r[j] = b[g[l]] /\ g[k] \in Q /\ g[l] \in Q
      BY <1>7, <1>9, <2>3
    <3>2. r[i].Path = <<>> /\ r[j].Path = <<>>
      BY <1>3, <3>1
    <3>3. r[i].CapiProcessGUID < r[j].CapiProcessGUID
      BY <1>14, <3>2 DEF Comes
    <3>4. Processes(b)[g[k]] < Processes(b)[g[l]]
      BY <1>3, <3>1, <3>3
    <3>5. k < l
      BY <1>7, <3>4
    <3> QED
      BY <1>6, <1>7, <2>3, <3>5
  <2>4. ASSUME NEW l \in 1 .. q, i \in 1 .. p, j = p + l PROVE i < j
    BY <1>6, <1>7, <2>4
  <2> QED
    BY <1>11, <2>1, <2>2, <2>3, <2>4
<1> QED
  BY <1>10, <1>12, <1>13, <1>14 DEF r, Ordered
-----------------------------------------------------------------------------
(***************************************************************************)
(* Loops.  What holds before a loop and is kept by each iteration holds    *)
(* after any number of them; what is to hold is a set of iterations, so    *)
(* that no rule with an operator as its parameter is needed.               *)
(***************************************************************************)
LEMMA LoopKeeps ==
    ASSUME NEW n \in Nat, NEW S, 0 \in S, \A i \in 1 .. n : i - 1 \in S => i \in S
    PROVE  \A i \in 0 .. n : i \in S
<1> DEFINE Bad == {i \in 0 .. n : i \notin S}
<1> SUFFICES ASSUME Bad # {} PROVE FALSE
  OBVIOUS
<1>1. PICK m \in Bad : \A k \in Bad : m <= k
  <2>1. Bad \in SUBSET Nat
    OBVIOUS
  <2> HIDE DEF Bad
  <2> QED
    BY <2>1, LeastNat
<1>2. m \in 0 .. n /\ m \notin S /\ m # 0
  OBVIOUS
<1>3. m \in 1 .. n /\ m - 1 \in 0 .. n
  BY <1>2
<1>4. m - 1 \notin Bad
  <2> HIDE DEF Bad
  <2> QED
    BY <1>1, <1>3
<1> QED
  BY <1>2, <1>3, <1>4

\* The largest of the first n positions, and of a set that has the last of them.
LEMMA MaxIs ==
    ASSUME NEW n \in Nat, NEW s \in SUBSET (1 .. n), n \in s
    PROVE  Max(s) = n
<1>1. n \in s /\ \A y \in s : n >= y
  OBVIOUS
<1>2. \A x \in s : (\A y \in s : x >= y) => x = n
  OBVIOUS
<1> QED
  BY <1>1, <1>2 DEF Max

\* Iter solves the recursion by which the library folds a list from the left,
\* F being the operation and b the start.
Folds(iter, F, b, list, n) ==
    \A s \in SUBSET (1 .. n) :
        iter[s] = IF s = {} THEN b ELSE F[<<iter[s \ {Max(s)}], list[Max(s)]>>]

\* The recursion has a solution.
LEMMA FoldSolvable ==
    ASSUME NEW A, NEW X, NEW F \in [A \X X -> A], NEW b \in A, NEW n \in Nat, NEW list \in [1 .. n -> X]
    PROVE  \E iter \in [SUBSET (1 .. n) -> A] : Folds(iter, F, b, list, n)
<1> DEFINE Solved == {m \in 0 .. n : \E iter \in [SUBSET (1 .. m) -> A] : Folds(iter, F, b, list, m)}
<1>1. 0 \in Solved
  <2> DEFINE g == [s \in SUBSET (1 .. 0) |-> b]
  <2>1. g \in [SUBSET (1 .. 0) -> A]
    OBVIOUS
  <2>2. \A s \in SUBSET (1 .. 0) : s = {} /\ g[s] = b
    OBVIOUS
  <2> HIDE DEF g
  <2>3. Folds(g, F, b, list, 0)
    BY <2>2 DEF Folds
  <2>4. \E iter \in [SUBSET (1 .. 0) -> A] : Folds(iter, F, b, list, 0)
    BY <2>1, <2>3
  <2>5. 0 \in 0 .. n
    OBVIOUS
  <2> QED
    BY <2>4, <2>5, Zenon
<1>2. ASSUME NEW m \in 1 .. n, m - 1 \in Solved PROVE m \in Solved
  <2>1. PICK g \in [SUBSET (1 .. m - 1) -> A] : Folds(g, F, b, list, m - 1)
    BY <1>2
  <2> DEFINE h == [s \in SUBSET (1 .. m) |-> IF m \in s THEN F[<<g[s \ {m}], list[m]>>] ELSE g[s]]
  <2>2. \A s \in SUBSET (1 .. m) : /\ s \ {m} \in SUBSET (1 .. m - 1)
                                   /\ m \notin s => s \in SUBSET (1 .. m - 1)
    OBVIOUS
  <2>3. list[m] \in X
    OBVIOUS
  <2>4. ASSUME NEW s \in SUBSET (1 .. m) PROVE h[s] \in A
    BY <2>2, <2>3
  <2>5. h \in [SUBSET (1 .. m) -> A]
    <3>1. h = [s \in SUBSET (1 .. m) |-> h[s]]
      OBVIOUS
    <3> HIDE DEF h
    <3> QED
      BY <2>4, <3>1
  <2>6. \A s \in SUBSET (1 .. m - 1) : h[s] = g[s]
    <3>1. \A s \in SUBSET (1 .. m - 1) : s \in SUBSET (1 .. m) /\ m \notin s
      OBVIOUS
    <3> QED
      BY <3>1
  <2>7. ASSUME NEW s \in SUBSET (1 .. m)
        PROVE  h[s] = IF s = {} THEN b ELSE F[<<h[s \ {Max(s)}], list[Max(s)]>>]
    <3>1. CASE m \in s
      <4>1. Max(s) = m
        BY <3>1, MaxIs
      <4>2. h[s \ {m}] = g[s \ {m}]
        <5> HIDE DEF h
        <5> QED
          BY <2>2, <2>6
      <4>3. h[s] = F[<<g[s \ {m}], list[m]>>]
        BY <3>1
      <4> HIDE DEF h
      <4> QED
        BY <3>1, <4>1, <4>2, <4>3
    <3>2. CASE m \notin s
      <4>1. s \in SUBSET (1 .. m - 1)
        BY <2>2, <3>2
      <4>2. h[s] = g[s] /\ h[s \ {Max(s)}] = g[s \ {Max(s)}]
        <5>1. s \ {Max(s)} \in SUBSET (1 .. m - 1)
          BY <4>1
        <5> HIDE DEF h
        <5> QED
          BY <2>6, <4>1, <5>1
      <4>3. g[s] = IF s = {} THEN b ELSE F[<<g[s \ {Max(s)}], list[Max(s)]>>]
        BY <2>1, <4>1 DEF Folds
      <4> HIDE DEF h
      <4> QED
        BY <4>2, <4>3
    <3> QED
      BY <3>1, <3>2
  <2> HIDE DEF h
  <2>8. Folds(h, F, b, list, m)
    BY <2>7 DEF Folds
  <2> QED
    BY <2>5, <2>8
<1>3. n \in Solved
  <2>1. \A i \in 1 .. n : i - 1 \in Solved => i \in Solved
    BY <1>2
  <2> HIDE DEF Solved
  <2>2. \A i \in 0 .. n : i \in Solved
    BY <1>1, <2>1, LoopKeeps
  <2> QED
    BY <2>2
<1> QED
  BY <1>3

\* A fold takes up the positions of a list one after the other.
LEMMA FirstPositions ==
    ASSUME NEW n \in Nat, NEW k \in 1 .. n
    PROVE  /\ 1 .. k \in SUBSET (1 .. n) /\ 1 .. k # {}
           /\ Max(1 .. k) = k /\ (1 .. k) \ {k} = 1 .. k - 1
<1>1. k \in Nat /\ k \in 1 .. k
  OBVIOUS
<1>2. Max(1 .. k) = k
  BY <1>1, MaxIs
<1> QED
  BY <1>1, <1>2

\* Iter solves it where it stays in the set that F is for.
FoldsIn(iter, A, F, b, list, n) ==
    /\ iter[{}] = b
    /\ \A s \in SUBSET (1 .. n) :
          s # {} /\ iter[s \ {Max(s)}] \in A => iter[s] = F[<<iter[s \ {Max(s)}], list[Max(s)]>>]

\* The intermediate results of the loop, of which the last is r.
LoopOf(g, F, b, list, n, r) == g[0] = b /\ g[n] = r /\ \A i \in 1 .. n : g[i] = F[<<g[i - 1], list[i]>>]

\* Then it runs through the intermediate results of a loop over the list.
LEMMA FoldRuns ==
    ASSUME NEW A, NEW X, NEW F \in [A \X X -> A], NEW b \in A, NEW n \in Nat, NEW list \in [1 .. n -> X],
           NEW iter, FoldsIn(iter, A, F, b, list, n)
    PROVE  \E g \in [0 .. n -> A] : LoopOf(g, F, b, list, n, iter[1 .. n])
<1> DEFINE g == [i \in 0 .. n |-> iter[1 .. i]]
<1>1. g = [i \in 0 .. n |-> g[i]] /\ iter[1 .. n] = g[n] /\ g[0] = b
  <2>1. 1 .. 0 = {} /\ 0 \in 0 .. n /\ n \in 0 .. n
    OBVIOUS
  <2> QED
    BY <2>1 DEF FoldsIn
<1>2. ASSUME NEW i \in 1 .. n, g[i - 1] \in A PROVE g[i] = F[<<g[i - 1], list[i]>>]
  <2>1. /\ 1 .. i \in SUBSET (1 .. n) /\ 1 .. i # {}
        /\ Max(1 .. i) = i /\ (1 .. i) \ {i} = 1 .. i - 1
    BY FirstPositions
  <2>2. g[i] = iter[1 .. i] /\ g[i - 1] = iter[1 .. i - 1]
    <3>1. i \in 0 .. n /\ i - 1 \in 0 .. n
      OBVIOUS
    <3> QED
      BY <3>1
  <2> HIDE DEF g
  <2>3. iter[(1 .. i) \ {Max(1 .. i)}] \in A
    BY <1>2, <2>1, <2>2
  <2> QED
    BY <2>1, <2>2, <2>3 DEF FoldsIn
<1> HIDE DEF g
<1>3. \A i \in 0 .. n : g[i] \in A
  <2> DEFINE S == {i \in 0 .. n : g[i] \in A}
  <2>1. 0 \in S
    BY <1>1
  <2>2. ASSUME NEW i \in 1 .. n, i - 1 \in S PROVE i \in S
    <3>1. g[i - 1] \in A /\ list[i] \in X
      BY <2>2
    <3>2. <<g[i - 1], list[i]>> \in A \X X
      BY <3>1
    <3>3. F[<<g[i - 1], list[i]>>] \in A
      BY <3>2
    <3>4. g[i] = F[<<g[i - 1], list[i]>>]
      BY <1>2, <3>1
    <3> QED
      BY <3>3, <3>4
  <2>3. \A i \in 1 .. n : i - 1 \in S => i \in S
    BY <2>2
  <2> HIDE DEF S
  <2>4. \A i \in 0 .. n : i \in S
    BY <2>1, <2>3, LoopKeeps
  <2> QED
    BY <2>4 DEF S
<1>4. \A i \in 1 .. n : g[i - 1] \in A
  BY <1>3
<1> QED
  BY <1>1, <1>2, <1>3, <1>4 DEF LoopOf
=============================================================================
