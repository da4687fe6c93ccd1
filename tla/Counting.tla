-------------------------------- MODULE Counting --------------------------------
(***************************************************************************)
(* What the proofs of several modules need of numbers and sums.            *)
(*                                                                         *)
(* A set of naturals has a least element, since they are well founded:     *)
(* what holds at 0 and from each number to the next holds of all, because  *)
(* there is no least number it fails at.  This is how a function that is   *)
(* defined by recursion is shown to be what a closed form says, and a sum  *)
(* over a set, which is such a function, to add up.                        *)
(***************************************************************************)
EXTENDS Integers, FiniteSetsExt, Functions, FiniteSetTheorems, WellFoundedInduction, TLAPS

\* Every set of naturals but the empty one has a least element.
LEMMA LeastNatural ==
  ASSUME NEW T, T \subseteq Nat, T # {}
  PROVE  \E x \in T : \A y \in T : x <= y
<1> DEFINE R == OpToRel(<, Nat)
<1>1. IsWellFoundedOn(R, Nat)
  BY NatLessThanWellFounded
<1>2. \A x, y \in Nat : x < y => <<x, y>> \in R
  BY DEF OpToRel
<1> HIDE DEF R
<1>3. PICK x \in T : \A y \in T : ~ (<<y, x>> \in R)
  BY <1>1, WFMin
<1>4. ASSUME NEW y \in T PROVE x <= y
  <2>1. x \in Nat /\ y \in Nat /\ ~ (<<y, x>> \in R)
    BY <1>3
  <2>2. ~ (y < x)
    BY <1>2, <2>1
  <2> QED
    BY ONLY <2>1, <2>2
<1> QED
  BY <1>4

\* A sum is what any closed form says that adds an element at a time.
AddsUp(g, f, S) ==
  /\ g = [s \in SUBSET S |-> g[s]]
  /\ g[{}] = 0
  /\ \A s \in SUBSET S : \A x \in s : g[s] = f[x] + g[s \ {x}]

LEMMA SumIs ==
  ASSUME NEW S, IsFiniteSet(S), NEW f, NEW g, AddsUp(g, f, S)
  PROVE  SumFunctionOnSet(f, S) = g[S]
<1>0. /\ g = [s \in SUBSET S |-> g[s]] /\ g[{}] = 0
      /\ \A s \in SUBSET S : \A x \in s : g[s] = f[x] + g[s \ {x}]
  BY DEF AddsUp
<1> DEFINE Def(h) == [s \in SUBSET S |-> IF s = {} THEN 0
                                          ELSE f[CHOOSE x \in s : TRUE] + h[s \ {CHOOSE x \in s : TRUE}]]
           iter == CHOOSE h : h = Def(h)
<1>1. g = Def(g)
  BY <1>0
<1>2. iter = Def(iter)
  <2> HIDE DEF Def
  <2> QED
    BY <1>1, Zenon
<1>3. SumFunctionOnSet(f, S) = iter[S]
  BY DEF SumFunctionOnSet, FoldFunctionOnSet, MapThenFoldSet
<1> HIDE DEF iter
<1> DEFINE pick == [s \in SUBSET S |-> CHOOSE x \in s : TRUE]
<1>4. \A s \in SUBSET S : s # {} => pick[s] \in s /\ pick[s] = CHOOSE x \in s : TRUE
  OBVIOUS
<1>5. \A s \in SUBSET S : s # {} => iter[s] = f[pick[s]] + iter[s \ {pick[s]}]
  BY <1>2, <1>4
<1>6. iter[{}] = 0
  BY <1>2
<1> HIDE DEF pick
<1>7. \A s \in SUBSET S : s # {} => g[s] = f[pick[s]] + g[s \ {pick[s]}]
  BY <1>0, <1>4
<1>8. \A s \in SUBSET S : s # {} => pick[s] \in s
  BY <1>4
<1>9. \A s \in SUBSET S : s # {} => /\ g[s] = f[pick[s]] + g[s \ {pick[s]}]
                                     /\ iter[s] = f[pick[s]] + iter[s \ {pick[s]}]
  BY <1>5, <1>7
<1> DEFINE Bad == {s \in SUBSET S : g[s] # iter[s]}
           Sizes == {Cardinality(s) : s \in Bad}
<1>10. \A s \in SUBSET S : IsFiniteSet(s) /\ Cardinality(s) \in Nat
  BY FS_Subset, FS_CardinalityType
<1>11. SUFFICES ASSUME g[S] # iter[S] PROVE FALSE
  BY <1>3
<1>12. Sizes \subseteq Nat /\ Sizes # {}
  <2>1. S \in Bad
    BY <1>11
  <2>2. \A s \in Bad : Cardinality(s) \in Nat
    BY <1>10
  <2> HIDE DEF Bad
  <2> QED
    BY <2>1, <2>2
<1> HIDE DEF Sizes
<1>13. PICK n \in Sizes : \A k \in Sizes : n <= k
  BY <1>12, LeastNatural
<1>14. PICK s \in Bad : n = Cardinality(s)
  BY DEF Sizes
<1>15. s # {}
  BY <1>0, <1>6
<1>16. pick[s] \in s /\ s \ {pick[s]} \in SUBSET S /\ g[s \ {pick[s]}] # iter[s \ {pick[s]}]
  BY <1>8, <1>9, <1>15
<1>17. Cardinality(s \ {pick[s]}) = n - 1
  BY <1>10, <1>14, <1>16, FS_RemoveElement
<1>18. n - 1 \in Sizes
  BY <1>16, <1>17 DEF Sizes
<1> QED
  BY <1>12, <1>13, <1>18

\* The sum of nothing is 0 ...
LEMMA SumOfNone ==
  ASSUME NEW f
  PROVE  SumFunctionOnSet(f, {}) = 0
<1> DEFINE g == [s \in SUBSET {} |-> 0]
<1>1. g[{}] = 0
  OBVIOUS
<1>2. AddsUp(g, f, {})
  BY DEF AddsUp
<1> HIDE DEF g
<1> QED
  <2>1. SumFunctionOnSet(f, {}) = g[{}]
    BY ONLY <1>2, SumIs, FS_EmptySet
  <2> QED
    BY <1>1, <2>1

\* ... and of one element, what it counts.
LEMMA SumOfOne ==
  ASSUME NEW f, NEW x, f[x] \in Int
  PROVE  SumFunctionOnSet(f, {x}) = f[x]
<1> PICK S : S = {x}
  OBVIOUS
<1> DEFINE g == [s \in SUBSET S |-> IF s = {} THEN 0 ELSE f[x]]
<1>1. g = [s \in SUBSET S |-> g[s]] /\ g[{}] = 0 /\ g[S] = f[x]
  OBVIOUS
<1>2. AddsUp(g, f, S)
  BY <1>1 DEF AddsUp
<1>3. IsFiniteSet(S)
  BY FS_Singleton
<1> HIDE DEF g
<1>4. SumFunctionOnSet(f, S) = g[S]
  BY ONLY <1>2, <1>3, SumIs
<1> QED
  BY <1>1, <1>4

\* What rows show, and where: pairs of a place and a key.
Showings(rows, nth, key, s) == {<<nth[row], key[row]>> : row \in {r \in rows : nth[r] \in s}}
Keys(rows, nth, key, i) == {key[row] : row \in {r \in rows : nth[r] = i}}

\* Finitely many rows show finitely many things.
LEMMA ShowingsFinite ==
  ASSUME NEW rows, IsFiniteSet(rows), NEW nth, NEW key, NEW s
  PROVE  IsFiniteSet(Showings(rows, nth, key, s)) /\ Cardinality(Showings(rows, nth, key, s)) \in Nat
<1> DEFINE some == {r \in rows : nth[r] \in s}
           f == [row \in some |-> <<nth[row], key[row]>>]
<1>1. IsFiniteSet(some)
  BY FS_Subset
<1>2. f \in Surjection(some, Showings(rows, nth, key, s))
  BY DEF Surjection, Showings
<1> HIDE DEF f, some
<1>3. IsFiniteSet(Showings(rows, nth, key, s))
  BY <1>1, <1>2, FS_Surjection
<1> QED
  BY <1>3, FS_CardinalityType

\* In one place, they are as many as the distinct keys of its rows.
LEMMA KeysShown ==
  ASSUME NEW rows, IsFiniteSet(rows), NEW nth, NEW key, NEW i
  PROVE  Cardinality(Keys(rows, nth, key, i)) = Cardinality(Showings(rows, nth, key, {i}))
<1> DEFINE P == Showings(rows, nth, key, {i})
           Q == Keys(rows, nth, key, i)
           f == [p \in P |-> p[2]]
<1>1. \A p \in P : p = <<i, p[2]>> /\ p[2] \in Q
  BY DEF Showings, Keys
<1>2. \A q \in Q : <<i, q>> \in P
  BY DEF Showings, Keys
<1>3. IsFiniteSet(P)
  BY ShowingsFinite
<1> HIDE DEF P, Q
<1>4. f \in Bijection(P, Q)
  <2>1. f \in [P -> Q]
    BY <1>1
  <2>2. \A a, b \in P : f[a] = f[b] => a = b
    BY <1>1
  <2>3. \A q \in Q : \E p \in P : f[p] = q
    <3> TAKE q \in Q
    <3>1. f[<<i, q>>] = q /\ <<i, q>> \in P
      BY <1>2
    <3> QED
      BY <3>1
  <2> QED
    BY <2>1, <2>2, <2>3 DEF Bijection, Injection, Surjection, IsInjective
<1>5. ExistsBijection(P, Q)
  BY <1>4 DEF ExistsBijection
<1> QED
  BY <1>3, <1>5, FS_Bijection DEF P, Q

\* So the sum of the counts, place by place, is the count of all.
LEMMA SumOfCounts ==
  ASSUME NEW rows, IsFiniteSet(rows), NEW nth, NEW key, NEW K, IsFiniteSet(K),
         NEW points, \A i \in K : points[i] = Cardinality(Keys(rows, nth, key, i))
  PROVE  SumFunctionOnSet(points, K) = Cardinality(Showings(rows, nth, key, K))
<1> DEFINE P(s) == Showings(rows, nth, key, s)
           g == [s \in SUBSET K |-> Cardinality(P(s))]
<1>1. g[{}] = 0
  <2>1. P({}) = {}
    BY DEF Showings
  <2> QED
    BY <2>1, FS_EmptySet
<1>2. \A s \in SUBSET K : \A x \in s : g[s] = points[x] + g[s \ {x}]
  <2> TAKE s \in SUBSET K
  <2> TAKE x \in s
  <2>1. P(s) = P({x}) \cup P(s \ {x})
    BY DEF Showings
  <2>2. P({x}) \cap P(s \ {x}) = {}
    BY DEF Showings
  <2>3. /\ IsFiniteSet(P({x})) /\ IsFiniteSet(P(s \ {x}))
        /\ Cardinality(P({x})) \in Nat /\ Cardinality(P(s \ {x})) \in Nat
    BY ShowingsFinite
  <2>4. points[x] = Cardinality(P({x}))
    <3>1. Cardinality(Keys(rows, nth, key, x)) = Cardinality(P({x}))
      BY ONLY IsFiniteSet(rows), KeysShown
    <3> QED
      BY ONLY <3>1, x \in s, s \in SUBSET K, \A i \in K : points[i] = Cardinality(Keys(rows, nth, key, i))
  <2> HIDE DEF P
  <2>5. Cardinality(P(s)) = Cardinality(P({x})) + Cardinality(P(s \ {x}))
    <3>1. Cardinality(P({x}) \cup P(s \ {x}))
            = Cardinality(P({x})) + Cardinality(P(s \ {x})) - Cardinality(P({x}) \cap P(s \ {x}))
      BY ONLY <2>3, FS_Union
    <3>2. Cardinality(P({x}) \cap P(s \ {x})) = 0
      BY <2>2, FS_EmptySet
    <3> QED
      BY ONLY <2>1, <2>3, <3>1, <3>2
  <2> QED
    BY <2>4, <2>5
<1>3. AddsUp(g, points, K)
  BY <1>1, <1>2 DEF AddsUp
<1>4. g[K] = Cardinality(P(K))
  OBVIOUS
<1> HIDE DEF g
<1>5. SumFunctionOnSet(points, K) = g[K]
  BY ONLY <1>3, IsFiniteSet(K), SumIs
<1> QED
  BY <1>4, <1>5
=================================================================================
