------------------------------ MODULE SumProofs ------------------------------
(***************************************************************************)
(* Induction over natural numbers and finite sets, and what follows from   *)
(* it for sums.                                                            *)
(*                                                                         *)
(* The induction theorems of the library quantify over a predicate.  Those *)
(* below quantify over a set instead, the elements of which a predicate is *)
(* true: it can be instantiated by a set of the form {x \in S : P(x)}.     *)
(* They rest on WFMin, that a nonempty set has a minimal element.          *)
(***************************************************************************)
EXTENDS Sums, FiniteSetTheorems, TLAPS

\* A nonempty set of natural numbers has a least element.
LEMMA LeastNumber ==
  ASSUME NEW T, T \subseteq Nat, T # {}
  PROVE  \E m \in T : \A n \in T : m <= n
<1>1. PICK m \in T : \A n \in T : ~(<<n, m>> \in OpToRel(<, Nat))
  BY NatLessThanWellFounded, WFMin
<1>2. \A n \in T : ~(n < m)
  BY <1>1 DEF OpToRel
<1> QED
  BY <1>2

\* If Good has every set that it has with any one element less, it has every
\* finite set.
LEMMA SetInduction ==
  ASSUME NEW S, IsFiniteSet(S), NEW Good,
         \A s \in SUBSET S : (\A e \in s : s \ {e} \in Good) => s \in Good
  PROVE  S \in Good
<1> DEFINE Bad == {s \in SUBSET S : s \notin Good}
           T == {Cardinality(s) : s \in Bad}
<1> SUFFICES ASSUME S \notin Good PROVE FALSE
  OBVIOUS
<1>1. \A s \in SUBSET S : IsFiniteSet(s)
  BY FS_Subset
<1>2. \A s \in SUBSET S : Cardinality(s) \in Nat
  BY <1>1, FS_CardinalityType
<1>3. T \subseteq Nat /\ T # {}
  BY <1>2
<1>4. PICK m \in T : \A n \in T : m <= n
  <2> HIDE DEF T
  <2> QED
    BY <1>3, LeastNumber
<1>5. PICK s \in Bad : m = Cardinality(s)
  BY <1>4
<1>6. PICK e \in s : s \ {e} \notin Good
  BY <1>5
<1>7. s \ {e} \in Bad
  BY <1>5, <1>6
<1>8. Cardinality(s \ {e}) = m - 1
  BY <1>1, <1>5, <1>6, FS_RemoveElement
<1>9. m \in Nat /\ m <= Cardinality(s \ {e})
  BY <1>3, <1>4, <1>7
<1> QED
  BY <1>8, <1>9
-----------------------------------------------------------------------------
(***************************************************************************)
(* A sum of natural numbers is the number of units in it.                  *)
(***************************************************************************)
Units(f, S) == UNION {{x} \X (1 .. f[x]) : x \in S}

LEMMA UnitsOfOne ==
  ASSUME NEW n \in Nat, NEW x
  PROVE  /\ IsFiniteSet({x} \X (1 .. n))
         /\ Cardinality({x} \X (1 .. n)) = n
<1> DEFINE One == {x}
           Upto == 1 .. n
<1>1. IsFiniteSet(One) /\ Cardinality(One) = 1
  BY FS_Singleton
<1>2. IsFiniteSet(Upto) /\ Cardinality(Upto) = n
  BY FS_Interval
<1>3. /\ IsFiniteSet(One \X Upto)
      /\ Cardinality(One \X Upto) = Cardinality(One) * Cardinality(Upto)
  <2> HIDE DEF One, Upto
  <2> QED
    BY <1>1, <1>2, FS_Product
<1> QED
  BY <1>1, <1>2, <1>3

LEMMA UnitsFinite ==
  ASSUME NEW S, IsFiniteSet(S), NEW f, \A x \in S : f[x] \in Nat
  PROVE  IsFiniteSet(Units(f, S))
<1> DEFINE F == [x \in S |-> {x} \X (1 .. f[x])]
           U == {{x} \X (1 .. f[x]) : x \in S}
<1>1. F \in Surjection(S, U)
  BY DEF Surjection
<1>2. IsFiniteSet(U)
  BY <1>1, FS_Surjection
<1>3. \A u \in U : IsFiniteSet(u)
  BY UnitsOfOne
<1> QED
  BY <1>2, <1>3, FS_UNION DEF Units

LEMMA UnitsRemove ==
  ASSUME NEW S, IsFiniteSet(S), NEW f, \A x \in S : f[x] \in Nat, NEW e \in S
  PROVE  Cardinality(Units(f, S)) = f[e] + Cardinality(Units(f, S \ {e}))
<1> DEFINE A == {e} \X (1 .. f[e])
           B == Units(f, S \ {e})
<1>1. IsFiniteSet(A) /\ Cardinality(A) = f[e]
  BY UnitsOfOne
<1>2. IsFiniteSet(S \ {e})
  BY FS_Subset
<1>3. IsFiniteSet(B)
  BY <1>2, UnitsFinite
<1>4. Units(f, S) = A \cup B
  BY DEF Units
<1>5. A \cap B = {}
  BY DEF Units
<1>6. Cardinality(A \cup B)
        = Cardinality(A) + Cardinality(B) - Cardinality(A \cap B)
  BY <1>1, <1>3, FS_Union
<1>7. Cardinality(A \cap B) = 0
  BY <1>5, FS_EmptySet
<1>8. Cardinality(B) \in Nat
  BY <1>3, FS_CardinalityType
<1> QED
  BY <1>1, <1>4, <1>6, <1>7, <1>8

\* The recursion by which MapThenSumSet is defined.
Summing(g, f, S) ==
  g = [s \in SUBSET S |->
         IF s = {} THEN 0
         ELSE f[CHOOSE x \in s : TRUE] + g[s \ {CHOOSE x \in s : TRUE}]]

LEMMA SumUnfolded ==
  ASSUME NEW f, NEW S
  PROVE  SumOver(f, S) = (CHOOSE g : Summing(g, f, S))[S]
  BY DEF SumOver, MapThenSumSet, MapThenFoldSet, Summing

\* The number of units satisfies the recursion, so that a function that does
\* exists, and by induction there is no other.
LEMMA SumIsCardinality ==
  ASSUME NEW S, IsFiniteSet(S), NEW f, \A x \in S : f[x] \in Nat
  PROVE  SumOver(f, S) = Cardinality(Units(f, S))
<1> DEFINE c == [s \in SUBSET S |-> Cardinality(Units(f, s))]
           h == CHOOSE g : Summing(g, f, S)
           pick(s) == CHOOSE x \in s : TRUE
<1>1. \A s \in SUBSET S : IsFiniteSet(s)
  BY FS_Subset
<1>2. ASSUME NEW s \in SUBSET S, s # {}
      PROVE  pick(s) \in s /\ s \ {pick(s)} \in SUBSET S
  BY <1>2
<1>3. ASSUME NEW s \in SUBSET S, s # {}
      PROVE  c[s] = f[pick(s)] + c[s \ {pick(s)}]
  <2> HIDE DEF pick
  <2> QED
    BY <1>1, <1>2, <1>3, UnitsRemove
<1>4. c[{}] = 0
  <2>1. Units(f, {}) = {}
    BY DEF Units
  <2> QED
    BY <2>1, FS_EmptySet
<1>5. Summing(c, f, S)
  <2> SUFFICES \A s \in SUBSET S :
                 c[s] = IF s = {} THEN 0 ELSE f[pick(s)] + c[s \ {pick(s)}]
    BY DEF Summing
  <2> HIDE DEF c, pick
  <2> QED
    BY <1>3, <1>4
<1>6. Summing(h, f, S)
  <2> HIDE DEF c
  <2> QED
    BY <1>5
<1>7. \A s \in SUBSET S :
        h[s] = IF s = {} THEN 0 ELSE f[pick(s)] + h[s \ {pick(s)}]
  <2> HIDE DEF h
  <2> QED
    BY <1>6 DEF Summing
<1>8. h[S] = c[S]
  <2> DEFINE Good == {s \in SUBSET S : h[s] = c[s]}
  <2>1. ASSUME NEW s \in SUBSET S, \A e \in s : s \ {e} \in Good
        PROVE  s \in Good
    <3> HIDE DEF h, c, pick
    <3> QED
      BY <1>2, <1>3, <1>4, <1>7, <2>1
  <2>2. S \in Good
    <3> HIDE DEF Good
    <3> QED
      BY <2>1, SetInduction
  <2> QED
    BY <2>2
<1> QED
  BY <1>8, SumUnfolded
-----------------------------------------------------------------------------
(***************************************************************************)
(* The facts about sums that other proofs cite.                            *)
(***************************************************************************)
LEMMA SumOfNone ==
  ASSUME NEW f
  PROVE  SumOver(f, {}) = 0
<1>1. IsFiniteSet({}) /\ Cardinality({}) = 0
  BY FS_EmptySet
<1>2. Units(f, {}) = {}
  BY DEF Units
<1> QED
  BY <1>1, <1>2, SumIsCardinality

LEMMA SumType ==
  ASSUME NEW S, IsFiniteSet(S), NEW f, \A x \in S : f[x] \in Nat
  PROVE  SumOver(f, S) \in Nat
  BY SumIsCardinality, UnitsFinite, FS_CardinalityType

LEMMA SumRemove ==
  ASSUME NEW S, IsFiniteSet(S), NEW f, \A x \in S : f[x] \in Nat, NEW e \in S
  PROVE  SumOver(f, S) = f[e] + SumOver(f, S \ {e})
<1>1. IsFiniteSet(S \ {e})
  BY FS_Subset
<1> QED
  BY <1>1, SumIsCardinality, UnitsRemove

LEMMA SumAdd ==
  ASSUME NEW S, IsFiniteSet(S), NEW f, \A x \in S : f[x] \in Nat,
         NEW e, e \notin S, f[e] \in Nat
  PROVE  SumOver(f, S \cup {e}) = SumOver(f, S) + f[e]
<1>1. IsFiniteSet(S \cup {e})
  BY FS_AddElement
<1>2. (S \cup {e}) \ {e} = S
  OBVIOUS
<1>3. SumOver(f, S \cup {e}) = f[e] + SumOver(f, S)
  <2> DEFINE U == S \cup {e}
  <2>1. e \in U /\ IsFiniteSet(U) /\ \A x \in U : f[x] \in Nat
    BY <1>1
  <2> HIDE DEF U
  <2>2. SumOver(f, U) = f[e] + SumOver(f, U \ {e})
    BY <2>1, SumRemove
  <2> QED
    BY <1>2, <2>2 DEF U
<1> QED
  BY <1>3, SumType

\* Only the values over the set matter.
LEMMA SumSame ==
  ASSUME NEW S, IsFiniteSet(S), NEW f, NEW g,
         \A x \in S : f[x] \in Nat /\ g[x] = f[x]
  PROVE  SumOver(g, S) = SumOver(f, S)
<1>1. Units(f, S) = Units(g, S)
  BY DEF Units
<1> QED
  BY <1>1, SumIsCardinality

\* The sum may be taken over the indices of another set.
LEMMA SumReindexed ==
  ASSUME NEW S, IsFiniteSet(S), NEW T, IsFiniteSet(T),
         NEW f, \A y \in T : f[y] \in Nat,
         NEW b \in Bijection(S, T),
         NEW g, \A x \in S : g[x] = f[b[x]]
  PROVE  SumOver(g, S) = SumOver(f, T)
<1>1. /\ b \in [S -> T]
      /\ \A x, y \in S : b[x] = b[y] => x = y
      /\ \A y \in T : \E x \in S : b[x] = y
  BY DEF Bijection, Injection, Surjection, IsInjective
<1>2. \A x \in S : g[x] \in Nat
  BY <1>1
<1>3. IsFiniteSet(Units(g, S)) /\ IsFiniteSet(Units(f, T))
  BY <1>2, UnitsFinite
<1> DEFINE B == [u \in Units(g, S) |-> <<b[u[1]], u[2]>>]
<1>4. B \in Bijection(Units(g, S), Units(f, T))
  <2>1. ASSUME NEW u \in Units(g, S)
        PROVE  u = <<u[1], u[2]>> /\ u[1] \in S /\ u[2] \in 1 .. g[u[1]]
    BY DEF Units
  <2>2. ASSUME NEW u \in Units(g, S)
        PROVE  <<b[u[1]], u[2]>> \in Units(f, T)
    BY <1>1, <2>1 DEF Units
  <2>3. B \in Injection(Units(g, S), Units(f, T))
    BY <1>1, <2>1, <2>2 DEF Injection, IsInjective
  <2>4. ASSUME NEW v \in Units(f, T)
        PROVE  \E u \in Units(g, S) : B[u] = v
    <3>1. v = <<v[1], v[2]>> /\ v[1] \in T /\ v[2] \in 1 .. f[v[1]]
      BY DEF Units
    <3>2. PICK x \in S : b[x] = v[1]
      BY <1>1, <3>1
    <3>3. <<x, v[2]>> \in Units(g, S)
      BY <3>1, <3>2 DEF Units
    <3> QED
      BY <3>1, <3>2, <3>3
  <2> QED
    BY <2>3, <2>4 DEF Bijection, Surjection, Injection, IsInjective
<1>5. Cardinality(Units(g, S)) = Cardinality(Units(f, T))
  <2> HIDE DEF B
  <2> QED
    BY <1>3, <1>4, FS_Bijection DEF ExistsBijection
<1> QED
  BY <1>2, <1>5, SumIsCardinality

LEMMA SumPlus ==
  ASSUME NEW S, IsFiniteSet(S), NEW f, NEW g, NEW h,
         \A x \in S : f[x] \in Nat /\ g[x] \in Nat /\ h[x] = f[x] + g[x]
  PROVE  SumOver(h, S) = SumOver(f, S) + SumOver(g, S)
<1> DEFINE Sum(s) == SumOver(h, s) = SumOver(f, s) + SumOver(g, s)
           Good == {s \in SUBSET S : Sum(s)}
<1>1. ASSUME NEW s \in SUBSET S, \A e \in s : s \ {e} \in Good
      PROVE  s \in Good
  <2>1. IsFiniteSet(s)
    BY FS_Subset
  <2>2. CASE s = {}
    BY <2>2, SumOfNone
  <2>3. ASSUME NEW e \in s PROVE Sum(s)
    <3>1. Sum(s \ {e}) /\ IsFiniteSet(s \ {e})
      BY <1>1, <2>1, FS_Subset
    <3>2. /\ SumOver(h, s) = h[e] + SumOver(h, s \ {e})
          /\ SumOver(f, s) = f[e] + SumOver(f, s \ {e})
          /\ SumOver(g, s) = g[e] + SumOver(g, s \ {e})
      BY <2>1, SumRemove
    <3>3. SumOver(f, s \ {e}) \in Nat /\ SumOver(g, s \ {e}) \in Nat
      BY <3>1, SumType
    <3> QED
      BY <3>1, <3>2, <3>3
  <2> QED
    BY <2>2, <2>3
<1>2. S \in Good
  <2> HIDE DEF Good
  <2> QED
    BY <1>1, SetInduction
<1> QED
  BY <1>2

\* A sum grows with its terms.
LEMMA SumMonotone ==
  ASSUME NEW S, IsFiniteSet(S), NEW f, NEW g,
         \A x \in S : f[x] \in Nat /\ g[x] \in Nat /\ f[x] <= g[x]
  PROVE  SumOver(f, S) <= SumOver(g, S)
<1>1. Units(f, S) \subseteq Units(g, S)
  BY DEF Units
<1>2. IsFiniteSet(Units(g, S))
  BY UnitsFinite
<1>3. Cardinality(Units(f, S)) <= Cardinality(Units(g, S))
  BY <1>1, <1>2, FS_Subset
<1> QED
  BY <1>3, SumIsCardinality

\* Terms of one each add up to the number of elements.
LEMMA SumOfOnes ==
  ASSUME NEW S, IsFiniteSet(S), NEW f, \A x \in S : f[x] = 1
  PROVE  SumOver(f, S) = Cardinality(S)
<1> DEFINE B == [x \in S |-> <<x, 1>>]
<1>1. \A x \in S : {x} \X (1 .. f[x]) = {<<x, 1>>}
  OBVIOUS
<1>2. Units(f, S) = {<<x, 1>> : x \in S}
  BY <1>1 DEF Units
<1>3. B \in Bijection(S, Units(f, S))
  BY <1>2 DEF Bijection, Injection, Surjection, IsInjective
<1>4. Cardinality(Units(f, S)) = Cardinality(S)
  <2> HIDE DEF B
  <2> QED
    BY <1>3, FS_Bijection DEF ExistsBijection
<1> QED
  BY <1>4, SumIsCardinality

\* Counting one more somewhere adds one.
LEMMA SumCountsOne ==
  ASSUME NEW S, IsFiniteSet(S), NEW f, \A x \in S : f[x] \in Nat,
         NEW e \in S, NEW g, g[e] = f[e] + 1,
         \A x \in S \ {e} : g[x] = f[x]
  PROVE  SumOver(g, S) = SumOver(f, S) + 1
<1>1. IsFiniteSet(S \ {e})
  BY FS_Subset
<1>2. \A x \in S : g[x] \in Nat
  OBVIOUS
<1>3. SumOver(g, S \ {e}) = SumOver(f, S \ {e})
  BY <1>1, SumSame
<1>4. /\ SumOver(f, S) = f[e] + SumOver(f, S \ {e})
      /\ SumOver(g, S) = g[e] + SumOver(g, S \ {e})
  BY <1>2, SumRemove
<1>5. f[e] \in Nat /\ SumOver(f, S \ {e}) \in Nat
  BY <1>1, SumType
<1> QED
  BY <1>3, <1>4, <1>5

LEMMA SumOfZeros ==
  ASSUME NEW S, IsFiniteSet(S), NEW f, \A x \in S : f[x] = 0
  PROVE  SumOver(f, S) = 0
<1>1. Units(f, S) = {}
  BY DEF Units
<1>2. Cardinality({}) = 0
  BY FS_EmptySet
<1> QED
  BY <1>1, <1>2, SumIsCardinality
=============================================================================
