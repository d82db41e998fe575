--------------------------- MODULE CountingLemmas ---------------------------
(***************************************************************************)
(* Facts about natural numbers that the provers do not find by themselves. *)
(***************************************************************************)
EXTENDS Integers, Sequences, FiniteSetTheorems, WellFoundedInduction, TLAPS

\* A nonempty set of natural numbers has a least element: with the set of the
\* counterexamples of a formula, this is induction.
LEMMA LeastOf ==
  ASSUME NEW S \in SUBSET Nat, S # {}
  PROVE  \E m \in S : \A k \in S : m <= k
<1> DEFINE R == OpToRel(<, Nat)
<1>1. IsWellFoundedOn(R, Nat)
  BY NatLessThanWellFounded
<1>2. \A x, y \in Nat : y < x => <<y, x>> \in R
  BY DEF OpToRel
<1> HIDE DEF R
<1>3. PICK m \in S : \A k \in S : ~(<<k, m>> \in R)
  BY <1>1, WFMin
<1>4. \A k \in S : ~(k < m)
  BY <1>2, <1>3
<1>5. \A k \in S : m <= k
  BY <1>4
<1> QED  BY <1>5

\* A nonempty set of natural numbers with an upper bound has a greatest element.
LEMMA LargestOf ==
  ASSUME NEW n \in Nat, NEW T \in SUBSET (1..n), T # {}
  PROVE  \E i \in T : \A j \in T : j <= i
<1> DEFINE S == {k \in Nat : n - k \in T}
<1>1. S # {}
  <2>1. PICK x \in T : TRUE
    OBVIOUS
  <2> QED  BY <2>1, n - x \in S
<1>2. PICK m \in S : \A k \in S : m <= k
  <2>1. S \in SUBSET Nat
    OBVIOUS
  <2> HIDE DEF S
  <2> QED  BY <1>1, <2>1, LeastOf
<1>3. \A j \in T : m <= n - j
  <2> SUFFICES ASSUME NEW j \in T PROVE m <= n - j
    OBVIOUS
  <2>1. n - j \in Nat /\ n - (n - j) = j
    OBVIOUS
  <2> QED  BY <1>2, <2>1
<1> QED  BY <1>3, n - m \in T

-----------------------------------------------------------------------------
(* The places of a queue that hold a member of a set. *)

Places(q, S) == {i \in DOMAIN q : q[i] \in S}

LEMMA PlacesFinite ==
  ASSUME NEW T, NEW q \in Seq(T), NEW S
  PROVE  IsFiniteSet(Places(q, S)) /\ Cardinality(Places(q, S)) \in Nat
<1>1. IsFiniteSet(1..Len(q))
  BY FS_Interval
<1>2. Places(q, S) \subseteq 1..Len(q)
  BY DEF Places
<1>3. IsFiniteSet(Places(q, S))
  BY <1>1, <1>2, FS_Subset
<1> QED  BY <1>3, FS_CardinalityType

LEMMA PlacesAppend ==
  ASSUME NEW T, NEW q \in Seq(T), NEW m \in T, NEW S
  PROVE  Cardinality(Places(Append(q, m), S)) =
           Cardinality(Places(q, S)) + IF m \in S THEN 1 ELSE 0
<1> DEFINE n == Len(q) + 1
<1>1. /\ Append(q, m) \in Seq(T) /\ Len(Append(q, m)) = n
      /\ \A i \in 1..Len(q) : Append(q, m)[i] = q[i]
      /\ Append(q, m)[n] = m
  OBVIOUS
<1>2. DOMAIN q = 1..Len(q) /\ DOMAIN Append(q, m) = 1..n /\ Len(q) \in Nat
  OBVIOUS
<1>3. Places(Append(q, m), S) = Places(q, S) \union (IF m \in S THEN {n} ELSE {})
  BY <1>1, <1>2 DEF Places
<1>4. n \notin Places(q, S)
  BY <1>2 DEF Places
<1>5. IsFiniteSet(Places(q, S))
  BY PlacesFinite
<1>6. CASE m \in S
  BY <1>3, <1>4, <1>5, <1>6, FS_AddElement
<1>7. CASE m \notin S
  <2>1. Places(Append(q, m), S) = Places(q, S)
    BY <1>3, <1>7
  <2> QED  BY <2>1, <1>7, PlacesFinite
<1> QED  BY <1>6, <1>7

LEMMA PlacesTail ==
  ASSUME NEW T, NEW q \in Seq(T), q # <<>>, NEW S
  PROVE  Cardinality(Places(Tail(q), S)) =
           Cardinality(Places(q, S)) - IF Head(q) \in S THEN 1 ELSE 0
<1> DEFINE R == Places(q, S) \ {1}
           t == Tail(q)
<1>1. /\ t \in Seq(T) /\ Len(t) = Len(q) - 1 /\ Len(q) \in Nat /\ Len(q) > 0
      /\ \A i \in 1..Len(t) : t[i] = q[i + 1]
      /\ DOMAIN t = 1..Len(t) /\ DOMAIN q = 1..Len(q) /\ Head(q) = q[1]
  OBVIOUS
<1> HIDE DEF t
<1>2. IsFiniteSet(R) /\ Cardinality(R) =
        Cardinality(Places(q, S)) - IF Head(q) \in S THEN 1 ELSE 0
  <2>1. IsFiniteSet(Places(q, S)) /\ Cardinality(Places(q, S)) \in Nat
    BY PlacesFinite
  <2>2. 1 \in Places(q, S) <=> Head(q) \in S
    BY <1>1 DEF Places
  <2> QED  BY <2>1, <2>2, FS_RemoveElement
<1>3. \A i \in Places(t, S) : i + 1 \in R
  BY <1>1 DEF Places
<1>4. \A j \in R : j - 1 \in Places(t, S) /\ j \in Nat
  BY <1>1 DEF Places
<1>5. Places(t, S) \subseteq Nat
  BY <1>1 DEF Places
<1> HIDE DEF R
<1> DEFINE f == [i \in Places(t, S) |-> i + 1]
<1>6. f \in Bijection(Places(t, S), R)
  <2>1. f \in [Places(t, S) -> R]
    BY <1>3
  <2>2. \A i, j \in Places(t, S) : f[i] = f[j] => i = j
    BY <1>5
  <2>3. \A j \in R : \E i \in Places(t, S) : f[i] = j
    <3> TAKE j \in R
    <3>1. j - 1 \in Places(t, S) /\ f[j - 1] = j
      BY <1>4
    <3> QED  BY <3>1
  <2> HIDE DEF f
  <2> QED  BY <2>1, <2>2, <2>3 DEF Bijection, Injection, Surjection, IsInjective
<1>7. ExistsBijection(Places(t, S), R)
  BY <1>6, Zenon DEF ExistsBijection
<1>8. IsFiniteSet(Places(t, S)) /\ Cardinality(Places(t, S)) = Cardinality(R)
  <2>1. IsFiniteSet(Places(t, S))
    BY <1>1, PlacesFinite
  <2> QED  BY <2>1, <1>7, FS_Bijection
<1> QED  BY <1>2, <1>8 DEF t
=============================================================================
