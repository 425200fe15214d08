---------------------------- MODULE OrderLemmas -----------------------------
(***************************************************************************)
(* Facts about numbers and finite sets with an order, which the proofs of  *)
(* several modules cite: least elements, quotients, ranks, the n-th one.   *)
(***************************************************************************)
EXTENDS Integers, FiniteSets, FiniteSetTheorems, WellFoundedInduction, TLAPS

\* A set of numbers has a least element: with it, induction over the numbers is
\* done by hand, on the set of those for which a statement fails.
LEMMA LeastNumber ==
  ASSUME NEW T, T \subseteq Nat, T # {}
  PROVE  \E x \in T : \A y \in T : x <= y
<1>1. \E x \in T : \A y \in T : <<y, x>> \notin OpToRel(<, Nat)
  BY NatLessThanWellFounded, WFMin
<1>2. \A x, y \in Nat : <<y, x>> \notin OpToRel(<, Nat) => x <= y
  BY DEF OpToRel
<1> QED BY <1>1, <1>2

LEMMA Segment ==
  ASSUME NEW n \in Nat
  PROVE  IsFiniteSet(1 .. n) /\ Cardinality(1 .. n) = n
<1>1. IsFiniteSet(1 .. n) /\ Cardinality(1 .. n) = IF 1 > n THEN 0 ELSE n - 1 + 1
  BY FS_Interval
<1> QED BY <1>1

-----------------------------------------------------------------------------
(* Quotients *)

LEMMA Division ==
  ASSUME NEW x \in Nat, NEW d \in Nat \ {0}
  PROVE  /\ x \div d \in Nat
         /\ d * (x \div d) <= x /\ x < d * ((x \div d) + 1)
<1>1. x \div d \in Int
  OBVIOUS
<1>2. x = (d * (x \div d)) + (x % d)
  OBVIOUS
<1>3. x % d \in 0 .. d - 1
  OBVIOUS
<1>4. x \div d \in Nat
  OBVIOUS
<1> QED OBVIOUS

LEMMA QuotientBound ==
  ASSUME NEW x \in Nat, NEW d \in Nat \ {0}, NEW m \in Nat, x <= d * m
  PROVE  x \div d <= m
OBVIOUS

LEMMA QuotientSelf ==
  ASSUME NEW m \in Nat, NEW d \in Nat \ {0}
  PROVE  (d * m) \div d = m
OBVIOUS

-----------------------------------------------------------------------------
(* Ranks in a finite set with a total order *)

Ordered(D, R) ==
    /\ \A x, y \in D : <<x, y>> \in R \/ <<y, x>> \in R
    /\ \A x, y \in D : <<x, y>> \in R /\ <<y, x>> \in R => x = y
    /\ \A x, y, z \in D : <<x, y>> \in R /\ <<y, z>> \in R => <<x, z>> \in R

Below(D, R, x) == {y \in D : <<y, x>> \in R}

Rank(D, R, x) == Cardinality(Below(D, R, x))

\* The ranks are the numbers from 1 to the number of elements, in the order of R:
\* an injection of a finite set into one of the same size is onto.  It is what
\* makes a sort that is written down as a rank, std::sort in the code, a list of
\* all the elements in order.
LEMMA Ranks ==
  ASSUME NEW D, IsFiniteSet(D), NEW R, Ordered(D, R)
  PROVE  /\ Cardinality(D) \in Nat
         /\ \A x \in D : Rank(D, R, x) \in 1 .. Cardinality(D)
         /\ \A x, y \in D : <<x, y>> \in R <=> Rank(D, R, x) <= Rank(D, R, y)
         /\ \A k \in 1 .. Cardinality(D) : \E x \in D : Rank(D, R, x) = k
<1> DEFINE n == Cardinality(D)
<1>1. n \in Nat
  BY FS_CardinalityType
<1>2. \A x \in D : x \in Below(D, R, x) /\ Below(D, R, x) \subseteq D
  BY DEF Ordered, Below
<1>3. \A x \in D : IsFiniteSet(Below(D, R, x)) /\ Rank(D, R, x) \in Nat
  BY <1>2, FS_Subset, FS_CardinalityType DEF Rank
<1>4. \A x \in D : Rank(D, R, x) \in 1 .. n
  <2> SUFFICES ASSUME NEW x \in D PROVE Rank(D, R, x) \in 1 .. n
    OBVIOUS
  <2>1. Rank(D, R, x) <= n
    BY <1>2, FS_Subset DEF Rank
  <2>2. Rank(D, R, x) # 0
    BY <1>2, <1>3, FS_EmptySet DEF Rank
  <2> QED BY <1>1, <1>3, <2>1, <2>2
<1>5. \A x, y \in D : <<x, y>> \in R => Rank(D, R, x) <= Rank(D, R, y)
  <2> SUFFICES ASSUME NEW x \in D, NEW y \in D, <<x, y>> \in R
               PROVE  Rank(D, R, x) <= Rank(D, R, y)
    OBVIOUS
  <2>1. Below(D, R, x) \subseteq Below(D, R, y)
    BY DEF Below, Ordered
  <2> QED BY <1>3, <2>1, FS_Subset DEF Rank
<1>6. \A x, y \in D : <<x, y>> \notin R => Rank(D, R, y) < Rank(D, R, x)
  <2> SUFFICES ASSUME NEW x \in D, NEW y \in D, <<x, y>> \notin R
               PROVE  Rank(D, R, y) < Rank(D, R, x)
    OBVIOUS
  <2>1. Below(D, R, y) \subseteq Below(D, R, x) /\ Below(D, R, y) # Below(D, R, x)
    BY <1>2 DEF Below, Ordered
  <2>2. Rank(D, R, y) <= Rank(D, R, x) /\ Rank(D, R, y) # Rank(D, R, x)
    BY <1>3, <2>1, FS_Subset DEF Rank
  <2> QED BY <1>3, <2>2
<1>7. \A k \in 1 .. n : \E x \in D : Rank(D, R, x) = k
  <2> DEFINE rank == [x \in D |-> Rank(D, R, x)]
  <2>1. rank \in Injection(D, 1 .. n)
    <3>1. \A x, y \in D : Rank(D, R, x) = Rank(D, R, y) => x = y
      <4>1. \A x, y \in D : Rank(D, R, x) = Rank(D, R, y) => <<x, y>> \in R /\ <<y, x>> \in R
        BY <1>3, <1>6
      <4> QED BY <4>1 DEF Ordered
    <3> QED BY <1>4, <3>1 DEF Injection, IsInjective
  <2>2. IsFiniteSet(1 .. n) /\ Cardinality(1 .. n) = n
    BY <1>1, FS_Interval
  <2>3. rank \in Surjection(D, 1 .. n)
    BY <2>1, <2>2, FS_Injection
  <2> QED BY <2>3 DEF Surjection
<1> QED BY <1>1, <1>3, <1>4, <1>5, <1>6, <1>7

-----------------------------------------------------------------------------
(* Sets of numbers *)

\* The k-th number of T in ascending order, and the place of x in that order.
Nth(T, k) == CHOOSE x \in T : Cardinality({y \in T : y <= x}) = k

Place(T, x) == Cardinality({y \in T : y <= x})

\* Nth and Place are inverse to one another, and keep the order.
LEMMA Places ==
  ASSUME NEW T, T \subseteq Nat, IsFiniteSet(T)
  PROVE  /\ Cardinality(T) \in Nat
         /\ \A x \in T : Place(T, x) \in 1 .. Cardinality(T) /\ Nth(T, Place(T, x)) = x
         /\ \A x, y \in T : x <= y <=> Place(T, x) <= Place(T, y)
         /\ \A k \in 1 .. Cardinality(T) : Nth(T, k) \in T /\ Place(T, Nth(T, k)) = k
<1> DEFINE R == {p \in T \X T : p[1] <= p[2]}
<1>1. \A x, y \in T : <<x, y>> \in R <=> x <= y
  OBVIOUS
<1>2. Ordered(T, R)
  <2>1. \A x, y \in T : x <= y \/ y <= x
    OBVIOUS
  <2>2. \A x, y \in T : x <= y /\ y <= x => x = y
    OBVIOUS
  <2>3. \A x, y, z \in T : x <= y /\ y <= z => x <= z
    OBVIOUS
  <2> HIDE DEF R
  <2> QED BY <1>1, <2>1, <2>2, <2>3 DEF Ordered
<1>3. \A x \in T : Rank(T, R, x) = Place(T, x)
  <2> SUFFICES ASSUME NEW x \in T PROVE Below(T, R, x) = {y \in T : y <= x}
    BY DEF Rank, Place
  <2> QED BY <1>1 DEF Below
<1> HIDE DEF R
<1>4. /\ Cardinality(T) \in Nat
      /\ \A x \in T : Place(T, x) \in 1 .. Cardinality(T)
      /\ \A x, y \in T : x <= y <=> Place(T, x) <= Place(T, y)
      /\ \A k \in 1 .. Cardinality(T) : \E x \in T : Place(T, x) = k
  <2>1. /\ Cardinality(T) \in Nat
        /\ \A x \in T : Rank(T, R, x) \in 1 .. Cardinality(T)
        /\ \A x, y \in T : <<x, y>> \in R <=> Rank(T, R, x) <= Rank(T, R, y)
        /\ \A k \in 1 .. Cardinality(T) : \E x \in T : Rank(T, R, x) = k
    BY <1>2, Ranks
  <2>2. \A x, y \in T : x <= y <=> Place(T, x) <= Place(T, y)
    <3> SUFFICES ASSUME NEW x \in T, NEW y \in T PROVE x <= y <=> Place(T, x) <= Place(T, y)
      OBVIOUS
    <3>1. x <= y <=> <<x, y>> \in R
      BY <1>1
    <3>2. <<x, y>> \in R <=> Rank(T, R, x) <= Rank(T, R, y)
      BY <2>1
    <3> QED BY <1>3, <3>1, <3>2
  <2>3. \A k \in 1 .. Cardinality(T) : \E x \in T : Place(T, x) = k
    BY <1>3, <2>1
  <2> QED BY <1>3, <2>1, <2>2, <2>3
<1>5. \A k \in 1 .. Cardinality(T) : Nth(T, k) \in T /\ Place(T, Nth(T, k)) = k
  <2> SUFFICES ASSUME NEW k \in 1 .. Cardinality(T)
               PROVE  Nth(T, k) \in T /\ Place(T, Nth(T, k)) = k
    OBVIOUS
  <2>1. \E x \in T : Place(T, x) = k
    BY <1>4
  <2> QED BY <2>1 DEF Nth, Place
<1>6. ASSUME NEW x \in T PROVE Nth(T, Place(T, x)) = x
  <2>1. Nth(T, Place(T, x)) \in T /\ Place(T, Nth(T, Place(T, x))) = Place(T, x)
    BY <1>4, <1>5
  <2>2. PICK y \in T : y = Nth(T, Place(T, x))
    BY <2>1
  <2>3. Place(T, x) \in Int /\ Place(T, y) = Place(T, x)
    BY <1>4, <2>1, <2>2
  <2>4. y <= x /\ x <= y
    BY <1>4, <2>3
  <2>5. y \in Nat /\ x \in Nat
    OBVIOUS
  <2> QED BY <2>2, <2>4, <2>5
<1> QED BY <1>4, <1>5, <1>6

\* The next number has the next place; the first and the last have theirs.
LEMMA NextPlace ==
  ASSUME NEW T, T \subseteq Nat, IsFiniteSet(T), NEW x \in T
  PROVE  /\ \A y \in T : x < y /\ (\A z \in T : z <= x \/ y <= z) => Place(T, y) = Place(T, x) + 1
         /\ (\A z \in T : x <= z) => Place(T, x) = 1
         /\ (\A z \in T : z <= x) => Place(T, x) = Cardinality(T)
<1>1. \A y \in T : IsFiniteSet({z \in T : z <= y})
  BY FS_Subset
<1>2. ASSUME NEW y \in T, x < y, \A z \in T : z <= x \/ y <= z
      PROVE  Place(T, y) = Place(T, x) + 1
  <2>1. {z \in T : z <= y} = {z \in T : z <= x} \cup {y}
    <3>1. \A z \in T : z \in Nat
      OBVIOUS
    <3>2. \A z \in T : z <= y <=> (z <= x \/ z = y)
      BY <1>2, <3>1
    <3> QED BY <3>2
  <2>2. y \notin {z \in T : z <= x}
    BY <1>2
  <2> QED BY <1>1, <2>1, <2>2, FS_AddElement DEF Place
<1>3. ASSUME \A z \in T : x <= z PROVE Place(T, x) = 1
  <2>1. {z \in T : z <= x} = {x}
    <3>1. \A z \in T : z \in Nat
      OBVIOUS
    <3>2. \A z \in T : z <= x <=> z = x
      BY <1>3, <3>1
    <3> QED BY <3>2
  <2> QED BY <2>1, FS_Singleton DEF Place
<1>4. ASSUME \A z \in T : z <= x PROVE Place(T, x) = Cardinality(T)
  <2>1. {z \in T : z <= x} = T
    BY <1>4
  <2> QED BY <2>1 DEF Place
<1> QED BY <1>2, <1>3, <1>4
=============================================================================
