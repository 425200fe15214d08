------------------------- MODULE RetryPeriodsProofs -------------------------
(***************************************************************************)
(* Proofs about RetryPeriods, for lists of any length and any periods: the *)
(* conversion in place, with its two pointers, computes the delays.        *)
(***************************************************************************)
EXTENDS RetryPeriods, OrderLemmas, TLAPS

-----------------------------------------------------------------------------
(* The list that is sorted *)

Lists == UNION {[1 .. m -> Period] : m \in 0 .. MaxLen}

\* The times of a list, see Times.
TimesOf(c) == {c[i] : i \in 1 .. Len(c)} \cap (Nat \ {0})

LEMMA ListType ==
  ASSUME NEW c \in Lists
  PROVE  /\ Len(c) \in 0 .. MaxLen /\ DOMAIN c = 1 .. Len(c)
         /\ \A i \in DOMAIN c : c[i] \in Int
         /\ IsFiniteSet(Kept(c)) /\ Cardinality(Kept(c)) \in 0 .. Len(c)
         /\ TimesOf(c) = {c[i] : i \in Kept(c)}
<1>1. PICK m \in 0 .. MaxLen : c \in [1 .. m -> Period]
  BY DEF Lists
<1>2. m \in Nat /\ m <= MaxLen /\ Len(c) = m /\ DOMAIN c = 1 .. m
  BY <1>1, RetryPeriodsAssumption DEF RetryPeriodsAssumption
<1>3. \A i \in DOMAIN c : c[i] \in Int
  BY <1>1, RetryPeriodsAssumption DEF RetryPeriodsAssumption
<1>4. IsFiniteSet(1 .. m) /\ Cardinality(1 .. m) = m
  BY <1>2, FS_Interval
<1>5. Kept(c) \subseteq 1 .. m
  BY <1>2 DEF Kept
<1>6. IsFiniteSet(Kept(c)) /\ Cardinality(Kept(c)) <= m /\ Cardinality(Kept(c)) \in Nat
  BY <1>4, <1>5, FS_Subset, FS_CardinalityType
<1>7. TimesOf(c) = {c[i] : i \in Kept(c)}
  BY <1>2, <1>3 DEF TimesOf, Kept
<1> QED BY <1>2, <1>3, <1>6, <1>7

\* Arranged(c) has the positive periods of c and no others, in ascending order.
LEMMA ArrangedList ==
  ASSUME NEW c \in Lists
  PROVE  /\ Arranged(c) \in Seq(Nat \ {0})
         /\ Len(Arranged(c)) = Cardinality(Kept(c))
         /\ \A k, l \in 1 .. Len(Arranged(c)) : k <= l => Arranged(c)[k] <= Arranged(c)[l]
         /\ TimesOf(c) = {Arranged(c)[k] : k \in 1 .. Len(Arranged(c))}
<1> DEFINE D == Kept(c)
           R == {p \in D \X D : Ahead(c, p[1], p[2])}
           n == Cardinality(D)
           nth(k) == CHOOSE i \in D : Cardinality({j \in D : Ahead(c, j, i)}) = k
<1>1. IsFiniteSet(D) /\ n \in Nat /\ \A i \in D : c[i] \in Nat \ {0} /\ i \in Int
  BY ListType DEF Kept
<1>2. \A i, j \in D : <<i, j>> \in R <=> Ahead(c, i, j)
  OBVIOUS
<1>3. Ordered(D, R)
  <2>1. \A x, y \in D : Ahead(c, x, y) \/ Ahead(c, y, x)
    BY <1>1 DEF Ahead
  <2>2. \A x, y \in D : Ahead(c, x, y) /\ Ahead(c, y, x) => x = y
    BY <1>1 DEF Ahead
  <2>3. \A x, y, z \in D : Ahead(c, x, y) /\ Ahead(c, y, z) => Ahead(c, x, z)
    BY <1>1 DEF Ahead
  <2> HIDE DEF R, D
  <2> QED BY <1>2, <2>1, <2>2, <2>3 DEF Ordered
<1>4. \A i \in D : Rank(D, R, i) = Cardinality({j \in D : Ahead(c, j, i)})
  <2> SUFFICES ASSUME NEW i \in D PROVE Below(D, R, i) = {j \in D : Ahead(c, j, i)}
    BY DEF Rank
  <2> QED BY <1>2 DEF Below
<1> HIDE DEF R
<1>5. /\ \A i \in D : Rank(D, R, i) \in 1 .. n
      /\ \A i, j \in D : <<i, j>> \in R <=> Rank(D, R, i) <= Rank(D, R, j)
      /\ \A k \in 1 .. n : \E i \in D : Rank(D, R, i) = k
  BY <1>1, <1>3, Ranks
<1>6. \A k \in 1 .. n : nth(k) \in D /\ Rank(D, R, nth(k)) = k
  <2> SUFFICES ASSUME NEW k \in 1 .. n PROVE nth(k) \in D /\ Rank(D, R, nth(k)) = k
    OBVIOUS
  <2>1. \E i \in D : Cardinality({j \in D : Ahead(c, j, i)}) = k
    BY <1>4, <1>5
  <2> QED BY <1>4, <2>1
<1>7. Arranged(c) = [k \in 1 .. n |-> c[nth(k)]]
  BY DEF Arranged
<1> HIDE DEF nth, D
<1>8. /\ Arranged(c) \in Seq(Nat \ {0}) /\ Len(Arranged(c)) = n
      /\ \A k \in 1 .. n : Arranged(c)[k] = c[nth(k)]
  BY <1>1, <1>6, <1>7
<1>9. ASSUME NEW k \in 1 .. n, NEW l \in 1 .. n, k <= l
      PROVE  Arranged(c)[k] <= Arranged(c)[l]
  <2>1. Ahead(c, nth(k), nth(l))
    BY <1>2, <1>5, <1>6, <1>9
  <2> QED BY <1>1, <1>6, <1>8, <2>1 DEF Ahead
<1>10. \A i \in D : nth(Rank(D, R, i)) = i
  <2> SUFFICES ASSUME NEW i \in D PROVE nth(Rank(D, R, i)) = i
    OBVIOUS
  <2>1. Rank(D, R, i) \in 1 .. n
    BY <1>5
  <2>2. nth(Rank(D, R, i)) \in D /\ Rank(D, R, nth(Rank(D, R, i))) = Rank(D, R, i)
    BY <1>6, <2>1
  <2>3. <<i, nth(Rank(D, R, i))>> \in R /\ <<nth(Rank(D, R, i)), i>> \in R
    BY <1>1, <1>5, <2>1, <2>2
  <2> QED BY <1>3, <2>2, <2>3 DEF Ordered
<1>11. {c[i] : i \in D} = {Arranged(c)[k] : k \in 1 .. n}
  BY <1>5, <1>6, <1>8, <1>10
<1>12. TimesOf(c) = {c[i] : i \in D}
  BY ListType DEF D
<1> QED BY <1>8, <1>9, <1>11, <1>12 DEF D

-----------------------------------------------------------------------------
(* The conversion *)

\* The two pointers: what is before the reading one is as it was sorted, and what
\* is after the writing one are the delays before the times that were read.
Converting(s, T) ==
    /\ retries \in Seq(Nat) /\ Len(retries) = Len(s)
    /\ f \in 1 .. Len(s) /\ t \in f .. Len(s)
    /\ \A i \in 1 .. f : retries[i] = s[i]
    /\ Place(T, s[f]) = Cardinality(T) - (Len(s) - t)
    /\ \A k \in t + 1 .. Len(s) :
          /\ Cardinality(T) - (Len(s) - k) \in 2 .. Cardinality(T)
          /\ retries[k] = Nth(T, Cardinality(T) - (Len(s) - k))
                             - Nth(T, Cardinality(T) - (Len(s) - k) - 1)

IInv ==
    /\ configured \in Lists
    /\ pc \in {"read", "convert", "done", "undefined"}
    /\ t \in 0 .. MaxLen /\ f \in 0 .. MaxLen
    /\ pc \in {"read", "undefined"} => retries = <<>>
    /\ pc \in {"convert", "undefined"} => Len(configured) > 1
    /\ pc = "undefined" => TimesOf(configured) = {}
    /\ pc = "convert" =>
          IF TimesOf(configured) = {} THEN retries = <<>> /\ t = 0 /\ f = 0
          ELSE Converting(Arranged(configured), TimesOf(configured))
    /\ pc = "done" => retries = Delays(TimesOf(configured))

LEMMA InitInv == Init => IInv
  BY RetryPeriodsAssumption DEF RetryPeriodsAssumption, Init, IInv, Lists

\* What the steps need to know of a list.
LEMMA ListFacts ==
  ASSUME NEW c \in Lists
  PROVE  /\ Arranged(c) \in Seq(Nat \ {0}) /\ Len(Arranged(c)) \in 0 .. Len(c)
         /\ Len(c) \in 0 .. MaxLen
         /\ \A k, l \in 1 .. Len(Arranged(c)) : k <= l => Arranged(c)[k] <= Arranged(c)[l]
         /\ TimesOf(c) = {Arranged(c)[k] : k \in 1 .. Len(Arranged(c))}
         /\ TimesOf(c) \subseteq Nat \ {0} /\ IsFiniteSet(TimesOf(c))
         /\ Cardinality(TimesOf(c)) \in 0 .. Len(Arranged(c))
         /\ TimesOf(c) = {} <=> Len(Arranged(c)) = 0
<1> DEFINE s == Arranged(c)
           m == Len(s)
           T == TimesOf(c)
<1>1. /\ s \in Seq(Nat \ {0}) /\ m \in 0 .. Len(c) /\ Len(c) \in 0 .. MaxLen
      /\ \A k, l \in 1 .. m : k <= l => s[k] <= s[l]
      /\ T = {s[k] : k \in 1 .. m}
  BY ArrangedList, ListType
<1> HIDE DEF s, T
<1>2. m \in Nat /\ IsFiniteSet(1 .. m) /\ Cardinality(1 .. m) = m
  <2>1. m \in Nat
    BY <1>1
  <2>2. IsFiniteSet(1 .. m) /\ Cardinality(1 .. m) = IF 1 > m THEN 0 ELSE m - 1 + 1
    BY <2>1, FS_Interval
  <2> QED BY <2>1, <2>2
<1>3. [k \in 1 .. m |-> s[k]] \in Surjection(1 .. m, T)
  BY <1>1 DEF Surjection
<1>4. IsFiniteSet(T) /\ Cardinality(T) <= m
  BY <1>2, <1>3, FS_Surjection
<1>5. Cardinality(T) \in Nat
  BY <1>4, FS_CardinalityType
<1>6. T = {} <=> m = 0
  BY <1>1, <1>2
<1> QED BY <1>1, <1>2, <1>4, <1>5, <1>6 DEF s, T

LEMMA ReadInv == ASSUME IInv, Read PROVE IInv'
<1> DEFINE s == Arranged(configured)
           m == Len(s)
           T == TimesOf(configured)
<1> USE DEF IInv, Read
<1>1. /\ s \in Seq(Nat \ {0}) /\ m \in 0 .. Len(configured) /\ Len(configured) \in 0 .. MaxLen
      /\ \A k, l \in 1 .. m : k <= l => s[k] <= s[l]
      /\ T = {s[k] : k \in 1 .. m}
      /\ T \subseteq Nat \ {0} /\ IsFiniteSet(T)
      /\ Cardinality(T) \in 0 .. m
      /\ T = {} <=> m = 0
  BY ListFacts
<1>2. /\ retries' = s /\ t' = m /\ f' = m /\ configured' = configured
      /\ pc' = IF Len(configured) > 1 THEN "convert" ELSE "done"
  BY DEF MustConvert
<1> HIDE DEF s, T
<1>3. m \in Nat /\ m <= MaxLen /\ Len(configured) \in Nat /\ m <= Len(configured)
  BY <1>1, RetryPeriodsAssumption DEF RetryPeriodsAssumption
<1>4. CASE Len(configured) > 1 /\ m = 0
  <2>1. s = <<>>
    BY <1>1, <1>4
  <2> QED BY <1>1, <1>2, <1>3, <1>4, <2>1 DEF T, Converting
<1>5. CASE Len(configured) > 1 /\ m > 0
  <2>1. s[m] \in T /\ \A z \in T : z <= s[m]
    <3>1. m \in 1 .. m /\ \A k \in 1 .. m : k <= m
      BY <1>3, <1>5
    <3>2. \A k \in 1 .. m : s[k] <= s[m]
      BY <1>1, <3>1
    <3> HIDE DEF m
    <3> QED BY <1>1, <3>1, <3>2
  <2>2. Place(T, s[m]) = Cardinality(T)
    BY <1>1, <2>1, NextPlace
  <2>3. s \in Seq(Nat)
    BY <1>1
  <2>4. Converting(Arranged(configured), TimesOf(configured))'
    BY <1>1, <1>2, <1>3, <1>5, <2>2, <2>3 DEF Converting, T, s
  <2>5. T # {} /\ m \in 0 .. MaxLen
    BY <1>1, <1>3, <1>5
  <2> QED BY <1>2, <1>5, <2>4, <2>5 DEF T
<1>6. CASE ~(Len(configured) > 1)
  <2>1. m = 0 \/ m = 1
    <3> HIDE DEF m, IInv, Read
    <3> QED BY <1>3, <1>6
  <2>2. s = Delays(T)
    <3>1. CASE m = 0
      <4>1. T = {} /\ Cardinality(T) = 0
        BY <1>1, <3>1
      <4>2. Delays(T) = <<>>
        BY <4>1 DEF Delays
      <4> QED BY <1>1, <3>1, <4>2
    <3>2. CASE m = 1
      <4>1. T = {s[1]} /\ s[1] \in Nat
        BY <1>1, <3>2
      <4>2. Cardinality(T) = 1
        BY <4>1, FS_Singleton
      <4>3. Nth(T, 1) = s[1]
        <5>1. 1 \in 1 .. Cardinality(T) /\ T \subseteq Nat
          BY <1>1, <4>2
        <5> QED BY <1>1, <4>1, <5>1, Places
      <4>4. Delays(T) = [i \in 1 .. 1 |-> s[1]]
        <5>1. Delays(T) = [i \in 1 .. 1 |-> IF i = 1 THEN Nth(T, 1) ELSE Nth(T, i) - Nth(T, i - 1)]
          BY <4>2 DEF Delays, Nth
        <5> QED BY <4>3, <5>1
      <4> QED BY <1>1, <3>2, <4>4
    <3> QED BY <2>1, <3>1, <3>2
  <2> QED BY <1>2, <1>3, <1>6, <2>2 DEF T
<1> QED BY <1>3, <1>4, <1>5, <1>6

LEMMA DifferenceInv == ASSUME IInv, Difference PROVE IInv'
<1> DEFINE s == Arranged(configured)
           m == Len(s)
           T == TimesOf(configured)
           D == Cardinality(T)
           d == retries[f] - retries[f - 1]
<1>1. /\ s \in Seq(Nat \ {0}) /\ m \in Nat
      /\ \A k, l \in 1 .. m : k <= l => s[k] <= s[l]
      /\ T = {s[k] : k \in 1 .. m}
      /\ T \subseteq Nat /\ IsFiniteSet(T)
      /\ D \in Nat
  <2>1. configured \in Lists
    BY DEF IInv
  <2> QED BY <2>1, ListFacts
<1>2. /\ pc = "convert" /\ f \in 2 .. Len(retries)
      /\ retries' = [retries EXCEPT ![t] = d]
      /\ t' = IF d # 0 THEN t - 1 ELSE t
      /\ f' = f - 1 /\ configured' = configured /\ pc' = pc
  BY DEF Difference, NextSlot
<1>3. T # {} /\ Converting(s, T)
  BY <1>2 DEF IInv
<1>4. t \in 0 .. MaxLen /\ f \in 0 .. MaxLen /\ MaxLen \in Nat /\ configured \in Lists
  BY RetryPeriodsAssumption DEF RetryPeriodsAssumption, IInv
<1> HIDE DEF s, T, D, d
<1>5. /\ retries \in Seq(Nat) /\ Len(retries) = m
      /\ f \in 2 .. m /\ t \in f .. m
      /\ \A i \in 1 .. f : retries[i] = s[i]
      /\ Place(T, s[f]) = D - (m - t)
      /\ \A k \in t + 1 .. m :
            /\ D - (m - k) \in 2 .. D
            /\ retries[k] = Nth(T, D - (m - k)) - Nth(T, D - (m - k) - 1)
  BY <1>2, <1>3 DEF Converting, D
<1>6. /\ f - 1 \in 1 .. m /\ f \in 1 .. m
      /\ s[f - 1] \in T /\ s[f] \in T /\ s[f - 1] \in Nat /\ s[f] \in Nat
      /\ s[f - 1] <= s[f]
      /\ d = s[f] - s[f - 1] /\ d \in Nat
  <2>1. f - 1 \in 1 .. f /\ f \in 1 .. f /\ f - 1 \in 1 .. m /\ f \in 1 .. m /\ f - 1 <= f
    BY <1>1, <1>5
  <2>2. s[f - 1] \in T /\ s[f] \in T
    BY <1>1, <2>1
  <2>3. s[f - 1] \in Nat /\ s[f] \in Nat /\ s[f - 1] <= s[f]
    BY <1>1, <2>1, <2>2
  <2>4. d = s[f] - s[f - 1]
    BY <1>5, <2>1 DEF d
  <2> QED BY <2>1, <2>2, <2>3, <2>4
<1>7. /\ Len(retries') = m /\ retries' \in Seq(Nat)
      /\ retries'[t] = d
      /\ \A k \in 1 .. m : k # t => retries'[k] = retries[k]
  <2>1. t \in 1 .. m /\ DOMAIN retries = 1 .. m
    BY <1>1, <1>5
  <2> QED BY <1>2, <1>5, <1>6, <2>1
<1>8. Place(T, s[f]) \in 1 .. D /\ Place(T, s[f - 1]) \in 1 .. D
      /\ Nth(T, Place(T, s[f])) = s[f] /\ Nth(T, Place(T, s[f - 1])) = s[f - 1]
  BY <1>1, <1>6, Places DEF D
<1>9. \A i \in 1 .. f - 1 : retries'[i] = s[i]
  <2>1. \A i \in 1 .. f - 1 : i # t /\ i \in 1 .. m /\ i \in 1 .. f
    BY <1>1, <1>5
  <2> QED BY <1>5, <1>7, <2>1
<1>10. t' \in 0 .. MaxLen /\ f' \in 0 .. MaxLen /\ f' \in 1 .. m
  <2>1. m \in Nat /\ f \in Int /\ t \in Int /\ MaxLen \in Nat /\ t >= f /\ f >= 2 /\ t <= MaxLen /\ f <= MaxLen /\ f <= m
    BY <1>1, <1>4, <1>5
  <2>2. t' \in {t, t - 1} /\ f' = f - 1
    BY <1>2
  <2> QED BY <2>1, <2>2
<1>11. CASE d = 0
  <2>1. s[f - 1] = s[f]
    BY <1>6, <1>11
  <2>2. Place(T, s[f - 1]) = D - (m - t)
    BY <1>5, <2>1
  <2>3. \A k \in t + 1 .. m : retries'[k] = retries[k]
    <3>1. m \in Nat /\ t \in 1 .. m
      BY <1>1, <1>5
    <3>2. \A k \in t + 1 .. m : k \in 1 .. m /\ k # t
      BY <3>1
    <3> QED BY <1>7, <3>2
  <2>4. t' = t /\ t \in f - 1 .. m
    BY <1>1, <1>2, <1>5, <1>11
  <2>5. Converting(Arranged(configured), TimesOf(configured))'
    BY <1>2, <1>5, <1>7, <1>9, <1>10, <2>2, <2>3, <2>4 DEF Converting, s, T, D
  <2> QED BY <1>2, <1>3, <1>4, <1>10, <2>5 DEF IInv, T
<1>12. CASE d # 0
  <2>1. s[f - 1] < s[f]
    BY <1>6, <1>12
  <2>2. \A z \in T : z <= s[f - 1] \/ s[f] <= z
    <3> SUFFICES ASSUME NEW k \in 1 .. m PROVE s[k] <= s[f - 1] \/ s[f] <= s[k]
      BY <1>1
    <3>1. k <= f - 1 \/ f <= k
      BY <1>1, <1>5
    <3> QED BY <1>1, <1>6, <3>1
  <2>3. Place(T, s[f]) = Place(T, s[f - 1]) + 1
    BY <1>1, <1>6, <2>1, <2>2, NextPlace
  <2>4. t' = t - 1 /\ t - 1 \in f - 1 .. m
    BY <1>1, <1>2, <1>5, <1>12
  <2>5. Place(T, s[f - 1]) = D - (m - (t - 1))
    <3>1. /\ Place(T, s[f]) = D - (m - t)
          /\ Place(T, s[f]) \in Int /\ Place(T, s[f - 1]) \in Int
          /\ D \in Int /\ m \in Int /\ t \in Int
      BY <1>1, <1>5, <1>8
    <3> QED BY <2>3, <3>1
  <2>6. ASSUME NEW k \in t .. m
        PROVE  /\ D - (m - k) \in 2 .. D
               /\ retries'[k] = Nth(T, D - (m - k)) - Nth(T, D - (m - k) - 1)
    <3>1. CASE k = t
      <4>1. D - (m - k) = Place(T, s[f]) /\ D - (m - k) - 1 = Place(T, s[f - 1])
        BY <1>1, <1>5, <1>8, <2>3, <3>1
      <4> QED BY <1>1, <1>6, <1>7, <1>8, <2>3, <3>1, <4>1
    <3>2. CASE k # t
      <4>1. k \in t + 1 .. m /\ k \in 1 .. m
        BY <1>1, <1>5, <3>2
      <4> QED BY <1>5, <1>7, <3>2, <4>1
    <3> QED BY <3>1, <3>2
  <2>7. \A k \in t' + 1 .. m : k \in t .. m
    BY <1>1, <1>5, <2>4
  <2>8. Converting(Arranged(configured), TimesOf(configured))'
    BY <1>2, <1>7, <1>9, <1>10, <2>4, <2>5, <2>6, <2>7 DEF Converting, s, T, D
  <2> QED BY <1>2, <1>3, <1>4, <1>10, <2>8 DEF IInv, T
<1> QED BY <1>11, <1>12

LEMMA EraseInv == ASSUME IInv, Erase PROVE IInv'
<1> DEFINE s == Arranged(configured)
           m == Len(s)
           T == TimesOf(configured)
           D == Cardinality(T)
<1>1. /\ s \in Seq(Nat \ {0}) /\ m \in Nat
      /\ \A k, l \in 1 .. m : k <= l => s[k] <= s[l]
      /\ T = {s[k] : k \in 1 .. m}
      /\ T \subseteq Nat /\ IsFiniteSet(T)
      /\ D \in Nat
  <2>1. configured \in Lists
    BY DEF IInv
  <2> QED BY <2>1, ListFacts
<1>2. /\ pc = "convert" /\ f = 1
      /\ retries' = <<retries[1]>> \o SubSeq(retries, t + 1, Len(retries))
      /\ t' = t /\ f' = f /\ configured' = configured /\ pc' = "done"
  BY DEF Erase
<1>3. T # {} /\ Converting(s, T)
  BY <1>2 DEF IInv
<1>4. t \in 0 .. MaxLen /\ f \in 0 .. MaxLen /\ configured \in Lists
  BY DEF IInv
<1> HIDE DEF s, T, D
<1>5. /\ retries \in Seq(Nat) /\ Len(retries) = m /\ 1 \in 1 .. m /\ t \in 1 .. m
      /\ retries[1] = s[1]
      /\ Place(T, s[1]) = D - (m - t)
      /\ \A k \in t + 1 .. m :
            retries[k] = Nth(T, D - (m - k)) - Nth(T, D - (m - k) - 1)
  BY <1>2, <1>3 DEF Converting, D
<1>6. Place(T, s[1]) = 1 /\ Nth(T, 1) = s[1]
  <2>1. s[1] \in T /\ \A k \in 1 .. m : s[1] <= s[k]
    BY <1>1, <1>5
  <2>2. \A z \in T : s[1] <= z
    BY <1>1, <2>1
  <2>3. Place(T, s[1]) = 1
    BY <1>1, <2>1, <2>2, NextPlace
  <2> QED BY <1>1, <2>1, <2>3, Places
<1>7. t = m - D + 1 /\ D \in 1 .. m
  <2>1. D - (m - t) = 1
    BY <1>5, <1>6
  <2>2. m \in Nat /\ t \in 1 .. m /\ D \in Nat
    BY <1>1, <1>5
  <2> QED BY <2>1, <2>2
<1> DEFINE rest == SubSeq(retries, t + 1, m)
<1>8. /\ rest \in Seq(Nat) /\ Len(rest) = D - 1
      /\ \A k \in 1 .. D - 1 : rest[k] = retries[t + k]
  <2>1. t + 1 \in 1 .. m + 1 /\ t + 1 \in Nat
    BY <1>1, <1>5
  <2> QED BY <1>1, <1>5, <1>7, <2>1
<1> HIDE DEF rest
<1>9. /\ retries' \in Seq(Nat) /\ Len(retries') = D
      /\ retries'[1] = s[1]
      /\ \A k \in 2 .. D : retries'[k] = rest[k - 1]
  <2>1. retries' = <<s[1]>> \o rest /\ s[1] \in Nat
    BY <1>1, <1>2, <1>5 DEF rest
  <2>2. <<s[1]>> \in Seq(Nat) /\ Len(<<s[1]>>) = 1
    BY <2>1
  <2> QED BY <1>1, <1>7, <1>8, <2>1, <2>2
<1>10. \A k \in 1 .. D : retries'[k] = IF k = 1 THEN Nth(T, 1) ELSE Nth(T, k) - Nth(T, k - 1)
  <2> SUFFICES ASSUME NEW k \in 1 .. D, k # 1
               PROVE  retries'[k] = Nth(T, k) - Nth(T, k - 1)
    BY <1>6, <1>9
  <2>1. k \in 2 .. D /\ k - 1 \in 1 .. D - 1 /\ t + (k - 1) \in t + 1 .. m
    BY <1>1, <1>7
  <2>2. retries'[k] = retries[t + (k - 1)]
    BY <1>8, <1>9, <2>1
  <2>3. D - (m - (t + (k - 1))) = k
    BY <1>1, <1>7, <2>1
  <2> QED BY <1>5, <2>1, <2>2, <2>3
<1>11. retries' = Delays(T)
  <2>1. Delays(T) = [k \in 1 .. D |-> IF k = 1 THEN Nth(T, 1) ELSE Nth(T, k) - Nth(T, k - 1)]
    BY DEF Delays, Nth, D
  <2>2. retries' = [k \in 1 .. D |-> retries'[k]]
    BY <1>9
  <2> QED BY <1>10, <2>1, <2>2
<1> QED BY <1>2, <1>4, <1>11 DEF IInv, T

LEMMA StepInv == IInv /\ [Next]_vars => IInv'
<1> SUFFICES ASSUME IInv, [Next]_vars PROVE IInv'
  OBVIOUS
<1>1. CASE Read
  BY <1>1, ReadInv
<1>2. CASE Difference
  BY <1>2, DifferenceInv
<1>3. CASE Erase
  BY <1>3, EraseInv
<1>4. CASE ReadsOutside
  <2>1. TimesOf(configured) = {}
    BY <1>4 DEF IInv, ReadsOutside, Converting
  <2> QED BY <1>4, <2>1 DEF IInv, ReadsOutside
<1>5. CASE UNCHANGED vars
  BY <1>5 DEF vars, IInv, Converting
<1> QED BY <1>1, <1>2, <1>3, <1>4, <1>5 DEF Next

LEMMA Invariance == Spec => []IInv
  BY InitInv, StepInv, PTL DEF Spec

-----------------------------------------------------------------------------
(* The theorems *)

LEMMA TimesAgree == IInv => Times = TimesOf(configured)
  BY DEF Times, TimesOf

\* The delays are periods: differences of the times in ascending order.
LEMMA DelaysType ==
  ASSUME NEW T, T \subseteq Nat, IsFiniteSet(T)
  PROVE  /\ Delays(T) \in Seq(Nat) /\ Len(Delays(T)) = Cardinality(T)
         /\ \A k \in 2 .. Cardinality(T) : Nth(T, k) - Nth(T, k - 1) \in Nat \ {0}
<1> DEFINE D == Cardinality(T)
<1>1. /\ D \in Nat
      /\ \A x, y \in T : x <= y <=> Place(T, x) <= Place(T, y)
      /\ \A k \in 1 .. D : Nth(T, k) \in T /\ Place(T, Nth(T, k)) = k
  BY Places
<1> HIDE DEF D
<1>2. ASSUME NEW k \in 2 .. D PROVE Nth(T, k) - Nth(T, k - 1) \in Nat \ {0}
  <2>1. k \in 1 .. D /\ k - 1 \in 1 .. D /\ ~(k <= k - 1)
    BY <1>1
  <2>2. PICK x \in T, y \in T : x = Nth(T, k - 1) /\ y = Nth(T, k)
    BY <1>1, <2>1
  <2>3. ~(y <= x)
    BY <1>1, <2>1, <2>2
  <2>4. x \in Nat /\ y \in Nat
    OBVIOUS
  <2> QED BY <2>2, <2>3, <2>4
<1>3. Delays(T) = [k \in 1 .. D |-> IF k = 1 THEN Nth(T, 1) ELSE Nth(T, k) - Nth(T, k - 1)]
  BY DEF Delays, Nth, D
<1>4. \A k \in 1 .. D : k = 1 \/ k \in 2 .. D
  BY <1>1
<1>5. \A k \in 1 .. D : (IF k = 1 THEN Nth(T, 1) ELSE Nth(T, k) - Nth(T, k - 1)) \in Nat
  BY <1>1, <1>2, <1>4
<1> QED BY <1>1, <1>2, <1>3, <1>5 DEF D

\* The conversion, with its pointers and its overwritten null differences, leaves
\* the delays between the times of the list, whatever their order and however
\* often one is given.
THEOREM ConversionRight == Spec => []DelaysMatchTimes
<1>1. IInv => DelaysMatchTimes
  BY TimesAgree DEF IInv, DelaysMatchTimes
<1> QED BY <1>1, Invariance, PTL

\* The writing pointer never overtakes the reading one.
THEOREM WritingBehind == Spec => []WritesBehindReads
<1>1. IInv => WritesBehindReads
  <2> DEFINE s == Arranged(configured)
             T == TimesOf(configured)
             D == Cardinality(T)
  <2> SUFFICES ASSUME IInv, pc = "convert", T # {}
               PROVE  /\ 1 <= f /\ f <= t /\ t <= Len(retries)
                      /\ \A i \in 1 .. f : retries[i] = s[i]
                      /\ \A i \in t + 1 .. Len(retries) : retries[i] > 0
    BY TimesAgree DEF WritesBehindReads
  <2>1. Converting(s, T)
    BY DEF IInv
  <2>2. T \subseteq Nat /\ IsFiniteSet(T) /\ Len(s) \in Nat
    BY ListFacts DEF IInv
  <2> HIDE DEF s, T, D
  <2>3. \A k \in 2 .. D : Nth(T, k) - Nth(T, k - 1) \in Nat \ {0}
    BY <2>2, DelaysType DEF D
  <2>4. ASSUME NEW i \in t + 1 .. Len(retries) PROVE retries[i] > 0
    <3>1. /\ D - (Len(s) - i) \in 2 .. D
          /\ retries[i] = Nth(T, D - (Len(s) - i)) - Nth(T, D - (Len(s) - i) - 1)
      BY <2>1 DEF Converting, D
    <3>2. retries[i] \in Nat \ {0}
      BY <2>3, <3>1
    <3> QED BY <3>2
  <2> QED BY <2>1, <2>2, <2>4 DEF Converting
<1> QED BY <1>1, Invariance, PTL

\* The conversion leaves the vector for no list but one of several periods that
\* are all ignored: the loop of configuration.cpp:324-333 meets begin() otherwise.
THEOREM OutsideIfAllIgnored == Spec => []UndefinedIfAllIgnored
<1>1. IInv => UndefinedIfAllIgnored
  BY TimesAgree DEF IInv, UndefinedIfAllIgnored
<1> QED BY <1>1, Invariance, PTL

\* The types of RetryPeriods hold in every reachable state: no delay is negative.
LEMMA Typing == Spec => []TypeOK
<1>1. IInv => TypeOK
  <2> DEFINE T == TimesOf(configured)
  <2> SUFFICES ASSUME IInv PROVE TypeOK
    OBVIOUS
  <2>1. /\ Len(configured) \in Nat /\ Len(configured) <= MaxLen /\ MaxLen \in Nat
        /\ Len(Arranged(configured)) <= MaxLen
        /\ T \subseteq Nat /\ IsFiniteSet(T)
        /\ Cardinality(T) <= MaxLen
    <3>1. /\ Len(configured) \in 0 .. MaxLen /\ Len(Arranged(configured)) \in 0 .. Len(configured)
          /\ T \subseteq Nat /\ IsFiniteSet(T)
          /\ Cardinality(T) \in 0 .. Len(Arranged(configured))
      BY ListFacts DEF IInv
    <3>2. MaxLen \in Nat
      BY RetryPeriodsAssumption DEF RetryPeriodsAssumption
    <3> QED BY <3>1, <3>2
  <2>2. retries \in Seq(Nat) /\ Len(retries) <= MaxLen
    <3>1. CASE retries = <<>>
      BY <2>1, <3>1
    <3>2. CASE retries = Delays(T)
      BY <2>1, <3>2, DelaysType
    <3>3. CASE Converting(Arranged(configured), T)
      BY <2>1, <3>3 DEF Converting
    <3> QED BY <3>1, <3>2, <3>3 DEF IInv
  <2> QED BY <2>1, <2>2 DEF IInv, TypeOK
<1> QED BY <1>1, Invariance, PTL
=============================================================================
