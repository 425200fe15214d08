--------------------------- MODULE MatcherProofs ----------------------------
(***************************************************************************)
(* Proofs about Matcher, for any names, thresholds, n-gram size and scale. *)
(***************************************************************************)
EXTENDS Matcher, SequenceTheorems, OrderLemmas, TLAPS

-----------------------------------------------------------------------------
(* The order of the slices *)

\* compare() is a strict order in which any two strings can be compared.
LEMMA LessOrder ==
  ASSUME NEW x \in Seq(Nat), NEW y \in Seq(Nat)
  PROVE  /\ ~(Less(x, y) /\ Less(y, x))
         /\ x = y \/ Less(x, y) \/ Less(y, x)
<1>1. ASSUME Less(x, y), Less(y, x) PROVE FALSE
  <2>1. PICK k \in 1 .. Len(y) : /\ \A m \in 1 .. k - 1 : m <= Len(x) /\ x[m] = y[m]
                                 /\ k <= Len(x) => x[k] < y[k]
    BY <1>1 DEF Less
  <2>2. PICK l \in 1 .. Len(x) : /\ \A m \in 1 .. l - 1 : m <= Len(y) /\ y[m] = x[m]
                                 /\ l <= Len(y) => y[l] < x[l]
    BY <1>1 DEF Less
  <2>3. CASE k < l
    <3>1. k \in 1 .. l - 1 /\ k <= Len(x) /\ k \in 1 .. Len(x)
      BY <2>3
    <3> QED BY <2>1, <2>2, <3>1
  <2>4. CASE l < k
    <3>1. l \in 1 .. k - 1 /\ l <= Len(y) /\ l \in 1 .. Len(y)
      BY <2>4
    <3> QED BY <2>1, <2>2, <3>1
  <2>5. CASE k = l
    <3>1. k <= Len(x) /\ l <= Len(y) /\ x[k] \in Nat /\ y[k] \in Nat
      BY <2>5
    <3> QED BY <2>1, <2>2, <2>5, <3>1
  <2> QED BY <2>3, <2>4, <2>5
<1>2. ASSUME x # y PROVE Less(x, y) \/ Less(y, x)
  <2> DEFINE T == {m \in Nat \ {0} : /\ m <= Len(x) \/ m <= Len(y)
                                     /\ ~(m <= Len(x) /\ m <= Len(y) /\ x[m] = y[m])}
  <2>1. T # {}
    <3> SUFFICES ASSUME T = {} PROVE FALSE
      OBVIOUS
    <3>1. \A m \in Nat \ {0} : m <= Len(x) \/ m <= Len(y) =>
             m <= Len(x) /\ m <= Len(y) /\ x[m] = y[m]
      OBVIOUS
    <3>2. Len(x) = Len(y)
      <4>1. ~(Len(x) < Len(y))
        BY <3>1
      <4>2. ~(Len(y) < Len(x))
        BY <3>1
      <4> QED BY <4>1, <4>2
    <3>3. \A m \in 1 .. Len(x) : x[m] = y[m]
      BY <3>1
    <3>4. x = y
      BY <3>2, <3>3, SeqEqual
    <3> QED BY <1>2, <3>4
  <2>2. PICK k \in T : \A m \in T : k <= m
    BY <2>1, LeastNumber
  <2>3. k \in Nat \ {0} /\ \A m \in 1 .. k - 1 : m \notin T /\ m \in Nat \ {0}
    BY <2>2
  <2>4. k <= Len(x) \/ k <= Len(y)
    OBVIOUS
  <2>5. \A m \in 1 .. k - 1 : m <= Len(x) /\ m <= Len(y) /\ x[m] = y[m]
    <3> SUFFICES ASSUME NEW m \in 1 .. k - 1 PROVE m <= Len(x) /\ m <= Len(y) /\ x[m] = y[m]
      OBVIOUS
    <3>1. m \notin T /\ m \in Nat \ {0}
      BY <2>3
    <3>2. m <= Len(x) \/ m <= Len(y)
      BY <2>3, <2>4
    <3> QED BY <3>1, <3>2
  <2>6. CASE k <= Len(x) /\ k <= Len(y)
    <3>1. x[k] \in Nat /\ y[k] \in Nat /\ x[k] # y[k] /\ k \in 1 .. Len(x) /\ k \in 1 .. Len(y)
      BY <2>3, <2>6
    <3>2. x[k] < y[k] \/ y[k] < x[k]
      BY <3>1
    <3> QED BY <2>5, <3>1, <3>2 DEF Less
  <2>7. CASE ~(k <= Len(x))
    <3>1. k \in 1 .. Len(y)
      BY <2>3, <2>4, <2>7
    <3> QED BY <2>5, <2>7, <3>1 DEF Less
  <2>8. CASE ~(k <= Len(y))
    <3>1. k \in 1 .. Len(x)
      BY <2>3, <2>4, <2>8
    <3> QED BY <2>5, <2>8, <3>1 DEF Less
  <2> QED BY <2>6, <2>7, <2>8
<1> QED BY <1>1, <1>2

LEMMA LessTransitive ==
  ASSUME NEW x \in Seq(Nat), NEW y \in Seq(Nat), NEW z \in Seq(Nat), Less(x, y), Less(y, z)
  PROVE  Less(x, z)
<1>1. PICK k \in 1 .. Len(y) : /\ \A m \in 1 .. k - 1 : m <= Len(x) /\ x[m] = y[m]
                               /\ k <= Len(x) => x[k] < y[k]
  BY DEF Less
<1>2. PICK l \in 1 .. Len(z) : /\ \A m \in 1 .. l - 1 : m <= Len(y) /\ y[m] = z[m]
                               /\ l <= Len(y) => y[l] < z[l]
  BY DEF Less
<1>6. \A a, b, c \in Nat : a < b /\ b < c => a < c
  OBVIOUS
<1>3. CASE k < l
  <2>1. k \in 1 .. l - 1 /\ k \in 1 .. Len(z)
    BY <1>3
  <2>2. \A m \in 1 .. k - 1 : m \in 1 .. l - 1
    BY <1>3
  <2>3. y[k] = z[k] /\ \A m \in 1 .. k - 1 : m <= Len(x) /\ x[m] = z[m]
    BY <1>1, <1>2, <2>1, <2>2
  <2> QED BY <1>1, <2>1, <2>3 DEF Less
<1>4. CASE l < k
  <2>1. l \in 1 .. k - 1 /\ l <= Len(y)
    BY <1>4
  <2>2. \A m \in 1 .. l - 1 : m \in 1 .. k - 1
    BY <1>4
  <2>3. x[l] = y[l] /\ y[l] < z[l] /\ \A m \in 1 .. l - 1 : m <= Len(x) /\ x[m] = z[m]
    BY <1>1, <1>2, <2>1, <2>2
  <2> QED BY <2>3 DEF Less
<1>5. CASE k = l
  <2>1. \A m \in 1 .. l - 1 : m <= Len(x) /\ x[m] = z[m]
    BY <1>1, <1>2, <1>5
  <2>2. l <= Len(x) => x[l] < z[l]
    <3> SUFFICES ASSUME l <= Len(x) PROVE x[l] < z[l]
      OBVIOUS
    <3>1. l \in 1 .. Len(x) /\ l \in 1 .. Len(y)
      BY <1>5
    <3>2. x[l] \in Nat /\ y[l] \in Nat /\ z[l] \in Nat
      BY <3>1, ElementOfSeq
    <3>3. x[l] < y[l]
      BY <1>1, <1>5
    <3>4. y[l] < z[l]
      BY <1>2, <3>1
    <3> QED BY ONLY <1>6, <3>2, <3>3, <3>4
  <2> QED BY <2>1, <2>2 DEF Less
<1> QED BY <1>3, <1>4, <1>5

\* Sorted(s) is in ascending order and has every slice as often as s.
LEMMA SortedList ==
  ASSUME NEW s \in Seq(Seq(Nat))
  PROVE  /\ Sorted(s) \in Seq(Seq(Nat)) /\ Len(Sorted(s)) = Len(s)
         /\ \A k, l \in 1 .. Len(s) : k <= l => ~Less(Sorted(s)[l], Sorted(s)[k])
         /\ \A x : Times(x, Sorted(s)) = Times(x, s)
<1> DEFINE D == DOMAIN s
           R == {p \in D \X D : Precedes(s, p[1], p[2])}
           n == Len(s)
           nth(k) == CHOOSE l \in D : Cardinality({m \in D : Precedes(s, m, l)}) = k
<1>1. D = 1 .. n /\ n \in Nat /\ \A k \in D : s[k] \in Seq(Nat)
  OBVIOUS
<1>2. IsFiniteSet(D) /\ Cardinality(D) = n
  BY <1>1, FS_Interval
<1>3. \A k, l \in D : <<k, l>> \in R <=> Precedes(s, k, l)
  OBVIOUS
<1>4. Ordered(D, R)
  <2>1. \A k, l \in D : Precedes(s, k, l) \/ Precedes(s, l, k)
    <3> SUFFICES ASSUME NEW k \in D, NEW l \in D PROVE Precedes(s, k, l) \/ Precedes(s, l, k)
      OBVIOUS
    <3>1. s[k] = s[l] \/ Less(s[k], s[l]) \/ Less(s[l], s[k])
      BY <1>1, LessOrder
    <3>2. k <= l \/ l <= k
      BY <1>1
    <3> QED BY <3>1, <3>2 DEF Precedes
  <2>2. \A k, l \in D : Precedes(s, k, l) /\ Precedes(s, l, k) => k = l
    <3> SUFFICES ASSUME NEW k \in D, NEW l \in D, Precedes(s, k, l), Precedes(s, l, k) PROVE k = l
      OBVIOUS
    <3>1. ~(Less(s[k], s[l]) /\ Less(s[l], s[k])) /\ ~(Less(s[k], s[k]) /\ Less(s[k], s[k]))
      BY <1>1, LessOrder
    <3>2. s[k] = s[l]
      BY <3>1 DEF Precedes
    <3>3. k <= l /\ l <= k
      BY <3>1, <3>2 DEF Precedes
    <3> QED BY <1>1, <3>3
  <2>3. \A k, l, m \in D : Precedes(s, k, l) /\ Precedes(s, l, m) => Precedes(s, k, m)
    <3> SUFFICES ASSUME NEW k \in D, NEW l \in D, NEW m \in D, Precedes(s, k, l), Precedes(s, l, m)
                 PROVE  Precedes(s, k, m)
      OBVIOUS
    <3>1. Less(s[k], s[l]) /\ Less(s[l], s[m]) => Less(s[k], s[m])
      BY <1>1, LessTransitive
    <3>2. k <= l /\ l <= m => k <= m
      BY <1>1
    <3> QED BY <3>1, <3>2 DEF Precedes
  <2> HIDE DEF R, D
  <2> QED BY <1>3, <2>1, <2>2, <2>3 DEF Ordered
<1>5. \A k \in D : Rank(D, R, k) = Cardinality({m \in D : Precedes(s, m, k)})
  <2> SUFFICES ASSUME NEW k \in D PROVE Below(D, R, k) = {m \in D : Precedes(s, m, k)}
    BY DEF Rank
  <2> QED BY <1>3 DEF Below
<1>6. Sorted(s) = [k \in D |-> s[nth(k)]]
  BY DEF Sorted
<1> HIDE DEF R
<1>7. /\ \A k \in D : Rank(D, R, k) \in 1 .. n
      /\ \A k, l \in D : <<k, l>> \in R <=> Rank(D, R, k) <= Rank(D, R, l)
      /\ \A k \in 1 .. n : \E l \in D : Rank(D, R, l) = k
  BY <1>2, <1>4, Ranks
<1>8. \A k \in D : nth(k) \in D /\ Rank(D, R, nth(k)) = k
  <2> SUFFICES ASSUME NEW k \in D PROVE nth(k) \in D /\ Rank(D, R, nth(k)) = k
    OBVIOUS
  <2>1. \E l \in D : Cardinality({m \in D : Precedes(s, m, l)}) = k
    <3>1. PICK l \in D : Rank(D, R, l) = k
      BY <1>1, <1>7
    <3> QED BY <1>5, <3>1
  <2> QED BY <1>5, <2>1
<1> HIDE DEF nth
<1>9. \A l \in D : nth(Rank(D, R, l)) = l
  <2> SUFFICES ASSUME NEW l \in D PROVE nth(Rank(D, R, l)) = l
    OBVIOUS
  <2>1. Rank(D, R, l) \in D
    BY <1>1, <1>7
  <2>2. nth(Rank(D, R, l)) \in D /\ Rank(D, R, nth(Rank(D, R, l))) = Rank(D, R, l)
    BY <1>8, <2>1
  <2>3. Rank(D, R, l) \in Int
    BY <1>1, <2>1
  <2>4. <<l, nth(Rank(D, R, l))>> \in R /\ <<nth(Rank(D, R, l)), l>> \in R
    BY <1>7, <2>2, <2>3
  <2> QED BY <1>4, <2>2, <2>4 DEF Ordered
<1>10. Sorted(s) \in Seq(Seq(Nat)) /\ Len(Sorted(s)) = n /\ \A k \in D : Sorted(s)[k] = s[nth(k)]
  BY <1>1, <1>6, <1>8
<1>11. ASSUME NEW k \in D, NEW l \in D, k <= l PROVE ~Less(Sorted(s)[l], Sorted(s)[k])
  <2>1. Precedes(s, nth(k), nth(l))
    BY <1>3, <1>7, <1>8, <1>11
  <2>2. nth(k) \in D /\ nth(l) \in D
    BY <1>8
  <2>3. /\ ~(Less(s[nth(k)], s[nth(l)]) /\ Less(s[nth(l)], s[nth(k)]))
        /\ ~(Less(s[nth(k)], s[nth(k)]) /\ Less(s[nth(k)], s[nth(k)]))
    BY <1>1, <2>2, LessOrder
  <2> QED BY <1>10, <2>1, <2>3 DEF Precedes
<1>12. ASSUME NEW x PROVE Times(x, Sorted(s)) = Times(x, s)
  <2> DEFINE A == {k \in D : Sorted(s)[k] = x}
             B == {k \in D : s[k] = x}
             g == [k \in A |-> nth(k)]
  <2>1. IsFiniteSet(A)
    BY <1>2, FS_Subset
  <2>2. g \in [A -> B]
    BY <1>8, <1>10
  <2>3. \A k, l \in A : g[k] = g[l] => k = l
    BY <1>8
  <2>4. \A l \in B : \E k \in A : g[k] = l
    <3> SUFFICES ASSUME NEW l \in B PROVE \E k \in A : g[k] = l
      OBVIOUS
    <3>1. Rank(D, R, l) \in A
      BY <1>1, <1>7, <1>9, <1>10
    <3> QED BY <1>9, <3>1
  <2> HIDE DEF g
  <2>5. g \in Bijection(A, B)
    BY <2>2, <2>3, <2>4 DEF Bijection, Injection, Surjection, IsInjective
  <2>6. Cardinality(A) = Cardinality(B)
    BY <2>1, <2>5, FS_Bijection DEF ExistsBijection
  <2> QED BY <1>1, <1>10, <2>6 DEF Times
<1> QED BY <1>1, <1>10, <1>11, <1>12

-----------------------------------------------------------------------------
(* The slices of a name *)

LEMMA WordType ==
  ASSUME NEW str \in Seq(Nat), NEW k \in 1 .. Len(str), str[k] \in Alpha
  PROVE  WordFrom(str, k) \in Seq(Nat)
<1> DEFINE T == {m \in Nat : m \in k .. Len(str) /\ (m < Len(str) => str[m + 1] \notin Alpha)}
<1>1. Len(str) \in T
  OBVIOUS
<1>2. PICK m \in T : \A l \in T : m <= l
  BY <1>1, LeastNumber
<1>3. ASSUME NEW l \in k .. m PROVE str[l] \in Alpha
  <2> DEFINE U == {q \in Nat : q \in k .. m /\ str[q] \notin Alpha}
  <2> SUFFICES ASSUME U # {} PROVE FALSE
    BY <1>3
  <2>1. PICK q \in U : \A r \in U : q <= r
    BY LeastNumber
  <2>2. q \in Nat /\ q - 1 \in Nat /\ q - 1 >= k /\ q <= m /\ q - 1 < Len(str)
    BY <1>2, <2>1
  <2>3. q - 1 \in T
    BY <2>1, <2>2
  <2> QED BY <1>2, <2>2, <2>3
<1>4. \E e \in k .. Len(str) : /\ \A l \in k .. e : str[l] \in Alpha
                               /\ e < Len(str) => str[e + 1] \notin Alpha
  BY <1>2, <1>3
<1>5. PICK e \in k .. Len(str) : WordFrom(str, k) = SubSeq(str, k, e)
  BY <1>4 DEF WordFrom
<1> QED BY <1>5

\* Every name has at least one slice, and its slices are strings.
LEMMA SlicesType ==
  ASSUME NEW str \in Seq(Nat), NEW which \in {"ngram", "word"}, NEW indexing \in BOOLEAN
  PROVE  /\ Slices(which, str, indexing) \in Seq(Seq(Nat))
         /\ Len(Slices(which, str, indexing)) \in Nat \ {0}
<1>1. Ngrams(str) \in Seq(Seq(Nat))
  <2> DEFINE n == IF Len(str) > NgramSize THEN NgramSize ELSE Len(str)
             g == [k \in 1 .. Len(str) - n + 1 |-> SubSeq(str, k, k + n - 1)]
  <2>1. n \in Nat /\ n <= Len(str) /\ Len(str) \in Nat /\ Len(str) - n + 1 \in Nat
    BY MatcherAssumption DEF MatcherAssumption
  <2>2. ASSUME NEW k \in 1 .. Len(str) - n + 1 PROVE SubSeq(str, k, k + n - 1) \in Seq(Nat)
    <3>1. k \in 1 .. Len(str) + 1 /\ k + n - 1 \in k - 1 .. Len(str)
      BY <2>1
    <3> QED BY <3>1
  <2> HIDE DEF n
  <2>3. g \in Seq(Seq(Nat))
    BY <2>1, <2>2
  <2> QED BY <2>3 DEF Ngrams, n
<1>2. Words(str, indexing) \in Seq(Seq(Nat))
  <2> DEFINE T == {k \in 1 .. Len(str) : BeginsWord(str, k) \/ str[k] \in Digit}
             g == [m \in 1 .. Cardinality(T) |->
                      IF str[Nth(T, m)] \in Digit THEN DigitSlice(indexing)
                      ELSE WordFrom(str, Nth(T, m))]
  <2>1. T \subseteq Nat /\ T \subseteq 1 .. Len(str) /\ IsFiniteSet(T)
    BY FS_Interval, FS_Subset
  <2>2. Cardinality(T) \in Nat /\ \A m \in 1 .. Cardinality(T) : Nth(T, m) \in T
    <3> HIDE DEF T
    <3> QED BY <2>1, Places
  <2>3. DigitSlice(indexing) \in Seq(Nat)
    <3>1. Zero \in Nat /\ One \in Nat
      BY MatcherAssumption DEF MatcherAssumption
    <3>2. <<Zero>> \in Seq(Nat) /\ <<One>> \in Seq(Nat)
      BY <3>1
    <3> QED BY <3>2 DEF DigitSlice
  <2>4. \A k \in T : str[k] \notin Digit => WordFrom(str, k) \in Seq(Nat)
    BY WordType DEF BeginsWord
  <2>5. g \in Seq(Seq(Nat))
    <3> HIDE DEF T
    <3>1. ASSUME NEW m \in 1 .. Cardinality(T)
          PROVE  (IF str[Nth(T, m)] \in Digit THEN DigitSlice(indexing)
                  ELSE WordFrom(str, Nth(T, m))) \in Seq(Nat)
      BY <2>2, <2>3, <2>4
    <3> QED BY <2>2, <3>1
  <2> HIDE DEF g
  <2>6. Words(str, indexing) = g
    BY DEF Words, Nth, g
  <2> QED BY <2>5, <2>6
<1>3. PICK s \in Seq(Seq(Nat)) : s = IF which = "ngram" THEN Ngrams(str) ELSE Words(str, indexing)
  BY <1>1, <1>2
<1>4. Slices(which, str, indexing) = IF s = <<>> THEN << <<>> >> ELSE s
  BY <1>3 DEF Slices
<1>5. CASE s = <<>>
  BY <1>4, <1>5
<1>6. CASE s # <<>>
  <2>1. Len(s) # 0
    BY <1>6
  <2> QED BY <1>4, <1>6, <2>1
<1> QED BY <1>5, <1>6

-----------------------------------------------------------------------------
(* Shared slices *)

Distinct(a) == {a[k] : k \in 1 .. Len(a)}

Occurrences(x, a) == {k \in 1 .. Len(a) : a[k] = x}

\* The copies of the slices in X that a and b share; all of them in BagShared.
Copies(X, a, b) ==
    {p \in X \X (1 .. Len(a)) : p[2] <= Times(p[1], a) /\ p[2] <= Times(p[1], b)}

LEMMA TimesType ==
  ASSUME NEW x, NEW a, Len(a) \in Nat
  PROVE  /\ Times(x, a) = Cardinality(Occurrences(x, a))
         /\ Times(x, a) \in 0 .. Len(a)
         /\ IsFiniteSet(Occurrences(x, a)) /\ Occurrences(x, a) \subseteq Nat
<1>1. IsFiniteSet(1 .. Len(a)) /\ Cardinality(1 .. Len(a)) = Len(a)
  BY Segment
<1>2. Occurrences(x, a) \subseteq 1 .. Len(a)
  BY DEF Occurrences
<1>3. /\ IsFiniteSet(Occurrences(x, a)) /\ Cardinality(Occurrences(x, a)) \in Nat
      /\ Cardinality(Occurrences(x, a)) <= Len(a)
  BY <1>1, <1>2, FS_Subset, FS_CardinalityType
<1> QED BY <1>2, <1>3 DEF Times, Occurrences

\* The n-th copy of x is put where x occurs for the n-th time: copies of slices of
\* c are no more than the slices of c.
LEMMA CopiesFit ==
  ASSUME NEW c, Len(c) \in Nat, NEW P,
         \A p \in P : p = <<p[1], p[2]>> /\ p[2] \in 1 .. Times(p[1], c)
  PROVE  IsFiniteSet(P) /\ Cardinality(P) \in Nat /\ Cardinality(P) <= Len(c)
<1> DEFINE g == [p \in P |-> Nth(Occurrences(p[1], c), p[2])]
<1>1. \A p \in P : /\ g[p] \in Occurrences(p[1], c)
                   /\ Place(Occurrences(p[1], c), g[p]) = p[2]
  <2> SUFFICES ASSUME NEW p \in P
               PROVE  /\ Nth(Occurrences(p[1], c), p[2]) \in Occurrences(p[1], c)
                      /\ Place(Occurrences(p[1], c), Nth(Occurrences(p[1], c), p[2])) = p[2]
    OBVIOUS
  <2>1. p[2] \in 1 .. Cardinality(Occurrences(p[1], c))
    BY TimesType
  <2> QED BY <2>1, TimesType, Places
<1>2. g \in [P -> 1 .. Len(c)]
  BY <1>1 DEF Occurrences
<1>3. \A p, q \in P : g[p] = g[q] => p = q
  <2> SUFFICES ASSUME NEW p \in P, NEW q \in P, g[p] = g[q] PROVE p = q
    OBVIOUS
  <2>1. p[1] = c[g[p]] /\ q[1] = c[g[q]]
    BY <1>1 DEF Occurrences
  <2>2. p[1] = q[1]
    BY <2>1
  <2>3. p[2] = q[2]
    BY <1>1, <2>2
  <2>4. p = <<p[1], p[2]>> /\ q = <<q[1], q[2]>>
    OBVIOUS
  <2> QED BY <2>2, <2>3, <2>4
<1> HIDE DEF g
<1>4. g \in Injection(P, 1 .. Len(c))
  BY <1>2, <1>3 DEF Injection, IsInjective
<1>5. IsFiniteSet(1 .. Len(c)) /\ Cardinality(1 .. Len(c)) = Len(c)
  BY Segment
<1>6. IsFiniteSet(P) /\ Cardinality(P) <= Len(c)
  BY <1>4, <1>5, FS_Injection
<1> QED BY <1>6, FS_CardinalityType

LEMMA CopiesType ==
  ASSUME NEW X, NEW a, NEW b, Len(a) \in Nat, Len(b) \in Nat
  PROVE  /\ IsFiniteSet(Copies(X, a, b)) /\ Cardinality(Copies(X, a, b)) \in Nat
         /\ Cardinality(Copies(X, a, b)) <= Len(a)
         /\ Cardinality(Copies(X, a, b)) <= Len(b)
<1>1. \A p \in Copies(X, a, b) :
        /\ p = <<p[1], p[2]>> /\ p[2] \in Nat \ {0}
        /\ p[2] <= Times(p[1], a) /\ p[2] <= Times(p[1], b)
  BY DEF Copies
<1>2. \A x : Times(x, a) \in Nat /\ Times(x, b) \in Nat
  BY TimesType
<1> DEFINE P == Copies(X, a, b)
<1> HIDE DEF P
<1>3. \A p \in P : /\ p = <<p[1], p[2]>>
                   /\ p[2] \in 1 .. Times(p[1], a) /\ p[2] \in 1 .. Times(p[1], b)
  BY <1>1, <1>2 DEF P
<1>4. IsFiniteSet(P) /\ Cardinality(P) \in Nat /\ Cardinality(P) <= Len(a)
  BY <1>3, CopiesFit
<1>5. Cardinality(P) <= Len(b)
  BY <1>3, CopiesFit
<1> QED BY <1>4, <1>5 DEF P

\* One more slice adds the lesser of its two counts.
LEMMA CopiesAdd ==
  ASSUME NEW X, NEW x, x \notin X, NEW a, NEW b, Len(a) \in Nat, Len(b) \in Nat
  PROVE  Cardinality(Copies(X \cup {x}, a, b))
           = Cardinality(Copies(X, a, b)) + Shared(Times(x, a), Times(x, b))
<1> DEFINE n == Shared(Times(x, a), Times(x, b))
           P == Copies(X, a, b)
           Q == {x} \X (1 .. n)
<1>1. /\ Times(x, a) \in Nat /\ Times(x, b) \in Nat /\ Times(x, a) <= Len(a)
      /\ n \in Nat /\ n <= Len(a)
      /\ \A k \in 1 .. Len(a) : (k <= Times(x, a) /\ k <= Times(x, b)) <=> k <= n
  BY TimesType DEF Shared
<1> HIDE DEF n
<1>2. Copies(X \cup {x}, a, b) = P \cup Q
  <2>1. Q \subseteq {x} \X (1 .. Len(a))
    BY <1>1
  <2>2. \A k \in 1 .. Len(a) : <<x, k>> \in Q <=> (k <= Times(x, a) /\ k <= Times(x, b))
    BY <1>1
  <2>3. \A p \in (X \cup {x}) \X (1 .. Len(a)) :
          p \in Copies(X \cup {x}, a, b) <=> p \in P \cup Q
    <3> SUFFICES ASSUME NEW p \in (X \cup {x}) \X (1 .. Len(a))
                 PROVE  p \in Copies(X \cup {x}, a, b) <=> p \in P \cup Q
      OBVIOUS
    <3>1. PICK y \in X \cup {x}, k \in 1 .. Len(a) : p = <<y, k>>
      OBVIOUS
    <3>2. <<y, k>> \in Copies(X \cup {x}, a, b) <=> k <= Times(y, a) /\ k <= Times(y, b)
      BY DEF Copies
    <3>3. <<y, k>> \in P <=> y \in X /\ k <= Times(y, a) /\ k <= Times(y, b)
      BY DEF Copies
    <3>4. <<y, k>> \in Q => y = x
      OBVIOUS
    <3> HIDE DEF P, Q
    <3> QED BY <2>2, <3>1, <3>2, <3>3, <3>4
  <2>4. P \subseteq (X \cup {x}) \X (1 .. Len(a)) /\ Copies(X \cup {x}, a, b) \subseteq (X \cup {x}) \X (1 .. Len(a))
    BY DEF Copies
  <2> HIDE DEF P, Q
  <2> QED BY <2>1, <2>3, <2>4
<1>3. P \cap Q = {}
  BY DEF Copies
<1>4. IsFiniteSet(Q) /\ Cardinality(Q) = n
  <2> DEFINE g == [k \in 1 .. n |-> <<x, k>>]
  <2>1. g \in Bijection(1 .. n, Q)
    BY DEF Bijection, Injection, Surjection, IsInjective
  <2>2. IsFiniteSet(1 .. n) /\ Cardinality(1 .. n) = n
    BY <1>1, FS_Interval
  <2> HIDE DEF g, Q
  <2> QED BY <2>1, <2>2, FS_Bijection DEF ExistsBijection
<1>5. IsFiniteSet(P) /\ Cardinality(P) \in Nat
  BY CopiesType
<1> HIDE DEF P, Q
<1>6. Cardinality(P \cup Q) = Cardinality(P) + Cardinality(Q) - Cardinality(P \cap Q)
  BY <1>4, <1>5, FS_Union
<1>7. Cardinality(P \cap Q) = 0
  BY <1>3, FS_EmptySet
<1>8. Cardinality(P \cup Q) = Cardinality(P) + n
  BY <1>1, <1>4, <1>5, <1>6, <1>7
<1> QED BY <1>2, <1>8 DEF P, n

\* A name shares all its slices with itself.
LEMMA CopiesSelf ==
  ASSUME NEW a, Len(a) \in Nat
  PROVE  Cardinality(Copies(Distinct(a), a, a)) = Len(a)
<1> DEFINE P == Copies(Distinct(a), a, a)
           g == [m \in 1 .. Len(a) |-> <<a[m], Place(Occurrences(a[m], a), m)>>]
<1>1. IsFiniteSet(P) /\ Cardinality(P) \in Nat /\ Cardinality(P) <= Len(a)
  BY CopiesType
<1>2. \A m \in 1 .. Len(a) :
        Place(Occurrences(a[m], a), m) \in 1 .. Times(a[m], a)
          /\ Nth(Occurrences(a[m], a), Place(Occurrences(a[m], a), m)) = m
  <2> SUFFICES ASSUME NEW m \in 1 .. Len(a)
               PROVE  Place(Occurrences(a[m], a), m) \in 1 .. Times(a[m], a)
                        /\ Nth(Occurrences(a[m], a), Place(Occurrences(a[m], a), m)) = m
    OBVIOUS
  <2>1. m \in Occurrences(a[m], a)
    BY DEF Occurrences
  <2> QED BY <2>1, TimesType, Places
<1>3. \A m \in 1 .. Len(a) : g[m] \in P
  <2> SUFFICES ASSUME NEW m \in 1 .. Len(a) PROVE <<a[m], Place(Occurrences(a[m], a), m)>> \in P
    OBVIOUS
  <2>1. a[m] \in Distinct(a) /\ Times(a[m], a) \in 0 .. Len(a)
    BY TimesType DEF Distinct
  <2>2. Place(Occurrences(a[m], a), m) \in 1 .. Times(a[m], a)
    BY <1>2
  <2>3. PICK k \in 1 .. Len(a) : k = Place(Occurrences(a[m], a), m) /\ k <= Times(a[m], a)
    BY <2>1, <2>2
  <2> QED BY <2>1, <2>3 DEF Copies
<1>4. \A l, m \in 1 .. Len(a) : g[l] = g[m] => l = m
  <2> SUFFICES ASSUME NEW l \in 1 .. Len(a), NEW m \in 1 .. Len(a), g[l] = g[m] PROVE l = m
    OBVIOUS
  <2>1. a[l] = a[m] /\ Place(Occurrences(a[l], a), l) = Place(Occurrences(a[m], a), m)
    OBVIOUS
  <2> QED BY <1>2, <2>1
<1>5. g \in Injection(1 .. Len(a), P)
  <2> HIDE DEF P
  <2>1. g \in [1 .. Len(a) -> P]
    BY <1>3
  <2> HIDE DEF g
  <2> QED BY <1>4, <2>1 DEF Injection, IsInjective
<1>6. Cardinality(1 .. Len(a)) = Len(a)
  BY Segment
<1> HIDE DEF P, g
<1>7. Len(a) <= Cardinality(P)
  BY <1>1, <1>5, <1>6, FS_Injection
<1> QED BY <1>1, <1>7 DEF P

\* What the whole of the slices has in common with another name is BagShared.
LEMMA CopiesOfAll ==
  ASSUME NEW which, NEW str, NEW t
  PROVE  BagShared(which, str, t)
           = Cardinality(Copies(Distinct(Slices(which, str, FALSE)), Slices(which, str, FALSE),
                                Slices(which, t, TRUE)))
BY DEF BagShared, Copies, Distinct

-----------------------------------------------------------------------------
(* Runs of equal slices *)

\* The slices before the m-th.
Seen(s, m) == {s[k] : k \in 1 .. m - 1}

\* A run of equal slices from m to k - 1, after lesser and before greater ones, has
\* every occurrence of its slice.
LEMMA RunIsWhole ==
  ASSUME NEW a \in Seq(Seq(Nat)), NEW m \in 1 .. Len(Sorted(a)),
         NEW k \in m + 1 .. Len(Sorted(a)) + 1,
         \A l \in m .. k - 1 : Sorted(a)[l] = Sorted(a)[m],
         \A l \in 1 .. m - 1 : Less(Sorted(a)[l], Sorted(a)[m]),
         k <= Len(Sorted(a)) => Less(Sorted(a)[m], Sorted(a)[k])
  PROVE  /\ Times(Sorted(a)[m], a) = k - m
         /\ Sorted(a)[m] \notin Seen(Sorted(a), m)
         /\ Seen(Sorted(a), k) = Seen(Sorted(a), m) \cup {Sorted(a)[m]}
<1> DEFINE s == Sorted(a)
           n == Len(s)
<1>1. /\ s \in Seq(Seq(Nat)) /\ n \in Nat
      /\ \A l, r \in 1 .. n : l <= r => ~Less(s[r], s[l])
      /\ Times(s[m], a) = Times(s[m], s)
  BY SortedList
<1>2. /\ m \in 1 .. n /\ k \in m + 1 .. n + 1
      /\ \A l \in m .. k - 1 : s[l] = s[m]
      /\ \A l \in 1 .. m - 1 : Less(s[l], s[m])
      /\ k <= n => Less(s[m], s[k])
  OBVIOUS
<1> HIDE DEF s
<1>3. \A l \in 1 .. n : s[l] \in Seq(Nat)
  BY <1>1
<1>4. \A l \in 1 .. m - 1 : s[l] # s[m]
  <2> SUFFICES ASSUME NEW l \in 1 .. m - 1, s[l] = s[m] PROVE FALSE
    OBVIOUS
  <2>1. Less(s[m], s[m])
    BY <1>2
  <2> QED BY <1>2, <1>3, <2>1, LessOrder
<1>5. \A l \in k .. n : s[l] # s[m]
  <2> SUFFICES ASSUME NEW l \in k .. n, s[l] = s[m] PROVE FALSE
    OBVIOUS
  <2>1. k <= n /\ k \in 1 .. n /\ l \in 1 .. n /\ k <= l
    BY <1>1, <1>2
  <2> QED BY <1>1, <1>2, <2>1
<1>6. Occurrences(s[m], s) = m .. k - 1
  <2>1. \A l \in 1 .. n : s[l] = s[m] <=> l \in m .. k - 1
    <3> SUFFICES ASSUME NEW l \in 1 .. n PROVE s[l] = s[m] <=> l \in m .. k - 1
      OBVIOUS
    <3>1. l \in 1 .. m - 1 \/ l \in m .. k - 1 \/ l \in k .. n
      BY <1>1, <1>2
    <3>2. l \in m .. k - 1 => ~(l \in 1 .. m - 1) /\ ~(l \in k .. n)
      BY <1>1, <1>2
    <3> QED BY <1>2, <1>4, <1>5, <3>1, <3>2
  <2>2. m .. k - 1 \subseteq 1 .. n
    <3>1. n \in Nat /\ m \in 1 .. n /\ k \in m + 1 .. n + 1
      BY <1>1, <1>2
    <3> QED BY <3>1
  <2> QED BY <2>1, <2>2 DEF Occurrences
<1>7. Times(s[m], s) = k - m
  <2>1. Cardinality(m .. k - 1) = IF m > k - 1 THEN 0 ELSE k - 1 - m + 1
    <3>1. m \in Int /\ k - 1 \in Int
      BY <1>1, <1>2
    <3> QED BY <3>1, FS_Interval
  <2>2. Cardinality(m .. k - 1) = k - m
    BY <1>1, <1>2, <2>1
  <2> QED BY <1>6, <2>2 DEF Times, Occurrences
<1>8. s[m] \notin Seen(s, m)
  BY <1>4 DEF Seen
<1>9. Seen(s, k) = Seen(s, m) \cup {s[m]}
  <2>1. \A l \in 1 .. k - 1 : l \in 1 .. m - 1 \/ l \in m .. k - 1
    BY <1>1, <1>2
  <2>2. m \in 1 .. k - 1 /\ \A l \in 1 .. m - 1 : l \in 1 .. k - 1
    BY <1>1, <1>2
  <2> QED BY <1>2, <2>1, <2>2 DEF Seen
<1> QED BY <1>1, <1>7, <1>8, <1>9 DEF s

\* The slices of the sorted list are those of the list.
LEMMA SeenAll ==
  ASSUME NEW a \in Seq(Seq(Nat)), NEW k, k = Len(Sorted(a)) + 1
  PROVE  Seen(Sorted(a), k) = Distinct(a)
<1> DEFINE s == Sorted(a)
<1>1. /\ s \in Seq(Seq(Nat)) /\ Len(s) = Len(a) /\ Len(a) \in Nat
      /\ \A x : Times(x, s) = Times(x, a)
  BY SortedList
<1> HIDE DEF s
<1>2. \A x : Occurrences(x, s) = {} <=> Occurrences(x, a) = {}
  <2> SUFFICES ASSUME NEW x PROVE Occurrences(x, s) = {} <=> Occurrences(x, a) = {}
    OBVIOUS
  <2>1. /\ IsFiniteSet(Occurrences(x, s)) /\ IsFiniteSet(Occurrences(x, a))
        /\ Times(x, s) = Cardinality(Occurrences(x, s))
        /\ Times(x, a) = Cardinality(Occurrences(x, a))
    BY <1>1, TimesType
  <2> QED BY <1>1, <2>1, FS_EmptySet
<1>3. Distinct(s) = Distinct(a)
  <2>1. \A x : /\ x \in Distinct(s) <=> Occurrences(x, s) # {}
               /\ x \in Distinct(a) <=> Occurrences(x, a) # {}
    BY DEF Distinct, Occurrences
  <2> QED BY <1>2, <2>1
<1>4. 1 .. k - 1 = 1 .. Len(s)
  BY <1>1 DEF s
<1> QED BY <1>3, <1>4 DEF Seen, Distinct, s

-----------------------------------------------------------------------------
(* The invariant *)

Types ==
    /\ recipients \subseteq String /\ IsFiniteSet(recipients)
    /\ query \in String
    /\ matcher \in {"ngram", "word"}
    /\ pc \in {"slice", "scan", "decide", "done"}
    /\ common \in [recipients -> Nat]
    /\ answer \subseteq String /\ Cardinality(answer) <= 1

OfQuery == Slices(matcher, query, FALSE)
OfName(t) == Slices(matcher, t, TRUE)

\* Up to j, the runs have been looked up: common has the copies of the slices that
\* come before the j-th.  From j to i - 1 there is a single slice.
Scanning ==
    /\ pc \in {"scan", "decide"} => slices = Sorted(OfQuery)
    /\ pc = "scan" =>
         /\ j \in 1 .. Len(slices) /\ i \in j + 1 .. Len(slices) + 1
         /\ \A k \in j .. i - 1 : slices[k] = slices[j]
         /\ \A k \in 1 .. j - 1 : Less(slices[k], slices[j])
         /\ \A t \in recipients :
              common[t] = Cardinality(Copies(Seen(slices, j), OfQuery, OfName(t)))

IInv == Types /\ Scanning /\ CountsSharedSlices

LEMMA NamesAreStrings ==
  ASSUME Types
  PROVE  /\ query \in Seq(Nat) /\ \A t \in recipients : t \in Seq(Nat)
         /\ OfQuery \in Seq(Seq(Nat)) /\ Len(OfQuery) \in Nat \ {0}
         /\ \A t \in recipients :
              OfName(t) \in Seq(Seq(Nat)) /\ Len(OfName(t)) \in Nat \ {0}
<1>1. query \in Seq(Nat) /\ \A t \in recipients : t \in Seq(Nat)
  BY MatcherAssumption DEF MatcherAssumption, Types
<1>2. matcher \in {"ngram", "word"} /\ TRUE \in BOOLEAN /\ FALSE \in BOOLEAN
  BY DEF Types
<1> QED BY <1>1, <1>2, SlicesType DEF OfQuery, OfName

\* A run that is looked up adds the copies of its slice.
LEMMA RunLookedUp ==
  ASSUME Types, Scanning, pc = "scan",
         i <= Len(slices) => Less(slices[j], slices[i]), LookUpRun
  PROVE  /\ common' \in [recipients -> Nat]
         /\ \A t \in recipients :
              common'[t] = Cardinality(Copies(Seen(slices, i), OfQuery, OfName(t)))
<1>1. /\ OfQuery \in Seq(Seq(Nat)) /\ Len(OfQuery) \in Nat
      /\ \A t \in recipients : Len(OfName(t)) \in Nat
  BY NamesAreStrings
<1>2. slices = Sorted(OfQuery)
  BY DEF Scanning
<1>3. /\ j \in 1 .. Len(slices) /\ i \in j + 1 .. Len(slices) + 1
      /\ \A k \in j .. i - 1 : slices[k] = slices[j]
      /\ \A k \in 1 .. j - 1 : Less(slices[k], slices[j])
      /\ \A t \in recipients :
           common[t] = Cardinality(Copies(Seen(slices, j), OfQuery, OfName(t)))
  BY DEF Scanning
<1>4. /\ Times(slices[j], OfQuery) = i - j
      /\ slices[j] \notin Seen(slices, j)
      /\ Seen(slices, i) = Seen(slices, j) \cup {slices[j]}
  <2> DEFINE s == Sorted(OfQuery)
  <2>1. /\ j \in 1 .. Len(s) /\ i \in j + 1 .. Len(s) + 1
        /\ \A k \in j .. i - 1 : s[k] = s[j]
        /\ \A k \in 1 .. j - 1 : Less(s[k], s[j])
        /\ i <= Len(s) => Less(s[j], s[i])
    BY <1>2, <1>3
  <2>2. /\ Times(s[j], OfQuery) = i - j
        /\ s[j] \notin Seen(s, j)
        /\ Seen(s, i) = Seen(s, j) \cup {s[j]}
    BY <1>1, <2>1, RunIsWhole
  <2> QED BY <1>2, <2>2
<1>5. ASSUME NEW t \in recipients
      PROVE  /\ common'[t] \in Nat
             /\ common'[t] = Cardinality(Copies(Seen(slices, i), OfQuery, OfName(t)))
  <2> DEFINE x == slices[j]
             n == Times(x, OfName(t))
  <2>1. Indexed(t, x) = n
    BY DEF Indexed, Times, OfName
  <2>2. n \in Nat /\ i - j \in Nat /\ common[t] \in Nat
    BY <1>1, <1>3, TimesType DEF Types
  <2>3. Cardinality(Copies(Seen(slices, j) \cup {x}, OfQuery, OfName(t)))
          = Cardinality(Copies(Seen(slices, j), OfQuery, OfName(t))) + Shared(Times(x, OfQuery), n)
    BY <1>1, <1>4, CopiesAdd
  <2>4. common'[t] = IF Indexed(t, x) > 0 THEN common[t] + Shared(i - j, Indexed(t, x))
                     ELSE common[t]
    BY DEF LookUpRun
  <2>5. Cardinality(Copies(Seen(slices, i), OfQuery, OfName(t))) = common[t] + Shared(i - j, n)
    BY <1>3, <1>4, <2>3
  <2> HIDE DEF x, n
  <2>6. Shared(i - j, n) \in Nat /\ (~(n > 0) => Shared(i - j, n) = 0)
    BY <2>2 DEF Shared
  <2> QED BY <2>1, <2>2, <2>4, <2>5, <2>6
<1>6. common' = [t \in recipients |-> common'[t]]
  BY DEF LookUpRun
<1>7. common' \in [recipients -> Nat]
  BY <1>5, <1>6
<1> QED BY <1>5, <1>7

LEMMA InitInv == Init => IInv
<1> SUFFICES ASSUME Init PROVE IInv
  OBVIOUS
<1> PICK n \in 0 .. MaxTargets : recipients \in {{f[k] : k \in 1 .. n} : f \in [1 .. n -> String]}
  BY DEF Init, ValidNames
<1>1. PICK f \in [1 .. n -> String] : recipients = {f[k] : k \in 1 .. n}
  OBVIOUS
<1>2. recipients \subseteq String
  BY <1>1
<1>3. IsFiniteSet(recipients)
  <2>1. f \in Surjection(1 .. n, recipients)
    BY <1>1 DEF Surjection
  <2>2. IsFiniteSet(1 .. n)
    BY FS_Interval
  <2> QED BY <2>1, <2>2, FS_Surjection
<1>4. Cardinality({}) = 0
  BY FS_EmptySet
<1>5. Types
  BY <1>2, <1>3, <1>4 DEF Init, Types
<1>6. Scanning /\ CountsSharedSlices
  BY DEF Init, Scanning, CountsSharedSlices
<1> QED BY <1>5, <1>6 DEF IInv

\* The answer is one name at most.
LEMMA AnswerIsOne ==
  ASSUME Types, NEW best \in SUBSET recipients
  PROVE  Answer(best) \subseteq String /\ Cardinality(Answer(best)) <= 1
<1>1. Cardinality({query}) = 1
  BY FS_Singleton
<1> QED BY <1>1 DEF Answer, Types

LEMMA NextInv == IInv /\ [Next]_vars => IInv'
<1> SUFFICES ASSUME IInv, [Next]_vars PROVE IInv'
  OBVIOUS
<1>1. Types /\ Scanning
  BY DEF IInv
<1>2. CASE Slice
  <2>1. OfQuery \in Seq(Seq(Nat)) /\ Len(OfQuery) \in Nat \ {0} /\ Len(Sorted(OfQuery)) = Len(OfQuery)
    BY <1>1, NamesAreStrings, SortedList
  <2>2. Types'
    <3>1. common' \in [recipients -> Nat]
      BY <1>2 DEF Slice
    <3> QED BY <1>1, <1>2, <3>1 DEF Slice, Types
  <2>3. \A t \in recipients : Cardinality(Copies({}, OfQuery, OfName(t))) = 0
    <3>1. \A t \in recipients : Copies({}, OfQuery, OfName(t)) = {}
      BY DEF Copies
    <3> QED BY <3>1, FS_EmptySet
  <2>4. Scanning'
    <3>1. slices' = Sorted(OfQuery) /\ OfQuery' = OfQuery /\ \A t : OfName(t)' = OfName(t)
      BY <1>2 DEF Slice, OfQuery, OfName
    <3>2. /\ j' = 1 /\ i' = 2 /\ pc' = "scan" /\ recipients' = recipients
          /\ \A t \in recipients : common'[t] = 0
      BY <1>2 DEF Slice
    <3>3. 1 \in 1 .. Len(slices') /\ 2 \in 1 + 1 .. Len(slices') + 1
      BY <2>1, <3>1
    <3>4. /\ \A k \in 1 .. 2 - 1 : slices'[k] = slices'[1]
          /\ \A k \in 1 .. 1 - 1 : Less(slices'[k], slices'[1])
      OBVIOUS
    <3>5. Seen(slices', 1) = {}
      BY DEF Seen
    <3>6. \A t \in recipients :
            common'[t] = Cardinality(Copies(Seen(slices', 1), OfQuery, OfName(t)))
      BY <2>3, <3>2, <3>5
    <3> QED BY <3>1, <3>2, <3>3, <3>4, <3>6 DEF Scanning
  <2>5. CountsSharedSlices'
    BY <1>2 DEF Slice, CountsSharedSlices
  <2> QED BY <2>2, <2>4, <2>5 DEF IInv
<1>3. CASE SameRun
  <2>1. OfQuery \in Seq(Seq(Nat)) /\ slices = Sorted(OfQuery)
    BY <1>1, <1>3, NamesAreStrings DEF SameRun, Scanning
  <2>2. slices \in Seq(Seq(Nat)) /\ \A k, l \in 1 .. Len(slices) : k <= l => ~Less(slices[l], slices[k])
    BY <2>1, SortedList
  <2>3. /\ j \in 1 .. Len(slices) /\ i \in j + 1 .. Len(slices) + 1 /\ i <= Len(slices)
        /\ \A k \in j .. i - 1 : slices[k] = slices[j]
        /\ ~Less(slices[j], slices[i])
    BY <1>1, <1>3 DEF SameRun, Scanning
  <2>4. slices[i] = slices[j]
    <3>1. i \in 1 .. Len(slices) /\ j <= i /\ slices[i] \in Seq(Nat) /\ slices[j] \in Seq(Nat)
      BY <2>2, <2>3
    <3>2. ~Less(slices[i], slices[j])
      BY <2>2, <2>3, <3>1
    <3> QED BY <2>3, <3>1, <3>2, LessOrder
  <2>5. /\ i + 1 \in j + 1 .. Len(slices) + 1
        /\ \A k \in j .. (i + 1) - 1 : slices[k] = slices[j]
    <3>1. \A k \in j .. (i + 1) - 1 : k \in j .. i - 1 \/ k = i
      BY <2>2, <2>3
    <3>2. i + 1 \in j + 1 .. Len(slices) + 1
      BY <2>2, <2>3
    <3>3. \A k \in j .. (i + 1) - 1 : slices[k] = slices[j]
      BY <2>3, <2>4, <3>1
    <3> QED BY <3>2, <3>3
  <2>6. Types'
    BY <1>1, <1>3 DEF SameRun, Types
  <2>7. Scanning'
    <3>1. OfQuery' = OfQuery /\ \A t : OfName(t)' = OfName(t)
      BY <1>3 DEF SameRun, OfQuery, OfName
    <3>2. /\ i' = i + 1 /\ j' = j /\ slices' = slices /\ pc' = pc /\ pc = "scan"
          /\ common' = common /\ recipients' = recipients
      BY <1>3 DEF SameRun
    <3> QED BY <1>1, <2>1, <2>3, <2>5, <3>1, <3>2 DEF Scanning
  <2>8. CountsSharedSlices'
    BY <1>3 DEF SameRun, CountsSharedSlices
  <2> QED BY <2>6, <2>7, <2>8 DEF IInv
<1>4. CASE NextRun
  <2>1. OfQuery \in Seq(Seq(Nat)) /\ slices = Sorted(OfQuery)
    BY <1>1, <1>4, NamesAreStrings DEF NextRun, Scanning
  <2>2. slices \in Seq(Seq(Nat))
    BY <2>1, SortedList
  <2>3. /\ j \in 1 .. Len(slices) /\ i \in j + 1 .. Len(slices) + 1 /\ i <= Len(slices)
        /\ \A k \in j .. i - 1 : slices[k] = slices[j]
        /\ \A k \in 1 .. j - 1 : Less(slices[k], slices[j])
        /\ Less(slices[j], slices[i])
    BY <1>1, <1>4 DEF NextRun, Scanning
  <2>4. /\ common' \in [recipients -> Nat]
        /\ \A t \in recipients :
              common'[t] = Cardinality(Copies(Seen(slices, i), OfQuery, OfName(t)))
    BY <1>1, <1>4, <2>3, RunLookedUp DEF NextRun
  <2>5. \A k \in 1 .. i - 1 : Less(slices[k], slices[i])
    <3> SUFFICES ASSUME NEW k \in 1 .. i - 1 PROVE Less(slices[k], slices[i])
      OBVIOUS
    <3>1. k \in 1 .. Len(slices) /\ i \in 1 .. Len(slices)
      BY <2>2, <2>3
    <3>2. slices[k] \in Seq(Nat) /\ slices[j] \in Seq(Nat) /\ slices[i] \in Seq(Nat)
      BY <2>2, <2>3, <3>1
    <3>3. k \in 1 .. j - 1 \/ k \in j .. i - 1
      BY <2>2, <2>3
    <3>4. CASE k \in 1 .. j - 1
      BY <2>3, <3>2, <3>4, LessTransitive
    <3>5. CASE k \in j .. i - 1
      BY <2>3, <3>5
    <3> QED BY <3>3, <3>4, <3>5
  <2>6. /\ i \in 1 .. Len(slices) /\ i + 1 \in i + 1 .. Len(slices) + 1
        /\ \A k \in i .. (i + 1) - 1 : slices[k] = slices[i]
    BY <2>2, <2>3
  <2>7. Types'
    BY <1>1, <1>4, <2>4 DEF NextRun, Types
  <2>8. Scanning'
    <3>1. OfQuery' = OfQuery /\ \A t : OfName(t)' = OfName(t)
      BY <1>4 DEF NextRun, OfQuery, OfName
    <3>2. /\ i' = i + 1 /\ j' = i /\ slices' = slices /\ pc' = pc /\ recipients' = recipients
      BY <1>4 DEF NextRun
    <3> QED BY <2>1, <2>4, <2>5, <2>6, <3>1, <3>2 DEF Scanning
  <2>9. CountsSharedSlices'
    BY <1>4 DEF NextRun, CountsSharedSlices
  <2> QED BY <2>7, <2>8, <2>9 DEF IInv
<1>5. CASE LastRun
  <2>1. OfQuery \in Seq(Seq(Nat)) /\ slices = Sorted(OfQuery) /\ i \in j + 1 .. Len(slices) + 1
    BY <1>1, <1>5, NamesAreStrings DEF LastRun, Scanning
  <2>2. ~(i <= Len(slices)) /\ j \in Nat /\ Len(slices) \in Nat
    BY <1>1, <1>5, <2>1, SortedList DEF LastRun, Scanning
  <2>3. /\ common' \in [recipients -> Nat]
        /\ \A t \in recipients :
              common'[t] = Cardinality(Copies(Seen(slices, i), OfQuery, OfName(t)))
    BY <1>1, <1>5, <2>2, RunLookedUp DEF LastRun, Leftover
  <2>4. Seen(slices, i) = Distinct(OfQuery)
    <3>1. i = Len(Sorted(OfQuery)) + 1
      BY <2>1, <2>2
    <3> QED BY <2>1, <3>1, SeenAll
  <2>5. Types'
    BY <1>1, <1>5, <2>3 DEF LastRun, Types
  <2>6. Scanning'
    BY <1>5, <2>1 DEF LastRun, Scanning, OfQuery
  <2>7. CountsSharedSlices'
    <3>1. \A t \in recipients : common'[t] = BagShared(matcher, query, t)
      BY <2>3, <2>4, CopiesOfAll DEF OfQuery, OfName
    <3>2. recipients' = recipients /\ matcher' = matcher /\ query' = query
      BY <1>5 DEF LastRun
    <3> QED BY <3>1, <3>2 DEF CountsSharedSlices
  <2> QED BY <2>5, <2>6, <2>7 DEF IInv
<1>6. CASE Decide
  <2>1. Reaching \in SUBSET recipients
    BY DEF Reaching
  <2>2. Answer(Reaching) \subseteq String /\ Cardinality(Answer(Reaching)) <= 1
    BY <1>1, <2>1, AnswerIsOne
  <2>3. Types'
    BY <1>1, <1>6, <2>2 DEF Decide, Types
  <2> QED BY <1>6, <2>3 DEF Decide, IInv, Scanning, CountsSharedSlices
<1>7. CASE TryWords
  <2>1. Types'
    BY <1>1, <1>7 DEF TryWords, Types
  <2> QED BY <1>7, <2>1 DEF TryWords, IInv, Scanning, CountsSharedSlices
<1>8. CASE Reject
  <2>1. Types'
    BY <1>1, <1>8 DEF Reject, Types
  <2> QED BY <1>8, <2>1 DEF Reject, IInv, Scanning, CountsSharedSlices
<1>9. CASE UNCHANGED vars
  <2>1. Types'
    BY <1>1, <1>9 DEF vars, Types
  <2>2. Scanning'
    <3>1. OfQuery' = OfQuery /\ \A t : OfName(t)' = OfName(t)
      BY <1>9 DEF vars, OfQuery, OfName
    <3>2. /\ i' = i /\ j' = j /\ slices' = slices /\ pc' = pc
          /\ common' = common /\ recipients' = recipients
      BY <1>9 DEF vars
    <3> QED BY <1>1, <3>1, <3>2 DEF Scanning
  <2>3. CountsSharedSlices'
    BY <1>9 DEF vars, IInv, CountsSharedSlices
  <2> QED BY <2>1, <2>2, <2>3 DEF IInv
<1> QED BY <1>2, <1>3, <1>4, <1>5, <1>6, <1>7, <1>8, <1>9 DEF Next

LEMMA Invariant == Spec => []IInv
<1> QED BY InitInv, NextInv, PTL DEF Spec

\* Matcher::match() counts what the two names have in common, as bags of slices: the
\* loop over the sorted slices misses no run, not the last one either, and counts
\* a repeated slice as often as both names have it.
THEOREM Counting == Spec => []CountsSharedSlices
<1>1. IInv => CountsSharedSlices
  BY DEF IInv
<1> QED BY <1>1, Invariant, PTL

-----------------------------------------------------------------------------
(* Scores *)

\* What is in common is at most the slices of the one and of the other.
LEMMA Commons ==
  ASSUME IInv, pc = "decide", NEW t \in recipients
  PROVE  /\ common[t] \in Nat
         /\ common[t] = BagShared(matcher, query, t)
         /\ common[t] <= Len(OfQuery) /\ common[t] <= Len(OfName(t))
         /\ Len(slices) = Len(OfQuery)
         /\ Len(OfQuery) \in Nat \ {0} /\ Len(OfName(t)) \in Nat \ {0}
<1>1. Types /\ Scanning /\ CountsSharedSlices
  BY DEF IInv
<1>2. /\ OfQuery \in Seq(Seq(Nat)) /\ Len(OfQuery) \in Nat \ {0}
      /\ Len(OfName(t)) \in Nat \ {0}
  BY <1>1, NamesAreStrings
<1>3. Len(slices) = Len(OfQuery)
  BY <1>1, <1>2, SortedList DEF Scanning
<1>4. common[t] = BagShared(matcher, query, t)
  BY <1>1 DEF CountsSharedSlices
<1>5. common[t] = Cardinality(Copies(Distinct(OfQuery), OfQuery, OfName(t)))
  BY <1>4, CopiesOfAll DEF OfQuery, OfName
<1> QED BY <1>2, <1>3, <1>4, <1>5, CopiesType

LEMMA ScoreInScale ==
  ASSUME IInv, pc = "decide", NEW t \in recipients
  PROVE  Score(t) \in 0 .. S
<1> DEFINE c == common[t]
           d == Len(OfName(t)) + Len(slices)
<1>1. c \in Nat /\ d \in Nat \ {0} /\ 2 * c <= d /\ S \in Nat
  BY Commons, MatcherAssumption DEF MatcherAssumption
<1>2. Score(t) = (2 * c * S) \div d
  BY DEF Score, OfName
<1> HIDE DEF c, d
<1>3. 2 * c * S \in Nat /\ 2 * c * S <= d * S
  BY <1>1
<1>4. (2 * c * S) \div d \in Nat /\ (2 * c * S) \div d <= S
  BY <1>1, <1>3, Division, QuotientBound
<1> QED BY <1>1, <1>2, <1>4

\* No score leaves its scale: nothing is cut off when it becomes an unsigned short.
THEOREM Typing == Spec => []TypeOK
<1>1. IInv => TypeOK
  <2> SUFFICES ASSUME IInv PROVE TypeOK
    OBVIOUS
  <2>1. pc = "decide" => \A t \in recipients : Score(t) \in 0 .. S
    BY ScoreInScale
  <2> QED BY <2>1 DEF IInv, Types, TypeOK
<1> QED BY <1>1, Invariant, PTL

-----------------------------------------------------------------------------
(* A valid name *)

\* A name shares all its n-grams with itself, which gives the highest score, and no
\* threshold is above that.
LEMMA OwnScore ==
  ASSUME IInv, pc = "decide", matcher = "ngram", query \in recipients
  PROVE  query \in Reaching
<1> DEFINE n == Len(OfQuery)
<1>1. OfName(query) = OfQuery
  BY DEF OfName, OfQuery, Slices
<1>2. n \in Nat \ {0} /\ Len(slices) = n /\ common[query] = BagShared(matcher, query, query)
  BY Commons
<1>3. common[query] = n
  <2>1. BagShared(matcher, query, query) = Cardinality(Copies(Distinct(OfQuery), OfQuery, OfName(query)))
    BY CopiesOfAll DEF OfQuery, OfName
  <2> QED BY <1>1, <1>2, <2>1, CopiesSelf
<1>4. Score(query) = (2 * n * S) \div (n + n)
  BY <1>1, <1>2, <1>3 DEF Score, OfName
<1> HIDE DEF n
<1>5. S \in Nat \ {0}
  BY MatcherAssumption DEF MatcherAssumption
<1>6. (2 * n * S) \div (n + n) = S
  <2>1. 2 * n * S = (n + n) * S /\ n + n \in Nat \ {0}
    BY <1>2, <1>5
  <2> QED BY <1>5, <2>1, QuotientSelf
<1>7. Threshold \in 0 .. S
  <2> DEFINE q == IF matcher = "ngram" THEN NgramThreshold ELSE WordThreshold
  <2>1. q[1] \in Nat /\ q[2] \in Nat \ {0}
    BY MatcherAssumption DEF MatcherAssumption
  <2>2. Threshold = ((q[1] * S) \div q[2]) % (S + 1)
    BY DEF Threshold, Scaled
  <2> HIDE DEF q
  <2>3. q[1] * S \in Nat
    BY <1>5, <2>1
  <2>4. (q[1] * S) \div q[2] \in Nat
    BY <2>1, <2>3, Division
  <2> QED BY <1>5, <2>2, <2>4
<1>8. common[query] > 0 /\ Score(query) >= Threshold
  BY <1>2, <1>3, <1>4, <1>5, <1>6, <1>7
<1> QED BY <1>8 DEF Reaching

Perfect == query \in recipients => matcher = "ngram" /\ (pc = "done" => answer = {query})

\* A name that is valid reaches the threshold in the first round, and alone or with
\* others it is the answer.
THEOREM PerfectMatch == Spec => []PerfectAccepted
<1>1. Init => Perfect
  BY DEF Init, Perfect
<1>2. IInv /\ Perfect /\ [Next]_vars => Perfect'
  <2> SUFFICES ASSUME IInv, Perfect, [Next]_vars PROVE Perfect'
    OBVIOUS
  <2>1. CASE Slice
    BY <2>1 DEF Slice, Perfect
  <2>2. CASE SameRun \/ NextRun \/ LastRun
    BY <2>2 DEF SameRun, NextRun, LastRun, Perfect
  <2>3. CASE Decide
    <3> SUFFICES ASSUME query \in recipients PROVE matcher' = "ngram" /\ answer' = {query}
      BY <2>3 DEF Decide, Perfect
    <3>1. matcher = "ngram" /\ pc = "decide" /\ matcher' = matcher /\ answer' = Answer(Reaching)
      BY <2>3 DEF Decide, Perfect
    <3>2. query \in Reaching
      BY <3>1, OwnScore
    <3>3. IsFiniteSet(Reaching)
      BY FS_Subset DEF Reaching, IInv, Types
    <3>4. Cardinality(Reaching) = 1 => Reaching = {query}
      BY <3>2, <3>3, FS_Singleton
    <3> QED BY <3>1, <3>4 DEF Answer
  <2>4. CASE TryWords \/ Reject
    <3>1. pc = "decide" /\ Reaching = {} /\ query' = query /\ recipients' = recipients
      BY <2>4 DEF TryWords, Reject
    <3>2. query \notin recipients
      BY <3>1, OwnScore DEF Perfect
    <3> QED BY <3>1, <3>2 DEF Perfect
  <2>5. CASE UNCHANGED vars
    BY <2>5 DEF vars, Perfect
  <2> QED BY <2>1, <2>2, <2>3, <2>4, <2>5 DEF Next
<1>3. Perfect => PerfectAccepted
  BY DEF Perfect, PerfectAccepted
<1> QED BY <1>1, <1>2, <1>3, Invariant, PTL DEF Spec

-----------------------------------------------------------------------------
(* The answer of the manual *)

Ratio(which) == IF which = "ngram" THEN NgramThreshold ELSE WordThreshold

\* The thresholds are at most 1, and the scale is fine enough for the names: 65535
\* is, with thresholds of two decimals, for names of 655 slices in total.
FineScale ==
    \A which \in {"ngram", "word"} :
        /\ Ratio(which)[1] <= Ratio(which)[2]
        /\ \A str, t \in String :
             Ratio(which)[2] * (Len(Slices(which, str, FALSE)) + Len(Slices(which, t, TRUE))) <= S

\* Two fractions with denominators d and q[2] that differ do so by 1 / (d * q[2]) at
\* least: S times that is 1 or more, and rounding down keeps their order.
LEMMA RoundedOrder ==
  ASSUME NEW c \in Nat, NEW d \in Nat \ {0}, NEW a \in Nat, NEW b \in Nat \ {0},
         b * d <= S
  PROVE  (c * S) \div d >= (a * S) \div b <=> c * b >= a * d
<1> DEFINE x == (c * S) \div d
           y == (a * S) \div b
<1>1. S \in Nat
  BY MatcherAssumption DEF MatcherAssumption
<1>2. c * S \in Nat /\ a * S \in Nat
  BY <1>1
<1>3. x \in Nat /\ d * x <= c * S /\ c * S < d * (x + 1)
  BY <1>2, Division
<1>4. y \in Nat /\ b * y <= a * S /\ a * S < b * (y + 1)
  BY <1>2, Division
<1> HIDE DEF x, y
<1>5. ASSUME c * b >= a * d PROVE x >= y
  <2>1. b * (c * S) >= d * (a * S)
    <3>1. (c * b) * S >= (a * d) * S
      BY <1>1, <1>5
    <3> QED BY <1>1, <3>1
  <2>2. d * (a * S) >= d * (b * y)
    BY <1>1, <1>4
  <2>3. b * (c * S) < b * (d * (x + 1))
    BY <1>1, <1>3
  <2>4. (b * d) * y < (b * d) * (x + 1)
    BY <1>1, <1>3, <1>4, <2>1, <2>2, <2>3
  <2> QED BY <1>3, <1>4, <2>4
<1>6. ASSUME c * b < a * d PROVE x < y
  <2>1. c * b + 1 <= a * d
    BY <1>6
  <2>2. (c * b) * S + S <= (a * d) * S
    BY <1>1, <2>1
  <2>3. b * (d * x) <= b * (c * S)
    BY <1>1, <1>3
  <2>4. d * (a * S) < d * (b * (y + 1))
    BY <1>1, <1>4
  <2>5. (b * d) * x + b * d < (b * d) * (y + 1)
    BY <1>1, <1>3, <1>4, <2>2, <2>3, <2>4
  <2> QED BY <1>3, <1>4, <2>5
<1> QED BY <1>3, <1>4, <1>5, <1>6 DEF x, y

\* On a scale that is fine enough, the names whose rounded score reaches the rounded
\* threshold are those whose score reaches the threshold.
LEMMA ReachingExactly ==
  ASSUME FineScale, IInv, pc = "decide"
  PROVE  Reaching = {t \in recipients : ScoreReaches(matcher, t, Ratio(matcher))}
<1> SUFFICES ASSUME NEW t \in recipients
             PROVE  common[t] > 0 /\ Score(t) >= Threshold
                      <=> ScoreReaches(matcher, t, Ratio(matcher))
  BY DEF Reaching
<1> DEFINE c == common[t]
           d == Len(OfName(t)) + Len(OfQuery)
           a == Ratio(matcher)[1]
           b == Ratio(matcher)[2]
<1>1. c \in Nat /\ d \in Nat \ {0} /\ Len(slices) = Len(OfQuery) /\ c = BagShared(matcher, query, t)
  BY Commons
<1>2. matcher \in {"ngram", "word"} /\ query \in String /\ t \in String
  BY DEF IInv, Types
<1>3. a \in Nat /\ b \in Nat \ {0} /\ S \in Nat \ {0}
  BY MatcherAssumption DEF MatcherAssumption, Ratio
<1>4. a <= b /\ b * d <= S
  <2>1. d = Len(OfQuery) + Len(OfName(t))
    BY Commons
  <2> QED BY <1>2, <2>1 DEF FineScale, OfName, OfQuery
<1>5. Score(t) = (2 * c * S) \div d
  BY <1>1 DEF Score, OfName
<1>6. Threshold = ((a * S) \div b) % (S + 1)
  BY DEF Threshold, Scaled, Ratio
<1>7. ScoreReaches(matcher, t, Ratio(matcher)) <=> c > 0 /\ 2 * c * b >= a * d
  <2>1. d = Len(OfQuery) + Len(OfName(t))
    BY Commons
  <2> QED BY <1>1, <2>1 DEF ScoreReaches, OfName, OfQuery
<1> HIDE DEF c, d, a, b
<1>8. (a * S) \div b \in Nat /\ (a * S) \div b <= S
  <2>1. a * S \in Nat /\ a * S <= b * S
    BY <1>3, <1>4
  <2> QED BY <1>3, <2>1, Division, QuotientBound
<1>9. Threshold = (a * S) \div b
  BY <1>3, <1>6, <1>8
<1>10. (2 * c * S) \div d >= (a * S) \div b <=> 2 * c * b >= a * d
  <2>1. 2 * c \in Nat
    BY <1>1
  <2> QED BY <1>1, <1>3, <1>4, <2>1, RoundedOrder
<1> QED BY <1>5, <1>7, <1>9, <1>10 DEF c

ByRule(which) == {t \in recipients : ScoreReaches(which, t, Ratio(which))}

Ruled ==
    /\ pc # "done" => answer = {}
    /\ matcher = "word" => ByRule("ngram") = {}
    /\ FollowsManual

\* On a scale that is fine enough for the names and thresholds, the answer is the one
\* of the manual: the fixed-point scores decide as the exact ones would.
THEOREM AnswerByManual == FineScale => (Spec => []FollowsManual)
<1> SUFFICES ASSUME FineScale PROVE Spec => []FollowsManual
  OBVIOUS
<1>1. Init => Ruled
  BY DEF Init, Ruled, FollowsManual
<1>2. IInv /\ Ruled /\ [Next]_vars => Ruled'
  <2> SUFFICES ASSUME IInv, Ruled, [Next]_vars PROVE Ruled'
    OBVIOUS
  <2> DEFINE Best == IF ByRule("ngram") # {} THEN ByRule("ngram") ELSE ByRule("word")
  <2>1. /\ pc # "done" => answer = {}
        /\ matcher \in {"ngram", "word"} /\ (matcher = "word" => ByRule("ngram") = {})
    BY DEF IInv, Types, Ruled
  <2>2. pc = "done" => answer = IF Best = {} THEN {} ELSE Answer(Best)
    BY DEF FollowsManual, ByRule, Ratio, Ruled
  <2>3. pc = "decide" => Reaching = ByRule(matcher)
    BY ReachingExactly DEF ByRule
  <2>4. recipients' = recipients /\ query' = query
    BY DEF Next, Slice, SameRun, NextRun, LastRun, Decide, TryWords, Reject, vars
  <2>5. ByRule("ngram")' = ByRule("ngram") /\ ByRule("word")' = ByRule("word")
    BY <2>4 DEF ByRule, ScoreReaches, BagShared
  <2>6. Answer(Best)' = Answer(Best)
    BY <2>4, <2>5 DEF Answer
  <2>7. FollowsManual' <=> (pc' = "done" => answer' = IF Best' = {} THEN {} ELSE Answer(Best)')
    BY DEF FollowsManual, ByRule, Ratio
  <2>8. SUFFICES /\ pc' # "done" => answer' = {}
                 /\ matcher' = "word" => ByRule("ngram") = {}
                 /\ pc' = "done" => answer' = IF Best = {} THEN {} ELSE Answer(Best)
    BY <2>5, <2>6, <2>7 DEF Ruled
  <2> HIDE DEF Best
  <2>9. CASE Slice \/ SameRun \/ NextRun \/ LastRun
    BY <2>1, <2>9 DEF Slice, SameRun, NextRun, LastRun
  <2>10. CASE Decide
    <3>1. Reaching = Best /\ Best # {}
      BY <2>1, <2>3, <2>10 DEF Decide, Best
    <3> QED BY <2>1, <2>10, <3>1 DEF Decide
  <2>11. CASE TryWords
    BY <2>1, <2>3, <2>11 DEF TryWords
  <2>12. CASE Reject
    <3>1. Best = {}
      BY <2>1, <2>3, <2>12 DEF Reject, Best
    <3> QED BY <2>1, <2>12, <3>1 DEF Reject
  <2>13. CASE UNCHANGED vars
    BY <2>1, <2>2, <2>13 DEF vars
  <2> QED BY <2>9, <2>10, <2>11, <2>12, <2>13 DEF Next
<1>3. Ruled => FollowsManual
  BY DEF Ruled
<1> QED BY <1>1, <1>2, <1>3, Invariant, PTL DEF Spec
=============================================================================
