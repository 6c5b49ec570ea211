---------------------------- MODULE Charts_proofs ----------------------------
(***************************************************************************)
(* Theorems about Charts, and the lemmas about the sorting and filtering   *)
(* of Universe they rest on: the universe keeps the better of two rows,    *)
(* whatever the rankings and limits are.                                   *)
(***************************************************************************)
EXTENDS Charts, SequenceTheorems, FiniteSetTheorems, TLAPS

-----------------------------------------------------------------------------
(***************************************************************************)
(* Ranks.  Before[i] is the set of what comes before i in a strict total   *)
(* order of a finite set; its size is the rank of i.                       *)
(***************************************************************************)
StrictTotal(D, Before) ==
    /\ Before \in [D -> SUBSET D]
    /\ \A i \in D : i \notin Before[i]
    /\ \A i \in D : \A j \in Before[i] : Before[j] \subseteq Before[i]
    /\ \A i, j \in D : i # j => i \in Before[j] \/ j \in Before[i]

\* What comes earlier has the smaller rank.
LEMMA EarlierRanksLower ==
    ASSUME NEW D, NEW Before, IsFiniteSet(D), StrictTotal(D, Before),
           NEW i \in D, NEW j \in Before[i]
    PROVE  Cardinality(Before[j]) < Cardinality(Before[i])
<1>1. Before[i] \subseteq D /\ Before[j] \subseteq Before[i] /\ j \notin Before[j]
  BY DEF StrictTotal
<1>2. IsFiniteSet(Before[i]) /\ IsFiniteSet(Before[j])
  BY <1>1, FS_Subset
<1>3. Before[j] \subseteq Before[i] \ {j}
  BY <1>1
<1>4. IsFiniteSet(Before[i] \ {j}) /\ Cardinality(Before[i] \ {j}) = Cardinality(Before[i]) - 1
  BY <1>2, FS_RemoveElement
<1>5. Cardinality(Before[j]) <= Cardinality(Before[i] \ {j})
  BY <1>3, <1>4, FS_Subset
<1>6. Cardinality(Before[i]) \in Nat /\ Cardinality(Before[j]) \in Nat
  BY <1>2, FS_CardinalityType
<1> QED
  BY <1>4, <1>5, <1>6

\* The ranks are the numbers below the size of the set, each taken once.
LEMMA RanksAreOnto ==
    ASSUME NEW D, NEW Before, IsFiniteSet(D), StrictTotal(D, Before)
    PROVE  /\ Cardinality(D) \in Nat
           /\ \A i \in D : Cardinality(Before[i]) \in 0..Cardinality(D) - 1
           /\ \A i, j \in D : Cardinality(Before[i]) = Cardinality(Before[j]) => i = j
           /\ \A n \in 0..Cardinality(D) - 1 : \E i \in D : Cardinality(Before[i]) = n
<1> DEFINE size == Cardinality(D)
           Ranks == 0..size - 1
           rank == [i \in D |-> Cardinality(Before[i])]
<1>1. size \in Nat
  BY FS_CardinalityType
<1>2. \A i \in D : Cardinality(Before[i]) \in Ranks
  <2> SUFFICES ASSUME NEW i \in D PROVE Cardinality(Before[i]) \in Ranks
    OBVIOUS
  <2>1. Before[i] \subseteq D \ {i}
    BY DEF StrictTotal
  <2>2. IsFiniteSet(D \ {i}) /\ Cardinality(D \ {i}) = size - 1
    BY FS_RemoveElement
  <2>3. IsFiniteSet(Before[i]) /\ Cardinality(Before[i]) <= size - 1
    BY <2>1, <2>2, FS_Subset
  <2>4. Cardinality(Before[i]) \in Nat
    BY <2>3, FS_CardinalityType
  <2> QED
    BY <2>3, <2>4, <1>1
<1>3. \A i, j \in D : Cardinality(Before[i]) = Cardinality(Before[j]) => i = j
  <2> SUFFICES ASSUME NEW i \in D, NEW j \in D, i # j
               PROVE  Cardinality(Before[i]) # Cardinality(Before[j])
    OBVIOUS
  <2>1. \/ i \in Before[j]
        \/ j \in Before[i]
    BY DEF StrictTotal
  <2>2. Cardinality(Before[i]) < Cardinality(Before[j])
        \/ Cardinality(Before[j]) < Cardinality(Before[i])
    BY <2>1, EarlierRanksLower
  <2>3. Cardinality(Before[i]) \in Int /\ Cardinality(Before[j]) \in Int
    BY <1>2, <1>1
  <2> QED
    BY <2>2, <2>3
<1>4. rank \in Injection(D, Ranks)
  BY <1>2, <1>3 DEF Injection, IsInjective
<1>5. IsFiniteSet(Ranks) /\ Cardinality(Ranks) = size
  <2>1. IsFiniteSet(Ranks)
        /\ Cardinality(Ranks) = IF 0 > size - 1 THEN 0 ELSE (size - 1) - 0 + 1
    BY <1>1, FS_Interval
  <2> QED
    BY <2>1, <1>1
<1>6. rank \in Surjection(D, Ranks)
  BY <1>4, <1>5, FS_Injection
<1>7. \A n \in Ranks : \E i \in D : Cardinality(Before[i]) = n
  BY <1>6 DEF Surjection
<1> QED
  BY <1>1, <1>2, <1>3, <1>7

\* Choosing the element of each rank lists the set without a repetition.
LEMMA ListedByRank ==
    ASSUME NEW D, NEW Before, IsFiniteSet(D), StrictTotal(D, Before)
    PROVE  \A n \in 1..Cardinality(D) :
              LET k == CHOOSE i \in D : Cardinality(Before[i]) = n - 1
              IN  k \in D /\ Cardinality(Before[k]) = n - 1
  BY RanksAreOnto

\* The positions of the sort of Place.
Ahead(f) ==
    [i \in DOMAIN f |-> {j \in DOMAIN f : f[j] > f[i] \/ (f[j] = f[i] /\ j < i)}]

LEMMA PlacesAreRanks ==
    ASSUME NEW n \in Nat, NEW f \in [1..n -> Int]
    PROVE  /\ IsFiniteSet(1..n) /\ Cardinality(1..n) = n
           /\ StrictTotal(1..n, Ahead(f))
           /\ \A i \in 1..n : Place(f, i) = Cardinality(Ahead(f)[i])
<1>1. IsFiniteSet(1..n) /\ Cardinality(1..n) = n
  <2>1. IsFiniteSet(1..n) /\ Cardinality(1..n) = IF 1 > n THEN 0 ELSE n - 1 + 1
    BY FS_Interval
  <2> QED
    BY <2>1
<1> DEFINE D == 1..n
           In(i) == {j \in D : f[j] > f[i] \/ (f[j] = f[i] /\ j < i)}
<1>2. DOMAIN f = D
  OBVIOUS
<1>3. \A i \in D : Ahead(f)[i] = In(i)
  BY <1>2 DEF Ahead
<1>4. Ahead(f) \in [D -> SUBSET D]
  BY <1>2 DEF Ahead
<1>5. \A i \in D : i \notin In(i)
  OBVIOUS
<1>6. \A i \in D : \A j \in In(i) : In(j) \subseteq In(i)
  OBVIOUS
<1>7. \A i, j \in D : i # j => i \in In(j) \/ j \in In(i)
  OBVIOUS
<1>8. StrictTotal(D, Ahead(f))
  <2>1. \A i \in D : i \notin Ahead(f)[i]
    BY <1>3, <1>5
  <2>2. \A i \in D : \A j \in Ahead(f)[i] : Ahead(f)[j] \subseteq Ahead(f)[i]
    <3> SUFFICES ASSUME NEW i \in D, NEW j \in Ahead(f)[i]
                 PROVE  Ahead(f)[j] \subseteq Ahead(f)[i]
      OBVIOUS
    <3>1. j \in In(i) /\ j \in D
      BY <1>3
    <3>2. In(j) \subseteq In(i)
      BY <3>1, <1>6
    <3> HIDE DEF In
    <3> QED
      BY <3>1, <3>2, <1>3
  <2>3. \A i, j \in D : i # j => i \in Ahead(f)[j] \/ j \in Ahead(f)[i]
    <3> HIDE DEF In
    <3> QED
      BY <1>3, <1>7
  <2> HIDE DEF D
  <2> QED
    BY <1>4, <2>1, <2>2, <2>3 DEF StrictTotal
<1>9. \A i \in D : Place(f, i) = Cardinality(Ahead(f)[i])
  BY <1>3, <1>2 DEF Place
<1> QED
  BY <1>1, <1>8, <1>9

\* The places of n values are 0 to n - 1, each taken once, and a greater value
\* has the smaller place.
LEMMA Places ==
    ASSUME NEW n \in Nat, NEW f \in [1..n -> Int]
    PROVE  /\ \A i \in 1..n : Place(f, i) \in 0..n - 1
           /\ \A i, j \in 1..n : Place(f, i) = Place(f, j) => i = j
           /\ \A p \in 0..n - 1 : \E i \in 1..n : Place(f, i) = p
           /\ \A i, j \in 1..n : f[i] > f[j] => Place(f, i) < Place(f, j)
<1>1. /\ IsFiniteSet(1..n) /\ Cardinality(1..n) = n
      /\ StrictTotal(1..n, Ahead(f))
      /\ \A i \in 1..n : Place(f, i) = Cardinality(Ahead(f)[i])
  BY PlacesAreRanks
<1>2. /\ \A i \in 1..n : Cardinality(Ahead(f)[i]) \in 0..n - 1
      /\ \A i, j \in 1..n : Cardinality(Ahead(f)[i]) = Cardinality(Ahead(f)[j]) => i = j
      /\ \A p \in 0..n - 1 : \E i \in 1..n : Cardinality(Ahead(f)[i]) = p
  <2> DEFINE D == 1..n
             B == Ahead(f)
  <2>1. IsFiniteSet(D) /\ StrictTotal(D, B) /\ Cardinality(D) = n
    BY <1>1
  <2> HIDE DEF D, B
  <2>2. /\ \A i \in D : Cardinality(B[i]) \in 0..n - 1
        /\ \A i, j \in D : Cardinality(B[i]) = Cardinality(B[j]) => i = j
        /\ \A p \in 0..n - 1 : \E i \in D : Cardinality(B[i]) = p
    BY <2>1, RanksAreOnto
  <2> USE DEF D, B
  <2> QED
    BY <2>2
<1>3. ASSUME NEW i \in 1..n, NEW j \in 1..n, f[i] > f[j]
      PROVE  Cardinality(Ahead(f)[i]) < Cardinality(Ahead(f)[j])
  <2>1. i \in Ahead(f)[j]
    BY <1>3 DEF Ahead
  <2> DEFINE D == 1..n
             B == Ahead(f)
  <2>2. IsFiniteSet(D) /\ StrictTotal(D, B) /\ j \in D /\ i \in B[j]
    BY <1>1, <2>1
  <2> HIDE DEF D, B
  <2>3. Cardinality(B[i]) < Cardinality(B[j])
    BY <2>2, EarlierRanksLower
  <2> QED
    BY <2>3 DEF B
<1>4. \A i, j \in 1..n : f[i] > f[j] => Place(f, i) < Place(f, j)
  BY <1>1, <1>3
<1>5. \A i, j \in 1..n : Place(f, i) = Place(f, j) => i = j
  BY <1>1, <1>2
<1>6. \A i \in 1..n : Place(f, i) \in 0..n - 1
  BY <1>1, <1>2
<1>7. \A p \in 0..n - 1 : \E i \in 1..n : Place(f, i) = p
  BY <1>1, <1>2
<1> QED
  BY <1>4, <1>5, <1>6, <1>7

\* The first n places of the sort, as positions of the rows.
LEMMA FirstPlaces ==
    ASSUME NEW s \in Seq(RankedRow), NEW f \in [1..Len(s) -> Int]
    PROVE  /\ FirstBy(s, f) \in Seq(RankedRow)
           /\ Len(FirstBy(s, f)) = IF Len(s) < WatchMax THEN Len(s) ELSE WatchMax
           /\ \A p \in DOMAIN FirstBy(s, f) :
                 \E k \in DOMAIN s : FirstBy(s, f)[p] = s[k] /\ Place(f, k) = p - 1
           /\ \A k \in DOMAIN s :
                 Place(f, k) < Len(FirstBy(s, f)) =>
                     /\ Place(f, k) + 1 \in DOMAIN FirstBy(s, f)
                     /\ FirstBy(s, f)[Place(f, k) + 1] = s[k]
<1> DEFINE n == IF Len(s) < WatchMax THEN Len(s) ELSE WatchMax
           Row(p) == CHOOSE i \in DOMAIN s : Place(f, i) = p
           first == [p \in 1..n |-> s[Row(p - 1)]]
<1>1. FirstBy(s, f) = first
  BY DEF FirstBy
<1>2. Len(s) \in Nat /\ DOMAIN s = 1..Len(s) /\ n \in Nat /\ n <= Len(s)
  BY UniverseAssumption
<1>3. /\ \A i \in 1..Len(s) : Place(f, i) \in 0..Len(s) - 1
      /\ \A i, j \in 1..Len(s) : Place(f, i) = Place(f, j) => i = j
      /\ \A p \in 0..Len(s) - 1 : \E i \in 1..Len(s) : Place(f, i) = p
  BY Places, <1>2
<1>4. \A p \in 1..n : Row(p - 1) \in DOMAIN s /\ Place(f, Row(p - 1)) = p - 1
  <2> SUFFICES ASSUME NEW p \in 1..n
               PROVE  Row(p - 1) \in DOMAIN s /\ Place(f, Row(p - 1)) = p - 1
    OBVIOUS
  <2>1. p - 1 \in 0..Len(s) - 1
    BY <1>2
  <2>2. \E i \in DOMAIN s : Place(f, i) = p - 1
    BY <2>1, <1>2, <1>3
  <2> HIDE DEF n
  <2> QED
    BY <2>2
<1>5. \A k \in DOMAIN s : Row(Place(f, k)) = k
  <2> SUFFICES ASSUME NEW k \in DOMAIN s PROVE Row(Place(f, k)) = k
    OBVIOUS
  <2>1. \E i \in DOMAIN s : Place(f, i) = Place(f, k)
    OBVIOUS
  <2>2. Row(Place(f, k)) \in DOMAIN s /\ Place(f, Row(Place(f, k))) = Place(f, k)
    BY <2>1
  <2> HIDE DEF Row
  <2> QED
    BY <2>2, <1>2, <1>3
<1> HIDE DEF n, Row
<1>6. \A p \in 1..n : s[Row(p - 1)] \in RankedRow
  BY <1>4
<1>7. first \in Seq(RankedRow) /\ Len(first) = n /\ DOMAIN first = 1..n
  BY <1>2, <1>6
<1>8. ASSUME NEW p \in DOMAIN first
      PROVE  \E k \in DOMAIN s : first[p] = s[k] /\ Place(f, k) = p - 1
  BY <1>4, <1>7
<1>9. ASSUME NEW k \in DOMAIN s, Place(f, k) < n
      PROVE  Place(f, k) + 1 \in 1..n /\ first[Place(f, k) + 1] = s[k]
  <2>1. Place(f, k) \in 0..Len(s) - 1
    BY <1>2, <1>3
  <2>2. Place(f, k) + 1 \in 1..n /\ (Place(f, k) + 1) - 1 = Place(f, k)
    BY <2>1, <1>2, <1>9
  <2> QED
    BY <2>2, <1>5
<1> HIDE DEF first
<1> QED
  BY <1>1, <1>7, <1>8, <1>9 DEF n

-----------------------------------------------------------------------------
(***************************************************************************)
(* Filters.                                                                *)
(***************************************************************************)
\* The positions before i among the kept ones.
LEMMA KeptInOrder ==
    ASSUME NEW n \in Nat, NEW I \in SUBSET (1..n)
    PROVE  /\ IsFiniteSet(I) /\ Cardinality(I) \in Nat /\ Cardinality(I) <= n
           /\ StrictTotal(I, [i \in I |-> {j \in I : j < i}])
<1>1. IsFiniteSet(1..n) /\ Cardinality(1..n) = n
  <2>1. IsFiniteSet(1..n) /\ Cardinality(1..n) = IF 1 > n THEN 0 ELSE n - 1 + 1
    BY FS_Interval
  <2> QED
    BY <2>1
<1>2. IsFiniteSet(I) /\ Cardinality(I) <= n
  BY <1>1, FS_Subset
<1>3. Cardinality(I) \in Nat
  BY <1>2, FS_CardinalityType
<1>4. I \subseteq Int
  OBVIOUS
<1> DEFINE B == [i \in I |-> {j \in I : j < i}]
<1>5. B \in [I -> SUBSET I]
  OBVIOUS
<1>6. \A i \in I : i \notin B[i]
  BY <1>4
<1>7. ASSUME NEW i \in I, NEW j \in B[i]
      PROVE  B[j] \subseteq B[i]
  <2>1. j \in I /\ j < i
    OBVIOUS
  <2>2. \A k \in I : k < j => k < i
    BY <1>4, <2>1
  <2>3. B[j] = {k \in I : k < j} /\ B[i] = {k \in I : k < i}
    BY <2>1
  <2> QED
    BY <2>2, <2>3
<1>8. \A i, j \in I : i # j => i \in B[j] \/ j \in B[i]
  BY <1>4
<1>9. StrictTotal(I, B)
  <2> HIDE DEF B
  <2> QED
    BY <1>5, <1>6, <1>7, <1>8 DEF StrictTotal
<1> QED
  BY <1>2, <1>3, <1>9

\* A filter keeps elements of the sequence, each position once.
LEMMA FilterKeeps ==
    ASSUME NEW S, NEW s \in Seq(S), NEW I \in SUBSET (DOMAIN s)
    PROVE  /\ At(s, I) \in Seq(S)
           /\ Len(At(s, I)) <= Len(s)
           /\ \E place \in [DOMAIN At(s, I) -> I] :
                 /\ \A p, q \in DOMAIN At(s, I) : place[p] = place[q] => p = q
                 /\ \A p \in DOMAIN At(s, I) : At(s, I)[p] = s[place[p]]
<1> DEFINE B == [i \in I |-> {j \in I : j < i}]
           n == Cardinality(I)
           Nth(m) == CHOOSE i \in I : Cardinality({j \in I : j < i}) = m - 1
           kept == [m \in 1..n |-> s[Nth(m)]]
<1>1. At(s, I) = kept
  BY DEF At
<1>2. Len(s) \in Nat /\ DOMAIN s = 1..Len(s)
  OBVIOUS
<1>3. IsFiniteSet(I) /\ n \in Nat /\ n <= Len(s) /\ StrictTotal(I, B)
  BY <1>2, KeptInOrder
<1>4. \A m \in 0..n - 1 : \E i \in I : Cardinality(B[i]) = m
  <2> HIDE DEF B, n
  <2> USE DEF n
  <2> QED
    BY <1>3, RanksAreOnto
<1>5. \A m \in 1..n : Nth(m) \in I /\ Cardinality({j \in I : j < Nth(m)}) = m - 1
  <2> SUFFICES ASSUME NEW m \in 1..n
               PROVE  Nth(m) \in I /\ Cardinality({j \in I : j < Nth(m)}) = m - 1
    OBVIOUS
  <2>1. m - 1 \in 0..n - 1
    BY <1>3
  <2>2. PICK i \in I : Cardinality(B[i]) = m - 1
    BY <2>1, <1>4
  <2>3. \E k \in I : Cardinality({j \in I : j < k}) = m - 1
    BY <2>2
  <2> HIDE DEF n
  <2> QED
    BY <2>3
<1> HIDE DEF Nth
<1>6. \A m \in 1..n : s[Nth(m)] \in S
  <2>1. \A i \in I : s[i] \in S
    BY <1>2
  <2> QED
    BY <1>5, <2>1
<1>7. kept \in Seq(S) /\ Len(kept) = n /\ DOMAIN kept = 1..n
  BY <1>3, <1>6
<1> DEFINE place == [m \in 1..n |-> Nth(m)]
<1>8. place \in [DOMAIN kept -> I]
  BY <1>5, <1>7
<1>9. \A p, q \in 1..n : place[p] = place[q] => p = q
  <2> SUFFICES ASSUME NEW p \in 1..n, NEW q \in 1..n, Nth(p) = Nth(q)
               PROVE  p = q
    OBVIOUS
  <2>1. p - 1 = q - 1
    BY <1>5
  <2> QED
    BY <2>1, <1>3
<1>10. \A p \in 1..n : kept[p] = s[place[p]]
  OBVIOUS
<1> HIDE DEF place, kept, n
<1>11. \E pl \in [DOMAIN kept -> I] :
          /\ \A p, q \in DOMAIN kept : pl[p] = pl[q] => p = q
          /\ \A p \in DOMAIN kept : kept[p] = s[pl[p]]
  BY <1>7, <1>8, <1>9, <1>10
<1> QED
  BY <1>1, <1>3, <1>7, <1>11 DEF n

-----------------------------------------------------------------------------
(***************************************************************************)
(* Scores.                                                                 *)
(***************************************************************************)
\* A quotient by d, at most 1000, of multiples of 1000 tells them apart.
LEMMA QuotientsApart ==
    ASSUME NEW d \in 1..1000, NEW x \in Nat, NEW y \in Nat, x < y
    PROVE  (1000 * x) \div d \in Nat /\ (1000 * x) \div d < (1000 * y) \div d
<1> DEFINE a == (1000 * x) \div d
           b == (1000 * y) \div d
<1>1. a \in Int /\ d * a <= 1000 * x /\ 1000 * x < d * a + d
  OBVIOUS
<1>2. b \in Int /\ d * b <= 1000 * y /\ 1000 * y < d * b + d
  OBVIOUS
<1>3. a >= 0
  OBVIOUS
<1> HIDE DEF a, b
<1>4. 1000 * y >= 1000 * x + 1000
  BY ONLY x \in Nat, y \in Nat, x < y
<1>5. d * a < d * b
  <2> DEFINE da == d * a
             db == d * b
  <2>1. da \in Int /\ db \in Int
    BY <1>1, <1>2
  <2> HIDE DEF da, db
  <2>2. da <= 1000 * x /\ 1000 * y < db + d
    BY <1>1, <1>2 DEF da, db
  <2> QED
    BY <2>1, <2>2, <1>4 DEF da, db
<1>6. a < b
  <2> SUFFICES ASSUME b <= a PROVE FALSE
    BY <1>1, <1>2
  <2>1. d * b <= d * a
    BY <1>1, <1>2
  <2> QED
    BY <2>1, <1>1, <1>2, <1>5
<1> QED
  BY <1>1, <1>3, <1>6 DEF a, b

\* Up to 1000 rows, the greater value has the greater score of its rank.
LEMMA RankScoreGrows ==
    ASSUME NEW n \in 1..1000, NEW f \in [1..n -> Int], NEW i \in 1..n
    PROVE  /\ RankScore(f, i) \in Int
           /\ \A j \in 1..n : f[i] > f[j] => RankScore(f, i) > RankScore(f, j)
<1> DEFINE last == IF n > 1 THEN n - 1 ELSE 1
<1>1. Len(f) = n
  OBVIOUS
<1>2. last \in 1..1000
  OBVIOUS
<1>3. \A k \in 1..n : RankScore(f, k) = 1000 - (1000 * Place(f, k)) \div last
  BY <1>1 DEF RankScore
<1>4. /\ \A k \in 1..n : Place(f, k) \in 0..n - 1
      /\ \A k, j \in 1..n : f[k] > f[j] => Place(f, k) < Place(f, j)
  <2>1. n \in Nat
    OBVIOUS
  <2>2. \A k \in 1..n : Place(f, k) \in 0..n - 1
    BY ONLY <2>1, Places, f \in [1..n -> Int]
  <2>3. \A k, j \in 1..n : f[k] > f[j] => Place(f, k) < Place(f, j)
    BY ONLY <2>1, Places, f \in [1..n -> Int]
  <2> QED
    BY <2>2, <2>3
<1> HIDE DEF last
<1> DEFINE Q(x) == (1000 * x) \div last
<1>8. \A x, y \in Nat : x < y => Q(x) \in Nat /\ Q(x) < Q(y)
  <2> SUFFICES ASSUME NEW x \in Nat, NEW y \in Nat, x < y
               PROVE  Q(x) \in Nat /\ Q(x) < Q(y)
    OBVIOUS
  <2> QED
    BY <1>2, QuotientsApart
<1>9. \A k \in 1..n : RankScore(f, k) = 1000 - Q(Place(f, k))
  BY <1>3
<1> HIDE DEF Q
<1>5. \A k \in 1..n : Q(Place(f, k)) \in Nat
  <2> SUFFICES ASSUME NEW k \in 1..n PROVE Q(Place(f, k)) \in Nat
    OBVIOUS
  <2>1. Place(f, k) \in Nat /\ Place(f, k) + 1 \in Nat /\ Place(f, k) < Place(f, k) + 1
    BY <1>4
  <2> QED
    BY <2>1, <1>8
<1>6. ASSUME NEW j \in 1..n, f[i] > f[j]
      PROVE  RankScore(f, i) > RankScore(f, j)
  <2>1. Place(f, i) \in Nat /\ Place(f, j) \in Nat /\ Place(f, i) < Place(f, j)
    BY <1>4, <1>6
  <2> QED
    BY <2>1, <1>5, <1>8, <1>9
<1>7. RankScore(f, i) \in Int
  BY <1>5, <1>9
<1> QED
  BY <1>6, <1>7

\* Few enough rows for the scores to tell all ranks apart.
Few(s) == Len(s) \in 1..1000

LEMMA ColumnsTyped ==
    ASSUME NEW s \in Seq(RankedRow)
    PROVE  /\ Column(s, "amount") \in [DOMAIN s -> Int]
           /\ Column(s, "change") \in [DOMAIN s -> Int]
           /\ PrevColumn(s) \in [DOMAIN s -> Int]
<1>1. DOMAIN s = 1..Len(s) /\ \A i \in DOMAIN s : s[i] \in RankedRow
  OBVIOUS
<1>2. \A i \in DOMAIN s : s[i].amount \in Int /\ s[i].change \in Int /\ s[i].code \in AllCodes
  BY <1>1 DEF RankedRow
<1>3. \A c \in AllCodes : PrevVolume[c] \in Int
  BY UniverseAssumption
<1> QED
  BY <1>2, <1>3 DEF Column, PrevColumn

\* RankScoreGrows for a column of the rows.
LEMMA ColumnScoreGrows ==
    ASSUME NEW s \in Seq(RankedRow), Few(s), NEW f \in [DOMAIN s -> Int],
           NEW i \in DOMAIN s
    PROVE  /\ RankScore(f, i) \in Int
           /\ \A j \in DOMAIN s : f[i] > f[j] => RankScore(f, i) > RankScore(f, j)
<1> DEFINE n == Len(s)
<1>1. DOMAIN s = 1..n /\ f \in [1..n -> Int] /\ i \in 1..n
  OBVIOUS
<1>2. n \in 1..1000
  BY DEF Few
<1> HIDE DEF n
<1> QED
  BY <1>1, <1>2, RankScoreGrows

\* The pace is a number, whatever the volumes are.
LEMMA PaceTyped ==
    ASSUME NEW r \in RankedRow, NEW period \in Periods
    PROVE  Pace(r, period) \in Nat
<1>1. Elapsed[period] \in Nat \ {0}
  BY DEF Periods, Elapsed
<1>2. PrevVolume[r.code] \in Nat /\ r.volume \in Nat
  BY UniverseAssumption DEF RankedRow
<1>3. CASE PrevVolume[r.code] = 0 \/ r.volume = 0
  BY <1>3 DEF Pace
<1>4. CASE ~(PrevVolume[r.code] = 0 \/ r.volume = 0)
  <2> DEFINE x == 1000 * r.volume * 390
             d == PrevVolume[r.code] * Elapsed[period]
  <2>1. x \in Nat /\ d \in Nat \ {0}
    BY <1>1, <1>2, <1>4
  <2>2. Pace(r, period) = x \div d
    BY <1>4 DEF Pace
  <2> HIDE DEF x, d
  <2>3. x \div d \in Nat
    BY <2>1
  <2> QED
    BY <2>2, <2>3
<1> QED
  BY <1>3, <1>4

LEMMA TenthsGrow ==
    ASSUME NEW p \in Int, NEW a \in Int, NEW q \in Int, NEW b \in Int
    PROVE  /\ (7 * p + 3 * a) \div 10 \in Int
           /\ p > q /\ a > b => (7 * p + 3 * a) \div 10 >= (7 * q + 3 * b) \div 10
  OBVIOUS

\* Each part of the score is a number, and no smaller for the better row.
LEMMA AmountScoreGrows ==
    ASSUME NEW s \in Seq(RankedRow), Few(s), NEW period \in Periods,
           NEW i \in DOMAIN s, NEW j \in DOMAIN s
    PROVE  /\ AmountScore(s, period, i) \in Int
           /\ s[i].amount > s[j].amount
              /\ PrevVolume[s[i].code] > PrevVolume[s[j].code]
                 => AmountScore(s, period, i) >= AmountScore(s, period, j)
<1> DEFINE amounts == Column(s, "amount")
           prevs == PrevColumn(s)
           A(k) == RankScore(amounts, k)
           P(k) == RankScore(prevs, k)
           M(k) == (7 * P(k) + 3 * A(k)) \div 10
<1>1. amounts \in [DOMAIN s -> Int] /\ prevs \in [DOMAIN s -> Int]
  BY ColumnsTyped
<1>2. \A k \in DOMAIN s : amounts[k] = s[k].amount /\ prevs[k] = PrevVolume[s[k].code]
  BY DEF Column, PrevColumn
<1>3. \A k \in DOMAIN s :
         AmountScore(s, period, k) = IF period = "early" THEN M(k) ELSE A(k)
  BY DEF AmountScore
<1> HIDE DEF amounts, prevs
<1>4. {A(i), A(j), P(i), P(j)} \subseteq Int
  BY <1>1, ColumnScoreGrows
<1>5. /\ amounts[i] > amounts[j] => A(i) > A(j)
      /\ prevs[i] > prevs[j] => P(i) > P(j)
  BY <1>1, ColumnScoreGrows
<1> HIDE DEF A, P
<1>6. /\ {M(i), M(j)} \subseteq Int
      /\ A(i) > A(j) /\ P(i) > P(j) => M(i) >= M(j)
  BY <1>4, TenthsGrow
<1> HIDE DEF M
<1>7. AmountScore(s, period, i) \in Int
  BY <1>3, <1>4, <1>6
<1>8. ASSUME s[i].amount > s[j].amount, PrevVolume[s[i].code] > PrevVolume[s[j].code]
      PROVE  AmountScore(s, period, i) >= AmountScore(s, period, j)
  <2>1. A(i) > A(j) /\ P(i) > P(j)
    BY <1>2, <1>5, <1>8
  <2>2. A(i) >= A(j) /\ M(i) >= M(j)
    BY <2>1, <1>4, <1>6
  <2> QED
    BY <2>2, <1>3
<1> QED
  BY <1>7, <1>8

LEMMA VolumeScoreGrows ==
    ASSUME NEW s \in Seq(RankedRow), Few(s), NEW period \in Periods,
           NEW i \in DOMAIN s, NEW j \in DOMAIN s
    PROVE  /\ VolumeScore(s, period, i) \in Int
           /\ PrevVolume[s[j].code] > 0
              /\ Pace(s[i], period) >= Pace(s[j], period) /\ Pace(s[j], period) > 0
                 => VolumeScore(s, period, i) >= VolumeScore(s, period, j)
<1> DEFINE P(k) == Pace(s[k], period)
           R(k) == RankScore(Column(s, "amount"), k)
           W(x) == IF x = 0 THEN 500 ELSE IF x >= 3000 THEN 1000 ELSE x \div 3
<1>1. \A k \in DOMAIN s : s[k] \in RankedRow
  OBVIOUS
<1>2. P(i) \in Nat /\ P(j) \in Nat
  BY <1>1, PaceTyped
<1>3. R(i) \in Int
  BY ColumnsTyped, ColumnScoreGrows
<1>4. \A k \in DOMAIN s :
         VolumeScore(s, period, k) = IF ~HasPrevCache(s) THEN R(k) ELSE W(P(k))
  BY DEF VolumeScore
<1> HIDE DEF P, R
<1>5. \A x \in Nat : W(x) \in Int
  OBVIOUS
<1>6. \A x, y \in Nat : x >= y /\ y > 0 => W(x) >= W(y)
  OBVIOUS
<1> HIDE DEF W
<1>7. VolumeScore(s, period, i) \in Int
  BY <1>2, <1>3, <1>4, <1>5
<1>8. ASSUME PrevVolume[s[j].code] > 0, P(i) >= P(j), P(j) > 0
      PROVE  VolumeScore(s, period, i) >= VolumeScore(s, period, j)
  <2>1. HasPrevCache(s)
    BY <1>8 DEF HasPrevCache
  <2>2. W(P(i)) >= W(P(j))
    BY <1>2, <1>6, <1>8
  <2> QED
    BY <1>4, <2>1, <2>2
<1> QED
  BY <1>7, <1>8 DEF P

LEMMA ChangeScoreGrows ==
    ASSUME NEW s \in Seq(RankedRow), Few(s), NEW i \in DOMAIN s,
           NEW j \in DOMAIN s
    PROVE  /\ ChangeScore(s, i) \in Int
           /\ s[i].change > s[j].change => ChangeScore(s, i) > ChangeScore(s, j)
<1> DEFINE f == Column(s, "change")
<1>1. f \in [DOMAIN s -> Int]
  BY ColumnsTyped
<1>2. \A k \in DOMAIN s : f[k] = s[k].change
  BY DEF Column
<1> HIDE DEF f
<1>3. RankScore(f, i) \in Int /\ (f[i] > f[j] => RankScore(f, i) > RankScore(f, j))
  BY <1>1, ColumnScoreGrows
<1> QED
  BY <1>2, <1>3 DEF f, ChangeScore

\* A sum with the weights of a period.
Weighted(period, a, v, c, b) ==
    10 * (  Weights[period].amount * a + Weights[period].volume * v
          + Weights[period].change * c ) + b

LEMMA WeightedGrows ==
    ASSUME NEW period \in Periods,
           NEW a \in Int, NEW v \in Int, NEW c \in Int, NEW b \in {0, 15000},
           NEW d \in Int, NEW u \in Int, NEW e \in Int, NEW g \in {0, 15000}
    PROVE  /\ Weighted(period, a, v, c, b) \in Int
           /\ a >= d /\ v >= u /\ c > e /\ b >= g
                 => Weighted(period, a, v, c, b) > Weighted(period, d, u, e, g)
<1>1. CASE period = "early"
  <2>1. Weights[period] = [amount |-> 6, volume |-> 1, change |-> 3]
    BY <1>1 DEF Weights
  <2> QED
    BY <2>1 DEF Weighted
<1>2. CASE period = "middle"
  <2>1. Weights[period] = [amount |-> 4, volume |-> 2, change |-> 4]
    BY <1>2 DEF Weights
  <2> QED
    BY <2>1 DEF Weighted
<1>3. CASE period = "late"
  <2>1. Weights[period] = [amount |-> 3, volume |-> 5, change |-> 2]
    BY <1>3 DEF Weights
  <2> QED
    BY <2>1 DEF Weighted
<1> QED
  BY <1>1, <1>2, <1>3 DEF Periods

\* The better row has the greater score: its change decides.
LEMMA ScoreGrows ==
    ASSUME NEW s \in Seq(RankedRow), Few(s), NEW period \in Periods,
           NEW surge, NEW i \in DOMAIN s, NEW j \in DOMAIN s
    PROVE  /\ Score(s, period, surge, i) \in Int
           /\ Beats(s[i], s[j], period, surge)
                 => Score(s, period, surge, i) > Score(s, period, surge, j)
<1> DEFINE A(k) == AmountScore(s, period, k)
           V(k) == VolumeScore(s, period, k)
           C(k) == ChangeScore(s, k)
           B(k) == IF s[k].code \in surge THEN SurgeBonus ELSE 0
<1>1. B(i) \in {0, 15000} /\ B(j) \in {0, 15000}
  BY DEF SurgeBonus
<1>2. \A k \in DOMAIN s :
         Score(s, period, surge, k) =
             Weighted(period, A(k), V(k), C(k), B(k))
  BY DEF Score, Weighted
<1>3. {A(i), V(i), C(i), A(j), V(j), C(j)} \subseteq Int
  BY AmountScoreGrows, VolumeScoreGrows, ChangeScoreGrows
<1>4. ASSUME Beats(s[i], s[j], period, surge)
      PROVE  A(i) >= A(j) /\ V(i) >= V(j) /\ C(i) > C(j) /\ B(i) >= B(j)
  <2>1. A(i) >= A(j)
    BY <1>4, AmountScoreGrows DEF Beats
  <2>2. V(i) >= V(j)
    BY <1>4, VolumeScoreGrows DEF Beats
  <2>3. C(i) > C(j)
    BY <1>4, ChangeScoreGrows DEF Beats
  <2>4. B(i) >= B(j)
    BY <1>4 DEF Beats, SurgeBonus
  <2> HIDE DEF A, V, C, B
  <2> QED
    BY <2>1, <2>2, <2>3, <2>4
<1> HIDE DEF A, V, C, B
<1>5. /\ Weighted(period, A(i), V(i), C(i), B(i)) \in Int
      /\ A(i) >= A(j) /\ V(i) >= V(j) /\ C(i) > C(j) /\ B(i) >= B(j) =>
            Weighted(period, A(i), V(i), C(i), B(i))
             > Weighted(period, A(j), V(j), C(j), B(j))
  BY <1>1, <1>3, WeightedGrows
<1> QED
  BY <1>2, <1>4, <1>5

-----------------------------------------------------------------------------
(***************************************************************************)
(* The universe of a ranking.                                              *)
(***************************************************************************)
\* Each code once.
Unique(s) == \A k, l \in DOMAIN s : s[k].code = s[l].code => k = l

\* The score is cut off below the better of two rows only if below both.
LEMMA BetterChosen ==
    ASSUME NEW s \in Seq(RankedRow), Few(s), Unique(s), NEW period \in Periods,
           NEW surge, NEW i \in DOMAIN s, NEW j \in DOMAIN s,
           Beats(s[i], s[j], period, surge),
           s[j].code \in ToSet(CodesOf(apply_scoring_cap(s, period, surge)))
    PROVE  s[i].code \in ToSet(CodesOf(apply_scoring_cap(s, period, surge)))
<1> DEFINE f == [k \in DOMAIN s |-> Score(s, period, surge, k)]
           c == FirstBy(s, f)
<1>1. apply_scoring_cap(s, period, surge) = c
  BY DEF apply_scoring_cap
<1>2. DOMAIN s = 1..Len(s) /\ Len(s) \in Nat
  OBVIOUS
<1>3. f \in [DOMAIN s -> Int]
  BY ScoreGrows
<1>4. f[i] > f[j]
  BY ScoreGrows
<1>5. f \in [1..Len(s) -> Int]
  BY <1>2, <1>3
<1> HIDE DEF f
<1>6. Place(f, i) < Place(f, j) /\ Place(f, i) \in Nat /\ Place(f, j) \in Nat
  <2>1. \A k, l \in DOMAIN s : f[k] > f[l] => Place(f, k) < Place(f, l)
    BY <1>2, <1>5, Places
  <2>2. \A k \in DOMAIN s : Place(f, k) \in 0..Len(s) - 1
    BY <1>2, <1>5, Places
  <2> QED
    BY <2>1, <2>2, <1>2, <1>4
<1>7. /\ c \in Seq(RankedRow)
      /\ \A p \in DOMAIN c : \E k \in DOMAIN s : c[p] = s[k] /\ Place(f, k) = p - 1
      /\ \A k \in DOMAIN s :
            Place(f, k) < Len(c) => /\ Place(f, k) + 1 \in DOMAIN c
                                    /\ c[Place(f, k) + 1] = s[k]
  BY <1>5, FirstPlaces
<1> HIDE DEF c
<1>8. PICK p \in DOMAIN c : c[p].code = s[j].code
  BY <1>1 DEF ToSet, CodesOf
<1>9. PICK k \in DOMAIN s : c[p] = s[k] /\ Place(f, k) = p - 1
  BY <1>7
<1>10. k = j
  BY <1>8, <1>9 DEF Unique
<1>11. p \in 1..Len(c) /\ Len(c) \in Nat
  BY <1>7
<1>12. Place(f, i) < Len(c)
  BY <1>6, <1>9, <1>10, <1>11
<1>13. Place(f, i) + 1 \in DOMAIN c /\ c[Place(f, i) + 1] = s[i]
  BY <1>7, <1>12
<1> QED
  BY <1>1, <1>13 DEF ToSet, CodesOf

\* What the filter keeps of a ranking is a ranking.
LEMMA EligibleRanked ==
    ASSUME NEW r, Ranking(r), NEW least
    PROVE  /\ Eligible(r, least) \in Seq(RankedRow)
           /\ Len(Eligible(r, least)) <= 200
           /\ Unique(Eligible(r, least))
<1> DEFINE I == {i \in DOMAIN r :
                    r[i].equity /\ r[i].change >= least /\ r[i].change < 220}
           e == At(r, I)
<1>1. Eligible(r, least) = e
  BY DEF Eligible
<1>2. r \in Seq(RankedRow) /\ Len(r) <= 200 /\ Len(r) \in Nat
  BY DEF Ranking
<1>3. I \in SUBSET (DOMAIN r)
  OBVIOUS
<1> HIDE DEF I
<1>4. /\ e \in Seq(RankedRow)
      /\ Len(e) <= Len(r)
      /\ \E place \in [DOMAIN e -> I] :
            /\ \A p, q \in DOMAIN e : place[p] = place[q] => p = q
            /\ \A p \in DOMAIN e : e[p] = r[place[p]]
  BY <1>2, <1>3, FilterKeeps
<1> HIDE DEF e
<1>5. Len(e) \in Nat /\ Len(e) <= 200
  BY <1>2, <1>4
<1>6. PICK place \in [DOMAIN e -> I] :
          /\ \A p, q \in DOMAIN e : place[p] = place[q] => p = q
          /\ \A p \in DOMAIN e : e[p] = r[place[p]]
  BY <1>4
<1>7. \A k, l \in DOMAIN r : r[k].code = r[l].code => k = l
  BY DEF Ranking
<1>8. Unique(e)
  <2> SUFFICES ASSUME NEW p \in DOMAIN e, NEW q \in DOMAIN e, e[p].code = e[q].code
               PROVE  p = q
    BY DEF Unique
  <2>1. place[p] \in DOMAIN r /\ place[q] \in DOMAIN r
    BY <1>3, <1>6
  <2>2. place[p] = place[q]
    BY <2>1, <1>6, <1>7
  <2> QED
    BY <2>2, <1>6
<1> QED
  BY <1>1, <1>4, <1>5, <1>8

\* Codes of rows.
LEMMA CodesTyped ==
    ASSUME NEW s \in Seq(RankedRow)
    PROVE  CodesOf(s) \in Seq(AllCodes)
<1>1. Len(s) \in Nat /\ DOMAIN s = 1..Len(s) /\ \A i \in DOMAIN s : s[i].code \in AllCodes
  <2>1. \A i \in DOMAIN s : s[i] \in RankedRow
    OBVIOUS
  <2>2. \A x \in RankedRow : x.code \in AllCodes
    BY DEF RankedRow
  <2> QED
    BY <2>1, <2>2
<1>2. CodesOf(s) \in [1..Len(s) -> AllCodes]
  BY <1>1 DEF CodesOf
<1> QED
  BY <1>1, <1>2

\* The score needs some row.
LEMMA CapTyped ==
    ASSUME NEW s \in Seq(RankedRow), Len(s) <= 200, NEW period \in Periods, NEW surge
    PROVE  apply_scoring_cap(s, period, surge) \in Seq(RankedRow)
<1> DEFINE f == [k \in DOMAIN s |-> Score(s, period, surge, k)]
<1>1. Len(s) \in Nat /\ DOMAIN s = 1..Len(s)
  OBVIOUS
<1>2. \A k \in DOMAIN s : Score(s, period, surge, k) \in Int
  <2> SUFFICES ASSUME NEW k \in DOMAIN s PROVE Score(s, period, surge, k) \in Int
    OBVIOUS
  <2>1. Few(s)
    <3> DEFINE n == Len(s)
    <3>1. k \in 1..n /\ n \in Nat /\ n <= 200
      BY <1>1
    <3> HIDE DEF f, n
    <3>2. n \in 1..1000
      BY <3>1
    <3> QED
      BY <3>2 DEF Few, n
  <2> QED
    BY <2>1, ScoreGrows
<1>3. f \in [1..Len(s) -> Int]
  BY <1>1, <1>2
<1> HIDE DEF f
<1>4. FirstBy(s, f) \in Seq(RankedRow)
  BY <1>3, FirstPlaces
<1> QED
  BY <1>4 DEF f, apply_scoring_cap

\* The universe of a scan and that of the pre-filter consist of codes.
LEMMA UniversesTyped ==
    ASSUME NEW r, Ranking(r), NEW period \in Periods, NEW surge
    PROVE  /\ CodesOf(_filter_and_score_universe(r, period, surge)) \in Seq(AllCodes)
           /\ CodesOf(PreFiltered(r, period, surge)) \in Seq(AllCodes)
           /\ CodesOf(FirstBy(r, Column(r, "amount"))) \in Seq(AllCodes)
<1>1. _filter_and_score_universe(r, period, surge) \in Seq(RankedRow)
  BY EligibleRanked, CapTyped DEF _filter_and_score_universe
<1>2. \A s \in Seq(RankedRow) : FirstBy(s, Column(s, "amount")) \in Seq(RankedRow)
  <2> SUFFICES ASSUME NEW s \in Seq(RankedRow)
               PROVE  FirstBy(s, Column(s, "amount")) \in Seq(RankedRow)
    OBVIOUS
  <2> DEFINE f == Column(s, "amount")
  <2>1. f \in [1..Len(s) -> Int]
    BY ColumnsTyped
  <2> HIDE DEF f
  <2>2. FirstBy(s, f) \in Seq(RankedRow)
    BY <2>1, FirstPlaces
  <2> QED
    BY <2>2 DEF f
<1>3. apply_scoring_cap(Eligible(r, -15), period, surge) \in Seq(RankedRow)
  BY EligibleRanked, CapTyped
<1>4. PreFiltered(r, period, surge) \in Seq(RankedRow)
  BY <1>2, <1>3 DEF PreFiltered
<1>5. r \in Seq(RankedRow)
  BY DEF Ranking
<1> QED
  BY <1>1, <1>2, <1>4, <1>5, CodesTyped

-----------------------------------------------------------------------------
(***************************************************************************)
(* The state.                                                              *)
(***************************************************************************)
LEMMA RankingsRanked == \A r \in Rankings : Ranking(r)
<1>1. Ranking(<<>>)
  BY DEF Ranking
<1> QED
  BY <1>1, ConstantsAssumption DEF Rankings

LEMMA UniverseOfScan ==
    ASSUME NEW r \in Rankings, NEW period \in Periods, NEW surge \in Surges
    PROVE  /\ ScanUniverse[<<r, period, surge>>]
                = CodesOf(_filter_and_score_universe(r, period, surge))
           /\ ScanUniverse[<<r, period, surge>>] \in Seq(AllCodes)
           /\ PreUniverse[<<r, period, surge>>] \in Seq(AllCodes)
<1>1. /\ ScanUniverse[<<r, period, surge>>]
           = CodesOf(_filter_and_score_universe(r, period, surge))
      /\ PreUniverse[<<r, period, surge>>] = CodesOf(PreFiltered(r, period, surge))
  BY DEF ScanUniverse, PreUniverse
<1> QED
  BY <1>1, RankingsRanked, UniversesTyped

LEMMA FirstOfTyped ==
    ASSUME NEW S, NEW s \in Seq(S), NEW n \in Nat
    PROVE  FirstOf(s, n) \in Seq(S)
  BY DEF FirstOf

LEMMA SetToSeqTyped ==
    ASSUME NEW S, IsFiniteSet(S)
    PROVE  SetToSeq(S) \in Seq(S)
<1> DEFINE n == Cardinality(S)
<1>1. n \in Nat /\ ExistsBijection(1..n, S)
  BY FS_CardinalityType
<1> HIDE DEF n
<1>2. \E f \in [1..n -> S] : IsInjective(f)
  BY <1>1 DEF ExistsBijection, Bijection, Injection
<1>3. SetToSeq(S) \in [1..n -> S]
  BY <1>2 DEF SetToSeq, n
<1> QED
  BY <1>1, <1>3

LEMMA ToSetTyped ==
    ASSUME NEW S, NEW s \in Seq(S)
    PROVE  ToSet(s) \subseteq S
<1>1. \A i \in DOMAIN s : s[i] \in S
  OBVIOUS
<1> QED
  BY <1>1 DEF ToSet

LEMMA Limits ==
    /\ SubMax \in Nat /\ LoadMax \in Nat /\ TurboMax \in Nat /\ WatchMax \in Nat
    /\ Expiry \in Nat \ {0} /\ MaxChains \in Nat \ {0} /\ Retries \in Nat
    /\ Held \subseteq AllCodes /\ Served \subseteq AllCodes /\ IsFiniteSet(AllCodes)
  BY ConstantsAssumption, UniverseAssumption

LEMMA WatchTyped ==
    ASSUME NEW codes \in Seq(AllCodes)
    PROVE  Watch(codes) \subseteq AllCodes
<1> DEFINE others == {i \in DOMAIN codes : codes[i] \notin Held}
           rest == At(codes, others)
           held == SetToSeq(Held)
<1>1. rest \in Seq(AllCodes)
  <2>1. others \in SUBSET (DOMAIN codes)
    OBVIOUS
  <2> HIDE DEF others
  <2> QED
    BY <2>1, FilterKeeps
<1>2. held \in Seq(AllCodes)
  <2>1. IsFiniteSet(Held)
    BY Limits, FS_Subset
  <2>2. held \in Seq(Held)
    BY <2>1, SetToSeqTyped
  <2> HIDE DEF held
  <2> QED
    BY <2>2, Limits, SeqMonotonic
<1> HIDE DEF rest, held
<1>3. held \o rest \in Seq(AllCodes)
  BY <1>1, <1>2
<1>4. FirstOf(held \o rest, SubMax) \in Seq(AllCodes)
  BY <1>3, Limits, FirstOfTyped
<1>5. ToSet(FirstOf(held \o rest, SubMax)) \subseteq AllCodes
  BY <1>4, ToSetTyped
<1> QED
  BY <1>5 DEF Watch, held, rest

LEMMA NeedTyped ==
    ASSUME NEW codes \in Seq(AllCodes)
    PROVE  _ensure_candle_data(codes) \in Seq(AllCodes)
<1> DEFINE missing == {i \in DOMAIN codes : codes[i] \notin charted}
<1>1. missing \in SUBSET (DOMAIN codes)
  OBVIOUS
<1> HIDE DEF missing
<1>2. At(codes, missing) \in Seq(AllCodes)
  BY <1>1, FilterKeeps
<1>3. LoadLimit \in Nat
  BY Limits DEF LoadLimit
<1>4. FirstOf(At(codes, missing), LoadLimit) \in Seq(AllCodes)
  BY <1>2, <1>3, FirstOfTyped
<1> QED
  BY <1>4 DEF _ensure_candle_data, missing

\* The scheduled calls that occur.
Calls == [kind : {"min", "h1"}, todo : Seq(AllCodes)]

\* The request in flight; the call of a chain that waits for it leaves room for
\* its next call.
SlotTyped ==
    /\ slot \in [kind : {"free", "top", "min", "h1", "other"},
                 from : {"none", "bg", "pre"},
                 chain : Calls \cup {NoChain}]
    /\ slot.chain.kind = "min" => slot.chain.todo # <<>>
    /\ slot.chain # NoChain => Cardinality(chains) < MaxChains

ChainsTyped ==
    /\ chains \subseteq Calls /\ IsFiniteSet(chains)
    /\ Cardinality(chains) <= MaxChains

\* The inductive invariant.
Typed ==
    /\ phase \in Phases
    /\ rows \in Rankings /\ age \in 0..Expiry /\ fetching \in BOOLEAN
    /\ SlotTyped
    /\ ChainsTyped
    /\ top \in Seq(AllCodes) /\ watched \subseteq AllCodes /\ charted \subseteq AllCodes
    /\ retry \in 0..Retries /\ loadDone \in BOOLEAN /\ preDue \in BOOLEAN

LEMMA TypedSuffices == Typed => TypeOK
<1> SUFFICES ASSUME Typed PROVE TypeOK
  OBVIOUS
<1>1. \A call \in Calls \cup {NoChain} :
         call.kind \in {"none", "min", "h1"} /\ call.todo \in Seq(AllCodes)
  <2>1. \A call \in Calls :
           call.kind \in {"none", "min", "h1"} /\ call.todo \in Seq(AllCodes)
    BY DEF Calls
  <2>2. NoChain.kind = "none" /\ NoChain.todo \in Seq(AllCodes)
    BY DEF NoChain
  <2> QED
    BY <2>1, <2>2
<1>2. chains \cup {slot.chain} \subseteq Calls \cup {NoChain}
  BY DEF Typed, SlotTyped, ChainsTyped
<1>3. slot.kind \in {"free", "top", "min", "h1", "other"}
  BY DEF Typed, SlotTyped
<1> QED
  BY <1>1, <1>2, <1>3 DEF Typed, ChainsTyped, TypeOK, Rankings

\* Every state's universe keeps the better row.
LEMMA TypedKeepsBetter == Typed => BetterRowFirst
<1> SUFFICES ASSUME Typed PROVE BetterRowFirst
  OBVIOUS
<1>1. TypeOK
  BY TypedSuffices
<1>2. ASSUME NEW period \in PeriodsOf[phase], NEW surge \in Surges,
             NEW i \in DOMAIN Eligible(rows, 0), NEW j \in DOMAIN Eligible(rows, 0),
             Beats(Eligible(rows, 0)[i], Eligible(rows, 0)[j], period, surge),
             Eligible(rows, 0)[j].code \in ToSet(ScanUniverse[<<rows, period, surge>>])
      PROVE  Eligible(rows, 0)[i].code \in ToSet(ScanUniverse[<<rows, period, surge>>])
  <2> DEFINE kept == Eligible(rows, 0)
  <2>1. rows \in Rankings /\ phase \in Phases
    BY DEF Typed
  <2>2. period \in Periods
    BY <2>1 DEF PeriodsOf, Phases, Periods
  <2>3. kept \in Seq(RankedRow) /\ Len(kept) <= 200 /\ Unique(kept)
    BY <2>1, RankingsRanked, EligibleRanked
  <2>4. ScanUniverse[<<rows, period, surge>>] = CodesOf(apply_scoring_cap(kept, period, surge))
    BY <2>1, <2>2, UniverseOfScan DEF _filter_and_score_universe
  <2> HIDE DEF kept
  <2>5. i \in DOMAIN kept /\ j \in DOMAIN kept /\ Beats(kept[i], kept[j], period, surge)
    BY <1>2 DEF kept
  <2>6. Few(kept)
    <3> DEFINE n == Len(kept)
    <3>1. n \in Nat /\ n <= 200 /\ i \in 1..n
      BY <2>3, <2>5
    <3> HIDE DEF n
    <3>2. n \in 1..1000
      BY <3>1
    <3> QED
      BY <3>2 DEF Few, n
  <2>7. kept[j].code \in ToSet(CodesOf(apply_scoring_cap(kept, period, surge)))
    BY <1>2, <2>4 DEF kept
  <2>8. kept[i].code \in ToSet(CodesOf(apply_scoring_cap(kept, period, surge)))
    BY <2>2, <2>3, <2>5, <2>6, <2>7, BetterChosen
  <2> QED
    BY <2>4, <2>8 DEF kept
<1> QED
  BY <1>1, <1>2 DEF BetterRowFirst

-----------------------------------------------------------------------------
(***************************************************************************)
(* The steps.                                                              *)
(***************************************************************************)
\* A request that is not a chart's.
Plain == [kind : {"free", "top", "other"}, from : {"none", "bg", "pre"}, chain : {NoChain}]

LEMMA PlainRequests ==
    /\ Free \in Plain /\ Request("other") \in Plain
    /\ \A caller \in {"bg", "pre"} : [Request("top") EXCEPT !.from = caller] \in Plain
  BY DEF Plain, Free, Request

LEMMA PlainSlotTyped ==
    ASSUME slot' \in Plain
    PROVE  SlotTyped'
<1>1. slot'.chain = NoChain
  BY DEF Plain
<1>2. slot' \in [kind : {"free", "top", "min", "h1", "other"},
                 from : {"none", "bg", "pre"}, chain : Calls \cup {NoChain}]
  BY DEF Plain
<1>3. slot'.chain.kind # "min"
  BY <1>1 DEF NoChain
<1> QED
  BY <1>1, <1>2, <1>3 DEF SlotTyped

\* The slot is as it was, and no chain more is scheduled.
LEMMA KeptSlotTyped ==
    ASSUME Typed, slot' = slot, chains' \subseteq Calls, IsFiniteSet(chains'),
           Cardinality(chains') <= Cardinality(chains)
    PROVE  SlotTyped' /\ ChainsTyped'
<1>1. Cardinality(chains) \in Nat /\ Cardinality(chains') \in Nat
  BY FS_CardinalityType DEF Typed, ChainsTyped
<1>2. ChainsTyped'
  BY <1>1, Limits DEF Typed, ChainsTyped
<1>3. slot'.chain # NoChain => Cardinality(chains') < MaxChains
  BY <1>1, Limits DEF Typed, SlotTyped
<1> QED
  BY <1>2, <1>3 DEF Typed, SlotTyped

LEMMA SlotAndChainsKept ==
    ASSUME Typed, UNCHANGED <<slot, chains>>
    PROVE  SlotTyped' /\ ChainsTyped'
<1>1. Cardinality(chains) \in Nat
  BY FS_CardinalityType DEF Typed, ChainsTyped
<1> QED
  BY <1>1, KeptSlotTyped DEF Typed, ChainsTyped

\* One call gives way to at most one.
LEMMA Replaced ==
    ASSUME NEW S, S \subseteq Calls, IsFiniteSet(S), NEW call \in S, NEW next,
           next = {} \/ \E c \in Calls : next = {c}
    PROVE  /\ (S \ {call}) \cup next \subseteq Calls
           /\ IsFiniteSet((S \ {call}) \cup next)
           /\ Cardinality((S \ {call}) \cup next) <= Cardinality(S)
<1> DEFINE rest == S \ {call}
<1>1. IsFiniteSet(rest) /\ Cardinality(rest) = Cardinality(S) - 1
  BY FS_RemoveElement
<1>2. Cardinality(S) \in Nat
  BY FS_CardinalityType
<1>3. rest \subseteq Calls
  OBVIOUS
<1> HIDE DEF rest
<1>4. CASE next = {}
  <2>1. rest \cup next = rest
    BY <1>4
  <2> QED
    BY <2>1, <1>1, <1>2, <1>3 DEF rest
<1>5. ASSUME NEW c \in Calls, next = {c}
      PROVE  /\ rest \cup next \subseteq Calls
             /\ IsFiniteSet(rest \cup next)
             /\ Cardinality(rest \cup next) <= Cardinality(S)
  <2>1. /\ IsFiniteSet(rest \cup {c})
        /\ Cardinality(rest \cup {c}) = IF c \in rest THEN Cardinality(rest)
                                        ELSE Cardinality(rest) + 1
    BY <1>1, FS_AddElement
  <2> QED
    BY <2>1, <1>1, <1>2, <1>3, <1>5
<1> QED
  BY <1>4, <1>5 DEF rest

LEMMA Added ==
    ASSUME NEW S, S \subseteq Calls, IsFiniteSet(S), Cardinality(S) < MaxChains, NEW next,
           next = {} \/ \E c \in Calls : next = {c}
    PROVE  /\ S \cup next \subseteq Calls /\ IsFiniteSet(S \cup next)
           /\ Cardinality(S \cup next) <= MaxChains
<1>1. Cardinality(S) \in Nat /\ MaxChains \in Nat
  BY FS_CardinalityType, Limits
<1>2. CASE next = {}
  <2>1. S \cup next = S
    BY <1>2
  <2> QED
    BY <2>1, <1>1
<1>3. ASSUME NEW c \in Calls, next = {c}
      PROVE  /\ S \cup next \subseteq Calls /\ IsFiniteSet(S \cup next)
             /\ Cardinality(S \cup next) <= MaxChains
  <2>1. /\ IsFiniteSet(S \cup {c})
        /\ Cardinality(S \cup {c}) = IF c \in S THEN Cardinality(S) ELSE Cardinality(S) + 1
    BY FS_AddElement
  <2> QED
    BY <2>1, <1>1, <1>3
<1> QED
  BY <1>2, <1>3

LEMMA MinChainTyped ==
    ASSUME NEW todo \in Seq(AllCodes)
    PROVE  MinChain(todo) \in Calls
  BY DEF MinChain, Calls

LEMMA H1ChainTyped == H1Chain \in Calls
  BY DEF H1Chain, Calls

\* What follows a call that has been dealt with is one call at most.
LEMMA AftersTyped ==
    ASSUME NEW call \in Calls, call.kind = "min" => call.todo # <<>>,
           NEW next \in Afters(call)
    PROVE  next = {} \/ \E c \in Calls : next = {c}
<1>1. CASE call.kind = "min"
  <2>1. next = {MinChain(Tail(call.todo))}
    BY <1>1 DEF Afters
  <2>2. call.todo \in Seq(AllCodes) /\ call.todo # <<>>
    BY <1>1 DEF Calls
  <2>3. Tail(call.todo) \in Seq(AllCodes)
    BY <2>2
  <2> QED
    BY <2>1, <2>3, MinChainTyped
<1>2. CASE call.kind # "min"
  <2>1. next \in {{H1Chain}, {}}
    BY <1>2 DEF Afters
  <2> QED
    BY <2>1, H1ChainTyped
<1> QED
  BY <1>1, <1>2

LEMMA InitTyped == Init => Typed
<1> SUFFICES ASSUME Init PROVE Typed
  OBVIOUS
<1>1. rows \in Rankings
  BY DEF Init, Rankings
<1>2. slot \in Plain /\ slot.chain = NoChain
  BY PlainRequests DEF Init, Plain
<1>3. SlotTyped
  <2>1. slot \in [kind : {"free", "top", "min", "h1", "other"},
                  from : {"none", "bg", "pre"}, chain : Calls \cup {NoChain}]
    BY <1>2 DEF Plain
  <2>2. slot.chain.kind # "min"
    BY <1>2 DEF NoChain
  <2> QED
    BY <1>2, <2>1, <2>2 DEF SlotTyped
<1>4. ChainsTyped
  <2>1. chains = {}
    BY DEF Init
  <2>2. IsFiniteSet({}) /\ Cardinality({}) = 0
    BY FS_EmptySet
  <2> QED
    BY <2>1, <2>2, Limits DEF ChainsTyped
<1>5. top \in Seq(AllCodes)
  <2>1. CodesOf(FirstBy(rows, Column(rows, "amount"))) \in Seq(AllCodes)
    <3>1. "late" \in Periods
      BY DEF Periods
    <3> QED
      BY <1>1, <3>1, RankingsRanked, UniversesTyped
  <2> QED
    BY <2>1 DEF Init
<1>6. watched \subseteq AllCodes
  BY <1>5, WatchTyped DEF Init
<1>7. charted \subseteq AllCodes
  BY Limits DEF Init
<1>8. age \in 0..Expiry /\ retry \in 0..Retries
  BY Limits DEF Init
<1> QED
  BY <1>1, <1>3, <1>4, <1>5, <1>6, <1>7, <1>8 DEF Init, Typed

\* The ranking's request: the flag, and the slot taken or not.
LEMMA FetchTyped ==
    ASSUME Typed, NEW caller \in {"bg", "pre"}, _fetch_top_volume_rows(caller),
           chains' = chains
    PROVE  fetching' \in BOOLEAN /\ SlotTyped' /\ ChainsTyped'
<1>1. ChainsTyped'
  BY DEF Typed, ChainsTyped
<1>2. fetching' \in BOOLEAN
  BY DEF _fetch_top_volume_rows, Typed
<1>3. slot' = slot \/ slot' = [Request("top") EXCEPT !.from = caller]
  BY DEF _fetch_top_volume_rows
<1>4. CASE slot' = slot
  BY <1>2, <1>4, SlotAndChainsKept
<1>5. CASE slot' = [Request("top") EXCEPT !.from = caller]
  BY <1>1, <1>2, <1>5, PlainRequests, PlainSlotTyped
<1> QED
  BY <1>3, <1>4, <1>5

LEMMA PeriodsTyped == phase \in Phases => PeriodsOf[phase] \subseteq Periods
  BY DEF Phases, PeriodsOf, Periods

LEMMA PreFilterTyped ==
    ASSUME Typed, NEW r \in Rankings, PreFilterOf(r)
    PROVE  top' \in Seq(AllCodes) /\ watched' \subseteq AllCodes
<1>1. PICK p \in PeriodsOf[phase], s \in Surges :
          LET kept == PreUniverse[<<r, p, s>>]
          IN  IF kept = <<>> THEN UNCHANGED universe
              ELSE top' = kept /\ watched' = ToSet(FirstOf(kept, SubMax))
  BY DEF PreFilterOf
<1>2. PreUniverse[<<r, p, s>>] \in Seq(AllCodes)
  BY PeriodsTyped, UniverseOfScan DEF Typed
<1>3. ToSet(FirstOf(PreUniverse[<<r, p, s>>], SubMax)) \subseteq AllCodes
  BY <1>2, Limits, FirstOfTyped, ToSetTyped
<1> QED
  BY <1>1, <1>2, <1>3 DEF Typed, universe

LEMMA BgFetchTyped ==
    ASSUME Typed, _bg_fetch_opt10030
    PROVE  Typed'
<1>1. chains' = chains
  BY DEF _bg_fetch_opt10030, loading
<1>2. fetching' \in BOOLEAN /\ SlotTyped' /\ ChainsTyped'
  <2>1. CASE fetching
    BY <2>1, <1>1, SlotAndChainsKept DEF _bg_fetch_opt10030, Typed
  <2>2. CASE ~fetching
    BY <2>2, <1>1, FetchTyped DEF _bg_fetch_opt10030
  <2> QED
    BY <2>1, <2>2
<1> QED
  BY <1>2 DEF Typed, _bg_fetch_opt10030, universe, loading

LEMMA PreFilterStepTyped ==
    ASSUME Typed, _run_pre_filter
    PROVE  Typed'
<1>1. chains' = chains
  BY DEF _run_pre_filter, loading
<1>2. fetching' \in BOOLEAN /\ SlotTyped' /\ ChainsTyped'
  BY <1>1, FetchTyped DEF _run_pre_filter
<1>3. top' \in Seq(AllCodes) /\ watched' \subseteq AllCodes
  <2>1. CASE slot' = slot
    <3>1. PreFilterOf(rows)
      BY <2>1 DEF _run_pre_filter
    <3> QED
      BY <3>1, PreFilterTyped DEF Typed
  <2>2. CASE slot' # slot
    BY <2>2 DEF _run_pre_filter, Typed, universe
  <2> QED
    BY <2>1, <2>2
<1> QED
  BY <1>2, <1>3 DEF Typed, _run_pre_filter, loading

LEMMA TopAnsweredTyped ==
    ASSUME Typed, TopAnswered
    PROVE  Typed'
<1>1. PICK answer \in Rankings :
          LET r == IF answer = <<>> THEN rows ELSE answer
          IN  /\ rows' = r
              /\ age' = IF answer = <<>> THEN age ELSE 0
              /\ IF slot.from = "pre" THEN PreFilterOf(r) ELSE UNCHANGED universe
  BY DEF TopAnswered, Rankings
<1> DEFINE r == IF answer = <<>> THEN rows ELSE answer
<1>2. r \in Rankings /\ rows' = r
  BY <1>1 DEF Typed
<1>3. age' \in 0..Expiry
  BY <1>1, Limits DEF Typed
<1>4. IF slot.from = "pre" THEN PreFilterOf(r) ELSE UNCHANGED universe
  BY <1>1
<1> HIDE DEF r
<1>5. top' \in Seq(AllCodes) /\ watched' \subseteq AllCodes
  BY <1>2, <1>4, PreFilterTyped DEF Typed, universe
<1>6. SlotTyped'
  BY PlainRequests, PlainSlotTyped DEF TopAnswered
<1> QED
  BY <1>2, <1>3, <1>5, <1>6 DEF TopAnswered, Typed, ChainsTyped, loading

LEMMA OtherRequestTyped ==
    ASSUME Typed, OtherRequest
    PROVE  Typed'
<1>1. SlotTyped'
  BY PlainRequests, PlainSlotTyped DEF OtherRequest
<1> QED
  BY <1>1 DEF OtherRequest, Typed, ChainsTyped, ranking, universe, loading

\* The universes a scan may find.
LEMMA UniversesOfState ==
    ASSUME Typed, NEW u \in Universes
    PROVE  u \in Seq(AllCodes)
<1>1. CASE rows = <<>> /\ charted # {}
  <2> DEFINE all == SetToSeq(charted)
  <2>1. IsFiniteSet(charted)
    BY Limits, FS_Subset DEF Typed
  <2>2. all \in Seq(charted) /\ charted \subseteq AllCodes
    BY <2>1, SetToSeqTyped DEF Typed
  <2>3. u = FirstOf(all, WatchMax)
    BY <1>1 DEF Universes
  <2> HIDE DEF all
  <2>4. all \in Seq(AllCodes)
    BY <2>2, SeqMonotonic
  <2> QED
    BY <2>3, <2>4, Limits, FirstOfTyped
<1>2. CASE ~(rows = <<>> /\ charted # {})
  <2> DEFINE Triples == _get_top_volume_data \X PeriodsOf[phase] \X Surges
  <2>3. PICK x \in Triples : u = ScanUniverse[x]
    BY <1>2 DEF Universes
  <2>1. PICK r \in _get_top_volume_data, p \in PeriodsOf[phase], s \in Surges :
            x = <<r, p, s>>
    OBVIOUS
  <2>2. r \in Rankings /\ p \in Periods
    BY PeriodsTyped DEF _get_top_volume_data, Typed
  <2> QED
    BY <2>1, <2>2, <2>3, UniverseOfScan
<1> QED
  BY <1>1, <1>2

LEMMA ScanTyped ==
    ASSUME Typed, run_periodic_scan
    PROVE  Typed'
<1>1. PICK scored \in Universes, shown \in {{}, AllCodes} :
          IF scored = <<>>
          THEN /\ UNCHANGED <<universe, chains>>
               /\ cleanup_stale_data(Spared(watched, shown))
          ELSE /\ Scanned(scored)
               /\ cleanup_stale_data(Spared(ToSet(scored), shown))
  BY DEF run_periodic_scan
<1>2. scored \in Seq(AllCodes)
  BY UniversesOfState
<1>3. charted' \subseteq AllCodes
  BY <1>1 DEF cleanup_stale_data, Typed
<1>4. slot' = slot /\ slot = Free /\ Cardinality(chains) < MaxChains
  BY DEF run_periodic_scan
<1>5. SlotTyped'
  BY <1>4, PlainRequests, PlainSlotTyped
<1>6. /\ top' \in Seq(AllCodes) /\ watched' \subseteq AllCodes
      /\ ChainsTyped'
  <2>1. CASE scored = <<>>
    BY <2>1, <1>1 DEF Typed, ChainsTyped, universe
  <2>2. CASE scored # <<>>
    <3> DEFINE need == _ensure_candle_data(scored)
    <3>1. need \in Seq(AllCodes)
      BY <1>2, NeedTyped
    <3>2. /\ top' = scored /\ watched' = Watch(scored)
          /\ chains' \in {chains, chains \cup {MinChain(need)}}
      BY <1>1, <2>2 DEF Scanned
    <3> HIDE DEF need
    <3>3. MinChain(need) \in Calls
      BY <3>1, MinChainTyped
    <3>4. /\ chains \cup {MinChain(need)} \subseteq Calls
          /\ IsFiniteSet(chains \cup {MinChain(need)})
          /\ Cardinality(chains \cup {MinChain(need)}) <= MaxChains
      BY <3>3, <1>4, Added DEF Typed, ChainsTyped
    <3>5. ChainsTyped'
      BY <3>2, <3>4 DEF Typed, ChainsTyped
    <3> QED
      BY <1>2, <3>2, <3>5, WatchTyped
  <2> QED
    BY <2>1, <2>2
<1> QED
  BY <1>3, <1>5, <1>6 DEF run_periodic_scan, Typed, ranking

LEMMA LoopTyped ==
    ASSUME Typed, _realtime_loop
    PROVE  Typed'
<1>1. SlotTyped' /\ ChainsTyped'
  BY SlotAndChainsKept DEF _realtime_loop, loading
<1>2. charted' \subseteq AllCodes
  BY DEF _realtime_loop, cleanup_stale_data, Typed
<1> QED
  BY <1>1, <1>2 DEF _realtime_loop, Typed, ranking, universe, loading

\* A call that runs.
LEMMA CallTyped ==
    ASSUME Typed, NEW call \in chains
    PROVE  call \in Calls
  BY DEF Typed, ChainsTyped

\* A call that gives way to what follows it.
LEMMA SchedulesTyped ==
    ASSUME Typed, NEW call \in chains, NEW nexts, Schedules(call, nexts),
           \A next \in nexts : next = {} \/ \E c \in Calls : next = {c}
    PROVE  SlotTyped' /\ ChainsTyped'
<1>1. PICK next \in nexts : chains' = (chains \ {call}) \cup next
  BY DEF Schedules
<1>2. slot' = slot
  BY DEF Schedules
<1>3. chains \subseteq Calls /\ IsFiniteSet(chains)
  BY DEF Typed, ChainsTyped
<1>4. next = {} \/ \E c \in Calls : next = {c}
  OBVIOUS
<1>5. chains' \subseteq Calls /\ IsFiniteSet(chains') /\ Cardinality(chains') <= Cardinality(chains)
  BY <1>1, <1>3, <1>4, Replaced
<1> QED
  BY <1>2, <1>5, KeptSlotTyped

\* A call that asks for its chart leaves its room to the answer.
LEMMA AsksTyped ==
    ASSUME Typed, NEW call \in chains, Asks(call), call.kind = "min" => call.todo # <<>>
    PROVE  SlotTyped' /\ ChainsTyped'
<1>1. call \in Calls
  BY CallTyped
<1>2. slot' \in [kind : {"free", "top", "min", "h1", "other"},
                 from : {"none", "bg", "pre"}, chain : Calls \cup {NoChain}]
      /\ slot'.chain = call
  BY <1>1 DEF Asks, Calls
<1>3. /\ chains' \subseteq Calls /\ IsFiniteSet(chains')
      /\ Cardinality(chains') = Cardinality(chains) - 1
  <2>1. IsFiniteSet(chains) /\ chains \subseteq Calls
    BY DEF Typed, ChainsTyped
  <2> QED
    BY <2>1, FS_RemoveElement DEF Asks
<1>4. Cardinality(chains) \in Nat /\ Cardinality(chains) <= MaxChains /\ MaxChains \in Nat
  BY FS_CardinalityType, Limits DEF Typed, ChainsTyped
<1>5. Cardinality(chains') < MaxChains
  BY <1>3, <1>4
<1>6. ChainsTyped'
  BY <1>3, <1>4 DEF ChainsTyped
<1>7. slot'.chain.kind = "min" => slot'.chain.todo # <<>>
  BY <1>2
<1> QED
  BY <1>2, <1>5, <1>6, <1>7 DEF SlotTyped

\* A step of a chain that may write the retry count and the mark of the first load.
LEMMA ChainStepTyped ==
    ASSUME Typed, SlotTyped', ChainsTyped', retry' \in 0..Retries, loadDone' \in BOOLEAN,
           ChainUnchanged
    PROVE  Typed'
  BY DEF Typed, ChainUnchanged, ranking, universe

LEMMA LoadEndsTyped ==
    ASSUME Typed, NEW call \in chains, LoadEnds(call)
    PROVE  Typed'
<1>1. /\ Schedules(call, {{}}) \/ Schedules(call, {{H1Chain}})
      /\ retry' = retry /\ loadDone' \in BOOLEAN /\ ChainUnchanged
  BY DEF LoadEnds, Typed
<1>2. SlotTyped' /\ ChainsTyped'
  <2>1. CASE Schedules(call, {{}})
    BY <2>1, SchedulesTyped
  <2>2. CASE Schedules(call, {{H1Chain}})
    BY <2>2, SchedulesTyped, H1ChainTyped
  <2> QED
    BY <1>1, <2>1, <2>2
<1> QED
  BY <1>1, <1>2, ChainStepTyped DEF Typed

LEMMA LoadBusyTyped ==
    ASSUME Typed, NEW call \in chains, LoadBusy(call)
    PROVE  Typed'
<1>1. call \in Calls /\ call.todo # <<>>
  BY CallTyped DEF LoadBusy, Loading
<1>2. retry' \in 0..Retries /\ loadDone' \in BOOLEAN /\ ChainUnchanged
  BY Limits DEF LoadBusy, Typed
<1>3. SlotTyped' /\ ChainsTyped'
  <2>1. CASE UNCHANGED <<chains, slot>>
    BY <2>1, SlotAndChainsKept
  <2>2. CASE Schedules(call, Afters(call))
    BY <2>2, <1>1, AftersTyped, SchedulesTyped
  <2> QED
    BY <2>1, <2>2 DEF LoadBusy
<1> QED
  BY <1>2, <1>3, ChainStepTyped

LEMMA LoadSkipsTyped ==
    ASSUME Typed, NEW call \in chains, LoadSkips(call)
    PROVE  Typed'
<1>1. call \in Calls /\ call.todo # <<>>
  BY CallTyped DEF LoadSkips, Loading
<1>2. retry' \in 0..Retries /\ loadDone' \in BOOLEAN /\ ChainUnchanged
  BY Limits DEF LoadSkips, Typed
<1>3. SlotTyped' /\ ChainsTyped'
  BY <1>1, AftersTyped, SchedulesTyped DEF LoadSkips
<1> QED
  BY <1>2, <1>3, ChainStepTyped

LEMMA LoadAsksTyped ==
    ASSUME Typed, NEW call \in chains, LoadAsks(call)
    PROVE  Typed'
<1>1. call.todo # <<>>
  BY DEF LoadAsks, Loading
<1>2. retry' \in 0..Retries /\ loadDone' \in BOOLEAN /\ ChainUnchanged
  BY Limits DEF LoadAsks, Typed
<1>3. SlotTyped' /\ ChainsTyped'
  <2>1. CASE Asks(call)
    BY <2>1, <1>1, AsksTyped
  <2>2. CASE Schedules(call, {{}})
    BY <2>2, SchedulesTyped
  <2> QED
    BY <2>1, <2>2 DEF LoadAsks
<1> QED
  BY <1>2, <1>3, ChainStepTyped

LEMMA H1Typed ==
    ASSUME Typed, NEW call \in chains, _load_h1_candles_async(call)
    PROVE  Typed'
<1>1. call.kind = "h1" /\ retry' \in 0..Retries /\ loadDone' \in BOOLEAN /\ ChainUnchanged
  BY DEF _load_h1_candles_async, Typed
<1>2. SlotTyped' /\ ChainsTyped'
  <2>1. CASE Asks(call)
    BY <2>1, <1>1, AsksTyped
  <2>2. CASE Schedules(call, {{}})
    BY <2>2, SchedulesTyped
  <2> QED
    BY <2>1, <2>2 DEF _load_h1_candles_async
<1> QED
  BY <1>1, <1>2, ChainStepTyped

LEMMA ChartAnsweredTyped ==
    ASSUME Typed, ChartAnswered
    PROVE  Typed'
<1>1. slot.chain \in Calls /\ (slot.chain.kind = "min" => slot.chain.todo # <<>>)
      /\ Cardinality(chains) < MaxChains
  BY DEF ChartAnswered, Typed, SlotTyped
<1>2. PICK next \in Afters(slot.chain) : chains' = chains \cup next
  BY DEF ChartAnswered
<1>3. next = {} \/ \E c \in Calls : next = {c}
  BY <1>1, AftersTyped
<1>4. ChainsTyped'
  <2>1. chains \subseteq Calls /\ IsFiniteSet(chains)
    BY DEF Typed, ChainsTyped
  <2>2. /\ chains' \subseteq Calls /\ IsFiniteSet(chains')
        /\ Cardinality(chains') <= MaxChains
    BY <2>1, <1>1, <1>2, <1>3, Added
  <2> QED
    BY <2>2 DEF ChainsTyped
<1>5. SlotTyped'
  BY PlainRequests, PlainSlotTyped DEF ChartAnswered
<1>6. charted' \subseteq AllCodes
  BY Limits DEF ChartAnswered, Typed
<1> QED
  BY <1>4, <1>5, <1>6 DEF ChartAnswered, Typed, ranking, universe

LEMMA TimeTyped ==
    ASSUME Typed, Minute \/ Later
    PROVE  Typed'
<1>1. SlotTyped' /\ ChainsTyped'
  BY SlotAndChainsKept DEF Minute, Later, loading
<1>2. age' \in 0..Expiry
  BY Limits DEF Minute, Later, Stale, Typed, ranking
<1>3. phase' \in Phases
  BY DEF Minute, Later, Phases, Typed
<1> QED
  BY <1>1, <1>2, <1>3 DEF Minute, Later, Typed, ranking, universe, loading

LEMMA StepTyped == Typed /\ [Next]_vars => Typed'
<1> SUFFICES ASSUME Typed, [Next]_vars PROVE Typed'
  OBVIOUS
<1>1. CASE _bg_fetch_opt10030
  BY <1>1, BgFetchTyped
<1>2. CASE _run_pre_filter
  BY <1>2, PreFilterStepTyped
<1>3. CASE TopAnswered
  BY <1>3, TopAnsweredTyped
<1>4. CASE OtherRequest
  BY <1>4, OtherRequestTyped
<1>5. CASE run_periodic_scan
  BY <1>5, ScanTyped
<1>6. CASE _realtime_loop
  BY <1>6, LoopTyped
<1>7. ASSUME NEW call \in chains, _load_candles_async(call)
      PROVE  Typed'
  BY <1>7, LoadEndsTyped, LoadBusyTyped, LoadSkipsTyped, LoadAsksTyped
     DEF _load_candles_async
<1>8. ASSUME NEW call \in chains, _load_h1_candles_async(call)
      PROVE  Typed'
  BY <1>8, H1Typed
<1>9. CASE ChartAnswered
  BY <1>9, ChartAnsweredTyped
<1>10. CASE Minute \/ Later
  BY <1>10, TimeTyped
<1>11. CASE UNCHANGED vars
  <2>1. SlotTyped' /\ ChainsTyped'
    BY <1>11, SlotAndChainsKept DEF vars
  <2> QED
    BY <1>11, <2>1 DEF vars, Typed
<1> QED
  BY <1>1, <1>2, <1>3, <1>4, <1>5, <1>6, <1>7, <1>8, <1>9, <1>10, <1>11 DEF Next

-----------------------------------------------------------------------------
(***************************************************************************)
(* The theorems.                                                           *)
(***************************************************************************)
\* The state keeps its types, the bound of the chains included: a call that waits
\* for its chart and a scan that starts another chain never exceed it
\* (smart_scanner.py 2125-2246).
THEOREM TypeCorrect == Spec => []TypeOK
<1>1. Init => Typed
  BY InitTyped
<1>2. Typed /\ [Next]_vars => Typed'
  BY StepTyped
<1>3. Typed => TypeOK
  BY TypedSuffices
<1> QED
  BY <1>1, <1>2, <1>3, PTL DEF Spec

\* Whatever rankings the broker answers with and whatever the limits are, a share
\* is not left out of the universe for one that it beats in amount, change, pace
\* and yesterday's volume (universe.py 118-216).
THEOREM BetterRowKept == Spec => []BetterRowFirst
<1>1. Init => Typed
  BY InitTyped
<1>2. Typed /\ [Next]_vars => Typed'
  BY StepTyped
<1>3. Typed => BetterRowFirst
  BY TypedKeepsBetter
<1> QED
  BY <1>1, <1>2, <1>3, PTL DEF Spec
=============================================================================
