--------------------------- MODULE InsertManyProofs ---------------------------
(***************************************************************************)
(* Which series a group counts.  Lemmas on the arrangement of sequences,   *)
(* then what prepare and newEstimator make of any group_by, then the       *)
(* inductive invariant, that a group holds exactly what insertMany gave to *)
(* its key, and the theorems that follow from the lengths of the keys.     *)
(***************************************************************************)
EXTENDS InsertMany, FiniteSetTheorems, SequenceTheorems, TLAPS

-----------------------------------------------------------------------------
(* Arranged and Selected *)

\* There are n numbers from 1 to n.
LEMMA UpToFinite ==
  ASSUME NEW n \in Nat
  PROVE  IsFiniteSet(1 .. n) /\ Cardinality(1 .. n) = n
  <1>1. 1 \in Int /\ n \in Int
    OBVIOUS
  <1>2. IsFiniteSet(1 .. n) /\ Cardinality(1 .. n) = IF 1 > n THEN 0 ELSE n - 1 + 1
    BY ONLY <1>1, FS_Interval
  <1> QED BY <1>2

\* The indices of a sequence are finitely many integers.
LEMMA IndicesFinite ==
  ASSUME NEW S, NEW s \in Seq(S), NEW I \in SUBSET DOMAIN s
  PROVE  /\ DOMAIN s = 1 .. Len(s) /\ Len(s) \in Nat
         /\ I \in SUBSET Nat
         /\ IsFiniteSet(I) /\ Cardinality(I) \in Nat /\ Cardinality(I) <= Len(s)
         /\ Cardinality(I) = Len(s) => I = DOMAIN s
  <1>1. DOMAIN s = 1 .. Len(s) /\ Len(s) \in Nat
    OBVIOUS
  <1>2. IsFiniteSet(1 .. Len(s)) /\ Cardinality(1 .. Len(s)) = Len(s)
    BY <1>1, UpToFinite
  <1>3. IsFiniteSet(I) /\ Cardinality(I) <= Len(s)
        /\ (Cardinality(I) = Len(s) => I = DOMAIN s)
    BY <1>1, <1>2, FS_Subset
  <1>4. Cardinality(I) \in Nat
    BY <1>3, FS_CardinalityType
  <1> QED BY <1>1, <1>3, <1>4

\* The indices that are not after index i.
UpTo(I, w, i) == {j \in I : w[j] < w[i] \/ (w[j] = w[i] /\ j <= i)}

\* The indices not after one of two indices include those not after the other.
LEMMA UpToOrder ==
  ASSUME NEW I \in SUBSET Nat, NEW w \in [I -> Int]
  PROVE  /\ \A i \in I : UpTo(I, w, i) \in SUBSET I /\ i \in UpTo(I, w, i)
         /\ \A i, k \in I : i \in UpTo(I, w, k) \/ k \in UpTo(I, w, i)
         /\ \A i, k \in I : i \in UpTo(I, w, k) => UpTo(I, w, i) \subseteq UpTo(I, w, k)
         /\ \A i, k \in I : i \in UpTo(I, w, k) /\ k \in UpTo(I, w, i) => i = k
  <1>1. \A i, k, j \in I :
          i \in UpTo(I, w, k) /\ j \in UpTo(I, w, i) => j \in UpTo(I, w, k)
    BY DEF UpTo
  <1>2. \A i \in I : UpTo(I, w, i) \in SUBSET I /\ i \in UpTo(I, w, i)
    BY DEF UpTo
  <1>3. \A i, k \in I : i \in UpTo(I, w, k) \/ k \in UpTo(I, w, i)
    BY DEF UpTo
  <1>4. \A i, k \in I : i \in UpTo(I, w, k) /\ k \in UpTo(I, w, i) => i = k
    BY DEF UpTo
  <1> QED BY <1>1, <1>2, <1>3, <1>4

\* Ranks are the numbers from 1 to the number of indices, each the rank of one
\* index: ranks differ because the indices not after one of two are a strict part
\* of those not after the other, and as many different ranks as indices leave no
\* rank out.
LEMMA Ranks ==
  ASSUME NEW I \in SUBSET Nat, IsFiniteSet(I), NEW w \in [I -> Int]
  PROVE  /\ \A i \in I : Cardinality(UpTo(I, w, i)) \in 1 .. Cardinality(I)
         /\ \A i, k \in I :
              Cardinality(UpTo(I, w, i)) = Cardinality(UpTo(I, w, k)) => i = k
         /\ \A r \in 1 .. Cardinality(I) :
              \E i \in I : Cardinality(UpTo(I, w, i)) = r
  <1> DEFINE upTo(i) == UpTo(I, w, i)
             n == Cardinality(I)
             rank == [i \in I |-> Cardinality(upTo(i))]
  <1>0. n \in Nat
    BY FS_CardinalityType
  <1>1. \A i \in I : IsFiniteSet(upTo(i)) /\ Cardinality(upTo(i)) \in 1 .. n
    <2> TAKE i \in I
    <2>1. upTo(i) \in SUBSET I /\ i \in upTo(i)
      BY UpToOrder
    <2>2. IsFiniteSet(upTo(i)) /\ Cardinality(upTo(i)) <= n
      BY <2>1, FS_Subset
    <2>3. Cardinality(upTo(i)) \in Nat /\ Cardinality(upTo(i)) # 0
      BY <2>1, <2>2, FS_CardinalityType, FS_EmptySet
    <2> QED BY <1>0, <2>1, <2>2, <2>3
  <1>2. \A i, k \in I : i \in upTo(k) /\ rank[i] = rank[k] => i = k
    <2> SUFFICES ASSUME NEW i \in I, NEW k \in I, i \in upTo(k), rank[i] = rank[k]
                 PROVE  i = k
      OBVIOUS
    <2>1. upTo(i) \in SUBSET upTo(k) /\ IsFiniteSet(upTo(k))
      BY <1>1, UpToOrder
    <2>2. Cardinality(upTo(k)) = Cardinality(upTo(i))
      OBVIOUS
    <2>3. upTo(k) = upTo(i)
      BY <2>1, <2>2, FS_Subset
    <2> QED BY <2>3, UpToOrder
  <1>3. \A i, k \in I : rank[i] = rank[k] => i = k
    BY <1>2, UpToOrder
  <1>4. rank \in [I -> 1 .. n]
    BY <1>1
  <1>5. rank \in Injection(I, 1 .. n)
    <2> HIDE DEF rank
    <2> QED BY <1>3, <1>4 DEF Injection, IsInjective
  <1>6. IsFiniteSet(1 .. n) /\ Cardinality(1 .. n) = n
    BY <1>0, UpToFinite
  <1>7. rank \in Surjection(I, 1 .. n)
    BY <1>5, <1>6, FS_Injection
  <1>8. \A r \in 1 .. n : \E i \in I : rank[i] = r
    BY <1>7 DEF Surjection
  <1> QED BY <1>1, <1>3, <1>8

\* Arranging moves entries and loses none: the result has one entry for each
\* index, and the values at the indices are its values.
LEMMA ArrangedFacts ==
  ASSUME NEW S, NEW s \in Seq(S), NEW I \in SUBSET DOMAIN s, NEW w \in [I -> Int]
  PROVE  /\ Arranged(s, I, w) \in Seq(S)
         /\ Len(Arranged(s, I, w)) = Cardinality(I)
         /\ DOMAIN Arranged(s, I, w) = 1 .. Cardinality(I)
         /\ Range(Arranged(s, I, w)) = {s[i] : i \in I}
  <1> DEFINE n == Cardinality(I)
             at(r) == CHOOSE i \in I : Cardinality(UpTo(I, w, i)) = r
             t == [r \in 1 .. n |-> s[at(r)]]
  <1>1. I \in SUBSET Nat /\ IsFiniteSet(I) /\ n \in Nat
    BY IndicesFinite
  <1>2. \A r \in 1 .. n : at(r) \in I /\ Cardinality(UpTo(I, w, at(r))) = r
    BY <1>1, Ranks
  <1>3. \A i \in I : \E r \in 1 .. n : at(r) = i
    <2> TAKE i \in I
    <2>1. Cardinality(UpTo(I, w, i)) \in 1 .. n
      BY <1>1, Ranks
    <2>2. at(Cardinality(UpTo(I, w, i))) = i
      <3> DEFINE r == Cardinality(UpTo(I, w, i))
      <3>1. at(r) \in I /\ Cardinality(UpTo(I, w, at(r))) = r
        BY <1>2, <2>1
      <3> HIDE DEF at
      <3> QED BY <1>1, <3>1, Ranks
    <2> QED BY <2>1, <2>2
  <1>4. Arranged(s, I, w) = t
    BY DEF Arranged, UpTo
  <1> HIDE DEF at
  <1>5. t \in [1 .. n -> S] /\ DOMAIN t = 1 .. n
    BY <1>2
  <1>6. t \in Seq(S) /\ Len(t) = n
    BY <1>1, <1>5
  <1>7. Range(t) = {s[i] : i \in I}
    BY <1>2, <1>3 DEF Range
  <1> QED BY <1>4, <1>5, <1>6, <1>7

\* Arranging puts entries in the order of their weights: a greater rank is not
\* among the indices up to a smaller one.
LEMMA ArrangedInOrder ==
  ASSUME NEW S, NEW s \in Seq(S), NEW I \in SUBSET DOMAIN s, NEW w \in [I -> Int],
         NEW q \in 1 .. Cardinality(I), NEW r \in 1 .. Cardinality(I), q < r
  PROVE  \E i, k \in I : /\ Arranged(s, I, w)[q] = s[i]
                         /\ Arranged(s, I, w)[r] = s[k]
                         /\ i # k /\ w[i] <= w[k]
  <1> DEFINE n == Cardinality(I)
             at(p) == CHOOSE i \in I : Cardinality(UpTo(I, w, i)) = p
  <1>1. I \in SUBSET Nat /\ IsFiniteSet(I) /\ n \in Nat
    BY IndicesFinite
  <1>2. \A p \in 1 .. n : at(p) \in I /\ Cardinality(UpTo(I, w, at(p))) = p
    BY <1>1, Ranks
  <1>3. Arranged(s, I, w) = [p \in 1 .. n |-> s[at(p)]]
    BY DEF Arranged, UpTo
  <1> HIDE DEF at
  <1>4. PICK i \in I : i = at(q) /\ Cardinality(UpTo(I, w, i)) = q
    BY <1>2
  <1>5. PICK k \in I : k = at(r) /\ Cardinality(UpTo(I, w, k)) = r
    BY <1>2
  <1>6. k \notin UpTo(I, w, i)
    <2> SUFFICES ASSUME k \in UpTo(I, w, i) PROVE FALSE
      OBVIOUS
    <2>1. UpTo(I, w, k) \in SUBSET UpTo(I, w, i) /\ UpTo(I, w, i) \in SUBSET I
      BY <1>1, UpToOrder
    <2>2. IsFiniteSet(UpTo(I, w, i))
      BY <1>1, <2>1, FS_Subset
    <2>3. Cardinality(UpTo(I, w, k)) <= Cardinality(UpTo(I, w, i))
      BY <2>1, <2>2, FS_Subset
    <2> QED BY <1>1, <1>4, <1>5, <2>3
  <1>7. i # k /\ w[i] <= w[k]
    BY <1>1, <1>4, <1>5, <1>6 DEF UpTo
  <1> QED BY <1>3, <1>4, <1>5, <1>7

\* Selecting every entry of a sequence gives the sequence.
LEMMA SelectedAll ==
  ASSUME NEW S, NEW s \in Seq(S)
  PROVE  Selected(s, DOMAIN s) = s
  <1> DEFINE I == DOMAIN s
             w == [i \in I |-> i]
  <1>1. I = 1 .. Len(s) /\ Len(s) \in Nat
    OBVIOUS
  <1>2. Cardinality(I) = Len(s)
    BY <1>1, UpToFinite
  <1>3. \A i \in I : UpTo(I, w, i) = 1 .. i
    BY <1>1 DEF UpTo
  <1>4. \A i \in I : Cardinality(UpTo(I, w, i)) = i
    <2> TAKE i \in I
    <2>1. i \in Nat
      BY <1>1
    <2> HIDE DEF I, w
    <2> QED BY <1>3, <2>1, UpToFinite
  <1>5. \A r \in I : (CHOOSE i \in I : Cardinality(UpTo(I, w, i)) = r) = r
    <2> HIDE DEF I, w
    <2> QED BY <1>4
  <1>6. Selected(s, I) = [r \in 1 .. Cardinality(I) |->
                            s[CHOOSE i \in I : Cardinality(UpTo(I, w, i)) = r]]
    BY DEF Selected, Arranged, UpTo
  <1>7. Selected(s, I) = [r \in I |-> s[r]]
    <2> HIDE DEF w
    <2> QED BY <1>1, <1>2, <1>5, <1>6
  <1> QED BY <1>7

\* Selecting keeps the values at the indices.
LEMMA SelectedFacts ==
  ASSUME NEW S, NEW s \in Seq(S), NEW I \in SUBSET DOMAIN s
  PROVE  /\ Selected(s, I) \in Seq(S)
         /\ Len(Selected(s, I)) = Cardinality(I)
         /\ Range(Selected(s, I)) = {s[i] : i \in I}
  <1> DEFINE w == [i \in I |-> i]
  <1>1. w \in [I -> Int]
    BY IndicesFinite
  <1>2. Selected(s, I) = Arranged(s, I, w)
    BY DEF Selected
  <1> HIDE DEF w
  <1> QED BY <1>1, <1>2, ArrangedFacts

-----------------------------------------------------------------------------
(* prepare and newEstimator *)

\* Sorting keeps the values, and puts them in order.
LEMMA SortedFacts ==
  ASSUME NEW s \in Seq(Names \cup {labelKeyword})
  PROVE  /\ Sorted(s) \in Seq(Names \cup {labelKeyword})
         /\ Range(Sorted(s)) = Range(s)
         /\ \A q, r \in DOMAIN Sorted(s) :
              q < r => Position(Sorted(s)[q]) <= Position(Sorted(s)[r])
  <1> DEFINE L == Names \cup {labelKeyword}
             w == [i \in DOMAIN s |-> Position(s[i])]
  <1>1. \A n \in L : Position(n) \in DOMAIN Alphabet
    <2>1. \A n \in L : \E p \in DOMAIN Alphabet : Alphabet[p] = n
      BY InsertAssumption DEF Range
    <2> QED BY <2>1 DEF Position
  <1>2. DOMAIN Alphabet \subseteq Int
    BY InsertAssumption
  <1>3. \A i \in DOMAIN s : s[i] \in L
    OBVIOUS
  <1>4. w \in [DOMAIN s -> Int]
    BY <1>1, <1>2, <1>3
  <1>5. Sorted(s) = Arranged(s, DOMAIN s, w)
    BY DEF Sorted
  <1>6. DOMAIN s \in SUBSET DOMAIN s
    OBVIOUS
  <1>7. Sorted(s) \in Seq(L) /\ Range(Sorted(s)) = {s[i] : i \in DOMAIN s}
    <2> HIDE DEF w, L
    <2>1. s \in Seq(L)
      BY DEF L
    <2> QED BY <1>4, <1>5, <1>6, <2>1, ArrangedFacts
  <1>8. ASSUME NEW q \in DOMAIN Sorted(s), NEW r \in DOMAIN Sorted(s), q < r
        PROVE  Position(Sorted(s)[q]) <= Position(Sorted(s)[r])
    <2>1. \A i \in DOMAIN s : w[i] = Position(s[i])
      OBVIOUS
    <2> HIDE DEF w, L
    <2>2. s \in Seq(L)
      BY DEF L
    <2>3. DOMAIN Sorted(s) = 1 .. Cardinality(DOMAIN s)
      BY <1>4, <1>5, <1>6, <2>2, ArrangedFacts
    <2>4. PICK i, k \in DOMAIN s :
            Sorted(s)[q] = s[i] /\ Sorted(s)[r] = s[k] /\ w[i] <= w[k]
      <3>1. q \in 1 .. Cardinality(DOMAIN s) /\ r \in 1 .. Cardinality(DOMAIN s) /\ q < r
        BY <1>8, <2>3
      <3> QED BY ONLY <1>4, <1>5, <1>6, <2>2, <3>1, ArrangedInOrder
    <2> QED BY <2>1, <2>4
  <1> QED BY <1>7, <1>8 DEF Range

\* What prepare and newEstimator make of any group_by: the explicit labels are
\* those of group_by, and __label__ is found wherever it stood.
LEMMA EstimatorFacts ==
  ASSUME NEW s \in Streams
  PROVE  /\ newEstimator(s).groupBy \in Seq(Names)
         /\ Range(newEstimator(s).groupBy) = Range(s.group_by) \ {labelKeyword}
         /\ newEstimator(s).hasLabelKeyword <=> labelKeyword \in Range(s.group_by)
         /\ newEstimator(s).compiledFilter = s.compiledFilter
         /\ newEstimator(s).groupBy =
              Selected(Sorted(s.group_by),
                {i \in DOMAIN Sorted(s.group_by) : Sorted(s.group_by)[i] # labelKeyword})
  <1> DEFINE L == Names \cup {labelKeyword}
             sorted == Sorted(s.group_by)
             I == {i \in DOMAIN sorted : sorted[i] # labelKeyword}
             new == Selected(sorted, I)
             g == prepared(s.group_by)
             label == labelKeyword \in Range(s.group_by)
             found == g # << >> /\ g[Len(g)] = labelKeyword
  <1>1. sorted \in Seq(L) /\ Range(sorted) = Range(s.group_by)
    BY InsertAssumption, SortedFacts
  <1>2. g = IF label THEN Append(new, labelKeyword) ELSE new
    BY DEF prepared
  <1>3. newEstimator(s) = [groupBy |-> IF found THEN SubSeq(g, 1, Len(g) - 1) ELSE g,
                           hasLabelKeyword |-> found,
                           compiledFilter |-> s.compiledFilter]
    BY DEF newEstimator
  <1> HIDE DEF g, label, sorted, L
  <1>4. I \in SUBSET DOMAIN sorted
    OBVIOUS
  <1>5. new \in Seq(L) /\ Range(new) = {sorted[i] : i \in I}
    BY <1>1, <1>4, SelectedFacts
  <1>6. {sorted[i] : i \in I} = Range(s.group_by) \ {labelKeyword}
    BY <1>1 DEF Range
  <1> HIDE DEF new, I
  <1>7. \A i \in DOMAIN new : new[i] \in Names /\ new[i] # labelKeyword
    <2>1. \A i \in DOMAIN new : new[i] \in Range(new)
      BY DEF Range
    <2>2. \A i \in DOMAIN new : new[i] \in L
      BY <1>5
    <2> QED BY <1>5, <1>6, <2>1, <2>2 DEF L
  <1>8. new \in Seq(Names)
    BY <1>5, <1>7
  <1>9. (found <=> label) /\ (found => SubSeq(g, 1, Len(g) - 1) = new) /\ (~ found => g = new)
    <2>1. CASE label
      <3>1. g = Append(new, labelKeyword)
        BY <1>2, <2>1
      <3>2. g # << >> /\ Len(g) = Len(new) + 1 /\ g[Len(g)] = labelKeyword
        BY <1>5, <3>1
      <3>3. SubSeq(g, 1, Len(g) - 1) = new
        BY <1>5, <3>1, <3>2
      <3> QED BY <2>1, <3>2, <3>3
    <2>2. CASE ~ label
      <3>1. g = new
        BY <1>2, <2>2
      <3>2. g # << >> => Len(g) \in DOMAIN new
        BY <1>5, <3>1
      <3> QED BY <1>7, <2>2, <3>1, <3>2
    <2> QED BY <2>1, <2>2
  <1>10. /\ newEstimator(s).groupBy = IF found THEN SubSeq(g, 1, Len(g) - 1) ELSE g
         /\ newEstimator(s).hasLabelKeyword = found
         /\ newEstimator(s).compiledFilter = s.compiledFilter
    <2> HIDE DEF found
    <2> QED BY <1>3
  <1>11. newEstimator(s).groupBy = new
    <2> HIDE DEF found
    <2> QED BY <1>9, <1>10
  <1>12. newEstimator(s).hasLabelKeyword <=> label
    <2>1. found \in BOOLEAN
      OBVIOUS
    <2> HIDE DEF found
    <2> QED BY <1>9, <1>10, <2>1, Zenon
  <1> QED BY <1>5, <1>6, <1>8, <1>10, <1>11, <1>12 DEF label, new, I, sorted

\* Selecting keeps the order of the entries.
LEMMA SelectedInOrder ==
  ASSUME NEW S, NEW s \in Seq(S), NEW I \in SUBSET DOMAIN s,
         NEW q \in DOMAIN Selected(s, I), NEW r \in DOMAIN Selected(s, I), q < r
  PROVE  \E i, k \in I : i < k /\ Selected(s, I)[q] = s[i] /\ Selected(s, I)[r] = s[k]
  <1> DEFINE w == [i \in I |-> i]
  <1>1. w \in [I -> Int] /\ I \in SUBSET Nat /\ \A i \in I : w[i] = i
    BY IndicesFinite
  <1>2. Selected(s, I) = Arranged(s, I, w)
    BY DEF Selected
  <1> HIDE DEF w
  <1>3. DOMAIN Selected(s, I) = 1 .. Cardinality(I)
    BY <1>1, <1>2, ArrangedFacts
  <1>4. PICK i, k \in I : /\ Arranged(s, I, w)[q] = s[i]
                         /\ Arranged(s, I, w)[r] = s[k]
                         /\ i # k /\ w[i] <= w[k]
    BY <1>1, <1>3, ArrangedInOrder
  <1> QED BY <1>1, <1>2, <1>4

\* The labels of an estimator, of which the id of its stream and the keys of its
\* groups are made, are in the order of strings whatever their order in the file.
THEOREM GroupByInOrder ==
  ASSUME NEW s \in Streams,
         NEW q \in DOMAIN newEstimator(s).groupBy,
         NEW r \in DOMAIN newEstimator(s).groupBy, q < r
  PROVE  Position(newEstimator(s).groupBy[q]) <= Position(newEstimator(s).groupBy[r])
  <1> DEFINE sorted == Sorted(s.group_by)
             I == {i \in DOMAIN sorted : sorted[i] # labelKeyword}
  <1>1. /\ sorted \in Seq(Names \cup {labelKeyword})
        /\ \A i, k \in DOMAIN sorted : i < k => Position(sorted[i]) <= Position(sorted[k])
    BY InsertAssumption, SortedFacts
  <1>2. newEstimator(s).groupBy = Selected(sorted, I) /\ I \in SUBSET DOMAIN sorted
    BY EstimatorFacts
  <1> HIDE DEF sorted, I
  <1>3. PICK i, k \in I : /\ i < k
                         /\ Selected(sorted, I)[q] = sorted[i]
                         /\ Selected(sorted, I)[r] = sorted[k]
    BY <1>1, <1>2, SelectedInOrder
  <1> QED BY <1>1, <1>2, <1>3

\* The entries of s before place m in the order of strings.
Below(s, m) == {j \in DOMAIN s : Position(s[j]) < m}

\* A name's place is an integer, and different names have different places.
LEMMA PositionFacts ==
  /\ \A n \in Names \cup {labelKeyword} : Position(n) \in Int
  /\ \A m, n \in Names \cup {labelKeyword} : Position(m) = Position(n) => m = n
  <1> DEFINE L == Names \cup {labelKeyword}
  <1>1. \A n \in L : \E p \in DOMAIN Alphabet : Alphabet[p] = n
    BY InsertAssumption DEF Range
  <1>2. \A n \in L : Position(n) \in DOMAIN Alphabet /\ Alphabet[Position(n)] = n
    BY <1>1 DEF Position
  <1>3. DOMAIN Alphabet \subseteq Int
    BY InsertAssumption
  <1> QED BY <1>2, <1>3

\* The r-th entry of the sorted sequence: fewer than r entries are before it, and
\* at least r are not after it.
LEMMA SortedAt ==
  ASSUME NEW s \in Seq(Names \cup {labelKeyword}), NEW r \in 1 .. Len(s)
  PROVE  LET n == Sorted(s)[r] IN
         /\ n \in Names \cup {labelKeyword}
         /\ Cardinality(Below(s, Position(n))) < r
         /\ r <= Cardinality(Below(s, Position(n) + 1))
  <1> DEFINE L == Names \cup {labelKeyword}
             I == DOMAIN s
             w == [i \in I |-> Position(s[i])]
             at(q) == CHOOSE i \in I : Cardinality(UpTo(I, w, i)) = q
  <1>1. /\ I \in SUBSET Nat /\ IsFiniteSet(I) /\ Cardinality(I) = Len(s) /\ Len(s) \in Nat
        /\ \A i \in I : s[i] \in L
    <2>1. I = 1 .. Len(s) /\ Len(s) \in Nat
      OBVIOUS
    <2>2. IsFiniteSet(I) /\ Cardinality(I) = Len(s)
      BY <2>1, UpToFinite
    <2> QED BY <2>1, <2>2
  <1>2. w \in [I -> Int] /\ \A i \in I : w[i] = Position(s[i]) /\ w[i] \in Int
    BY <1>1, PositionFacts
  <1>3. Sorted(s) = [q \in 1 .. Cardinality(I) |-> s[at(q)]]
    BY DEF Sorted, Arranged, UpTo
  <1> HIDE DEF w, I
  <1>4. at(r) \in I /\ Cardinality(UpTo(I, w, at(r))) = r
    BY <1>1, <1>2, Ranks
  <1> HIDE DEF at
  <1>5. PICK i \in I : Sorted(s)[r] = s[i] /\ Cardinality(UpTo(I, w, i)) = r
    BY <1>1, <1>3, <1>4
  <1> DEFINE lo == Below(s, w[i])
             hi == Below(s, w[i] + 1)
             up == UpTo(I, w, i)
  <1>6. lo \cup {i} \in SUBSET up /\ up \in SUBSET hi /\ hi \in SUBSET I /\ i \notin lo
    BY <1>1, <1>2 DEF Below, UpTo, I
  <1> HIDE DEF lo, hi, up
  <1>7. IsFiniteSet(hi) /\ IsFiniteSet(up) /\ Cardinality(up) <= Cardinality(hi)
    BY <1>1, <1>6, FS_Subset
  <1>8. IsFiniteSet(lo \cup {i}) /\ Cardinality(lo \cup {i}) <= Cardinality(up)
    BY <1>6, <1>7, FS_Subset
  <1>9. IsFiniteSet(lo)
    <2>1. lo \in SUBSET (lo \cup {i})
      OBVIOUS
    <2> QED BY <1>8, <2>1, FS_Subset
  <1>10. Cardinality(lo \cup {i}) = Cardinality(lo) + 1
    BY <1>6, <1>9, FS_AddElement
  <1>11. Cardinality(lo) \in Nat /\ Cardinality(up) \in Nat /\ Cardinality(hi) \in Nat
    BY <1>7, <1>9, FS_CardinalityType
  <1>12. Cardinality(lo) < r /\ r <= Cardinality(hi)
    BY <1>5, <1>7, <1>8, <1>10, <1>11 DEF up
  <1> QED BY <1>1, <1>2, <1>5, <1>12 DEF lo, hi

\* A rearrangement of a sequence has as many entries before a place.
LEMMA BelowSame ==
  ASSUME NEW s \in Seq(Names \cup {labelKeyword}), NEW t \in Seq(Names \cup {labelKeyword}),
         NEW p \in Bijection(DOMAIN s, DOMAIN t), \A i \in DOMAIN s : s[i] = t[p[i]],
         NEW m
  PROVE  /\ Cardinality(Below(s, m)) = Cardinality(Below(t, m))
         /\ IsFiniteSet(Below(s, m)) /\ Cardinality(Below(s, m)) \in Nat
  <1> DEFINE f == [i \in Below(s, m) |-> p[i]]
  <1>1. Below(s, m) \in SUBSET DOMAIN s
    BY DEF Below
  <1>2. IsFiniteSet(Below(s, m)) /\ Cardinality(Below(s, m)) \in Nat
    BY <1>1, IndicesFinite
  <1>3. /\ p \in [DOMAIN s -> DOMAIN t]
        /\ \A i, k \in DOMAIN s : p[i] = p[k] => i = k
        /\ \A j \in DOMAIN t : \E i \in DOMAIN s : p[i] = j
    BY DEF Bijection, Injection, Surjection, IsInjective
  <1>4. f \in [Below(s, m) -> Below(t, m)]
    BY <1>1, <1>3 DEF Below
  <1>5. \A i, k \in Below(s, m) : f[i] = f[k] => i = k
    BY <1>1, <1>3
  <1>6. \A j \in Below(t, m) : \E i \in Below(s, m) : f[i] = j
    BY <1>1, <1>3 DEF Below
  <1> HIDE DEF f
  <1>7. f \in Bijection(Below(s, m), Below(t, m))
    BY <1>4, <1>5, <1>6 DEF Bijection, Injection, Surjection, IsInjective
  <1>8. ExistsBijection(Below(s, m), Below(t, m))
    BY <1>7 DEF ExistsBijection
  <1> QED BY <1>2, <1>8, FS_Bijection

\* Sorting gives the same sequence for every order of the entries.
LEMMA SortedSame ==
  ASSUME NEW s \in Seq(Names \cup {labelKeyword}), NEW t \in Seq(Names \cup {labelKeyword}),
         NEW p \in Bijection(DOMAIN s, DOMAIN t), \A i \in DOMAIN s : s[i] = t[p[i]]
  PROVE  Sorted(s) = Sorted(t)
  <1> DEFINE L == Names \cup {labelKeyword}
  <1>1. Len(s) = Len(t) /\ Len(s) \in Nat
    <2>1. DOMAIN s = 1 .. Len(s) /\ DOMAIN t = 1 .. Len(t) /\ Len(s) \in Nat /\ Len(t) \in Nat
      OBVIOUS
    <2>2. /\ IsFiniteSet(DOMAIN s) /\ Cardinality(DOMAIN s) = Len(s)
          /\ Cardinality(DOMAIN t) = Len(t)
      BY <2>1, UpToFinite
    <2>3. ExistsBijection(DOMAIN s, DOMAIN t)
      BY DEF ExistsBijection
    <2> QED BY <2>1, <2>2, <2>3, FS_Bijection
  <1>2. \A q \in {s, t} : Sorted(q) \in Seq(L) /\ DOMAIN Sorted(q) = 1 .. Len(s)
    <2> SUFFICES ASSUME NEW q \in Seq(L), Len(q) = Len(s)
                 PROVE  Sorted(q) \in Seq(L) /\ DOMAIN Sorted(q) = 1 .. Len(s)
      BY <1>1
    <2>1. Sorted(q) \in Seq(L)
      BY SortedFacts
    <2>2. DOMAIN Sorted(q) = 1 .. Cardinality(DOMAIN q)
      BY DEF Sorted, Arranged
    <2>3. DOMAIN q = 1 .. Len(q) /\ Len(q) \in Nat
      OBVIOUS
    <2>4. Cardinality(DOMAIN q) = Len(q)
      BY <2>3, UpToFinite
    <2> QED BY <2>1, <2>2, <2>4
  <1>3. ASSUME NEW r \in 1 .. Len(s) PROVE Sorted(s)[r] = Sorted(t)[r]
    <2> DEFINE m == Sorted(s)[r]
               n == Sorted(t)[r]
               below(k) == Cardinality(Below(s, k))
    <2>1. \A k : /\ below(k) = Cardinality(Below(t, k)) /\ below(k) \in Nat
                 /\ IsFiniteSet(Below(s, k))
      BY BelowSame
    <2>2. m \in L /\ below(Position(m)) < r /\ r <= below(Position(m) + 1)
      BY SortedAt
    <2>3. n \in L /\ below(Position(n)) < r /\ r <= below(Position(n) + 1)
      BY <1>1, <2>1, SortedAt
    <2>4. \A j, k \in Int : j + 1 <= k => below(j + 1) <= below(k)
      <3> SUFFICES ASSUME NEW j \in Int, NEW k \in Int, j + 1 <= k
                   PROVE  below(j + 1) <= below(k)
        OBVIOUS
      <3>1. \A i \in DOMAIN s : Position(s[i]) \in Int
        BY PositionFacts
      <3>2. Below(s, j + 1) \in SUBSET Below(s, k)
        BY <3>1 DEF Below
      <3> QED BY <2>1, <3>2, FS_Subset
    <2> HIDE DEF m, n, below
    <2>5. Position(m) \in Int /\ Position(n) \in Int
      BY <2>2, <2>3, PositionFacts
    <2>6. ~ (Position(m) + 1 <= Position(n)) /\ ~ (Position(n) + 1 <= Position(m))
      BY <1>1, <2>1, <2>2, <2>3, <2>4, <2>5
    <2>7. Position(m) = Position(n)
      BY <2>5, <2>6
    <2>8. m = n
      BY <2>2, <2>3, <2>7, PositionFacts
    <2> QED BY <2>8 DEF m, n
  <1> QED BY <1>2, <1>3

\* Two orders of one group_by are one estimator: neither the groups of a stream
\* nor the id under which it is found again depend on how the file lists labels.
THEOREM OrderIrrelevant ==
  ASSUME NEW s \in Streams, NEW t \in Streams, s.compiledFilter = t.compiledFilter,
         NEW p \in Bijection(DOMAIN s.group_by, DOMAIN t.group_by),
         \A i \in DOMAIN s.group_by : s.group_by[i] = t.group_by[p[i]]
  PROVE  newEstimator(s) = newEstimator(t)
  <1>1. /\ s.group_by \in Seq(Names \cup {labelKeyword})
        /\ t.group_by \in Seq(Names \cup {labelKeyword})
    BY InsertAssumption
  <1>2. Sorted(s.group_by) = Sorted(t.group_by)
    BY <1>1, SortedSame
  <1>3. Range(s.group_by) = Range(t.group_by)
    BY <1>1, <1>2, SortedFacts
  <1>4. prepared(s.group_by) = prepared(t.group_by)
    BY <1>2, <1>3 DEF prepared
  <1> QED BY <1>4 DEF newEstimator

\* newEstimator does not panic on what prepare makes of any group_by: __label__
\* is nowhere but at the end.
THEOREM LabelComesLast ==
  ASSUME NEW s \in Streams,
         NEW i \in 1 .. Len(prepared(s.group_by)) - 1
  PROVE  prepared(s.group_by)[i] # labelKeyword
  <1> DEFINE L == Names \cup {labelKeyword}
             sorted == Sorted(s.group_by)
             I == {j \in DOMAIN sorted : sorted[j] # labelKeyword}
             new == Selected(sorted, I)
             g == prepared(s.group_by)
  <1>1. sorted \in Seq(L) /\ I \in SUBSET DOMAIN sorted
    BY InsertAssumption, SortedFacts
  <1>2. g = Append(new, labelKeyword) \/ g = new
    BY DEF prepared
  <1> HIDE DEF L, sorted
  <1>3. new \in Seq(L) /\ Range(new) = {sorted[j] : j \in I}
    BY <1>1, SelectedFacts
  <1>4. \A j \in DOMAIN new : new[j] # labelKeyword
    <2>1. \A j \in DOMAIN new : new[j] \in Range(new)
      BY DEF Range
    <2> QED BY <1>3, <2>1
  <1>5. i \in 1 .. Len(g) - 1
    OBVIOUS
  <1> HIDE DEF new, g, I
  <1>6. i \in DOMAIN new /\ g[i] = new[i]
    <2>1. CASE g = new
      BY <1>3, <1>5, <2>1
    <2>2. CASE g = Append(new, labelKeyword)
      <3>1. Len(g) = Len(new) + 1 /\ \A j \in 1 .. Len(new) : g[j] = new[j]
        BY <1>3, <2>2
      <3> QED BY <1>3, <1>5, <3>1
    <2> QED BY <1>2, <2>1, <2>2
  <1>7. g[i] # labelKeyword
    BY <1>4, <1>6
  <1> QED BY <1>7 DEF g

-----------------------------------------------------------------------------
(* The inductive invariant *)

\* The estimator is the one made from the configured stream.
Configured ==
  /\ cfg \in Streams
  /\ e = newEstimator(cfg)
  /\ seen \subseteq Series

\* All inserts that the series seen so far have led to.
AllInserts == UNION {Inserts(ts) : ts \in seen}

\* A group has what was inserted under its key, and the values of one such insert.
GroupsHold ==
  /\ DOMAIN groups = {n.key : n \in AllInserts}
  /\ DOMAIN values = DOMAIN groups
  /\ \A k \in DOMAIN groups :
       /\ groups[k] = {n.hash : n \in {m \in AllInserts : m.key = k}}
       /\ \E n \in AllInserts : n.key = k /\ values[k] = n.values

InsertInv == Configured /\ GroupsHold

\* What a series leads to does not depend on what was inserted before.
LEMMA InsertsFixed ==
  ASSUME UNCHANGED e, NEW ts
  PROVE  Inserts(ts)' = Inserts(ts)
  BY DEF Inserts, match, hasNames, PerLabel, Plain, Digest, groupValues, Present

LEMMA InsertInvInit == Init => InsertInv
  <1> SUFFICES ASSUME Init PROVE InsertInv
    OBVIOUS
  <1>1. Configured
    BY DEF Init, Configured
  <1>2. AllInserts = {}
    BY DEF Init, AllInserts
  <1>3. GroupsHold
    BY <1>2 DEF Init, GroupsHold
  <1> QED BY <1>1, <1>3 DEF InsertInv

\* Insert adds the inserts of one series.
LEMMA AllInsertsGrow ==
  ASSUME NEW ts, Insert(ts)
  PROVE  AllInserts' = AllInserts \cup Inserts(ts)
  <1>1. UNCHANGED e /\ seen' = seen \cup {ts}
    BY DEF Insert
  <1>2. \A t : Inserts(t)' = Inserts(t)
    BY <1>1, InsertsFixed
  <1>3. AllInserts' = UNION {Inserts(t)' : t \in seen'}
    BY DEF AllInserts
  <1>4. AllInserts' = UNION {Inserts(t) : t \in seen \cup {ts}}
    BY <1>1, <1>2, <1>3
  <1> QED BY <1>4 DEF AllInserts

LEMMA InsertInvStep ==
  ASSUME InsertInv, NEW ts \in Series, Insert(ts)
  PROVE  InsertInv'
  <1>1. Configured'
    BY DEF InsertInv, Configured, Insert, newEstimator
  <1> DEFINE new == Inserts(ts)
             all == AllInserts
             keys == {n.key : n \in new}
             of(k) == {n.hash : n \in {m \in new : m.key = k}}
  <1>2. AllInserts' = all \cup new
    BY AllInsertsGrow
  <1>3. /\ groups' = [k \in DOMAIN groups \cup keys |->
                        (IF k \in DOMAIN groups THEN groups[k] ELSE {}) \cup of(k)]
        /\ values' = [k \in DOMAIN values \cup keys |->
                        IF k \in DOMAIN values THEN values[k]
                        ELSE (CHOOSE n \in new : n.key = k).values]
    BY DEF Insert
  <1>4. /\ DOMAIN groups = {n.key : n \in all}
        /\ DOMAIN values = DOMAIN groups
        /\ \A k \in DOMAIN groups :
             /\ groups[k] = {n.hash : n \in {m \in all : m.key = k}}
             /\ \E n \in all : n.key = k /\ values[k] = n.values
    BY DEF InsertInv, GroupsHold
  <1> HIDE DEF new, all
  <1>5. /\ DOMAIN groups' = {n.key : n \in all \cup new}
        /\ DOMAIN values' = DOMAIN groups'
    BY <1>3, <1>4
  <1>6. ASSUME NEW k \in DOMAIN groups'
        PROVE  groups'[k] = {n.hash : n \in {m \in all \cup new : m.key = k}}
    <2>1. CASE k \in DOMAIN groups
      BY <1>3, <1>4, <2>1
    <2>2. CASE k \notin DOMAIN groups
      <3>1. {m \in all : m.key = k} = {}
        BY <1>4, <2>2
      <3>2. groups'[k] = of(k)
        BY <1>3, <2>2
      <3> QED BY <3>1, <3>2
    <2> QED BY <2>1, <2>2
  <1>7. ASSUME NEW k \in DOMAIN groups'
        PROVE  \E n \in all \cup new : n.key = k /\ values'[k] = n.values
    <2>1. CASE k \in DOMAIN groups
      BY <1>3, <1>4, <2>1
    <2>2. CASE k \notin DOMAIN groups
      <3>1. k \in keys /\ values'[k] = (CHOOSE n \in new : n.key = k).values
        BY <1>3, <1>4, <2>2
      <3>2. \E n \in new : n.key = k
        BY <3>1
      <3> QED BY <3>1, <3>2
    <2> QED BY <2>1, <2>2
  <1>8. GroupsHold'
    BY <1>2, <1>5, <1>6, <1>7 DEF GroupsHold
  <1> QED BY <1>1, <1>8 DEF InsertInv

\* The invariant, for every set of streams, names and values.
THEOREM InsertInvariant == Spec => []InsertInv
  <1>1. InsertInv /\ [Next]_vars => InsertInv'
    <2> SUFFICES ASSUME InsertInv, [Next]_vars PROVE InsertInv'
      OBVIOUS
    <2>1. CASE Next
      BY <2>1, InsertInvStep DEF Next
    <2>2. CASE UNCHANGED vars
      <3>1. UNCHANGED e /\ UNCHANGED seen
        BY <2>2 DEF vars
      <3>2. \A t : Inserts(t)' = Inserts(t)
        BY <3>1, InsertsFixed
      <3>3. AllInserts' = AllInserts
        BY <3>1, <3>2 DEF AllInserts
      <3> QED BY <2>2, <3>3 DEF InsertInv, Configured, GroupsHold, vars, newEstimator
    <2> QED BY <2>1, <2>2
  <1> QED BY <1>1, InsertInvInit, PTL DEF Spec

-----------------------------------------------------------------------------
(* Keys and groups *)

\* A series is a function from some of the names to values.
LEMMA SeriesType ==
  ASSUME NEW ts \in Series
  PROVE  DOMAIN ts \in SUBSET Names /\ ts \in [DOMAIN ts -> Values]
  BY DEF Series

\* The estimator groups by the configured labels, whatever their order.
LEMMA ConfiguredFacts ==
  ASSUME Configured
  PROVE  /\ e.groupBy \in Seq(Names)
         /\ Range(e.groupBy) = GroupBy
         /\ e.hasLabelKeyword <=> WithLabel
         /\ e.compiledFilter = cfg.compiledFilter
         /\ e.compiledFilter \subseteq
              [label : Names, accepts : SUBSET Values, isNegative : BOOLEAN]
  <1>1. cfg \in Streams /\ e = newEstimator(cfg)
    BY DEF Configured
  <1>2. cfg.compiledFilter \subseteq
          [label : Names, accepts : SUBSET Values, isNegative : BOOLEAN]
    BY <1>1, InsertAssumption
  <1> QED BY <1>1, <1>2, EstimatorFacts DEF GroupBy, WithLabel

\* match accepts the series that are to be counted.
LEMMA MatchFacts ==
  ASSUME Configured, NEW ts \in seen
  PROVE  match(ts) <=> ts \in Counted
  <1>1. \A f \in e.compiledFilter : f.label \in Names /\ f.isNegative \in BOOLEAN
    BY ConfiguredFacts
  <1> DEFINE val(f) == IF f.label \in DOMAIN ts THEN ts[f.label] ELSE NoValue
  <1>2. \A f \in e.compiledFilter : Padded(ts)[f.label] = val(f)
    BY <1>1 DEF Padded
  <1> HIDE DEF val
  <1>3. \A f \in e.compiledFilter :
          ((val(f) \in f.accepts) # f.isNegative) <=>
            (IF f.isNegative THEN val(f) \notin f.accepts ELSE val(f) \in f.accepts)
    <2> TAKE f \in e.compiledFilter
    <2> DEFINE in == val(f) \in f.accepts
    <2>1. in \in BOOLEAN
      OBVIOUS
    <2>2. f.isNegative = TRUE \/ f.isNegative = FALSE
      BY <1>1
    <2> HIDE DEF in
    <2>3. (in # f.isNegative) <=> (IF f.isNegative THEN ~ in ELSE in)
      BY <2>1, <2>2
    <2> QED BY <2>3 DEF in
  <1>4. match(ts) <=> \A f \in e.compiledFilter : (val(f) \in f.accepts) # f.isNegative
    BY Zenon DEF match, val
  <1>5. ts \in Counted <=>
          \A f \in e.compiledFilter :
            IF f.isNegative THEN val(f) \notin f.accepts ELSE val(f) \in f.accepts
    BY <1>2, ConfiguredFacts DEF Counted
  <1> QED BY <1>3, <1>4, <1>5, Zenon

\* A series contributes if it has a group_by label or there are none.
LEMMA HasNamesFacts ==
  ASSUME Configured, NEW ts
  PROVE  hasNames(ts) <=> GroupBy = {} \/ GroupBy \cap DOMAIN ts # {}
  <1>1. e.groupBy \in Seq(Names) /\ Range(e.groupBy) = GroupBy
    BY ConfiguredFacts
  <1>2. e.groupBy = << >> <=> GroupBy = {}
    <2>1. e.groupBy # << >> => 1 \in DOMAIN e.groupBy
      BY <1>1
    <2>2. e.groupBy = << >> => DOMAIN e.groupBy = {}
      OBVIOUS
    <2> QED BY <1>1, <2>1, <2>2 DEF Range
  <1>3. Present(ts) # {} <=> GroupBy \cap DOMAIN ts # {}
    BY <1>1 DEF Range, Present
  <1> QED BY <1>2, <1>3 DEF hasNames

\* The key has one value for each group_by label that the series has.  It is as
\* long as group_by only if the series has them all, and then it is their values.
LEMMA DigestFacts ==
  ASSUME Configured, NEW ts \in Series
  PROVE  /\ Digest(ts) \in Seq(Values)
         /\ Len(Digest(ts)) = Len(e.groupBy) => GroupBy \subseteq DOMAIN ts
         /\ GroupBy \subseteq DOMAIN ts =>
              /\ groupValues(ts) = [i \in DOMAIN e.groupBy |-> ts[e.groupBy[i]]]
              /\ Digest(ts) = groupValues(ts)
         /\ groupValues(ts) \in Seq(Values)
         /\ DOMAIN groupValues(ts) = DOMAIN e.groupBy
  <1> DEFINE v == groupValues(ts)
             I == Present(ts)
  <1>1. e.groupBy \in Seq(Names) /\ Range(e.groupBy) = GroupBy
    BY ConfiguredFacts
  <1>2. DOMAIN e.groupBy = 1 .. Len(e.groupBy) /\ Len(e.groupBy) \in Nat
    BY <1>1
  <1>3. v \in [1 .. Len(e.groupBy) -> Values]
    BY <1>2, SeriesType, InsertAssumption DEF groupValues
  <1>4. v \in Seq(Values) /\ DOMAIN v = DOMAIN e.groupBy /\ Len(v) = Len(e.groupBy)
    BY <1>2, <1>3
  <1>5. I \in SUBSET DOMAIN v
    BY <1>4 DEF Present
  <1> HIDE DEF v, I
  <1>6. Digest(ts) = Selected(v, I)
    BY DEF Digest, v, I
  <1>7. Digest(ts) \in Seq(Values) /\ Len(Digest(ts)) = Cardinality(I)
    BY <1>4, <1>5, <1>6, SelectedFacts
  <1>8. I = DOMAIN v <=> GroupBy \subseteq DOMAIN ts
    BY <1>1, <1>4 DEF Range, Present, I
  <1>9. Cardinality(I) = Len(e.groupBy) => I = DOMAIN v
    BY <1>4, <1>5, IndicesFinite
  <1>10. ASSUME GroupBy \subseteq DOMAIN ts
         PROVE  v = [i \in DOMAIN e.groupBy |-> ts[e.groupBy[i]]] /\ Digest(ts) = v
    <2>1. v = [i \in DOMAIN e.groupBy |-> ts[e.groupBy[i]]]
      BY <1>1, <1>10 DEF v, groupValues, Range
    <2>2. Digest(ts) = v
      BY <1>4, <1>6, <1>8, <1>10, SelectedAll
    <2> QED BY <2>1, <2>2
  <1> QED BY <1>4, <1>7, <1>8, <1>9, <1>10 DEF v

\* The key, and the group values, of the series with the values c.
KeyOf(c) == [i \in DOMAIN e.groupBy |-> c[e.groupBy[i]]]

\* Only the series that have all labels, with the values c, have this key: a
\* series that lacks one has a shorter key.
LEMMA KeyFacts ==
  ASSUME Configured, NEW ts \in Series, NEW c \in [GroupBy -> Values]
  PROVE  /\ Digest(ts) = KeyOf(c) <=> GroupBy \subseteq DOMAIN ts /\ Restrict(ts, GroupBy) = c
         /\ Digest(ts) = KeyOf(c) => groupValues(ts) = KeyOf(c) /\ hasNames(ts)
         /\ KeyOf(c) \in Seq(Values)
  <1>1. e.groupBy \in Seq(Names) /\ Range(e.groupBy) = GroupBy
    BY ConfiguredFacts
  <1>2. DOMAIN e.groupBy = 1 .. Len(e.groupBy) /\ Len(e.groupBy) \in Nat
    BY <1>1
  <1>3. KeyOf(c) \in Seq(Values) /\ Len(KeyOf(c)) = Len(e.groupBy)
    <2>1. KeyOf(c) \in [1 .. Len(e.groupBy) -> Values]
      BY <1>1, <1>2 DEF KeyOf, Range
    <2> QED BY <1>2, <2>1
  <1>4. ASSUME Digest(ts) = KeyOf(c)
        PROVE  /\ GroupBy \subseteq DOMAIN ts /\ Restrict(ts, GroupBy) = c
               /\ groupValues(ts) = KeyOf(c) /\ hasNames(ts)
    <2>1. GroupBy \subseteq DOMAIN ts
      BY <1>3, <1>4, DigestFacts
    <2>2. groupValues(ts) = KeyOf(c)
          /\ KeyOf(c) = [i \in DOMAIN e.groupBy |-> ts[e.groupBy[i]]]
      BY <1>4, <2>1, DigestFacts
    <2>3. \A i \in DOMAIN e.groupBy : ts[e.groupBy[i]] = c[e.groupBy[i]]
      BY <2>2 DEF KeyOf
    <2>4. \A n \in GroupBy : ts[n] = c[n]
      BY <1>1, <2>3 DEF Range
    <2>5. Restrict(ts, GroupBy) = c
      BY <2>4 DEF Restrict
    <2>6. hasNames(ts)
      BY <2>1, HasNamesFacts
    <2> QED BY <2>1, <2>2, <2>5, <2>6
  <1>5. ASSUME GroupBy \subseteq DOMAIN ts, Restrict(ts, GroupBy) = c
        PROVE  Digest(ts) = KeyOf(c)
    <2>1. \A n \in GroupBy : ts[n] = c[n]
      BY <1>5 DEF Restrict
    <2>2. \A i \in DOMAIN e.groupBy : ts[e.groupBy[i]] = c[e.groupBy[i]]
      BY <1>1, <2>1 DEF Range
    <2> QED BY <1>5, <2>2, DigestFacts DEF KeyOf
  <1> QED BY <1>3, <1>4, <1>5

-----------------------------------------------------------------------------
(* The properties *)

\* The series that lead to inserts.
Contributing == {ts \in Counted : hasNames(ts)}

\* Series that are not counted or have no group_by label lead to none.
LEMMA InsertsOf ==
  ASSUME Configured
  PROVE  /\ Contributing \subseteq seen /\ seen \subseteq Series
         /\ \A ts \in seen \ Contributing : Inserts(ts) = {}
         /\ \A ts \in Contributing : Inserts(ts) = IF WithLabel THEN PerLabel(ts) ELSE Plain(ts)
  <1>1. Contributing \subseteq seen /\ seen \subseteq Series
    BY DEF Contributing, Counted, Configured
  <1>2. ASSUME NEW ts \in seen \ Contributing PROVE Inserts(ts) = {}
    BY MatchFacts DEF Inserts, Contributing
  <1>3. ASSUME NEW ts \in Contributing
        PROVE  Inserts(ts) = IF WithLabel THEN PerLabel(ts) ELSE Plain(ts)
    <2>1. match(ts) /\ hasNames(ts)
      BY <1>1, MatchFacts DEF Contributing
    <2> QED BY <2>1, ConfiguredFacts DEF Inserts
  <1> QED BY <1>1, <1>2, <1>3

\* Without __label__ a group has the contributing series with its key.
LEMMA PlainGroups ==
  ASSUME InsertInv, ~ WithLabel
  PROVE  /\ DOMAIN groups = {Digest(ts) : ts \in Contributing}
         /\ \A k \in DOMAIN groups :
              /\ groups[k] = {ts \in Contributing : Digest(ts) = k}
              /\ \E ts \in Contributing : Digest(ts) = k /\ values[k] = groupValues(ts)
  <1> DEFINE one(ts) == [key |-> Digest(ts), hash |-> ts, values |-> groupValues(ts)]
  <1>1. Configured /\ GroupsHold
    BY DEF InsertInv
  <1>2. AllInserts = {one(ts) : ts \in Contributing}
    <2>1. \A ts \in Contributing : Inserts(ts) = {one(ts)}
      BY <1>1, InsertsOf DEF Plain
    <2>2. \A ts \in seen \ Contributing : Inserts(ts) = {}
      BY <1>1, InsertsOf
    <2>3. Contributing \subseteq seen
      BY <1>1, InsertsOf
    <2> HIDE DEF one
    <2>4. \A n : n \in AllInserts <=> \E ts \in seen : n \in Inserts(ts)
      BY DEF AllInserts
    <2>5. \A n : n \in AllInserts <=> \E ts \in Contributing : n = one(ts)
      BY <2>1, <2>2, <2>3, <2>4
    <2> QED BY <2>5
  <1>3. \A ts \in Contributing :
          one(ts).key = Digest(ts) /\ one(ts).hash = ts /\ one(ts).values = groupValues(ts)
    OBVIOUS
  <1> HIDE DEF one
  <1>4. DOMAIN groups = {Digest(ts) : ts \in Contributing}
    BY <1>1, <1>2, <1>3 DEF GroupsHold
  <1>5. ASSUME NEW k \in DOMAIN groups
        PROVE  /\ groups[k] = {ts \in Contributing : Digest(ts) = k}
               /\ \E ts \in Contributing : Digest(ts) = k /\ values[k] = groupValues(ts)
    <2>1. groups[k] = {n.hash : n \in {m \in AllInserts : m.key = k}}
      BY <1>1 DEF GroupsHold
    <2>2. \E n \in AllInserts : n.key = k /\ values[k] = n.values
      BY <1>1 DEF GroupsHold
    <2>3. groups[k] = {ts \in Contributing : Digest(ts) = k}
      BY <1>2, <1>3, <2>1
    <2> QED BY <1>2, <1>3, <2>2, <2>3
  <1> QED BY <1>4, <1>5

\* Without __label__ the group of a combination shows it and has its series.
LEMMA CombinationGroup ==
  ASSUME InsertInv, ~ WithLabel, NEW c \in [GroupBy -> Values], SeriesOf(c) # {}
  PROVE  /\ KeyOf(c) \in DOMAIN groups
         /\ groups[KeyOf(c)] = SeriesOf(c)
         /\ Shown(KeyOf(c)) = c
  <1> DEFINE k == KeyOf(c)
  <1>1. Configured
    BY DEF InsertInv
  <1>2. Contributing \subseteq Series /\ Counted \subseteq Series
    BY <1>1 DEF Contributing, Counted, Configured
  <1>3. SeriesOf(c) = {ts \in Contributing : Digest(ts) = k}
    <2>1. \A ts \in Counted :
            Digest(ts) = k <=> GroupBy \subseteq DOMAIN ts /\ Restrict(ts, GroupBy) = c
      BY <1>1, <1>2, KeyFacts
    <2>2. \A ts \in Counted : Digest(ts) = k => hasNames(ts)
      BY <1>1, <1>2, KeyFacts
    <2> HIDE DEF k
    <2> QED BY <2>1, <2>2 DEF SeriesOf, Contributing
  <1>4. k \in DOMAIN groups
    <2> HIDE DEF k
    <2> QED BY <1>3, PlainGroups
  <1>5. groups[k] = SeriesOf(c)
    <2> HIDE DEF k
    <2> QED BY <1>3, <1>4, PlainGroups
  <1>6. values[k] = k
    <2>1. PICK ts \in Contributing : Digest(ts) = k /\ values[k] = groupValues(ts)
      BY <1>4, PlainGroups
    <2> QED BY <1>1, <1>2, <2>1, KeyFacts
  <1>7. Shown(k) = c
    <2> DEFINE g == e.groupBy
               at(n) == CHOOSE i \in DOMAIN g : g[i] = n
    <2>1. g \in Seq(Names) /\ Range(g) = GroupBy /\ ~ e.hasLabelKeyword
      BY <1>1, ConfiguredFacts
    <2>2. Shown(k) = [n \in Range(g) |-> values[k][at(n)]]
      <3>1. ShownBy = g
        BY <2>1 DEF ShownBy
      <3> QED BY <3>1 DEF Shown
    <2>3. \A n \in GroupBy : at(n) \in DOMAIN g /\ g[at(n)] = n
      <3>1. \A n \in GroupBy : \E i \in DOMAIN g : g[i] = n
        BY <2>1 DEF Range
      <3> QED BY <3>1
    <2> HIDE DEF at
    <2>4. \A n \in GroupBy : values[k][at(n)] = c[n]
      BY <1>6, <2>3 DEF KeyOf
    <2> QED BY <2>1, <2>2, <2>4
  <1> QED BY <1>4, <1>5, <1>7

\* The estimate shown with a combination of values counts the series with the
\* combination, for any group_by and filter that is accepted.
THEOREM CombinationsExact == Spec => []CombinationExact
  <1>1. InsertInv => CombinationExact
    <2> SUFFICES ASSUME InsertInv, ~ WithLabel,
                        NEW c \in [GroupBy -> Values], SeriesOf(c) # {}
                 PROVE  \E k \in DOMAIN groups : Shown(k) = c /\ groups[k] = SeriesOf(c)
      BY DEF CombinationExact
    <2> QED BY CombinationGroup
  <1> QED BY <1>1, InsertInvariant, PTL

\* Without __label__ a series is counted in exactly one group if it is to be
\* counted, and in none otherwise.
THEOREM SeriesInOneGroup == Spec => []EachSeriesOnce
  <1>1. InsertInv => EachSeriesOnce
    <2> SUFFICES ASSUME InsertInv, ~ WithLabel, NEW ts \in seen
                 PROVE  Cardinality({k \in DOMAIN groups : ts \in groups[k]}) =
                          IF ts \in {u \in Counted : GroupBy = {} \/ GroupBy \cap DOMAIN u # {}}
                          THEN 1 ELSE 0
      BY DEF EachSeriesOnce
    <2> DEFINE K == {k \in DOMAIN groups : ts \in groups[k]}
    <2>1. ts \in Contributing <=>
            ts \in Counted /\ (GroupBy = {} \/ GroupBy \cap DOMAIN ts # {})
      BY HasNamesFacts DEF InsertInv, Contributing
    <2>2. CASE ts \in Contributing
      <3>1. K = {Digest(ts)}
        BY <2>2, PlainGroups
      <3> HIDE DEF K
      <3>2. Cardinality(K) = 1
        BY <3>1, FS_Singleton
      <3> QED BY <2>1, <2>2, <3>2 DEF K
    <2>3. CASE ts \notin Contributing
      <3>1. K = {}
        BY <2>3, PlainGroups
      <3> HIDE DEF K
      <3>2. Cardinality(K) = 0
        BY <3>1, FS_EmptySet
      <3> QED BY <2>1, <2>3, <3>2 DEF K
    <2> QED BY <2>2, <2>3
  <1> QED BY <1>1, InsertInvariant, PTL

\* With __label__ a group has the values of one label, of the contributing series
\* whose digest its key starts with.
LEMMA LabelGroups ==
  ASSUME InsertInv, WithLabel
  PROVE  /\ \A k : k \in DOMAIN groups <=>
              \E ts \in Contributing : \E n \in DOMAIN ts : Append(Digest(ts), n) = k
         /\ \A k \in DOMAIN groups :
              /\ \A v : v \in groups[k] <=>
                   \E ts \in Contributing : \E n \in DOMAIN ts :
                     Append(Digest(ts), n) = k /\ ts[n] = v
              /\ \E ts \in Contributing : \E n \in DOMAIN ts :
                   Append(Digest(ts), n) = k /\ values[k] = Append(groupValues(ts), n)
  <1> DEFINE one(ts, n) == [key |-> Append(Digest(ts), n), hash |-> ts[n],
                            values |-> Append(groupValues(ts), n)]
  <1>1. Configured /\ GroupsHold
    BY DEF InsertInv
  <1>2. \A i : i \in AllInserts <=>
                 \E ts \in Contributing : \E n \in DOMAIN ts : i = one(ts, n)
    <2>1. \A ts \in Contributing : Inserts(ts) = {one(ts, n) : n \in DOMAIN ts}
      BY <1>1, InsertsOf DEF PerLabel
    <2>2. \A ts \in seen \ Contributing : Inserts(ts) = {}
      BY <1>1, InsertsOf
    <2>3. Contributing \subseteq seen
      BY <1>1, InsertsOf
    <2> HIDE DEF one
    <2>4. \A i : i \in AllInserts <=> \E ts \in seen : i \in Inserts(ts)
      BY DEF AllInserts
    <2> QED BY <2>1, <2>2, <2>3, <2>4
  <1>3. \A ts, n : /\ one(ts, n).key = Append(Digest(ts), n)
                   /\ one(ts, n).hash = ts[n]
                   /\ one(ts, n).values = Append(groupValues(ts), n)
    OBVIOUS
  <1> HIDE DEF one
  <1>4. \A k : k \in DOMAIN groups <=>
          \E ts \in Contributing : \E n \in DOMAIN ts : Append(Digest(ts), n) = k
    <2>1. \A k : k \in DOMAIN groups <=> \E i \in AllInserts : i.key = k
      BY <1>1 DEF GroupsHold
    <2> QED BY <1>2, <1>3, <2>1
  <1>5. ASSUME NEW k \in DOMAIN groups
        PROVE  /\ \A v : v \in groups[k] <=>
                    \E ts \in Contributing : \E n \in DOMAIN ts :
                      Append(Digest(ts), n) = k /\ ts[n] = v
               /\ \E ts \in Contributing : \E n \in DOMAIN ts :
                    Append(Digest(ts), n) = k /\ values[k] = Append(groupValues(ts), n)
    <2>1. groups[k] = {i.hash : i \in {m \in AllInserts : m.key = k}}
      BY <1>1 DEF GroupsHold
    <2>2. \A v : v \in groups[k] <=> \E i \in AllInserts : i.key = k /\ i.hash = v
      BY <2>1
    <2>3. \A v : v \in groups[k] <=>
                   \E ts \in Contributing : \E n \in DOMAIN ts :
                     Append(Digest(ts), n) = k /\ ts[n] = v
      <3> TAKE v
      <3>1. ASSUME v \in groups[k]
            PROVE  \E ts \in Contributing : \E n \in DOMAIN ts :
                     Append(Digest(ts), n) = k /\ ts[n] = v
        <4>1. PICK i \in AllInserts : i.key = k /\ i.hash = v
          BY <2>2, <3>1
        <4>2. PICK ts \in Contributing : \E n \in DOMAIN ts : i = one(ts, n)
          BY <1>2
        <4> QED BY <1>3, <4>1, <4>2
      <3>2. ASSUME NEW ts \in Contributing, NEW n \in DOMAIN ts,
                   Append(Digest(ts), n) = k, ts[n] = v
            PROVE  v \in groups[k]
        <4>1. one(ts, n) \in AllInserts
          BY <1>2
        <4> QED BY <1>3, <2>2, <3>2, <4>1
      <3> QED BY <3>1, <3>2
    <2>4. \E i \in AllInserts : i.key = k /\ values[k] = i.values
      BY <1>1 DEF GroupsHold
    <2> QED BY <1>2, <1>3, <2>3, <2>4
  <1> QED BY <1>4, <1>5

\* The last entry and the rest of a sequence determine it.
LEMMA AppendDiffers ==
  ASSUME NEW S, NEW s \in Seq(S), NEW t \in Seq(S), NEW x, NEW y, Append(s, x) = Append(t, y)
  PROVE  s = t /\ x = y
  <1> DEFINE T == S \cup {x, y}
  <1>1. s \in Seq(T) /\ t \in Seq(T) /\ x \in T /\ y \in T
    OBVIOUS
  <1> HIDE DEF T
  <1> QED BY <1>1, AppendInjective

\* With __label__ the group of a label name within a combination shows both and
\* has the values of that label.
LEMMA LabelGroup ==
  ASSUME InsertInv, WithLabel, NEW c \in [GroupBy -> Values], NEW n \in Names,
         NEW t \in SeriesOf(c), n \in DOMAIN t
  PROVE  /\ Append(KeyOf(c), n) \in DOMAIN groups
         /\ groups[Append(KeyOf(c), n)] =
              {ts[n] : ts \in {u \in SeriesOf(c) : n \in DOMAIN u}}
         /\ Shown(Append(KeyOf(c), n)) =
              [m \in GroupBy \cup {labelKeyword} |-> IF m = labelKeyword THEN n ELSE c[m]]
  <1> DEFINE k == Append(KeyOf(c), n)
  <1>1. Configured
    BY DEF InsertInv
  <1>2. Contributing \subseteq Series /\ Counted \subseteq Series
    BY <1>1 DEF Contributing, Counted, Configured
  <1>3. SeriesOf(c) = {ts \in Contributing : Digest(ts) = KeyOf(c)}
    <2>1. \A ts \in Counted :
            Digest(ts) = KeyOf(c) <=> GroupBy \subseteq DOMAIN ts /\ Restrict(ts, GroupBy) = c
      BY <1>1, <1>2, KeyFacts
    <2>2. \A ts \in Counted : Digest(ts) = KeyOf(c) => hasNames(ts)
      BY <1>1, <1>2, KeyFacts
    <2> QED BY <2>1, <2>2 DEF SeriesOf, Contributing
  <1>4. t \in Contributing /\ Digest(t) = KeyOf(c) /\ KeyOf(c) \in Seq(Values)
    BY <1>1, <1>2, <1>3, KeyFacts
  <1>5. \A ts \in Contributing : \A m \in DOMAIN ts :
          Append(Digest(ts), m) = k <=> ts \in SeriesOf(c) /\ m = n
    <2> TAKE ts \in Contributing
    <2> TAKE m \in DOMAIN ts
    <2>1. Digest(ts) \in Seq(Values)
      BY <1>1, <1>2, DigestFacts
    <2>2. Append(Digest(ts), m) = k => Digest(ts) = KeyOf(c) /\ m = n
      BY <1>4, <2>1, AppendDiffers
    <2> QED BY <1>3, <2>2
  <1>6. k \in DOMAIN groups
    BY <1>4, LabelGroups
  <1> HIDE DEF k
  <1>7. groups[k] = {ts[n] : ts \in {u \in SeriesOf(c) : n \in DOMAIN u}}
    <2>1. \A v : v \in groups[k] <=>
            \E ts \in Contributing : \E m \in DOMAIN ts :
              Append(Digest(ts), m) = k /\ ts[m] = v
      BY <1>6, LabelGroups
    <2>2. \A v : v \in groups[k] <=> \E ts \in SeriesOf(c) : n \in DOMAIN ts /\ ts[n] = v
      BY <1>3, <1>5, <2>1
    <2> QED BY <2>2
  <1>8. values[k] = k
    <2>1. PICK ts \in Contributing : \E m \in DOMAIN ts :
            Append(Digest(ts), m) = k /\ values[k] = Append(groupValues(ts), m)
      BY <1>6, LabelGroups
    <2>2. ts \in SeriesOf(c) /\ values[k] = Append(groupValues(ts), n)
      BY <1>5, <2>1
    <2>3. groupValues(ts) = KeyOf(c)
      BY <1>1, <1>2, <1>3, <2>1, <2>2, KeyFacts
    <2> QED BY <2>2, <2>3 DEF k
  <1>9. Shown(k) = [m \in GroupBy \cup {labelKeyword} |-> IF m = labelKeyword THEN n ELSE c[m]]
    <2> DEFINE b == e.groupBy
               g == Append(b, labelKeyword)
               at(m) == CHOOSE i \in DOMAIN g : g[i] = m
    <2>1. b \in Seq(Names) /\ Range(b) = GroupBy /\ e.hasLabelKeyword
      BY <1>1, ConfiguredFacts
    <2>2. Shown(k) = [m \in Range(g) |-> values[k][at(m)]]
      <3>1. ShownBy = g
        BY <2>1 DEF ShownBy
      <3> QED BY <3>1 DEF Shown
    <2>3. /\ DOMAIN g = 1 .. Len(b) + 1 /\ Len(b) \in Nat /\ DOMAIN b = 1 .. Len(b)
          /\ \A i \in DOMAIN b : g[i] = b[i]
          /\ g[Len(b) + 1] = labelKeyword
      BY <2>1
    <2>4. Len(KeyOf(c)) = Len(b)
      BY <1>4, <2>1 DEF KeyOf
    <2>5. /\ \A i \in DOMAIN b : values[k][i] = c[b[i]]
          /\ values[k][Len(b) + 1] = n
      BY <1>4, <1>8, <2>3, <2>4 DEF k, KeyOf
    <2>6. labelKeyword \notin GroupBy
      BY DEF GroupBy
    <2> HIDE DEF g
    <2>7. Range(g) = GroupBy \cup {labelKeyword}
      BY <2>1, <2>3 DEF Range
    <2>8. \A m \in Range(g) : at(m) \in DOMAIN g /\ g[at(m)] = m
      <3>1. \A m \in Range(g) : \E i \in DOMAIN g : g[i] = m
        BY DEF Range
      <3> QED BY <3>1
    <2> HIDE DEF at
    <2>9. \A i \in DOMAIN g : i \in DOMAIN b \/ i = Len(b) + 1
      BY <2>3
    <2>10. \A i \in DOMAIN b : b[i] # labelKeyword
      BY <2>1, <2>6 DEF Range
    <2>11. \A m \in GroupBy : values[k][at(m)] = c[m]
      BY <2>3, <2>5, <2>6, <2>7, <2>8, <2>9
    <2>12. values[k][at(labelKeyword)] = n
      BY <2>3, <2>5, <2>7, <2>8, <2>9, <2>10
    <2> QED BY <2>2, <2>6, <2>7, <2>11, <2>12
  <1> QED BY <1>6, <1>7, <1>9 DEF k

\* The estimate shown for a label name within a combination counts the values of
\* that label in the series with the combination, wherever __label__ stands in
\* group_by.
THEOREM LabelCountsExact == Spec => []LabelValuesExact
  <1>1. InsertInv => LabelValuesExact
    <2> DEFINE found(c, n) == {ts[n] : ts \in {t \in SeriesOf(c) : n \in DOMAIN t}}
    <2> SUFFICES ASSUME InsertInv, WithLabel,
                        NEW c \in [GroupBy -> Values], NEW n \in Names, found(c, n) # {}
                 PROVE  \E k \in DOMAIN groups :
                          /\ Shown(k) = [m \in GroupBy \cup {labelKeyword} |->
                                           IF m = labelKeyword THEN n ELSE c[m]]
                          /\ groups[k] = found(c, n)
      BY DEF LabelValuesExact
    <2>1. PICK t \in SeriesOf(c) : n \in DOMAIN t
      OBVIOUS
    <2>2. /\ Append(KeyOf(c), n) \in DOMAIN groups
          /\ groups[Append(KeyOf(c), n)] = found(c, n)
          /\ Shown(Append(KeyOf(c), n)) =
               [m \in GroupBy \cup {labelKeyword} |-> IF m = labelKeyword THEN n ELSE c[m]]
      BY <2>1, LabelGroup
    <2> QED BY <2>2
  <1> QED BY <1>1, InsertInvariant, PTL
=============================================================================
