------------------------- MODULE GroupEstimatorProofs -------------------------
(***************************************************************************)
(* Proofs about GroupEstimator for any number of buckets, any group_limit, *)
(* any finite set of group keys, and any sets of fingerprints and reset    *)
(* calls.  At the end, the refinement of GroupWindow.                      *)
(***************************************************************************)
EXTENDS GroupWindow, FiniteSetTheorems, TLAPS

-----------------------------------------------------------------------------
(* The inductive invariant *)

\* A group key is only ever stored in the bucket it hashes to.
KeysHome == \A b \in Bucket : \A k \in KeysOf(b) : k \in Key /\ BucketOf(k) = b

\* The conjunction that is inductive.
IInv ==
  /\ TypeOK
  /\ KeysHome
  /\ HolderInv
  /\ BucketAccounting
  /\ SizeIsTracked
  /\ LimitOvershoot

-----------------------------------------------------------------------------
(* Facts about the operators *)

\* Every key hashes to one of the buckets: key % bucketsNum is an index.
LEMMA BucketOfType == \A k \in Key : BucketOf(k) \in Bucket
  BY NBAssumption, KeyAssumption DEF BucketOf, Bucket

\* A freshly made map is a map.
LEMMA EmptyMapType == EmptyMap \in GroupMap /\ DOMAIN EmptyMap = {}
  BY DEF EmptyMap, GroupMap

\* The keys of a map are finitely many group keys.
LEMMA GroupMapDomain ==
  ASSUME NEW m \in GroupMap
  PROVE  DOMAIN m \in SUBSET Key /\ IsFiniteSet(DOMAIN m)
  <1>1. DOMAIN m \in SUBSET Key
    BY DEF GroupMap
  <1> QED BY <1>1, KeyAssumption, FS_Subset

\* Inserting a hash yields a map that has the key and loses no other.
LEMMA InsertHashType ==
  ASSUME NEW m \in GroupMap, NEW k \in Key, NEW fp \in FP
  PROVE  /\ InsertHash(m, k, fp) \in GroupMap
         /\ DOMAIN InsertHash(m, k, fp) = DOMAIN m \cup {k}
  <1>1. PICK S \in SUBSET Key : m \in [S -> SUBSET FP]
    BY DEF GroupMap
  <1>2. InsertHash(m, k, fp) \in [S \cup {k} -> SUBSET FP]
    BY <1>1 DEF InsertHash
  <1>3. S \cup {k} \in SUBSET Key
    OBVIOUS
  <1> QED BY <1>1, <1>2, <1>3 DEF GroupMap, InsertHash

\* Removing a subset from a finite set takes off its cardinality.
LEMMA RemoveSubset ==
  ASSUME NEW A, NEW B \in SUBSET A, IsFiniteSet(A)
  PROVE  Cardinality(A \ B) = Cardinality(A) - Cardinality(B)
  <1>1. Cardinality(A \ B) = Cardinality(A) - Cardinality(A \cap B)
    BY FS_Difference, Zenon
  <1>2. A \cap B = B
    OBVIOUS
  <1> QED BY <1>1, <1>2, Zenon

\* The keys of a bucket are finitely many group keys.
LEMMA KeysOfFinite ==
  ASSUME TypeOK, NEW b \in Bucket
  PROVE  /\ KeysOf(b) \in SUBSET Key
         /\ IsFiniteSet(KeysOf(b))
         /\ Cardinality(KeysOf(b)) \in Nat
  <1>1. groups[b] \in GroupMap /\ prevGroups[b] \in GroupMap
    BY DEF TypeOK
  <1>2. KeysOf(b) \in SUBSET Key
    BY <1>1, GroupMapDomain DEF KeysOf
  <1> QED BY <1>2, KeyAssumption, FS_Subset, FS_CardinalityType

\* Any set of group keys is finite.
LEMMA KeySubset ==
  ASSUME NEW T \in SUBSET Key
  PROVE  IsFiniteSet(T) /\ Cardinality(T) \in Nat
  BY KeyAssumption, FS_Subset, FS_CardinalityType

\* The tracked groups are finitely many.
LEMMA TrackedFinite ==
  IsFiniteSet(Tracked) /\ Cardinality(Tracked) \in Nat
  <1>1. Tracked \in SUBSET Key
    BY DEF Tracked
  <1> QED BY <1>1, KeySubset

\* There are NB buckets: at most one admission per bucket is under way.
LEMMA BucketSubset ==
  ASSUME NEW T \in SUBSET Bucket
  PROVE  IsFiniteSet(T) /\ Cardinality(T) \in Nat /\ Cardinality(T) <= NB
  <1>1. IsFiniteSet(Bucket) /\ Cardinality(Bucket) = NB
    BY FS_Interval, NBAssumption DEF Bucket
  <1> QED BY <1>1, FS_Subset, FS_CardinalityType

-----------------------------------------------------------------------------
(* How a step changes the counts *)

\* A step that leaves both generations alone leaves the tracked groups alone.
LEMMA SameKeys ==
  ASSUME KeysHome, BucketAccounting, SizeIsTracked, UNCHANGED <<mapVars, bucketSizes, size>>
  PROVE  KeysHome' /\ BucketAccounting' /\ SizeIsTracked'
  BY DEF KeysHome, BucketAccounting, SizeIsTracked, mapVars, KeysOf, Tracked

\* Dropping groups from one bucket: the tracked groups lose as many.
LEMMA DropKeys ==
  ASSUME TypeOK, KeysHome, NEW b \in Bucket, NEW S \in SUBSET KeysOf(b),
         KeysOf(b)' = S, \A c \in Bucket \ {b} : KeysOf(c)' = KeysOf(c)
  PROVE  /\ Cardinality(S) \in Nat
         /\ Cardinality(S) <= Cardinality(KeysOf(b))
         /\ Cardinality(Tracked') =
              Cardinality(Tracked) - (Cardinality(KeysOf(b)) - Cardinality(S))
         /\ KeysHome'
  <1> DEFINE D == KeysOf(b) \ S
  <1>1. /\ KeysOf(b) \in SUBSET Key
        /\ IsFiniteSet(KeysOf(b))
        /\ Cardinality(KeysOf(b)) \in Nat
    BY KeysOfFinite
  <1>2. IsFiniteSet(S) /\ Cardinality(S) \in Nat /\ Cardinality(S) <= Cardinality(KeysOf(b))
    BY <1>1, FS_Subset, FS_CardinalityType
  <1>4. Cardinality(D) = Cardinality(KeysOf(b)) - Cardinality(S)
    BY <1>1, RemoveSubset
  <1>5. \A k \in Key : k \in KeysOf(b) => BucketOf(k) = b
    BY DEF KeysHome
  <1>6. Tracked' = Tracked \ D
    <2>1. ASSUME NEW k \in Key
          PROVE  k \in KeysOf(BucketOf(k))' <=> k \in KeysOf(BucketOf(k)) /\ k \notin D
      <3>1. CASE BucketOf(k) = b
        BY <3>1
      <3>2. CASE BucketOf(k) # b
        BY <3>2, <1>5, BucketOfType
      <3> QED BY <3>1, <3>2
    <2> QED BY <2>1 DEF Tracked
  <1>7. D \in SUBSET Tracked
    BY <1>1, <1>5 DEF Tracked
  <1>8. Cardinality(Tracked \ D) = Cardinality(Tracked) - Cardinality(D)
    BY <1>7, TrackedFinite, RemoveSubset, Zenon
  <1>9. KeysHome'
    BY DEF KeysHome
  <1> QED BY <1>2, <1>4, <1>6, <1>8, <1>9

\* Adding a new group to its bucket: the tracked groups gain one.
LEMMA AddKey ==
  ASSUME TypeOK, KeysHome, NEW k \in Key, NEW b \in Bucket,
         BucketOf(k) = b, k \notin KeysOf(b),
         KeysOf(b)' = KeysOf(b) \cup {k},
         \A c \in Bucket \ {b} : KeysOf(c)' = KeysOf(c)
  PROVE  /\ Cardinality(KeysOf(b)') = Cardinality(KeysOf(b)) + 1
         /\ Cardinality(Tracked') = Cardinality(Tracked) + 1
         /\ KeysHome'
  <1>1. Cardinality(KeysOf(b) \cup {k}) = Cardinality(KeysOf(b)) + 1
    BY KeysOfFinite, FS_AddElement
  <1>2. Tracked' = Tracked \cup {k}
    <2>1. ASSUME NEW j \in Key
          PROVE  j \in KeysOf(BucketOf(j))' <=> j \in KeysOf(BucketOf(j)) \/ j = k
      <3>1. CASE BucketOf(j) = b
        BY <3>1
      <3>2. CASE BucketOf(j) # b
        BY <3>2, BucketOfType
      <3> QED BY <3>1, <3>2
    <2> QED BY <2>1 DEF Tracked
  <1>3. k \notin Tracked
    BY DEF Tracked
  <1>4. Cardinality(Tracked \cup {k}) = Cardinality(Tracked) + 1
    BY <1>3, TrackedFinite, FS_AddElement
  <1>5. KeysHome'
    BY DEF KeysHome
  <1> QED BY <1>1, <1>2, <1>4, <1>5

\* rotateLocked, given the number of groups a bucket keeps, leaves both
\* counters equal to what they count.
LEMMA ShrinkBucket ==
  ASSUME IInv, NEW b \in Bucket, NEW S \in SUBSET KeysOf(b),
         KeysOf(b)' = S, \A c \in Bucket \ {b} : KeysOf(c)' = KeysOf(c),
         RotateSizes(b, Cardinality(S))
  PROVE  /\ KeysHome' /\ BucketAccounting' /\ SizeIsTracked'
         /\ bucketSizes' \in [Bucket -> Nat] /\ size' \in Nat /\ size' <= size
  <1> USE DEF IInv
  <1>1. /\ Cardinality(S) \in Nat
        /\ Cardinality(S) <= Cardinality(KeysOf(b))
        /\ Cardinality(Tracked') =
             Cardinality(Tracked) - (Cardinality(KeysOf(b)) - Cardinality(S))
        /\ KeysHome'
    BY DropKeys
  <1>2. bucketSizes[b] = Cardinality(KeysOf(b)) /\ bucketSizes[b] \in Nat
    BY DEF BucketAccounting, TypeOK
  <1>3. size \in Nat /\ size = Cardinality(Tracked)
    BY DEF TypeOK, SizeIsTracked
  <1>4. /\ bucketSizes' = [bucketSizes EXCEPT ![b] = Cardinality(S)]
        /\ size' = size - (bucketSizes[b] - Cardinality(S))
    <2>1. CASE bucketSizes[b] - Cardinality(S) > 0
      BY <2>1, <1>1, <1>2, <1>3 DEF RotateSizes, TypeOK
    <2>2. CASE ~ (bucketSizes[b] - Cardinality(S) > 0)
      <3>1. bucketSizes[b] = Cardinality(S)
        BY <2>2, <1>1, <1>2
      <3> QED BY <2>2, <3>1, <1>3 DEF RotateSizes, TypeOK
    <2> QED BY <2>1, <2>2
  <1>5. Cardinality(Tracked') \in Nat
    <2>1. Tracked' \in SUBSET Key
      BY DEF Tracked
    <2> QED BY <2>1, KeySubset
  <1>6. SizeIsTracked' /\ size' \in Nat /\ size' <= size
    BY <1>1, <1>2, <1>3, <1>4, <1>5 DEF SizeIsTracked
  <1>7. bucketSizes' \in [Bucket -> Nat]
    BY <1>1, <1>4 DEF TypeOK
  <1>8. BucketAccounting'
    BY <1>4 DEF BucketAccounting, TypeOK
  <1> QED BY <1>1, <1>6, <1>7, <1>8

\* A step that starts no admission keeps the bound on the overshoot when the
\* counter does not grow.
LEMMA NoAdmission ==
  ASSUME IInv, size' \in Nat, size' <= size, Admitting' \in SUBSET Admitting
  PROVE  LimitOvershoot'
  <1>1. /\ Cardinality(Admitting) \in Nat /\ Cardinality(Admitting') \in Nat
        /\ Cardinality(Admitting') <= Cardinality(Admitting)
    <2>1. Admitting \in SUBSET Bucket
      BY DEF Admitting
    <2> QED BY <2>1, BucketSubset, FS_Subset, FS_CardinalityType
  <1> QED BY <1>1, NBAssumption, LimitAssumption
       DEF IInv, TypeOK, LimitOvershoot

-----------------------------------------------------------------------------
(* The invariant is inductive *)

\* A new estimator satisfies the invariant.
LEMMA InitInv == Init => IInv
  <1> SUFFICES ASSUME Init PROVE IInv
    OBVIOUS
  <1> USE DEF Init
  <1>1. \A b \in Bucket : KeysOf(b) = {}
    BY EmptyMapType DEF KeysOf
  <1>2. TypeOK
    BY EmptyMapType, NBAssumption DEF TypeOK, Holder, Unlocked, Bucket
  <1>3. Tracked = {}
    BY <1>1, BucketOfType DEF Tracked
  <1>4. Admitting = {}
    BY DEF Admitting, Unlocked
  <1>5. KeysHome /\ HolderInv
    BY <1>1 DEF KeysHome, HolderInv, Unlocked
  <1>6. BucketAccounting /\ SizeIsTracked
    BY <1>1, <1>3, FS_EmptySet DEF BucketAccounting, SizeIsTracked
  <1>7. LimitOvershoot
    BY <1>4, FS_EmptySet, NBAssumption, LimitAssumption DEF LimitOvershoot
  <1> QED BY <1>2, <1>5, <1>6, <1>7 DEF IInv

\* An insert into a known group keeps the invariant: no count changes.
LEMMA InsertKnownInv ==
  ASSUME IInv, NEW k \in Key, NEW fp \in FP, InsertKnown(k, fp)
  PROVE  IInv'
  <1> DEFINE b == BucketOf(k)
  <1> USE DEF IInv
  <1>0. b \in Bucket
    BY BucketOfType
  <1>1. groups' = [groups EXCEPT ![b] = InsertHash(groups[b], k, fp)]
    BY DEF InsertKnown
  <1>2. /\ InsertHash(groups[b], k, fp) \in GroupMap
        /\ DOMAIN InsertHash(groups[b], k, fp) = DOMAIN groups[b] \cup {k}
    <2>1. groups[b] \in GroupMap
      BY <1>0 DEF TypeOK
    <2> QED BY <2>1, InsertHashType
  <1> HIDE DEF b
  <1>3. TypeOK'
    BY <1>0, <1>1, <1>2 DEF TypeOK, InsertKnown, sizeVars, threadVars
  <1>4. \A c \in Bucket : KeysOf(c)' = KeysOf(c)
    <2> SUFFICES ASSUME NEW c \in Bucket PROVE KeysOf(c)' = KeysOf(c)
      OBVIOUS
    <2>1. prevGroups' = prevGroups /\ k \in KeysOf(b)
      BY DEF InsertKnown, b
    <2>2. CASE c = b
      BY <2>1, <2>2, <1>0, <1>1, <1>2 DEF TypeOK, KeysOf
    <2>3. CASE c # b
      BY <2>1, <2>3, <1>0, <1>1 DEF TypeOK, KeysOf
    <2> QED BY <2>2, <2>3
  <1>5. Tracked' = Tracked
    BY <1>4, BucketOfType DEF Tracked
  <1>6. KeysHome' /\ HolderInv'
    BY <1>4 DEF KeysHome, HolderInv, InsertKnown, threadVars
  <1>7. BucketAccounting' /\ SizeIsTracked'
    BY <1>4, <1>5 DEF BucketAccounting, SizeIsTracked, InsertKnown, sizeVars
  <1>8. LimitOvershoot'
    BY DEF LimitOvershoot, Admitting, InsertKnown, sizeVars, threadVars
  <1> QED BY <1>3, <1>6, <1>7, <1>8

\* The limit check keeps it: an admission starts only below the limit.
LEMMA InsertCheckLimitInv ==
  ASSUME IInv, NEW k \in Key, NEW fp \in FP, InsertCheckLimit(k, fp)
  PROVE  IInv'
  <1> DEFINE b == BucketOf(k)
  <1> USE DEF IInv
  <1>0. b \in Bucket
    BY BucketOfType
  <1>1. PICK h \in Holder :
          /\ lock' = [lock EXCEPT ![b] = h]
          /\ h.at \in {"admit", "reject"} /\ h.key = k
          /\ h.at = "admit" => ~(size >= Limit)
    <2>1. [at |-> "admit", key |-> k, fp |-> fp] \in Holder
      BY DEF Holder
    <2>2. [at |-> "reject", key |-> k, fp |-> fp] \in Holder
      BY DEF Holder
    <2>3. CASE size >= Limit
      BY <2>2, <2>3 DEF InsertCheckLimit
    <2>4. CASE ~(size >= Limit)
      BY <2>1, <2>4 DEF InsertCheckLimit
    <2> QED BY <2>3, <2>4
  <1>2. UNCHANGED <<mapVars, sizeVars, bucketIdx, rotation, resetIdx>>
    BY DEF InsertCheckLimit
  <1>3. TypeOK'
    BY <1>0, <1>1, <1>2 DEF TypeOK, mapVars, sizeVars
  <1>4. KeysHome' /\ BucketAccounting' /\ SizeIsTracked'
    BY <1>2, SameKeys DEF sizeVars
  <1>5. HolderInv'
    BY <1>0, <1>1, <1>2 DEF HolderInv, TypeOK, InsertCheckLimit, KeysOf, mapVars
  <1>6. LimitOvershoot'
    <2>1. CASE h.at = "admit"
      <3>1. Cardinality(Admitting') \in Nat /\ Cardinality(Admitting') <= NB
        <4>1. Admitting' \in SUBSET Bucket
          BY DEF Admitting
        <4> QED BY <4>1, BucketSubset
      <3> QED BY <2>1, <3>1, <1>1, <1>2, NBAssumption, LimitAssumption
           DEF LimitOvershoot, TypeOK, sizeVars
    <2>2. CASE h.at # "admit"
      <3>1. Admitting' \in SUBSET Admitting
        BY <2>2, <1>0, <1>1 DEF Admitting, TypeOK
      <3> QED BY <3>1, <1>2, NoAdmission DEF TypeOK, sizeVars
    <2> QED BY <2>1, <2>2
  <1> QED BY <1>3, <1>4, <1>5, <1>6

\* The group that a holder is about to insert or reject is a group key.
LEMMA HolderKey ==
  ASSUME TypeOK, NEW b \in Bucket, lock[b].at \in {"admit", "reject"}
  PROVE  lock[b].key \in Key /\ lock[b].fp \in FP
  BY DEF TypeOK, Holder

\* Counting and storing a new group keeps it: both counts grow by one.
LEMMA InsertAdmittedInv ==
  ASSUME IInv, NEW b \in Bucket, InsertAdmitted(b)
  PROVE  IInv'
  <1> DEFINE k == lock[b].key
             m == InsertHash(groups[b], k, lock[b].fp)
  <1> USE DEF IInv
  <1>0. k \in Key /\ BucketOf(k) = b /\ k \notin KeysOf(b)
    BY HolderKey DEF InsertAdmitted, HolderInv
  <1>1. m \in GroupMap /\ DOMAIN m = DOMAIN groups[b] \cup {k}
    <2>1. groups[b] \in GroupMap /\ lock[b].fp \in FP
      BY HolderKey DEF TypeOK, InsertAdmitted
    <2> QED BY <1>0, <2>1, InsertHashType
  <1>2. /\ groups' = [groups EXCEPT ![b] = m]
        /\ lock' = [lock EXCEPT ![b] = Unlocked]
        /\ bucketSizes' = [bucketSizes EXCEPT ![b] = @ + 1]
        /\ size' = size + 1
        /\ UNCHANGED <<prevGroups, rejectSketches, bucketIdx, rotation, resetIdx>>
    BY DEF InsertAdmitted
  <1> HIDE DEF m, k
  <1>3. TypeOK'
    BY <1>1, <1>2 DEF TypeOK, Holder, Unlocked
  <1>4. KeysOf(b)' = KeysOf(b) \cup {k}
    BY <1>1, <1>2 DEF TypeOK, KeysOf
  <1>5. \A c \in Bucket \ {b} : KeysOf(c)' = KeysOf(c)
    BY <1>2 DEF TypeOK, KeysOf
  <1>6. /\ Cardinality(KeysOf(b)') = Cardinality(KeysOf(b)) + 1
        /\ Cardinality(Tracked') = Cardinality(Tracked) + 1
        /\ KeysHome'
    BY <1>0, <1>4, <1>5, AddKey
  <1>7. BucketAccounting'
    BY <1>2, <1>5, <1>6 DEF BucketAccounting, TypeOK
  <1>8. SizeIsTracked'
    BY <1>2, <1>6 DEF SizeIsTracked
  <1>9. HolderInv'
    BY <1>2, <1>5 DEF HolderInv, TypeOK, Unlocked
  <1>10. LimitOvershoot'
    <2>1. Admitting \in SUBSET Bucket /\ b \in Admitting
      BY DEF Admitting, InsertAdmitted
    <2>2. Admitting' = Admitting \ {b}
      BY <1>2 DEF Admitting, TypeOK, Unlocked
    <2>3. Cardinality(Admitting') = Cardinality(Admitting) - 1
      BY <2>1, <2>2, BucketSubset, FS_RemoveElement
    <2> QED BY <2>1, <2>3, <1>2, BucketSubset, NBAssumption, LimitAssumption
         DEF LimitOvershoot, TypeOK
  <1> QED BY <1>3, <1>6, <1>7, <1>8, <1>9, <1>10

\* Releasing a mutex, with the two counters and the maps left alone.
LEMMA UnlockInv ==
  ASSUME IInv, NEW b \in Bucket, lock' = [lock EXCEPT ![b] = Unlocked],
         UNCHANGED <<mapVars, bucketSizes, size>>
  PROVE  /\ KeysHome' /\ BucketAccounting' /\ SizeIsTracked' /\ LimitOvershoot'
         /\ lock' \in [Bucket -> Holder]
         /\ lock'[b].at = "free"
         /\ \A c \in Bucket : c # b => lock'[c] = lock[c]
         /\ \A c \in Bucket : KeysOf(c)' = KeysOf(c)
  <1> USE DEF IInv
  <1>1. KeysHome' /\ BucketAccounting' /\ SizeIsTracked'
    BY SameKeys
  <1>2. /\ lock' \in [Bucket -> Holder] /\ lock'[b].at = "free"
        /\ \A c \in Bucket : c # b => lock'[c] = lock[c]
    BY DEF TypeOK, Holder, Unlocked
  <1>3. Admitting' \in SUBSET Admitting
    BY <1>2 DEF Admitting
  <1>4. LimitOvershoot'
    BY <1>3, NoAdmission DEF TypeOK
  <1>5. \A c \in Bucket : KeysOf(c)' = KeysOf(c)
    BY DEF KeysOf, mapVars
  <1> QED BY <1>1, <1>2, <1>4, <1>5

\* Recording a rejected group keeps it.
LEMMA InsertRejectedInv ==
  ASSUME IInv, NEW b \in Bucket, InsertRejected(b)
  PROVE  IInv'
  <1> USE DEF IInv
  <1>1. /\ lock' = [lock EXCEPT ![b] = Unlocked]
        /\ rejectSketches' = [rejectSketches EXCEPT ![b] = @ \cup {lock[b].key}]
        /\ UNCHANGED <<mapVars, bucketSizes, size, bucketIdx, rotation, resetIdx>>
    BY DEF InsertRejected
  <1>2. lock[b].key \in Key
    BY HolderKey DEF InsertRejected
  <1>3. TypeOK'
    BY <1>1, <1>2, UnlockInv DEF TypeOK, mapVars
  <1>4. HolderInv'
    BY <1>1, UnlockInv DEF HolderInv
  <1> QED BY <1>1, <1>3, <1>4, UnlockInv

\* The end of a bucket's rotation keeps it: only one rotation is under way.
LEMMA RotateDoneInv ==
  ASSUME IInv, NEW b \in Bucket, RotateDone(b)
  PROVE  IInv'
  <1> USE DEF IInv
  <1>1. /\ lock' = [lock EXCEPT ![b] = Unlocked]
        /\ rejectSketches' = [rejectSketches EXCEPT ![b] = {}]
        /\ UNCHANGED <<mapVars, bucketSizes, size, rotation, resetIdx>>
        /\ bucketIdx' = (bucketIdx + 1) % NB
    BY DEF RotateDone, ClearRejected
  <1>2. bucketIdx' \in Bucket
    BY <1>1, NBAssumption DEF TypeOK, Bucket
  <1>3. TypeOK'
    BY <1>1, <1>2, UnlockInv DEF TypeOK, mapVars
  <1>4. \A c \in Bucket : lock[c].at = "rotate" => c = b
    BY DEF HolderInv, RotateDone
  <1>5. HolderInv'
    BY <1>1, <1>4, UnlockInv DEF HolderInv
  <1> QED BY <1>1, <1>3, <1>5, UnlockInv

\* The end of a bucket's reset keeps it: a reset call is at one bucket.
LEMMA ResetDoneInv ==
  ASSUME IInv, NEW b \in Bucket, ResetDone(b)
  PROVE  IInv'
  <1> DEFINE r == lock[b].by
  <1> USE DEF IInv
  <1>1. /\ lock' = [lock EXCEPT ![b] = Unlocked]
        /\ rejectSketches' = [rejectSketches EXCEPT ![b] = {}]
        /\ resetIdx' = [resetIdx EXCEPT ![r] = @ + 1]
        /\ UNCHANGED <<mapVars, bucketSizes, size, bucketIdx, rotation>>
    BY DEF ResetDone, ClearRejected
  <1>2. r \in Resetter /\ resetIdx[r] = b
    BY DEF TypeOK, Holder, HolderInv, ResetDone
  <1>3. \A c \in Bucket : lock[c].at = "reset" /\ lock[c].by = r => c = b
    BY <1>2 DEF HolderInv
  <1> HIDE DEF r
  <1>4. resetIdx' \in [Resetter -> 0 .. NB]
    BY <1>1, <1>2, NBAssumption DEF TypeOK, Bucket
  <1>5. TypeOK'
    BY <1>1, <1>4, UnlockInv DEF TypeOK, mapVars
  <1>6. \A c \in Bucket : c # b /\ lock[c].at = "reset" => resetIdx'[lock[c].by] = c
    BY <1>1, <1>3 DEF TypeOK, Holder, HolderInv
  <1>7. HolderInv'
    BY <1>1, <1>6, UnlockInv DEF HolderInv
  <1> QED BY <1>1, <1>5, <1>7, UnlockInv

\* A mutex taken by rotate or reset: no admission starts.
LEMMA LockInv ==
  ASSUME IInv, NEW b \in Bucket, NEW h \in Holder, h.at \in {"rotate", "reset"},
         lock' = [lock EXCEPT ![b] = h]
  PROVE  /\ lock' \in [Bucket -> Holder]
         /\ lock'[b] = h
         /\ \A c \in Bucket : c # b => lock'[c] = lock[c]
         /\ Admitting' \in SUBSET Admitting
  <1>1. /\ lock' \in [Bucket -> Holder] /\ lock'[b] = h
        /\ \A c \in Bucket : c # b => lock'[c] = lock[c]
    BY DEF IInv, TypeOK
  <1> QED BY <1>1 DEF Admitting

\* A rotation keeps it: the counts lose the groups of the old generation only.
LEMMA RotateInv ==
  ASSUME IInv, NEW b \in Bucket, Rotate(b)
  PROVE  IInv'
  <1> DEFINE h == [at |-> "rotate"]
  <1> USE DEF IInv
  <1>1. /\ rotation # "stopped" /\ b = bucketIdx /\ lock[b] = Unlocked
        /\ prevGroups' = [prevGroups EXCEPT ![b] = groups[b]]
        /\ groups' = [groups EXCEPT ![b] = EmptyMap]
        /\ RotateSizes(b, Cardinality(DOMAIN groups[b]))
        /\ lock' = [lock EXCEPT ![b] = h]
        /\ UNCHANGED <<rejectSketches, bucketIdx, rotation, resetIdx>>
    BY DEF Rotate
  <1>2. KeysOf(b)' = DOMAIN groups[b] /\ DOMAIN groups[b] \in SUBSET KeysOf(b)
    BY <1>1, EmptyMapType DEF TypeOK, KeysOf
  <1>3. \A c \in Bucket \ {b} : KeysOf(c)' = KeysOf(c)
    BY <1>1 DEF TypeOK, KeysOf
  <1>4. /\ KeysHome' /\ BucketAccounting' /\ SizeIsTracked'
        /\ bucketSizes' \in [Bucket -> Nat] /\ size' \in Nat /\ size' <= size
    BY <1>1, <1>2, <1>3, ShrinkBucket
  <1>5. h \in Holder /\ h.at = "rotate"
    BY DEF Holder
  <1>6. /\ lock' \in [Bucket -> Holder] /\ lock'[b].at = "rotate"
        /\ \A c \in Bucket : c # b => lock'[c] = lock[c]
        /\ Admitting' \in SUBSET Admitting
    BY <1>1, <1>5, LockInv
  <1> HIDE DEF h
  <1>7. TypeOK'
    BY <1>1, <1>4, <1>6, EmptyMapType DEF TypeOK
  <1>8. HolderInv'
    BY <1>1, <1>3, <1>6 DEF HolderInv
  <1> QED BY <1>4, <1>6, <1>7, <1>8, NoAdmission

\* A bucket's reset keeps it: the counts lose all groups of the bucket.
LEMMA ResetInv ==
  ASSUME IInv, NEW b \in Bucket, NEW r \in Resetter, Reset(b, r)
  PROVE  IInv'
  <1> DEFINE h == [at |-> "reset", by |-> r]
  <1> USE DEF IInv
  <1>1. /\ b = resetIdx[r] /\ lock[b] = Unlocked
        /\ groups' = [groups EXCEPT ![b] = EmptyMap]
        /\ prevGroups' = [prevGroups EXCEPT ![b] = EmptyMap]
        /\ RotateSizes(b, 0)
        /\ lock' = [lock EXCEPT ![b] = h]
        /\ UNCHANGED <<rejectSketches, bucketIdx, rotation, resetIdx>>
    BY DEF Reset
  <1>2. KeysOf(b)' = {} /\ {} \in SUBSET KeysOf(b) /\ Cardinality({}) = 0
    BY <1>1, EmptyMapType, FS_EmptySet DEF TypeOK, KeysOf
  <1>3. \A c \in Bucket \ {b} : KeysOf(c)' = KeysOf(c)
    BY <1>1 DEF TypeOK, KeysOf
  <1>4. /\ KeysHome' /\ BucketAccounting' /\ SizeIsTracked'
        /\ bucketSizes' \in [Bucket -> Nat] /\ size' \in Nat /\ size' <= size
    BY <1>1, <1>2, <1>3, ShrinkBucket
  <1>5. h \in Holder /\ h.at = "reset" /\ h.by = r
    BY DEF Holder
  <1>6. /\ lock' \in [Bucket -> Holder] /\ lock'[b].at = "reset" /\ lock'[b].by = r
        /\ \A c \in Bucket : c # b => lock'[c] = lock[c]
        /\ Admitting' \in SUBSET Admitting
    BY <1>1, <1>5, LockInv
  <1> HIDE DEF h
  <1>7. TypeOK'
    BY <1>1, <1>4, <1>6, EmptyMapType DEF TypeOK
  <1>8. HolderInv'
    BY <1>1, <1>3, <1>6 DEF HolderInv
  <1> QED BY <1>4, <1>6, <1>7, <1>8, NoAdmission

\* Steps that touch neither the buckets nor the counters.
LEMMA ThreadInv ==
  ASSUME IInv,
         (\E r \in Resetter : ResetStart(r)) \/ Stop \/ RotationExit
           \/ UNCHANGED vars
  PROVE  IInv'
  <1> USE DEF IInv
  <1>1. UNCHANGED <<mapVars, sizeVars, lock, bucketIdx>>
    BY DEF ResetStart, Stop, RotationExit, vars, mapVars, sizeVars
  <1>2. KeysHome' /\ BucketAccounting' /\ SizeIsTracked'
    BY <1>1, SameKeys DEF sizeVars
  <1>3. Admitting' \in SUBSET Admitting /\ size' \in Nat /\ size' <= size
    BY <1>1 DEF Admitting, sizeVars, TypeOK
  <1>4. \A c \in Bucket : KeysOf(c)' = KeysOf(c)
    BY <1>1 DEF mapVars, KeysOf
  <1>5. CASE \E r \in Resetter : ResetStart(r)
    <2>1. PICK r \in Resetter : ResetStart(r)
      BY <1>5
    <2>2. TypeOK'
      BY <2>1, <1>1, NBAssumption DEF TypeOK, ResetStart, mapVars, sizeVars
    <2>3. \A c \in Bucket : lock[c].at = "reset" => lock[c].by # r
      BY <2>1, NBAssumption DEF ResetStart, HolderInv, Bucket
    <2>4. HolderInv'
      BY <2>1, <2>3, <1>1, <1>4 DEF HolderInv, ResetStart, TypeOK, Holder
    <2> QED BY <2>2, <2>4, <1>2, <1>3, NoAdmission
  <1>6. CASE Stop \/ RotationExit \/ UNCHANGED vars
    <2>1. TypeOK'
      BY <1>6, <1>1 DEF TypeOK, Stop, RotationExit, vars, mapVars, sizeVars
    <2>2. HolderInv'
      BY <1>6, <1>1, <1>4 DEF HolderInv, Stop, RotationExit, vars
    <2> QED BY <2>1, <2>2, <1>2, <1>3, NoAdmission
  <1> QED BY <1>5, <1>6

\* Every step keeps the invariant.
LEMMA NextInv == IInv /\ [Next]_vars => IInv'
  <1> SUFFICES ASSUME IInv, [Next]_vars PROVE IInv'
    OBVIOUS
  <1>1. CASE \E k \in Key : Insert(k)
    BY <1>1, InsertKnownInv, InsertCheckLimitInv DEF Insert
  <1>2. CASE \E b \in Bucket : HolderStep(b)
    BY <1>2, InsertAdmittedInv, InsertRejectedInv, RotateDoneInv, ResetDoneInv
       DEF HolderStep
  <1>3. CASE \E b \in Bucket : Rotate(b)
    BY <1>3, RotateInv
  <1>4. CASE \E r \in Resetter, b \in Bucket : Reset(b, r)
    BY <1>4, ResetInv
  <1>5. CASE (\E r \in Resetter : ResetStart(r)) \/ Stop \/ RotationExit
               \/ UNCHANGED vars
    BY <1>5, ThreadInv
  <1> QED BY <1>1, <1>2, <1>3, <1>4, <1>5 DEF Next

-----------------------------------------------------------------------------
(* Theorems *)

\* IInv holds in every reachable state, for every value of the constants.
THEOREM Invariance == Spec => []IInv
  BY InitInv, NextInv, PTL DEF Spec

\* Every variable keeps its type: no counter of groupSize goes negative and no
\* bucket index of runRotation or reset leaves the bucket array.
THEOREM TypeCorrect == Spec => []TypeOK
  <1>1. IInv => TypeOK
    BY DEF IInv
  <1> QED BY <1>1, Invariance, PTL

\* Each bucket's counter of groupSize is the number of groups the bucket holds in
\* either generation, each counted once.
THEOREM BucketCountersExact == Spec => []BucketAccounting
  <1>1. IInv => BucketAccounting
    BY DEF IInv
  <1> QED BY <1>1, Invariance, PTL

\* The shared counter of groupSize, which buckets update under different
\* mutexes, is the number of groups the estimator holds.
THEOREM CountersExact == Spec => []SizeIsTracked
  <1>1. IInv => SizeIsTracked
    BY DEF IInv
  <1> QED BY <1>1, Invariance, PTL

\* However many buckets race through allowInsertLocked, rotate and reset,
\* group_limit is exceeded by less than the number of buckets.
THEOREM OvershootBounded == Spec => []LimitOvershoot
  <1>1. IInv => LimitOvershoot
    BY DEF IInv
  <1> QED BY <1>1, Invariance, PTL

\* What a goroutine relies on while it holds a bucket's mutex is not disturbed by
\* those that hold others: the group it is about to insert stays unknown to the
\* bucket, and rotation and resets stay at the bucket they are working on.
THEOREM HoldersUndisturbed == Spec => []HolderInv
  <1>1. IInv => HolderInv
    BY DEF IInv
  <1> QED BY <1>1, Invariance, PTL

\* The maps of one generation have no more sketches than there are groups.
LEMMA OneSketchPerGroup ==
  ASSUME IInv, NEW STATE maps, maps \in {groups, prevGroups}
  PROVE  /\ Cardinality(SketchesIn(maps)) \in Nat
         /\ Cardinality(SketchesIn(maps)) <= Cardinality(Tracked)
  <1> DEFINE f == [e \in SketchesIn(maps) |-> e[2]]
  <1>1. \A e \in SketchesIn(maps) :
          e[1] \in Bucket /\ e[2] \in Key /\ e = <<e[1], e[2]>> /\ e[2] \in KeysOf(e[1])
    BY DEF SketchesIn, KeysOf
  <1>2. \A e \in SketchesIn(maps) : BucketOf(e[2]) = e[1] /\ e[2] \in Tracked
    BY <1>1 DEF IInv, KeysHome, Tracked
  <1>3. \A c, d \in SketchesIn(maps) : c[2] = d[2] => c = d
    BY <1>1, <1>2
  <1>4. f \in Injection(SketchesIn(maps), Tracked)
    BY <1>2, <1>3 DEF Injection, IsInjective
  <1> QED BY <1>4, TrackedFinite, FS_Injection, FS_CardinalityType

\* The memory of a stream is bounded by its limit: there are at most two sketches
\* per group, one for each generation, and the groups exceed the limit by less
\* than the number of buckets.
THEOREM MemoryBounded == Spec => []SketchMemory
  <1>1. IInv => SketchMemory
    <2> SUFFICES ASSUME IInv PROVE SketchMemory
      OBVIOUS
    <2>1. Admitting \in SUBSET Bucket
      BY DEF Admitting
    <2>2. Cardinality(Admitting) \in Nat
      BY <2>1, BucketSubset
    <2>3. Cardinality(Tracked) \in Nat /\ Cardinality(Tracked) <= Limit + NB - 1
      BY <2>2, TrackedFinite, NBAssumption, LimitAssumption
         DEF IInv, SizeIsTracked, LimitOvershoot
    <2> QED BY <2>3, OneSketchPerGroup, NBAssumption, LimitAssumption
         DEF SketchMemory, Sketches
  <1> QED BY <1>1, Invariance, PTL

\* With a single bucket the limit check and the count cannot be separated by
\* another bucket: group_limit is respected.
THEOREM SingleBucketRespectsLimit ==
  ASSUME NB = 1
  PROVE  Spec => []GroupLimitRespected
  <1>1. IInv => GroupLimitRespected
    <2> SUFFICES ASSUME IInv PROVE GroupLimitRespected
      OBVIOUS
    <2>1. Admitting \in SUBSET Bucket
      BY DEF Admitting
    <2>2. Cardinality(Admitting) \in Nat
      BY <2>1, BucketSubset
    <2> QED BY <2>2, LimitAssumption
         DEF IInv, TypeOK, LimitOvershoot, GroupLimitRespected
  <1> QED BY <1>1, Invariance, PTL

-----------------------------------------------------------------------------
(* The refinement of SlidingWindow: under IInv every step of the buckets is a *)
(* step of the sliding window, or leaves all ages alone.                      *)

\* A freshly made map holds nothing.
LEMMA EmptyMapHolds == \A k, fp : ~ Holds(EmptyMap, k, fp)
  BY EmptyMapType DEF Holds

\* InsertHash adds one series to one group.
LEMMA InsertHashHolds ==
  ASSUME NEW m \in GroupMap, NEW k \in Key, NEW fp \in FP
  PROVE  \A j \in Key, f \in FP :
           Holds(InsertHash(m, k, fp), j, f) <=> Holds(m, j, f) \/ (j = k /\ f = fp)
  BY DEF Holds, InsertHash, GroupMap

\* The age of a series follows from the two maps of its bucket.
LEMMA AgeOf ==
  ASSUME NEW k \in Key, NEW fp \in FP
  PROVE  /\ ageOf[k][fp] = IF Holds(groups[BucketOf(k)], k, fp) THEN 0
                           ELSE IF Holds(prevGroups[BucketOf(k)], k, fp) THEN 1 ELSE 2
         /\ ageOf'[k][fp] = IF Holds(groups'[BucketOf(k)], k, fp) THEN 0
                            ELSE IF Holds(prevGroups'[BucketOf(k)], k, fp) THEN 1 ELSE 2
         /\ ageOf[k][fp] \in 0 .. 2
  BY DEF ageOf

\* A step that leaves the maps alone leaves the ages alone.
LEMMA SameAge == UNCHANGED mapVars => UNCHANGED ageOf
  BY DEF mapVars, ageOf

\* A group that is counted has a sketch.
LEMMA VisibleTracked == Window!Visible \subseteq Tracked
  <1> SUFFICES ASSUME NEW k \in Key, NEW fp \in FP, ageOf[k][fp] < 2
               PROVE  k \in Tracked
    BY DEF Window!Visible
  <1> QED BY AgeOf DEF Tracked, KeysOf, Holds

\* Two age functions that agree on every series of every group are equal.
LEMMA SameAges ==
  ASSUME NEW A \in [Key -> [FP -> 0 .. 2]], NEW B \in [Key -> [FP -> 0 .. 2]],
         \A k \in Key, fp \in FP : A[k][fp] = B[k][fp]
  PROVE  A = B
  OBVIOUS

\* The refinement mapping yields ages of the window, before and after a step.
LEMMA AgeType == ageOf \in [Key -> [FP -> 0 .. 2]] /\ ageOf' \in [Key -> [FP -> 0 .. 2]]
  BY DEF ageOf

\* SlidingWindow means the same Cardinality.
LEMMA SameCardinality == \A S : Window!Cardinality(S) = Cardinality(S)
  BY Zenon DEF Window!Cardinality, Cardinality

-----------------------------------------------------------------------------
(* The steps *)

\* Storing a series in the current generation of its bucket makes its age 0.
LEMMA InsertCounts ==
  ASSUME IInv, NEW k \in Key, NEW fp \in FP,
         groups' = [groups EXCEPT ![BucketOf(k)] = InsertHash(groups[BucketOf(k)], k, fp)],
         UNCHANGED prevGroups
  PROVE  ageOf' = [ageOf EXCEPT ![k][fp] = 0]
  <1> DEFINE A == [ageOf EXCEPT ![k][fp] = 0]
             b == BucketOf(k)
  <1>1. b \in Bucket /\ groups \in [Bucket -> GroupMap] /\ groups[b] \in GroupMap
    BY BucketOfType DEF IInv, TypeOK
  <1>2. A \in [Key -> [FP -> 0 .. 2]]
    BY AgeType
  <1>3. ASSUME NEW j \in Key, NEW f \in FP
        PROVE  ageOf'[j][f] = A[j][f]
    <2>1. Holds(groups'[BucketOf(j)], j, f) <=>
            Holds(groups[BucketOf(j)], j, f) \/ (j = k /\ f = fp)
      <3>1. CASE BucketOf(j) = b
        BY <3>1, <1>1, InsertHashHolds
      <3>2. CASE BucketOf(j) # b
        BY <3>2, <1>1, BucketOfType
      <3> QED BY <3>1, <3>2
    <2>2. A[j][f] = IF j = k /\ f = fp THEN 0 ELSE ageOf[j][f]
      BY AgeType
    <2> QED BY <2>1, <2>2, AgeOf
  <1> QED BY <1>2, <1>3, AgeType, SameAges

\* An insert into a known group is an arrival: the group is counted already, or
\* it is tracked without being counted and has its place.
LEMMA InsertKnownCounts ==
  ASSUME IInv, NEW k \in Key, NEW fp \in FP, InsertKnown(k, fp)
  PROVE  Window!Count(k, fp)
  <1>1. ageOf' = [ageOf EXCEPT ![k][fp] = 0]
    BY InsertCounts DEF InsertKnown
  <1>2. k \in Tracked
    BY DEF Tracked, InsertKnown
  <1>3. ASSUME k \notin Window!Visible
        PROVE  Cardinality(Window!Visible) < Limit + NB - 1
    <2>1. Window!Visible \in SUBSET (Tracked \ {k})
      BY <1>3, VisibleTracked
    <2>2. IsFiniteSet(Tracked \ {k}) /\ Cardinality(Tracked \ {k}) = Cardinality(Tracked) - 1
      BY <1>2, TrackedFinite, FS_RemoveElement
    <2>3. /\ Cardinality(Window!Visible) \in Nat
          /\ Cardinality(Window!Visible) <= Cardinality(Tracked) - 1
      BY <2>1, <2>2, FS_Subset, FS_CardinalityType
    <2>4. Cardinality(Admitting) \in Nat
      <3>1. Admitting \in SUBSET Bucket
        BY DEF Admitting
      <3> QED BY <3>1, BucketSubset
    <2> QED BY <2>3, <2>4, TrackedFinite, NBAssumption, LimitAssumption
         DEF IInv, SizeIsTracked, LimitOvershoot
  <1> QED BY <1>1, <1>3, SameCardinality DEF Window!Count

\* The insert of a group that passed the limit check is an arrival: its place is
\* accounted for by Admitting.
LEMMA InsertAdmittedCounts ==
  ASSUME IInv, NEW b \in Bucket, InsertAdmitted(b)
  PROVE  \E k \in Key, fp \in FP : Window!Count(k, fp)
  <1> DEFINE k == lock[b].key
             fp == lock[b].fp
  <1>1. k \in Key /\ fp \in FP /\ BucketOf(k) = b
    BY HolderKey DEF IInv, HolderInv, InsertAdmitted
  <1>2. ageOf' = [ageOf EXCEPT ![k][fp] = 0]
    <2>1. /\ groups' = [groups EXCEPT ![b] = InsertHash(groups[b], k, fp)]
          /\ UNCHANGED prevGroups
      BY DEF InsertAdmitted
    <2> HIDE DEF k, fp
    <2> QED BY <1>1, <2>1, InsertCounts
  <1>3. Cardinality(Window!Visible) < Limit + NB - 1
    <2>1. Cardinality(Window!Visible) \in Nat /\ Cardinality(Window!Visible) <= Cardinality(Tracked)
      BY VisibleTracked, TrackedFinite, FS_Subset, FS_CardinalityType
    <2>2. Admitting \in SUBSET Bucket /\ b \in Admitting
      BY DEF Admitting, InsertAdmitted
    <2>3. Cardinality(Admitting) \in Nat /\ Cardinality(Admitting) # 0
      BY <2>2, BucketSubset, FS_EmptySet
    <2> QED BY <2>1, <2>3, TrackedFinite, NBAssumption, LimitAssumption
         DEF IInv, SizeIsTracked, LimitOvershoot
  <1> QED BY <1>1, <1>2, <1>3, SameCardinality DEF Window!Count

\* A rotation moves the window of the bucket on: what the current generation
\* holds becomes age 1, and what only the previous one held is dropped.
LEMMA RotateSlides ==
  ASSUME IInv, NEW b \in Bucket, Rotate(b)
  PROVE  Window!Slide(b)
  <1> DEFINE A == [k \in Key |-> [fp \in FP |->
                     IF k \in Window!Shard(b) /\ ageOf[k][fp] < 2
                     THEN ageOf[k][fp] + 1 ELSE ageOf[k][fp]]]
  <1>1. A \in [Key -> [FP -> 0 .. 2]]
    BY AgeOf
  <1>2. /\ groups \in [Bucket -> GroupMap] /\ prevGroups \in [Bucket -> GroupMap]
        /\ groups' = [groups EXCEPT ![b] = EmptyMap]
        /\ prevGroups' = [prevGroups EXCEPT ![b] = groups[b]]
    BY DEF IInv, TypeOK, Rotate
  <1>3. ASSUME NEW k \in Key, NEW fp \in FP
        PROVE  ageOf'[k][fp] = A[k][fp]
    <2>1. CASE BucketOf(k) = b
      <3>1. k \in Window!Shard(b)
        BY <2>1 DEF Window!Shard, BucketOf
      <3>2. /\ ~ Holds(groups'[b], k, fp)
            /\ Holds(prevGroups'[b], k, fp) <=> Holds(groups[b], k, fp)
        BY <1>2, EmptyMapHolds
      <3> QED BY <2>1, <3>1, <3>2, AgeOf
    <2>2. CASE BucketOf(k) # b
      <3>1. k \notin Window!Shard(b)
        BY <2>2 DEF Window!Shard, BucketOf
      <3>2. /\ groups'[BucketOf(k)] = groups[BucketOf(k)]
            /\ prevGroups'[BucketOf(k)] = prevGroups[BucketOf(k)]
        BY <2>2, <1>2, BucketOfType
      <3> QED BY <3>1, <3>2, AgeOf
    <2> QED BY <2>1, <2>2
  <1>4. ageOf' = A
    <2> HIDE DEF A
    <2> QED BY <1>1, <1>3, AgeType, SameAges
  <1> QED BY <1>4 DEF Window!Slide

\* A reset forgets all series of the bucket.
LEMMA ResetForgets ==
  ASSUME IInv, NEW b \in Bucket, NEW r \in Resetter, Reset(b, r)
  PROVE  Window!Forget(b)
  <1> DEFINE A == [k \in Key |-> [fp \in FP |->
                     IF k \in Window!Shard(b) THEN 2 ELSE ageOf[k][fp]]]
  <1>1. A \in [Key -> [FP -> 0 .. 2]]
    BY AgeOf
  <1>2. /\ groups \in [Bucket -> GroupMap] /\ prevGroups \in [Bucket -> GroupMap]
        /\ groups' = [groups EXCEPT ![b] = EmptyMap]
        /\ prevGroups' = [prevGroups EXCEPT ![b] = EmptyMap]
    BY DEF IInv, TypeOK, Reset
  <1>3. ASSUME NEW k \in Key, NEW fp \in FP
        PROVE  ageOf'[k][fp] = A[k][fp]
    <2>1. CASE BucketOf(k) = b
      <3>1. k \in Window!Shard(b)
        BY <2>1 DEF Window!Shard, BucketOf
      <3>2. ~ Holds(groups'[b], k, fp) /\ ~ Holds(prevGroups'[b], k, fp)
        BY <1>2, EmptyMapHolds
      <3> QED BY <2>1, <3>1, <3>2, AgeOf
    <2>2. CASE BucketOf(k) # b
      <3>1. k \notin Window!Shard(b)
        BY <2>2 DEF Window!Shard, BucketOf
      <3>2. /\ groups'[BucketOf(k)] = groups[BucketOf(k)]
            /\ prevGroups'[BucketOf(k)] = prevGroups[BucketOf(k)]
        BY <2>2, <1>2, BucketOfType
      <3> QED BY <3>1, <3>2, AgeOf
    <2> QED BY <2>1, <2>2
  <1>4. ageOf' = A
    <2> HIDE DEF A
    <2> QED BY <1>1, <1>3, AgeType, SameAges
  <1> QED BY <1>4 DEF Window!Forget

-----------------------------------------------------------------------------
\* A new estimator counts nothing.
LEMMA InitWindow == Init => Window!Init
  BY EmptyMapHolds, BucketOfType DEF Init, Window!Init, ageOf

\* Every step of the estimator is a step of the window, or none.
LEMMA NextWindow == IInv /\ [Next]_vars => [Window!Next]_ageOf
  <1> SUFFICES ASSUME IInv, [Next]_vars PROVE Window!Next \/ UNCHANGED ageOf
    OBVIOUS
  <1>1. ASSUME NEW k \in Key, Insert(k) PROVE Window!Next \/ UNCHANGED ageOf
    <2>1. PICK fp \in FP : InsertKnown(k, fp) \/ InsertCheckLimit(k, fp)
      BY <1>1 DEF Insert
    <2>2. CASE InsertKnown(k, fp)
      BY <2>2, InsertKnownCounts DEF Window!Next
    <2>3. CASE InsertCheckLimit(k, fp)
      BY <2>3, SameAge DEF InsertCheckLimit
    <2> QED BY <2>1, <2>2, <2>3
  <1>2. ASSUME NEW b \in Bucket, HolderStep(b) PROVE Window!Next \/ UNCHANGED ageOf
    <2>1. CASE InsertAdmitted(b)
      BY <2>1, InsertAdmittedCounts DEF Window!Next
    <2>2. CASE InsertRejected(b) \/ RotateDone(b) \/ ResetDone(b)
      BY <2>2, SameAge DEF InsertRejected, RotateDone, ResetDone, ClearRejected
    <2> QED BY <1>2, <2>1, <2>2 DEF HolderStep
  <1>3. ASSUME NEW b \in Bucket, Rotate(b) PROVE Window!Next
    BY <1>3, RotateSlides DEF Window!Next, Bucket
  <1>4. ASSUME NEW r \in Resetter, NEW b \in Bucket, Reset(b, r) PROVE Window!Next
    BY <1>4, ResetForgets DEF Window!Next, Bucket
  <1>5. CASE (\E r \in Resetter : ResetStart(r)) \/ Stop \/ RotationExit \/ UNCHANGED vars
    <2>1. UNCHANGED mapVars
      BY <1>5 DEF ResetStart, Stop, RotationExit, vars, mapVars
    <2> QED BY <2>1, SameAge
  <1> QED BY <1>1, <1>2, <1>3, <1>4, <1>5 DEF Next

\* GroupEstimator implements SlidingWindow, for every number of buckets, every
\* limit and every set of groups, series and resets: a series is counted from its
\* arrival until its bucket has rotated twice or is reset, and a group is let in
\* only while fewer than Limit + NB - 1 groups are counted.
THEOREM Refinement == Spec => ImplementsWindow
  BY InitWindow, NextWindow, Invariance, PTL DEF Spec, ImplementsWindow, Window!Spec
=============================================================================
