------------------------- MODULE GroupSnapshotProofs -------------------------
(***************************************************************************)
(* Proofs about GroupSnapshot, for the constants of GroupEstimatorProofs   *)
(* and any batch size.  The part of the inductive invariant about the      *)
(* estimator is the one of GroupEstimatorProofs.                           *)
(***************************************************************************)
EXTENDS GroupSnapshot, GroupEstimatorProofs

-----------------------------------------------------------------------------
(* The inductive invariant *)

\* What a merge of k yields as long as toSnapshot is at the bucket.
Merged(k) == SketchIn(CapturedGroups, k) \cup SketchIn(captured.prev, k)

\* Groups listed and not merged yet.
ListedGroups == {e[1] : e \in keys}

AtBucket == snapAt \in {"merge", "callback"}

\* Keys are listed, merged and due only while toSnapshot is at a bucket.
SnapPlace ==
  /\ AtBucket => snapBucket \in Bucket
  /\ ~ AtBucket => keys = {} /\ captured.live = FALSE /\ due = EmptyMap
  /\ snapAt # "callback" => batch = EmptyMap
  /\ snapAt = "idle" => emitted = {}

\* What is due for a group is in the captured maps for as long as the group is
\* listed, and in the batch from then on.
DueInv ==
  AtBucket =>
    /\ \A k \in ListedGroups : k \in DOMAIN CapturedGroups \cup DOMAIN captured.prev
    /\ \A k \in DOMAIN due :
         \/ k \in ListedGroups /\ due[k] \subseteq Merged(k)
         \/ k \in DOMAIN batch /\ due[k] \subseteq batch[k]

\* A group is listed once, is then neither in the batch nor emitted, and is of the
\* bucket at hand; what was emitted before is of earlier buckets.
OnceInv ==
  /\ \A e, f \in keys : e[1] = f[1] => e = f
  /\ \A k \in ListedGroups : k \notin emitted /\ k \notin DOMAIN batch
  /\ \A k \in ListedGroups \cup DOMAIN batch : BucketOf(k) = snapBucket
  /\ \A k \in emitted :
       BucketOf(k) < snapBucket \/ (AtBucket /\ BucketOf(k) = snapBucket)

\* The conjunction that is inductive.
SnapInv == IInv /\ SnapTypeOK /\ SnapPlace /\ DueInv /\ OnceInv

-----------------------------------------------------------------------------
(* Facts about the operators *)

\* Sketches in a map of groups are sets of fingerprints.
LEMMA SketchInType ==
  ASSUME NEW m \in GroupMap, NEW k PROVE SketchIn(m, k) \in SUBSET FP
  BY DEF SketchIn, GroupMap

\* A function from some of the group keys to sketches is a map of groups.
LEMMA GroupMapIntro ==
  ASSUME NEW S \in SUBSET Key, NEW m \in [S -> SUBSET FP]
  PROVE  m \in GroupMap
  BY DEF GroupMap

\* The merge of two maps is a map with the keys of both.
LEMMA MergeMapsType ==
  ASSUME NEW m \in GroupMap, NEW n \in GroupMap
  PROVE  /\ MergeMaps(m, n) \in GroupMap
         /\ DOMAIN MergeMaps(m, n) = DOMAIN m \cup DOMAIN n
         /\ \A k \in DOMAIN MergeMaps(m, n) :
              MergeMaps(m, n)[k] = SketchIn(m, k) \cup SketchIn(n, k)
  <1> DEFINE S == DOMAIN m \cup DOMAIN n
  <1>1. S \in SUBSET Key
    BY GroupMapDomain
  <1>2. \A k : SketchIn(m, k) \cup SketchIn(n, k) \in SUBSET FP
    BY SketchInType
  <1>3. MergeMaps(m, n) \in [S -> SUBSET FP]
    BY <1>2 DEF MergeMaps
  <1>4. MergeMaps(m, n) \in GroupMap
    BY <1>1, <1>3, GroupMapIntro
  <1> QED BY <1>4 DEF MergeMaps

\* A map without keys is the empty map.
LEMMA EmptyDomain ==
  ASSUME NEW m \in GroupMap, DOMAIN m = {} PROVE m = EmptyMap
  BY DEF GroupMap, EmptyMap

\* m has grown to n: no group and no fingerprint is missing.
Grown(m, n) == DOMAIN m \subseteq DOMAIN n /\ \A k \in DOMAIN m : m[k] \subseteq n[k]

\* Then no sketch has shrunk.
LEMMA GrownSketch ==
  ASSUME NEW m, NEW n, Grown(m, n), NEW k
  PROVE  SketchIn(m, k) \subseteq SketchIn(n, k)
  BY DEF Grown, SketchIn

\* An insert makes a map grow.
LEMMA InsertGrows ==
  ASSUME NEW m \in GroupMap, NEW k, NEW fp PROVE Grown(m, InsertHash(m, k, fp))
  BY DEF Grown, InsertHash

\* Inserts only ever add to the maps of a bucket, and the other steps that leave
\* the maps to the bucket do not touch them.
LEMMA MapsGrow ==
  ASSUME IInv, NEW b \in Bucket,
         \/ \E k \in Key : Insert(k)
         \/ \E c \in Bucket : HolderStep(c)
         \/ \E r \in Resetter : ResetStart(r)
         \/ Stop \/ RotationExit
         \/ UNCHANGED vars
  PROVE  Grown(groups[b], groups'[b])
  <1>1. groups \in [Bucket -> GroupMap]
    BY DEF IInv, TypeOK
  <1>2. Grown(groups[b], groups[b])
    BY DEF Grown
  <1>3. ASSUME NEW c \in Bucket, NEW k, NEW fp,
               groups' = [groups EXCEPT ![c] = InsertHash(@, k, fp)]
        PROVE  Grown(groups[b], groups'[b])
    <2>1. groups'[b] = IF b = c THEN InsertHash(groups[b], k, fp) ELSE groups[b]
      BY <1>1, <1>3
    <2> QED BY <1>1, <1>2, <2>1, InsertGrows
  <1>4. ASSUME NEW k \in Key, Insert(k) PROVE Grown(groups[b], groups'[b])
    <2>1. PICK fp \in FP : InsertKnown(k, fp) \/ InsertCheckLimit(k, fp)
      BY <1>4 DEF Insert
    <2>2. CASE InsertKnown(k, fp)
      BY <1>3, <2>2, BucketOfType DEF InsertKnown
    <2>3. CASE InsertCheckLimit(k, fp)
      BY <1>2, <2>3 DEF InsertCheckLimit, mapVars
    <2> QED BY <2>1, <2>2, <2>3
  <1>5. ASSUME NEW c \in Bucket, HolderStep(c) PROVE Grown(groups[b], groups'[b])
    <2>1. CASE InsertAdmitted(c)
      BY <1>3, <2>1 DEF InsertAdmitted
    <2>2. CASE InsertRejected(c) \/ RotateDone(c) \/ ResetDone(c)
      BY <1>2, <2>2 DEF InsertRejected, RotateDone, ResetDone, ClearRejected, mapVars
    <2> QED BY <1>5, <2>1, <2>2 DEF HolderStep
  <1>6. CASE (\E r \in Resetter : ResetStart(r)) \/ Stop \/ RotationExit \/ UNCHANGED vars
    BY <1>2, <1>6 DEF ResetStart, Stop, RotationExit, mapVars, vars
  <1> QED BY <1>4, <1>5, <1>6

\* Rotation and reset replace the maps of one bucket.
LEMMA OtherBuckets ==
  ASSUME IInv, NEW b \in Bucket, NEW c \in Bucket, c # b,
         Rotate(b) \/ \E r \in Resetter : Reset(b, r)
  PROVE  groups'[c] = groups[c]
  BY DEF IInv, TypeOK, Rotate, Reset

\* The map that toSnapshot has a reference to.
LEMMA CapturedType ==
  ASSUME SnapInv, AtBucket PROVE CapturedGroups \in GroupMap /\ captured.prev \in GroupMap
  BY DEF SnapInv, SnapTypeOK, SnapPlace, CapturedGroups, IInv, TypeOK

\* Whatever runs beside toSnapshot, the map it refers to only grows.
LEMMA CapturedGrows ==
  ASSUME SnapInv, AtBucket, snapBucket' = snapBucket, captured'.prev = captured.prev,
         \/ UNCHANGED captured /\ ~ captured.live
         \/ UNCHANGED captured /\ Grown(groups[snapBucket], groups'[snapBucket])
         \/ captured'.live = FALSE /\ captured'.cur = CapturedGroups
  PROVE  Grown(CapturedGroups, CapturedGroups') /\ \A k : Merged(k) \subseteq Merged(k)'
  <1>1. Grown(CapturedGroups, CapturedGroups')
    BY DEF CapturedGroups, Grown
  <1>2. \A k : SketchIn(CapturedGroups, k) \subseteq SketchIn(CapturedGroups', k)
    BY <1>1, GrownSketch
  <1>3. \A k : SketchIn(CapturedGroups, k)' = SketchIn(CapturedGroups', k)
               /\ SketchIn(captured.prev, k)' = SketchIn(captured.prev, k)
    BY DEF SketchIn
  <1>4. \A k : Merged(k)' = SketchIn(CapturedGroups', k) \cup SketchIn(captured.prev, k)
    BY <1>3 DEF Merged
  <1> QED BY <1>1, <1>2, <1>4 DEF Merged

-----------------------------------------------------------------------------
(* SnapInv is inductive *)

\* Nothing is listed, merged or due before the first call.
LEMMA SnapInitInv == SnapInit => SnapInv
  <1> SUFFICES ASSUME SnapInit PROVE SnapInv
    OBVIOUS
  <1>1. IInv
    BY InitInv DEF SnapInit
  <1>2. EmptyMap \in GroupMap /\ DOMAIN EmptyMap = {}
    BY EmptyMapType
  <1>3. captured \in [live : BOOLEAN, cur : GroupMap, prev : GroupMap] /\ captured.live = FALSE
    BY <1>2 DEF SnapInit, NothingCaptured
  <1>4. SnapTypeOK
    BY <1>2, <1>3, NBAssumption DEF SnapInit, SnapTypeOK
  <1>5. SnapPlace /\ DueInv
    BY <1>3 DEF SnapInit, SnapPlace, DueInv, AtBucket
  <1>6. OnceInv
    BY <1>2 DEF SnapInit, OnceInv, ListedGroups
  <1> QED BY <1>1, <1>4, <1>5, <1>6 DEF SnapInv

\* A step beside toSnapshot: the maps it refers to only grow.
LEMMA BesideInv ==
  ASSUME SnapInv, IInv', UNCHANGED <<snapAt, snapBucket, keys, batch, emitted, due>>,
         captured' \in [live : BOOLEAN, cur : GroupMap, prev : GroupMap],
         captured'.prev = captured.prev, captured'.live => captured.live,
         AtBucket =>
           \/ UNCHANGED captured /\ ~ captured.live
           \/ UNCHANGED captured /\ Grown(groups[snapBucket], groups'[snapBucket])
           \/ captured'.live = FALSE /\ captured'.cur = CapturedGroups
  PROVE  SnapInv'
  <1>1. SnapTypeOK'
    BY DEF SnapInv, SnapTypeOK
  <1>2. AtBucket' <=> AtBucket
    BY DEF AtBucket
  <1>3. SnapPlace'
    BY <1>1, <1>2 DEF SnapInv, SnapPlace, SnapTypeOK
  <1>4. ListedGroups' = ListedGroups
    BY DEF ListedGroups
  <1>5. DueInv'
    <2> SUFFICES ASSUME AtBucket
                 PROVE  /\ \A k \in ListedGroups :
                             k \in DOMAIN CapturedGroups' \cup DOMAIN captured'.prev
                        /\ \A k \in DOMAIN due :
                             \/ k \in ListedGroups /\ due[k] \subseteq Merged(k)'
                             \/ k \in DOMAIN batch /\ due[k] \subseteq batch[k]
      BY <1>2, <1>4 DEF DueInv
    <2>1. Grown(CapturedGroups, CapturedGroups') /\ \A k : Merged(k) \subseteq Merged(k)'
      BY CapturedGrows
    <2>2. DOMAIN CapturedGroups \subseteq DOMAIN CapturedGroups'
      BY <2>1 DEF Grown
    <2> QED BY <2>1, <2>2 DEF SnapInv, DueInv
  <1>6. OnceInv'
    BY <1>2, <1>4 DEF SnapInv, OnceInv
  <1> QED BY <1>1, <1>3, <1>5, <1>6 DEF SnapInv

\* An insert, or another step after which the bucket still has its maps.
LEMMA QuietInv ==
  ASSUME SnapInv, IInv', UNCHANGED snapVars,
         \/ \E k \in Key : Insert(k)
         \/ \E c \in Bucket : HolderStep(c)
         \/ \E r \in Resetter : ResetStart(r)
         \/ Stop \/ RotationExit
         \/ UNCHANGED vars
  PROVE  SnapInv'
  <1>1. UNCHANGED <<snapAt, snapBucket, captured, keys, batch, emitted, due>>
    BY DEF snapVars
  <1>2. AtBucket => Grown(groups[snapBucket], groups'[snapBucket])
    BY MapsGrow DEF SnapInv, SnapPlace
  <1>3. captured' \in [live : BOOLEAN, cur : GroupMap, prev : GroupMap]
    BY <1>1 DEF SnapInv, SnapTypeOK
  <1> QED BY <1>1, <1>2, <1>3, BesideInv

\* A rotation or a reset: the captured map stays what it was, out of the bucket.
LEMMA DetachInv ==
  ASSUME SnapInv, IInv', NEW b \in Bucket, Rotate(b) \/ \E r \in Resetter : Reset(b, r),
         Detach(b)
  PROVE  SnapInv'
  <1>0. captured \in [live : BOOLEAN, cur : GroupMap, prev : GroupMap]
        /\ groups \in [Bucket -> GroupMap]
    BY DEF SnapInv, SnapTypeOK, IInv, TypeOK
  <1>1. UNCHANGED <<snapAt, snapBucket, keys, batch, emitted, due>>
    BY DEF Detach
  <1>2. CASE captured.live /\ snapBucket = b
    <2>1. captured' = [captured EXCEPT !.live = FALSE, !.cur = groups[b]]
      BY <1>2 DEF Detach
    <2>2. /\ captured' \in [live : BOOLEAN, cur : GroupMap, prev : GroupMap]
          /\ captured'.live = FALSE /\ captured'.cur = groups[b] /\ captured'.prev = captured.prev
      BY <1>0, <2>1
    <2>3. captured'.cur = CapturedGroups
      BY <1>2, <2>2 DEF CapturedGroups
    <2> QED BY <1>1, <2>2, <2>3, BesideInv
  <1>3. CASE ~ (captured.live /\ snapBucket = b)
    <2>1. UNCHANGED captured
      BY <1>3 DEF Detach
    <2>2. AtBucket => ~ captured.live \/ Grown(groups[snapBucket], groups'[snapBucket])
      <3> SUFFICES ASSUME AtBucket, captured.live
                   PROVE  Grown(groups[snapBucket], groups'[snapBucket])
        OBVIOUS
      <3>1. snapBucket \in Bucket /\ snapBucket # b
        BY <1>3 DEF SnapInv, SnapPlace
      <3>2. groups'[snapBucket] = groups[snapBucket]
        BY <3>1, OtherBuckets DEF SnapInv
      <3> QED BY <3>2 DEF Grown
    <2> QED BY <1>0, <1>1, <2>1, <2>2, BesideInv
  <1> QED BY <1>2, <1>3

\* SnapStart, SnapFinal and SnapReturn: toSnapshot is at no bucket.
LEMMA AwayInv ==
  ASSUME SnapInv, IInv', SnapStart \/ SnapFinal \/ SnapReturn
  PROVE  SnapInv'
  <1>1. EmptyMap \in GroupMap /\ DOMAIN EmptyMap = {}
    BY EmptyMapType
  <1>2. CASE SnapReturn
    <2>1. /\ snapAt' = "idle" /\ snapBucket' = 0 /\ captured' = NothingCaptured /\ keys' = {}
          /\ batch' = EmptyMap /\ emitted' = {} /\ due' = EmptyMap
      BY <1>2 DEF SnapReturn
    <2>2. captured' \in [live : BOOLEAN, cur : GroupMap, prev : GroupMap]
          /\ captured'.live = FALSE
      BY <1>1, <2>1 DEF NothingCaptured
    <2>3. SnapTypeOK'
      BY <1>1, <2>1, <2>2, NBAssumption DEF SnapTypeOK
    <2>4. SnapPlace' /\ DueInv'
      BY <2>1, <2>2 DEF SnapPlace, DueInv, AtBucket
    <2>5. OnceInv'
      BY <1>1, <2>1 DEF OnceInv, ListedGroups
    <2> QED BY <2>3, <2>4, <2>5 DEF SnapInv
  <1>3. CASE SnapStart \/ SnapFinal
    <2>1. /\ snapAt \in {"idle", "collect"} /\ snapAt' \in {"collect", "done"}
          /\ snapBucket' \in {0, NB} /\ UNCHANGED <<captured, keys, batch, emitted, due>>
          /\ snapAt = "idle" \/ snapBucket' = snapBucket
      BY <1>3 DEF SnapStart, SnapFinal
    <2>2. keys = {} /\ captured.live = FALSE /\ due = EmptyMap /\ batch = EmptyMap
          /\ (snapAt = "idle" => emitted = {})
      BY <2>1 DEF SnapInv, SnapPlace, AtBucket
    <2>3. SnapTypeOK'
      BY <2>1, NBAssumption DEF SnapInv, SnapTypeOK
    <2>4. SnapPlace' /\ DueInv'
      BY <2>1, <2>2 DEF SnapPlace, DueInv, AtBucket
    <2>5. OnceInv'
      <3>1. keys' = {} /\ DOMAIN batch' = {}
        BY <1>1, <2>1, <2>2
      <3>2. \A k \in emitted' : BucketOf(k) < snapBucket'
        BY <2>1, <2>2 DEF SnapInv, OnceInv, AtBucket
      <3> QED BY <3>1, <3>2 DEF OnceInv, ListedGroups
    <2> QED BY <2>3, <2>4, <2>5 DEF SnapInv
  <1> QED BY <1>2, <1>3

\* Listing a bucket's keys makes what its groups hold due.
LEMMA CollectInv ==
  ASSUME SnapInv, IInv', SnapCollect
  PROVE  SnapInv'
  <1> DEFINE b == snapBucket
             g == groups[b]
             p == prevGroups[b]
  <1>1. /\ snapAt = "collect" /\ b < NB /\ snapAt' = "merge"
        /\ captured' = [live |-> TRUE, cur |-> EmptyMap, prev |-> p]
        /\ keys' = Listed(DOMAIN g, "cur") \cup Listed(DOMAIN p \ DOMAIN g, "prev")
        /\ due' = MergeMaps(due, MergeMaps(g, p))
        /\ UNCHANGED <<groups, prevGroups, snapBucket, batch, emitted>>
    BY DEF SnapCollect, vars
  <1>2. b \in Bucket
    BY <1>1, NBAssumption DEF SnapInv, SnapTypeOK, Bucket
  <1>3. g \in GroupMap /\ p \in GroupMap
    BY <1>2 DEF SnapInv, IInv, TypeOK
  <1>4. DOMAIN g \in SUBSET Key /\ DOMAIN p \in SUBSET Key
    BY <1>3, GroupMapDomain
  <1>5. due = EmptyMap /\ batch = EmptyMap /\ keys = {}
    BY <1>1 DEF SnapInv, SnapPlace, AtBucket
  <1>6. EmptyMap \in GroupMap /\ DOMAIN EmptyMap = {}
    BY EmptyMapType
  <1> HIDE DEF g, p
  <1>7. /\ MergeMaps(g, p) \in GroupMap /\ DOMAIN MergeMaps(g, p) = DOMAIN g \cup DOMAIN p
        /\ \A k \in DOMAIN MergeMaps(g, p) :
             MergeMaps(g, p)[k] = SketchIn(g, k) \cup SketchIn(p, k)
    BY <1>3, MergeMapsType
  <1>8. due' \in GroupMap /\ DOMAIN due' = DOMAIN g \cup DOMAIN p
        /\ \A k \in DOMAIN due' : due'[k] = SketchIn(g, k) \cup SketchIn(p, k)
    <2> DEFINE n == MergeMaps(g, p)
    <2>1. n \in GroupMap
      BY <1>7
    <2>2. due' \in GroupMap /\ DOMAIN due' = DOMAIN due \cup DOMAIN n
          /\ \A k \in DOMAIN due' : due'[k] = SketchIn(due, k) \cup SketchIn(n, k)
      BY <1>1, <1>5, <1>6, <2>1, MergeMapsType
    <2>3. \A k : SketchIn(due, k) = {}
      BY <1>5, <1>6 DEF SketchIn
    <2>4. DOMAIN due' = DOMAIN n
      BY <1>5, <1>6, <2>2
    <2>5. \A k \in DOMAIN n : SketchIn(n, k) = n[k]
      BY DEF SketchIn
    <2> HIDE DEF n
    <2>6. \A k \in DOMAIN due' : due'[k] = n[k]
      BY <2>2, <2>3, <2>4, <2>5
    <2> USE DEF n
    <2> QED BY <1>7, <2>2, <2>4, <2>6
  <1>9. ListedGroups' = DOMAIN g \cup DOMAIN p
    <2>1. ListedGroups' = {e[1] : e \in keys'}
      BY DEF ListedGroups
    <2>2. \A e \in keys' : e[1] \in DOMAIN g \cup DOMAIN p
      BY <1>1 DEF Listed
    <2>3. ASSUME NEW k \in DOMAIN g \cup DOMAIN p
          PROVE  \E e \in keys' : e[1] = k
      <3>1. CASE k \in DOMAIN g
        <4>1. <<k, "cur">> \in keys'
          BY <1>1, <3>1 DEF Listed
        <4> QED BY <4>1
      <3>2. CASE k \notin DOMAIN g
        <4>1. <<k, "prev">> \in keys'
          BY <1>1, <2>3, <3>2 DEF Listed
        <4> QED BY <4>1
      <3> QED BY <3>1, <3>2
    <2> QED BY <2>1, <2>2, <2>3
  <1>10. CapturedGroups' = g /\ captured'.prev = p /\ captured'.live = TRUE
    BY <1>1 DEF CapturedGroups, g
  <1>11. \A k : Merged(k)' = SketchIn(g, k) \cup SketchIn(p, k)
    BY <1>10 DEF Merged, SketchIn
  <1>12. SnapTypeOK'
    <2>1. captured' \in [live : BOOLEAN, cur : GroupMap, prev : GroupMap]
      BY <1>1, <1>3, <1>6
    <2>2. keys' \in SUBSET (Key \X {"cur", "prev"})
      BY <1>1, <1>4 DEF Listed
    <2> QED BY <1>1, <1>8, <2>1, <2>2 DEF SnapInv, SnapTypeOK
  <1>13. SnapPlace'
    BY <1>1, <1>2, <1>5 DEF SnapPlace, AtBucket
  <1>14. DueInv'
    BY <1>8, <1>9, <1>10, <1>11 DEF DueInv
  <1>15. OnceInv'
    <2>1. \A e, f \in keys' : e[1] = f[1] => e = f
      BY <1>1 DEF Listed
    <2>2. \A k \in ListedGroups' : BucketOf(k) = b
      BY <1>2, <1>9 DEF SnapInv, IInv, KeysHome, KeysOf, g, p
    <2>3. \A k \in emitted : BucketOf(k) < b
      BY <1>1 DEF SnapInv, OnceInv, AtBucket
    <2>4. b \in Int
      BY <1>2 DEF Bucket
    <2>5. \A k \in ListedGroups' : k \notin emitted
      BY <2>2, <2>3, <2>4
    <2> QED BY <1>1, <1>5, <1>6, <2>1, <2>2, <2>3, <2>5 DEF OnceInv
  <1> QED BY <1>12, <1>13, <1>14, <1>15 DEF SnapInv

\* A batch takes keys off the list and has what is due for them.
LEMMA MergeBatchInv ==
  ASSUME SnapInv, IInv', SnapMergeBatch
  PROVE  SnapInv' /\ DOMAIN batch' \cap (emitted \cup {e[1] : e \in keys'}) = {}
  <1>1. PICK next \in SUBSET keys :
          /\ keys' = keys \ next
          /\ batch' = [k \in {e[1] : e \in next} |->
                         SketchIn(CapturedGroups, k) \cup SketchIn(captured.prev, k)]
    BY DEF SnapMergeBatch
  <1>2. /\ snapAt = "merge" /\ snapAt' = "callback"
        /\ UNCHANGED <<vars, snapBucket, captured, emitted, due>>
    BY DEF SnapMergeBatch
  <1> DEFINE S == {e[1] : e \in next}
  <1>3. AtBucket /\ AtBucket' /\ batch = EmptyMap /\ snapBucket \in Bucket
    BY <1>2 DEF SnapInv, SnapPlace, AtBucket
  <1>4. batch' = [k \in S |-> Merged(k)]
    BY <1>1 DEF Merged
  <1>5. keys \in SUBSET (Key \X {"cur", "prev"})
    BY DEF SnapInv, SnapTypeOK
  <1>6. S \in SUBSET Key /\ S \subseteq ListedGroups
    BY <1>5 DEF ListedGroups
  <1>7. ListedGroups' = {e[1] : e \in keys \ next}
    BY <1>1 DEF ListedGroups
  <1>8. ListedGroups = S \cup ListedGroups'
    BY <1>7 DEF ListedGroups
  <1>9. S \cap ListedGroups' = {}
    BY <1>7 DEF SnapInv, OnceInv
  <1> HIDE DEF S
  <1>10. DOMAIN batch' = S /\ \A k \in S : batch'[k] = Merged(k)
    BY <1>4
  <1>11. CapturedGroups' = CapturedGroups /\ \A k : Merged(k)' = Merged(k)
    <2>1. CapturedGroups' = CapturedGroups
      BY <1>2 DEF CapturedGroups, vars
    <2> QED BY <1>2, <2>1 DEF Merged, SketchIn
  <1>12. SnapTypeOK'
    <2>1. \A k : Merged(k) \in SUBSET FP
      BY <1>3, CapturedType, SketchInType DEF Merged
    <2>2. batch' \in [S -> SUBSET FP]
      BY <1>4, <2>1
    <2>3. batch' \in GroupMap
      BY <1>6, <2>2, GroupMapIntro
    <2> QED BY <1>1, <1>2, <2>3 DEF SnapInv, SnapTypeOK
  <1>13. SnapPlace'
    BY <1>2, <1>3 DEF SnapPlace
  <1>14. DueInv'
    <2>1. \A k \in ListedGroups' : k \in DOMAIN CapturedGroups \cup DOMAIN captured.prev
      BY <1>3, <1>8 DEF SnapInv, DueInv
    <2>2. DOMAIN batch = {}
      BY <1>3, EmptyMapType
    <2>3. \A k \in DOMAIN due : k \in ListedGroups /\ due[k] \subseteq Merged(k)
      BY <1>3, <2>2 DEF SnapInv, DueInv
    <2> QED BY <1>2, <1>8, <1>10, <1>11, <2>1, <2>3 DEF DueInv
  <1>15. OnceInv'
    <2>1. \A k \in ListedGroups : k \notin emitted /\ BucketOf(k) = snapBucket
      BY DEF SnapInv, OnceInv
    <2>2. \A e, f \in keys' : e[1] = f[1] => e = f
      BY <1>1 DEF SnapInv, OnceInv
    <2>3. \A k \in emitted : BucketOf(k) < snapBucket \/ BucketOf(k) = snapBucket
      BY DEF SnapInv, OnceInv
    <2> QED BY <1>2, <1>3, <1>8, <1>9, <1>10, <2>1, <2>2, <2>3 DEF OnceInv
  <1>16. DOMAIN batch' \cap (emitted \cup ListedGroups') = {}
    BY <1>6, <1>9, <1>10 DEF SnapInv, OnceInv
  <1> QED BY <1>12, <1>13, <1>14, <1>15, <1>16 DEF SnapInv, ListedGroups

\* The callback settles what is due for the batch.
LEMMA CallbackInv ==
  ASSUME SnapInv, IInv', SnapCallback
  PROVE  SnapInv'
  <1> DEFINE settled == {k \in DOMAIN batch \cap DOMAIN due : due[k] \subseteq batch[k]}
  <1>1. /\ snapAt = "callback" /\ snapAt' = "merge"
        /\ UNCHANGED <<vars, snapBucket, captured, keys>>
        /\ emitted' = emitted \cup DOMAIN batch
        /\ due' = [k \in DOMAIN due \ settled |-> due[k]] /\ batch' = EmptyMap
    BY DEF SnapCallback, Deliver
  <1>2. AtBucket /\ AtBucket' /\ snapBucket \in Bucket
    BY <1>1 DEF SnapInv, SnapPlace, AtBucket
  <1>3. batch \in GroupMap /\ due \in GroupMap
    BY DEF SnapInv, SnapTypeOK
  <1>4. DOMAIN batch \in SUBSET Key /\ DOMAIN due \in SUBSET Key
    BY <1>3, GroupMapDomain
  <1>5. EmptyMap \in GroupMap /\ DOMAIN EmptyMap = {}
    BY EmptyMapType
  <1>6. DOMAIN due' = DOMAIN due \ settled /\ \A k \in DOMAIN due' : due'[k] = due[k]
    BY <1>1
  <1>7. ListedGroups' = ListedGroups /\ CapturedGroups' = CapturedGroups
        /\ \A k : Merged(k)' = Merged(k)
    <2>1. CapturedGroups' = CapturedGroups
      BY <1>1 DEF CapturedGroups, vars
    <2> QED BY <1>1, <2>1 DEF ListedGroups, Merged, SketchIn
  <1>8. SnapTypeOK'
    <2>1. \A k \in DOMAIN due : due[k] \in SUBSET FP
      BY <1>3 DEF GroupMap
    <2>2. due' \in [DOMAIN due \ settled -> SUBSET FP]
      BY <1>1, <2>1
    <2>3. DOMAIN due \ settled \in SUBSET Key
      BY <1>4
    <2>4. due' \in GroupMap
      BY <2>2, <2>3, GroupMapIntro
    <2> QED BY <1>1, <1>4, <1>5, <2>4 DEF SnapInv, SnapTypeOK
  <1>9. SnapPlace'
    BY <1>1, <1>2 DEF SnapPlace
  <1>10. DueInv'
    <2>1. \A k \in ListedGroups : k \in DOMAIN CapturedGroups \cup DOMAIN captured.prev
      BY <1>2 DEF SnapInv, DueInv
    <2>2. \A k \in DOMAIN due' : k \in ListedGroups /\ due'[k] \subseteq Merged(k)
      BY <1>2, <1>6 DEF SnapInv, DueInv
    <2> QED BY <1>1, <1>7, <2>1, <2>2 DEF DueInv
  <1>11. OnceInv'
    BY <1>1, <1>2, <1>5, <1>7 DEF SnapInv, OnceInv
  <1> QED BY <1>8, <1>9, <1>10, <1>11 DEF SnapInv

\* When no key is left nothing of the bucket is due.
LEMMA NextBucketInv ==
  ASSUME SnapInv, IInv', SnapNextBucket
  PROVE  SnapInv'
  <1>1. /\ snapAt = "merge" /\ keys = {} /\ snapBucket' = snapBucket + 1
        /\ captured' = NothingCaptured /\ snapAt' = "collect"
        /\ UNCHANGED <<keys, batch, emitted, due>>
    BY DEF SnapNextBucket
  <1>2. AtBucket /\ ~ AtBucket' /\ snapBucket \in Bucket /\ batch = EmptyMap
    BY <1>1 DEF SnapInv, SnapPlace, AtBucket
  <1>3. EmptyMap \in GroupMap /\ DOMAIN EmptyMap = {}
    BY EmptyMapType
  <1>4. due = EmptyMap
    <2>1. ListedGroups = {}
      BY <1>1 DEF ListedGroups
    <2>2. DOMAIN due = {}
      BY <1>2, <1>3, <2>1 DEF SnapInv, DueInv
    <2> QED BY <2>2, EmptyDomain DEF SnapInv, SnapTypeOK
  <1>5. captured' \in [live : BOOLEAN, cur : GroupMap, prev : GroupMap] /\ captured'.live = FALSE
    BY <1>1, <1>3 DEF NothingCaptured
  <1>6. snapBucket' \in 0 .. NB
    BY <1>1, <1>2, NBAssumption DEF Bucket
  <1>7. SnapTypeOK'
    BY <1>1, <1>5, <1>6 DEF SnapInv, SnapTypeOK
  <1>8. SnapPlace' /\ DueInv'
    BY <1>1, <1>2, <1>4, <1>5 DEF SnapPlace, DueInv
  <1>9. OnceInv'
    <2>1. \A k \in emitted : BucketOf(k) < snapBucket + 1
      <3>1. \A k \in emitted : BucketOf(k) < snapBucket \/ BucketOf(k) = snapBucket
        BY DEF SnapInv, OnceInv
      <3>2. emitted \subseteq Key
        BY DEF SnapInv, SnapTypeOK
      <3>3. \A k \in emitted : BucketOf(k) \in Int /\ snapBucket \in Int
        BY <1>2, <3>2, BucketOfType DEF Bucket
      <3> QED BY <3>1, <3>3
    <2> QED BY <1>1, <1>2, <1>3, <2>1 DEF OnceInv, ListedGroups
  <1> QED BY <1>7, <1>8, <1>9 DEF SnapInv

\* toSnapshot changes nothing of the estimator, and the other steps are its own.
LEMMA SnapEstimator == SnapInv /\ [SnapNext]_allVars => IInv'
  <1>1. [SnapNext]_allVars => [Next]_vars
    BY DEF SnapNext, Snapshot, SnapStart, SnapCollect, SnapMergeBatch, SnapCallback,
           SnapNextBucket, SnapFinal, SnapReturn, Next, allVars
  <1> QED BY <1>1, NextInv DEF SnapInv

-----------------------------------------------------------------------------
(* What follows *)

\* The inductive invariant holds in every reachable state.
THEOREM SnapInvariant == SnapSpec => []SnapInv
  <1>1. SnapInv /\ [SnapNext]_allVars => SnapInv'
    <2> SUFFICES ASSUME SnapInv, [SnapNext]_allVars PROVE SnapInv'
      OBVIOUS
    <2>1. IInv'
      BY SnapEstimator
    <2>2. CASE Snapshot
      BY <2>1, <2>2, AwayInv, CollectInv, MergeBatchInv, CallbackInv, NextBucketInv DEF Snapshot
    <2>3. ASSUME NEW b \in Bucket, Rotate(b) \/ \E r \in Resetter : Reset(b, r), Detach(b)
          PROVE  SnapInv'
      BY <2>1, <2>3, DetachInv
    <2>4. ASSUME UNCHANGED snapVars,
                 \/ \E k \in Key : Insert(k)
                 \/ \E c \in Bucket : HolderStep(c)
                 \/ \E r \in Resetter : ResetStart(r)
                 \/ Stop \/ RotationExit
                 \/ UNCHANGED vars
          PROVE  SnapInv'
      BY <2>1, <2>4, QuietInv
    <2> QED BY <2>2, <2>3, <2>4 DEF SnapNext, allVars
  <1> QED BY <1>1, SnapInitInv, PTL DEF SnapSpec

\* toSnapshot's variables keep their types and its index stays in the array.
THEOREM SnapTypesCorrect == SnapSpec => []SnapTypeOK
  <1>1. SnapInv => SnapTypeOK
    BY DEF SnapInv
  <1> QED BY <1>1, SnapInvariant, PTL

\* mergeSketches never gets two nil sketches.
THEOREM NeverNil == SnapSpec => []NoNilSketch
  <1>1. SnapInv => NoNilSketch
    BY DEF SnapInv, DueInv, NoNilSketch, AtBucket, ListedGroups
  <1> QED BY <1>1, SnapInvariant, PTL

\* A complete snapshot has everything that each bucket held when it was listed.
THEOREM SnapshotIsComplete == SnapSpec => []SnapshotCovers
  <1>1. SnapInv => SnapshotCovers
    BY DEF SnapInv, SnapPlace, SnapshotCovers, AtBucket
  <1> QED BY <1>1, SnapInvariant, PTL

\* toSnapshot gives no group to the callback twice.
THEOREM GroupsEmittedOnce == SnapSpec => EmitsGroupOnce
  <1> DEFINE Once == snapAt = "merge" /\ snapAt' = "callback" =>
                       DOMAIN batch' \cap (emitted \cup {e[1] : e \in keys'}) = {}
  <1>1. SnapInv /\ [SnapNext]_allVars => [Once]_allVars
    <2> SUFFICES ASSUME SnapInv, SnapNext, snapAt = "merge", snapAt' = "callback"
                 PROVE  DOMAIN batch' \cap (emitted \cup {e[1] : e \in keys'}) = {}
      OBVIOUS
    <2>1. IInv'
      BY SnapEstimator
    <2>2. SnapMergeBatch
      BY DEF SnapNext, Snapshot, SnapStart, SnapCollect, SnapCallback, SnapNextBucket,
             SnapFinal, SnapReturn, Detach, snapVars
    <2> QED BY <2>1, <2>2, MergeBatchInv
  <1> QED BY <1>1, SnapInvariant, PTL DEF SnapSpec, EmitsGroupOnce
=============================================================================
