---------------------------- MODULE GroupEstimator ----------------------------
(***************************************************************************)
(* A grouped estimator of app/vmestimator/estimator.go: group sketches     *)
(* sharded over buckets, each bucket under its own mutex, and one atomic   *)
(* counter of tracked groups that all buckets share to enforce             *)
(* group_limit.                                                            *)
(*                                                                         *)
(* A HyperLogLog sketch is modelled by the exact set of hashes inserted    *)
(* into it: Merge is union and Estimate is Cardinality.  A bucket's map    *)
(* from group key to sketch is a function whose DOMAIN is the set of keys  *)
(* present.  Group label values are left out: they follow the key.         *)
(***************************************************************************)
EXTENDS Integers, FiniteSets, FiniteSetsExt

CONSTANTS
  Key,      \* 64-bit hashes of group values that may arrive
  FP,       \* fingerprints of time series
  Arrivals, \* the series that may arrive in each group: pairs of Key and FP
  NB,       \* len(e.buckets)
  Limit,    \* groupSize.limit, the stream's group_limit
  Resetter  \* goroutines serving /reset, each running estimator.reset

ASSUME NBAssumption    == NB \in Nat \ {0}
ASSUME LimitAssumption == Limit \in Nat \ {0}
ASSUME KeyAssumption   == Key \subseteq Nat /\ IsFiniteSet(Key)

VARIABLES
  groups,          \* eb.groups of every bucket
  prevGroups,      \* eb.prevGroups of every bucket
  bucketSizes,     \* groupSize.bucketSizes
  size,            \* groupSize.size, an atomic.Int64
  rejectSketches,  \* groupSize.rejectSketches; nil and empty are both {}
  lock,            \* eb.mu of every bucket: what its holder is doing
  bucketIdx,       \* runRotation: the bucket that rotates next
  rotation,        \* the rotation goroutine: running, stopping or stopped
  resetIdx         \* reset: the bucket each call is at, NB when not running

mapVars    == <<groups, prevGroups>>
sizeVars   == <<bucketSizes, size, rejectSketches>>
threadVars == <<lock, bucketIdx, rotation, resetIdx>>
vars       == <<groups, prevGroups, bucketSizes, size, rejectSketches, lock,
                bucketIdx, rotation, resetIdx>>

Bucket == 0 .. NB - 1

\* The bucket of a group: int(key % bucketsNum).
BucketOf(k) == k % NB

EmptyMap == [k \in {} |-> {}]

\* Finite maps from group keys to sketches.
GroupMap == UNION {[S -> SUBSET FP] : S \in SUBSET Key}

\* groups[k] = gsk (a new sketch when there is none); gsk.InsertHash(fp).
InsertHash(m, k, fp) ==
  [j \in DOMAIN m \cup {k} |->
     IF j # k THEN m[j]
     ELSE IF k \in DOMAIN m THEN m[k] \cup {fp} ELSE {fp}]

Unlocked == [at |-> "free"]

\* The holder of a bucket's mutex between two accesses to shared state.
Holder ==
  [at : {"free", "rotate"}] \cup
  [at : {"reset"}, by : Resetter] \cup
  [at : {"admit", "reject"}, key : Key, fp : FP]

\* The keys a bucket holds a sketch for, in either generation.
KeysOf(b) == DOMAIN groups[b] \cup DOMAIN prevGroups[b]

-----------------------------------------------------------------------------
(* newEstimator *)

Init ==
  /\ groups = [b \in Bucket |-> EmptyMap]
  /\ prevGroups = [b \in Bucket |-> EmptyMap]
  /\ bucketSizes = [b \in Bucket |-> 0]
  /\ size = 0
  /\ rejectSketches = [b \in Bucket |-> {}]
  /\ lock = [b \in Bucket |-> Unlocked]
  /\ bucketIdx = 0
  /\ rotation = "running"
  /\ resetIdx = [r \in Resetter |-> NB]

-----------------------------------------------------------------------------
(* estimatorBucket.insert.  The mutex is held throughout; the steps are    *)
(* cut where the shared counter or the reject sketches are touched.        *)

\* The group is known in one of the two generations: no limit applies.
InsertKnown(k, fp) ==
  LET b == BucketOf(k) IN
  /\ lock[b] = Unlocked
  /\ k \in KeysOf(b)
  /\ groups' = [groups EXCEPT ![b] = InsertHash(@, k, fp)]
  /\ UNCHANGED <<prevGroups, sizeVars, threadVars>>

\* (mutant) The limit check lets the group after the last one in.
InsertOffByOne(k, fp) ==
  LET b == BucketOf(k) IN
  /\ lock[b] = Unlocked
  /\ k \notin KeysOf(b)
  /\ lock' = [lock EXCEPT ![b] =
                [at  |-> IF size > Limit THEN "reject" ELSE "admit",
                 key |-> k, fp |-> fp]]
  /\ UNCHANGED <<mapVars, sizeVars, bucketIdx, rotation, resetIdx>>

\* (mutant) insert forgets to look the group up in prevGroups.
InsertForgetsPrev(k, fp) ==
  LET b == BucketOf(k) IN
  /\ lock[b] = Unlocked
  /\ k \notin DOMAIN groups[b]
  /\ lock' = [lock EXCEPT ![b] =
                [at  |-> IF size >= Limit THEN "reject" ELSE "admit",
                 key |-> k, fp |-> fp]]
  /\ UNCHANGED <<mapVars, sizeVars, bucketIdx, rotation, resetIdx>>

\* A new group: allowInsertLocked loads size and compares it with the limit.
InsertCheckLimit(k, fp) ==
  LET b == BucketOf(k) IN
  /\ lock[b] = Unlocked
  /\ k \notin KeysOf(b)
  /\ lock' = [lock EXCEPT ![b] =
                [at  |-> IF size >= Limit THEN "reject" ELSE "admit",
                 key |-> k, fp |-> fp]]
  /\ UNCHANGED <<mapVars, sizeVars, bucketIdx, rotation, resetIdx>>

\* allowInsertLocked counts the group; insert stores its sketch and unlocks.
InsertAdmitted(b) ==
  /\ lock[b].at = "admit"
  /\ bucketSizes' = [bucketSizes EXCEPT ![b] = @ + 1]
  /\ size' = size + 1
  /\ groups' = [groups EXCEPT ![b] = InsertHash(@, lock[b].key, lock[b].fp)]
  /\ lock' = [lock EXCEPT ![b] = Unlocked]
  /\ UNCHANGED <<prevGroups, rejectSketches, bucketIdx, rotation, resetIdx>>

\* (mutant) insert returns after a rejection without unlocking the bucket.
InsertRejectedNoUnlock(b) ==
  /\ lock[b].at = "reject"
  /\ rejectSketches' = [rejectSketches EXCEPT ![b] = @ \cup {lock[b].key}]
  /\ UNCHANGED <<mapVars, bucketSizes, size, threadVars>>

\* allowInsertLocked records the rejected group key under rejectMu.
InsertRejected(b) ==
  /\ lock[b].at = "reject"
  /\ rejectSketches' = [rejectSketches EXCEPT ![b] = @ \cup {lock[b].key}]
  /\ lock' = [lock EXCEPT ![b] = Unlocked]
  /\ UNCHANGED <<mapVars, bucketSizes, size, bucketIdx, rotation, resetIdx>>

-----------------------------------------------------------------------------
(* groupSize.rotateLocked up to rejectMu: the bucket now holds n groups.   *)
RotateSizes(b, n) ==
  LET diff == bucketSizes[b] - n IN
  IF diff > 0
  THEN /\ bucketSizes' = [bucketSizes EXCEPT ![b] = @ - diff]
       /\ size' = size - diff
  ELSE UNCHANGED <<bucketSizes, size>>

\* The rest of rotateLocked, and the unlock of its caller.
ClearRejected(b) ==
  /\ rejectSketches' = [rejectSketches EXCEPT ![b] = {}]
  /\ lock' = [lock EXCEPT ![b] = Unlocked]
  /\ UNCHANGED <<mapVars, bucketSizes, size>>

\* (mutant) rotateLocked is given the size of the new, empty, generation.
RotateWrongSize(b) ==
  /\ rotation # "stopped"
  /\ b = bucketIdx
  /\ lock[b] = Unlocked
  /\ prevGroups' = [prevGroups EXCEPT ![b] = groups[b]]
  /\ groups' = [groups EXCEPT ![b] = EmptyMap]
  /\ RotateSizes(b, 0)
  /\ lock' = [lock EXCEPT ![b] = [at |-> "rotate"]]
  /\ UNCHANGED <<rejectSketches, bucketIdx, rotation, resetIdx>>

\* (mutant) rotate keeps the groups of the old previous generation.
RotateKeepsPrev(b) ==
  /\ rotation # "stopped"
  /\ b = bucketIdx
  /\ lock[b] = Unlocked
  /\ prevGroups' = [prevGroups EXCEPT ![b] =
                      [k \in KeysOf(b) |-> IF k \in DOMAIN groups[b]
                                           THEN groups[b][k] ELSE prevGroups[b][k]]]
  /\ groups' = [groups EXCEPT ![b] = EmptyMap]
  /\ RotateSizes(b, Cardinality(DOMAIN groups[b]))
  /\ lock' = [lock EXCEPT ![b] = [at |-> "rotate"]]
  /\ UNCHANGED <<rejectSketches, bucketIdx, rotation, resetIdx>>

\* estimatorBucket.rotate: the current generation becomes the previous one.
Rotate(b) ==
  /\ rotation # "stopped"
  /\ b = bucketIdx
  /\ lock[b] = Unlocked
  /\ prevGroups' = [prevGroups EXCEPT ![b] = groups[b]]
  /\ groups' = [groups EXCEPT ![b] = EmptyMap]
  /\ RotateSizes(b, Cardinality(DOMAIN groups[b]))
  /\ lock' = [lock EXCEPT ![b] = [at |-> "rotate"]]
  /\ UNCHANGED <<rejectSketches, bucketIdx, rotation, resetIdx>>

\* (mutant) The rotation index runs past the last bucket.
RotateDoneNoWrap(b) ==
  /\ lock[b].at = "rotate"
  /\ ClearRejected(b)
  /\ bucketIdx' = bucketIdx + 1
  /\ UNCHANGED <<rotation, resetIdx>>

\* (mutant) The rotation index does not move: one bucket rotates for ever.
RotateDoneSameBucket(b) ==
  /\ lock[b].at = "rotate"
  /\ ClearRejected(b)
  /\ UNCHANGED <<bucketIdx, rotation, resetIdx>>

\* rotate returns; runRotation moves on to the next bucket.
RotateDone(b) ==
  /\ lock[b].at = "rotate"
  /\ ClearRejected(b)
  /\ bucketIdx' = (bucketIdx + 1) % NB
  /\ UNCHANGED <<rotation, resetIdx>>

\* estimator.stop closes stopCh.  Inserts and resets that got hold of the
\* estimator before it was replaced may still follow.
Stop ==
  /\ rotation = "running"
  /\ rotation' = "stopping"
  /\ UNCHANGED <<mapVars, sizeVars, lock, bucketIdx, resetIdx>>

\* (mutant) runRotation notices stopCh only before its first rotation.
RotationExitLate ==
  /\ rotation = "stopping"
  /\ \A b \in Bucket : prevGroups[b] = EmptyMap /\ groups[b] = EmptyMap
  /\ rotation' = "stopped"
  /\ UNCHANGED <<mapVars, sizeVars, lock, bucketIdx, resetIdx>>

\* runRotation, between two rotations, receives from stopCh and returns.
RotationExit ==
  /\ rotation = "stopping"
  /\ lock[bucketIdx].at # "rotate"
  /\ rotation' = "stopped"
  /\ UNCHANGED <<mapVars, sizeVars, lock, bucketIdx, resetIdx>>

\* A call of estimator.reset starts with bucket 0.
ResetStart(r) ==
  /\ resetIdx[r] = NB
  /\ resetIdx' = [resetIdx EXCEPT ![r] = 0]
  /\ UNCHANGED <<mapVars, sizeVars, lock, bucketIdx, rotation>>

\* estimatorBucket.reset drops both generations.
Reset(b, r) ==
  /\ b = resetIdx[r]
  /\ lock[b] = Unlocked
  /\ groups' = [groups EXCEPT ![b] = EmptyMap]
  /\ prevGroups' = [prevGroups EXCEPT ![b] = EmptyMap]
  /\ RotateSizes(b, 0)
  /\ lock' = [lock EXCEPT ![b] = [at |-> "reset", by |-> r]]
  /\ UNCHANGED <<rejectSketches, bucketIdx, rotation, resetIdx>>

\* The bucket's reset returns; estimator.reset moves on to the next bucket.
ResetDone(b) ==
  /\ lock[b].at = "reset"
  /\ ClearRejected(b)
  /\ resetIdx' = [resetIdx EXCEPT ![lock[b].by] = @ + 1]
  /\ UNCHANGED <<bucketIdx, rotation>>

-----------------------------------------------------------------------------
Insert(k) ==
  \E fp \in FP :
    /\ <<k, fp>> \in Arrivals
    /\ InsertKnown(k, fp) \/ InsertCheckLimit(k, fp)

\* What the holder of a bucket's mutex does next.
HolderStep(b) ==
  InsertAdmitted(b) \/ InsertRejected(b) \/ RotateDone(b) \/ ResetDone(b)

Next ==
  \/ \E k \in Key : Insert(k)
  \/ \E b \in Bucket : HolderStep(b) \/ Rotate(b)
  \/ \E r \in Resetter : ResetStart(r) \/ \E b \in Bucket : Reset(b, r)
  \/ Stop
  \/ RotationExit

\* A mutex is always released, the rotation timer keeps firing, a reset that
\* has started goes on, and a closed stopCh is noticed.  Rotation and reset
\* get their turn at a mutex even when inserts keep taking it (sync.Mutex's
\* starvation mode), and select picks among its ready cases at random: SF.
Fairness ==
  /\ \A b \in Bucket : WF_vars(HolderStep(b)) /\ SF_vars(Rotate(b))
  /\ \A b \in Bucket, r \in Resetter : SF_vars(Reset(b, r))
  /\ SF_vars(RotationExit)

Spec     == Init /\ [][Next]_vars
FairSpec == Spec /\ Fairness

-----------------------------------------------------------------------------
(* Properties *)

\* Every variable has the type its field has in the code; a bucket's counter
\* and the shared counter are never negative, and the rotation index and the
\* reset index stay within the bucket array.
TypeOK ==
  /\ groups \in [Bucket -> GroupMap]
  /\ prevGroups \in [Bucket -> GroupMap]
  /\ bucketSizes \in [Bucket -> Nat]
  /\ size \in Nat
  /\ rejectSketches \in [Bucket -> SUBSET Key]
  /\ lock \in [Bucket -> Holder]
  /\ bucketIdx \in Bucket
  /\ rotation \in {"running", "stopping", "stopped"}
  /\ resetIdx \in [Resetter -> 0 .. NB]

\* The groups of the estimator for which at least one sketch is held.
Tracked == {k \in Key : k \in KeysOf(BucketOf(k))}

\* groupSize.bucketSizes counts, for every bucket, the groups held in either
\* generation, each once: insert does not count a group that only moves from
\* the previous generation to the current one, and rotate and reset give back
\* exactly the groups they drop.
BucketAccounting ==
  \A b \in Bucket : bucketSizes[b] = Cardinality(KeysOf(b))

\* The shared atomic counter, updated by buckets that hold different mutexes,
\* never drifts from the number of groups held: groups would otherwise be
\* rejected for ever, or group_limit never enforced.
SizeIsTracked == size = Cardinality(Tracked)

\* What the holder of a bucket's mutex relies on stays true while others run:
\* a group between its limit check and its insert is still unknown to its
\* bucket, and the goroutines of rotate and reset are still at the bucket.
HolderInv ==
  \A b \in Bucket :
    /\ lock[b].at \in {"admit", "reject"} =>
         BucketOf(lock[b].key) = b /\ lock[b].key \notin KeysOf(b)
    /\ lock[b].at = "rotate" => b = bucketIdx /\ rotation # "stopped"
    /\ lock[b].at = "reset" => b = resetIdx[lock[b].by]

\* Buckets that passed the limit check and have not counted their group yet.
Admitting == {b \in Bucket : lock[b].at = "admit"}

\* allowInsertLocked checks the limit and counts the group in two steps under
\* the mutex of one bucket only.  Buckets can pass the check together, but
\* group_limit is exceeded by less than the number of buckets.
LimitOvershoot == size + Cardinality(Admitting) <= Limit + NB - 1

\* The place of an idle group is eventually given back: unless series of the
\* group keep arriving or the estimator is stopped, rotation drops both of its
\* sketches, and its trace in the reject sketch.
EvictsIdle ==
  \A k \in Key :
    \/ []<><<Insert(k)>>_vars
    \/ <>(rotation # "running")
    \/ <>[](k \notin Tracked /\ k \notin rejectSketches[BucketOf(k)])

\* stop ends the rotation goroutine, whatever inserts and resets still do.
RotationStops == (rotation = "stopping") ~> (rotation = "stopped")

\* A call of reset gets through all buckets, against inserts and rotation.
ResetFinishes == \A r \in Resetter : (resetIdx[r] = 0) ~> (resetIdx[r] = NB)

-----------------------------------------------------------------------------
(* What the documentation says of group_limit *)

\* "Maximum number of distinct groups (HLL sketches) to track."
GroupLimitRespected == size <= Limit

\* The sketches in the maps of one generation: bucket and key of each.
SketchesIn(maps) == {e \in Bucket \X Key : e[2] \in DOMAIN maps[e[1]]}

\* The sketches an estimator holds, over both generations.
Sketches == Cardinality(SketchesIn(groups)) + Cardinality(SketchesIn(prevGroups))

\* The memory of a stream is bounded by its limit.  The documentation gives one
\* sketch (2^hll_precision bytes) per group of the limit; the code holds up to
\* two, one per generation, and more groups by the overshoot.
SketchMemory == Sketches <= 2 * (Limit + NB - 1)

\* totalRejected: the sum of the reject sketches' estimates.
totalRejected ==
  MapThenSumSet(LAMBDA b : Cardinality(rejectSketches[b]), Bucket)

\* totalSize, the value of the summary line.  Rejected groups count only from
\* 80% of the limit on (limits are small: the float product is exact enough).
totalSize ==
  IF size >= (Limit * 8) \div 10 THEN size + totalRejected ELSE size

\* "One summary line shows the total number of distinct groups": a group is
\* not counted twice, as tracked and as rejected.
SummaryCountsDistinct ==
  totalSize <= Cardinality(Tracked \cup UNION {rejectSketches[b] : b \in Bucket})
=============================================================================
