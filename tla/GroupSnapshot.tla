---------------------------- MODULE GroupSnapshot ----------------------------
(***************************************************************************)
(* estimator.toSnapshot of a grouped estimator, running beside inserts,    *)
(* rotations and resets.  It takes a bucket's mutex once to copy the       *)
(* references of both group maps and to list their keys, releases it, and  *)
(* takes it again for every batch of keys.  In between, a rotation or a    *)
(* reset replaces the bucket's maps; the references still point to the old *)
(* ones.  The callback runs without the mutex and may fail.                *)
(*                                                                         *)
(* One call is modelled: concurrent calls only read, and share nothing but *)
(* the mutexes.  A map reference is the flag live while the bucket still   *)
(* has the map, and the map's last contents once the bucket has dropped it. *)
(***************************************************************************)
EXTENDS GroupEstimator

CONSTANT BatchSize

ASSUME BatchSizeAssumption == BatchSize \in Nat \ {0}

VARIABLES
  snapAt,     \* where toSnapshot is
  snapBucket, \* the bucket it is at
  captured,   \* the local variables groups and prevGroups
  keys,       \* keys listed and not merged yet, with the loop that listed them
  batch,      \* s.Sketches: what the next callback is given
  emitted,    \* (history) groups that the callbacks were given so far
  due         \* (history) what buckets held when listed, until it is emitted

snapVars == <<snapAt, snapBucket, captured, keys, batch, emitted, due>>
allVars  == <<vars, snapVars>>

NothingCaptured == [live |-> FALSE, cur |-> EmptyMap, prev |-> EmptyMap]

\* The sketch of k in map m; a missing one contributes nothing to a merge.
SketchIn(m, k) == IF k \in DOMAIN m THEN m[k] ELSE {}

\* The union of two finite maps of sketches.
MergeMaps(m, n) ==
  [k \in DOMAIN m \cup DOMAIN n |-> SketchIn(m, k) \cup SketchIn(n, k)]

\* Keys appended to the slice by one of the two loops over a bucket's maps.
Listed(S, loop) == S \X {loop}

\* (mutant) A batch reads eb.groups again instead of the captured map.
RefetchedGroups == groups[snapBucket]

\* The current-generation map that toSnapshot holds a reference to.
CapturedGroups == IF captured.live THEN groups[snapBucket] ELSE captured.cur

-----------------------------------------------------------------------------
SnapInit ==
  /\ Init
  /\ snapAt = "idle"
  /\ snapBucket = 0
  /\ captured = NothingCaptured
  /\ keys = {}
  /\ batch = EmptyMap
  /\ emitted = {}
  /\ due = EmptyMap

SnapStart ==
  /\ snapAt = "idle"
  /\ snapAt' = "collect"
  /\ snapBucket' = 0
  /\ UNCHANGED <<vars, captured, keys, batch, emitted, due>>

\* (mutant) The second loop lists keys of prevGroups that groups also has.
SnapCollectTwice ==
  LET b == snapBucket IN
  /\ snapAt = "collect"
  /\ b < NB
  /\ lock[b] = Unlocked
  /\ captured' = [live |-> TRUE, cur |-> EmptyMap, prev |-> prevGroups[b]]
  /\ keys' = Listed(DOMAIN groups[b], "cur") \cup Listed(DOMAIN prevGroups[b], "prev")
  /\ due' = MergeMaps(due, MergeMaps(groups[b], prevGroups[b]))
  /\ snapAt' = "merge"
  /\ UNCHANGED <<vars, snapBucket, batch, emitted>>

\* (mutant) Only the current generation is listed.
SnapCollectCurrentOnly ==
  LET b == snapBucket IN
  /\ snapAt = "collect"
  /\ b < NB
  /\ lock[b] = Unlocked
  /\ captured' = [live |-> TRUE, cur |-> EmptyMap, prev |-> prevGroups[b]]
  /\ keys' = Listed(DOMAIN groups[b], "cur")
  /\ due' = MergeMaps(due, MergeMaps(groups[b], prevGroups[b]))
  /\ snapAt' = "merge"
  /\ UNCHANGED <<vars, snapBucket, batch, emitted>>

\* Under the mutex: copy both references and list the keys of both maps.
SnapCollect ==
  LET b == snapBucket IN
  /\ snapAt = "collect"
  /\ b < NB
  /\ lock[b] = Unlocked
  /\ captured' = [live |-> TRUE, cur |-> EmptyMap, prev |-> prevGroups[b]]
  /\ keys' = Listed(DOMAIN groups[b], "cur")
             \cup Listed(DOMAIN prevGroups[b] \ DOMAIN groups[b], "prev")
  /\ due' = MergeMaps(due, MergeMaps(groups[b], prevGroups[b]))
  /\ snapAt' = "merge"
  /\ UNCHANGED <<vars, snapBucket, batch, emitted>>

\* (mutant) The batch loop does not advance.
SnapMergeBatchNoAdvance ==
  /\ snapAt = "merge"
  /\ keys # {}
  /\ lock[snapBucket] = Unlocked
  /\ \E next \in SUBSET keys :
       /\ Cardinality(next) = 1
       /\ batch' = [k \in {e[1] : e \in next} |->
                      SketchIn(CapturedGroups, k) \cup SketchIn(captured.prev, k)]
  /\ snapAt' = "callback"
  /\ UNCHANGED <<vars, snapBucket, captured, keys, emitted, due>>

\* Under the mutex again: merge both generations of the next batch of keys.
SnapMergeBatch ==
  /\ snapAt = "merge"
  /\ keys # {}
  /\ lock[snapBucket] = Unlocked
  /\ \E next \in SUBSET keys :
       /\ Cardinality(next) = IF Cardinality(keys) < BatchSize
                              THEN Cardinality(keys) ELSE BatchSize
       /\ keys' = keys \ next
       /\ batch' = [k \in {e[1] : e \in next} |->
                      SketchIn(CapturedGroups, k) \cup SketchIn(captured.prev, k)]
  /\ snapAt' = "callback"
  /\ UNCHANGED <<vars, snapBucket, captured, emitted, due>>

\* cb(s), and s.Sketches emptied.  What is due is settled only by a batch that
\* has all of it.
Deliver ==
  LET settled == {k \in DOMAIN batch \cap DOMAIN due : due[k] \subseteq batch[k]} IN
  /\ emitted' = emitted \cup DOMAIN batch
  /\ due' = [k \in DOMAIN due \ settled |-> due[k]]
  /\ batch' = EmptyMap

\* The callback takes the batch; s.Sketches is emptied for the next one.
SnapCallback ==
  /\ snapAt = "callback"
  /\ Deliver
  /\ snapAt' = "merge"
  /\ UNCHANGED <<vars, snapBucket, captured, keys>>

\* (mutant) The bucket loop's index moves twice.
SnapSkipsBucket ==
  /\ snapAt = "merge"
  /\ keys = {}
  /\ snapBucket' = snapBucket + 2
  /\ captured' = NothingCaptured
  /\ snapAt' = "collect"
  /\ UNCHANGED <<vars, keys, batch, emitted, due>>

\* No key of the bucket is left.
SnapNextBucket ==
  /\ snapAt = "merge"
  /\ keys = {}
  /\ snapBucket' = snapBucket + 1
  /\ captured' = NothingCaptured
  /\ snapAt' = "collect"
  /\ UNCHANGED <<vars, keys, batch, emitted, due>>

\* All buckets are done: the final callback, with no group and with
\* totalRejected as GroupRejectSize, succeeds.
SnapFinal ==
  /\ snapAt = "collect"
  /\ snapBucket = NB
  /\ snapAt' = "done"
  /\ UNCHANGED <<vars, snapBucket, captured, keys, batch, emitted, due>>

\* toSnapshot has returned, after the final callback or because a callback
\* failed; its local variables are gone.
SnapReturn ==
  /\ \/ snapAt \in {"done", "callback"}
     \/ snapAt = "collect" /\ snapBucket = NB
  /\ snapAt' = "idle"
  /\ snapBucket' = 0
  /\ captured' = NothingCaptured
  /\ keys' = {}
  /\ batch' = EmptyMap
  /\ emitted' = {}
  /\ due' = EmptyMap
  /\ UNCHANGED vars

\* A rotation or reset of bucket b takes its current map away; a reference to
\* it now is to a map that no longer changes.
Detach(b) ==
  /\ captured' = IF captured.live /\ snapBucket = b
                 THEN [captured EXCEPT !.live = FALSE, !.cur = groups[b]]
                 ELSE captured
  /\ UNCHANGED <<snapAt, snapBucket, keys, batch, emitted, due>>

Snapshot ==
  \/ SnapStart \/ SnapCollect \/ SnapMergeBatch \/ SnapCallback
  \/ SnapNextBucket \/ SnapFinal \/ SnapReturn

SnapNext ==
  \/ Snapshot
  \/ (\E k \in Key : Insert(k)) /\ UNCHANGED snapVars
  \/ (\E b \in Bucket : HolderStep(b)) /\ UNCHANGED snapVars
  \/ \E b \in Bucket : Rotate(b) /\ Detach(b)
  \/ \E r \in Resetter, b \in Bucket : Reset(b, r) /\ Detach(b)
  \/ (\E r \in Resetter : ResetStart(r)) /\ UNCHANGED snapVars
  \/ (Stop \/ RotationExit) /\ UNCHANGED snapVars

\* The snapshot goes on, and gets its turn at a mutex that others keep taking.
SnapFairness ==
  /\ \A b \in Bucket : WF_allVars(HolderStep(b) /\ UNCHANGED snapVars)
  /\ SF_allVars(SnapCollect) /\ SF_allVars(SnapMergeBatch)
  /\ WF_allVars(SnapCallback \/ SnapNextBucket \/ SnapFinal)

SnapSpec     == SnapInit /\ [][SnapNext]_allVars
SnapFairSpec == SnapSpec /\ SnapFairness

-----------------------------------------------------------------------------
(* Properties *)

\* Every variable of toSnapshot has its type; it is at a bucket of the array,
\* or past the last one.
SnapTypeOK ==
  /\ snapAt \in {"idle", "collect", "merge", "callback", "done"}
  /\ snapBucket \in 0 .. NB
  /\ captured \in [live : BOOLEAN, cur : GroupMap, prev : GroupMap]
  /\ keys \in SUBSET (Key \X {"cur", "prev"})
  /\ batch \in GroupMap /\ due \in GroupMap
  /\ emitted \subseteq Key

\* Every key that is still to be merged has a sketch in one of the captured
\* maps, whatever was rotated away or reset since it was listed.  Otherwise
\* both lookups yield nil, and mergeSketches dereferences a nil result.
NoNilSketch ==
  snapAt = "merge" =>
    \A e \in keys : e[1] \in DOMAIN CapturedGroups \cup DOMAIN captured.prev

\* A complete snapshot reports every group that its bucket held when the bucket
\* was listed, and of each group at least every series that was in either
\* generation then: releasing the mutex between listing and merging loses
\* nothing to a rotation or a reset.
SnapshotCovers == snapAt = "done" => due = EmptyMap

\* No group is given to the callback twice by one call of toSnapshot: the
\* exposed metrics would carry the same series twice.
EmitsGroupOnce ==
  [][snapAt = "merge" /\ snapAt' = "callback" =>
       DOMAIN batch' \cap (emitted \cup {e[1] : e \in keys'}) = {}]_allVars

\* A snapshot that never meets an error gets to its end, against inserts that
\* keep taking the mutexes and rotations that keep replacing the maps.
SnapshotEnds == (snapAt = "collect") ~> (snapAt \in {"done", "idle"})
=============================================================================
