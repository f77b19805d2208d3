----------------------------- MODULE GroupWindow -----------------------------
(***************************************************************************)
(* GroupEstimator implements SlidingWindow: the generation that holds a    *)
(* series is its age.                                                      *)
(***************************************************************************)
EXTENDS GroupEstimator

\* Whether map m has series fp in the sketch of group k.
Holds(m, k, fp) == k \in DOMAIN m /\ fp \in m[k]

ageOf ==
  [k \in Key |-> [fp \in FP |->
     LET b == BucketOf(k) IN
     IF Holds(groups[b], k, fp) THEN 0
     ELSE IF Holds(prevGroups[b], k, fp) THEN 1 ELSE 2]]

Window == INSTANCE SlidingWindow WITH age <- ageOf, MaxGroups <- Limit + NB - 1

\* The refinement: inserts, rotations and resets of buckets under their own
\* mutexes, with the shared counter checked and changed in separate steps, look
\* like atomic steps of one sliding window.  A series is counted from its
\* arrival until its bucket has rotated twice or is reset, no longer and no
\* shorter, and groups beyond the limit and its overshoot are never counted.
ImplementsWindow == Window!Spec
=============================================================================
