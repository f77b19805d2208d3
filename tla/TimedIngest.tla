----------------------------- MODULE TimedIngest -----------------------------
(***************************************************************************)
(* The deduplicator in front of a stream, on one clock: a series is        *)
(* dropped while the bloom filter of its bucket has it, and a filter is    *)
(* cleared once per -deduplication.interval, while the stream forgets a    *)
(* series it has not received for a while (GlobalEstimator).  Ingest has   *)
(* the interleavings of requests with both; here a request takes no time.  *)
(***************************************************************************)
EXTENDS GlobalEstimator

CONSTANTS
  NDB,         \* len(d.bfs)
  DedupPeriod, \* runRotation's bucketDur: -deduplication.interval / NDB
  Gap          \* how long a series that does arrive may be silent

\* The advice to set -deduplication.interval "3-5x lower than the shortest
\* estimator interval", made precise.
ASSUME DedupAssumption ==
  /\ {NDB, DedupPeriod} \subseteq Nat \ {0}
  /\ Gap \in Nat
  /\ Late < DedupPeriod
  /\ Cycle % (NDB * DedupPeriod) = 0
  /\ NDB * DedupPeriod + Gap + 2 * Late < NB * Period

VARIABLES
  bfs,    \* d.bfs: the series in the bloom filter of every dedup bucket
  dedup,  \* deduplicator.runRotation: ticks to the timer, and what it clears
  quiet   \* (history) ticks since a series last arrived, at most Gap + 1

dedupVars == <<bfs, dedup, quiet>>
timedVars == <<globalVars, dedupVars>>

DedupBucket == 0 .. NDB - 1

\* (mutant) The boundary clears the first bucket, whichever it is.
FirstBucketBoundary ==
  [at |-> "wait", left |-> DedupPeriod - (wall % DedupPeriod), idx |-> 0]

\* now.Truncate(bucketDur).Add(bucketDur): the wait until the next boundary, and
\* the bucket that is cleared then.
NextBoundary ==
  [at   |-> "wait",
   left |-> DedupPeriod - (wall % DedupPeriod),
   idx  |-> ((wall \div DedupPeriod) + 1) % NDB]

NoBits   == [d \in DedupBucket |-> {}]
AllQuiet == [fp \in FP |-> Gap + 1]

TimedInit ==
  /\ GlobalInit
  /\ bfs = NoBits
  /\ dedup = NextBoundary
  /\ quiet = AllQuiet

\* A series arrives; the filter of its bucket drops it, or has it from now on.
Arrive(fp) ==
  LET d == fp % NDB IN
  /\ quiet' = [quiet EXCEPT ![fp] = 0]
  /\ IF fp \in bfs[d] THEN UNCHANGED <<bfs, estimatorVars, age>>
     ELSE bfs' = [bfs EXCEPT ![d] = @ \cup {fp}] /\ Insert(fp)
  /\ UNCHANGED <<wall, rotation, calm, dedup>>

\* deduplicator.runRotation: the timer fires, the filter of the boundary waited
\* for is replaced, and the clock is read for the next one.
DedupRotate ==
  /\ dedup.left <= 0
  /\ bfs' = [bfs EXCEPT ![dedup.idx] = {}]
  /\ dedup' = NextBoundary
  /\ UNCHANGED <<globalVars, quiet>>

\* The restart of the process also starts the deduplicator afresh.
TimedPanic ==
  /\ ResetPanics
  /\ bfs' = NoBits
  /\ dedup' = NextBoundary
  /\ UNCHANGED quiet

\* A reload replaces the estimator of a changed stream: loadConfig creates one at
\* any time, and resets the deduplicator after the swap.  Requests take no time,
\* so none is between the two.
Recreate ==
  /\ newEstimator
  /\ bfs' = NoBits
  /\ UNCHANGED <<dedup, quiet>>

TimedTick ==
  /\ Tick
  /\ InTime(dedup)
  /\ dedup' = Count(dedup)
  /\ quiet' = [fp \in FP |-> IF quiet[fp] <= Gap THEN quiet[fp] + 1 ELSE quiet[fp]]
  /\ UNCHANGED bfs

TimedNext ==
  \/ \E fp \in FP : Arrive(fp)
  \/ (ReadClock \/ Rotate \/ Reset \/ SetClock) /\ UNCHANGED dedupVars
  \/ TimedPanic \/ Recreate
  \/ DedupRotate
  \/ TimedTick

TimedSpec == TimedInit /\ [][TimedNext]_timedVars

-----------------------------------------------------------------------------
(* Properties *)

\* Types of the deduplicator's state.
TimedTypeOK ==
  /\ GlobalTypeOK
  /\ bfs \in [DedupBucket -> SUBSET FP]
  /\ dedup \in [at : {"wait"}, left : - Late .. DedupPeriod, idx : DedupBucket]
  /\ quiet \in [FP -> 0 .. Gap + 1]

\* -deduplication.interval
DedupInterval == NDB * DedupPeriod

\* Every series that arrived within the last Gap ticks is in the estimate, also
\* when the deduplicator dropped it then and all the times before: the filter is
\* cleared, and the series comes through again, before the stream forgets it.
\* After /reset, which leaves the filters alone, after a reload, or when the wall
\* clock was set, it takes at most a dedup interval, a gap and a rotation of each
\* until that is so again.
ArrivingIsCounted ==
  Undisturbed(DedupInterval + DedupPeriod + Late + Gap) =>
    \A fp \in FP : quiet[fp] <= Gap => fp \in Counted
=============================================================================
