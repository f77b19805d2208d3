--------------------------- MODULE GlobalEstimator ---------------------------
(***************************************************************************)
(* A stream without group_by (estimator.go): one sketch per bucket and     *)
(* generation, and the schedule of its rotations.  runRotation reads the   *)
(* wall clock to align the next rotation to a grid, and waits on a timer,  *)
(* which does not follow the wall clock when that is set.  GroupEstimator  *)
(* has rotations at arbitrary times; here time is a variable.              *)
(*                                                                         *)
(* The clock is kept modulo Cycle: only its place in the grids matters.  A *)
(* goroutine whose timer has fired runs within Late ticks.  Every access   *)
(* of a bucket is one critical section of its mutex, and one action.       *)
(***************************************************************************)
EXTENDS Integers

CONSTANTS
  FP,      \* fingerprints of time series that pass the stream's filter
  NB,      \* len(e.buckets)
  Period,  \* runRotation's period: interval / 2 / NB
  Cycle,   \* the wall clock is kept modulo this
  Late,    \* the most ticks by which a goroutine is late
  Nil      \* the nil prevSketch of a bucket that has not rotated yet

ASSUME ClockAssumption ==
  /\ FP \subseteq Nat
  /\ {NB, Period, Cycle} \subseteq Nat \ {0}
  /\ Late \in 0 .. Period - 1
  /\ Cycle % Period = 0
  /\ \A S \in SUBSET FP : S # Nil

VARIABLES
  wall,       \* time.Now().UnixNano(), modulo Cycle
  sketch,     \* eb.sketch of every bucket
  prevSketch, \* eb.prevSketch of every bucket
  bucketIdx,  \* runRotation: the bucket that rotates next
  rotation,   \* runRotation: what it does, and in how many ticks
  age,        \* (history) ticks since a series was last inserted
  calm        \* (history) ticks since the estimator was created, /reset, or
              \* the wall clock was set

estimatorVars == <<sketch, prevSketch, bucketIdx>>
globalVars == <<wall, sketch, prevSketch, bucketIdx, rotation, age, calm>>

Bucket == 0 .. NB - 1

\* The time a bucket's generation lasts, half the stream's interval.
Half == NB * Period

\* Histories stop counting here; a series never inserted has this age.
Horizon == 2 * Half + Period + 2 * Late + 1

Older(n) == IF n < Horizon THEN n + 1 ELSE n

\* What a bucket contributes to toSnapshot: both sketches, if it has two.
Held(b) == sketch[b] \cup (IF prevSketch[b] = Nil THEN {} ELSE prevSketch[b])

\* toSnapshot merges the buckets.
Counted == UNION {Held(b) : b \in Bucket}

Empty         == [b \in Bucket |-> {}]
NotRotated    == [b \in Bucket |-> Nil]
Reading       == [at |-> "read", left |-> 0]
NeverInserted == [fp \in FP |-> Horizon]

\* newEstimator: nothing is counted, no bucket has rotated.
GlobalInit ==
  /\ wall \in 0 .. Cycle - 1
  /\ sketch = Empty
  /\ prevSketch = NotRotated
  /\ bucketIdx = 0
  /\ rotation = Reading
  /\ age = NeverInserted
  /\ calm = 0

-----------------------------------------------------------------------------
\* estimatorBucket.insert, called by insertMany for the bucket of fp.
Insert(fp) ==
  /\ sketch' = [sketch EXCEPT ![fp % NB] = @ \cup {fp}]
  /\ age' = [age EXCEPT ![fp] = 0]
  /\ UNCHANGED <<prevSketch, bucketIdx>>

\* (mutant) The wait is to the grid point after the next.
ReadClockSkips ==
  /\ rotation = Reading
  /\ rotation' = [at |-> "wait", left |-> 2 * Period - (wall % Period)]
  /\ UNCHANGED <<wall, estimatorVars, age, calm>>

\* (mutant) The wait is not aligned to the grid.
ReadClockHalf ==
  /\ rotation = Reading
  /\ rotation' = [at |-> "wait", left |-> Period \div 2]
  /\ UNCHANGED <<wall, estimatorVars, age, calm>>

\* runRotation: the wait until the next multiple of period, which is none when
\* the clock is at one.
ReadClock ==
  /\ rotation = Reading
  /\ rotation' = [at |-> "wait", left |-> (Period - (wall % Period)) % Period]
  /\ UNCHANGED <<wall, estimatorVars, age, calm>>

\* (mutant) The rotation index always goes back to 0.
RotateFirstOnly ==
  /\ rotation.at = "wait" /\ rotation.left <= 0
  /\ prevSketch' = [prevSketch EXCEPT ![bucketIdx] = sketch[bucketIdx]]
  /\ sketch' = [sketch EXCEPT ![bucketIdx] = {}]
  /\ bucketIdx' = 0
  /\ rotation' = [at |-> "read", left |-> 1]
  /\ UNCHANGED <<wall, age, calm>>

\* The timer fires and the bucket rotates.  The clock is read again later than
\* the timer fired, so one tick passes: a rotation at a grid point is not
\* followed by another one at the same grid point.
Rotate ==
  /\ rotation.at = "wait" /\ rotation.left <= 0
  /\ prevSketch' = [prevSketch EXCEPT ![bucketIdx] = sketch[bucketIdx]]
  /\ sketch' = [sketch EXCEPT ![bucketIdx] = {}]
  /\ bucketIdx' = (bucketIdx + 1) % NB
  /\ rotation' = [at |-> "read", left |-> 1]
  /\ UNCHANGED <<wall, age, calm>>

\* estimator.reset.  Buckets are reset one by one; they share nothing.
Reset ==
  /\ \A b \in Bucket : prevSketch[b] # Nil
  /\ sketch' = Empty
  /\ prevSketch' = Empty
  /\ age' = NeverInserted
  /\ calm' = 0
  /\ UNCHANGED <<wall, bucketIdx, rotation>>

\* newEstimator: the stream has an estimator in which no bucket has rotated, and
\* its rotation goroutine.
newEstimator ==
  /\ sketch' = Empty
  /\ prevSketch' = NotRotated
  /\ bucketIdx' = 0
  /\ rotation' = Reading
  /\ age' = NeverInserted
  /\ calm' = 0
  /\ UNCHANGED wall

\* estimator.reset meets a nil prevSketch: the handler panics, which ends the
\* process.  It is started again.
ResetPanics ==
  /\ \E b \in Bucket : prevSketch[b] = Nil
  /\ newEstimator

\* A timer's goroutine has not used up its lateness.
InTime(t) == t.left > IF t.at = "read" THEN 0 ELSE - Late

\* A tick for a timer.
Count(t) == [t EXCEPT !.left = @ - 1]

\* Time passes, unless a goroutine would be later than it can be.
Tick ==
  /\ InTime(rotation)
  /\ wall' = (wall + 1) % Cycle
  /\ rotation' = Count(rotation)
  /\ age' = [fp \in FP |-> Older(age[fp])]
  /\ calm' = Older(calm)
  /\ UNCHANGED estimatorVars

\* The wall clock is set, forward or back.
SetClock ==
  /\ wall' \in (0 .. Cycle - 1) \ {wall}
  /\ calm' = 0
  /\ UNCHANGED <<estimatorVars, rotation, age>>

-----------------------------------------------------------------------------
(* Properties *)

GlobalTypeOK ==
  /\ wall \in 0 .. Cycle - 1
  /\ sketch \in [Bucket -> SUBSET FP]
  /\ prevSketch \in [Bucket -> (SUBSET FP) \cup {Nil}]
  /\ bucketIdx \in Bucket
  /\ rotation \in [at : {"read", "wait"}, left : - Late .. Period]
  /\ age \in [FP -> 0 .. Horizon]
  /\ calm \in 0 .. Horizon

\* Nothing has disturbed the schedule for n ticks: a clock that was set shows in
\* the schedule only when runRotation reads it next.
Undisturbed(n) == calm >= n + Period + Late

\* A series is counted for at least half an interval after it was last inserted,
\* less the lateness of a rotation: unless the wall clock was set meanwhile, the
\* schedule never rotates the bucket of a series twice in less time.
KeptHalfInterval ==
  \A fp \in FP :
    age[fp] < Half - Late /\ Undisturbed(age[fp]) => fp \in Counted

\* It is forgotten an interval after it was last inserted, plus the lateness:
\* rotations that are late are not skipped, and do not shift later ones.
ForgottenAfterInterval ==
  \A fp \in FP :
    fp \in Counted /\ Undisturbed(age[fp]) => age[fp] <= 2 * Half + Late

\* A bucket has its nil prevSketch, on which /reset panics, only during the first
\* half interval of its estimator, unless the wall clock is set; that is after the
\* start of the process, and after every reload that creates the estimator anew.
\* Lateness counts twice: a wait that was begun before the clock was set, and the
\* bucket's own.
PanicsOnlyWhenNew ==
  calm > Half + 2 * Late => \A b \in Bucket : prevSketch[b] # Nil
=============================================================================
