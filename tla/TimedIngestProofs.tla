-------------------------- MODULE TimedIngestProofs --------------------------
(***************************************************************************)
(* Proofs about GlobalEstimator and TimedIngest, for every number of       *)
(* buckets, every period and lateness, and a clock that may be set at any  *)
(* time.                                                                   *)
(*                                                                         *)
(* NextRotation(b) is the heart of the argument: as long as runRotation    *)
(* waits for a grid point, a tick makes it one less and a rotation leaves  *)
(* it alone, except that of b itself, which adds half an interval.  So the *)
(* sum of a series' age and its bucket's NextRotation stays within bounds  *)
(* that are fixed when the series is inserted.  NextClear does the same    *)
(* for the deduplicator.                                                   *)
(***************************************************************************)
EXTENDS TimedIngest, TLAPS

-----------------------------------------------------------------------------
(* The inductive invariant *)

\* Ticks until runRotation's timer fires next, if the wall clock is not set.
ToTimer ==
  IF rotation.at = "wait" THEN rotation.left
  ELSE rotation.left + ((Period - ((wall + rotation.left) % Period)) % Period)

\* Rotations before that of bucket b, and ticks until the timer for b fires.
Turns(b) == IF b >= bucketIdx THEN b - bucketIdx ELSE b - bucketIdx + NB

NextRotation(b) == ToTimer + Turns(b) * Period

\* runRotation waits for a grid point, unless the clock was set since it was read.
OnGrid ==
  /\ rotation.at = "read" => rotation.left \in {0, 1}
  /\ rotation.at = "wait" =>
       /\ rotation.left < Period
       /\ (wall + rotation.left) % Period = 0 \/ calm + rotation.left < Period

\* A series is only ever in the two sketches of its bucket.
AtHome == \A b \in Bucket : \A fp \in Held(b) : fp % NB = b

\* A series is in the sketch, or in prevSketch and its next rotation is half an
\* interval after it was inserted, or that is past.
KeptInv ==
  \A fp \in FP : Undisturbed(age[fp]) =>
    \/ fp \in sketch[fp % NB]
    \/ fp \in Held(fp % NB) /\ age[fp] + NextRotation(fp % NB) >= Half - Late
    \/ age[fp] >= Half - Late

\* A series in the sketch is half an interval old at most when the bucket is due,
\* one in prevSketch a whole interval.
ForgottenInv ==
  \A fp \in FP : Undisturbed(age[fp]) =>
    /\ fp \in sketch[fp % NB] => age[fp] + NextRotation(fp % NB) <= Half
    /\ fp \in Held(fp % NB) => age[fp] + NextRotation(fp % NB) <= 2 * Half

\* A bucket that has not rotated is due within half an interval of the start.
NilInv ==
  \A b \in Bucket : prevSketch[b] = Nil => calm + NextRotation(b) <= Half + Late

\* The part about the estimator.
GlobalInv == GlobalTypeOK /\ OnGrid /\ AtHome /\ KeptInv /\ ForgottenInv /\ NilInv

\* Boundaries before that of dedup bucket d, and ticks until the timer for it fires.
DedupTurns(d) == IF d >= dedup.idx THEN d - dedup.idx ELSE d - dedup.idx + NDB

NextClear(d)  == dedup.left + DedupTurns(d) * DedupPeriod

\* The deduplicator waits for the boundary of bucket idx, unless the clock was set
\* since it was read.
OnBoundary ==
  \/ (wall + dedup.left - dedup.idx * DedupPeriod) % DedupInterval = 0
  \/ calm + dedup.left <= DedupPeriod

\* A series in a filter went through a dedup interval before the filter is due at
\* most, or it has not been cleared since /reset or the clock was set.
FilterInv ==
  \A fp \in FP : fp \in bfs[fp % NDB] =>
    \/ age[fp] + NextClear(fp % NDB) <= DedupInterval
    \/ calm + NextClear(fp % NDB) <= DedupInterval + DedupPeriod + Late

\* The same, for a series that arrived lately.
QuietInv ==
  \A fp \in FP : quiet[fp] <= Gap =>
    \/ age[fp] <= DedupInterval + Late + quiet[fp]
    \/ calm <= DedupInterval + DedupPeriod + 2 * Late + quiet[fp]

\* The conjunction that is inductive.
TimedInv == TimedTypeOK /\ GlobalInv /\ OnBoundary /\ FilterInv /\ QuietInv

-----------------------------------------------------------------------------
(* Arithmetic *)

\* Quotient and remainder of the grid computations in both runRotation loops.
LEMMA DivMod ==
  ASSUME NEW a \in Int, NEW n \in Nat \ {0}
  PROVE  /\ a \div n \in Int /\ a % n \in 0 .. n - 1
         /\ a = n * (a \div n) + (a % n)
  OBVIOUS

\* They are the only ones.
LEMMA DivModUnique ==
  ASSUME NEW a \in Int, NEW n \in Nat \ {0}, NEW q \in Int, NEW r \in 0 .. n - 1,
         a = n * q + r
  PROVE  a % n = r /\ a \div n = q
  OBVIOUS

\* A whole number of grid widths does not change the place in the grid.
LEMMA GridShift ==
  ASSUME NEW n \in Nat \ {0}, NEW a \in Int, NEW b \in Int, NEW z \in Int,
         a = b + n * z
  PROVE  a % n = b % n
  <1> DEFINE q == b \div n
             r == b % n
             p == q + z
  <1>1. q \in Int /\ r \in 0 .. n - 1 /\ b = n * q + r
    BY DivMod
  <1> HIDE DEF q, r
  <1>2. p \in Int /\ a = n * p + r
    BY <1>1
  <1> HIDE DEF p
  <1>3. a % n = r
    BY <1>1, <1>2, DivModUnique
  <1> QED BY <1>3 DEF r

\* Products, apart from the facts among which the solver would search for them.
LEMMA Products ==
  ASSUME NEW n \in Int, NEW k \in Int, NEW m \in Int
  PROVE  /\ k * m \in Int /\ (n * k) * m \in Int
         /\ n * (k * m) = (n * k) * m /\ n * (0 - (k * m)) = 0 - ((n * k) * m)
  OBVIOUS

\* A tick of a clock that is kept modulo c is a tick on a grid of width n.
LEMMA TickOnGrid ==
  ASSUME NEW n \in Nat \ {0}, NEW c \in Nat \ {0}, c % n = 0,
         NEW w \in Int, NEW i \in Int, NEW v \in Int, NEW j \in Int,
         v = (w + 1) % c, j = i - 1
  PROVE  (v + j) % n = (w + i) % n
  <1> DEFINE k == c \div n
             m == (w + 1) \div c
             z == 0 - (k * m)
             a == v + j
             b == w + i
  <1>1. k \in Int /\ c = n * k
    BY DivMod
  <1>2. m \in Int /\ w + 1 = c * m + v
    <2>1. w + 1 \in Int
      OBVIOUS
    <2> QED BY <2>1, DivMod
  <1> HIDE DEF k, m
  <1> DEFINE y == c * m
  <1>3. z \in Int /\ y \in Int /\ n * z = 0 - y
    <2>1. k * m \in Int /\ y \in Int /\ n * z = 0 - y
      BY <1>1, <1>2, Products
    <2> QED BY <2>1
  <1>4. a \in Int /\ b \in Int /\ w + 1 = y + v
    BY <1>2
  <1> HIDE DEF y, z
  <1>5. a = b + n * z
    <2>1. a = b - y
      BY <1>3, <1>4
    <2> HIDE DEF a, b
    <2> QED BY <1>3, <1>4, <2>1
  <1> HIDE DEF a, b
  <1>6. a % n = b % n
    BY <1>3, <1>4, <1>5, GridShift
  <1> QED BY <1>6 DEF a, b

\* The ticks from w to the next multiple of n, which is w itself if it is one.
LEMMA ToGrid ==
  ASSUME NEW n \in Nat \ {0}, NEW w \in Int
  PROVE  /\ (n - (w % n)) % n \in 0 .. n - 1
         /\ (w + ((n - (w % n)) % n)) % n = 0
  <1> DEFINE r == w % n
             q == w \div n
  <1>1. r \in 0 .. n - 1 /\ q \in Int /\ w = n * q + r
    BY DivMod
  <1> HIDE DEF r, q
  <1>2. CASE r = 0
    <2>1. (n - r) % n = 0
      <3>1. n - r = n * 1 + 0
        BY <1>2
      <3> QED BY <3>1, DivModUnique
    <2>2. w % n = 0
      BY <1>2 DEF r
    <2> QED BY <1>1, <2>1, <2>2 DEF r
  <1>3. CASE r # 0
    <2>1. (n - r) % n = n - r
      <3>1. n - r = n * 0 + (n - r) /\ n - r \in 0 .. n - 1
        BY <1>1, <1>3
      <3> QED BY <3>1, DivModUnique
    <2>2. w + (n - r) = n * (q + 1) + 0
      BY <1>1
    <2>3. (w + (n - r)) % n = 0
      BY <1>1, <2>2, DivModUnique
    <2> QED BY <1>1, <1>3, <2>1, <2>3 DEF r
  <1> QED BY <1>2, <1>3

\* A tick after a grid point that is l ticks ago, n - l - 1 are left to the next.
LEMMA AfterGrid ==
  ASSUME NEW n \in Nat \ {0}, NEW w \in Int, NEW l \in 0 .. n - 1, (w - l) % n = 0
  PROVE  (n - ((w + 1) % n)) % n = n - l - 1
  <1> DEFINE q == (w - l) \div n
  <1>1. q \in Int /\ w - l = n * q
    BY DivMod
  <1> HIDE DEF q
  <1>2. CASE l = n - 1
    <2>1. w + 1 = n * (q + 1) + 0
      BY <1>1, <1>2
    <2>2. (w + 1) % n = 0
      BY <1>1, <2>1, DivModUnique
    <2>3. n - 0 = n * 1 + 0
      OBVIOUS
    <2>4. (n - 0) % n = 0
      BY <2>3, DivModUnique
    <2> QED BY <1>2, <2>2, <2>4
  <1>3. CASE l # n - 1
    <2>1. w + 1 = n * q + (l + 1) /\ l + 1 \in 0 .. n - 1
      BY <1>1, <1>3
    <2>2. (w + 1) % n = l + 1
      BY <1>1, <2>1, DivModUnique
    <2>3. n - (l + 1) = n * 0 + (n - (l + 1)) /\ n - (l + 1) \in 0 .. n - 1
      BY <1>3
    <2>4. (n - (l + 1)) % n = n - (l + 1)
      BY <2>3, DivModUnique
    <2> QED BY <2>2, <2>4
  <1> QED BY <1>2, <1>3

\* The index of the next bucket of an array of n.
LEMMA NextIndex ==
  ASSUME NEW n \in Nat \ {0}, NEW i \in 0 .. n - 1
  PROVE  (i + 1) % n = IF i = n - 1 THEN 0 ELSE i + 1
  <1>1. CASE i = n - 1
    <2>1. i + 1 = n * 1 + 0
      BY <1>1
    <2> QED BY <1>1, <2>1, DivModUnique
  <1>2. CASE i # n - 1
    <2>1. i + 1 = n * 0 + (i + 1) /\ i + 1 \in 0 .. n - 1
      BY <1>2
    <2> QED BY <1>2, <2>1, DivModUnique
  <1> QED BY <1>1, <1>2

\* i < n turns of p ticks take at most n * p ticks, less one turn.
LEMMA TurnsTake ==
  ASSUME NEW n \in Nat \ {0}, NEW p \in Nat, NEW i \in 0 .. n - 1
  PROVE  /\ i * p \in Nat /\ i * p <= n * p - p
         /\ (i + 1) * p = i * p + p /\ (i - 1) * p = i * p - p
         /\ n * p \in Nat /\ (n - 1) * p = n * p - p /\ (n + 1) * p = n * p + p
         /\ p <= n * p
  OBVIOUS

-----------------------------------------------------------------------------
(* The schedule of the rotations *)

\* What ClockAssumption says of the constants, and of what is computed from them.
LEMMA ConstantTypes ==
  /\ NB \in Nat \ {0} /\ Period \in Nat \ {0} /\ Cycle \in Nat \ {0}
  /\ Late \in Nat /\ Late < Period
  /\ Half \in Nat /\ Half >= Period /\ Half = NB * Period
  /\ Horizon \in Nat /\ Horizon = 2 * Half + Period + 2 * Late + 1
  <1>1. /\ NB \in Nat \ {0} /\ Period \in Nat \ {0} /\ Cycle \in Nat \ {0}
        /\ Late \in Nat /\ Late < Period
    BY ClockAssumption
  <1>2. NB * Period \in Nat /\ Period <= NB * Period
    BY <1>1, TurnsTake
  <1> QED BY <1>1, <1>2 DEF Half, Horizon

\* bucketIdx comes to every bucket in less than NB turns.
LEMMA TurnsType ==
  ASSUME bucketIdx \in Bucket, NEW b \in Bucket
  PROVE  /\ Turns(b) \in 0 .. NB - 1
         /\ Turns(b) * Period \in Nat /\ Turns(b) * Period <= Half - Period
         /\ Turns(b) = 0 <=> b = bucketIdx
  <1>1. Turns(b) \in 0 .. NB - 1 /\ (Turns(b) = 0 <=> b = bucketIdx)
    BY ConstantTypes DEF Turns, Bucket
  <1>2. Turns(b) * Period \in Nat /\ Turns(b) * Period <= NB * Period - Period
    BY <1>1, ConstantTypes, TurnsTake
  <1> QED BY <1>1, <1>2, ConstantTypes

\* The timer fires within a period, or fired at most Late ticks ago.
LEMMA ToTimerRange ==
  ASSUME GlobalTypeOK, OnGrid
  PROVE  /\ ToTimer \in Int /\ - Late <= ToTimer /\ ToTimer <= Period
         /\ rotation.at = "wait" => ToTimer = rotation.left
  <1> USE ConstantTypes
  <1>1. CASE rotation.at = "wait"
    BY <1>1 DEF GlobalTypeOK, OnGrid, ToTimer
  <1>2. CASE rotation.at = "read"
    <2>1. rotation.left \in {0, 1} /\ wall + rotation.left \in Int
      BY <1>2 DEF GlobalTypeOK, OnGrid
    <2>2. (Period - ((wall + rotation.left) % Period)) % Period \in 0 .. Period - 1
      BY <2>1, ToGrid
    <2> QED BY <1>2, <2>1, <2>2 DEF ToTimer
  <1> QED BY <1>1, <1>2 DEF GlobalTypeOK

\* A bucket is due within half an interval.
LEMMA NextRotationRange ==
  ASSUME GlobalTypeOK, OnGrid, NEW b \in Bucket
  PROVE  /\ NextRotation(b) \in Int
         /\ - Late <= NextRotation(b) /\ NextRotation(b) <= Half
  <1>1. Turns(b) * Period \in Nat /\ Turns(b) * Period <= Half - Period
    BY TurnsType DEF GlobalTypeOK
  <1> QED BY <1>1, ToTimerRange, ConstantTypes DEF NextRotation

\* A tick brings every rotation one tick nearer.
LEMMA TickSchedule ==
  ASSUME GlobalTypeOK, OnGrid, Tick
  PROVE  OnGrid' /\ \A b \in Bucket : NextRotation(b)' = NextRotation(b) - 1
  <1> USE ConstantTypes
  <1>1. /\ InTime(rotation) /\ wall' = (wall + 1) % Cycle
        /\ rotation' = [rotation EXCEPT !.left = @ - 1]
        /\ calm' = Older(calm) /\ bucketIdx' = bucketIdx
    BY DEF Tick, Count, estimatorVars
  <1>2. rotation'.at = rotation.at /\ rotation'.left = rotation.left - 1
    BY <1>1 DEF GlobalTypeOK
  <1>3. /\ wall \in Int /\ rotation.left \in Int /\ calm \in Int
        /\ calm' <= calm + 1 /\ calm' \in Int
    BY <1>1 DEF GlobalTypeOK, Older
  <1>4. (wall' + rotation'.left) % Period = (wall + rotation.left) % Period
    <2>1. Cycle % Period = 0 /\ wall + 1 \in Int /\ rotation'.left \in Int
      BY <1>2, <1>3, ClockAssumption
    <2>2. wall' \in Int
      BY <1>1, <2>1, DivMod
    <2> QED BY <1>1, <1>2, <1>3, <2>1, <2>2, TickOnGrid
  <1>5. OnGrid'
    BY <1>1, <1>2, <1>3, <1>4 DEF OnGrid, InTime, GlobalTypeOK
  <1>6. ToTimer' = ToTimer - 1
    <2>1. CASE rotation.at = "wait"
      BY <1>2, <2>1 DEF ToTimer
    <2>2. CASE rotation.at # "wait"
      <3> DEFINE g == (Period - ((wall + rotation.left) % Period)) % Period
      <3>1. g \in Int
        BY <1>3, ToGrid
      <3>2. ToTimer = rotation.left + g
        BY <2>2 DEF ToTimer
      <3>3. ToTimer' = rotation'.left + g
        BY <1>2, <1>4, <2>2 DEF ToTimer
      <3> QED BY <1>2, <1>3, <3>1, <3>2, <3>3
    <2> QED BY <2>1, <2>2
  <1>7. ASSUME NEW b \in Bucket
        PROVE  NextRotation(b)' = NextRotation(b) - 1
    <2>1. Turns(b)' = Turns(b) /\ Turns(b) * Period \in Nat
      BY <1>1, TurnsType DEF Turns, GlobalTypeOK
    <2> QED BY <1>6, <2>1, ToTimerRange DEF NextRotation
  <1> QED BY <1>5, <1>7

\* Reading the clock turns the time to the next grid point into a wait for it.
LEMMA ReadSchedule ==
  ASSUME GlobalTypeOK, OnGrid, ReadClock
  PROVE  OnGrid' /\ \A b \in Bucket : NextRotation(b)' = NextRotation(b)
  <1> USE ConstantTypes
  <1> DEFINE g == (Period - (wall % Period)) % Period
  <1>1. /\ rotation.at = "read" /\ rotation.left = 0
        /\ rotation' = [at |-> "wait", left |-> g]
        /\ wall' = wall /\ bucketIdx' = bucketIdx
    BY DEF ReadClock, Reading, estimatorVars
  <1>2. g \in 0 .. Period - 1 /\ (wall + g) % Period = 0
    BY ToGrid DEF GlobalTypeOK
  <1> HIDE DEF g
  <1>3. OnGrid'
    BY <1>1, <1>2 DEF OnGrid
  <1>4. ToTimer' = ToTimer
    <2>1. ToTimer' = g
      BY <1>1 DEF ToTimer
    <2>2. wall + 0 = wall
      BY DEF GlobalTypeOK
    <2>3. ToTimer = 0 + g
      BY <1>1, <2>2 DEF ToTimer, g
    <2> QED BY <1>2, <2>1, <2>3
  <1> QED BY <1>1, <1>3, <1>4 DEF NextRotation, Turns

\* The turn goes to the next bucket; the one that had it comes last.
LEMMA RotateTurns ==
  ASSUME bucketIdx \in Bucket, bucketIdx' = (bucketIdx + 1) % NB, NEW b \in Bucket
  PROVE  /\ bucketIdx' \in Bucket
         /\ b # bucketIdx => Turns(b)' * Period = Turns(b) * Period - Period
         /\ b = bucketIdx => Turns(b)' * Period = Half - Period
  <1> USE ConstantTypes
  <1>1. bucketIdx' = IF bucketIdx = NB - 1 THEN 0 ELSE bucketIdx + 1
    BY NextIndex DEF Bucket
  <1>2. bucketIdx' \in Bucket
    BY <1>1 DEF Bucket
  <1>3. Turns(b) \in 0 .. NB - 1
    BY TurnsType
  <1>4. CASE b # bucketIdx
    <2>1. Turns(b)' = Turns(b) - 1
      BY <1>1, <1>4 DEF Turns, Bucket
    <2>2. (Turns(b) - 1) * Period = Turns(b) * Period - Period
      BY <1>3, TurnsTake
    <2> QED BY <1>2, <1>4, <2>1, <2>2
  <1>5. CASE b = bucketIdx
    <2>1. Turns(b)' = NB - 1
      BY <1>1, <1>5 DEF Turns, Bucket
    <2>2. (NB - 1) * Period = NB * Period - Period
      BY <1>3, TurnsTake
    <2> QED BY <1>2, <1>5, <2>1, <2>2
  <1> QED BY <1>4, <1>5

\* A rotation that waited for a grid point leaves the time to the others alone,
\* and its own bucket is due again half an interval later.  If the clock was set
\* while it waited, that is not long ago.
LEMMA RotateSchedule ==
  ASSUME GlobalTypeOK, OnGrid, Rotate
  PROVE  /\ OnGrid'
         /\ \/ \A b \in Bucket :
                 /\ b # bucketIdx => NextRotation(b)' = NextRotation(b)
                 /\ b = bucketIdx => /\ NextRotation(b) <= 0
                                     /\ NextRotation(b)' = NextRotation(b) + Half
            \/ /\ calm < Period + Late
               /\ \A b \in Bucket \ {bucketIdx} :
                    calm + NextRotation(b)' <= Half + Late
  <1> USE ConstantTypes
  <1>1. /\ rotation.at = "wait" /\ rotation.left <= 0
        /\ bucketIdx' = (bucketIdx + 1) % NB /\ bucketIdx \in Bucket
        /\ rotation' = [at |-> "read", left |-> 1] /\ wall' = wall /\ calm' = calm
    BY DEF Rotate, GlobalTypeOK
  <1>2. /\ wall \in Int /\ calm \in Nat /\ rotation.left \in Int
        /\ - Late <= rotation.left
    BY DEF GlobalTypeOK
  <1>3. OnGrid'
    BY <1>1 DEF OnGrid
  <1>4. ToTimer = rotation.left
    BY <1>1 DEF ToTimer
  <1> DEFINE g == (Period - ((wall + 1) % Period)) % Period
  <1>5. ToTimer' = 1 + g /\ g \in 0 .. Period - 1
    <2>1. g \in 0 .. Period - 1
      BY <1>2, ToGrid
    <2> QED BY <1>1, <2>1 DEF ToTimer
  <1>6. \A b \in Bucket :
          /\ Turns(b) * Period \in Nat
          /\ Turns(b) * Period <= Half - Period
          /\ b = bucketIdx => Turns(b) * Period = 0
    <2>1. 0 * Period = 0
      OBVIOUS
    <2> QED BY <1>1, <2>1, TurnsType
  <1>7. \A b \in Bucket :
          /\ b # bucketIdx => Turns(b)' * Period = Turns(b) * Period - Period
          /\ b = bucketIdx => Turns(b)' * Period = Half - Period
    BY <1>1, RotateTurns
  <1>8. CASE (wall + rotation.left) % Period = 0
    <2> DEFINE l == - rotation.left
    <2>1. l \in 0 .. Period - 1 /\ wall - l = wall + rotation.left
      BY <1>1, <1>2
    <2>2. g = Period - l - 1
      BY <1>2, <1>8, <2>1, AfterGrid
    <2>3. ToTimer' = ToTimer + Period
      BY <1>2, <1>4, <1>5, <2>2
    <2>4. ASSUME NEW b \in Bucket
          PROVE  /\ b # bucketIdx => NextRotation(b)' = NextRotation(b)
                 /\ b = bucketIdx => /\ NextRotation(b) <= 0
                                     /\ NextRotation(b)' = NextRotation(b) + Half
      <3> DEFINE t == Turns(b) * Period
                 u == Turns(b)' * Period
      <3>1. NextRotation(b) = ToTimer + t /\ NextRotation(b)' = ToTimer' + u
        BY DEF NextRotation
      <3>2. t \in Nat /\ (b = bucketIdx => t = 0)
        BY <1>6, Zenon
      <3>3. (b # bucketIdx => u = t - Period) /\ (b = bucketIdx => u = Half - Period)
        BY <1>7
      <3> HIDE DEF t, u
      <3> QED BY <1>1, <1>2, <1>4, <2>3, <3>1, <3>2, <3>3
    <2> QED BY <1>3, <2>4
  <1>9. CASE (wall + rotation.left) % Period # 0
    <2>1. calm + rotation.left < Period
      BY <1>1, <1>9 DEF OnGrid
    <2>2. calm < Period + Late
      BY <1>2, <2>1
    <2>3. ASSUME NEW b \in Bucket \ {bucketIdx}
          PROVE  calm + NextRotation(b)' <= Half + Late
      <3> DEFINE t == Turns(b) * Period
      <3>1. NextRotation(b)' = ToTimer' + (t - Period)
        BY <1>7 DEF NextRotation
      <3>2. t \in Nat /\ t <= Half - Period
        BY <1>6, Zenon
      <3> HIDE DEF t, g
      <3> QED BY <1>2, <1>5, <2>2, <3>1, <3>2
    <2> QED BY <1>3, <2>2, <2>3
  <1> QED BY <1>8, <1>9

-----------------------------------------------------------------------------
(* GlobalInv, action by action *)

\* What the inequalities need of the constants.
LEMMA Widths ==
  /\ Period \in Nat \ {0} /\ Late \in Nat /\ Late < Period
  /\ Half \in Nat /\ Half >= Period
  /\ Horizon \in Nat /\ Horizon = 2 * Half + Period + 2 * Late + 1
  BY ConstantTypes

\* insertMany picks a bucket of the array.
LEMMA BucketOfSeries ==
  ASSUME NEW fp \in FP
  PROVE  fp % NB \in Bucket
  <1>1. fp \in Int
    BY ClockAssumption
  <1> QED BY <1>1, ConstantTypes, DivMod DEF Bucket

\* Reading the clock changes neither sketches nor schedule.
LEMMA ReadInv ==
  ASSUME GlobalInv, ReadClock
  PROVE  GlobalInv'
  <1> USE DEF GlobalInv
  <1>1. OnGrid' /\ \A b \in Bucket : NextRotation(b)' = NextRotation(b)
    BY ReadSchedule
  <1>2. UNCHANGED <<wall, sketch, prevSketch, bucketIdx, age, calm>>
    BY DEF ReadClock, estimatorVars
  <1>3. GlobalTypeOK'
    <2>1. (Period - (wall % Period)) % Period \in 0 .. Period - 1
      BY ToGrid, ConstantTypes DEF GlobalTypeOK
    <2>2. rotation' \in [at : {"read", "wait"}, left : - Late .. Period]
      BY <2>1, Widths DEF ReadClock
    <2> QED BY <1>2, <2>2 DEF GlobalTypeOK
  <1>4. AtHome'
    BY <1>2 DEF AtHome, Held
  <1>5. KeptInv' /\ ForgottenInv'
    BY <1>1, <1>2, BucketOfSeries DEF KeptInv, ForgottenInv, Held, Undisturbed
  <1>6. NilInv'
    BY <1>1, <1>2 DEF NilInv
  <1> QED BY <1>1, <1>3, <1>4, <1>5, <1>6

\* A tick makes series older and rotations nearer: the sums stay.
LEMMA TickInv ==
  ASSUME GlobalInv, Tick
  PROVE  GlobalInv'
  <1> USE Widths DEF GlobalInv
  <1>1. OnGrid' /\ \A b \in Bucket : NextRotation(b)' = NextRotation(b) - 1
    BY TickSchedule
  <1>2. UNCHANGED <<sketch, prevSketch, bucketIdx>>
    BY DEF Tick, estimatorVars
  <1>3. /\ \A fp \in FP : age[fp] \in 0 .. Horizon /\ age'[fp] = Older(age[fp])
        /\ calm \in 0 .. Horizon /\ calm' = Older(calm)
        /\ age' = [fp \in FP |-> Older(age[fp])]
    BY DEF Tick, GlobalTypeOK
  <1>4. GlobalTypeOK'
    <2>1. wall' \in 0 .. Cycle - 1
      <3>1. wall + 1 \in Int
        BY DEF GlobalTypeOK
      <3> QED BY <3>1, DivMod, ConstantTypes DEF Tick
    <2>2. rotation' \in [at : {"read", "wait"}, left : - Late .. Period]
      BY DEF Tick, InTime, Count, GlobalTypeOK
    <2>3. age' \in [FP -> 0 .. Horizon] /\ calm' \in 0 .. Horizon
      BY <1>3 DEF Older
    <2> QED BY <1>2, <2>1, <2>2, <2>3 DEF GlobalTypeOK
  <1>5. AtHome'
    BY <1>2 DEF AtHome, Held
  <1>6. \A b \in Bucket : NextRotation(b) \in Int
    BY NextRotationRange
  <1>7. ASSUME NEW fp \in FP, Undisturbed(age[fp])'
        PROVE  Undisturbed(age[fp]) /\ age'[fp] = age[fp] + 1
    BY <1>3, <1>7 DEF Undisturbed, Older
  <1>8. KeptInv' /\ ForgottenInv'
    <2> SUFFICES ASSUME NEW fp \in FP, Undisturbed(age[fp])'
                 PROVE  /\ \/ fp \in sketch[fp % NB]
                           \/ /\ fp \in Held(fp % NB)
                              /\ age'[fp] + NextRotation(fp % NB)' >= Half - Late
                           \/ age'[fp] >= Half - Late
                        /\ fp \in sketch[fp % NB] =>
                             age'[fp] + NextRotation(fp % NB)' <= Half
                        /\ fp \in Held(fp % NB) =>
                             age'[fp] + NextRotation(fp % NB)' <= 2 * Half
      BY <1>2 DEF KeptInv, ForgottenInv, Held
    <2>1. Undisturbed(age[fp]) /\ age'[fp] = age[fp] + 1 /\ age[fp] \in Int
      BY <1>3, <1>7
    <2>2. /\ NextRotation(fp % NB) \in Int
          /\ NextRotation(fp % NB)' = NextRotation(fp % NB) - 1
      BY <1>1, <1>6, BucketOfSeries
    <2>3. age'[fp] + NextRotation(fp % NB)' = age[fp] + NextRotation(fp % NB)
      BY <2>1, <2>2
    <2> QED BY <2>1, <2>3 DEF KeptInv, ForgottenInv
  <1>9. NilInv'
    BY <1>1, <1>2, <1>3, <1>6 DEF NilInv, Older
  <1> QED BY <1>1, <1>4, <1>5, <1>8, <1>9

\* An inserted series is of age 0, and its bucket due within half an interval.
LEMMA InsertInv ==
  ASSUME GlobalInv, NEW x \in FP, Insert(x), UNCHANGED <<wall, rotation, calm>>
  PROVE  GlobalInv'
  <1> USE Widths DEF GlobalInv
  <1> DEFINE h == x % NB
  <1>1. h \in Bucket
    BY BucketOfSeries
  <1> HIDE DEF h
  <1>2. /\ sketch' = [sketch EXCEPT ![h] = @ \cup {x}]
        /\ age' = [age EXCEPT ![x] = 0]
        /\ UNCHANGED <<wall, prevSketch, bucketIdx, rotation, calm>>
    BY DEF Insert, h
  <1>3. GlobalTypeOK' /\ OnGrid'
    BY <1>1, <1>2 DEF GlobalTypeOK, OnGrid
  <1>4. \A b \in Bucket : NextRotation(b)' = NextRotation(b)
    BY <1>2 DEF NextRotation, ToTimer, Turns
  <1>5. \A b \in Bucket : sketch'[b] = IF b = h THEN sketch[b] \cup {x} ELSE sketch[b]
    BY <1>1, <1>2 DEF GlobalTypeOK
  <1>6. \A b \in Bucket : Held(b)' = IF b = h THEN Held(b) \cup {x} ELSE Held(b)
    BY <1>2, <1>5 DEF Held
  <1>7. AtHome'
    BY <1>6 DEF AtHome, h
  <1>8. KeptInv' /\ ForgottenInv'
    <2> SUFFICES ASSUME NEW fp \in FP, Undisturbed(age[fp])'
                 PROVE  /\ \/ fp \in sketch'[fp % NB]
                           \/ /\ fp \in Held(fp % NB)'
                              /\ age'[fp] + NextRotation(fp % NB)' >= Half - Late
                           \/ age'[fp] >= Half - Late
                        /\ fp \in sketch'[fp % NB] =>
                             age'[fp] + NextRotation(fp % NB)' <= Half
                        /\ fp \in Held(fp % NB)' =>
                             age'[fp] + NextRotation(fp % NB)' <= 2 * Half
      BY DEF KeptInv, ForgottenInv
    <2>1. fp % NB \in Bucket /\ NextRotation(fp % NB)' = NextRotation(fp % NB)
      BY <1>4, BucketOfSeries
    <2>2. CASE fp = x
      <3>1. age'[fp] = 0 /\ fp \in sketch'[fp % NB]
        BY <1>1, <1>2, <1>5, <2>2 DEF h, GlobalTypeOK
      <3>2. NextRotation(fp % NB) \in Int /\ NextRotation(fp % NB) <= Half
        BY <2>1, NextRotationRange
      <3> QED BY <2>1, <3>1, <3>2
    <2>3. CASE fp # x
      <3>1. age'[fp] = age[fp] /\ Undisturbed(age[fp])
        BY <1>2, <2>3 DEF GlobalTypeOK, Undisturbed
      <3>2. /\ fp \in sketch'[fp % NB] <=> fp \in sketch[fp % NB]
            /\ fp \in Held(fp % NB)' <=> fp \in Held(fp % NB)
        BY <1>5, <1>6, <2>1, <2>3
      <3> QED BY <2>1, <3>1, <3>2 DEF KeptInv, ForgottenInv
    <2> QED BY <2>2, <2>3
  <1>9. NilInv'
    BY <1>2, <1>4 DEF NilInv
  <1> QED BY <1>3, <1>7, <1>8, <1>9

\* A rotation moves its bucket's series to prevSketch and forgets older ones.
LEMMA RotateInv ==
  ASSUME GlobalInv, Rotate
  PROVE  GlobalInv'
  <1> USE Widths DEF GlobalInv
  <1>1. /\ bucketIdx \in Bucket
        /\ prevSketch' = [prevSketch EXCEPT ![bucketIdx] = sketch[bucketIdx]]
        /\ sketch' = [sketch EXCEPT ![bucketIdx] = {}]
        /\ UNCHANGED <<wall, age, calm>>
    BY DEF Rotate, GlobalTypeOK
  <1>2. GlobalTypeOK'
    <2>1. bucketIdx' \in Bucket
      BY <1>1, RotateTurns DEF Rotate
    <2>2. rotation' \in [at : {"read", "wait"}, left : - Late .. Period]
      BY DEF Rotate
    <2> QED BY <1>1, <2>1, <2>2 DEF GlobalTypeOK
  <1>3. \A b \in Bucket :
          /\ b # bucketIdx => sketch'[b] = sketch[b] /\ prevSketch'[b] = prevSketch[b]
          /\ b = bucketIdx => sketch'[b] = {} /\ prevSketch'[b] = sketch[b]
          /\ b = bucketIdx => prevSketch'[b] # Nil
    <2>1. sketch[bucketIdx] # Nil
      BY <1>1, ClockAssumption DEF GlobalTypeOK
    <2> QED BY <1>1, <2>1 DEF GlobalTypeOK
  <1>4. \A b \in Bucket :
          /\ b # bucketIdx => Held(b)' = Held(b)
          /\ b = bucketIdx => Held(b)' = sketch[b]
          /\ sketch[b] \subseteq Held(b)
    BY <1>3 DEF Held
  <1>5. AtHome'
    BY <1>4 DEF AtHome
  <1>6. \A b \in Bucket : NextRotation(b) \in Int /\ - Late <= NextRotation(b)
    BY NextRotationRange
  <1>7. OnGrid'
    BY RotateSchedule
  <1>8. ASSUME NEW fp \in FP, Undisturbed(age[fp])
        PROVE  \A b \in Bucket :
                 /\ b # bucketIdx => NextRotation(b)' = NextRotation(b)
                 /\ b = bucketIdx => /\ NextRotation(b) <= 0
                                     /\ NextRotation(b)' = NextRotation(b) + Half
    <2>1. calm >= Period + Late
      BY <1>8 DEF Undisturbed, GlobalTypeOK
    <2> QED BY <2>1, RotateSchedule DEF GlobalTypeOK
  <1>9. KeptInv' /\ ForgottenInv'
    <2> SUFFICES ASSUME NEW fp \in FP, Undisturbed(age[fp])
                 PROVE  /\ \/ fp \in sketch'[fp % NB]
                           \/ /\ fp \in Held(fp % NB)'
                              /\ age[fp] + NextRotation(fp % NB)' >= Half - Late
                           \/ age[fp] >= Half - Late
                        /\ fp \in sketch'[fp % NB] =>
                             age[fp] + NextRotation(fp % NB)' <= Half
                        /\ fp \in Held(fp % NB)' =>
                             age[fp] + NextRotation(fp % NB)' <= 2 * Half
      BY <1>1 DEF KeptInv, ForgottenInv, Undisturbed
    <2> DEFINE h == fp % NB
    <2>1. h \in Bucket /\ age[fp] \in Nat
      BY BucketOfSeries DEF GlobalTypeOK
    <2>2. /\ \/ fp \in sketch[h]
             \/ fp \in Held(h) /\ age[fp] + NextRotation(h) >= Half - Late
             \/ age[fp] >= Half - Late
          /\ fp \in sketch[h] => age[fp] + NextRotation(h) <= Half
          /\ fp \in Held(h) => age[fp] + NextRotation(h) <= 2 * Half
      BY DEF KeptInv, ForgottenInv
    <2> HIDE DEF h
    <2>3. CASE h # bucketIdx
      BY <1>3, <1>4, <1>8, <2>1, <2>2, <2>3 DEF h
    <2>4. CASE h = bucketIdx
      <3>1. sketch'[h] = {} /\ Held(h)' = sketch[h]
        BY <1>3, <1>4, <2>1, <2>4
      <3>2. /\ NextRotation(h) \in Int /\ - Late <= NextRotation(h)
            /\ NextRotation(h) <= 0 /\ NextRotation(h)' = NextRotation(h) + Half
        BY <1>6, <1>8, <2>1, <2>4
      <3>3. fp \in sketch[h] => /\ age[fp] + NextRotation(h)' >= Half - Late
                                /\ age[fp] + NextRotation(h)' <= 2 * Half
        BY <2>1, <2>2, <3>2
      <3>4. fp \in sketch[h] \/ age[fp] >= Half - Late
        BY <2>1, <2>2, <3>2
      <3> QED BY <3>1, <3>3, <3>4 DEF h
    <2> QED BY <2>3, <2>4
  <1>10. NilInv'
    <2> SUFFICES ASSUME NEW b \in Bucket, prevSketch'[b] = Nil
                 PROVE  calm + NextRotation(b)' <= Half + Late
      BY <1>1 DEF NilInv
    <2>1. b # bucketIdx /\ prevSketch[b] = Nil
      BY <1>3
    <2> QED BY <2>1, RotateSchedule DEF NilInv
  <1> QED BY <1>2, <1>5, <1>7, <1>9, <1>10

\* When something has just happened, a state of the right types satisfies the
\* bounds on ages, which hold of calm times only.
LEMMA JustDisturbed ==
  ASSUME GlobalTypeOK', calm' = 0
  PROVE  KeptInv' /\ ForgottenInv'
  <1>1. \A fp \in FP : age'[fp] \in Nat
    BY Widths DEF GlobalTypeOK
  <1>2. \A fp \in FP : ~ Undisturbed(age[fp])'
    BY <1>1, Widths DEF Undisturbed
  <1> QED BY <1>2 DEF KeptInv, ForgottenInv

\* /reset empties sketches that are not nil, and leaves the schedule alone.
LEMMA ResetInv ==
  ASSUME GlobalInv, Reset
  PROVE  GlobalInv'
  <1> USE Widths DEF GlobalInv
  <1>1. /\ sketch' = [b \in Bucket |-> {}] /\ prevSketch' = [b \in Bucket |-> {}]
        /\ age' = [fp \in FP |-> Horizon] /\ calm' = 0
        /\ UNCHANGED <<wall, bucketIdx, rotation>>
    BY DEF Reset, Empty, NeverInserted
  <1>2. GlobalTypeOK'
    BY <1>1 DEF GlobalTypeOK
  <1>3. OnGrid'
    BY <1>1 DEF OnGrid, GlobalTypeOK
  <1>4. AtHome'
    BY <1>1 DEF AtHome, Held
  <1>5. NilInv'
    <2>1. {} # Nil
      BY ClockAssumption
    <2> QED BY <1>1, <2>1 DEF NilInv
  <1> QED BY <1>1, <1>2, <1>3, <1>4, <1>5, JustDisturbed

\* A process that has just started is due for its first rotations within half an
\* interval.
LEMMA StartSchedule ==
  ASSUME NEW w \in Int, NEW b \in Bucket
  PROVE  LET t == 0 + ((Period - ((w + 0) % Period)) % Period) IN
         /\ t \in Int /\ b * Period \in Int
         /\ t + b * Period <= Half
  <1> DEFINE t == 0 + ((Period - ((w + 0) % Period)) % Period)
             u == b * Period
  <1>1. t \in Int /\ t <= Period
    <2>1. w + 0 \in Int
      OBVIOUS
    <2>2. (Period - ((w + 0) % Period)) % Period \in 0 .. Period - 1
      BY <2>1, ToGrid, ConstantTypes
    <2> QED BY <2>2, Widths
  <1>2. u \in Int /\ u <= Half - Period
    BY TurnsTake, ConstantTypes DEF Bucket
  <1> HIDE DEF t, u
  <1>3. t + u <= Half
    BY <1>1, <1>2, Widths
  <1> QED BY <1>1, <1>2, <1>3 DEF t, u

\* An estimator is created, when the process starts again after the panic of
\* /reset or by a reload.
LEMMA NewEstimatorInv ==
  ASSUME GlobalInv, newEstimator
  PROVE  GlobalInv'
  <1> USE Widths DEF GlobalInv
  <1>1. /\ sketch' = [b \in Bucket |-> {}] /\ prevSketch' = [b \in Bucket |-> Nil]
        /\ bucketIdx' = 0 /\ rotation' = [at |-> "read", left |-> 0]
        /\ age' = [fp \in FP |-> Horizon] /\ calm' = 0 /\ wall' = wall
    BY DEF newEstimator, Empty, NotRotated, Reading, NeverInserted
  <1>2. GlobalTypeOK'
    <2>1. 0 \in Bucket
      BY ConstantTypes DEF Bucket
    <2>2. sketch' \in [Bucket -> SUBSET FP]
      BY <1>1
    <2>3. prevSketch' \in [Bucket -> (SUBSET FP) \cup {Nil}]
      BY <1>1
    <2>4. rotation' \in [at : {"read", "wait"}, left : - Late .. Period]
      BY <1>1
    <2>5. age' \in [FP -> 0 .. Horizon] /\ calm' \in 0 .. Horizon
      BY <1>1
    <2> QED BY <1>1, <2>1, <2>2, <2>3, <2>4, <2>5 DEF GlobalTypeOK
  <1>3. OnGrid' /\ AtHome'
    BY <1>1 DEF OnGrid, AtHome, Held
  <1>4. NilInv'
    <2> SUFFICES ASSUME NEW b \in Bucket
                 PROVE  0 + NextRotation(b)' <= Half + Late
      BY <1>1 DEF NilInv
    <2> DEFINE t == 0 + ((Period - ((wall + 0) % Period)) % Period)
               u == b * Period
    <2>1. Turns(b)' = b
      BY <1>1 DEF Turns, Bucket
    <2>2. ToTimer' = t
      BY <1>1 DEF ToTimer
    <2>3. NextRotation(b)' = t + u
      BY <2>1, <2>2 DEF NextRotation
    <2>4. t \in Int /\ u \in Int /\ t + u <= Half
      BY StartSchedule DEF GlobalTypeOK
    <2> HIDE DEF t, u
    <2> QED BY <2>3, <2>4
  <1> QED BY <1>1, <1>2, <1>3, <1>4, JustDisturbed

\* newEstimator.
LEMMA InitInv == GlobalInit => GlobalInv
  <1> SUFFICES ASSUME GlobalInit PROVE GlobalInv
    OBVIOUS
  <1> USE Widths
  <1>1. /\ sketch = [b \in Bucket |-> {}] /\ prevSketch = [b \in Bucket |-> Nil]
        /\ bucketIdx = 0 /\ rotation = [at |-> "read", left |-> 0]
        /\ age = [fp \in FP |-> Horizon] /\ calm = 0 /\ wall \in 0 .. Cycle - 1
    BY DEF GlobalInit, Empty, NotRotated, Reading, NeverInserted
  <1>2. GlobalTypeOK
    <2>1. 0 \in Bucket
      BY ConstantTypes DEF Bucket
    <2>2. sketch \in [Bucket -> SUBSET FP]
      BY <1>1
    <2>3. prevSketch \in [Bucket -> (SUBSET FP) \cup {Nil}]
      BY <1>1
    <2>4. rotation \in [at : {"read", "wait"}, left : - Late .. Period]
      BY <1>1
    <2>5. age \in [FP -> 0 .. Horizon] /\ calm \in 0 .. Horizon
      BY <1>1
    <2> QED BY <1>1, <2>1, <2>2, <2>3, <2>4, <2>5 DEF GlobalTypeOK
  <1>3. OnGrid /\ AtHome
    BY <1>1 DEF OnGrid, AtHome, Held
  <1>4. KeptInv /\ ForgottenInv
    BY <1>1 DEF KeptInv, ForgottenInv, Undisturbed
  <1>5. NilInv
    <2>1. \A b \in Bucket : NextRotation(b) \in Int /\ NextRotation(b) <= Half
      BY <1>2, <1>3, NextRotationRange
    <2> QED BY <1>1, <2>1 DEF NilInv
  <1> QED BY <1>2, <1>3, <1>4, <1>5 DEF GlobalInv

\* Setting the clock may move the next rotation, but not beyond a period.
LEMMA SetClockInv ==
  ASSUME GlobalInv, SetClock
  PROVE  GlobalInv'
  <1> USE Widths DEF GlobalInv
  <1>1. /\ wall' \in 0 .. Cycle - 1 /\ calm' = 0
        /\ UNCHANGED <<sketch, prevSketch, bucketIdx, rotation, age>>
    BY DEF SetClock, estimatorVars
  <1>2. GlobalTypeOK'
    BY <1>1 DEF GlobalTypeOK
  <1>3. OnGrid'
    BY <1>1 DEF OnGrid, GlobalTypeOK
  <1>4. AtHome'
    BY <1>1 DEF AtHome, Held
  <1>5. NilInv'
    <2> SUFFICES ASSUME NEW b \in Bucket
                 PROVE  0 + NextRotation(b)' <= Half + Late
      BY <1>1 DEF NilInv
    <2> DEFINE u == Turns(b) * Period
    <2>1. u \in Nat /\ u <= Half - Period
      BY TurnsType DEF GlobalTypeOK
    <2>2. NextRotation(b)' = ToTimer' + u
      BY <1>1 DEF NextRotation, Turns
    <2>3. ToTimer' \in Int /\ ToTimer' <= Period
      <3>1. CASE rotation.at = "wait"
        BY <1>1, <3>1 DEF ToTimer, OnGrid, GlobalTypeOK
      <3>2. CASE rotation.at = "read"
        <4> DEFINE g == (Period - ((wall' + rotation.left) % Period)) % Period
        <4>1. rotation.left \in {0, 1} /\ wall' + rotation.left \in Int
          BY <1>1, <3>2, ConstantTypes DEF OnGrid
        <4>2. g \in 0 .. Period - 1
          BY <4>1, ToGrid
        <4>3. ToTimer' = rotation.left + g
          BY <1>1, <3>2 DEF ToTimer
        <4> HIDE DEF g
        <4> QED BY <4>1, <4>2, <4>3
      <3> QED BY <3>1, <3>2 DEF GlobalTypeOK
    <2> DEFINE t == ToTimer'
    <2> HIDE DEF u, t
    <2>4. t \in Int /\ t <= Period
      BY <2>3 DEF t
    <2>5. t + u <= Half + Late /\ t + u \in Int
      BY <2>1, <2>4
    <2>6. NextRotation(b)' = t + u
      BY <2>2 DEF t
    <2> QED BY <2>5, <2>6
  <1> QED BY <1>1, <1>2, <1>3, <1>4, <1>5, JustDisturbed

-----------------------------------------------------------------------------
(* The schedule of the deduplicator *)

\* What DedupAssumption says of the constants.
LEMMA DedupConstants ==
  /\ NDB \in Nat \ {0} /\ DedupPeriod \in Nat \ {0} /\ Late < DedupPeriod
  /\ DedupInterval \in Nat \ {0} /\ DedupInterval = NDB * DedupPeriod
  /\ DedupPeriod <= DedupInterval /\ Cycle % DedupInterval = 0
  <1>1. /\ NDB \in Nat \ {0} /\ DedupPeriod \in Nat \ {0} /\ Late < DedupPeriod
        /\ Cycle % DedupInterval = 0
    BY DedupAssumption DEF DedupInterval
  <1>2. NDB * DedupPeriod \in Nat /\ DedupPeriod <= NDB * DedupPeriod
    BY <1>1, TurnsTake
  <1> QED BY <1>1, <1>2 DEF DedupInterval

\* What the inequalities need of them.
LEMMA DedupWidths ==
  /\ DedupPeriod \in Nat \ {0} /\ Late < DedupPeriod /\ Gap \in Nat
  /\ DedupInterval \in Nat /\ DedupPeriod <= DedupInterval
  /\ DedupInterval + Gap + 2 * Late < Half
  BY DedupConstants, DedupAssumption DEF DedupInterval, Half

\* A filter's turn comes within NDB boundaries.
LEMMA DedupTurnsType ==
  ASSUME dedup.idx \in DedupBucket, NEW d \in DedupBucket
  PROVE  /\ DedupTurns(d) \in 0 .. NDB - 1
         /\ DedupTurns(d) * DedupPeriod \in Nat
         /\ DedupTurns(d) * DedupPeriod <= DedupInterval - DedupPeriod
  <1>1. DedupTurns(d) \in 0 .. NDB - 1
    BY DedupConstants DEF DedupTurns, DedupBucket
  <1>2. /\ DedupTurns(d) * DedupPeriod \in Nat
        /\ DedupTurns(d) * DedupPeriod <= NDB * DedupPeriod - DedupPeriod
    BY <1>1, DedupConstants, TurnsTake
  <1> QED BY <1>1, <1>2, DedupConstants

\* Every filter is due within a dedup interval.
LEMMA NextClearRange ==
  ASSUME TimedTypeOK, NEW d \in DedupBucket
  PROVE  /\ NextClear(d) \in Int
         /\ - Late <= NextClear(d) /\ NextClear(d) <= DedupInterval
  <1> DEFINE t == DedupTurns(d) * DedupPeriod
  <1>1. t \in Nat /\ t <= DedupInterval - DedupPeriod
    BY DedupTurnsType DEF TimedTypeOK
  <1>2. dedup.left \in Int /\ - Late <= dedup.left /\ dedup.left <= DedupPeriod
    BY Widths, DedupWidths DEF TimedTypeOK
  <1>3. NextClear(d) = dedup.left + t
    BY DEF NextClear
  <1> HIDE DEF t
  <1> QED BY <1>1, <1>2, <1>3, Widths, DedupWidths

\* NextBoundary waits for a boundary, and for the bucket that is cleared then.
LEMMA BoundaryType ==
  ASSUME NEW w \in Nat
  PROVE  /\ DedupPeriod - (w % DedupPeriod) \in 1 .. DedupPeriod
         /\ ((w \div DedupPeriod) + 1) % NDB \in DedupBucket
         /\ (w + (DedupPeriod - (w % DedupPeriod))
               - (((w \div DedupPeriod) + 1) % NDB) * DedupPeriod) % DedupInterval = 0
  <1> DEFINE q == w \div DedupPeriod
             r == w % DedupPeriod
             p == q + 1
             m == p \div NDB
             i == p % NDB
  <1>1. q \in Int /\ r \in 0 .. DedupPeriod - 1 /\ w = DedupPeriod * q + r
    <2>1. w \in Int /\ DedupPeriod \in Nat \ {0}
      BY DedupConstants
    <2> QED BY <2>1, DivMod
  <1> HIDE DEF q, r
  <1>2. p \in Int
    BY <1>1
  <1> HIDE DEF p
  <1>3. m \in Int /\ i \in 0 .. NDB - 1 /\ p = NDB * m + i
    BY <1>2, DivMod, DedupConstants
  <1> HIDE DEF m, i
  <1>4. w + (DedupPeriod - r) = DedupPeriod * p
    BY <1>1, DedupConstants DEF p
  <1>5. DedupPeriod * p = DedupInterval * m + i * DedupPeriod
    <2>1. DedupPeriod * p = DedupPeriod * (NDB * m) + DedupPeriod * i
      BY <1>3, DedupConstants
    <2>2. DedupPeriod * (NDB * m) = (DedupPeriod * NDB) * m
      BY <1>3, DedupConstants, Products
    <2>3. DedupPeriod * NDB = DedupInterval /\ DedupPeriod * i = i * DedupPeriod
      BY <1>3, DedupConstants
    <2> QED BY <2>1, <2>2, <2>3
  <1> DEFINE x == i * DedupPeriod
             y == DedupInterval * m
             a == w + (DedupPeriod - r) - x
  <1>6. x \in Int /\ y \in Int
    BY <1>3, DedupConstants
  <1>7. w + (DedupPeriod - r) = y + x /\ w + (DedupPeriod - r) \in Int
    BY <1>1, <1>4, <1>5, DedupConstants
  <1> HIDE DEF x, y
  <1>8. a = y /\ a \in Int
    <2> DEFINE c == w + (DedupPeriod - r)
    <2>1. c = y + x /\ c \in Int /\ a = c - x
      BY <1>1, <1>6, <1>7, DedupWidths
    <2> HIDE DEF c
    <2> QED BY <1>6, <2>1
  <1> HIDE DEF a
  <1>9. a = DedupInterval * m + 0
    BY <1>6, <1>8 DEF y
  <1>10. a % DedupInterval = 0
    BY <1>3, <1>8, <1>9, DivModUnique, DedupConstants
  <1>11. DedupPeriod - r \in 1 .. DedupPeriod
    BY <1>1, DedupConstants
  <1> QED BY <1>3, <1>10, <1>11 DEF q, r, p, i, a, x, DedupBucket

\* l ticks after the boundary of bucket i, the next one is DedupPeriod - l ticks
\* away and is that of the next bucket.
LEMMA AfterBoundary ==
  ASSUME NEW w \in Nat, NEW l \in 0 .. DedupPeriod - 1, NEW i \in DedupBucket,
         (w - l - i * DedupPeriod) % DedupInterval = 0
  PROVE  /\ w % DedupPeriod = l
         /\ ((w \div DedupPeriod) + 1) % NDB = (i + 1) % NDB
  <1> DEFINE a == w - l - i * DedupPeriod
             m == a \div DedupInterval
             q == NDB * m + i
  <1>1. i \in Int /\ i * DedupPeriod \in Int
    BY DedupConstants DEF DedupBucket
  <1>2. a \in Int
    BY <1>1
  <1>3. a % DedupInterval = 0
    OBVIOUS
  <1> HIDE DEF a
  <1>4. m \in Int /\ a = DedupInterval * m
    <2>1. DedupInterval \in Nat \ {0}
      BY DedupConstants
    <2>2. m \in Int /\ a = DedupInterval * m + (a % DedupInterval)
      BY <1>2, <2>1, DivMod
    <2> QED BY <1>3, <2>1, <2>2
  <1> HIDE DEF m
  <1>5. q \in Int /\ DedupPeriod * q = DedupInterval * m + i * DedupPeriod
    <2>1. DedupPeriod * q = DedupPeriod * (NDB * m) + DedupPeriod * i /\ q \in Int
      BY <1>1, <1>4, DedupConstants
    <2>2. DedupPeriod * (NDB * m) = (DedupPeriod * NDB) * m
      BY <1>4, DedupConstants, Products
    <2>3. DedupPeriod * NDB = DedupInterval /\ DedupPeriod * i = i * DedupPeriod
      BY <1>1, DedupConstants
    <2> QED BY <2>1, <2>2, <2>3
  <1>6. w = DedupPeriod * q + l
    BY <1>1, <1>4, <1>5 DEF a
  <1>7. q + 1 = (i + 1) + NDB * m /\ q + 1 \in Int /\ i + 1 \in Int
    BY <1>1, <1>4, DedupConstants
  <1> HIDE DEF q
  <1>8. w % DedupPeriod = l /\ w \div DedupPeriod = q
    BY <1>5, <1>6, DivModUnique, DedupConstants
  <1>9. (q + 1) % NDB = (i + 1) % NDB
    <2> DEFINE x == q + 1
               y == i + 1
    <2>1. x = y + NDB * m /\ x \in Int /\ y \in Int
      BY <1>7
    <2> HIDE DEF x, y
    <2>2. x % NDB = y % NDB
      BY <1>4, <2>1, GridShift, DedupConstants
    <2> QED BY <2>2 DEF x, y
  <1> QED BY <1>8, <1>9

\* A tick brings every clearing one tick nearer.
LEMMA TickClears ==
  ASSUME TimedTypeOK, OnBoundary, TimedTick
  PROVE  /\ OnBoundary'
         /\ \A d \in DedupBucket : NextClear(d)' = NextClear(d) - 1
  <1>1. /\ wall' = (wall + 1) % Cycle /\ calm' = Older(calm)
        /\ dedup' = [dedup EXCEPT !.left = @ - 1]
    BY DEF TimedTick, Tick, Count
  <1>2. dedup'.left = dedup.left - 1 /\ dedup'.idx = dedup.idx
    BY <1>1 DEF TimedTypeOK
  <1>3. /\ wall \in Int /\ dedup.left \in Int /\ dedup.idx \in Int
        /\ calm \in Int /\ calm' \in Int /\ calm' <= calm + 1
    <2>1. wall \in Int /\ calm \in 0 .. Horizon
      BY DEF TimedTypeOK, GlobalTypeOK
    <2>2. dedup.left \in - Late .. DedupPeriod /\ dedup.idx \in 0 .. NDB - 1
      BY DEF TimedTypeOK, DedupBucket
    <2> QED BY <1>1, <2>1, <2>2, Widths, DedupWidths DEF Older
  <1> DEFINE x == dedup.idx * DedupPeriod
             i == dedup.left - x
             j == dedup'.left - x
  <1>4. x \in Int
    BY <1>3, DedupConstants
  <1> HIDE DEF x
  <1>5. i \in Int /\ j \in Int /\ j = i - 1
    BY <1>2, <1>3, <1>4
  <1>6. /\ (wall + dedup.left - dedup.idx * DedupPeriod) = wall + i
        /\ (wall' + dedup'.left - dedup'.idx * DedupPeriod) = wall' + j
    BY <1>2 DEF x
  <1> HIDE DEF i, j
  <1>7. (wall' + j) % DedupInterval = (wall + i) % DedupInterval
    <2>1. wall + 1 \in Int
      BY <1>3
    <2>2. wall' \in Int
      BY <1>1, <2>1, ConstantTypes, DivMod
    <2>3. DedupInterval \in Nat \ {0} /\ Cycle \in Nat \ {0} /\ Cycle % DedupInterval = 0
      BY DedupConstants, ConstantTypes
    <2> QED BY <1>1, <1>3, <1>5, <2>2, <2>3, TickOnGrid
  <1>8. OnBoundary'
    <2>1. CASE (wall + i) % DedupInterval = 0
      BY <1>6, <1>7, <2>1 DEF OnBoundary, DedupInterval
    <2>2. CASE calm + dedup.left <= DedupPeriod
      BY <1>2, <1>3, <2>2, DedupWidths DEF OnBoundary
    <2> QED BY <1>6, <2>1, <2>2 DEF OnBoundary
  <1>9. ASSUME NEW d \in DedupBucket
        PROVE  NextClear(d)' = NextClear(d) - 1
    <2> DEFINE t == DedupTurns(d) * DedupPeriod
    <2>1. NextClear(d) = dedup.left + t /\ NextClear(d)' = dedup'.left + t
      BY <1>2 DEF NextClear, DedupTurns
    <2>2. t \in Nat
      BY DedupTurnsType DEF TimedTypeOK
    <2> HIDE DEF t
    <2> QED BY <1>2, <1>3, <2>1, <2>2
  <1> QED BY <1>8, <1>9

\* The next boundary, and what it makes of the filters' turns.
LEMMA BoundaryRead ==
  ASSUME TimedTypeOK, dedup' = NextBoundary, wall' = wall
  PROVE  /\ dedup' \in [at : {"wait"}, left : 1 .. DedupPeriod, idx : DedupBucket]
         /\ OnBoundary'
         /\ \A d \in DedupBucket : /\ NextClear(d)' \in Int
                                   /\ NextClear(d)' <= DedupInterval
  <1>1. wall \in Nat
    BY ConstantTypes DEF TimedTypeOK, GlobalTypeOK
  <1> DEFINE l == DedupPeriod - (wall % DedupPeriod)
             i == ((wall \div DedupPeriod) + 1) % NDB
  <1>2. dedup' = [at |-> "wait", left |-> l, idx |-> i]
    BY DEF NextBoundary
  <1>3. /\ l \in 1 .. DedupPeriod /\ i \in DedupBucket
        /\ (wall + l - i * DedupPeriod) % DedupInterval = 0
    BY <1>1, BoundaryType
  <1> HIDE DEF l, i
  <1>4. OnBoundary'
    BY <1>2, <1>3 DEF OnBoundary, DedupInterval
  <1>5. ASSUME NEW d \in DedupBucket
        PROVE  NextClear(d)' \in Int /\ NextClear(d)' <= DedupInterval
    <2> DEFINE k == IF d >= i THEN d - i ELSE d - i + NDB
               t == k * DedupPeriod
    <2>1. k \in 0 .. NDB - 1
      BY <1>3, DedupConstants DEF DedupBucket
    <2>2. NextClear(d)' = l + t
      BY <1>2 DEF NextClear, DedupTurns
    <2> HIDE DEF k
    <2>3. t \in Nat /\ t <= DedupInterval - DedupPeriod
      BY <2>1, DedupConstants, TurnsTake
    <2> HIDE DEF t
    <2> QED BY <1>3, <2>2, <2>3, DedupWidths
  <1> QED BY <1>2, <1>3, <1>4, <1>5

\* Clearing a filter on its boundary leaves the time to the others alone.  If the
\* clock was set while the deduplicator waited, that is not long ago.
LEMMA ClearSchedule ==
  ASSUME TimedTypeOK, OnBoundary, DedupRotate
  PROVE  \/ \A d \in DedupBucket : d # dedup.idx => NextClear(d)' = NextClear(d)
         \/ calm <= DedupPeriod + Late
  <1>1. /\ dedup.left <= 0 /\ dedup' = NextBoundary /\ wall \in Nat /\ calm \in Nat
        /\ dedup.left \in Int /\ - Late <= dedup.left /\ dedup.idx \in DedupBucket
    BY Widths, ConstantTypes DEF DedupRotate, TimedTypeOK, GlobalTypeOK
  <1>2. CASE calm + dedup.left <= DedupPeriod
    BY <1>1, <1>2, Widths, DedupWidths
  <1>3. CASE (wall + dedup.left - dedup.idx * DedupPeriod) % DedupInterval = 0
    <2> DEFINE l == 0 - dedup.left
               i == dedup.idx
    <2>1. l \in 0 .. DedupPeriod - 1 /\ i \in DedupBucket
      BY <1>1, Widths, DedupWidths
    <2>2. (wall - l - i * DedupPeriod) = (wall + dedup.left - dedup.idx * DedupPeriod)
      <3> DEFINE x == i * DedupPeriod
      <3>1. x \in Int
        BY <1>1, DedupConstants DEF DedupBucket
      <3> HIDE DEF x
      <3>2. wall - l - x = wall + dedup.left - x
        BY <1>1, <3>1
      <3> QED BY <3>2 DEF x
    <2>3. (wall - l - i * DedupPeriod) % DedupInterval = 0
      BY <1>3, <2>2
    <2> HIDE DEF l
    <2>4. /\ wall % DedupPeriod = l
          /\ ((wall \div DedupPeriod) + 1) % NDB = (i + 1) % NDB
      BY <1>1, <2>1, <2>3, AfterBoundary
    <2>5. (i + 1) % NDB = IF i = NDB - 1 THEN 0 ELSE i + 1
      BY <2>1, NextIndex, DedupConstants DEF DedupBucket
    <2>6. /\ dedup'.left = DedupPeriod - l
          /\ dedup'.idx = IF i = NDB - 1 THEN 0 ELSE i + 1
      BY <1>1, <2>4, <2>5 DEF NextBoundary
    <2>7. ASSUME NEW d \in DedupBucket, d # dedup.idx
          PROVE  NextClear(d)' = NextClear(d)
      <3> DEFINE k == DedupTurns(d)
                 t == k * DedupPeriod
      <3>1. DedupTurns(d)' = k - 1
        BY <2>1, <2>6, <2>7, DedupConstants DEF DedupTurns, DedupBucket
      <3>2. k \in 0 .. NDB - 1 /\ t \in Nat
        BY <1>1, DedupTurnsType
      <3> HIDE DEF k
      <3>3. (k - 1) * DedupPeriod = t - DedupPeriod
        BY <3>2, TurnsTake, DedupConstants
      <3>4. NextClear(d) = dedup.left + t
        BY DEF NextClear, k
      <3>5. NextClear(d)' = (DedupPeriod - l) + (t - DedupPeriod)
        BY <2>6, <3>1, <3>3 DEF NextClear
      <3> HIDE DEF t
      <3> QED BY <1>1, <3>2, <3>4, <3>5, DedupWidths DEF l
    <2> QED BY <2>7
  <1> QED BY <1>2, <1>3 DEF OnBoundary

-----------------------------------------------------------------------------
(* TimedInv, action by action *)

\* filter picks a bucket of the array.
LEMMA DedupBucketOfSeries ==
  ASSUME NEW fp \in FP
  PROVE  fp % NDB \in DedupBucket
  <1>1. fp \in Int
    BY ClockAssumption
  <1> QED BY <1>1, DedupConstants, DivMod DEF DedupBucket

\* Steps of the stream that leave clocks, ages and the deduplicator alone.
LEMMA StreamStep ==
  ASSUME TimedInv, GlobalInv', UNCHANGED dedupVars, UNCHANGED <<wall, age, calm>>
  PROVE  TimedInv'
  <1> USE DEF TimedInv, dedupVars
  <1>1. TimedTypeOK'
    BY DEF TimedTypeOK, GlobalInv
  <1>2. OnBoundary'
    BY DEF OnBoundary
  <1>3. \A d \in DedupBucket : NextClear(d)' = NextClear(d)
    BY DEF NextClear, DedupTurns
  <1>4. FilterInv'
    BY <1>3, DedupBucketOfSeries DEF FilterInv
  <1>5. QuietInv'
    BY DEF QuietInv
  <1> QED BY <1>1, <1>2, <1>4, <1>5

\* /reset, and setting the clock, leave the filters alone.
LEMMA DisturbingStep ==
  ASSUME TimedInv, GlobalInv', UNCHANGED dedupVars, calm' = 0
  PROVE  TimedInv'
  <1> USE Widths, DedupWidths DEF TimedInv, dedupVars
  <1>1. TimedTypeOK'
    BY DEF TimedTypeOK, GlobalInv
  <1>2. OnBoundary'
    <2>1. dedup.left \in Int /\ dedup.left <= DedupPeriod
      BY DEF TimedTypeOK
    <2> QED BY <2>1 DEF OnBoundary
  <1>3. \A d \in DedupBucket : NextClear(d)' = NextClear(d)
    BY DEF NextClear, DedupTurns
  <1>4. FilterInv'
    <2>1. \A d \in DedupBucket : NextClear(d) \in Int /\ NextClear(d) <= DedupInterval
      BY NextClearRange
    <2>2. \A d \in DedupBucket :
            calm' + NextClear(d)' <= DedupInterval + DedupPeriod + Late
      BY <1>3, <2>1
    <2> QED BY <2>2, DedupBucketOfSeries DEF FilterInv
  <1>5. QuietInv'
    <2>1. \A fp \in FP : quiet'[fp] \in Nat
      BY DEF TimedTypeOK
    <2> QED BY <2>1 DEF QuietInv
  <1> QED BY <1>1, <1>2, <1>4, <1>5

\* A dropped series went through within a dedup interval and the lateness.
LEMMA ArriveInv ==
  ASSUME TimedInv, NEW x \in FP, Arrive(x)
  PROVE  TimedInv'
  <1> USE Widths, DedupWidths DEF TimedInv
  <1> DEFINE h == x % NDB
  <1>1. h \in DedupBucket
    BY DedupBucketOfSeries
  <1> HIDE DEF h
  <1>2. /\ quiet' = [quiet EXCEPT ![x] = 0]
        /\ UNCHANGED <<wall, rotation, calm, dedup>>
    BY DEF Arrive
  <1>3. /\ \A fp \in FP : age[fp] \in Nat /\ quiet[fp] \in Nat
        /\ \A fp \in FP : quiet'[fp] = IF fp = x THEN 0 ELSE quiet[fp]
        /\ quiet' \in [FP -> 0 .. Gap + 1] /\ calm \in Nat
    BY <1>2 DEF TimedTypeOK, GlobalTypeOK
  <1>4. OnBoundary'
    BY <1>2 DEF OnBoundary
  <1>5. \A d \in DedupBucket :
          /\ NextClear(d)' = NextClear(d)
          /\ NextClear(d) \in Int /\ - Late <= NextClear(d)
          /\ NextClear(d) <= DedupInterval
    BY <1>2, NextClearRange DEF NextClear, DedupTurns
  <1>6. CASE x \in bfs[h]
    <2>1. UNCHANGED <<bfs, sketch, prevSketch, bucketIdx, age>>
      BY <1>6 DEF Arrive, estimatorVars, h
    <2>2. GlobalInv'
      BY <1>2, <2>1
      DEF GlobalInv, GlobalTypeOK, OnGrid, AtHome, KeptInv, ForgottenInv, NilInv,
          NextRotation, ToTimer, Turns, Held, Undisturbed
    <2>3. TimedTypeOK'
      BY <1>2, <1>3, <2>1, <2>2 DEF TimedTypeOK, GlobalInv
    <2>4. FilterInv'
      BY <1>2, <1>5, <2>1, DedupBucketOfSeries DEF FilterInv
    <2>5. \/ age[x] <= DedupInterval + Late
          \/ calm <= DedupInterval + DedupPeriod + 2 * Late
      <3>1. \/ age[x] + NextClear(h) <= DedupInterval
            \/ calm + NextClear(h) <= DedupInterval + DedupPeriod + Late
        BY <1>6 DEF FilterInv, h
      <3> QED BY <1>1, <1>3, <1>5, <3>1
    <2>6. QuietInv'
      BY <1>2, <1>3, <2>1, <2>5 DEF QuietInv
    <2> QED BY <1>4, <2>2, <2>3, <2>4, <2>6
  <1>7. CASE x \notin bfs[h]
    <2>1. bfs' = [bfs EXCEPT ![h] = @ \cup {x}] /\ Insert(x)
      BY <1>7 DEF Arrive, h
    <2>2. GlobalInv'
      BY <1>2, <2>1, InsertInv
    <2>3. TimedTypeOK'
      BY <1>1, <1>2, <1>3, <2>1, <2>2 DEF TimedTypeOK, GlobalInv
    <2>4. \A fp \in FP : age'[fp] = IF fp = x THEN 0 ELSE age[fp]
      BY <2>1 DEF Insert, TimedTypeOK, GlobalTypeOK
    <2>5. \A d \in DedupBucket : bfs'[d] = IF d = h THEN bfs[d] \cup {x} ELSE bfs[d]
      BY <1>1, <2>1 DEF TimedTypeOK
    <2>6. FilterInv'
      <3> SUFFICES ASSUME NEW fp \in FP, fp \in bfs'[fp % NDB]
                   PROVE  \/ age'[fp] + NextClear(fp % NDB)' <= DedupInterval
                          \/ calm + NextClear(fp % NDB)'
                                <= DedupInterval + DedupPeriod + Late
        BY <1>2 DEF FilterInv
      <3>1. fp % NDB \in DedupBucket
        BY DedupBucketOfSeries
      <3>2. CASE fp = x
        BY <1>5, <2>4, <3>1, <3>2
      <3>3. CASE fp # x
        <4>1. fp \in bfs[fp % NDB]
          BY <2>5, <3>1, <3>3
        <4> QED BY <1>5, <2>4, <3>1, <3>3, <4>1 DEF FilterInv
      <3> QED BY <3>2, <3>3
    <2>7. QuietInv'
      BY <1>2, <1>3, <2>4 DEF QuietInv
    <2> QED BY <1>4, <2>2, <2>3, <2>6, <2>7
  <1> QED BY <1>6, <1>7

\* A filter is cleared, and the next boundary is waited for.
LEMMA DedupRotateInv ==
  ASSUME TimedInv, DedupRotate
  PROVE  TimedInv'
  <1> USE Widths, DedupWidths DEF TimedInv
  <1>1. /\ bfs' = [bfs EXCEPT ![dedup.idx] = {}] /\ dedup.idx \in DedupBucket
        /\ dedup' = NextBoundary /\ quiet' = quiet
        /\ UNCHANGED <<wall, sketch, prevSketch, bucketIdx, rotation, age, calm>>
    BY DEF DedupRotate, globalVars, TimedTypeOK
  <1>2. GlobalInv'
    BY <1>1
    DEF GlobalInv, GlobalTypeOK, OnGrid, AtHome, KeptInv, ForgottenInv, NilInv,
        NextRotation, ToTimer, Turns, Held, Undisturbed
  <1>3. /\ dedup' \in [at : {"wait"}, left : 1 .. DedupPeriod, idx : DedupBucket]
        /\ OnBoundary'
        /\ \A d \in DedupBucket : NextClear(d)' \in Int /\ NextClear(d)' <= DedupInterval
    BY <1>1, BoundaryRead
  <1>4. TimedTypeOK'
    <2>1. dedup' \in [at : {"wait"}, left : - Late .. DedupPeriod, idx : DedupBucket]
      BY <1>3
    <2>2. bfs' \in [DedupBucket -> SUBSET FP]
      BY <1>1 DEF TimedTypeOK
    <2> QED BY <1>1, <1>2, <2>1, <2>2 DEF TimedTypeOK, GlobalInv
  <1>5. FilterInv'
    <2> SUFFICES ASSUME NEW fp \in FP, fp \in bfs'[fp % NDB]
                 PROVE  \/ age[fp] + NextClear(fp % NDB)' <= DedupInterval
                        \/ calm + NextClear(fp % NDB)'
                              <= DedupInterval + DedupPeriod + Late
      BY <1>1 DEF FilterInv
    <2>1. /\ fp % NDB \in DedupBucket /\ fp % NDB # dedup.idx
          /\ fp \in bfs[fp % NDB]
      BY <1>1, DedupBucketOfSeries DEF TimedTypeOK
    <2>2. CASE \A d \in DedupBucket : d # dedup.idx => NextClear(d)' = NextClear(d)
      BY <2>1, <2>2 DEF FilterInv
    <2>3. CASE calm <= DedupPeriod + Late
      <3>1. calm \in Nat
        BY DEF TimedTypeOK, GlobalTypeOK
      <3> QED BY <1>3, <2>1, <2>3, <3>1
    <2> QED BY <2>2, <2>3, ClearSchedule
  <1>6. QuietInv'
    BY <1>1 DEF QuietInv
  <1> QED BY <1>2, <1>3, <1>4, <1>5, <1>6

\* A tick makes series older and clearings nearer: the sums stay.
LEMMA TimedTickInv ==
  ASSUME TimedInv, TimedTick
  PROVE  TimedInv'
  <1> USE Widths, DedupWidths DEF TimedInv
  <1>1. GlobalInv'
    BY TickInv DEF TimedTick
  <1>2. OnBoundary' /\ \A d \in DedupBucket : NextClear(d)' = NextClear(d) - 1
    BY TickClears
  <1>3. /\ \A fp \in FP : age[fp] \in 0 .. Horizon /\ age'[fp] = Older(age[fp])
        /\ calm \in 0 .. Horizon /\ calm' = Older(calm) /\ bfs' = bfs
        /\ \A fp \in FP : /\ quiet[fp] \in 0 .. Gap + 1
                          /\ quiet'[fp] = IF quiet[fp] <= Gap THEN quiet[fp] + 1
                                          ELSE quiet[fp]
    BY DEF TimedTick, Tick, TimedTypeOK, GlobalTypeOK
  <1>4. TimedTypeOK'
    <2>1. dedup' \in [at : {"wait"}, left : - Late .. DedupPeriod, idx : DedupBucket]
      BY DEF TimedTick, InTime, Count, TimedTypeOK
    <2>2. quiet' \in [FP -> 0 .. Gap + 1]
      BY DEF TimedTick, TimedTypeOK
    <2> QED BY <1>1, <1>3, <2>1, <2>2 DEF TimedTypeOK, GlobalInv
  <1>5. FilterInv'
    <2> SUFFICES ASSUME NEW fp \in FP, fp \in bfs[fp % NDB]
                 PROVE  \/ age'[fp] + NextClear(fp % NDB)' <= DedupInterval
                        \/ calm' + NextClear(fp % NDB)'
                              <= DedupInterval + DedupPeriod + Late
      BY <1>3 DEF FilterInv
    <2>1. /\ NextClear(fp % NDB) \in Int
          /\ NextClear(fp % NDB)' = NextClear(fp % NDB) - 1
      BY <1>2, DedupBucketOfSeries, NextClearRange
    <2>2. \/ age[fp] + NextClear(fp % NDB) <= DedupInterval
          \/ calm + NextClear(fp % NDB) <= DedupInterval + DedupPeriod + Late
      BY DEF FilterInv
    <2> QED BY <1>3, <2>1, <2>2 DEF Older
  <1>6. QuietInv'
    BY <1>3 DEF QuietInv, Older
  <1> QED BY <1>1, <1>2, <1>4, <1>5, <1>6

\* A process that starts again has empty filters.
LEMMA TimedPanicInv ==
  ASSUME TimedInv, TimedPanic
  PROVE  TimedInv'
  <1> USE Widths, DedupWidths DEF TimedInv
  <1>1. /\ newEstimator /\ bfs' = [d \in DedupBucket |-> {}]
        /\ dedup' = NextBoundary /\ quiet' = quiet
        /\ wall' = wall /\ calm' = 0
    BY DEF TimedPanic, ResetPanics, newEstimator, NoBits
  <1>2. GlobalInv'
    BY <1>1, NewEstimatorInv
  <1>3. /\ dedup' \in [at : {"wait"}, left : 1 .. DedupPeriod, idx : DedupBucket]
        /\ OnBoundary'
    BY <1>1, BoundaryRead
  <1>4. TimedTypeOK'
    <2>1. dedup' \in [at : {"wait"}, left : - Late .. DedupPeriod, idx : DedupBucket]
      BY <1>3
    <2> QED BY <1>1, <1>2, <2>1 DEF TimedTypeOK, GlobalInv
  <1>5. FilterInv'
    BY <1>1, DedupBucketOfSeries DEF FilterInv
  <1>6. QuietInv'
    <2>1. \A fp \in FP : quiet'[fp] \in Nat
      BY <1>1 DEF TimedTypeOK
    <2> QED BY <1>1, <2>1 DEF QuietInv
  <1> QED BY <1>2, <1>3, <1>4, <1>5, <1>6

\* A reload creates the estimator anew and empties the filters.
LEMMA RecreateInv ==
  ASSUME TimedInv, Recreate
  PROVE  TimedInv'
  <1> USE Widths, DedupWidths DEF TimedInv
  <1>1. /\ newEstimator /\ bfs' = [d \in DedupBucket |-> {}]
        /\ dedup' = dedup /\ quiet' = quiet
        /\ wall' = wall /\ calm' = 0
    BY DEF Recreate, newEstimator, NoBits
  <1>2. GlobalInv'
    BY <1>1, NewEstimatorInv
  <1>3. OnBoundary'
    <2>1. dedup.left \in - Late .. DedupPeriod
      BY DEF TimedTypeOK
    <2> QED BY <1>1, <2>1 DEF OnBoundary
  <1>4. TimedTypeOK'
    BY <1>1, <1>2 DEF TimedTypeOK, GlobalInv
  <1>5. FilterInv'
    BY <1>1, DedupBucketOfSeries DEF FilterInv
  <1>6. QuietInv'
    <2>1. \A fp \in FP : quiet'[fp] \in Nat
      BY <1>1 DEF TimedTypeOK
    <2> QED BY <1>1, <2>1 DEF QuietInv
  <1> QED BY <1>2, <1>3, <1>4, <1>5, <1>6

\* Both parts start with nothing counted and no bit set.
LEMMA TimedInitInv == TimedInit => TimedInv
  <1> SUFFICES ASSUME TimedInit PROVE TimedInv
    OBVIOUS
  <1> USE Widths, DedupWidths
  <1>1. /\ GlobalInit /\ bfs = [d \in DedupBucket |-> {}]
        /\ dedup = NextBoundary /\ quiet = [fp \in FP |-> Gap + 1]
    BY DEF TimedInit, NoBits, AllQuiet
  <1>2. GlobalInv
    BY <1>1, InitInv
  <1> DEFINE l == DedupPeriod - (wall % DedupPeriod)
             i == ((wall \div DedupPeriod) + 1) % NDB
  <1>3. /\ l \in 1 .. DedupPeriod /\ i \in DedupBucket
        /\ (wall + l - i * DedupPeriod) % DedupInterval = 0
    <2>1. wall \in Nat
      BY <1>2, ConstantTypes DEF GlobalInv, GlobalTypeOK
    <2> QED BY <2>1, BoundaryType
  <1>4. dedup = [at |-> "wait", left |-> l, idx |-> i]
    BY <1>1 DEF NextBoundary
  <1> HIDE DEF l, i
  <1>5. TimedTypeOK
    <2>1. dedup \in [at : {"wait"}, left : - Late .. DedupPeriod, idx : DedupBucket]
      BY <1>3, <1>4
    <2> QED BY <1>1, <1>2, <2>1 DEF TimedTypeOK, GlobalInv
  <1>6. OnBoundary
    BY <1>3, <1>4 DEF OnBoundary, DedupInterval
  <1>7. FilterInv /\ QuietInv
    BY <1>1, DedupBucketOfSeries DEF FilterInv, QuietInv
  <1> QED BY <1>2, <1>5, <1>6, <1>7 DEF TimedInv

-----------------------------------------------------------------------------
(* Theorems *)

\* TimedInv is an invariant of the stream and the deduplicator on one clock.
THEOREM TimedInvariant == TimedSpec => []TimedInv
  <1>1. TimedInit => TimedInv
    BY TimedInitInv
  <1>2. TimedInv /\ [TimedNext]_timedVars => TimedInv'
    <2> SUFFICES ASSUME TimedInv, [TimedNext]_timedVars
                 PROVE  TimedInv'
      OBVIOUS
    <2> USE DEF TimedInv
    <2>1. ASSUME NEW fp \in FP, Arrive(fp)
          PROVE  TimedInv'
      BY <2>1, ArriveInv
    <2>2. CASE ReadClock /\ UNCHANGED dedupVars
      <3>1. UNCHANGED <<wall, age, calm>>
        BY <2>2 DEF ReadClock
      <3> QED BY <2>2, <3>1, ReadInv, StreamStep
    <2>3. CASE Rotate /\ UNCHANGED dedupVars
      <3>1. UNCHANGED <<wall, age, calm>>
        BY <2>3 DEF Rotate
      <3> QED BY <2>3, <3>1, RotateInv, StreamStep
    <2>4. CASE Reset /\ UNCHANGED dedupVars
      <3>1. calm' = 0
        BY <2>4 DEF Reset
      <3> QED BY <2>4, <3>1, ResetInv, DisturbingStep
    <2>5. CASE SetClock /\ UNCHANGED dedupVars
      <3>1. calm' = 0
        BY <2>5 DEF SetClock
      <3> QED BY <2>5, <3>1, SetClockInv, DisturbingStep
    <2>6. CASE TimedPanic \/ Recreate
      BY <2>6, TimedPanicInv, RecreateInv
    <2>7. CASE DedupRotate
      BY <2>7, DedupRotateInv
    <2>8. CASE TimedTick
      BY <2>8, TimedTickInv
    <2>9. CASE UNCHANGED timedVars
      <3>1. GlobalInv'
        BY <2>9
        DEF timedVars, globalVars, GlobalInv, GlobalTypeOK, OnGrid, AtHome, KeptInv,
            ForgottenInv, NilInv, NextRotation, ToTimer, Turns, Held, Undisturbed
      <3>2. UNCHANGED dedupVars /\ UNCHANGED <<wall, age, calm>>
        BY <2>9 DEF timedVars, globalVars
      <3> QED BY <3>1, <3>2, StreamStep
    <2> QED BY <2>1, <2>2, <2>3, <2>4, <2>5, <2>6, <2>7, <2>8, <2>9 DEF TimedNext
  <1> QED BY <1>1, <1>2, PTL DEF TimedSpec

\* The variables of both runRotation loops, and of both parts, keep their types.
THEOREM TimedTypesCorrect == TimedSpec => []TimedTypeOK
  <1>1. TimedInv => TimedTypeOK
    BY DEF TimedInv
  <1> QED BY <1>1, TimedInvariant, PTL

\* A series is counted for half an interval, less the lateness: runRotation never
\* rotates its bucket twice in less time.
THEOREM SeriesKept == TimedSpec => []KeptHalfInterval
  <1>1. TimedInv => KeptHalfInterval
    <2> SUFFICES ASSUME TimedInv, NEW fp \in FP, age[fp] < Half - Late,
                        Undisturbed(age[fp])
                 PROVE  fp \in Counted
      BY DEF KeptHalfInterval
    <2>1. age[fp] \in Int
      BY Widths DEF TimedInv, TimedTypeOK, GlobalTypeOK
    <2>2. fp \in sketch[fp % NB] \/ fp \in Held(fp % NB)
      BY <2>1, Widths DEF TimedInv, GlobalInv, KeptInv
    <2> QED BY <2>2, BucketOfSeries DEF Counted, Held
  <1> QED BY <1>1, TimedInvariant, PTL

\* It is forgotten after an interval, plus the lateness: a late rotation is not
\* skipped, and does not make the next one late.
THEOREM SeriesForgotten == TimedSpec => []ForgottenAfterInterval
  <1>1. TimedInv => ForgottenAfterInterval
    <2> SUFFICES ASSUME TimedInv, NEW fp \in FP, fp \in Counted, Undisturbed(age[fp])
                 PROVE  age[fp] <= 2 * Half + Late
      BY DEF ForgottenAfterInterval
    <2>1. PICK b \in Bucket : fp \in Held(b)
      BY DEF Counted
    <2>2. fp % NB = b
      BY <2>1 DEF TimedInv, GlobalInv, AtHome
    <2>3. age[fp] + NextRotation(b) <= 2 * Half
      BY <2>1, <2>2 DEF TimedInv, GlobalInv, ForgottenInv
    <2>4. age[fp] \in Int /\ NextRotation(b) \in Int /\ - Late <= NextRotation(b)
      BY Widths, NextRotationRange DEF TimedInv, GlobalInv, GlobalTypeOK
    <2> QED BY <2>3, <2>4, Widths
  <1> QED BY <1>1, TimedInvariant, PTL

\* Once the first half interval of an estimator is over, whether the start of the
\* process or a reload created it, every bucket has rotated, and /reset does not
\* meet a nil prevSketch.
THEOREM NoLatePanic == TimedSpec => []PanicsOnlyWhenNew
  <1>1. TimedInv => PanicsOnlyWhenNew
    <2> SUFFICES ASSUME TimedInv, calm > Half + 2 * Late, NEW b \in Bucket,
                        prevSketch[b] = Nil
                 PROVE  FALSE
      BY DEF PanicsOnlyWhenNew
    <2>1. calm + NextRotation(b) <= Half + Late
      BY DEF TimedInv, GlobalInv, NilInv
    <2>2. calm \in Int /\ NextRotation(b) \in Int /\ - Late <= NextRotation(b)
      BY Widths, NextRotationRange DEF TimedInv, GlobalInv, GlobalTypeOK
    <2> QED BY <2>1, <2>2, Widths
  <1> QED BY <1>1, TimedInvariant, PTL

\* A series that keeps arriving is always in the estimate, although the
\* deduplicator drops it until its filter is cleared.
THEOREM ArrivingCounted == TimedSpec => []ArrivingIsCounted
  <1>1. TimedInv => ArrivingIsCounted
    <2> SUFFICES ASSUME TimedInv, NEW fp \in FP, quiet[fp] <= Gap,
                        Undisturbed(DedupInterval + DedupPeriod + Late + Gap)
                 PROVE  fp \in Counted
      BY DEF ArrivingIsCounted
    <2> USE Widths, DedupWidths
    <2>1. age[fp] \in Int /\ quiet[fp] \in Int /\ calm \in Int
      BY DEF TimedInv, TimedTypeOK, GlobalTypeOK
    <2>2. calm >= DedupInterval + DedupPeriod + Late + Gap + Period + Late
      BY <2>1 DEF Undisturbed
    <2>3. age[fp] <= DedupInterval + Late + quiet[fp]
      BY <2>1, <2>2 DEF TimedInv, QuietInv
    <2>4. age[fp] < Half - Late /\ Undisturbed(age[fp])
      BY <2>1, <2>2, <2>3 DEF Undisturbed
    <2>5. fp \in sketch[fp % NB] \/ fp \in Held(fp % NB)
      BY <2>1, <2>4 DEF TimedInv, GlobalInv, KeptInv
    <2> QED BY <2>5, BucketOfSeries DEF Counted, Held
  <1> QED BY <1>1, TimedInvariant, PTL
=============================================================================
