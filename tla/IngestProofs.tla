---------------------------- MODULE IngestProofs ----------------------------
(***************************************************************************)
(* Proofs about Ingest for any sets of series, files, and finite sets of   *)
(* requests, bloom filters and instances, any number of dedup buckets and  *)
(* any capacity.  The part of the inductive invariant about reloads is the *)
(* one of ConfigReloadProofs, and is preserved for the reasons given       *)
(* there.                                                                  *)
(***************************************************************************)
EXTENDS Ingest, ConfigReloadProofs

-----------------------------------------------------------------------------
(* The inductive invariant *)

\* The states of a request goroutine: a filter is referred to only in filter, and
\* estimators only in the loop that inserts.
ReqState ==
  {Idle}
  \cup [at : {"load", "passed"}, s : Series, fp : BOOLEAN]
  \cup [at : {"contains", "size", "add", "count"}, s : Series, fp : BOOLEAN, bf : BF]
  \cup [at : {"insert"}, s : Series, fp : BOOLEAN, todo : SUBSET Inst]

\* Types; Reset is under way only where the reloader calls it.
IngestTypeOK ==
  /\ bfs \in [DedupBucket -> BF]
  /\ bits \in [BF -> SUBSET Series] /\ \A g \in BF : IsFiniteSet(bits[g])
  /\ bfSize \in [BF -> Nat]
  /\ dedupIdx \in 0 .. NDB
  /\ pc # "dedup" => dedupIdx = 0
  /\ req \in [Request -> ReqState]
  /\ received \in [Inst -> [Series -> {"never", "held", "wiped"}]]
  /\ resetTodo \subseteq Inst

\* Requests that have passed the size check of filter g and not counted yet.
Pending(g) == {q \in Request : req[q].at \in {"add", "count"} /\ req[q].bf = g}

\* Every pending request may still add one to the size it has checked.
PendingFits ==
  \A g \in BF : bfSize[g] + Cardinality(Pending(g)) <= Capacity + Cardinality(Request) - 1

\* The conjunction that is inductive.  main serves throughout.
IngestInv ==
  /\ ReloadInv /\ main = "serving"
  /\ IngestTypeOK
  /\ DropsOnlyDelivered
  /\ PendingFits /\ FilterOvershoot

-----------------------------------------------------------------------------
(* The initial state *)

\* There are more filters than buckets, so each bucket can have its own.
LEMMA FirstFilters ==
  \E f \in [DedupBucket -> BF] : \A d, c \in DedupBucket : f[d] = f[c] => d = c
  <1>1. Cardinality(BF) \in Nat
    BY DedupAssumption, FS_CardinalityType
  <1>2. ExistsBijection(1 .. Cardinality(BF), BF)
    BY DedupAssumption, FS_CardinalityType
  <1>3. PICK h : h \in Bijection(1 .. Cardinality(BF), BF)
    BY <1>2 DEF ExistsBijection
  <1>4. h \in [1 .. Cardinality(BF) -> BF]
    BY <1>3 DEF Bijection, Injection
  <1>5. \A x, y \in 1 .. Cardinality(BF) : h[x] = h[y] => x = y
    BY <1>3 DEF Bijection, Injection, IsInjective
  <1>6. \A d \in DedupBucket : d \in Int /\ d + 1 \in 1 .. Cardinality(BF)
    BY <1>1, DedupAssumption DEF DedupBucket
  <1> DEFINE f == [d \in DedupBucket |-> h[d + 1]]
  <1>7. f \in [DedupBucket -> BF]
    BY <1>4, <1>6
  <1>8. ASSUME NEW d \in DedupBucket, NEW c \in DedupBucket, f[d] = f[c] PROVE d = c
    BY <1>5, <1>6, <1>8
  <1> HIDE DEF f
  <1> QED BY <1>7, <1>8

\* No request is pending when none has started.
LEMMA NonePending == IngestInit => \A g \in BF : Pending(g) = {}
  BY DEF IngestInit, Pending, Idle

\* No request, no bit set, and an empty filter in every bucket.
LEMMA IngestInitInv == IngestInit => IngestInv
  <1> SUFFICES ASSUME IngestInit PROVE IngestInv
    OBVIOUS
  <1>1. ReloadInv /\ main = "serving"
    BY ReloadInitInv DEF IngestInit, ReloadInit
  <1>2. IngestTypeOK
    <2>1. bfs \in [DedupBucket -> BF]
      BY FirstFilters DEF IngestInit
    <2>2. \A g \in BF : bits[g] = {} /\ IsFiniteSet(bits[g])
      BY FS_EmptySet DEF IngestInit
    <2>3. pc # "dedup" /\ dedupIdx = 0 /\ NDB \in Nat
      BY DedupAssumption DEF IngestInit, ReloadInit
    <2> QED BY <2>1, <2>2, <2>3 DEF IngestInit, IngestTypeOK, ReqState, NothingYet
  <1>3. DropsOnlyDelivered
    <2>1. \A d \in DedupBucket : bits[bfs[d]] = {}
      BY <1>2 DEF IngestInit, IngestTypeOK
    <2> QED BY <2>1 DEF DropsOnlyDelivered
  <1>4. PendingFits /\ FilterOvershoot
    <2>0. Cardinality(Request) \in Nat
      BY DedupAssumption, FS_CardinalityType
    <2>1. \A g \in BF : Counting(g) = {} /\ Pending(g) = {} /\ bits[g] = {} /\ bfSize[g] = 0
      BY NonePending DEF IngestInit, Idle, Counting
    <2>2. Cardinality({}) = 0
      BY FS_EmptySet
    <2>3. ASSUME NEW g \in BF
          PROVE  /\ bfSize[g] + Cardinality(Pending(g)) <= Capacity + Cardinality(Request) - 1
                 /\ bfSize[g] + Cardinality(Counting(g)) <= Capacity + Cardinality(Request) - 1
                 /\ Cardinality(bits[g]) <= bfSize[g] + Cardinality(Counting(g))
      <3>1. /\ Cardinality(Counting(g)) = 0 /\ Cardinality(Pending(g)) = 0
            /\ Cardinality(bits[g]) = 0 /\ bfSize[g] = 0
        BY <2>1, <2>2, Zenon
      <3>2. Capacity \in Nat /\ Capacity >= 1
        BY DedupAssumption
      <3> QED BY <2>0, <3>1, <3>2
    <2> QED BY <2>3 DEF PendingFits, FilterOvershoot
  <1> QED BY <1>1, <1>2, <1>3, <1>4 DEF IngestInv

-----------------------------------------------------------------------------
(* The reloader's part *)

\* Whatever the write path does, the reloader's invariant stays, and main serves.
LEMMA IngestReload ==
  ASSUME IngestInv, [IngestNext]_allVars
  PROVE  ReloadInv' /\ main' = "serving"
  <1>1. CASE UNCHANGED reloadVars
    BY <1>1, ReloadStutter DEF IngestInv, reloadVars
  <1>2. CASE ReloadAlone
    <2>1. FreeInst \ Held \in SUBSET FreeInst
      OBVIOUS
    <2>2. ReloadInv'
      BY <1>2, <2>1, EnvironmentInv, ReloadStepInv DEF ReloadAlone, IngestInv
    <2>3. UNCHANGED main
      BY <1>2 DEF ReloadAlone, EditFile, Wake, ReloadStep, ReadError, ReadUnchanged,
         ReadChanged, BuildReuse, BuildFail, BuildCreate, BuildNothing, EnableFingerprints,
         Store, StopRemoved, LoadDone, LoadReturn, mainVars
    <2> QED BY <2>2, <2>3 DEF IngestInv
  <1>3. CASE DedupReset
    <2>1. ReloadInv'
      BY <1>3, SwapInv DEF DedupReset, IngestInv
    <2> QED BY <1>3, <2>1 DEF DedupReset, DedupDone, mainVars, IngestInv
  <1>4. IngestNext => ReloadAlone \/ DedupReset \/ UNCHANGED reloadVars
    BY DEF IngestNext, RequestStep, Parse, FilterLoad, FilterContains, FilterSize, FilterAdd,
           FilterCount, LoadEstimators, InsertMany, RequestDone, DedupRotate,
           DedupResetBucket, ResetAll, ResetOne
  <1> QED BY <1>1, <1>2, <1>3, <1>4 DEF allVars

-----------------------------------------------------------------------------
(* Types *)

\* Where a request is tells which fields its state has.
LEMMA ReqFields ==
  ASSUME IngestTypeOK, NEW q \in Request
  PROVE  /\ req[q].at \in {"load", "passed"}
              => req[q] \in [at : {"load", "passed"}, s : Series, fp : BOOLEAN]
         /\ req[q].at \in {"contains", "size", "add", "count"}
              => req[q] \in [at : {"contains", "size", "add", "count"}, s : Series,
                             fp : BOOLEAN, bf : BF]
         /\ req[q].at = "insert"
              => req[q] \in [at : {"insert"}, s : Series, fp : BOOLEAN, todo : SUBSET Inst]
  <1>1. req[q] \in ReqState
    BY DEF IngestTypeOK
  <1> QED BY <1>1 DEF ReqState, Idle

\* Every fingerprint hashes to one of the dedup buckets.
LEMMA SeriesBucket == \A s \in Series : s % NDB \in DedupBucket
  BY DedupAssumption DEF DedupBucket

\* The next state of a request that a step of its own gives it.
LEMMA ReqNext ==
  ASSUME IngestInv, NEW q \in Request, RequestStep(q) \/ \E s \in Series : Parse(q, s)
  PROVE  \E r \in ReqState : req' = [req EXCEPT ![q] = r]
  <1>0. IngestTypeOK
    BY DEF IngestInv
  <1> USE <1>0, ReqFields
  <1>1. ASSUME NEW s \in Series, Parse(q, s) PROVE \E r \in ReqState : req' = [req EXCEPT ![q] = r]
    <2>1. fpLabels \in BOOLEAN
      BY DEF IngestInv, ReloadInv, ReloadTypeOK
    <2>2. [at |-> "load", s |-> s, fp |-> fpLabels] \in ReqState
      BY <2>1 DEF ReqState
    <2> QED BY <1>1, <2>2 DEF Parse
  <1>2. CASE FilterLoad(q)
    <2>1. req[q].s \in Series /\ req[q].fp \in BOOLEAN
      BY <1>2 DEF FilterLoad
    <2>2. req[q].s % NDB \in DedupBucket
      BY <2>1, SeriesBucket
    <2>3. bfs[req[q].s % NDB] \in BF
      BY <2>2 DEF IngestTypeOK
    <2>4. [at |-> "contains", s |-> req[q].s, fp |-> req[q].fp, bf |-> bfs[req[q].s % NDB]]
            \in ReqState
      BY <2>1, <2>3 DEF ReqState
    <2> QED BY <1>2, <2>4 DEF FilterLoad
  <1>3. CASE FilterContains(q)
    <2>1. Idle \in ReqState /\ [req[q] EXCEPT !.at = "size"] \in ReqState
      BY <1>3 DEF FilterContains, ReqState
    <2> QED BY <1>3, <2>1 DEF FilterContains
  <1>4. req[q].at \in {"contains", "size", "add", "count"} => Passed(q) \in ReqState
    BY DEF ReqState, Passed
  <1>5. CASE FilterSize(q)
    <2>1. [req[q] EXCEPT !.at = "add"] \in ReqState
      BY <1>5 DEF FilterSize, ReqState
    <2> QED BY <1>4, <1>5, <2>1 DEF FilterSize
  <1>6. CASE FilterAdd(q)
    <2>1. [req[q] EXCEPT !.at = "count"] \in ReqState
      BY <1>6 DEF FilterAdd, ReqState
    <2> QED BY <1>4, <1>6, <2>1 DEF FilterAdd
  <1>7. CASE FilterCount(q)
    BY <1>4, <1>7 DEF FilterCount
  <1>8. CASE LoadEstimators(q)
    <2>1. estimators \in SUBSET Inst
      BY DEF IngestInv, ReloadInv, ReloadTypeOK
    <2>2. [at |-> "insert", s |-> req[q].s, fp |-> req[q].fp, todo |-> estimators] \in ReqState
      BY <1>8, <2>1 DEF LoadEstimators, ReqState
    <2> QED BY <1>8, <2>2 DEF LoadEstimators
  <1>9. ASSUME NEW i \in Inst, InsertMany(q, i)
        PROVE  \E r \in ReqState : req' = [req EXCEPT ![q] = r]
    <2>1. [req[q] EXCEPT !.todo = @ \ {i}] \in ReqState
      BY <1>9 DEF InsertMany, ReqState
    <2>2. req' = [req EXCEPT ![q] = [req[q] EXCEPT !.todo = @ \ {i}]]
      BY <1>9 DEF InsertMany
    <2> QED BY <2>1, <2>2
  <1>10. CASE RequestDone(q)
    BY <1>10 DEF RequestDone, ReqState
  <1> QED BY <1>1, <1>2, <1>3, <1>5, <1>6, <1>7, <1>8, <1>9, <1>10 DEF RequestStep

\* A replaced filter is empty and the others are as they were.
LEMMA ReplaceBFType ==
  ASSUME IngestTypeOK, NEW d \in DedupBucket, ReplaceBF(d)
  PROVE  /\ bfs' \in [DedupBucket -> BF]
         /\ bits' \in [BF -> SUBSET Series] /\ \A g \in BF : IsFiniteSet(bits'[g])
         /\ bfSize' \in [BF -> Nat]
         /\ bits'[bfs'[d]] = {}
         /\ \A c \in DedupBucket \ {d} : bfs'[c] = bfs[c] /\ bits'[bfs[c]] = bits[bfs[c]]
         /\ \A g \in BFInUse \cap BF : bits'[g] = bits[g] /\ bfSize'[g] = bfSize[g]
         /\ \A g \in BF : \/ bits'[g] = bits[g] /\ bfSize'[g] = bfSize[g]
                          \/ bits'[g] = {} /\ bfSize'[g] = 0
  <1> DEFINE kept == BFInUse \cup {bfs[c] : c \in DedupBucket \ {d}}
  <1>1. PICK g \in FreeBF :
          /\ bfs' = [bfs EXCEPT ![d] = g]
          /\ bits' = [f \in BF |-> IF f \in kept THEN bits[f] ELSE {}]
          /\ bfSize' = [f \in BF |-> IF f \in kept THEN bfSize[f] ELSE 0]
    BY DEF ReplaceBF
  <1>2. g \in BF /\ g \notin kept
    BY DEF FreeBF
  <1>3. \A c \in DedupBucket \ {d} : bfs[c] \in kept
    OBVIOUS
  <1>4. \A h \in BFInUse : h \in kept
    OBVIOUS
  <1>5. \A h \in BF : \/ bits'[h] = bits[h] /\ bfSize'[h] = bfSize[h]
                      \/ bits'[h] = {} /\ bfSize'[h] = 0
    BY <1>1
  <1>6. \A h \in BF : IsFiniteSet(bits'[h])
    BY <1>5, FS_EmptySet DEF IngestTypeOK
  <1> HIDE DEF kept
  <1>7. bfs' \in [DedupBucket -> BF] /\ bfs'[d] = g
        /\ \A c \in DedupBucket \ {d} : bfs'[c] = bfs[c] /\ bfs[c] \in BF
    BY <1>1, <1>2 DEF IngestTypeOK
  <1>8. bits' \in [BF -> SUBSET Series] /\ bfSize' \in [BF -> Nat]
    BY <1>1 DEF IngestTypeOK
  <1>9. bits'[g] = {} /\ \A h \in kept \cap BF : bits'[h] = bits[h] /\ bfSize'[h] = bfSize[h]
    BY <1>1, <1>2
  <1> QED BY <1>3, <1>4, <1>5, <1>6, <1>7, <1>8, <1>9

\* The reloader is in Reset only between two steps of Ingest's own.
LEMMA DedupOnlyFromStore ==
  ASSUME NEW free, EditFile \/ Wake \/ ReloadStep(free)
  PROVE  (pc' = "dedup" => pc = "dedup" \/ Store) /\ (pc = "dedup" => pc' = "dedup")
  BY DEF EditFile, Wake, ReloadStep, ReadError, ReadUnchanged, ReadChanged, BuildReuse,
         BuildFail, BuildCreate, BuildNothing, EnableFingerprints, Store, StopRemoved,
         LoadDone, LoadReturn

\* Every step keeps the types.
LEMMA IngestTypes ==
  ASSUME IngestInv, [IngestNext]_allVars
  PROVE  IngestTypeOK'
  <1>0. IngestTypeOK
    BY DEF IngestInv
  <1>1. ASSUME NEW q \in Request, RequestStep(q) \/ \E s \in Series : Parse(q, s)
        PROVE  IngestTypeOK'
    <2>1. req' \in [Request -> ReqState]
      BY <1>0, <1>1, ReqNext DEF IngestTypeOK
    <2>2. CASE FilterAdd(q)
      <3>1. req[q].bf \in BF /\ req[q].s \in Series
        BY <1>0, <2>2, ReqFields DEF FilterAdd
      <3>2. bits' \in [BF -> SUBSET Series]
        BY <1>0, <2>2, <3>1 DEF FilterAdd, IngestTypeOK
      <3>3. \A g \in BF : bits'[g] = bits[g] \/ bits'[g] = bits[g] \cup {req[q].s}
        BY <1>0, <2>2 DEF FilterAdd, IngestTypeOK
      <3>4. \A g \in BF : IsFiniteSet(bits'[g])
        <4> SUFFICES ASSUME NEW g \in BF PROVE IsFiniteSet(bits'[g])
          OBVIOUS
        <4>1. IsFiniteSet(bits[g])
          BY <1>0 DEF IngestTypeOK
        <4>2. IsFiniteSet(bits[g] \cup {req[q].s})
          BY <4>1, FS_AddElement
        <4> QED BY <3>3, <4>1, <4>2
      <3> QED BY <1>0, <2>1, <2>2, <3>2, <3>4 DEF FilterAdd, IngestTypeOK, reloadVars
    <2>3. CASE FilterCount(q)
      <3>0. bfSize \in [BF -> Nat] /\ \A n \in Nat : n + 1 \in Nat
        BY <1>0 DEF IngestTypeOK
      <3>1. bfSize' \in [BF -> Nat]
        BY <2>3, <3>0 DEF FilterCount
      <3> QED BY <1>0, <2>1, <2>3, <3>1 DEF FilterCount, IngestTypeOK, reloadVars
    <2>4. ASSUME NEW i \in Inst, InsertMany(q, i) PROVE IngestTypeOK'
      <3>1. received' \in [Inst -> [Series -> {"never", "held", "wiped"}]]
        BY <1>0, <2>4 DEF InsertMany, IngestTypeOK
      <3> QED BY <1>0, <2>1, <2>4, <3>1 DEF InsertMany, IngestTypeOK, reloadVars, dedupVars
    <2>5. CASE UNCHANGED <<reloadVars, dedupVars, received, resetTodo>>
      BY <1>0, <2>1, <2>5 DEF IngestTypeOK, reloadVars, dedupVars
    <2> QED BY <1>1, <2>2, <2>3, <2>4, <2>5 DEF RequestStep, FilterLoad, FilterContains,
            FilterSize, LoadEstimators, RequestDone, Parse
  <1>2. ASSUME NEW d \in DedupBucket, DedupRotate(d) PROVE IngestTypeOK'
    BY <1>0, <1>2, ReplaceBFType DEF DedupRotate, IngestTypeOK, reloadVars
  <1>3. CASE DedupResetBucket
    <2>1. dedupIdx \in DedupBucket /\ dedupIdx' \in 0 .. NDB
      BY <1>0, <1>3, DedupAssumption DEF DedupResetBucket, DedupBucket, IngestTypeOK
    <2>2. ReplaceBF(dedupIdx)
      BY <1>3 DEF DedupResetBucket
    <2>3. /\ bfs' \in [DedupBucket -> BF]
          /\ bits' \in [BF -> SUBSET Series] /\ \A g \in BF : IsFiniteSet(bits'[g])
          /\ bfSize' \in [BF -> Nat]
      BY <1>0, <2>1, <2>2, ReplaceBFType
    <2> QED BY <1>0, <1>3, <2>1, <2>3 DEF DedupResetBucket, IngestTypeOK, reloadVars
  <1>4. CASE DedupReset
    BY <1>0, <1>4, DedupAssumption DEF DedupReset, DedupDone, IngestTypeOK
  <1>5. CASE ResetAll
    BY <1>0, <1>5 DEF ResetAll, IngestTypeOK, IngestInv, ReloadInv, ReloadTypeOK, reloadVars,
       dedupVars
  <1>6. ASSUME NEW i \in Inst, ResetOne(i) PROVE IngestTypeOK'
    BY <1>0, <1>6 DEF ResetOne, IngestTypeOK, reloadVars, dedupVars
  <1>7. CASE ReloadAlone
    <2>1. received' \in [Inst -> [Series -> {"never", "held", "wiped"}]]
      BY <1>0, <1>7 DEF ReloadAlone, IngestTypeOK, NothingYet
    <2>2. pc' # "dedup" => pc # "dedup"
      BY <1>7, DedupOnlyFromStore DEF ReloadAlone
    <2> QED BY <1>0, <1>7, <2>1, <2>2 DEF ReloadAlone, IngestTypeOK, dedupVars
  <1>8. CASE UNCHANGED allVars
    BY <1>0, <1>8 DEF allVars, reloadVars, ingestVars, IngestTypeOK
  <1> QED BY <1>1, <1>2, <1>3, <1>4, <1>5, <1>6, <1>7, <1>8 DEF IngestNext

-----------------------------------------------------------------------------
(* What the deduplicator drops has been delivered *)

\* A request's own step keeps what is on its way: the other requests carry on, and
\* q either did not carry the series or still does.
LEMMA WayKept ==
  ASSUME IngestTypeOK, NEW q \in Request, NEW r, req' = [req EXCEPT ![q] = r],
         UNCHANGED cfgOf, NEW s, NEW i,
         Carries(req[q], s, i) => Carries(r, s, i),
         OnItsWay(s, i)
  PROVE  OnItsWay(s, i)'
  <1>1. PICK p \in Request : Carries(req[p], s, i)
    BY DEF OnItsWay
  <1>2. req'[q] = r /\ \A o \in Request : o # q => req'[o] = req[o]
    BY DEF IngestTypeOK
  <1>3. Carries(req'[p], s, i)
    BY <1>1, <1>2, Zenon
  <1>4. Carries(req[p], s, i)'
    BY <1>3 DEF Carries
  <1> QED BY <1>4 DEF OnItsWay

\* A step that touches neither the filters nor the reloader, and after which
\* whatever was delivered or on its way still is.
LEMMA DeliveredKept ==
  ASSUME IngestInv, UNCHANGED <<reloadVars, dedupVars>>,
         \A i \in Inst, s \in Series : received[i][s] # "never" => received'[i][s] # "never",
         \A s : \A i \in estimators :
            ~ cfgOf[i].label /\ OnItsWay(s, i)
              => received'[i][s] # "never" \/ OnItsWay(s, i)'
  PROVE  DropsOnlyDelivered'
  <1>1. UNCHANGED <<estimators, cfgOf, pc, bfs, bits, dedupIdx>>
    BY DEF reloadVars, dedupVars
  <1>2. \A d \in DedupBucket : Outdated(d)' <=> Outdated(d)
    BY <1>1 DEF Outdated
  <1> SUFFICES ASSUME NEW d \in DedupBucket, ~ Outdated(d)',
                      NEW s \in bits'[bfs'[d]], NEW i \in estimators', ~ cfgOf'[i].label
               PROVE  received'[i][s] # "never" \/ OnItsWay(s, i)'
    BY DEF DropsOnlyDelivered
  <1>3. received[i][s] # "never" \/ OnItsWay(s, i)
    BY <1>1, <1>2 DEF DropsOnlyDelivered, IngestInv
  <1>4. i \in Inst /\ s \in Series
    BY <1>1 DEF IngestInv, IngestTypeOK, ReloadInv, ReloadTypeOK
  <1> QED BY <1>1, <1>3, <1>4

\* The steps of a request before it adds to a filter, and its last ones.
LEMMA DeliveredQuiet ==
  ASSUME IngestInv, NEW q \in Request, NEW r, req' = [req EXCEPT ![q] = r],
         UNCHANGED <<reloadVars, dedupVars, received>>,
         \A s : \A i \in estimators : Carries(req[q], s, i) => Carries(r, s, i)
  PROVE  DropsOnlyDelivered'
  <1>1. UNCHANGED cfgOf
    BY DEF reloadVars
  <1>2. \A s : \A i \in estimators : OnItsWay(s, i) => OnItsWay(s, i)'
    BY <1>1, WayKept DEF IngestInv
  <1> QED BY <1>2, DeliveredKept

\* The request that adds a series is on its way to every active estimator.
LEMMA DeliveredAdd ==
  ASSUME IngestInv, NEW q \in Request, FilterAdd(q)
  PROVE  DropsOnlyDelivered'
  <1>0. IngestTypeOK
    BY DEF IngestInv
  <1> DEFINE g == req[q].bf
  <1>1. req[q].at = "add" /\ bits' = [bits EXCEPT ![g] = @ \cup {req[q].s}]
        /\ UNCHANGED <<reloadVars, bfs, dedupIdx, received>>
    BY DEF FilterAdd
  <1>2. req[q] \in [at : {"contains", "size", "add", "count"}, s : Series, fp : BOOLEAN, bf : BF]
    BY <1>0, <1>1, ReqFields
  <1>3. PICK r \in {[req[q] EXCEPT !.at = "count"], Passed(q)} : req' = [req EXCEPT ![q] = r]
    BY DEF FilterAdd
  <1>4. r.at \in {"count", "passed"} /\ r.s = req[q].s
    BY <1>2, <1>3 DEF Passed
  <1>5. UNCHANGED <<estimators, cfgOf, pc>>
    BY <1>1 DEF reloadVars
  <1>6. \A s, i : ~ Carries(req[q], s, i)
    BY <1>1 DEF Carries
  <1>7. ASSUME NEW s, NEW i, OnItsWay(s, i) PROVE OnItsWay(s, i)'
    BY <1>0, <1>3, <1>5, <1>6, <1>7, WayKept
  <1>8. ASSUME NEW s, s = req[q].s, NEW i, ~ cfgOf[i].label PROVE OnItsWay(s, i)'
    <2>1. req'[q] = r
      BY <1>0, <1>3 DEF IngestTypeOK
    <2>2. req'[q].at \in {"count", "passed"} /\ req'[q].s = s /\ ~ cfgOf'[i].label
      BY <1>4, <1>5, <1>8, <2>1
    <2> QED BY <2>2 DEF OnItsWay, Carries
  <1>9. \A d \in DedupBucket : bits'[bfs'[d]] \subseteq bits[bfs[d]] \cup {req[q].s}
    <2>1. \A h \in BF : bits'[h] \subseteq bits[h] \cup {req[q].s}
      BY <1>0, <1>1 DEF IngestTypeOK
    <2> QED BY <1>0, <1>1, <2>1 DEF IngestTypeOK
  <1>10. \A d \in DedupBucket : Outdated(d)' <=> Outdated(d)
    BY <1>1, <1>5 DEF Outdated
  <1> SUFFICES ASSUME NEW d \in DedupBucket, ~ Outdated(d)',
                      NEW s \in bits'[bfs'[d]], NEW i \in estimators', ~ cfgOf'[i].label
               PROVE  received'[i][s] # "never" \/ OnItsWay(s, i)'
    BY DEF DropsOnlyDelivered
  <1>11. CASE s = req[q].s
    BY <1>5, <1>8, <1>11
  <1>12. CASE s # req[q].s
    <2>1. s \in bits[bfs[d]] /\ i \in estimators /\ ~ cfgOf[i].label
      BY <1>5, <1>9, <1>12
    <2>2. received[i][s] # "never" \/ OnItsWay(s, i)
      BY <1>10, <2>1 DEF DropsOnlyDelivered, IngestInv
    <2> QED BY <1>1, <1>7, <2>2
  <1> QED BY <1>11, <1>12

\* A visit to an estimator delivers what the request carries.
LEMMA DeliveredInsert ==
  ASSUME IngestInv, NEW q \in Request, NEW i \in Inst, InsertMany(q, i)
  PROVE  DropsOnlyDelivered'
  <1>0. IngestTypeOK
    BY DEF IngestInv
  <1>1. req[q].at = "insert" /\ UNCHANGED <<reloadVars, dedupVars>>
    BY DEF InsertMany
  <1>2. req[q] \in [at : {"insert"}, s : Series, fp : BOOLEAN, todo : SUBSET Inst]
    BY <1>0, <1>1, ReqFields
  <1> DEFINE r == [req[q] EXCEPT !.todo = @ \ {i}]
  <1>3. req' = [req EXCEPT ![q] = r]
    BY DEF InsertMany
  <1>4. r.at = "insert" /\ r.s = req[q].s /\ r.fp = req[q].fp /\ r.todo = req[q].todo \ {i}
    BY <1>1, <1>2
  <1> HIDE DEF r
  <1>5. received' = received \/ received' = [received EXCEPT ![i][req[q].s] = "held"]
    BY DEF InsertMany
  <1>6. \A j \in Inst, s \in Series : received[j][s] # "never" => received'[j][s] # "never"
    BY <1>0, <1>2, <1>5 DEF IngestTypeOK
  <1>7. UNCHANGED cfgOf
    BY <1>1 DEF reloadVars
  <1>8. ASSUME NEW s, NEW j \in estimators, ~ cfgOf[j].label, OnItsWay(s, j)
        PROVE  received'[j][s] # "never" \/ OnItsWay(s, j)'
    <2>1. CASE j = i /\ s = req[q].s
      <3>1. i \in running
        BY <2>1 DEF IngestInv, ReloadInv, ServingInv
      <3>2. received' = [received EXCEPT ![i][req[q].s] = "held"]
        BY <1>8, <2>1, <3>1 DEF InsertMany
      <3>3. received'[i][req[q].s] = "held"
        BY <1>0, <1>2, <3>2 DEF IngestTypeOK
      <3> QED BY <2>1, <3>3
    <2>2. CASE ~ (j = i /\ s = req[q].s)
      <3>1. Carries(req[q], s, j) => Carries(r, s, j)
        BY <1>1, <1>4, <2>2 DEF Carries
      <3>2. OnItsWay(s, j)'
        BY <1>0, <1>3, <1>7, <1>8, <3>1, WayKept
      <3> QED BY <3>2
    <2> QED BY <2>1, <2>2
  <1> QED BY <1>1, <1>6, <1>8, DeliveredKept

\* No step of a request loses what it has taken from others by a filter.
LEMMA DeliveredRequest ==
  ASSUME IngestInv, NEW q \in Request, RequestStep(q) \/ \E s \in Series : Parse(q, s)
  PROVE  DropsOnlyDelivered'
  <1>0. IngestTypeOK
    BY DEF IngestInv
  <1>1. PICK r \in ReqState : req' = [req EXCEPT ![q] = r]
    BY ReqNext
  <1>2. r = req'[q]
    BY <1>0, <1>1 DEF IngestTypeOK
  <1>3. CASE FilterAdd(q)
    BY <1>3, DeliveredAdd
  <1>4. ASSUME NEW i \in Inst, InsertMany(q, i) PROVE DropsOnlyDelivered'
    BY <1>4, DeliveredInsert
  <1>5. CASE \/ FilterLoad(q) \/ FilterContains(q) \/ FilterSize(q) \/ RequestDone(q)
             \/ \E s \in Series : Parse(q, s)
    <2>1. \A s, i : ~ Carries(req[q], s, i)
      BY <1>5 DEF Carries, FilterLoad, FilterContains, FilterSize, RequestDone, Parse, Idle
    <2>2. UNCHANGED <<reloadVars, dedupVars, received>>
      BY <1>5 DEF FilterLoad, FilterContains, FilterSize, RequestDone, Parse
    <2> QED BY <1>1, <2>1, <2>2, DeliveredQuiet
  <1>6. CASE FilterCount(q)
    <2>1. r = Passed(q) /\ req[q].at = "count"
      BY <1>0, <1>2, <1>6 DEF FilterCount, IngestTypeOK
    <2>2. \A s, i : Carries(req[q], s, i) => Carries(r, s, i)
      BY <2>1 DEF Carries, Passed
    <2>3. UNCHANGED <<reloadVars, bfs, bits, dedupIdx, received>>
      BY <1>6 DEF FilterCount
    <2>4. UNCHANGED <<estimators, cfgOf, pc>>
      BY <2>3 DEF reloadVars
    <2>5. ASSUME NEW s, NEW i, OnItsWay(s, i) PROVE OnItsWay(s, i)'
      BY <1>0, <1>1, <2>2, <2>4, <2>5, WayKept
    <2>6. \A d \in DedupBucket : Outdated(d)' <=> Outdated(d)
      BY <2>3, <2>4 DEF Outdated
    <2> QED BY <2>3, <2>4, <2>5, <2>6 DEF DropsOnlyDelivered, IngestInv
  <1>7. CASE LoadEstimators(q)
    <2>1. r = [at |-> "insert", s |-> req[q].s, fp |-> req[q].fp, todo |-> estimators]
      BY <1>0, <1>2, <1>7 DEF LoadEstimators, IngestTypeOK
    <2>2. \A s : \A i \in estimators : Carries(req[q], s, i) => Carries(r, s, i)
      BY <2>1 DEF Carries
    <2>3. UNCHANGED <<reloadVars, dedupVars, received>>
      BY <1>7 DEF LoadEstimators
    <2> QED BY <1>1, <2>2, <2>3, DeliveredQuiet
  <1> QED BY <1>3, <1>4, <1>5, <1>6, <1>7 DEF RequestStep

\* A replaced filter is empty, and so nothing that it drops can be missing.
LEMMA DeliveredReplace ==
  ASSUME IngestInv, NEW d \in DedupBucket, ReplaceBF(d),
         UNCHANGED <<reloadVars, req, received>>,
         \A c \in DedupBucket \ {d} : ~ Outdated(c)' => ~ Outdated(c)
  PROVE  DropsOnlyDelivered'
  <1>0. IngestTypeOK
    BY DEF IngestInv
  <1>1. UNCHANGED <<estimators, cfgOf>>
    BY DEF reloadVars
  <1>2. bits'[bfs'[d]] = {}
        /\ \A c \in DedupBucket \ {d} : bfs'[c] = bfs[c] /\ bits'[bfs[c]] = bits[bfs[c]]
    BY <1>0, ReplaceBFType
  <1>3. \A s, i : OnItsWay(s, i)' <=> OnItsWay(s, i)
    BY <1>1 DEF OnItsWay, Carries
  <1> SUFFICES ASSUME NEW c \in DedupBucket, ~ Outdated(c)',
                      NEW s \in bits'[bfs'[c]], NEW i \in estimators', ~ cfgOf'[i].label
               PROVE  received'[i][s] # "never" \/ OnItsWay(s, i)'
    BY DEF DropsOnlyDelivered
  <1>4. c # d /\ s \in bits[bfs[c]] /\ ~ Outdated(c)
    BY <1>2
  <1> QED BY <1>1, <1>3, <1>4 DEF IngestInv, DropsOnlyDelivered

\* A reload: an estimator that is active after it was active before, or a new one
\* was swapped in and every filter is outdated.
LEMMA DeliveredReload ==
  ASSUME IngestInv, ReloadInv', main' = "serving", ReloadAlone
  PROVE  DropsOnlyDelivered'
  <1> DEFINE free == FreeInst \ Held
  <1>1. EditFile \/ Wake \/ ReloadStep(free)
    BY DEF ReloadAlone
  <1>2. UNCHANGED <<bfs, bits, dedupIdx, req>>
        /\ received' = [i \in Inst |-> IF i \in running' THEN received[i] ELSE NothingYet]
    BY DEF ReloadAlone, dedupVars
  <1> SUFFICES ASSUME NEW d \in DedupBucket, ~ Outdated(d)',
                      NEW s \in bits'[bfs'[d]], NEW i \in estimators', ~ cfgOf'[i].label
               PROVE  received'[i][s] # "never" \/ OnItsWay(s, i)'
    BY DEF DropsOnlyDelivered
  <1>3. i \in estimators /\ ~ Outdated(d)
    <2>1. CASE Store
      <3>1. pc = "store" /\ dedupIdx = 0 /\ d >= 0
        BY <2>1 DEF Store, IngestInv, IngestTypeOK, DedupBucket
      <3>2. pc' # "dedup"
        BY <1>2, <3>1 DEF Outdated
      <3>3. created = {} /\ estimators' = es
        BY <2>1, <3>2 DEF Store
      <3>4. estimators = (es \ created) \cup removed
        BY <3>1 DEF IngestInv, ReloadInv, BuildInv
      <3> QED BY <3>1, <3>3, <3>4 DEF Outdated
    <2>2. CASE ~ Store
      <3>1. UNCHANGED estimators
        BY <1>1, <2>2, OnlyStoreSwaps
      <3>2. pc = "dedup" => pc' = "dedup"
        BY <1>1, DedupOnlyFromStore
      <3> QED BY <1>2, <3>1, <3>2 DEF Outdated
    <2> QED BY <2>1, <2>2
  <1>4. cfgOf'[i] = cfgOf[i]
    BY <1>1, <1>3, ActiveKeepsSettings DEF IngestInv
  <1>5. i \in running' /\ i \in Inst
    BY <1>3 DEF ReloadInv, ServingInv, IngestInv, ReloadTypeOK
  <1>6. received'[i][s] = received[i][s]
    BY <1>2, <1>5
  <1>7. OnItsWay(s, i)' <=> OnItsWay(s, i)
    BY <1>2, <1>4 DEF OnItsWay, Carries
  <1> QED BY <1>2, <1>3, <1>4, <1>6, <1>7 DEF IngestInv, DropsOnlyDelivered

\* DropsOnlyDelivered is preserved by every step.
LEMMA DeliveredNext ==
  ASSUME IngestInv, [IngestNext]_allVars
  PROVE  DropsOnlyDelivered'
  <1>0. IngestTypeOK
    BY DEF IngestInv
  <1>1. ASSUME NEW q \in Request, RequestStep(q) \/ \E s \in Series : Parse(q, s)
        PROVE  DropsOnlyDelivered'
    BY <1>1, DeliveredRequest
  <1>2. ASSUME NEW d \in DedupBucket, DedupRotate(d) PROVE DropsOnlyDelivered'
    BY <1>2, DeliveredReplace DEF DedupRotate, Outdated, reloadVars
  <1>3. CASE DedupResetBucket
    <2>1. dedupIdx \in DedupBucket /\ pc = "dedup" /\ dedupIdx' = dedupIdx + 1
      BY <1>0, <1>3, DedupAssumption DEF DedupResetBucket, DedupBucket, IngestTypeOK
    <2>2. \A c \in DedupBucket \ {dedupIdx} : c >= dedupIdx => c >= dedupIdx + 1
      BY <2>1 DEF DedupBucket
    <2>3. \A c \in DedupBucket \ {dedupIdx} : ~ Outdated(c)' => ~ Outdated(c)
      BY <1>3, <2>1, <2>2 DEF Outdated, DedupResetBucket, reloadVars
    <2>4. ReplaceBF(dedupIdx) /\ UNCHANGED <<reloadVars, req, received>>
      BY <1>3 DEF DedupResetBucket
    <2> QED BY <2>1, <2>3, <2>4, DeliveredReplace
  <1>4. CASE DedupReset
    <2>1. pc = "dedup" /\ dedupIdx = NDB /\ UNCHANGED <<estimators, cfgOf>>
      BY <1>4 DEF DedupReset, DedupDone
    <2>2. \A d \in DedupBucket : ~ Outdated(d)
      BY <2>1, DedupAssumption DEF Outdated, DedupBucket
    <2>3. \A s, i : OnItsWay(s, i)' <=> OnItsWay(s, i)
      BY <1>4, <2>1 DEF OnItsWay, Carries, DedupReset
    <2> QED BY <1>4, <2>1, <2>2, <2>3 DEF DedupReset, IngestInv, DropsOnlyDelivered
  <1>5. CASE ResetAll \/ UNCHANGED allVars
    <2>1. UNCHANGED <<reloadVars, dedupVars, req, received>>
      BY <1>5 DEF ResetAll, allVars, ingestVars, dedupVars
    <2>2. \A s, i : OnItsWay(s, i)' <=> OnItsWay(s, i)
      BY <2>1 DEF OnItsWay, Carries, reloadVars
    <2> QED BY <2>1, <2>2, DeliveredKept
  <1>6. ASSUME NEW i \in Inst, ResetOne(i) PROVE DropsOnlyDelivered'
    <2>1. UNCHANGED <<reloadVars, dedupVars, req>>
      BY <1>6 DEF ResetOne
    <2>2. \A s, j : OnItsWay(s, j)' <=> OnItsWay(s, j)
      BY <2>1 DEF OnItsWay, Carries, reloadVars
    <2>3. \A j \in Inst, s \in Series : received[j][s] # "never" => received'[j][s] # "never"
      BY <1>0, <1>6 DEF ResetOne, IngestTypeOK
    <2> QED BY <2>1, <2>2, <2>3, DeliveredKept
  <1>7. CASE ReloadAlone
    BY <1>7, IngestReload, DeliveredReload
  <1> QED BY <1>1, <1>2, <1>3, <1>4, <1>5, <1>6, <1>7 DEF IngestNext

-----------------------------------------------------------------------------
(* The size of a filter *)

\* The second part of FilterOvershoot: the size does not fall behind the bits.
Counted == \A g \in BF : Cardinality(bits[g]) <= bfSize[g] + Cardinality(Counting(g))

\* Pending requests are finitely many, and those that count are pending.
LEMMA PendingFinite ==
  ASSUME NEW g
  PROVE  /\ IsFiniteSet(Pending(g)) /\ IsFiniteSet(Counting(g))
         /\ Cardinality(Pending(g)) \in Nat /\ Cardinality(Counting(g)) \in Nat
         /\ Cardinality(Request) \in Nat
         /\ Cardinality(Counting(g)) <= Cardinality(Pending(g))
         /\ Cardinality(Pending(g)) <= Cardinality(Request)
  <1>1. Pending(g) \in SUBSET Request /\ Counting(g) \in SUBSET Pending(g)
    BY DEF Pending, Counting
  <1>2. IsFiniteSet(Request)
    BY DedupAssumption
  <1>3. IsFiniteSet(Pending(g)) /\ Cardinality(Pending(g)) <= Cardinality(Request)
    BY <1>1, <1>2, FS_Subset
  <1>4. IsFiniteSet(Counting(g)) /\ Cardinality(Counting(g)) <= Cardinality(Pending(g))
    BY <1>1, <1>3, FS_Subset
  <1> QED BY <1>2, <1>3, <1>4, FS_CardinalityType

\* A filter's bits and pending requests bound its size counter.
LEMMA OvershootFromCounts == IngestTypeOK /\ PendingFits /\ Counted => FilterOvershoot
  <1> SUFFICES ASSUME IngestTypeOK, PendingFits, Counted PROVE FilterOvershoot
    OBVIOUS
  <1>1. ASSUME NEW g \in BF
        PROVE  bfSize[g] + Cardinality(Counting(g)) <= Capacity + Cardinality(Request) - 1
    <2>1. bfSize[g] \in Nat /\ Capacity \in Nat
      BY DedupAssumption DEF IngestTypeOK
    <2>2. bfSize[g] + Cardinality(Pending(g)) <= Capacity + Cardinality(Request) - 1
      BY DEF PendingFits
    <2> QED BY <2>1, <2>2, PendingFinite
  <1> QED BY <1>1 DEF FilterOvershoot, Counted

\* A step of q changes whether q is pending, and nobody else.
LEMMA PendingChange ==
  ASSUME NEW q \in Request, NEW r, req'[q] = r,
         \A o \in Request : o # q => req'[o] = req[o]
  PROVE  \A g : /\ Pending(g)' = IF r.at \in {"add", "count"} /\ r.bf = g
                                 THEN Pending(g) \cup {q} ELSE Pending(g) \ {q}
                /\ Counting(g)' = IF r.at = "count" /\ r.bf = g
                                  THEN Counting(g) \cup {q} ELSE Counting(g) \ {q}
  BY DEF Pending, Counting

\* Only the state of the request that takes the step changes.
LEMMA OneRequest ==
  ASSUME IngestTypeOK, NEW q \in Request, NEW r, req' = [req EXCEPT ![q] = r]
  PROVE  req'[q] = r /\ \A o \in Request : o # q => req'[o] = req[o]
  BY DEF IngestTypeOK

\* Steps that leave the filters and the pending requests alone.
LEMMA CountsQuiet ==
  ASSUME IngestInv, UNCHANGED <<bits, bfSize>>,
         \A g \in BF : Pending(g)' = Pending(g) /\ Counting(g)' = Counting(g)
  PROVE  PendingFits' /\ Counted'
  BY DEF IngestInv, PendingFits, FilterOvershoot, Counted

\* The check of the size admits a request only below the maximum.
LEMMA CountsSize ==
  ASSUME IngestInv, NEW q \in Request, FilterSize(q)
  PROVE  PendingFits' /\ Counted'
  <1>0. IngestTypeOK
    BY DEF IngestInv
  <1>1. req[q].at = "size" /\ UNCHANGED <<bits, bfSize>>
    BY DEF FilterSize, dedupVars
  <1>2. req[q] \in [at : {"contains", "size", "add", "count"}, s : Series, fp : BOOLEAN, bf : BF]
    BY <1>0, <1>1, ReqFields
  <1>3. \A g : q \notin Pending(g) /\ q \notin Counting(g)
    BY <1>1 DEF Pending, Counting
  <1>4. CASE req' = [req EXCEPT ![q] = Passed(q)]
    <2>1. Passed(q).at = "passed"
      BY DEF Passed
    <2>2. \A g : Pending(g)' = Pending(g) \ {q} /\ Counting(g)' = Counting(g) \ {q}
      BY <1>0, <1>4, <2>1, OneRequest, PendingChange
    <2>3. \A g \in BF : Pending(g)' = Pending(g) /\ Counting(g)' = Counting(g)
      BY <1>3, <2>2
    <2> QED BY <1>1, <2>3, CountsQuiet
  <1>5. CASE bfSize[req[q].bf] < Capacity /\ req' = [req EXCEPT ![q] = [req[q] EXCEPT !.at = "add"]]
    <2> DEFINE r == [req[q] EXCEPT !.at = "add"]
    <2>1. r.at = "add" /\ r.bf = req[q].bf
      BY <1>2
    <2>2. req' = [req EXCEPT ![q] = r]
      BY <1>5
    <2> HIDE DEF r
    <2>change. \A g : /\ Pending(g)' = IF r.at \in {"add", "count"} /\ r.bf = g
                                       THEN Pending(g) \cup {q} ELSE Pending(g) \ {q}
                      /\ Counting(g)' = IF r.at = "count" /\ r.bf = g
                                        THEN Counting(g) \cup {q} ELSE Counting(g) \ {q}
      BY <1>0, <2>2, OneRequest, PendingChange
    <2>3. \A g \in BF : Counting(g)' = Counting(g)
      BY <1>3, <2>1, <2>change
    <2>4. Counted'
      BY <1>1, <2>3 DEF IngestInv, FilterOvershoot, Counted
    <2>5. ASSUME NEW g \in BF
          PROVE  bfSize'[g] + Cardinality(Pending(g)') <= Capacity + Cardinality(Request) - 1
      <3>1. CASE g = req[q].bf
        <4>1. bfSize'[g] < Capacity /\ bfSize'[g] \in Nat /\ Capacity \in Nat
          BY <1>0, <1>1, <1>5, <3>1, DedupAssumption DEF IngestTypeOK
        <4>2. Pending(g)' \in SUBSET Request
          BY DEF Pending
        <4>3. Cardinality(Pending(g)') <= Cardinality(Request)
          BY <4>2, FS_Subset, DedupAssumption
        <4>4. Cardinality(Pending(g)') \in Nat /\ Cardinality(Request) \in Nat
          BY <4>2, FS_Subset, FS_CardinalityType, DedupAssumption
        <4> QED BY <4>1, <4>3, <4>4
      <3>2. CASE g # req[q].bf
        <4>1. Pending(g)' = Pending(g)
          BY <1>3, <2>1, <2>change, <3>2
        <4> QED BY <1>1, <4>1 DEF IngestInv, PendingFits
      <3> QED BY <3>1, <3>2
    <2> QED BY <2>4, <2>5 DEF PendingFits
  <1> QED BY <1>4, <1>5 DEF FilterSize

\* A request that has set bits is one that counts, or is no longer pending.
LEMMA CountsAdd ==
  ASSUME IngestInv, NEW q \in Request, FilterAdd(q)
  PROVE  PendingFits' /\ Counted'
  <1>0. IngestTypeOK
    BY DEF IngestInv
  <1>1. req[q].at = "add" /\ UNCHANGED bfSize
        /\ bits' = [bits EXCEPT ![req[q].bf] = @ \cup {req[q].s}]
    BY DEF FilterAdd
  <1>2. req[q] \in [at : {"contains", "size", "add", "count"}, s : Series, fp : BOOLEAN, bf : BF]
    BY <1>0, <1>1, ReqFields
  <1>3. /\ \A g : q \notin Counting(g)
        /\ \A g : q \in Pending(g) <=> g = req[q].bf
    BY <1>1 DEF Pending, Counting
  <1>4. PICK isNew \in BOOLEAN :
          /\ req[q].s \notin bits[req[q].bf] => isNew
          /\ req' = [req EXCEPT ![q] = IF isNew THEN [req[q] EXCEPT !.at = "count"] ELSE Passed(q)]
    BY DEF FilterAdd
  <1> DEFINE r == IF isNew THEN [req[q] EXCEPT !.at = "count"] ELSE Passed(q)
  <1>5. /\ isNew => r.at = "count" /\ r.bf = req[q].bf
        /\ ~ isNew => r.at = "passed"
    BY <1>2 DEF Passed
  <1>6. req' = [req EXCEPT ![q] = r]
    BY <1>4
  <1> HIDE DEF r
  <1>change. \A g : /\ Pending(g)' = IF r.at \in {"add", "count"} /\ r.bf = g
                                     THEN Pending(g) \cup {q} ELSE Pending(g) \ {q}
                    /\ Counting(g)' = IF r.at = "count" /\ r.bf = g
                                      THEN Counting(g) \cup {q} ELSE Counting(g) \ {q}
    BY <1>0, <1>6, OneRequest, PendingChange
  <1>7. ASSUME NEW g \in BF
        PROVE  bfSize'[g] + Cardinality(Pending(g)') <= Capacity + Cardinality(Request) - 1
    <2>1. Pending(g)' \in SUBSET Pending(g)
      BY <1>3, <1>5, <1>change
    <2>2. Cardinality(Pending(g)') <= Cardinality(Pending(g)) /\ Cardinality(Pending(g)') \in Nat
      BY <2>1, PendingFinite, FS_Subset, FS_CardinalityType
    <2>3. bfSize[g] + Cardinality(Pending(g)) <= Capacity + Cardinality(Request) - 1
      BY DEF IngestInv, PendingFits
    <2>4. bfSize[g] \in Nat /\ Capacity \in Nat
      BY <1>0, DedupAssumption DEF IngestTypeOK
    <2> QED BY <1>1, <2>2, <2>3, <2>4, PendingFinite
  <1>8. ASSUME NEW g \in BF
        PROVE  Cardinality(bits'[g]) <= bfSize'[g] + Cardinality(Counting(g)')
    <2>1. Cardinality(bits[g]) <= bfSize[g] + Cardinality(Counting(g))
      BY DEF IngestInv, FilterOvershoot
    <2>2. IsFiniteSet(bits[g]) /\ Cardinality(bits[g]) \in Nat /\ bfSize[g] \in Nat
      BY <1>0, FS_CardinalityType DEF IngestTypeOK
    <2>3. CASE isNew /\ g = req[q].bf
      <3>1. Counting(g)' = Counting(g) \cup {q}
        BY <1>5, <1>change, <2>3
      <3>2. Cardinality(Counting(g)') = Cardinality(Counting(g)) + 1
        BY <1>3, <3>1, PendingFinite, FS_AddElement
      <3>3. bits'[g] = bits[g] \cup {req[q].s}
        BY <1>0, <1>1, <2>3 DEF IngestTypeOK
      <3>4. Cardinality(bits'[g]) =
              IF req[q].s \in bits[g] THEN Cardinality(bits[g]) ELSE Cardinality(bits[g]) + 1
        BY <2>2, <3>3, FS_AddElement, Zenon
      <3>5. Cardinality(bits'[g]) \in Nat /\ Cardinality(bits'[g]) <= Cardinality(bits[g]) + 1
        BY <2>2, <3>4
      <3> QED BY <1>1, <2>1, <2>2, <3>2, <3>5, PendingFinite
    <2>4. CASE ~ (isNew /\ g = req[q].bf)
      <3>1. Counting(g)' = Counting(g)
        BY <1>3, <1>5, <1>change, <2>4
      <3>2. bits'[g] = bits[g]
        BY <1>0, <1>1, <1>4, <2>4 DEF IngestTypeOK
      <3> QED BY <1>1, <2>1, <3>1, <3>2
    <2> QED BY <2>3, <2>4
  <1> QED BY <1>7, <1>8 DEF PendingFits, Counted

\* Counting takes a request off the counting ones.
LEMMA CountsCount ==
  ASSUME IngestInv, NEW q \in Request, FilterCount(q)
  PROVE  PendingFits' /\ Counted'
  <1>0. IngestTypeOK
    BY DEF IngestInv
  <1>1. req[q].at = "count" /\ UNCHANGED bits
        /\ bfSize' = [bfSize EXCEPT ![req[q].bf] = @ + 1] /\ req' = [req EXCEPT ![q] = Passed(q)]
    BY DEF FilterCount
  <1>2. \A g : q \in Pending(g) /\ q \in Counting(g) <=> g = req[q].bf
    BY <1>1 DEF Pending, Counting
  <1>3. \A g : q \in Counting(g) => g = req[q].bf
    BY DEF Counting
  <1>4. \A g : q \in Pending(g) => g = req[q].bf
    BY DEF Pending
  <1>5. Passed(q).at = "passed"
    BY DEF Passed
  <1>6. \A g : Pending(g)' = Pending(g) \ {q} /\ Counting(g)' = Counting(g) \ {q}
    <2>1. req'[q] = Passed(q) /\ \A o \in Request : o # q => req'[o] = req[o]
      BY <1>0, <1>1, OneRequest
    <2> QED BY <1>5, <2>1, PendingChange
  <1>7. ASSUME NEW g \in BF
        PROVE  /\ bfSize'[g] + Cardinality(Pending(g)') <= Capacity + Cardinality(Request) - 1
               /\ Cardinality(bits'[g]) <= bfSize'[g] + Cardinality(Counting(g)')
    <2>1. /\ bfSize[g] + Cardinality(Pending(g)) <= Capacity + Cardinality(Request) - 1
          /\ Cardinality(bits[g]) <= bfSize[g] + Cardinality(Counting(g))
      BY DEF IngestInv, PendingFits, FilterOvershoot
    <2>2. bfSize[g] \in Nat /\ Capacity \in Nat /\ Cardinality(bits[g]) \in Nat
      BY <1>0, DedupAssumption, FS_CardinalityType DEF IngestTypeOK
    <2>3. CASE g = req[q].bf
      <3>1. Cardinality(Pending(g) \ {q}) = Cardinality(Pending(g)) - 1
            /\ Cardinality(Counting(g) \ {q}) = Cardinality(Counting(g)) - 1
        BY <1>2, <2>3, PendingFinite, FS_RemoveElement
      <3>2. bfSize'[g] = bfSize[g] + 1
        BY <1>0, <1>1, <2>3 DEF IngestTypeOK
      <3>3. /\ Cardinality(Pending(g)') = Cardinality(Pending(g)) - 1
            /\ Cardinality(Counting(g)') = Cardinality(Counting(g)) - 1
        BY <1>6, <3>1
      <3> QED BY <1>1, <2>1, <2>2, <3>2, <3>3, PendingFinite
    <2>4. CASE g # req[q].bf
      <3>1. Pending(g)' = Pending(g) /\ Counting(g)' = Counting(g)
        BY <1>3, <1>4, <1>6, <2>4
      <3>2. bfSize'[g] = bfSize[g]
        BY <1>0, <1>1, <2>4 DEF IngestTypeOK
      <3> QED BY <1>1, <2>1, <3>1, <3>2
    <2> QED BY <2>3, <2>4
  <1> QED BY <1>7 DEF PendingFits, Counted

\* A filter that is taken or dropped is of no request that is under way.
LEMMA CountsReplace ==
  ASSUME IngestInv, NEW d \in DedupBucket, ReplaceBF(d), UNCHANGED req
  PROVE  PendingFits' /\ Counted'
  <1>0. IngestTypeOK
    BY DEF IngestInv
  <1>1. \A g : Pending(g)' = Pending(g) /\ Counting(g)' = Counting(g)
    BY DEF Pending, Counting
  <1>2. \A g \in BF : \/ bits'[g] = bits[g] /\ bfSize'[g] = bfSize[g]
                      \/ bits'[g] = {} /\ bfSize'[g] = 0
    BY <1>0, ReplaceBFType
  <1>3. Cardinality({}) = 0
    BY FS_EmptySet
  <1>4. ASSUME NEW g \in BF
        PROVE  /\ bfSize'[g] + Cardinality(Pending(g)) <= Capacity + Cardinality(Request) - 1
               /\ Cardinality(bits'[g]) <= bfSize'[g] + Cardinality(Counting(g))
    <2>1. CASE bits'[g] = bits[g] /\ bfSize'[g] = bfSize[g]
      BY <2>1 DEF IngestInv, PendingFits, FilterOvershoot
    <2>2. CASE bits'[g] = {} /\ bfSize'[g] = 0
      <3>1. Capacity \in Nat /\ Capacity >= 1
        BY DedupAssumption
      <3>2. Cardinality(bits'[g]) = 0
        BY <1>3, <2>2, Zenon
      <3> QED BY <2>2, <3>1, <3>2, PendingFinite
    <2> QED BY <1>2, <2>1, <2>2
  <1> QED BY <1>1, <1>4 DEF PendingFits, Counted

\* The bounds on the size counters are preserved by every step.
LEMMA CountsNext ==
  ASSUME IngestInv, [IngestNext]_allVars
  PROVE  PendingFits' /\ Counted'
  <1>0. IngestTypeOK
    BY DEF IngestInv
  <1>1. ASSUME NEW q \in Request, RequestStep(q) \/ \E s \in Series : Parse(q, s)
        PROVE  PendingFits' /\ Counted'
    <2>1. CASE FilterSize(q) \/ FilterAdd(q) \/ FilterCount(q)
      BY <2>1, CountsSize, CountsAdd, CountsCount
    <2>2. CASE ~ (FilterSize(q) \/ FilterAdd(q) \/ FilterCount(q))
      <3>1. PICK r \in ReqState : req' = [req EXCEPT ![q] = r]
        BY <1>1, ReqNext
      <3>2. r = req'[q] /\ req[q] \in ReqState
        BY <1>0, <3>1 DEF IngestTypeOK
      <3>3. req[q].at \notin {"add", "count"} /\ UNCHANGED <<bits, bfSize>>
        BY <1>1, <2>2 DEF RequestStep, FilterLoad, FilterContains, LoadEstimators, InsertMany,
           RequestDone, Parse, Idle, dedupVars
      <3>4. r.at \notin {"add", "count"}
        <4>1. ASSUME NEW i \in Inst, InsertMany(q, i) PROVE r.at = "insert"
          <5>1. req[q] \in [at : {"insert"}, s : Series, fp : BOOLEAN, todo : SUBSET Inst]
            BY <1>0, <4>1, ReqFields DEF InsertMany
          <5>2. r = [req[q] EXCEPT !.todo = @ \ {i}]
            BY <1>0, <3>2, <4>1 DEF InsertMany, IngestTypeOK
          <5> QED BY <5>1, <5>2
        <4>2. CASE FilterContains(q)
          <5>1. req[q] \in [at : {"contains", "size", "add", "count"}, s : Series,
                            fp : BOOLEAN, bf : BF]
            BY <1>0, <4>2, ReqFields DEF FilterContains
          <5> QED BY <1>0, <3>2, <4>2, <5>1 DEF FilterContains, IngestTypeOK, Idle
        <4>3. CASE FilterLoad(q) \/ LoadEstimators(q) \/ RequestDone(q)
                   \/ \E s \in Series : Parse(q, s)
          BY <1>0, <3>2, <4>3 DEF FilterLoad, LoadEstimators, RequestDone, Parse, Idle,
             IngestTypeOK
        <4> QED BY <1>1, <2>2, <4>1, <4>2, <4>3 DEF RequestStep
      <3>5. \A g : q \notin Pending(g) /\ q \notin Counting(g)
        BY <3>3 DEF Pending, Counting
      <3>6. \A g \in BF : Pending(g)' = Pending(g) /\ Counting(g)' = Counting(g)
        <4>1. req'[q] = r /\ \A o \in Request : o # q => req'[o] = req[o]
          BY <1>0, <3>1, OneRequest
        <4>2. \A g : Pending(g)' = Pending(g) \ {q} /\ Counting(g)' = Counting(g) \ {q}
          BY <3>4, <4>1, PendingChange
        <4> QED BY <3>5, <4>2
      <3> QED BY <3>3, <3>6, CountsQuiet
    <2> QED BY <2>1, <2>2
  <1>2. ASSUME NEW d \in DedupBucket, DedupRotate(d) PROVE PendingFits' /\ Counted'
    BY <1>2, CountsReplace DEF DedupRotate
  <1>3. CASE DedupResetBucket
    <2>1. dedupIdx \in DedupBucket
      BY <1>0, <1>3, DedupAssumption DEF DedupResetBucket, DedupBucket, IngestTypeOK
    <2>2. ReplaceBF(dedupIdx) /\ UNCHANGED req
      BY <1>3 DEF DedupResetBucket
    <2> QED BY <2>1, <2>2, CountsReplace
  <1>4. CASE UNCHANGED <<bits, bfSize, req>>
    <2>1. \A g : Pending(g)' = Pending(g) /\ Counting(g)' = Counting(g)
      BY <1>4 DEF Pending, Counting
    <2> QED BY <1>4, <2>1, CountsQuiet
  <1>5. DedupReset \/ ResetAll \/ (\E i \in Inst : ResetOne(i)) \/ ReloadAlone
          \/ UNCHANGED allVars => UNCHANGED <<bits, bfSize, req>>
    BY DEF DedupReset, ResetAll, ResetOne, ReloadAlone, allVars, ingestVars, dedupVars
  <1> QED BY <1>1, <1>2, <1>3, <1>4, <1>5 DEF IngestNext

-----------------------------------------------------------------------------
(* What follows *)

\* The inductive invariant holds in every reachable state.
THEOREM IngestInvariant == IngestSpec => []IngestInv
  <1>1. IngestInv /\ [IngestNext]_allVars => IngestInv'
    <2> SUFFICES ASSUME IngestInv, [IngestNext]_allVars PROVE IngestInv'
      OBVIOUS
    <2>1. ReloadInv' /\ main' = "serving"
      BY IngestReload
    <2>2. IngestTypeOK'
      BY IngestTypes
    <2>3. DropsOnlyDelivered'
      BY DeliveredNext
    <2>4. PendingFits' /\ Counted'
      BY CountsNext
    <2>5. FilterOvershoot'
      BY <2>2, <2>4, OvershootFromCounts, PTL
    <2> QED BY <2>1, <2>2, <2>3, <2>4, <2>5 DEF IngestInv
  <1> QED BY <1>1, IngestInitInv, PTL DEF IngestSpec

\* What the deduplicator drops is never news to an active estimator.
THEOREM NothingLostToFilter == IngestSpec => []DropsOnlyDelivered
  <1>1. IngestInv => DropsOnlyDelivered
    BY DEF IngestInv
  <1> QED BY <1>1, IngestInvariant, PTL

\* A filter exceeds bucketMaxSize by less than the number of requests, and its size
\* is behind its contents by no more than the requests that are about to count.
THEOREM FiltersBounded == IngestSpec => []FilterOvershoot
  <1>1. IngestInv => FilterOvershoot
    BY DEF IngestInv
  <1> QED BY <1>1, IngestInvariant, PTL
=============================================================================
