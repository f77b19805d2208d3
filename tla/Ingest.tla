------------------------------- MODULE Ingest -------------------------------
(***************************************************************************)
(* The write path beside configuration reloads: requests to /api/v1/write  *)
(* are parsed (protoparser), deduplicated (deduplicator.go) and inserted   *)
(* into the active estimators (main.go).  Nothing in it is locked: the     *)
(* flag for label fingerprints, the bloom filters and the set of active    *)
(* estimators are three atomics that a request loads at different times.   *)
(*                                                                         *)
(* A request carries one series; series do not interact except through the *)
(* fill of a bloom filter.  A bloom filter's bits are modelled by the      *)
(* exact set of fingerprints added to it, without false positives; it is   *)
(* used again when nothing refers to it.                                    *)
(* An estimator is modelled by what it has received of each series.  Its   *)
(* own rotation is the subject of GroupEstimator, and shutdown that of     *)
(* ConfigReload: both are left out here.  Reloads come from the ticker.     *)
(***************************************************************************)
EXTENDS ConfigReload

CONSTANTS
  Series,   \* fingerprints of series
  Request,  \* request goroutines
  NDB,      \* len(d.bfs)
  BF,       \* bloom filters
  Capacity  \* d.bucketMaxSize

ASSUME DedupAssumption ==
  /\ IsFiniteSet(Request)
  /\ IsFiniteSet(BF) /\ Cardinality(BF) > NDB
  /\ Series \subseteq Nat
  /\ NDB \in Nat \ {0} /\ Capacity \in Nat \ {0}

VARIABLES
  bfs,       \* d.bfs: the bloom filter of every dedup bucket
  bits,      \* f.bits of every bloom filter
  bfSize,    \* f.size of every bloom filter, an atomic counter
  dedupIdx,  \* deduplicator.Reset: the bucket it resets next
  req,       \* local state of every request goroutine
  received,  \* what an estimator has of a series: never, held or wiped
  resetTodo  \* /reset: estimators it has still to reset

dedupVars == <<bfs, bits, bfSize, dedupIdx>>
ingestVars == <<bfs, bits, bfSize, dedupIdx, req, received, resetTodo>>
allVars == <<reloadVars, ingestVars>>

DedupBucket == 0 .. NDB - 1
Idle == [at |-> "idle"]
NothingYet == [s \in Series |-> "never"]

\* Bloom filters that a request has loaded and may still read or add to.
BFInUse ==
  LET filtering == {q \in Request : req[q].at \in {"contains", "size", "add", "count"}} IN
  {req[q].bf : q \in filtering}

\* A bloom filter that no dedup bucket and no request refers to.
FreeBF == BF \ ({bfs[d] : d \in DedupBucket} \cup BFInUse)

\* Estimators that a request or /reset has loaded and not visited yet.
Held ==
  resetTodo \cup UNION {req[q].todo : q \in {p \in Request : req[p].at = "insert"}}

IngestInit ==
  /\ ReloadInit /\ ticker
  /\ bfs = CHOOSE f \in [DedupBucket -> BF] :
             \A d, c \in DedupBucket : f[d] = f[c] => d = c
  /\ bits = [g \in BF |-> {}]
  /\ bfSize = [g \in BF |-> 0]
  /\ dedupIdx = 0
  /\ req = [q \in Request |-> Idle]
  /\ received = [i \in Inst |-> NothingYet]
  /\ resetTodo = {}

-----------------------------------------------------------------------------
(* A request *)

\* UnmarshalProtobuf: fpLabelsGlobal is loaded once, at the start of parsing.
Parse(q, s) ==
  /\ req[q] = Idle
  /\ req' = [req EXCEPT ![q] = [at |-> "load", s |-> s, fp |-> fpLabels]]
  /\ UNCHANGED <<reloadVars, dedupVars, received, resetTodo>>

\* filter: bf := d.bfs[h%10].Load()
FilterLoad(q) ==
  /\ req[q].at = "load"
  /\ req' = [req EXCEPT ![q] = [at |-> "contains", s |-> req[q].s, fp |-> req[q].fp,
                                bf |-> bfs[req[q].s % NDB]]]
  /\ UNCHANGED <<reloadVars, dedupVars, received, resetTodo>>

\* filter: a series that bf contains is dropped, and the request is over.
FilterContains(q) ==
  /\ req[q].at = "contains"
  /\ req' = [req EXCEPT ![q] = IF req[q].s \in bits[req[q].bf]
                               THEN Idle ELSE [req[q] EXCEPT !.at = "size"]]
  /\ UNCHANGED <<reloadVars, dedupVars, received, resetTodo>>

\* The series goes on to the estimators; bf is no longer referred to.
Passed(q) == [at |-> "passed", s |-> req[q].s, fp |-> req[q].fp]

\* filter: at bucketMaxSize the series passes without being added.
FilterSize(q) ==
  /\ req[q].at = "size"
  /\ req' = [req EXCEPT ![q] = IF bfSize[req[q].bf] < Capacity
                               THEN [req[q] EXCEPT !.at = "add"] ELSE Passed(q)]
  /\ UNCHANGED <<reloadVars, dedupVars, received, resetTodo>>

\* (mutant) add sets the bits and never counts them.
FilterAddUncounted(q) ==
  /\ req[q].at = "add"
  /\ bits' = [bits EXCEPT ![req[q].bf] = @ \cup {req[q].s}]
  /\ req' = [req EXCEPT ![q] = Passed(q)]
  /\ UNCHANGED <<reloadVars, bfs, bfSize, dedupIdx, received, resetTodo>>

\* bf.add(h), possibly to a filter that was replaced meanwhile.  The bits are
\* set one by one: of requests that add the same series at a time, several may
\* set a bit and find isNew.
FilterAdd(q) ==
  /\ req[q].at = "add"
  /\ bits' = [bits EXCEPT ![req[q].bf] = @ \cup {req[q].s}]
  /\ \E isNew \in BOOLEAN :
       /\ req[q].s \notin bits[req[q].bf] => isNew
       /\ req' = [req EXCEPT ![q] = IF isNew THEN [req[q] EXCEPT !.at = "count"]
                                    ELSE Passed(q)]
  /\ UNCHANGED <<reloadVars, bfs, bfSize, dedupIdx, received, resetTodo>>

\* The end of add: f.size.Add(1).
FilterCount(q) ==
  /\ req[q].at = "count"
  /\ bfSize' = [bfSize EXCEPT ![req[q].bf] = @ + 1]
  /\ req' = [req EXCEPT ![q] = Passed(q)]
  /\ UNCHANGED <<reloadVars, bfs, bits, dedupIdx, received, resetTodo>>

\* getEstimators, after the series has passed the deduplicator.
LoadEstimators(q) ==
  /\ req[q].at = "passed"
  /\ req' = [req EXCEPT ![q] = [at |-> "insert", s |-> req[q].s, fp |-> req[q].fp,
                                todo |-> estimators]]
  /\ UNCHANGED <<reloadVars, dedupVars, received, resetTodo>>

\* insertMany of estimator i: a __label__ stream skips labels that were
\* parsed without a fingerprint.  What goes into a stopped estimator is lost.
InsertMany(q, i) ==
  /\ req[q].at = "insert"
  /\ i \in req[q].todo
  /\ received' = IF i \notin running \/ (cfgOf[i].label /\ ~ req[q].fp)
                 THEN received
                 ELSE [received EXCEPT ![i][req[q].s] = "held"]
  /\ req' = [req EXCEPT ![q].todo = @ \ {i}]
  /\ UNCHANGED <<reloadVars, dedupVars, resetTodo>>

RequestDone(q) ==
  /\ req[q].at = "insert"
  /\ req[q].todo = {}
  /\ req' = [req EXCEPT ![q] = Idle]
  /\ UNCHANGED <<reloadVars, dedupVars, received, resetTodo>>

-----------------------------------------------------------------------------
(* The deduplicator's own steps, /reset, and the reloader's *)

\* d.bfs[d].Store(newDeduplicatorBloomFilter(...)); the old filter is garbage
\* unless a request has it.
ReplaceBF(d) ==
  LET kept == BFInUse \cup {bfs[c] : c \in DedupBucket \ {d}} IN
  \E g \in FreeBF :
    /\ bfs' = [bfs EXCEPT ![d] = g]
    /\ bits' = [f \in BF |-> IF f \in kept THEN bits[f] ELSE {}]
    /\ bfSize' = [f \in BF |-> IF f \in kept THEN bfSize[f] ELSE 0]

\* runRotation clears one bucket.
DedupRotate(d) ==
  /\ ReplaceBF(d)
  /\ UNCHANGED <<reloadVars, dedupIdx, req, received, resetTodo>>

\* deduplicator.Reset replaces the filters one by one.
DedupResetBucket ==
  /\ pc = "dedup"
  /\ dedupIdx < NDB
  /\ ReplaceBF(dedupIdx)
  /\ dedupIdx' = dedupIdx + 1
  /\ UNCHANGED <<reloadVars, req, received, resetTodo>>

\* Reset returns after the last bucket.
DedupReset ==
  /\ dedupIdx = NDB
  /\ DedupDone
  /\ dedupIdx' = 0
  /\ UNCHANGED <<bfs, bits, bfSize, req, received, resetTodo>>

\* /reset loads the active estimators ...
ResetAll ==
  /\ resetTodo = {}
  /\ resetTodo' = estimators
  /\ UNCHANGED <<reloadVars, dedupVars, req, received>>

\* ... and empties them one by one.
ResetOne(i) ==
  /\ i \in resetTodo
  /\ received' = [received EXCEPT ![i] =
                    [s \in Series |-> IF @[s] = "held" THEN "wiped" ELSE @[s]]]
  /\ resetTodo' = resetTodo \ {i}
  /\ UNCHANGED <<reloadVars, dedupVars, req>>

\* A step of the reloader.  What a stopped estimator has received is forgotten,
\* and so a created one starts empty.
ReloadAlone ==
  /\ EditFile \/ Wake \/ ReloadStep(FreeInst \ Held)
  /\ received' = [i \in Inst |-> IF i \in running' THEN received[i] ELSE NothingYet]
  /\ UNCHANGED <<dedupVars, req, resetTodo>>

RequestStep(q) ==
  \/ FilterLoad(q) \/ FilterContains(q) \/ FilterSize(q) \/ FilterAdd(q)
  \/ FilterCount(q) \/ LoadEstimators(q) \/ RequestDone(q)
  \/ \E i \in Inst : InsertMany(q, i)

IngestNext ==
  \/ \E q \in Request : RequestStep(q) \/ \E s \in Series : Parse(q, s)
  \/ \E d \in DedupBucket : DedupRotate(d)
  \/ DedupResetBucket \/ DedupReset
  \/ ResetAll \/ \E i \in Inst : ResetOne(i)
  \/ ReloadAlone

IngestSpec == IngestInit /\ [][IngestNext]_allVars

-----------------------------------------------------------------------------
(* Properties *)

\* A request in state r has passed the deduplicator with s, and will still insert
\* it into estimator i.
Carries(r, s, i) ==
  /\ r.at \in {"count", "passed"} \/ (r.at = "insert" /\ i \in r.todo)
  /\ r.s = s
  /\ cfgOf[i].label => r.fp

OnItsWay(s, i) == \E q \in Request : Carries(req[q], s, i)

\* The filter of bucket d belongs to the estimators before the swap: the
\* reloader has stored the new ones and not replaced this filter yet.
Outdated(d) == pc = "dedup" /\ d >= dedupIdx

\* What the deduplicator drops is never news to an active estimator: a series
\* in the filter of its bucket has been inserted into every active estimator, or
\* is about to be, no matter how requests interleave with the swap of the
\* estimators and the reset of the filters.  Streams with __label__ are
\* excepted.
DropsOnlyDelivered ==
  \A d \in DedupBucket : ~ Outdated(d) =>
    \A s \in bits[bfs[d]], i \in estimators :
      ~ cfgOf[i].label => received[i][s] # "never" \/ OnItsWay(s, i)

\* Requests that have added to filter g and not counted yet.
Counting(g) == {q \in Request : req[q].at = "count" /\ req[q].bf = g}

\* A filter's size is checked and changed in two steps: it can exceed
\* bucketMaxSize, by less than the number of concurrent requests.  And it never
\* falls behind the series in the filter by more than the requests that are
\* about to count theirs.  bucketMaxSize is the filter's share of the whole
\* limit: filter passes series through from there on, not from the 80% of the
\* limit which the flags' descriptions and the threshold that main logs name.
FilterOvershoot ==
  \A g \in BF :
    /\ bfSize[g] + Cardinality(Counting(g)) <= Capacity + Cardinality(Request) - 1
    /\ Cardinality(bits[g]) <= bfSize[g] + Cardinality(Counting(g))

\* "If any stream is added or changed, the deduplication state is reset, so the
\* new streams receive all the series": the same for streams with __label__.
LabelStreamsReceiveAll ==
  \A d \in DedupBucket : ~ Outdated(d) =>
    \A s \in bits[bfs[d]], i \in estimators :
      received[i][s] # "never" \/ OnItsWay(s, i)
=============================================================================
