# vmestimator in TLA+

vmestimator estimates how many time series a Prometheus remote-write stream
carries: in total, or per combination of label values. This directory models
its core (`app/vmestimator`), checks the models with TLC on small instances,
and proves most of their invariants with TLAPS for all instances.

Files: one module per component, `*Proofs.tla` with the theorems about it,
`MC*.tla` with the constants TLC needs, one `.cfg` per run, and `PROJECT.json`, which maps definitions to source lines and
lists runs, mutants, findings, hazards and theorems.

## The system

| Part (source) | State | Operations | Talks to | Module |
|---|---|---|---|---|
| Grouped estimator (`estimator.go`) | per bucket a mutex, `groups`, `prevGroups`; shared `groupSize` (atomic `size`, `bucketSizes`, reject sketches); `bucketIdx`, `stopCh` | `insert`, `rotate`, `reset`, `stop`, `totalSize` | called by requests, the rotation goroutine, `/reset`, the reloader | GroupEstimator, SlidingWindow, GroupWindow |
| Global estimator (`estimator.go`) | per bucket `sketch`, `prevSketch` | the same, without groups | the same | GlobalEstimator |
| Rotation schedule (`estimator.go`, `deduplicator.go`) | a timer aligned to the wall clock | `runRotation` | rotates buckets, clears filters | GlobalEstimator, TimedIngest |
| Grouping (`estimator.go`, `config.go`) | none | `prepare` (group_by), `insertMany`, `compiledFilter.match` | decides the group of a series | InsertMany |
| Snapshot (`estimator.go`) | local copies of a bucket's map references | `toSnapshot` | the scrape, the cluster endpoint; races with rotation | GroupSnapshot |
| Reload, shutdown (`config.go`, `main.go`) | `estimators` (atomic), the config in use, `sighupCh`, `stopCh`, `doneCh` | `readConfig`, `loadConfig`, the reloader loop, the end of `main` | creates and stops estimators, resets the deduplicator, invalidates the cache | ConfigReload |
| Write path (`main.go`, `protoparser`) | `fpLabelsGlobal` (atomic) | parse, filter, insert into all active estimators | three atomics loaded at different times | Ingest |
| Deduplicator (`deduplicator.go`) | ten bloom filters behind atomic pointers, each with an atomic size | `filter`, `Reset`, rotation | drops series before the estimators | Ingest, TimedIngest |
| Exposition (`cardinality_metrics.go`) | cached text, its time, a mutex | `writeCardinalityMetrics`, `invalidateCardinalityCache` | all estimators, storage nodes, churn; reload and `/reset` | ScrapeCache |
| Churn (`churn.go`) | previous and current sketch per group | `update`, `cleanup`, ratio | fed by the exposition | Churn |
| Cluster (`cardinality_metrics.go`, `snapshot.go`) | merged snapshots of storage nodes | fetch, decode, `add`, `merge` | fed by the nodes' `toSnapshot` | ClusterScrape |

What is hard here. The group limit is enforced by buckets that hold different
mutexes and share one atomic counter. A snapshot releases a bucket's mutex
between listing and merging, while rotation swaps the maps. A reload replaces
estimators under running requests and scrapes, resets the filters after the
swap, and must stop each estimator exactly once, also when the process is told
to end. The deduplicator must not hide a series from an estimator that never
got it, or has forgotten it. One mutex is held across the fetch of all storage
nodes, any of which may fail in the middle of its answer. The full list, at
source lines, is under `hazards` in `PROJECT.json`.

What makes each part correct: the counters are exact and the limit holds up to
a known overshoot; idle groups free their place; a series is counted for half
an interval to an interval; a snapshot neither loses nor repeats a group and
never meets a nil sketch; every combination of values is counted exactly; the
active estimators are those of the config in use, with no goroutine leaked and
none stopped twice; what the deduplicator drops has been delivered, and a series
that keeps arriving stays counted; the cached text shows the active estimators;
a failed storage node does not distort churn, and merging does not depend on the
order of arrival, as far as the nodes agree on precision and limit.

## Modules

Common to all: a HyperLogLog sketch is the exact set of what was inserted
(merge is union, estimate is cardinality), and a hash is the value it is
computed from. Errors of estimation and collisions are outside of the models.
Operators marked `(mutant)` are deliberately wrong variants of the definition
that follows them; no specification uses them. Variables marked `(history)`
record what happened for the properties; no action's guard reads them.

Composition:

    SlidingWindow <- GroupWindow -> GroupEstimator <- GroupSnapshot
    GlobalEstimator <- TimedIngest
    ConfigReload <- Ingest,  ConfigReload <- ScrapeCache
    Churn <- ClusterScrape
    InsertMany

The proofs follow it: GroupSnapshotProofs rests on GroupEstimatorProofs, which
covers GroupWindow too, and IngestProofs and ScrapeCacheProofs rest on
ConfigReloadProofs; TimedIngestProofs covers GlobalEstimator too,
ClusterScrapeProofs Churn.

### GroupEstimator

`estimatorBucket`, `groupSize`, `runRotation`, `reset` and `stop` of one stream
with `group_by`. Variables carry the names of the Go fields. `lock[b]` is the
mutex of bucket `b` and what its holder is doing; a critical section is cut
where it touches what is shared between buckets: `size` (loaded in
`InsertCheckLimit`, changed in `InsertAdmitted`, `Rotate`, `Reset`) and the
reject sketches (`InsertRejected`, and `ClearRejected` at the end of
`rotateLocked`). `bucketSizes`, although a shared slice, is only accessed under
the mutex of its bucket. Any number of calls of `reset` (`Resetter`) may run at
a time. `stop` only ends the rotation goroutine: inserts and resets may follow,
as they do in the code for requests that loaded the estimator earlier. Rotation
happens at arbitrary times here. `Arrivals` says which series may arrive in
which group.

### SlidingWindow and GroupWindow

The abstract specification of what a grouped estimator promises, and the
refinement. In SlidingWindow a series of a group has an age and nothing else:
it arrives with age 0, a rotation of its shard makes it older, at age 2 it is no
longer counted, and a new group is let in only while there is room. GroupWindow
maps the generation that holds a series to its age and `Limit + NB - 1` to the
room. `ImplementsWindow` says that every step of the buckets, with their mutexes,
their two maps and the limit checked and counted in separate steps, is a step of
the window or no step of it.

### GlobalEstimator

A stream without `group_by`, with its clock. `ReadClock` computes the wait to
the next multiple of the period from the wall clock; the timer then counts
ticks, whatever the wall clock does (`SetClock`). A goroutine runs at most
`Late` ticks after its timer has fired (`Tick` is disabled otherwise). The wall
clock is kept modulo a common multiple of the periods. `prevSketch` is `Nil`
in every bucket of a new estimator (`newEstimator`) until that bucket has
rotated; `reset` meanwhile dereferences it, the HTTP server ends the process on a
panic, and the process is started again (`ResetPanics`).

### TimedIngest

The deduplicator in front of a global estimator on the same clock. A request
takes no time; `DedupRotate` clears the filter of the boundary that was waited
for and reads the clock for the next one. At any time a reload may replace the
estimator by a new one, which also resets the filters (`Recreate`). The advice on the deduplication
interval is made precise as an assumption (`DedupAssumption`): the dedup
interval, the longest silence of a series and twice the lateness fit into half
of the stream's interval, with something to spare.

### GroupSnapshot

Extends GroupEstimator with `toSnapshot`. The local variables `groups` and
`prevGroups` are references: while the bucket still has the map, `captured.live`
makes reads go to the bucket; `Detach`, conjoined to every rotation and reset,
freezes the contents when the bucket drops the map. The map that was captured
as `prevGroups` is never written again. `keys` remembers which of the two loops
listed a key, so that a key listed by both would be seen. A callback may fail
(`SnapReturn`). Of the history variables, `due` holds what a bucket had when it
was listed until it is emitted, and `emitted` the groups the callbacks were
given. One call at a time: calls only read, and share nothing but mutexes.

### InsertMany

`prepare`'s treatment of `group_by`, what `newEstimator` makes of it, and
`insertMany` with `match` as operators on a series (a function from label names
to values); one action applies them. The group key is the sequence of values the
code writes to the digest. What loops over labels compute, sorting and picking
the labels that are present, is defined without recursion, so that it can be
proved about: `Arranged` puts every entry at its rank, the number of entries
that do not come after it. The loop of insertMany is over one series at a time; its random
start makes every order possible. The properties speak of the stream as it is
configured: `group_by` as a set, and the labels shown with a group. Limits and
buckets are left to GroupEstimator.

### ConfigReload

The reloader loop, `loadConfig` one stream at a time, and the end of `main`.
Estimators are instances with identity; `running` is the set whose rotation
goroutine is not stopped. What matters of a stream is its id, its other settings
(`ver`), whether it uses `__label__`, and whether `newEstimator` refuses it;
of a file, its hash, its streams and whether `readConfig` accepts it. Streams
are handled in any order, which includes the order of the file. Without
`ticker` (no `-configCheckInterval`) only signals wake the reloader. The step
`dedup` stands for `dedup.Reset` and does nothing in this module, as with
deduplication disabled.

### Ingest

Extends ConfigReload with requests, the deduplicator and `/reset`. A request
loads `fpLabelsGlobal` when it is parsed, then the bloom filter of its bucket,
checks, adds and counts in separate steps, then loads the estimators and visits
them one by one in any order. `received` says for each estimator whether it
ever got a series and whether `/reset` wiped it. `Reset` of the deduplicator
replaces the filters one by one. Two requests that add the same series at a time
may both find it new and count it (`FilterAdd`). Shutdown and SIGHUP are left to
ConfigReload, rotation of estimators to GroupEstimator, time to TimedIngest.

### ScrapeCache

Extends ConfigReload with `writeCardinalityMetrics`, its cache, `/reset` and
`invalidateCardinalityCache`. A scrape loads the estimators (`ScrapeLoad`), then
waits for `cardinalityCacheMu` and, if the cache has expired, holds it while it
writes the estimators, updates churn, waits for the storage nodes and stores the
text. `/reset` empties the estimators without the mutex and takes it at the end.
A reload swaps (`StoreNoted`) without the mutex and takes it to invalidate.
A text is the set of estimators it was written from, a sketch in a churn entry
the estimator it was taken from. Both carry two history marks: `late` (the scrape
got the mutex after its estimators had been replaced) and `pre` (has data from
before the last `/reset`). Data is old if it is written before the `/reset`, if it is of
an estimator that the running `/reset` has still to reach, or of one that a
reload had replaced when the `/reset` started, so that no `/reset` reaches it,
while a scrape still waits with it (`missed`). A scrape with no estimators, as of a
selector, goes straight on to the storage nodes. Time is left out: the cache
expires and churn baselines move at any moment. An estimator that a scrape or
`/reset` still refers to keeps its identity (`Unreferenced`).

### Churn and ClusterScrape

Churn has `update`, `cleanup` and the ratio as operators on entries whose times
are ages in ticks. ClusterScrape is a selector: a scrape opens a stream of
snapshots to every node, decodes each into an object that `reset` has cleared
(gob leaves out zero fields and adds to maps, so what `reset` forgets would
leak), adds it to the merged snapshots, and a fetch may fail after any of them.
At the end churn is updated if all fetches succeeded, and cleaned up in any case.
Nodes differ in groups, rejected groups, minimum cardinality, precision, limit,
and in whether they send an ID. A stream without `group_by` (`Global`) gets its
line whatever the minimum is (`GetsLine`). A sketch in a churn entry carries as history what the
nodes held when it was taken, and its age. A fetch takes no time, and the
selector has no streams of its own.

## Runs

Passing runs:

| Run | Instance | Shows |
|---|---|---|
| `group_estimator` | 2 buckets, 4 groups, limit 2, 1 reset | `TypeOK`, `HolderInv`, `BucketAccounting`, `SizeIsTracked`, `LimitOvershoot`, `SketchMemory`; `EvictsIdle`, `RotationStops`, `ResetFinishes`; the refinement `ImplementsWindow` |
| `snapshot` | 1 bucket, 2 groups, one of which gets 2 series, batches of 1, 1 reset | `SnapTypeOK`, `NoNilSketch`, `SnapshotCovers`, `EmitsGroupOnce`; `SnapshotEnds` |
| `grouping` | labels a, b; values "", x, y; `group_by: [b, a]` with `{a!="y"}`, no `group_by` with the same filter, `[a, __label__]`, and a refused stream | `CombinationExact`, `EachSeriesOnce`, `LabelValuesExact`, for every set of series |
| `reload` | 6 files, 4 instances, signals, shutdown, with and without the ticker | `ReloadTypeOK`, `ActiveMatchesConfig`, `NoGoroutineLeak`, `StopsOnce`, `UnchangedStreamKept`; `ReloadApplied`, `ShutdownEnds` |
| `ingest` | 2 requests, 1 series, filters of capacity 1, a stream added and removed, dedup rotation, `/reset` | `DropsOnlyDelivered`, `FilterOvershoot` |
| `window` | 2 buckets with a period of 6 ticks, 2 dedup buckets with one of 3, lateness 2, gap 1, reloads, `/reset`, the clock set | `TimedTypeOK`, `KeptHalfInterval`, `ForgottenAfterInterval`, `PanicsOnlyWhenNew`, `ArrivingIsCounted` |
| `scrape` | 1 scraper, 2 files (one stream changed, one removed or added), 3 instances, `/reset` | `CacheIsCurrent`, `ChurnOfOneEstimator`, `ResetReachesCache`; `MutexIsShared` |
| `cluster` | 2 nodes with 3 possible answers that differ in groups, minimum, precision, limit and version, a stream without `group_by`, interval and longest gap of 1 tick | `MergeIgnoresOrder`, `ClusterExposesNodeGroups`, `ChurnOfFullUnions`, `BaselineAge` |

Runs that find a disagreement between code and documentation (`findings` in
`PROJECT.json` quotes both sides):

| Run | What the code does |
|---|---|
| `summary_line` | a group rejected and later admitted is counted twice in the summary line |
| `group_keys` | with `group_by: [a, b]`, `{a="x"}` and `{b="x"}` share a group |
| `label_reload_race` | a request parsed before a reload and deduplicated after it hides its series from a new `__label__` stream until the filter rotates |
| `stale_scrape` | a scrape that loaded the estimators before a reload and got the mutex after it exposes, and caches, removed streams |

Further differences from the documentation follow from checked invariants, and
have no run of their own:

- `group_limit`, the "maximum number of distinct groups", can be exceeded by up
  to `NB - 1` groups (`LimitOvershoot`), and the documented memory bound of one
  sketch per group of the limit is half of what rotation can hold
  (`SketchMemory`).
- A series is said to be retained for `interval`; it is counted for half an
  interval to an interval (`KeptHalfInterval`, `ForgottenAfterInterval`).
- `/reset` within the first half interval of an estimator without `group_by`,
  after the start or after any reload that adds or changes the stream, ends the
  process (`PanicsOnlyWhenNew`).
- Pass-through of the deduplicator is said to begin at 80% of the limit (the two
  flags' descriptions, `deduplicator.go:24,27`; `docs/vmestimator/vmestimator.md:591`),
  and `main` logs that threshold (`main.go:72-73`). The code computes it only for
  the log: `filter` compares a filter's size with `bucketMaxSize`, its share of
  the whole limit (`deduplicator.go:126`). `FilterOvershoot` is about that
  maximum; about 80% it is false, at the first series beyond it.
- Selectors are said to return a "fully merged estimate" (`vmestimator.md:545`).
  Where nodes differ in `hll_precision`, the error of `Merge` is ignored and the
  group's sketch that arrives first is kept (`snapshot.go:113`); where they differ
  in `group_limit`, the one that arrives last is shown (`snapshot.go:140`). Both
  depend on the order of arrival; `MergeIgnoresOrder` excepts them, and only them.
- After `/reset`, the cache and churn entries can have data from before it, if
  a scrape waited for the mutex across a reload and the `/reset`: the scrape of
  `stale_scrape` again, which `ResetReachesCache` excepts.
- A dedup interval 3 to 5 times shorter than the stream's is advised. It keeps
  an arriving series counted only if it also leaves room for the silence of the
  series and the lateness of the timers within half of the stream's interval
  (`DedupAssumption`, `ArrivingIsCounted`). After `/reset`, series the
  deduplicator knows stay out of the estimates until the filters are cleared.
- Of different values of `min_cardinality` "the largest" is said to win; a
  negative one does (`MergeIgnoresOrder`).
- Churn is said to compare with "one interval earlier"; the baseline can be
  between one scrape and an interval and the gap between scrapes old, and older
  still when nodes fail (`BaselineAge`).

### Bounds, and why they are enough

- `NB = 2`: the limit race, and every interaction over the shared counter, is
  between two buckets; `IInv` is proved for any number. Four keys give each
  bucket two, so that a bucket can hold a group in one generation, another in
  the other and a group in both. `Limit = 2` with 4 keys makes rejection,
  overshoot and readmission happen.
- `BatchSize = 1` puts a release of the mutex between any two keys; larger
  batches have fewer interleavings. Two series in a group tell a partial sketch
  from a full one. One bucket: a snapshot handles its buckets one after the
  other and holds nothing of a bucket when it goes on.
- Two labels in `group_by`: the smallest case in which a series can have some of
  them and not others.
- `Inst` is large enough for the active estimators and those of one reload. In
  ScrapeCache an identity that a scrape or `/reset` still refers to is not used
  again, so a reload may wait for it; no property is about that wait.
- `BF` is the number of buckets plus the number of requests. A pool with one
  more filter has the same reachable states.
- One series per request: `filter` handles series one by one, and so does
  `insertMany`. `NDB = 1` in `ingest`: filters of different buckets do not
  interact.
- Two periods of 6, two dedup periods of 3, lateness 2 and gap 1 satisfy
  `DedupAssumption` with one tick to spare, the least it allows, so that
  `ArrivingIsCounted` is checked where it is tightest; a lateness of 2 tells
  bounds with one and with two latenesses from each other.
  One series: series meet only in sketches and filters, which are exact. The
  wall clock starts, and is set, anywhere in its cycle.
- One scraper: all of a scrape after `ScrapeLoad` is one critical section, so a
  second one only waits with the estimators it loaded, as the first one can do.
  With two scrapers and four instances (3.6 million states) the invariants hold
  too; the liveness property is checked with one.
- `Interval = MaxGap = 1` in `cluster`: baselines move, and entries expire when
  nodes fail for long enough. The bounds of `BaselineAge` are reached. The
  answers are chosen so that a stream comes in several snapshots, a field is
  zero after it was not, and nodes disagree on minimum, precision, limit and
  version.
- All files of `scrape` have streams. A scrape without estimators is in the model
  and covered by the proofs; a third file for it took TLC too long.
- Symmetry is used for identities that are only compared for equality, and in no
  run with a liveness property. There, a fixed free instance is picked.

### Fairness

Weak fairness: a goroutine that holds a mutex goes on; the reloader, main, a
snapshot and `/reset` go on when they can. Strong fairness: rotation, reset,
snapshot, scrape and the reload's invalidation at a mutex that others keep
taking (`sync.Mutex` hands the mutex over to a waiter after 1 ms: starvation
mode), and the receive from a closed `stopCh` in a `select` whose other cases
keep becoming ready (`select` chooses at random). Nothing is assumed of requests,
signals, file edits, expiry or `stop`. Ticks of `-configCheckInterval` count as
steps the reloader takes when it can; the behaviours without a ticker have none.

One assumption is about the environment: `NodesAnswer` in ScrapeCache, that
every storage node answers or fails in the end. The code gives the request no
timeout; with a node that hangs, scrapes, `/reset`, reloads and with them
shutdown wait for ever.

## Proofs

Every safety property that a passing run checks is proved for all values of the
constants, from an inductive invariant that the proof module states as a
conjunction of named parts. TLC checked these invariants on small instances first.

| Module | Invariant | Theorems (property) |
|---|---|---|
| GroupEstimatorProofs | `IInv` | `TypeCorrect` (`TypeOK`), `HoldersUndisturbed` (`HolderInv`), `BucketCountersExact` (`BucketAccounting`), `CountersExact` (`SizeIsTracked`), `OvershootBounded` (`LimitOvershoot`), `MemoryBounded` (`SketchMemory`), `SingleBucketRespectsLimit`, `Refinement` (`ImplementsWindow`) |
| GroupSnapshotProofs | `SnapInv` | `SnapTypesCorrect` (`SnapTypeOK`), `NeverNil` (`NoNilSketch`), `SnapshotIsComplete` (`SnapshotCovers`), `GroupsEmittedOnce` (`EmitsGroupOnce`) |
| InsertManyProofs | `InsertInv` | `CombinationsExact` (`CombinationExact`), `SeriesInOneGroup` (`EachSeriesOnce`), `LabelCountsExact` (`LabelValuesExact`), `LabelComesLast`, `GroupByInOrder`, `OrderIrrelevant` |
| ConfigReloadProofs | `ReloadInv` | `ReloadTypesCorrect` (`ReloadTypeOK`), `ActiveEstimatorsMatch` (`ActiveMatchesConfig`), `GoroutinesAccounted` (`NoGoroutineLeak`), `StoppedOnce` (`StopsOnce`), `UnchangedStreamsKeepEstimator` (`UnchangedStreamKept`) |
| IngestProofs | `IngestInv` | `NothingLostToFilter` (`DropsOnlyDelivered`), `FiltersBounded` (`FilterOvershoot`) |
| ScrapeCacheProofs | `ScrapeInv` | `CacheCurrent` (`CacheIsCurrent`), `ChurnComparesOne` (`ChurnOfOneEstimator`), `ResetIsComplete` (`ResetReachesCache`) |
| TimedIngestProofs | `TimedInv` | `TimedTypesCorrect` (`TimedTypeOK`), `SeriesKept` (`KeptHalfInterval`), `SeriesForgotten` (`ForgottenAfterInterval`), `NoLatePanic` (`PanicsOnlyWhenNew`), `ArrivingCounted` (`ArrivingIsCounted`) |
| ClusterScrapeProofs | `ClusterInv` | `MergedInAnyOrder` (`MergeIgnoresOrder`), `NodeGroupsStayExposed` (`ClusterExposesNodeGroups`), `ChurnIsOfFullUnions` (`ChurnOfFullUnions`), `BaselinesAge` (`BaselineAge`) |

### The arguments

Grouped estimator. `TypeOK` says that no counter is negative, which after
`rotateLocked` subtracts needs `BucketAccounting` and `SizeIsTracked`. Those
need that an admitted group is still unknown to its bucket when it is counted
(`HolderInv`), and that a key is only in its own bucket (`KeysHome`), so that
the buckets' key sets are disjoint and `size` can be compared with the
cardinality of their union. `LimitOvershoot` is inductive because it counts the
buckets between check and count (`Admitting`): a bucket that passes the check
saw `size < Limit`, at most `NB - 1` others are admitting, and the step from
check to count moves one from `Admitting` to `size`. With one bucket the bound
`Limit + NB - 1` is `Limit`. A map has at most one sketch for each group, which
gives the memory bound.

Refinement. An insert that leaves its critical section is `Count`, a rotation
is `Slide`, a reset `Forget`, and every other step leaves all ages alone. That a
new group finds room is `OvershootBounded`; that the abstract rotation finds the
right ages is `KeysHome`.

Snapshot. What keeps `toSnapshot` from losing a series is `DueInv`: what was in
the bucket when it was listed is in the captured maps as long as its group is
listed, because maps only grow while the bucket has them and are frozen by
`Detach` when it drops them; and it is in the batch from the merge to the
callback. `OnceInv` adds that a key is listed once and that keys of other buckets
are of other groups, which is `KeysHome` again.

Grouping. `InsertInv` says that a group has exactly what all series so far led to
under its key, and the values of one of them (`GroupsHold`). The rest is about
keys. Ranks are the numbers from 1 on, without gaps (`Ranks`: as many different
ranks as entries leave none out), so arranging loses no entry and selecting all
entries changes nothing (`ArrangedFacts`, `SelectedAll`). Hence `prepare` keeps
the configured labels, in order and with `__label__` last (`EstimatorFacts`,
`GroupByInOrder`, `LabelComesLast`), and two orders of one `group_by` give one
estimator (`OrderIrrelevant`: fewer than `r` entries are before the `r`-th and at
least `r` not after it, which only one name satisfies). And a key has as many
values as the series has of the labels (`DigestFacts`). A series that lacks one has a shorter key than
any that has all: incomplete series share groups with each other, which
`group_keys` shows, but never with a complete combination (`KeyFacts`). The
attempt to prove `EachSeriesOnce` corrected it for streams without `group_by`,
which count every series that the filter accepts.

Reload. `ServingInv` says who runs: the active estimators, and those loadConfig
has created or removed. `BuildInv` follows the loop of loadConfig: the active
estimators are the reused and the removed ones, and `es` has one estimator for
each stream handled so far. An estimator is reused only for equal settings, and
ids are unique in an accepted file, hence one per stream at the swap. A failed
`newEstimator` stops exactly the created ones, none of which is active.

Ingest. `DropsOnlyDelivered` is inductive on top of `ReloadInv`: a request that
sets a bit carries the series to the estimators it loads afterwards; a reload
that swaps them resets all filters after the swap, and a request that had loaded
an old filter can only write to a filter no bucket has. `PendingFits` bounds the
size counter by all requests between check and count; `FilterOvershoot` itself
speaks only of those that have set their bits.

Scrape. `WriterInv` says what the holder of the mutex has written and that, unless
it is late, it writes active estimators, or some with an id that the reload under
way will drop from churn when it gets the mutex. `ChurnInv` says the same of
entries. That the estimators a scrape loaded are the active ones when it gets
the mutex is not invariant, which `stale_scrape` shows; `late` marks it. For
`ResetReachesCache`, `MissedInv` says that an estimator which `/reset` missed
never becomes active again, as long as a scrape refers to it: its identity is not
reused. A scrape that gets the mutex with it is late, and so is all it writes. What was written
before is gone when `/reset` returns, because it takes the mutex last and drops
the cache and all churn entries.

Time. `NextRotation(b)` is the number of ticks until bucket `b` is due. A tick
makes a series one tick older and its bucket due one tick earlier, so sums such
as `age + NextRotation` stay the same, and are compared with the half and the
whole interval (`KeptInv`, `ForgottenInv`, `NilInv`). A rotation at a late timer
keeps the sum too, because the clock is read again and the next grid point is
computed from it (`OnGrid`, and lemmas on `%` that SMT cannot find by itself).
`NextClear` does the same for the deduplicator (`FilterInv`, `QuietInv`).
`ArrivingIsCounted` then follows from arithmetic: a series that arrived lately
went through the filter within a dedup interval, the lateness and the gap, which
is less than what `KeptHalfInterval` gives it. The attempt to prove these
properties corrected three of their bounds, each off in instances that the run
did not have: the lateness counts twice in `PanicsOnlyWhenNew`,
`DedupAssumption` has to be strict, and after a disturbance `ArrivingIsCounted`
takes a dedup period more.

Cluster. `MergeIgnoresOrder` excepts sketches and limits that depend on the order,
so it is not inductive: `MergedInv` also says what they are made of (`MergedFrom`:
a sketch is the union of all of one of the precisions received, the limit is one
of those received), and where there is only one the two agree
(`MergeInAllOrders`). `MergedInv` is inductive once it is known that what a fetch
decodes is what the node sent (`Decoded`: `reset` leaves no field behind) and that
every message is received once (`FetchInv`); `merge` then adds one snapshot to a
merge (`MergeOneMore`). Rejected groups are counted as the cardinality of a set
of pairs, which a union can be computed of, and the greatest minimum by what
makes it greatest, so that no induction over sets is needed. A fetch that ended
well received everything (`FetchInv`), hence full unions for churn. The ages of
`EntryOK` chain: the baseline was set at most an interval before the newer
sketch, and had then been taken at most two intervals and a gap before, the
longest an entry lives without an update. What a node exposes on its own is the
union of what it sends, which is a part of the merge.

### Assumptions

Those named in the modules: numbers of buckets, limits, periods and batch sizes
are positive; keys, requests, filters, instances and the streams of a file are
finite sets; the process starts with a file it accepts and with instances for
its streams; different files have different hashes, and the streams of an
accepted file different ids, which `prepare` checks; a timer is late by less than a period; `Nil` is not a sketch, and a
sketch has a positive precision; what a storage node sends are snapshots, with an ID
made from the stream's settings or none; the
strings in `group_by` and filters are label names or `__label__`, and all have a
place in the order of strings. Series and keys are numbers, which stand for
their hashes; in InsertMany series are functions from labels to values, and keys
sequences of values.

### Only model-checked

- All liveness: `EvictsIdle`, `RotationStops`, `ResetFinishes`, `SnapshotEnds`,
  `ReloadApplied`, `ShutdownEnds`, `MutexIsShared`. Fairness and ENABLED are out of
  the prover's reach.

## Not modelled

- The estimation error of HyperLogLog, hash collisions, bloom filter bits, their
  compare-and-swap loop and false positives: properties of numbers that TLC
  cannot enumerate.
- Decompression and protobuf decoding, the text of metrics and the bytes of gob:
  work on bytes, without state that outlives a call.
- The validation of settings other than `group_by` in `prepare`, and the parsing
  of filters: a file is accepted or refused. `interval` values of a few
  nanoseconds and the dedup interval at its limit panic; both are single
  comparisons at startup.
- Flags, HTTP plumbing, authorisation, vendored libraries.
- A process that is both given `-config` and `-storageNode`, whose local and
  fetched streams of one id share churn entries.
- A dedup goroutine that is late by a whole dedup period. It then skips a
  boundary, and the filter of that boundary is cleared an interval later.

## Plan

Done: the modules and proofs above; every safety property of the passing runs is
a theorem. Open: a `BloomFilter` module (bit words, concurrent `add`), which would
show that the compare-and-swap loop loses no bit.
