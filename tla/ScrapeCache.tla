----------------------------- MODULE ScrapeCache -----------------------------
(***************************************************************************)
(* Exposition beside configuration reloads and /reset:                     *)
(* writeCardinalityMetrics and invalidateCardinalityCache of               *)
(* cardinality_metrics.go, and the handlers that call them in main.go.     *)
(*                                                                         *)
(* A scrape loads the active estimators, and only then waits for           *)
(* cardinalityCacheMu, which guards the cached text and the churn          *)
(* entries.  It holds the mutex while it writes the estimators, updates    *)
(* churn and fetches the storage nodes.                                    *)
(*                                                                         *)
(* Text is the set of estimators it was written from.  A stream has one    *)
(* group; a sketch in a churn entry is the estimator it was cloned from.   *)
(* Time is abstract: the cache expires, and a churn baseline or entry gets *)
(* old, at any moment (module Churn has the clock).  The deduplicator is   *)
(* the subject of Ingest, shutdown that of ConfigReload; reloads come from *)
(* the ticker.                                                             *)
(***************************************************************************)
EXTENDS ConfigReload

CONSTANTS
  Scraper,   \* goroutines that serve the metrics page or push metrics
  ChurnIDs   \* ids of streams with calculate_churn

VARIABLES
  scr,      \* every scraper: its program counter, its argument es, and missed
            \* (history): the instances in es that the last /reset does not reach
  left,     \* estimators the loop of the mutex's holder has still to visit
  draft,    \* plain: the text the mutex's holder is writing
  cache,    \* cardinalityMetricsCache
  valid,    \* cardinalityMetricsCacheAt is within the TTL
  churn,    \* globalChurnSnapshots.entries, by id
  gone,     \* ids of loadConfig's removed, from the swap on
  rst,      \* the /reset handler
  resetting \* estimators it has still to reset

scrapeVars == <<scr, left, draft, cache, valid, churn, gone, rst, resetting>>
scrapeCacheVars == <<reloadVars, scrapeVars>>

\* An estimator as its readers see it, also when it has been stopped.
Reader(i) == [inst |-> i, id |-> cfgOf[i].id]
getEstimators == {Reader(i) : i \in estimators}
InstOf(S) == {e.inst : e \in S}

\* (history) late: written by a scrape that got the mutex after its estimators
\* were replaced; pre: has data from before the /reset.
NoText   == [es |-> {}, late |-> FALSE, pre |-> FALSE]
NoSketch == [inst |-> -1, late |-> FALSE, pre |-> FALSE]
Waiting  == [at |-> "idle", es |-> {}, missed |-> {}]

\* cardinalityCacheMu: the holder is between its Lock and its Unlock.
Unlocked == \A c \in Scraper : scr[c].at \in {"idle", "wait"}

\* Instances that neither the reloader nor a scrape or a /reset refers to.
Unreferenced ==
  FreeInst \ (resetting \cup UNION {InstOf(scr[c].es) : c \in Scraper})

ScrapeInit ==
  /\ ReloadInit /\ ticker
  /\ scr = [c \in Scraper |-> Waiting]
  /\ left = {} /\ draft = NoText /\ cache = NoText /\ valid = FALSE
  /\ churn = [id \in {} |-> NoSketch]
  /\ gone = {}
  /\ rst = "idle" /\ resetting = {}

-----------------------------------------------------------------------------
(* writeCardinalityMetrics *)

\* The argument es is loaded before the call, and so before the mutex is taken.
ScrapeLoad(c) ==
  /\ scr[c].at = "idle"
  /\ scr' = [scr EXCEPT ![c] = [at |-> "wait", es |-> getEstimators, missed |-> {}]]
  /\ UNCHANGED <<reloadVars, left, draft, cache, valid, churn, gone, rst, resetting>>

\* (mutant) The path for a cached response does not release the mutex.
ScrapeHitKeepsLock(c) ==
  /\ scr[c].at = "wait"
  /\ Unlocked
  /\ valid
  /\ scr' = [scr EXCEPT ![c].at = "answer"]
  /\ UNCHANGED <<reloadVars, left, draft, cache, valid, churn, gone, rst, resetting>>

\* The mutex is taken within the TTL: the cached text is the response.
ScrapeHit(c) ==
  /\ scr[c].at = "wait"
  /\ Unlocked
  /\ valid
  /\ scr' = [scr EXCEPT ![c] = Waiting]
  /\ UNCHANGED <<reloadVars, left, draft, cache, valid, churn, gone, rst, resetting>>

\* The mutex is taken, and the text has to be written; without estimators both
\* loops over them are empty.
ScrapeMiss(c) ==
  /\ scr[c].at = "wait"
  /\ Unlocked
  /\ ~ valid
  /\ scr' = [scr EXCEPT ![c].at = IF scr[c].es = {} THEN "fetch" ELSE "write"]
  /\ left' = scr[c].es
  /\ draft' = [NoText EXCEPT !.late = (scr[c].es # getEstimators)]
  /\ UNCHANGED <<reloadVars, cache, valid, churn, gone, rst, resetting>>

\* Instances with data from before the last /reset, for scraper c: those it is
\* still to reset, and those that a reload had replaced when it started.
OldData(c) == resetting \cup scr[c].missed

\* e.writeMetrics(plain); the last one is followed by the loop for churn.
ScrapeWrite(c) ==
  /\ scr[c].at = "write"
  /\ \E e \in left :
       /\ draft' = [draft EXCEPT !.es = @ \cup {e}, !.pre = @ \/ e.inst \in OldData(c)]
       /\ left' = IF left = {e} THEN scr[c].es ELSE left \ {e}
       /\ scr' = [scr EXCEPT ![c].at = IF left = {e} THEN "churn" ELSE @]
  /\ UNCHANGED <<reloadVars, cache, valid, churn, gone, rst, resetting>>

SketchOf(c, e) ==
  [inst |-> IF draft.late THEN -1 ELSE e.inst, late |-> draft.late,
   pre |-> e.inst \in OldData(c)]

\* The entries that churnSnapshots.update may leave for id, given the new sketch:
\* the baseline moves on if it is older than the interval.
ChurnUpdates(id, sk) ==
  IF id \in DOMAIN churn
  THEN {[prev |-> p, curr |-> sk] : p \in {churn[id].prev, churn[id].curr}}
  ELSE {[prev |-> NoSketch, curr |-> sk]}

\* cs.entries[k] = e
SetEntry(id, entry) ==
  [k \in DOMAIN churn \cup {id} |-> IF k = id THEN entry ELSE churn[k]]

\* e.toSnapshot with churnSnapshots.update; then the storage nodes are fetched.
ScrapeChurn(c) ==
  /\ scr[c].at = "churn"
  /\ \E e \in left :
       /\ IF e.id \in ChurnIDs
          THEN \E entry \in ChurnUpdates(e.id, SketchOf(c, e)) : churn' = SetEntry(e.id, entry)
          ELSE UNCHANGED churn
       /\ left' = left \ {e}
       /\ scr' = [scr EXCEPT ![c].at = IF left = {e} THEN "fetch" ELSE @]
  /\ UNCHANGED <<reloadVars, draft, cache, valid, gone, rst, resetting>>

\* All storage nodes have answered or failed: wg.Wait returns.
NodesAnswer(c) ==
  /\ scr[c].at = "fetch"
  /\ scr' = [scr EXCEPT ![c].at = "store"]
  /\ UNCHANGED <<reloadVars, left, draft, cache, valid, churn, gone, rst, resetting>>

\* cleanup drops entries that were not updated for long; the text is cached and
\* the mutex released.
ScrapeStore(c) ==
  /\ scr[c].at = "store"
  /\ \E old \in SUBSET (DOMAIN churn \ {e.id : e \in scr[c].es}) :
       churn' = [id \in DOMAIN churn \ old |-> churn[id]]
  /\ cache' = draft
  /\ valid' = TRUE
  /\ draft' = NoText
  /\ scr' = [scr EXCEPT ![c] = Waiting]
  /\ UNCHANGED <<reloadVars, left, gone, rst, resetting>>

\* The cached text is older than -cardinalityMetrics.cacheTTL.
Expire ==
  /\ valid
  /\ valid' = FALSE
  /\ cache' = NoText
  /\ UNCHANGED <<reloadVars, scr, left, draft, churn, gone, rst, resetting>>

-----------------------------------------------------------------------------
(* /reset *)

\* (history) A sketch that was cloned before the /reset.
BeforeReset(sk) == [sk EXCEPT !.pre = (sk # NoSketch)]

\* getEstimators; what was written so far is from before, and so is what scrapes
\* will write of estimators that are not among them any more.
ResetStart ==
  /\ rst = "idle"
  /\ rst' = "reset"
  /\ resetting' = estimators
  /\ draft' = [draft EXCEPT !.pre = (~ Unlocked)]
  /\ cache' = [cache EXCEPT !.pre = valid]
  /\ churn' = [id \in DOMAIN churn |-> [prev |-> BeforeReset(churn[id].prev),
                                        curr |-> BeforeReset(churn[id].curr)]]
  /\ scr' = [c \in Scraper |-> [scr[c] EXCEPT !.missed = InstOf(scr[c].es) \ estimators]]
  /\ UNCHANGED <<reloadVars, left, valid, gone>>

\* e.reset()
ResetOne(i) ==
  /\ i \in resetting
  /\ resetting' = resetting \ {i}
  /\ UNCHANGED <<reloadVars, scr, left, draft, cache, valid, churn, gone, rst>>

\* (mutant) The cache is emptied before the estimators are.
ResetDoneFirst ==
  /\ rst = "reset" /\ Unlocked
  /\ rst' = "idle"
  /\ churn' = [id \in {} |-> NoSketch]
  /\ valid' = FALSE /\ cache' = NoText
  /\ UNCHANGED <<reloadVars, scr, left, draft, gone, resetting>>

\* Under the mutex: churn starts from nothing and the cache is invalidated.
ResetDone ==
  /\ rst = "reset" /\ resetting = {} /\ Unlocked
  /\ rst' = "idle"
  /\ churn' = [id \in {} |-> NoSketch]
  /\ valid' = FALSE /\ cache' = NoText
  /\ UNCHANGED <<reloadVars, scr, left, draft, gone, resetting>>

-----------------------------------------------------------------------------
(* loadConfig *)

\* estimators.Store, from where on the removed estimators are known by gone.
StoreNoted ==
  /\ Store
  /\ gone' = {cfgOf[i].id : i \in removed}
  /\ UNCHANGED <<scr, left, draft, cache, valid, churn, rst, resetting>>

\* (mutant) The cache is invalidated without waiting for its mutex.
InvalidateNoLock ==
  /\ LoadDone
  /\ churn' = [id \in DOMAIN churn \ gone |-> churn[id]]
  /\ valid' = FALSE /\ cache' = NoText
  /\ gone' = {}
  /\ UNCHANGED <<scr, left, draft, rst, resetting>>

\* (mutant) Churn entries of removed estimators stay.
InvalidateKeepsChurn ==
  /\ LoadDone
  /\ Unlocked
  /\ valid' = FALSE /\ cache' = NoText
  /\ gone' = {}
  /\ UNCHANGED <<scr, left, draft, churn, rst, resetting>>

\* invalidateCardinalityCache, the end of loadConfig.
Invalidate ==
  /\ LoadDone
  /\ Unlocked
  /\ churn' = [id \in DOMAIN churn \ gone |-> churn[id]]
  /\ valid' = FALSE /\ cache' = NoText
  /\ gone' = {}
  /\ UNCHANGED <<scr, left, draft, rst, resetting>>

\* The other steps of the reloader have nothing to do with the cache.
OtherReload ==
  /\ pc # "store"
  /\ pc = "stop" => removed # {}
  /\ \/ ReloadStep({i \in Inst : Unreferenced # {} /\ i = CHOOSE j \in Unreferenced : TRUE})
     \/ DedupDone
  /\ UNCHANGED scrapeVars

\* The file matters when the reloader reads it, and is edited before.
Ask == ((EditFile /\ pc = "idle") \/ Wake) /\ UNCHANGED scrapeVars

ScrapeStep(c) ==
  ScrapeHit(c) \/ ScrapeMiss(c) \/ ScrapeWrite(c) \/ ScrapeChurn(c) \/ ScrapeStore(c)

ScrapeNext ==
  \/ \E c \in Scraper : ScrapeLoad(c) \/ ScrapeStep(c) \/ NodesAnswer(c)
  \/ Expire
  \/ ResetStart \/ ResetDone \/ \E i \in Inst : ResetOne(i)
  \/ Ask \/ OtherReload \/ StoreNoted \/ Invalidate

\* A goroutine that waits for the mutex gets it in the end (Go's mutexes hand
\* over to a starving waiter).  That the storage nodes answer is an assumption
\* about the network: the code gives them no timeout.
ScrapeFairness ==
  /\ \A c \in Scraper : SF_scrapeCacheVars(ScrapeStep(c)) /\ WF_scrapeCacheVars(NodesAnswer(c))
  /\ SF_scrapeCacheVars(ResetDone)
  /\ WF_scrapeCacheVars(\E i \in Inst : ResetOne(i))
  /\ WF_scrapeCacheVars(OtherReload \/ StoreNoted)
  /\ SF_scrapeCacheVars(Invalidate)

ScrapeSpec == ScrapeInit /\ [][ScrapeNext]_scrapeCacheVars
ScrapeFairSpec == ScrapeSpec /\ ScrapeFairness

-----------------------------------------------------------------------------
(* Properties *)

\* The reloader has swapped the estimators and not yet invalidated the cache.
Swapping == pc \in {"dedup", "stop"}

\* A cached text shows exactly the active estimators, however scrapes and
\* reloads interleave; except while a reload is between the swap and the
\* invalidation, and for a scrape that got the mutex after its estimators had
\* been replaced.
CacheIsCurrent ==
  valid /\ ~ cache.late /\ ~ Swapping => cache.es = getEstimators

\* Churn compares two sketches of one active estimator, with the same two
\* exceptions: an entry does not survive the estimator it is about, although
\* the new one of a changed stream has the same id.
ChurnOfOneEstimator ==
  \A id \in DOMAIN churn :
    LET prev == churn[id].prev curr == churn[id].curr IN
    ~ prev.late /\ ~ curr.late /\ ~ Swapping =>
      /\ [inst |-> curr.inst, id |-> id] \in getEstimators
      /\ prev.inst \in {NoSketch.inst, curr.inst}

\* Once /reset has returned, neither the estimates in the cached text nor a sketch
\* of a churn entry has data from before it, although scrapes write both while
\* estimators are being reset; except what a scrape wrote that got the mutex after
\* its estimators had been replaced, which /reset does not know any more.
ResetReachesCache ==
  rst = "idle" =>
    /\ cache.pre => cache.late
    /\ \A id \in DOMAIN churn :
         \A sk \in {churn[id].prev, churn[id].curr} : sk.pre => sk.late

\* Scrapes, /reset and reloads that contend for the mutex all come to their
\* end, provided that the storage nodes answer.
MutexIsShared ==
  /\ \A c \in Scraper : (scr[c].at # "idle") ~> (scr[c].at = "idle")
  /\ (rst # "idle") ~> (rst = "idle")
  /\ (pc = "stop") ~> (pc # "stop")

\* "Removed streams are stopped and their estimates are no longer exposed": no
\* exception for scrapes that loaded the estimators before the swap.
RemovedNotExposed ==
  valid /\ ~ Swapping => cache.es \subseteq getEstimators
=============================================================================
