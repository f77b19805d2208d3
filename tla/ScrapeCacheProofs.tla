-------------------------- MODULE ScrapeCacheProofs --------------------------
(***************************************************************************)
(* Proofs about ScrapeCache for any sets of scrapers, churn ids and files  *)
(* and any finite set of instances.  The inductive invariant is            *)
(* ScrapeInv; its part about reloads is preserved for the                  *)
(* reasons given in ConfigReloadProofs.                                    *)
(***************************************************************************)
EXTENDS ScrapeCache, ConfigReloadProofs

-----------------------------------------------------------------------------
(* The inductive invariant *)

\* Estimators as a scrape can have seen them.
Readers == [inst : Inst, id : {s.id : s \in Stream \cup {NoStream}}]

ScrapeTypeOK ==
  /\ scr \in [Scraper -> [at : {"idle", "wait", "write", "churn", "fetch", "store"},
                          es : SUBSET Readers, missed : SUBSET Inst]]
  /\ left \subseteq Readers /\ resetting \subseteq Inst
  /\ {draft, cache} \subseteq [es : SUBSET Readers, late : BOOLEAN, pre : BOOLEAN]
  /\ valid \in BOOLEAN
  /\ rst \in {"idle", "reset"}

\* The scrape has the mutex.
Holder(c) == scr[c].at \notin {"idle", "wait"}

\* The mutex has one holder, and without one no text is being written.
MutexInv ==
  /\ \A c, d \in Scraper : Holder(c) /\ Holder(d) => c = d
  /\ Unlocked => draft = NoText

\* What the holder has written, and that it writes active estimators: all of them
\* unless the reloader swaps them meanwhile, and then at least those whose id no
\* removed estimator had.
WriterInv ==
  \A c \in Scraper : Holder(c) =>
    /\ scr[c].at = "write" => draft.es \cup left = scr[c].es
    /\ scr[c].at = "churn" => left \subseteq scr[c].es
    /\ scr[c].at # "write" => draft.es = scr[c].es
    /\ ~ draft.late => \A e \in scr[c].es : e.id \in gone \/ e \in getEstimators
    /\ ~ draft.late /\ ~ Swapping => scr[c].es = getEstimators

\* The sketches that late scrapes cloned, and those of active estimators with this id.
LateSketch == [inst : {-1}, late : {TRUE}, pre : BOOLEAN]
LiveSketch(id) == [inst : {e.inst : e \in {x \in getEstimators : x.id = id}},
                   late : {FALSE}, pre : BOOLEAN]

\* A churn entry that the reload under way will not drop has sketches of active
\* estimators, or of a late scrape.
ChurnInv ==
  /\ ~ Swapping => gone = {}
  /\ \A id \in DOMAIN churn \ gone :
       /\ churn[id].prev \in {NoSketch} \cup LateSketch \cup LiveSketch(id)
       /\ churn[id].curr \in LateSketch \cup LiveSketch(id)

\* A /reset misses estimators that are not active any more and never will be: the
\* instances of a load under way are none that a scrape refers to.
MissedInv ==
  \A c \in Scraper :
    /\ scr[c].missed \subseteq InstOf(scr[c].es)
    /\ scr[c].missed \cap estimators = {}
    /\ pc \in {"build", "store"} => created \cap InstOf(scr[c].es) = {}

\* Outside /reset no text, cached or being written, and no sketch of churn is from
\* before it, unless its scrape was late; and one that is not late writes nothing old.
ResetInv ==
  rst = "idle" =>
    /\ resetting = {}
    /\ ResetReachesCache
    /\ draft.pre => draft.late
    /\ \A c \in Scraper : Holder(c) /\ ~ draft.late => scr[c].missed = {}

CacheInv ==
  ScrapeTypeOK /\ MutexInv /\ WriterInv /\ CacheIsCurrent /\ ChurnInv /\ MissedInv
  /\ ResetInv

\* The conjunction that is inductive.
ScrapeInv == ReloadInv /\ main = "serving" /\ CacheInv

-----------------------------------------------------------------------------
(* Active estimators as readers see them *)

\* A reader knows an instance and the id of a stream.
LEMMA ReadersType == ReloadInv => getEstimators \subseteq Readers
  BY DEF ReloadInv, ReloadTypeOK, getEstimators, Reader, Readers

\* No two active estimators have one id: readConfig accepts no such config.
LEMMA ReadersDiffer ==
  ASSUME ReloadInv, main = "serving", NEW e \in getEstimators, NEW f \in getEstimators,
         e.id = f.id
  PROVE  e = f
  <1> DEFINE want == IF pc \in {"dedup", "stop"} THEN newCfg ELSE cfg
  <1>1. OnePerStream(estimators, want.streams)
    BY DEF ReloadInv, ServingInv
  <1>2. want \in Files /\ want.ok
    BY DEF ReloadInv, ReloadTypeOK, LoadInv
  <1> HIDE DEF want
  <1>3. \A s, t \in want.streams : s.id = t.id => s = t
    BY <1>2, FilesAssumption
  <1>4. PICK i \in estimators : e = Reader(i)
    BY DEF getEstimators
  <1>5. PICK j \in estimators : f = Reader(j)
    BY DEF getEstimators
  <1>6. cfgOf[i] \in want.streams /\ cfgOf[j] \in want.streams
    BY <1>1 DEF OnePerStream, SettingsOf
  <1>7. cfgOf[i].id = cfgOf[j].id
    BY <1>4, <1>5 DEF Reader
  <1>8. i = j
    BY <1>1, <1>3, <1>6, <1>7 DEF OnePerStream
  <1> QED BY <1>4, <1>5, <1>8

\* Steps of others leave the active estimators as they are.
LEMMA SameEstimators ==
  ASSUME UNCHANGED reloadVars
  PROVE  getEstimators' = getEstimators /\ (Swapping' <=> Swapping)
  BY DEF getEstimators, Reader, Swapping, reloadVars

\* So do the steps of a reload other than the swap and the last one.
LEMMA ReloadSeen ==
  ASSUME ReloadInv, Ask \/ OtherReload
  PROVE  getEstimators' = getEstimators /\ (Swapping' <=> Swapping)
  <1> DEFINE free == {i \in Inst : Unreferenced # {} /\ i = CHOOSE j \in Unreferenced : TRUE}
  <1>1. free \in SUBSET FreeInst
    BY DEF Unreferenced
  <1>2. ReloadStep(free) \/ EditFile \/ Wake \/ DedupDone
    BY DEF Ask, OtherReload
  <1>3. ~ Store /\ ~ LoadDone
    BY DEF Ask, OtherReload, Store, LoadDone, EditFile, Wake
  <1> HIDE DEF free
  <1>4. \A i \in estimators : cfgOf'[i] = cfgOf[i]
    BY <1>1, <1>2, ActiveKeepsSettings
  <1>5. UNCHANGED estimators
    BY <1>2, <1>3, OnlyStoreSwaps
  <1>6. getEstimators' = getEstimators
    BY <1>4, <1>5 DEF getEstimators, Reader
  <1>7. Swapping' <=> Swapping
    BY <1>2, <1>3 DEF Swapping, ReloadStep, EditFile, Wake, DedupDone, ReadError,
       ReadUnchanged, ReadChanged, BuildReuse, BuildFail, BuildCreate, BuildNothing,
       EnableFingerprints, StopRemoved, LoadReturn
  <1> QED BY <1>6, <1>7

\* The reloader's invariant stays, and main serves.
LEMMA ScrapeReload ==
  ASSUME ScrapeInv, [ScrapeNext]_scrapeCacheVars
  PROVE  ReloadInv' /\ main' = "serving"
  <1>0. ReloadInv /\ main = "serving"
    BY DEF ScrapeInv
  <1> DEFINE free == {i \in Inst : Unreferenced # {} /\ i = CHOOSE j \in Unreferenced : TRUE}
  <1>1. free \in SUBSET FreeInst
    BY DEF Unreferenced
  <1>2. FreeInst \in SUBSET FreeInst
    OBVIOUS
  <1>3. CASE UNCHANGED reloadVars
    BY <1>0, <1>3, ReloadStutter DEF reloadVars
  <1>4. CASE ReloadStep(free) \/ EditFile \/ Wake \/ DedupDone \/ Store \/ LoadDone
    <2>1. ReloadInv'
      BY <1>0, <1>1, <1>4, ReloadStepInv, EnvironmentInv, SwapInv
    <2>2. UNCHANGED main
      BY <1>4 DEF EditFile, Wake, DedupDone, ReloadStep, ReadError, ReadUnchanged,
         ReadChanged, BuildReuse, BuildFail, BuildCreate, BuildNothing, EnableFingerprints,
         Store, StopRemoved, LoadDone, LoadReturn, mainVars
    <2> QED BY <1>0, <2>1, <2>2
  <1>5. ScrapeNext => \/ ReloadStep(free) \/ EditFile \/ Wake \/ DedupDone \/ Store \/ LoadDone
                      \/ UNCHANGED reloadVars
    BY DEF ScrapeNext, ScrapeStep, ScrapeLoad, ScrapeHit, ScrapeMiss, ScrapeWrite, ScrapeChurn,
           ScrapeStore, NodesAnswer, Expire, ResetStart, ResetDone, ResetOne, Ask, OtherReload,
           StoreNoted, Invalidate
  <1> QED BY <1>3, <1>4, <1>5 DEF scrapeCacheVars

-----------------------------------------------------------------------------
(* The initial state *)

\* No scrape, an empty cache, no churn entry.
LEMMA ScrapeInitInv == ScrapeInit => ScrapeInv
  <1> SUFFICES ASSUME ScrapeInit PROVE ScrapeInv
    OBVIOUS
  <1>1. ReloadInv /\ main = "serving"
    BY ReloadInitInv DEF ScrapeInit, ReloadInit
  <1>2. ScrapeTypeOK
    <2>1. Waiting \in [at : {"idle", "wait", "write", "churn", "fetch", "store"},
                       es : SUBSET Readers, missed : SUBSET Inst]
      BY DEF Waiting
    <2>2. NoText \in [es : SUBSET Readers, late : BOOLEAN, pre : BOOLEAN]
      BY DEF NoText
    <2> QED BY <2>1, <2>2 DEF ScrapeInit, ScrapeTypeOK
  <1>3. \A c \in Scraper : ~ Holder(c)
    BY DEF ScrapeInit, Holder, Waiting
  <1>4. MutexInv /\ WriterInv
    BY <1>3 DEF ScrapeInit, MutexInv, WriterInv
  <1>5. CacheIsCurrent /\ ChurnInv
    BY DEF ScrapeInit, CacheIsCurrent, ChurnInv
  <1>6. MissedInv
    BY DEF ScrapeInit, ReloadInit, MissedInv, Waiting, InstOf
  <1>7. ResetInv
    BY <1>3 DEF ScrapeInit, ResetInv, ResetReachesCache, NoText
  <1> QED BY <1>1, <1>2, <1>4, <1>5, <1>6, <1>7 DEF ScrapeInv, CacheInv

-----------------------------------------------------------------------------
(* Scrapes *)

ScrState == [at : {"idle", "wait", "write", "churn", "fetch", "store"},
             es : SUBSET Readers, missed : SUBSET Inst]
Text == [es : SUBSET Readers, late : BOOLEAN, pre : BOOLEAN]

\* ChurnInv is about the churn entries and the active estimators alone.
LEMMA ChurnSame ==
  ASSUME ChurnInv, UNCHANGED <<churn, gone, getEstimators>>, Swapping' <=> Swapping
  PROVE  ChurnInv'
  <1>1. \A id : LiveSketch(id)' = LiveSketch(id)
    BY DEF LiveSketch
  <1> QED BY <1>1 DEF ChurnInv

\* MissedInv is about what scrapes refer to.
LEMMA MissedSame ==
  ASSUME MissedInv, UNCHANGED <<estimators, created, pc>>,
         \A d \in Scraper : \/ scr'[d].es = scr[d].es /\ scr'[d].missed = scr[d].missed
                            \/ scr'[d].es = {} /\ scr'[d].missed = {}
  PROVE  MissedInv'
  <1>1. InstOf({}) = {}
    BY DEF InstOf
  <1>2. \A d \in Scraper : \/ InstOf(scr'[d].es) = InstOf(scr[d].es) /\ scr'[d].missed = scr[d].missed
                           \/ InstOf(scr'[d].es) = {} /\ scr'[d].missed = {}
    BY <1>1 DEF InstOf
  <1>3. ASSUME NEW d \in Scraper
        PROVE  /\ scr'[d].missed \subseteq InstOf(scr'[d].es)
               /\ scr'[d].missed \cap estimators = {}
               /\ pc \in {"build", "store"} => created \cap InstOf(scr'[d].es) = {}
    <2>1. CASE InstOf(scr'[d].es) = InstOf(scr[d].es) /\ scr'[d].missed = scr[d].missed
      BY <2>1 DEF MissedInv
    <2>2. CASE InstOf(scr'[d].es) = {} /\ scr'[d].missed = {}
      BY <2>2
    <2> QED BY <1>2, <2>1, <2>2
  <1> QED BY <1>3 DEF MissedInv

\* The instances of the active estimators.
LEMMA InstOfActive == InstOf(getEstimators) = estimators
  <1>1. ASSUME NEW i \in estimators PROVE i \in InstOf(getEstimators)
    <2>1. Reader(i) \in getEstimators /\ Reader(i).inst = i
      BY DEF getEstimators, Reader
    <2> QED BY <2>1 DEF InstOf
  <1>2. \A e \in getEstimators : e.inst \in estimators
    BY DEF getEstimators, Reader
  <1> QED BY <1>1, <1>2 DEF InstOf

\* A scraper that neither has the mutex nor takes it.
LEMMA ScrapeWaits ==
  ASSUME ScrapeInv, NEW c \in Scraper, ScrapeLoad(c) \/ ScrapeHit(c)
  PROVE  CacheInv'
  <1>0. ScrapeTypeOK /\ MutexInv /\ WriterInv /\ CacheIsCurrent /\ ChurnInv
        /\ MissedInv /\ ResetInv
    BY DEF ScrapeInv, CacheInv
  <1>1. UNCHANGED <<reloadVars, left, draft, cache, valid, churn, gone, rst, resetting>>
    BY DEF ScrapeLoad, ScrapeHit
  <1>2. PICK r \in ScrState : /\ scr' = [scr EXCEPT ![c] = r] /\ r.at \in {"idle", "wait"}
                             /\ r.es \in {{}, getEstimators} /\ r.missed = {}
    <2>1. getEstimators \in SUBSET Readers
      BY ReadersType DEF ScrapeInv
    <2>2. [at |-> "wait", es |-> getEstimators, missed |-> {}] \in ScrState /\ Waiting \in ScrState
      BY <2>1 DEF ScrState, Waiting
    <2> QED BY <2>2 DEF ScrapeLoad, ScrapeHit, Waiting
  <1>3. scr'[c] = r /\ \A d \in Scraper : d # c => scr'[d] = scr[d]
    BY <1>0, <1>2 DEF ScrapeTypeOK
  <1>4. scr[c].at \in {"idle", "wait"}
    BY DEF ScrapeLoad, ScrapeHit
  <1>5. \A d \in Scraper : (Holder(d)' <=> Holder(d)) /\ (Holder(d) => scr'[d] = scr[d])
    BY <1>2, <1>3, <1>4 DEF Holder
  <1>6. Unlocked' <=> Unlocked
    BY <1>2, <1>3, <1>4 DEF Unlocked
  <1>7. getEstimators' = getEstimators /\ (Swapping' <=> Swapping)
    BY <1>1, SameEstimators
  <1>8. ScrapeTypeOK'
    BY <1>0, <1>1, <1>2 DEF ScrapeTypeOK, ScrState
  <1>9. MutexInv'
    BY <1>0, <1>1, <1>5, <1>6 DEF MutexInv
  <1>10. WriterInv'
    BY <1>0, <1>1, <1>5, <1>7 DEF WriterInv
  <1>11. CacheIsCurrent'
    BY <1>0, <1>1, <1>7 DEF CacheIsCurrent
  <1>12. ChurnInv'
    BY <1>0, <1>1, <1>7, ChurnSame
  <1>13. MissedInv'
    <2>1. UNCHANGED <<estimators, created, pc>>
      BY <1>1 DEF reloadVars
    <2>2. pc \in {"build", "store"} => created \cap estimators = {}
      BY DEF ScrapeInv, ReloadInv, BuildInv
    <2>3. InstOf({}) = {}
      BY DEF InstOf
    <2>4. InstOf(r.es) \in {{}, estimators}
      BY <1>2, <2>3, InstOfActive
    <2> QED BY <1>0, <1>2, <1>3, <2>1, <2>2, <2>4 DEF MissedInv, InstOf
  <1>14. ResetInv'
    BY <1>0, <1>1, <1>5 DEF ResetInv, ResetReachesCache
  <1> QED BY <1>8, <1>9, <1>10, <1>11, <1>12, <1>13, <1>14 DEF CacheInv

\* The mutex is taken: the text is late if the estimators were replaced.
LEMMA ScrapeTakes ==
  ASSUME ScrapeInv, NEW c \in Scraper, ScrapeMiss(c)
  PROVE  CacheInv'
  <1>0. ScrapeTypeOK /\ MutexInv /\ WriterInv /\ CacheIsCurrent /\ ChurnInv
        /\ MissedInv /\ ResetInv
    BY DEF ScrapeInv, CacheInv
  <1>1. /\ UNCHANGED <<reloadVars, cache, valid, churn, gone, rst, resetting>>
        /\ Unlocked /\ ~ valid
        /\ scr' = [scr EXCEPT ![c].at = IF scr[c].es = {} THEN "fetch" ELSE "write"]
        /\ left' = scr[c].es
        /\ draft' = [NoText EXCEPT !.late = (scr[c].es # getEstimators)]
    BY DEF ScrapeMiss
  <1>2. scr[c] \in ScrState
    BY <1>0 DEF ScrapeTypeOK, ScrState
  <1>3. /\ scr' \in [Scraper -> ScrState]
        /\ scr'[c].at = IF scr[c].es = {} THEN "fetch" ELSE "write"
        /\ scr'[c].es = scr[c].es /\ scr'[c].missed = scr[c].missed
        /\ \A d \in Scraper : d # c => scr'[d] = scr[d]
    BY <1>0, <1>1, <1>2 DEF ScrapeTypeOK, ScrState
  <1>4. draft'.es = {} /\ draft'.late = (scr[c].es # getEstimators) /\ draft'.pre = FALSE
        /\ draft' \in Text
    BY <1>1 DEF NoText, Text
  <1>5. \A d \in Scraper : Holder(d)' <=> d = c
    BY <1>1, <1>3 DEF Holder, Unlocked
  <1>6. ~ Unlocked'
    BY <1>3 DEF Unlocked
  <1>7. getEstimators' = getEstimators /\ (Swapping' <=> Swapping)
    BY <1>1, SameEstimators
  <1>8. ScrapeTypeOK'
    <2>1. left' \subseteq Readers
      BY <1>1, <1>2 DEF ScrState
    <2> QED BY <1>0, <1>1, <1>3, <1>4, <2>1 DEF ScrapeTypeOK, ScrState, Text
  <1>9. MutexInv'
    BY <1>5, <1>6 DEF MutexInv
  <1>10. WriterInv'
    <2>1. draft'.es \cup left' = scr'[c].es
      BY <1>1, <1>3, <1>4
    <2>2. ~ draft'.late => scr'[c].es = getEstimators'
      BY <1>3, <1>4, <1>7
    <2> QED BY <1>3, <1>5, <2>1, <2>2 DEF WriterInv
  <1>11. CacheIsCurrent'
    BY <1>0, <1>1, <1>4 DEF CacheIsCurrent
  <1>12. ChurnInv'
    BY <1>0, <1>1, <1>7, ChurnSame
  <1>13. MissedInv'
    BY <1>0, <1>1, <1>3, MissedSame DEF reloadVars
  <1>14. ResetInv'
    <2>1. ~ draft'.late => scr'[c].missed = {}
      BY <1>0, <1>3, <1>4, InstOfActive DEF MissedInv
    <2> QED BY <1>0, <1>1, <1>4, <1>5, <2>1 DEF ResetInv, ResetReachesCache
  <1> QED BY <1>8, <1>9, <1>10, <1>11, <1>12, <1>13, <1>14 DEF CacheInv

\* A scrape adds the estimator it visits to its draft.
LEMMA ScrapeWrites ==
  ASSUME ScrapeInv, NEW c \in Scraper, ScrapeWrite(c)
  PROVE  CacheInv'
  <1>0. ScrapeTypeOK /\ MutexInv /\ WriterInv /\ CacheIsCurrent /\ ChurnInv
        /\ MissedInv /\ ResetInv
    BY DEF ScrapeInv, CacheInv
  <1>1. scr[c].at = "write"
        /\ UNCHANGED <<reloadVars, cache, valid, churn, gone, rst, resetting>>
    BY DEF ScrapeWrite
  <1>2. PICK e \in left :
          /\ draft' = [draft EXCEPT !.es = @ \cup {e}, !.pre = @ \/ e.inst \in OldData(c)]
          /\ left' = IF left = {e} THEN scr[c].es ELSE left \ {e}
          /\ scr' = [scr EXCEPT ![c].at = IF left = {e} THEN "churn" ELSE @]
    BY DEF ScrapeWrite
  <1>3. scr[c] \in ScrState /\ e \in Readers /\ draft \in Text
    BY <1>0 DEF ScrapeTypeOK, ScrState, Text
  <1>4. /\ scr' \in [Scraper -> ScrState]
        /\ scr'[c].at = IF left = {e} THEN "churn" ELSE "write"
        /\ scr'[c].es = scr[c].es /\ scr'[c].missed = scr[c].missed
        /\ \A d \in Scraper : d # c => scr'[d] = scr[d]
    BY <1>0, <1>1, <1>2, <1>3 DEF ScrapeTypeOK, ScrState
  <1>5. /\ draft'.es = draft.es \cup {e} /\ draft'.late = draft.late
        /\ draft'.pre = (draft.pre \/ e.inst \in OldData(c)) /\ draft' \in Text
    BY <1>2, <1>3 DEF Text
  <1>6. \A d \in Scraper : (Holder(d) <=> d = c) /\ (Holder(d)' <=> d = c)
    BY <1>0, <1>1, <1>4 DEF Holder, MutexInv
  <1>7. ~ Unlocked'
    BY <1>4 DEF Unlocked
  <1>8. getEstimators' = getEstimators /\ (Swapping' <=> Swapping)
    BY <1>1, SameEstimators
  <1>9. ScrapeTypeOK'
    <2>1. left' \subseteq Readers
      BY <1>0, <1>2, <1>3 DEF ScrapeTypeOK, ScrState
    <2> QED BY <1>0, <1>1, <1>4, <1>5, <2>1 DEF ScrapeTypeOK, ScrState, Text
  <1>10. MutexInv'
    BY <1>6, <1>7 DEF MutexInv
  <1>11. WriterInv'
    <2>1. draft.es \cup left = scr[c].es
      BY <1>0, <1>1, <1>6 DEF WriterInv
    <2>2. CASE left = {e}
      BY <1>0, <1>1, <1>2, <1>4, <1>5, <1>6, <1>8, <2>1, <2>2 DEF WriterInv
    <2>3. CASE left # {e}
      BY <1>0, <1>1, <1>2, <1>4, <1>5, <1>6, <1>8, <2>1, <2>3 DEF WriterInv
    <2> QED BY <2>2, <2>3
  <1>12. CacheIsCurrent'
    BY <1>0, <1>1, <1>8 DEF CacheIsCurrent
  <1>13. ResetInv'
    <2>1. rst = "idle" /\ ~ draft.late => OldData(c) = {}
      BY <1>0, <1>6 DEF ResetInv, OldData
    <2> QED BY <1>0, <1>1, <1>4, <1>5, <1>6, <2>1 DEF ResetInv, ResetReachesCache
  <1>14. ChurnInv'
    BY <1>0, <1>1, <1>8, ChurnSame
  <1>15. MissedInv'
    BY <1>0, <1>1, <1>4, MissedSame DEF reloadVars
  <1> QED BY <1>9, <1>10, <1>11, <1>12, <1>13, <1>14, <1>15 DEF CacheInv

\* An updated churn entry: the new sketch is that of a late scrape or of an active
\* estimator, unless the reload under way drops the entry anyway.
LEMMA ChurnUpdated ==
  ASSUME ScrapeInv, NEW c \in Scraper, scr[c].at = "churn", NEW e \in left,
         NEW entry \in ChurnUpdates(e.id, SketchOf(c, e)), churn' = SetEntry(e.id, entry),
         UNCHANGED <<reloadVars, gone, rst, cache>>
  PROVE  ChurnInv' /\ (rst = "idle" => ResetReachesCache')
  <1>1. getEstimators' = getEstimators /\ (Swapping' <=> Swapping)
    BY SameEstimators
  <1>2. \A id : LiveSketch(id)' = LiveSketch(id)
    BY <1>1 DEF LiveSketch
  <1>3. DOMAIN churn' = DOMAIN churn \cup {e.id}
        /\ churn'[e.id] = entry
        /\ \A id \in DOMAIN churn : id # e.id => churn'[id] = churn[id]
    BY DEF SetEntry
  <1>4. e.id \in gone \/ SketchOf(c, e) \in LateSketch \cup LiveSketch(e.id)
    <2>1. left \subseteq scr[c].es /\ (~ draft.late => e.id \in gone \/ e \in getEstimators)
      BY DEF ScrapeInv, CacheInv, WriterInv, Holder
    <2>2. draft.late \in BOOLEAN
      BY DEF ScrapeInv, CacheInv, ScrapeTypeOK
    <2>3. CASE draft.late
      <3>1. draft.late = TRUE
        BY <2>2, <2>3
      <3> DEFINE b == e.inst \in OldData(c)
      <3>2. b \in BOOLEAN
        OBVIOUS
      <3>3. SketchOf(c, e) = [inst |-> -1, late |-> TRUE, pre |-> b]
        BY <3>1 DEF SketchOf
      <3> HIDE DEF b
      <3> QED BY <3>2, <3>3 DEF LateSketch
    <2>4. CASE ~ draft.late
      <3>1. draft.late = FALSE
        BY <2>2, <2>4
      <3> DEFINE b == e.inst \in OldData(c)
      <3>2. b \in BOOLEAN
        OBVIOUS
      <3>3. SketchOf(c, e) = [inst |-> e.inst, late |-> FALSE, pre |-> b]
        BY <3>1 DEF SketchOf
      <3> HIDE DEF b
      <3> QED BY <2>1, <2>4, <3>2, <3>3 DEF LiveSketch
    <2> QED BY <2>3, <2>4
  <1>5. entry.curr = SketchOf(c, e) /\ entry.prev \in
          IF e.id \in DOMAIN churn THEN {churn[e.id].prev, churn[e.id].curr} ELSE {NoSketch}
    BY DEF ChurnUpdates
  <1>6. ASSUME NEW id \in DOMAIN churn' \ gone'
        PROVE  /\ churn'[id].prev \in {NoSketch} \cup LateSketch \cup LiveSketch(id)
               /\ churn'[id].curr \in LateSketch \cup LiveSketch(id)
    <2>1. CASE id # e.id
      BY <1>3, <2>1 DEF ScrapeInv, CacheInv, ChurnInv
    <2>2. CASE id = e.id
      <3>1. entry.curr \in LateSketch \cup LiveSketch(id)
        BY <1>4, <1>5, <2>2
      <3>2. id \in DOMAIN churn => /\ churn[id].prev \in {NoSketch} \cup LateSketch \cup LiveSketch(id)
                                   /\ churn[id].curr \in LateSketch \cup LiveSketch(id)
        BY DEF ScrapeInv, CacheInv, ChurnInv
      <3> QED BY <1>3, <1>5, <2>2, <3>1, <3>2
    <2> QED BY <2>1, <2>2
  <1>7. ASSUME rst = "idle" PROVE ResetReachesCache'
    <2>1. ResetInv /\ Holder(c) /\ ResetReachesCache
      BY <1>7 DEF ScrapeInv, CacheInv, ResetInv, Holder
    <2>2. SketchOf(c, e).pre => SketchOf(c, e).late
      BY <1>7, <2>1 DEF ResetInv, SketchOf, OldData
    <2>3. entry.curr.pre => entry.curr.late
      BY <1>5, <2>2
    <2>4. entry.prev.pre => entry.prev.late
      BY <1>5, <1>7, <2>1 DEF ResetReachesCache, NoSketch
    <2> QED BY <1>3, <1>7, <2>1, <2>3, <2>4 DEF ResetReachesCache
  <1>8. ChurnInv'
    BY <1>1, <1>2, <1>6 DEF ScrapeInv, CacheInv, ChurnInv
  <1> QED BY <1>7, <1>8

\* A scrape updates the churn entry of an estimator it loaded.
LEMMA ScrapeChurns ==
  ASSUME ScrapeInv, NEW c \in Scraper, ScrapeChurn(c)
  PROVE  CacheInv'
  <1>0. ScrapeTypeOK /\ MutexInv /\ WriterInv /\ CacheIsCurrent /\ ChurnInv
        /\ MissedInv /\ ResetInv
    BY DEF ScrapeInv, CacheInv
  <1>1. scr[c].at = "churn" /\ UNCHANGED <<reloadVars, draft, cache, valid, gone, rst, resetting>>
    BY DEF ScrapeChurn
  <1>2. PICK e \in left :
          /\ IF e.id \in ChurnIDs
             THEN \E entry \in ChurnUpdates(e.id, SketchOf(c, e)) : churn' = SetEntry(e.id, entry)
             ELSE UNCHANGED churn
          /\ left' = left \ {e}
          /\ scr' = [scr EXCEPT ![c].at = IF left = {e} THEN "fetch" ELSE @]
    BY DEF ScrapeChurn
  <1>3. scr[c] \in ScrState
    BY <1>0 DEF ScrapeTypeOK, ScrState
  <1>4. /\ scr' \in [Scraper -> ScrState]
        /\ scr'[c].at \in {"churn", "fetch"}
        /\ scr'[c].es = scr[c].es /\ scr'[c].missed = scr[c].missed
        /\ \A d \in Scraper : d # c => scr'[d] = scr[d]
    BY <1>0, <1>1, <1>2, <1>3 DEF ScrapeTypeOK, ScrState
  <1>5. \A d \in Scraper : (Holder(d) <=> d = c) /\ (Holder(d)' <=> d = c)
    BY <1>0, <1>1, <1>4 DEF Holder, MutexInv
  <1>6. ~ Unlocked'
    BY <1>4 DEF Unlocked
  <1>7. getEstimators' = getEstimators /\ (Swapping' <=> Swapping)
    BY <1>1, SameEstimators
  <1>8. MissedInv'
    BY <1>0, <1>1, <1>4, MissedSame DEF reloadVars
  <1>9. ScrapeTypeOK'
    BY <1>0, <1>1, <1>2, <1>4 DEF ScrapeTypeOK, ScrState
  <1>10. MutexInv'
    BY <1>5, <1>6 DEF MutexInv
  <1>11. WriterInv'
    BY <1>0, <1>1, <1>2, <1>4, <1>5, <1>7 DEF WriterInv
  <1>12. CacheIsCurrent'
    BY <1>0, <1>1, <1>7 DEF CacheIsCurrent
  <1>13. ChurnInv' /\ (rst = "idle" => ResetReachesCache')
    <2>1. CASE e.id \in ChurnIDs
      BY <1>1, <1>2, <2>1, ChurnUpdated
    <2>2. CASE e.id \notin ChurnIDs
      BY <1>0, <1>1, <1>2, <1>7, <2>2, ChurnSame DEF ResetInv, ResetReachesCache
    <2> QED BY <2>1, <2>2
  <1>14. ResetInv'
    BY <1>0, <1>1, <1>4, <1>5, <1>13 DEF ResetInv
  <1> QED BY <1>8, <1>9, <1>10, <1>11, <1>12, <1>13, <1>14 DEF CacheInv

\* Dropping churn entries leaves the others as they are.
LEMMA ChurnDropped ==
  ASSUME ScrapeInv, NEW old, churn' = [id \in DOMAIN churn \ old |-> churn[id]],
         UNCHANGED <<gone, getEstimators>>, Swapping' <=> Swapping
  PROVE  ChurnInv'
  <1>1. \A id : LiveSketch(id)' = LiveSketch(id)
    BY DEF LiveSketch
  <1>2. DOMAIN churn' = DOMAIN churn \ old /\ \A id \in DOMAIN churn' : churn'[id] = churn[id]
    OBVIOUS
  <1> QED BY <1>1, <1>2 DEF ScrapeInv, CacheInv, ChurnInv

\* The text that is cached has all estimators the scrape had loaded.
LEMMA ScrapeEnds ==
  ASSUME ScrapeInv, NEW c \in Scraper, ScrapeStore(c) \/ NodesAnswer(c)
  PROVE  CacheInv'
  <1>0. ScrapeTypeOK /\ MutexInv /\ WriterInv /\ CacheIsCurrent /\ ChurnInv
        /\ MissedInv /\ ResetInv
    BY DEF ScrapeInv, CacheInv
  <1>1. scr[c].at \in {"fetch", "store"} /\ UNCHANGED <<reloadVars, left, gone, rst, resetting>>
    BY DEF ScrapeStore, NodesAnswer
  <1>2. getEstimators' = getEstimators /\ (Swapping' <=> Swapping)
    BY <1>1, SameEstimators
  <1>3. scr[c] \in ScrState
    BY <1>0 DEF ScrapeTypeOK, ScrState
  <1>4. \A d \in Scraper : Holder(d) <=> d = c
    BY <1>0, <1>1 DEF Holder, MutexInv
  <1>5. CASE NodesAnswer(c)
    <2>1. scr' = [scr EXCEPT ![c].at = "store"] /\ UNCHANGED <<draft, cache, valid, churn>>
      BY <1>5 DEF NodesAnswer
    <2>2. /\ scr' \in [Scraper -> ScrState]
          /\ scr'[c].at = "store"
          /\ scr'[c].es = scr[c].es /\ scr'[c].missed = scr[c].missed
          /\ \A d \in Scraper : d # c => scr'[d] = scr[d]
      BY <1>0, <1>3, <2>1 DEF ScrapeTypeOK, ScrState
    <2>3. \A d \in Scraper : Holder(d)' <=> d = c
      BY <1>4, <2>2 DEF Holder
    <2>4. ~ Unlocked'
      BY <2>2 DEF Unlocked
    <2>5. ScrapeTypeOK'
      BY <1>0, <1>1, <2>1, <2>2 DEF ScrapeTypeOK, ScrState
    <2>6. MutexInv'
      BY <2>3, <2>4 DEF MutexInv
    <2>7. WriterInv'
      BY <1>0, <1>1, <1>2, <1>4, <2>1, <2>2, <2>3 DEF WriterInv
    <2>8. CacheIsCurrent'
      BY <1>0, <1>1, <1>2, <2>1 DEF CacheIsCurrent
    <2>9. ChurnInv'
      BY <1>0, <1>1, <1>2, <2>1, ChurnSame
    <2>10. MissedInv'
      BY <1>0, <1>1, <2>2, MissedSame DEF reloadVars
    <2>11. ResetInv'
      BY <1>0, <1>1, <1>4, <2>1, <2>2, <2>3 DEF ResetInv, ResetReachesCache
    <2> QED BY <2>5, <2>6, <2>7, <2>8, <2>9, <2>10, <2>11 DEF CacheInv
  <1>6. CASE ScrapeStore(c)
    <2>1. /\ cache' = draft /\ valid' = TRUE /\ draft' = NoText
          /\ scr' = [scr EXCEPT ![c] = Waiting] /\ scr[c].at = "store"
      BY <1>6 DEF ScrapeStore
    <2>2. Waiting \in ScrState /\ Waiting.at = "idle" /\ Waiting.es = {} /\ Waiting.missed = {}
      BY DEF Waiting, ScrState
    <2>3. scr' \in [Scraper -> ScrState] /\ scr'[c].at = "idle"
          /\ scr'[c].es = {} /\ scr'[c].missed = {}
          /\ \A d \in Scraper : d # c => scr'[d] = scr[d]
      BY <1>0, <2>1, <2>2 DEF ScrapeTypeOK, ScrState
    <2>4. \A d \in Scraper : ~ Holder(d)'
      BY <1>4, <2>3 DEF Holder
    <2>5. NoText \in Text /\ NoText.pre = FALSE
      BY DEF NoText, Text
    <2>6. ScrapeTypeOK'
      BY <1>0, <1>1, <2>1, <2>3, <2>5 DEF ScrapeTypeOK, ScrState, Text
    <2>7. MutexInv' /\ WriterInv'
      BY <2>1, <2>4 DEF MutexInv, WriterInv
    <2>8. CacheIsCurrent'
      BY <1>0, <1>1, <1>2, <1>4, <2>1 DEF CacheIsCurrent, WriterInv
    <2>9. PICK old : churn' = [id \in DOMAIN churn \ old |-> churn[id]]
      BY <1>6 DEF ScrapeStore
    <2>10. ChurnInv'
      BY <1>1, <1>2, <2>9, ChurnDropped
    <2>11. MissedInv'
      BY <1>0, <1>1, <2>3, MissedSame DEF reloadVars
    <2>12. ResetInv'
      BY <1>0, <1>1, <2>1, <2>4, <2>5, <2>9 DEF ResetInv, ResetReachesCache
    <2> QED BY <2>6, <2>7, <2>8, <2>10, <2>11, <2>12 DEF CacheInv
  <1> QED BY <1>5, <1>6

-----------------------------------------------------------------------------
(* Expiry and /reset *)

\* An expired cache shows nothing.
LEMMA ExpireInv ==
  ASSUME ScrapeInv, Expire
  PROVE  CacheInv'
  <1>0. ScrapeTypeOK /\ MutexInv /\ WriterInv /\ CacheIsCurrent /\ ChurnInv
        /\ MissedInv /\ ResetInv
    BY DEF ScrapeInv, CacheInv
  <1>1. UNCHANGED <<reloadVars, scr, left, draft, churn, gone, rst, resetting>>
        /\ valid' = FALSE /\ cache' = NoText
    BY DEF Expire
  <1>2. getEstimators' = getEstimators /\ (Swapping' <=> Swapping)
    BY <1>1, SameEstimators
  <1>3. NoText \in Text /\ NoText.pre = FALSE
    BY DEF NoText, Text
  <1>4. ScrapeTypeOK'
    BY <1>0, <1>1, <1>3 DEF ScrapeTypeOK, Text
  <1>5. MutexInv' /\ WriterInv'
    BY <1>0, <1>1, <1>2 DEF MutexInv, WriterInv, Holder, Unlocked
  <1>6. CacheIsCurrent' /\ ResetInv'
    BY <1>0, <1>1, <1>3 DEF CacheIsCurrent, ResetInv, ResetReachesCache, Holder
  <1>7. ChurnInv'
    BY <1>0, <1>1, <1>2, ChurnSame
  <1>8. MissedInv'
    BY <1>0, <1>1, MissedSame DEF reloadVars
  <1> QED BY <1>4, <1>5, <1>6, <1>7, <1>8 DEF CacheInv

\* /reset takes note of the estimators and of the churn entries there are.
LEMMA ResetStartInv ==
  ASSUME ScrapeInv, ResetStart
  PROVE  CacheInv'
  <1>0. ScrapeTypeOK /\ MutexInv /\ WriterInv /\ CacheIsCurrent /\ ChurnInv
        /\ MissedInv /\ ResetInv
    BY DEF ScrapeInv, CacheInv
  <1>1. /\ UNCHANGED <<reloadVars, left, valid, gone>>
        /\ rst' = "reset" /\ resetting' = estimators
        /\ scr' = [c \in Scraper |-> [scr[c] EXCEPT !.missed = InstOf(scr[c].es) \ estimators]]
        /\ draft' = [draft EXCEPT !.pre = (~ Unlocked)]
        /\ cache' = [cache EXCEPT !.pre = valid]
    BY DEF ResetStart
  <1>2. getEstimators' = getEstimators /\ (Swapping' <=> Swapping)
    BY <1>1, SameEstimators
  <1>3. draft \in Text /\ cache \in Text /\ valid \in BOOLEAN
    BY <1>0 DEF ScrapeTypeOK, Text
  <1>4. /\ draft' \in Text /\ draft'.es = draft.es /\ draft'.late = draft.late
        /\ cache' \in Text /\ cache'.es = cache.es /\ cache'.late = cache.late
    BY <1>1, <1>3 DEF Text, Unlocked
  <1>5. Unlocked => draft' = NoText
    <2> SUFFICES ASSUME Unlocked PROVE draft' = NoText
      OBVIOUS
    <2>1. draft = NoText
      BY <1>0 DEF MutexInv
    <2>2. (~ Unlocked) = FALSE
      OBVIOUS
    <2>3. draft' = [NoText EXCEPT !.pre = FALSE]
      BY <1>1, <2>1, <2>2, Zenon
    <2> QED BY <2>3 DEF NoText
  <1>6. /\ scr' \in [Scraper -> ScrState]
        /\ \A c \in Scraper : /\ scr'[c].at = scr[c].at /\ scr'[c].es = scr[c].es
                              /\ scr'[c].missed = InstOf(scr[c].es) \ estimators
    <2>1. \A c \in Scraper : scr[c] \in ScrState /\ InstOf(scr[c].es) \subseteq Inst
      BY <1>0 DEF ScrapeTypeOK, ScrState, InstOf, Readers
    <2> QED BY <1>1, <2>1 DEF ScrState
  <1>7. ScrapeTypeOK'
    <2>1. estimators \subseteq Inst
      BY DEF ScrapeInv, ReloadInv, ReloadTypeOK
    <2> QED BY <1>0, <1>1, <1>4, <1>6, <2>1 DEF ScrapeTypeOK, ScrState, Text
  <1>8. MutexInv'
    BY <1>0, <1>5, <1>6 DEF MutexInv, Holder, Unlocked
  <1>9. WriterInv'
    BY <1>0, <1>1, <1>2, <1>4, <1>6 DEF WriterInv, Holder
  <1>10. CacheIsCurrent' /\ ResetInv'
    BY <1>0, <1>1, <1>2, <1>4 DEF CacheIsCurrent, ResetInv
  <1>11. MissedInv'
    <2>1. UNCHANGED <<estimators, created, pc>>
      BY <1>1 DEF reloadVars
    <2> QED BY <1>0, <1>6, <2>1 DEF MissedInv, InstOf
  <1>12. ChurnInv'
    <2>1. DOMAIN churn' = DOMAIN churn
          /\ \A id \in DOMAIN churn : churn'[id] = [prev |-> BeforeReset(churn[id].prev),
                                                    curr |-> BeforeReset(churn[id].curr)]
      BY DEF ResetStart
    <2>2. \A id : LiveSketch(id)' = LiveSketch(id)
      BY <1>2 DEF LiveSketch
    <2>3. BeforeReset(NoSketch) = NoSketch
      <3>1. (NoSketch # NoSketch) = FALSE
        OBVIOUS
      <3>2. BeforeReset(NoSketch) = [NoSketch EXCEPT !.pre = FALSE]
        BY <3>1, Zenon DEF BeforeReset
      <3> QED BY <3>2 DEF NoSketch
    <2>4. \A id : \A sk \in LateSketch \cup LiveSketch(id) :
            BeforeReset(sk) \in LateSketch \cup LiveSketch(id)
      <3> SUFFICES ASSUME NEW id, NEW sk \in LateSketch \cup LiveSketch(id)
                   PROVE  BeforeReset(sk) \in LateSketch \cup LiveSketch(id)
        OBVIOUS
      <3> DEFINE b == (sk # NoSketch)
      <3>1. b \in BOOLEAN
        OBVIOUS
      <3>2. BeforeReset(sk) = [sk EXCEPT !.pre = b]
        BY DEF BeforeReset
      <3> HIDE DEF b
      <3> QED BY <3>1, <3>2 DEF LateSketch, LiveSketch
    <2> QED BY <1>0, <1>1, <1>2, <2>1, <2>2, <2>3, <2>4 DEF ChurnInv
  <1> QED BY <1>7, <1>8, <1>9, <1>10, <1>11, <1>12 DEF CacheInv

\* /reset empties an estimator; what was read of it before is old from now on.
LEMMA ResetOneInv ==
  ASSUME ScrapeInv, NEW i \in Inst, ResetOne(i)
  PROVE  CacheInv'
  <1>0. ScrapeTypeOK /\ MutexInv /\ WriterInv /\ CacheIsCurrent /\ ChurnInv
        /\ MissedInv /\ ResetInv
    BY DEF ScrapeInv, CacheInv
  <1>1. UNCHANGED <<reloadVars, scr, left, draft, cache, valid, churn, gone, rst>>
        /\ resetting' = resetting \ {i}
    BY DEF ResetOne
  <1>2. getEstimators' = getEstimators /\ (Swapping' <=> Swapping)
    BY <1>1, SameEstimators
  <1>3. ScrapeTypeOK' /\ MutexInv'
    BY <1>0, <1>1 DEF ScrapeTypeOK, MutexInv, Holder, Unlocked
  <1>4. WriterInv' /\ CacheIsCurrent' /\ ResetInv'
    BY <1>0, <1>1, <1>2 DEF WriterInv, Holder, CacheIsCurrent, ResetInv, ResetReachesCache
  <1>5. ChurnInv'
    BY <1>0, <1>1, <1>2, ChurnSame
  <1>6. MissedInv'
    BY <1>0, <1>1, MissedSame DEF reloadVars
  <1> QED BY <1>3, <1>4, <1>5, <1>6 DEF CacheInv

\* /reset ends by dropping the cache and all churn entries under the mutex.
LEMMA ResetDoneInv ==
  ASSUME ScrapeInv, ResetDone
  PROVE  CacheInv'
  <1>0. ScrapeTypeOK /\ MutexInv /\ WriterInv /\ CacheIsCurrent /\ ChurnInv
        /\ MissedInv /\ ResetInv
    BY DEF ScrapeInv, CacheInv
  <1>1. /\ UNCHANGED <<reloadVars, scr, left, draft, gone, resetting>>
        /\ rst' = "idle" /\ valid' = FALSE /\ cache' = NoText
        /\ resetting = {} /\ Unlocked /\ churn' = [id \in {} |-> NoSketch]
    BY DEF ResetDone
  <1>2. getEstimators' = getEstimators /\ (Swapping' <=> Swapping)
    BY <1>1, SameEstimators
  <1>3. NoText \in Text /\ NoText.pre = FALSE
    BY DEF NoText, Text
  <1>4. ScrapeTypeOK'
    BY <1>0, <1>1, <1>3 DEF ScrapeTypeOK, Text
  <1>5. MutexInv' /\ WriterInv'
    BY <1>0, <1>1, <1>2 DEF MutexInv, WriterInv, Holder, Unlocked
  <1>6. CacheIsCurrent' /\ ResetInv'
    <2>1. \A c \in Scraper : ~ Holder(c)'
      BY <1>1 DEF Holder, Unlocked
    <2> QED BY <1>0, <1>1, <1>3, <2>1 DEF CacheIsCurrent, ResetInv, ResetReachesCache, MutexInv
  <1>7. ChurnInv'
    BY <1>0, <1>1, <1>2 DEF ChurnInv
  <1>8. MissedInv'
    BY <1>0, <1>1, MissedSame DEF reloadVars
  <1> QED BY <1>4, <1>5, <1>6, <1>7, <1>8 DEF CacheInv

-----------------------------------------------------------------------------
(* Reloads *)

\* An instance that a load under way creates is none that a scrape refers to.
LEMMA BuildUnreferenced ==
  ASSUME ScrapeInv, Ask \/ OtherReload \/ UNCHANGED scrapeCacheVars
  PROVE  /\ UNCHANGED estimators
         /\ \A c \in Scraper : pc' \in {"build", "store"} => created' \cap InstOf(scr[c].es) = {}
  <1> DEFINE free == {i \in Inst : Unreferenced # {} /\ i = CHOOSE j \in Unreferenced : TRUE}
  <1>1. free \in SUBSET Unreferenced
    OBVIOUS
  <1>2. UNCHANGED estimators
    <2>1. free \in SUBSET FreeInst
      BY <1>1 DEF Unreferenced
    <2>2. CASE UNCHANGED scrapeCacheVars
      BY <2>2 DEF scrapeCacheVars, reloadVars
    <2>3. CASE Ask \/ OtherReload
      <3>1. ReloadStep(free) \/ EditFile \/ Wake \/ DedupDone
        BY <2>3 DEF Ask, OtherReload
      <3>2. ~ Store /\ ~ LoadDone
        BY <2>3 DEF Ask, OtherReload, Store, LoadDone, EditFile, Wake
      <3> HIDE DEF free
      <3> QED BY <2>1, <3>1, <3>2, OnlyStoreSwaps
    <2> QED BY <2>2, <2>3
  <1>3. ASSUME NEW c \in Scraper, pc' \in {"build", "store"}
        PROVE  created' \cap InstOf(scr[c].es) = {}
    <2>1. pc \in {"build", "store"} => created \cap InstOf(scr[c].es) = {}
      BY DEF ScrapeInv, CacheInv, MissedInv
    <2>2. free \cap InstOf(scr[c].es) = {}
      BY <1>1 DEF Unreferenced
    <2> HIDE DEF free
    <2>3. CASE UNCHANGED <<pc, created>>
      BY <1>3, <2>1, <2>3
    <2>4. CASE ReloadStep(free)
      BY <1>3, <2>1, <2>2, <2>4 DEF ReloadStep, ReadError, ReadUnchanged, ReadChanged,
         BuildReuse, BuildFail, BuildCreate, BuildNothing, EnableFingerprints, Store,
         StopRemoved, LoadDone, LoadReturn, loadVars
    <2>5. CASE EditFile \/ Wake \/ DedupDone
      BY <1>3, <2>1, <2>5 DEF EditFile, Wake, DedupDone, loadVars
    <2>6. Ask \/ OtherReload => ReloadStep(free) \/ EditFile \/ Wake \/ DedupDone
      BY DEF Ask, OtherReload, free
    <2>7. UNCHANGED scrapeCacheVars => UNCHANGED <<pc, created>>
      BY DEF scrapeCacheVars, reloadVars
    <2> QED BY <2>3, <2>4, <2>5, <2>6, <2>7
  <1> QED BY <1>2, <1>3

\* Steps of a reload that leave the active estimators and the cache alone.
LEMMA OtherReloadInv ==
  ASSUME ScrapeInv, Ask \/ OtherReload \/ UNCHANGED scrapeCacheVars
  PROVE  CacheInv'
  <1>0. ScrapeTypeOK /\ MutexInv /\ WriterInv /\ CacheIsCurrent /\ ChurnInv
        /\ MissedInv /\ ResetInv
    BY DEF ScrapeInv, CacheInv
  <1>1. UNCHANGED <<scr, left, draft, cache, valid, churn, gone, rst, resetting>>
    BY DEF Ask, OtherReload, scrapeCacheVars, scrapeVars
  <1>2. getEstimators' = getEstimators /\ (Swapping' <=> Swapping)
    BY ReloadSeen, SameEstimators DEF ScrapeInv, scrapeCacheVars
  <1>3. ScrapeTypeOK' /\ MutexInv'
    BY <1>0, <1>1 DEF ScrapeTypeOK, MutexInv, Holder, Unlocked
  <1>4. WriterInv' /\ CacheIsCurrent' /\ ResetInv'
    BY <1>0, <1>1, <1>2 DEF WriterInv, Holder, CacheIsCurrent, ResetInv, ResetReachesCache
  <1>5. ChurnInv'
    BY <1>0, <1>1, <1>2, ChurnSame
  <1>6. MissedInv'
    BY <1>0, <1>1, BuildUnreferenced DEF MissedInv
  <1> QED BY <1>3, <1>4, <1>5, <1>6 DEF CacheInv

\* An estimator that is active before the swap is active after it, unless its id is
\* among those of the removed ones.
LEMMA SwapKeepsReaders ==
  ASSUME ScrapeInv, StoreNoted, NEW e \in getEstimators
  PROVE  e.id \in gone' \/ e \in getEstimators'
  <1>1. PICK i \in estimators : e = Reader(i)
    BY DEF getEstimators
  <1>2. /\ pc = "store" /\ estimators' = es /\ UNCHANGED cfgOf
        /\ gone' = {cfgOf[j].id : j \in removed}
    BY DEF StoreNoted, Store
  <1>3. estimators = (es \ created) \cup removed
    BY <1>2 DEF ScrapeInv, ReloadInv, BuildInv
  <1>4. CASE i \in removed
    BY <1>1, <1>2, <1>4 DEF Reader
  <1>5. CASE i \in es
    BY <1>1, <1>2, <1>5 DEF Reader, getEstimators
  <1> QED BY <1>3, <1>4, <1>5

\* The swap makes the text of a scrape under way a late one.
LEMMA StoreNotedInv ==
  ASSUME ScrapeInv, StoreNoted
  PROVE  CacheInv'
  <1>0. ScrapeTypeOK /\ MutexInv /\ WriterInv /\ CacheIsCurrent /\ ChurnInv
        /\ MissedInv /\ ResetInv
    BY DEF ScrapeInv, CacheInv
  <1>1. UNCHANGED <<scr, left, draft, cache, valid, churn, rst, resetting>>
    BY DEF StoreNoted
  <1>2. ~ Swapping /\ Swapping'
    BY DEF Swapping, StoreNoted, Store
  <1>3. gone = {}
    BY <1>0, <1>2 DEF ChurnInv
  <1>4. \A e \in getEstimators : e.id \in gone' \/ e \in getEstimators'
    BY SwapKeepsReaders
  <1>5. ScrapeTypeOK' /\ MutexInv'
    BY <1>0, <1>1 DEF ScrapeTypeOK, MutexInv, Holder, Unlocked
  <1>6. WriterInv'
    BY <1>0, <1>1, <1>2, <1>4 DEF WriterInv, Holder
  <1>7. CacheIsCurrent' /\ ResetInv'
    BY <1>0, <1>1, <1>2 DEF CacheIsCurrent, ResetInv, ResetReachesCache, Holder
  <1>8. ChurnInv'
    <2>1. \A id : id \notin gone' => LiveSketch(id) \subseteq LiveSketch(id)'
      BY <1>4 DEF LiveSketch
    <2> QED BY <1>0, <1>1, <1>2, <1>3, <2>1 DEF ChurnInv
  <1>9. MissedInv'
    <2>1. pc = "store" /\ pc' \in {"dedup", "stop"} /\ estimators' = es
      BY DEF StoreNoted, Store
    <2>2. estimators = (es \ created) \cup removed
      BY <2>1 DEF ScrapeInv, ReloadInv, BuildInv
    <2> QED BY <1>0, <1>1, <2>1, <2>2 DEF MissedInv
  <1> QED BY <1>5, <1>6, <1>7, <1>8, <1>9 DEF CacheInv

\* The last step of a reload needs the mutex: no text is being written, and the
\* entries that are left have sketches of active estimators.
LEMMA InvalidateInv ==
  ASSUME ScrapeInv, Invalidate
  PROVE  CacheInv'
  <1>0. ScrapeTypeOK /\ MutexInv /\ WriterInv /\ CacheIsCurrent /\ ChurnInv
        /\ MissedInv /\ ResetInv
    BY DEF ScrapeInv, CacheInv
  <1>1. /\ UNCHANGED <<scr, left, draft, rst, resetting>>
        /\ Unlocked /\ valid' = FALSE /\ cache' = NoText /\ gone' = {}
        /\ churn' = [id \in DOMAIN churn \ gone |-> churn[id]]
    BY DEF Invalidate
  <1>2. UNCHANGED <<estimators, cfgOf>>
    BY DEF Invalidate, LoadDone
  <1>3. getEstimators' = getEstimators
    BY <1>2 DEF getEstimators, Reader
  <1>4. NoText \in Text /\ NoText.pre = FALSE
    BY DEF NoText, Text
  <1>5. ScrapeTypeOK'
    BY <1>0, <1>1, <1>4 DEF ScrapeTypeOK, Text
  <1>6. MutexInv' /\ WriterInv'
    BY <1>0, <1>1 DEF MutexInv, WriterInv, Holder, Unlocked
  <1>7. CacheIsCurrent' /\ ResetInv'
    BY <1>0, <1>1, <1>4 DEF CacheIsCurrent, ResetInv, ResetReachesCache, Holder
  <1>8. ChurnInv'
    <2>1. \A id : LiveSketch(id)' = LiveSketch(id)
      BY <1>3 DEF LiveSketch
    <2>2. DOMAIN churn' = DOMAIN churn \ gone /\ \A id \in DOMAIN churn' : churn'[id] = churn[id]
      BY <1>1
    <2> QED BY <1>0, <1>1, <2>1, <2>2 DEF ChurnInv
  <1>9. MissedInv'
    <2>1. pc' = "idle"
      BY DEF Invalidate, LoadDone, LoadReturn
    <2> QED BY <1>0, <1>1, <1>2, <2>1 DEF MissedInv
  <1> QED BY <1>5, <1>6, <1>7, <1>8, <1>9 DEF CacheInv

-----------------------------------------------------------------------------
(* What follows *)

\* The inductive invariant holds in every reachable state.
THEOREM ScrapeInvariant == ScrapeSpec => []ScrapeInv
  <1>1. ScrapeInv /\ [ScrapeNext]_scrapeCacheVars => ScrapeInv'
    <2> SUFFICES ASSUME ScrapeInv, [ScrapeNext]_scrapeCacheVars PROVE ScrapeInv'
      OBVIOUS
    <2>1. ReloadInv' /\ main' = "serving"
      BY ScrapeReload
    <2>2. CacheInv'
      BY ScrapeWaits, ScrapeTakes, ScrapeWrites, ScrapeChurns, ScrapeEnds, ExpireInv,
         ResetStartInv, ResetOneInv, ResetDoneInv, OtherReloadInv, StoreNotedInv,
         InvalidateInv DEF ScrapeNext, ScrapeStep
    <2> QED BY <2>1, <2>2 DEF ScrapeInv
  <1> QED BY <1>1, ScrapeInitInv, PTL DEF ScrapeSpec

\* A cached text shows exactly the active estimators, outside a swap and unless its
\* scrape was late.
THEOREM CacheCurrent == ScrapeSpec => []CacheIsCurrent
  <1>1. ScrapeInv => CacheIsCurrent
    BY DEF ScrapeInv, CacheInv
  <1> QED BY <1>1, ScrapeInvariant, PTL

\* Entries of live sketches are of one estimator each.
LEMMA ChurnFromInv == ScrapeInv => ChurnOfOneEstimator
  <1> SUFFICES ASSUME ScrapeInv, NEW id \in DOMAIN churn,
                      ~ churn[id].prev.late, ~ churn[id].curr.late, ~ Swapping
               PROVE  /\ [inst |-> churn[id].curr.inst, id |-> id] \in getEstimators
                      /\ churn[id].prev.inst \in {NoSketch.inst, churn[id].curr.inst}
    BY DEF ChurnOfOneEstimator
  <1>1. /\ churn[id].prev \in {NoSketch} \cup LateSketch \cup LiveSketch(id)
        /\ churn[id].curr \in LateSketch \cup LiveSketch(id)
    BY DEF ScrapeInv, CacheInv, ChurnInv
  <1>2. churn[id].curr \in LiveSketch(id) /\ churn[id].prev \in {NoSketch} \cup LiveSketch(id)
    BY <1>1 DEF LateSketch
  <1>3. getEstimators \subseteq Readers
    BY ReadersType DEF ScrapeInv
  <1>4. PICK e \in getEstimators : e.id = id /\ churn[id].curr.inst = e.inst
    BY <1>2 DEF LiveSketch
  <1>5. [inst |-> churn[id].curr.inst, id |-> id] = e
    BY <1>3, <1>4 DEF Readers
  <1>6. ASSUME churn[id].prev \in LiveSketch(id) PROVE churn[id].prev.inst = churn[id].curr.inst
    <2>1. PICK f \in getEstimators : f.id = id /\ churn[id].prev.inst = f.inst
      BY <1>6 DEF LiveSketch
    <2>2. e = f
      BY <1>4, <2>1, ReadersDiffer DEF ScrapeInv
    <2> QED BY <1>4, <2>1, <2>2
  <1> QED BY <1>2, <1>4, <1>5, <1>6

\* Churn never compares the sketches of two estimators of one stream's id.
THEOREM ChurnComparesOne == ScrapeSpec => []ChurnOfOneEstimator
  BY ChurnFromInv, ScrapeInvariant, PTL

\* After /reset neither the cache nor churn has data from before it, unless a scrape
\* wrote it that had loaded its estimators before they were replaced.
THEOREM ResetIsComplete == ScrapeSpec => []ResetReachesCache
  <1>1. ScrapeInv => ResetReachesCache
    BY DEF ScrapeInv, CacheInv, ResetInv, ResetReachesCache
  <1> QED BY <1>1, ScrapeInvariant, PTL
=============================================================================
