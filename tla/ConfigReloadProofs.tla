-------------------------- MODULE ConfigReloadProofs --------------------------
(***************************************************************************)
(* Proofs about ConfigReload for any set of file contents, any number of   *)
(* streams per file and any finite set of instances.  The inductive        *)
(* invariant is ReloadInv.  That the steps preserve it is                  *)
(* stated action by action, so that the modules that compose ConfigReload  *)
(* with other components can use it.                                       *)
(***************************************************************************)
EXTENDS ConfigReload, FiniteSetTheorems, TLAPS

-----------------------------------------------------------------------------
(* The inductive invariant *)

\* The instances of S have the settings of streams, each those of another one.
OnePerStream(S, streams) ==
  /\ SettingsOf(S) = streams
  /\ \A i, j \in S : cfgOf[i] = cfgOf[j] => i = j

\* While main serves, the active estimators are one per stream of the config that
\* was swapped in last, and nothing runs but they and what loadConfig created or
\* removed.
ServingInv ==
  main \in {"serving", "waitReloader"} =>
    /\ toStop = {}
    /\ running = estimators \cup created \cup removed
    /\ OnePerStream(estimators, IF pc \in {"dedup", "stop"} THEN newCfg.streams ELSE cfg.streams)

\* Before the swap every active estimator is reused or removed, a created one is
\* not active, and es has one estimator for each stream handled so far, whose
\* settings no removed estimator has.
BuildInv ==
  pc \in {"build", "store"} =>
    /\ estimators = (es \ created) \cup removed
    /\ created \cap estimators = {}
    /\ todo \subseteq newCfg.streams
    /\ pc = "store" => todo = {}
    /\ OnePerStream(es, newCfg.streams \ todo)
    /\ SettingsOf(es) \cap SettingsOf(removed) = {}

\* The configs were accepted by readConfig.  After the swap es is active; between
\* reloads loadConfig has no variables.
LoadInv ==
  /\ cfg.ok /\ newCfg.ok
  /\ pc \in {"dedup", "stop"} => estimators = es
  /\ pc \in {"idle", "read", "exited"} => es = {} /\ created = {} /\ removed = {}

\* main stops estimators only when the reloader has exited, and what it has not
\* stopped yet is all that runs.
ShutdownInv ==
  /\ pc = "exited" => main # "serving"
  /\ main \in {"stopEstimators", "returned"} => pc = "exited" /\ running = toStop
  /\ main = "returned" => toStop = {}

\* The conjunction that is inductive.
ReloadInv ==
  /\ ReloadTypeOK
  /\ ServingInv
  /\ BuildInv
  /\ LoadInv
  /\ ShutdownInv

-----------------------------------------------------------------------------
(* Facts about the operators *)

\* The streams of a file are streams.
LEMMA FileStreams == \A f \in Files : f.streams \subseteq Stream
  BY DEF Stream

\* The free instance that newEstimator takes is free.
LEMMA FreshIsFree == Fresh \subseteq FreeInst
  BY DEF Fresh

\* Instances that are one per stream are as many as the streams.
LEMMA OnePerStreamSize ==
  ASSUME NEW S \in SUBSET Inst, NEW streams, OnePerStream(S, streams)
  PROVE  Cardinality(S) = Cardinality(streams)
  <1> DEFINE f == [i \in S |-> cfgOf[i]]
  <1>1. IsFiniteSet(S)
    BY InstAssumption, FS_Subset
  <1>2. f \in Bijection(S, streams)
    <2>1. f \in [S -> streams]
      BY DEF OnePerStream, SettingsOf
    <2>2. \A i, j \in S : f[i] = f[j] => i = j
      BY DEF OnePerStream
    <2>3. \A s \in streams : \E i \in S : f[i] = s
      BY DEF OnePerStream, SettingsOf
    <2> QED BY <2>1, <2>2, <2>3 DEF Bijection, Injection, Surjection, IsInjective
  <1>3. ExistsBijection(S, streams)
    BY <1>2 DEF ExistsBijection
  <1> QED BY <1>1, <1>3, FS_Bijection

-----------------------------------------------------------------------------
(* ReloadInv is inductive *)

\* main starts one estimator for each stream of its config.
LEMMA StartEstimators ==
  ASSUME ReloadInit
  PROVE  estimators \subseteq Inst /\ OnePerStream(estimators, File0.streams)
  <1>1. estimators \in SUBSET Inst /\ Cardinality(estimators) = Cardinality(File0.streams)
    BY InstAssumption DEF ReloadInit
  <1>2. IsFiniteSet(estimators)
    BY <1>1, InstAssumption, FS_Subset
  <1>3. SettingsOf(estimators) = File0.streams
    BY DEF ReloadInit
  <1> DEFINE f == [i \in estimators |-> cfgOf[i]]
  <1>4. f \in Surjection(estimators, File0.streams)
    <2>1. f \in [estimators -> File0.streams]
      BY <1>3 DEF SettingsOf
    <2>2. \A s \in File0.streams : \E i \in estimators : f[i] = s
      BY <1>3 DEF SettingsOf
    <2> QED BY <2>1, <2>2 DEF Surjection
  <1>5. IsFiniteSet(File0.streams)
    BY FilesAssumption
  <1> HIDE DEF f
  <1>6. f \in Injection(estimators, File0.streams)
    BY <1>1, <1>2, <1>4, <1>5, FS_SurjSameCardinalityImpliesInj
  <1> USE DEF f
  <1>7. \A i, j \in estimators : cfgOf[i] = cfgOf[j] => i = j
    BY <1>6 DEF Injection, IsInjective
  <1> QED BY <1>1, <1>3, <1>7 DEF OnePerStream

\* A process that starts with an accepted file and its estimators.
LEMMA ReloadInitInv == ReloadInit => ReloadInv
  <1> SUFFICES ASSUME ReloadInit PROVE ReloadInv
    OBVIOUS
  <1>0. estimators \subseteq Inst /\ OnePerStream(estimators, File0.streams)
    BY StartEstimators
  <1>1. ReloadTypeOK
    <2>1. cfgOf \in [Inst -> Stream \cup {NoStream}]
      BY FilesAssumption, FileStreams DEF ReloadInit
    <2> QED BY <1>0, <2>1, FilesAssumption DEF ReloadInit, ReloadTypeOK
  <1>2. ServingInv
    BY <1>0 DEF ReloadInit, ServingInv
  <1>3. BuildInv /\ LoadInv /\ ShutdownInv
    BY FilesAssumption DEF ReloadInit, BuildInv, LoadInv, ShutdownInv
  <1> QED BY <1>1, <1>2, <1>3 DEF ReloadInv

\* ReloadInv speaks of nothing but the variables of ConfigReload.
LEMMA ReloadStutter ==
  ASSUME ReloadInv, UNCHANGED reloadVars
  PROVE  ReloadInv'
  BY DEF ReloadInv, ReloadTypeOK, ServingInv, BuildInv, LoadInv, ShutdownInv,
         OnePerStream, SettingsOf, reloadVars

\* The file, the signals and the reloader's select.
LEMMA EnvironmentInv ==
  ASSUME ReloadInv, EditFile \/ Sighup \/ Wake \/ ReloaderExit
  PROVE  ReloadInv'
  <1>1. ReloadTypeOK'
    BY DEF ReloadInv, ReloadTypeOK, EditFile, Sighup, Wake, ReloaderExit, envVars,
           loadVars, mainVars
  <1>2. ServingInv' /\ BuildInv'
    BY DEF ReloadInv, ServingInv, BuildInv, OnePerStream, SettingsOf, EditFile, Sighup,
           Wake, ReloaderExit, envVars, loadVars, mainVars
  <1>3. LoadInv' /\ ShutdownInv'
    BY DEF ReloadInv, LoadInv, ShutdownInv, EditFile, Sighup, Wake, ReloaderExit, envVars,
           loadVars, mainVars
  <1> QED BY <1>1, <1>2, <1>3 DEF ReloadInv

\* readConfig replaces newCfg and leaves everything that runs alone.
LEMMA ReadInv ==
  ASSUME ReloadInv, ReadError \/ ReadUnchanged \/ ReadChanged
  PROVE  ReloadInv'
  <1>1. ReloadTypeOK'
    BY FileStreams DEF ReloadInv, ReloadTypeOK, ReadError, ReadUnchanged, ReadChanged,
       loadVars, mainVars, LoadInv
  <1>2. ServingInv'
    BY DEF ReloadInv, ServingInv, LoadInv, OnePerStream, SettingsOf, ReadError,
           ReadUnchanged, ReadChanged, loadVars, mainVars
  <1>3. BuildInv'
    BY DEF ReloadInv, BuildInv, OnePerStream, SettingsOf, ReadError, ReadUnchanged,
           ReadChanged
  <1>4. LoadInv' /\ ShutdownInv'
    BY DEF ReloadInv, LoadInv, ShutdownInv, ReadError, ReadUnchanged, ReadChanged,
           loadVars, mainVars
  <1> QED BY <1>1, <1>2, <1>3, <1>4 DEF ReloadInv

\* A stream that did not change keeps its estimator.
LEMMA BuildReuseInv ==
  ASSUME ReloadInv, NEW s \in todo, BuildReuse(s)
  PROVE  ReloadInv'
  <1>1. PICK i \in removed : cfgOf[i] = s /\ es' = es \cup {i} /\ removed' = removed \ {i}
    BY DEF BuildReuse
  <1>2. UNCHANGED <<envVars, pc, cfg, newCfg, created, configSuccess, estimators, cfgOf,
                    running, fpLabels, mainVars>> /\ todo' = todo \ {s} /\ pc = "build"
    BY DEF BuildReuse
  <1>3. ReloadTypeOK'
    BY <1>1, <1>2 DEF ReloadInv, ReloadTypeOK, envVars, mainVars
  <1>4. estimators = (es \ created) \cup removed /\ created \cap estimators = {}
    BY <1>2 DEF ReloadInv, BuildInv
  <1>5. main \in {"serving", "waitReloader"}
    BY <1>2 DEF ReloadInv, ReloadTypeOK, ShutdownInv
  <1>6. OnePerStream(estimators, cfg.streams) /\ running = estimators \cup created \cup removed
    BY <1>2, <1>5 DEF ReloadInv, ServingInv
  <1>7. ServingInv'
    BY <1>1, <1>2, <1>4, <1>5 DEF ReloadInv, ServingInv, OnePerStream, SettingsOf, mainVars
  <1>8. BuildInv'
    <2>1. todo \subseteq newCfg.streams /\ OnePerStream(es, newCfg.streams \ todo)
          /\ SettingsOf(es) \cap SettingsOf(removed) = {}
      BY <1>2 DEF ReloadInv, BuildInv
    <2>2. estimators = (es' \ created) \cup removed'
      BY <1>1, <1>4
    <2>3. SettingsOf(es) \cup {s} = newCfg.streams \ todo'
      BY <1>2, <2>1 DEF OnePerStream
    <2>4. SettingsOf(es)' = SettingsOf(es) \cup {s}
      BY <1>1, <1>2 DEF SettingsOf
    <2>5. s \notin SettingsOf(es)
      BY <1>1, <2>1 DEF SettingsOf
    <2>6. \A j \in es : cfgOf[j] # s
      BY <2>5 DEF SettingsOf
    <2>7. OnePerStream(es, newCfg.streams \ todo)'
      BY <1>1, <1>2, <2>1, <2>3, <2>4, <2>6 DEF OnePerStream
    <2>8. \A j \in removed' : cfgOf[j] # s
      BY <1>1, <1>4, <1>6 DEF OnePerStream
    <2>9. (SettingsOf(es) \cap SettingsOf(removed) = {})'
      BY <1>1, <1>2, <2>1, <2>4, <2>8 DEF SettingsOf
    <2> QED BY <1>2, <1>4, <2>1, <2>2, <2>7, <2>9 DEF BuildInv
  <1>9. LoadInv' /\ ShutdownInv'
    BY <1>2, <1>5 DEF ReloadInv, LoadInv, ShutdownInv, mainVars
  <1> QED BY <1>3, <1>7, <1>8, <1>9 DEF ReloadInv

\* A new estimator takes an instance that nothing refers to.
LEMMA BuildCreateInv ==
  ASSUME ReloadInv, NEW s \in todo, NEW i \in FreeInst, BuildCreate(s, i)
  PROVE  ReloadInv'
  <1>1. /\ pc = "build" /\ s \notin SettingsOf(removed)
        /\ cfgOf' = [cfgOf EXCEPT ![i] = s]
        /\ running' = running \cup {i}
        /\ es' = es \cup {i}
        /\ created' = created \cup {i}
        /\ todo' = todo \ {s}
        /\ UNCHANGED <<envVars, pc, cfg, newCfg, removed, configSuccess, estimators,
                       fpLabels, mainVars>>
    BY DEF BuildCreate
  <1>2. i \in Inst /\ i \notin estimators /\ i \notin es /\ i \notin removed
    BY DEF FreeInst
  <1>3. cfgOf \in [Inst -> Stream \cup {NoStream}]
        /\ estimators \cup es \cup removed \cup running \subseteq Inst
    BY DEF ReloadInv, ReloadTypeOK
  <1>4. cfgOf'[i] = s /\ \A j \in Inst : j # i => cfgOf'[j] = cfgOf[j]
    BY <1>1, <1>2, <1>3
  <1>5. ReloadTypeOK'
    BY <1>1, <1>2 DEF ReloadInv, ReloadTypeOK, envVars, mainVars
  <1>6. main \in {"serving", "waitReloader"}
    BY <1>1 DEF ReloadInv, ReloadTypeOK, ShutdownInv
  <1>7. ServingInv'
    <2>1. running = estimators \cup created \cup removed /\ toStop = {}
          /\ OnePerStream(estimators, cfg.streams)
      BY <1>1, <1>6 DEF ReloadInv, ServingInv
    <2>2. OnePerStream(estimators, cfg.streams)'
      BY <1>1, <1>2, <1>3, <1>4, <2>1 DEF OnePerStream, SettingsOf
    <2> QED BY <1>1, <2>1, <2>2 DEF ServingInv, mainVars
  <1>8. BuildInv'
    <2>1. todo \subseteq newCfg.streams /\ OnePerStream(es, newCfg.streams \ todo)
          /\ SettingsOf(es) \cap SettingsOf(removed) = {}
          /\ estimators = (es \ created) \cup removed /\ created \cap estimators = {}
      BY <1>1 DEF ReloadInv, BuildInv
    <2>2. estimators' = (es' \ created') \cup removed' /\ created' \cap estimators' = {}
      BY <1>1, <1>2, <2>1
    <2>3. SettingsOf(es)' = SettingsOf(es) \cup {s}
      BY <1>1, <1>2, <1>3, <1>4 DEF SettingsOf
    <2>4. SettingsOf(removed)' = SettingsOf(removed)
      BY <1>1, <1>2, <1>3, <1>4 DEF SettingsOf
    <2>5. s \notin SettingsOf(es)
      BY <2>1 DEF OnePerStream
    <2>6. \A j \in es : cfgOf[j] # s
      BY <2>5 DEF SettingsOf
    <2>7. SettingsOf(es)' = newCfg'.streams \ todo'
      BY <1>1, <2>1, <2>3 DEF OnePerStream
    <2>8. \A j, k \in es' : cfgOf'[j] = cfgOf'[k] => j = k
      BY <1>1, <1>2, <1>3, <1>4, <2>1, <2>6 DEF OnePerStream
    <2>9. OnePerStream(es, newCfg.streams \ todo)'
      BY <2>7, <2>8 DEF OnePerStream
    <2>10. (SettingsOf(es) \cap SettingsOf(removed) = {})'
      BY <1>1, <2>1, <2>3, <2>4
    <2> QED BY <1>1, <2>1, <2>2, <2>9, <2>10 DEF BuildInv
  <1>9. LoadInv' /\ ShutdownInv'
    BY <1>1, <1>6 DEF ReloadInv, LoadInv, ShutdownInv, mainVars
  <1> QED BY <1>5, <1>7, <1>8, <1>9 DEF ReloadInv

\* Stopping instances leaves the settings of the others.
LEMMA StopKeepsOthers ==
  ASSUME NEW S, NEW T, NEW streams,
         cfgOf \in [Inst -> Stream \cup {NoStream}], S \subseteq Inst, T \subseteq Inst,
         S \cap T = {}, StopInst(S), OnePerStream(T, streams)
  PROVE  /\ cfgOf' \in [Inst -> Stream \cup {NoStream}]
         /\ \A i \in T : cfgOf'[i] = cfgOf[i]
         /\ {cfgOf'[i] : i \in T} = streams
         /\ \A i, j \in T : cfgOf'[i] = cfgOf'[j] => i = j
  BY DEF StopInst, OnePerStream, SettingsOf

\* newEstimator fails: what this reload has started is stopped, and nothing else.
LEMMA BuildFailInv ==
  ASSUME ReloadInv, NEW s \in todo, BuildFail(s)
  PROVE  ReloadInv'
  <1>1. /\ pc = "build"
        /\ StopInst(created) /\ LoadReturn(FALSE)
        /\ UNCHANGED <<estimators, fpLabels>>
    BY DEF BuildFail
  <1>2. /\ cfgOf \in [Inst -> Stream \cup {NoStream}]
        /\ created \subseteq Inst /\ estimators \subseteq Inst
    BY DEF ReloadInv, ReloadTypeOK
  <1>3. main \in {"serving", "waitReloader"}
    BY <1>1 DEF ReloadInv, ReloadTypeOK, ShutdownInv
  <1>4. /\ toStop = {} /\ running = estimators \cup created \cup removed
        /\ OnePerStream(estimators, cfg.streams)
    BY <1>1, <1>3 DEF ReloadInv, ServingInv
  <1>5. estimators = (es \ created) \cup removed /\ created \cap estimators = {}
    BY <1>1 DEF ReloadInv, BuildInv
  <1>6. /\ cfgOf' \in [Inst -> Stream \cup {NoStream}]
        /\ {cfgOf'[i] : i \in estimators} = cfg.streams
        /\ \A i, j \in estimators : cfgOf'[i] = cfgOf'[j] => i = j
    <2>1. StopInst(created) /\ OnePerStream(estimators, cfg.streams)
          /\ created \cap estimators = {}
      BY <1>1, <1>4, <1>5
    <2> QED BY <1>2, <2>1, StopKeepsOthers, Zenon
  <1>7. running' = estimators
    BY <1>1, <1>4, <1>5 DEF StopInst
  <1>8. /\ configSuccess' = FALSE /\ cfg' = cfg /\ newCfg' = cfg
        /\ todo' = {} /\ es' = {} /\ created' = {} /\ removed' = {} /\ pc' = "idle"
        /\ UNCHANGED <<envVars, mainVars>>
    BY <1>1 DEF LoadReturn
  <1>9. ReloadTypeOK'
    BY <1>1, <1>6, <1>7, <1>8 DEF ReloadInv, ReloadTypeOK, envVars, mainVars
  <1>10. ServingInv'
    BY <1>1, <1>4, <1>6, <1>7, <1>8 DEF ServingInv, OnePerStream, SettingsOf, mainVars
  <1>11. BuildInv' /\ LoadInv' /\ ShutdownInv'
    BY <1>3, <1>8 DEF ReloadInv, BuildInv, LoadInv, ShutdownInv, mainVars
  <1> QED BY <1>9, <1>10, <1>11 DEF ReloadInv

\* storeEstimators and the new config take effect together.
LEMMA SwapInv ==
  ASSUME ReloadInv, BuildNothing \/ EnableFingerprints \/ Store \/ DedupDone \/ LoadDone
  PROVE  ReloadInv'
  <1>1. ReloadTypeOK'
    BY DEF ReloadInv, ReloadTypeOK, BuildNothing, EnableFingerprints, Store, DedupDone,
           LoadDone, LoadReturn, envVars, loadVars, mainVars
  <1>2. main \in {"serving", "waitReloader"} /\ UNCHANGED mainVars
    BY DEF ReloadInv, ReloadTypeOK, ShutdownInv, BuildNothing, EnableFingerprints, Store,
           DedupDone, LoadDone, LoadReturn
  <1>3. toStop = {} /\ running = estimators \cup created \cup removed
    BY <1>2 DEF ReloadInv, ServingInv
  <1>4. ServingInv'
    <2>1. CASE BuildNothing
      BY <1>2, <1>3, <2>1 DEF ReloadInv, ServingInv, BuildInv, BuildNothing, LoadReturn,
         OnePerStream, SettingsOf, mainVars
    <2>2. CASE EnableFingerprints
      BY <1>2, <1>3, <2>2 DEF ReloadInv, ServingInv, EnableFingerprints, OnePerStream,
         SettingsOf, loadVars, mainVars
    <2>3. CASE Store
      BY <1>2, <1>3, <2>3 DEF ReloadInv, ReloadTypeOK, ServingInv, BuildInv, Store,
         OnePerStream, SettingsOf, loadVars, mainVars
    <2>4. CASE DedupDone
      BY <1>2, <1>3, <2>4 DEF ReloadInv, ServingInv, DedupDone, OnePerStream, SettingsOf,
         loadVars, mainVars
    <2>5. CASE LoadDone
      BY <1>2, <1>3, <2>5 DEF ReloadInv, ReloadTypeOK, ServingInv, LoadInv, LoadDone,
         LoadReturn, OnePerStream, SettingsOf, mainVars
    <2> QED BY <2>1, <2>2, <2>3, <2>4, <2>5
  <1>5. BuildInv'
    BY DEF ReloadInv, BuildInv, BuildNothing, EnableFingerprints, Store, DedupDone, LoadDone,
           LoadReturn, OnePerStream, SettingsOf, loadVars
  <1>6. LoadInv' /\ ShutdownInv'
    BY <1>2 DEF ReloadInv, LoadInv, ShutdownInv, BuildNothing, EnableFingerprints, Store,
       DedupDone, LoadDone, LoadReturn, loadVars, mainVars
  <1> QED BY <1>1, <1>4, <1>5, <1>6 DEF ReloadInv

\* The estimators that the new list does not have are stopped, one by one.
LEMMA StopRemovedInv ==
  ASSUME ReloadInv, StopRemoved
  PROVE  ReloadInv'
  <1>1. PICK i \in removed : StopInst({i}) /\ removed' = removed \ {i}
    BY DEF StopRemoved
  <1>2. pc = "stop" /\ UNCHANGED <<envVars, pc, cfg, newCfg, todo, es, created, configSuccess,
                                   estimators, fpLabels, mainVars>>
    BY DEF StopRemoved
  <1>3. /\ cfgOf \in [Inst -> Stream \cup {NoStream}]
        /\ {i} \subseteq Inst /\ estimators \subseteq Inst
        /\ created \subseteq es /\ es \cap removed = {}
    BY DEF ReloadInv, ReloadTypeOK
  <1>4. main \in {"serving", "waitReloader"}
    BY <1>2 DEF ReloadInv, ReloadTypeOK, ShutdownInv
  <1>5. /\ toStop = {} /\ running = estimators \cup created \cup removed
        /\ OnePerStream(estimators, newCfg.streams)
    BY <1>2, <1>4 DEF ReloadInv, ServingInv
  <1>6. estimators = es
    BY <1>2 DEF ReloadInv, LoadInv
  <1>7. /\ cfgOf' \in [Inst -> Stream \cup {NoStream}]
        /\ {cfgOf'[j] : j \in estimators} = newCfg.streams
        /\ \A j, k \in estimators : cfgOf'[j] = cfgOf'[k] => j = k
    <2>1. {i} \cap estimators = {}
      BY <1>3, <1>6
    <2> QED BY <1>1, <1>3, <1>5, <2>1, StopKeepsOthers, Zenon
  <1>8. running' = estimators \cup created \cup removed'
    BY <1>1, <1>3, <1>5, <1>6 DEF StopInst
  <1>9. ReloadTypeOK'
    BY <1>1, <1>2, <1>7, <1>8 DEF ReloadInv, ReloadTypeOK, envVars, mainVars
  <1>10. ServingInv'
    BY <1>2, <1>5, <1>7, <1>8 DEF ServingInv, OnePerStream, SettingsOf, mainVars
  <1>11. BuildInv' /\ LoadInv' /\ ShutdownInv'
    BY <1>2, <1>4, <1>6 DEF ReloadInv, BuildInv, LoadInv, ShutdownInv, mainVars
  <1> QED BY <1>9, <1>10, <1>11 DEF ReloadInv

\* loadConfig preserves the invariant, whichever free instances it takes.
LEMMA ReloadStepInv ==
  ASSUME ReloadInv, NEW free \in SUBSET FreeInst, ReloadStep(free)
  PROVE  ReloadInv'
  BY ReadInv, BuildReuseInv, BuildCreateInv, BuildFailInv, SwapInv, StopRemovedInv
     DEF ReloadStep

\* The end of main waits for the reloader before it stops what is active.
LEMMA MainStepInv ==
  ASSUME ReloadInv, MainStep
  PROVE  ReloadInv'
  <1>1. CASE Shutdown \/ ReloaderStopped \/ MainReturn
    <2>1. ReloadTypeOK'
      BY <1>1 DEF ReloadInv, ReloadTypeOK, Shutdown, ReloaderStopped, MainReturn, envVars,
         loadVars
    <2>2. ServingInv' /\ BuildInv'
      BY <1>1 DEF ReloadInv, ServingInv, BuildInv, OnePerStream, SettingsOf, Shutdown,
         ReloaderStopped, MainReturn, loadVars
    <2>3. LoadInv' /\ ShutdownInv'
      BY <1>1 DEF ReloadInv, LoadInv, ServingInv, ShutdownInv, Shutdown, ReloaderStopped,
         MainReturn, loadVars
    <2> QED BY <2>1, <2>2, <2>3 DEF ReloadInv
  <1>2. CASE StopActive
    <2>1. PICK i \in toStop : StopInst({i}) /\ toStop' = toStop \ {i}
      BY <1>2 DEF StopActive
    <2>2. main = "stopEstimators" /\ pc = "exited" /\ running = toStop
      BY <1>2 DEF ReloadInv, ShutdownInv, StopActive
    <2>3. UNCHANGED <<envVars, pc, cfg, loadVars, configSuccess, estimators, fpLabels, main>>
      BY <1>2 DEF StopActive
    <2>4. ReloadTypeOK'
      <3>1. cfgOf' \in [Inst -> Stream \cup {NoStream}] /\ running' = running \ {i}
        BY <2>1 DEF ReloadInv, ReloadTypeOK, StopInst
      <3> QED BY <2>1, <2>3, <3>1 DEF ReloadInv, ReloadTypeOK, envVars, loadVars
    <2>5. ServingInv' /\ BuildInv'
      BY <2>2, <2>3 DEF ServingInv, BuildInv
    <2>6. LoadInv' /\ ShutdownInv'
      BY <2>1, <2>2, <2>3 DEF ReloadInv, LoadInv, ShutdownInv, StopInst, loadVars
    <2> QED BY <2>4, <2>5, <2>6 DEF ReloadInv
  <1> QED BY <1>1, <1>2 DEF MainStep

\* ReloadInv is preserved by every step.
LEMMA ReloadNextInv == ReloadInv /\ [ReloadNext]_reloadVars => ReloadInv'
  <1> SUFFICES ASSUME ReloadInv, [ReloadNext]_reloadVars PROVE ReloadInv'
    OBVIOUS
  <1>1. CASE EditFile \/ Sighup \/ Wake \/ ReloaderExit
    BY <1>1, EnvironmentInv
  <1>2. CASE ReloadStep(Fresh)
    BY <1>2, FreshIsFree, ReloadStepInv
  <1>3. CASE DedupDone
    BY <1>3, SwapInv
  <1>4. CASE MainStep
    BY <1>4, MainStepInv
  <1>5. CASE UNCHANGED reloadVars
    BY <1>5, ReloadStutter
  <1> QED BY <1>1, <1>2, <1>3, <1>4, <1>5 DEF ReloadNext

-----------------------------------------------------------------------------
(* What follows *)

\* The inductive invariant holds in every reachable state.
THEOREM ReloadInvariant == ReloadSpec => []ReloadInv
  BY ReloadInitInv, ReloadNextInv, PTL DEF ReloadSpec

\* loadConfig's variables keep their types, and an estimator it handles is reused,
\* created or removed, and never two of these.
THEOREM ReloadTypesCorrect == ReloadSpec => []ReloadTypeOK
  <1>1. ReloadInv => ReloadTypeOK
    BY DEF ReloadInv
  <1> QED BY <1>1, ReloadInvariant, PTL

\* Outside of a reload, the active estimators are the ones that were built.
LEMMA ActiveMatchesInv == ReloadInv => ActiveMatchesConfig
  <1> DEFINE want == IF pc \in {"dedup", "stop"} THEN newCfg ELSE cfg
  <1> SUFFICES ASSUME ReloadInv, main \in {"serving", "waitReloader"}
               PROVE  /\ SettingsOf(estimators) = want.streams
                      /\ Cardinality(estimators) = Cardinality(want.streams)
    BY DEF ActiveMatchesConfig
  <1>1. OnePerStream(estimators, want.streams)
    BY DEF ReloadInv, ServingInv
  <1>2. estimators \in SUBSET Inst
    BY DEF ReloadInv, ReloadTypeOK
  <1> HIDE DEF want
  <1>3. Cardinality(estimators) = Cardinality(want.streams)
    BY <1>1, <1>2, OnePerStreamSize, Zenon
  <1> QED BY <1>1, <1>3 DEF OnePerStream

\* The active estimators are always those of the config in use, one per stream,
\* whatever the file becomes and whichever step of a reload fails.
THEOREM ActiveEstimatorsMatch == ReloadSpec => []ActiveMatchesConfig
  BY ActiveMatchesInv, ReloadInvariant, PTL

\* Neither a failed reload nor one that races with the shutdown leaves a rotation
\* goroutine behind.
THEOREM GoroutinesAccounted == ReloadSpec => []NoGoroutineLeak
  <1>1. ReloadInv => NoGoroutineLeak
    BY DEF ReloadInv, ServingInv, LoadInv, ShutdownInv, NoGoroutineLeak
  <1> QED BY <1>1, ReloadInvariant, PTL

\* loadConfig and main between them never stop an estimator twice.
THEOREM StoppedOnce == ReloadSpec => []StopsOnce
  <1>1. ReloadInv => StopsOnce
    BY DEF ReloadInv, ReloadTypeOK, ServingInv, LoadInv, ShutdownInv, StopsOnce
  <1> QED BY <1>1, ReloadInvariant, PTL

\* The active estimators are changed by estimators.Store alone.
LEMMA OnlyStoreSwaps ==
  ASSUME NEW free, ReloadStep(free) \/ EditFile \/ Sighup \/ Wake \/ ReloaderExit
                   \/ DedupDone \/ MainStep, ~ Store
  PROVE  UNCHANGED estimators
  BY DEF ReloadStep, MainStep, ReadError, ReadUnchanged, ReadChanged, BuildReuse, BuildFail,
         BuildCreate, BuildNothing, EnableFingerprints, StopRemoved, LoadDone, EditFile,
         Sighup, Wake, ReloaderExit, DedupDone, Shutdown, ReloaderStopped, StopActive,
         MainReturn

\* A reload never changes the settings of an active estimator: an instance that it
\* creates or stops is not active.
LEMMA ActiveKeepsSettings ==
  ASSUME ReloadInv, NEW free \in SUBSET FreeInst, NEW i \in estimators,
         ReloadStep(free) \/ EditFile \/ Wake \/ DedupDone
  PROVE  cfgOf'[i] = cfgOf[i]
  <1>1. /\ cfgOf \in [Inst -> Stream \cup {NoStream}] /\ i \in Inst
        /\ removed \subseteq Inst /\ es \cap removed = {}
    BY DEF ReloadInv, ReloadTypeOK
  <1>2. ASSUME NEW s \in todo, BuildFail(s) PROVE cfgOf'[i] = cfgOf[i]
    BY <1>1, <1>2 DEF BuildFail, StopInst, ReloadInv, BuildInv
  <1>3. ASSUME NEW s \in todo, NEW j \in free, BuildCreate(s, j) PROVE cfgOf'[i] = cfgOf[i]
    BY <1>1, <1>3 DEF BuildCreate, FreeInst
  <1>4. CASE StopRemoved
    BY <1>1, <1>4 DEF StopRemoved, StopInst, ReloadInv, LoadInv
  <1>5. CASE UNCHANGED cfgOf
    BY <1>5
  <1> QED BY <1>2, <1>3, <1>4, <1>5 DEF ReloadStep, ReadError, ReadUnchanged, ReadChanged,
          BuildReuse, BuildNothing, EnableFingerprints, Store, LoadDone, EditFile, Wake,
          DedupDone

\* The swap keeps the estimators whose settings the new ones have.
LEMMA StoreKeepsUnchanged ==
  ASSUME ReloadInv, Store, NEW i \in estimators, cfgOf[i] \in {cfgOf'[j] : j \in estimators'}
  PROVE  i \in estimators'
  <1>1. estimators' = es /\ cfgOf' = cfgOf /\ pc = "store"
    BY DEF Store
  <1>2. /\ estimators = (es \ created) \cup removed
        /\ SettingsOf(es) \cap SettingsOf(removed) = {}
    BY <1>1 DEF ReloadInv, BuildInv
  <1>3. cfgOf[i] \in SettingsOf(es)
    BY <1>1 DEF SettingsOf
  <1>4. i \notin removed
    BY <1>2, <1>3 DEF SettingsOf
  <1> QED BY <1>1, <1>2, <1>4

\* A stream whose settings did not change keeps its estimator, and its estimates.
THEOREM UnchangedStreamsKeepEstimator == ReloadSpec => UnchangedStreamKept
  <1> DEFINE Keeps == \A i \in estimators :
                        cfgOf[i] \in {cfgOf'[j] : j \in estimators'} => i \in estimators'
  <1>1. ReloadInv /\ [ReloadNext]_reloadVars => [Keeps]_reloadVars
    <2> SUFFICES ASSUME ReloadInv, ReloadNext PROVE Keeps
      OBVIOUS
    <2>1. CASE Store
      BY <2>1, StoreKeepsUnchanged
    <2>2. CASE ~ Store
      BY <2>2, OnlyStoreSwaps DEF ReloadNext
    <2> QED BY <2>1, <2>2
  <1> QED BY <1>1, ReloadInvariant, PTL DEF ReloadSpec, UnchangedStreamKept
=============================================================================
