----------------------------- MODULE ConfigReload -----------------------------
(***************************************************************************)
(* Configuration reload and shutdown: startConfigReloader and loadConfig   *)
(* of app/vmestimator/config.go, and the end of main in main.go.           *)
(*                                                                         *)
(* The reloader goroutine waits for SIGHUP, the check ticker or stopCh,    *)
(* reads the file and applies it to the active estimators stream by        *)
(* stream.  An estimator is an instance: two instances made from the same  *)
(* settings are different, and each has a rotation goroutine from          *)
(* newEstimator to stop.  An instance that nothing refers to is used again *)
(* (which one makes no difference).                                        *)
(*                                                                         *)
(* A stream's settings are a record: id is what estimatorID computes, ver  *)
(* all other settings, label tells whether group_by has __label__, and bad *)
(* whether newEstimator refuses them.  A file is a record: ok tells whether *)
(* readConfig accepts it.                                                  *)
(***************************************************************************)
EXTENDS Integers, FiniteSets

CONSTANTS
  Files,   \* contents the configuration file can have
  File0,   \* the contents main starts with
  Inst     \* estimator instances

Stream == UNION {f.streams : f \in Files}

\* The settings of an instance that is not running.
NoStream == [id |-> "none", ver |-> 0, label |-> FALSE, bad |-> FALSE]

\* readConfig accepts no two streams with one id; main exits on a bad File0.
ASSUME FilesAssumption ==
  /\ File0 \in Files
  /\ \A f \in Files : IsFiniteSet(f.streams)
  /\ File0.ok /\ \A s \in File0.streams : ~ s.bad
  /\ \A f, g \in Files : f.hash = g.hash => f = g
  /\ \A f \in Files : f.ok => \A s, t \in f.streams : s.id = t.id => s = t

\* There are instances for the streams that main starts with.
ASSUME InstAssumption ==
  /\ IsFiniteSet(Inst)
  /\ \E S \in SUBSET Inst : Cardinality(S) = Cardinality(File0.streams)

VARIABLES
  ticker,        \* whether -configCheckInterval is set
  file,          \* the file's contents
  sighup,        \* sighupCh, a channel with room for one signal
  asked,         \* (history) a signal was sent and the file not read since
  pc,            \* the reloader goroutine
  cfg,           \* the reloader's cfg: the config in use
  newCfg,        \* the config being loaded
  todo,          \* its streams that loadConfig has not handled yet
  es,            \* loadConfig's es
  created,       \* loadConfig's created
  removed,       \* loadConfig's removed
  configSuccess, \* the gauge vmestimator_config_last_reload_successful
  estimators,    \* the active estimators, an atomic pointer
  cfgOf,         \* e.cfg of every running instance
  running,       \* instances whose rotation goroutine has not been stopped
  fpLabels,      \* protoparser.fpLabelsGlobal
  main,          \* the main goroutine
  toStop         \* active estimators that main has not stopped yet

loadVars == <<newCfg, todo, es, created, removed>>
envVars  == <<ticker, file, sighup, asked>>
mainVars == <<main, toStop>>
reloadVars ==
  <<ticker, file, sighup, asked, pc, cfg, newCfg, todo, es, created, removed,
    configSuccess, estimators, cfgOf, running, fpLabels, main, toStop>>

SettingsOf(S) == {cfgOf[i] : i \in S}

\* estimator.stop of the instances in S; nothing asks for their settings again.
StopInst(S) ==
  /\ running' = running \ S
  /\ cfgOf' = [i \in Inst |-> IF i \in S THEN NoStream ELSE cfgOf[i]]

\* Instances that nothing refers to.
FreeInst == Inst \ (estimators \cup running \cup es \cup removed \cup toStop)

ReloadInit ==
  /\ ticker \in BOOLEAN
  /\ file = File0 /\ cfg = File0 /\ newCfg = File0
  /\ sighup = FALSE /\ asked = FALSE
  /\ pc = "idle"
  /\ todo = {} /\ es = {} /\ created = {} /\ removed = {}
  /\ configSuccess = TRUE
  /\ estimators = CHOOSE S \in SUBSET Inst :
                    Cardinality(S) = Cardinality(File0.streams)
  /\ running = estimators
  /\ cfgOf \in [Inst -> File0.streams \cup {NoStream}]
  /\ SettingsOf(estimators) = File0.streams
  /\ \A i \in Inst \ estimators : cfgOf[i] = NoStream
  /\ fpLabels = \E s \in File0.streams : s.label
  /\ main = "serving" /\ toStop = {}

-----------------------------------------------------------------------------
(* The environment *)

\* Someone rewrites the file.
EditFile ==
  /\ file' \in Files \ {file}
  /\ UNCHANGED <<ticker, sighup, asked, pc, cfg, loadVars, configSuccess,
                 estimators, cfgOf, running, fpLabels, mainVars>>

\* (mutant) The signal channel has no buffer: a busy reloader misses signals.
SighupUnbuffered ==
  /\ sighup' = (pc = "idle")
  /\ asked' = TRUE
  /\ UNCHANGED <<ticker, file, pc, cfg, loadVars, configSuccess, estimators,
                 cfgOf, running, fpLabels, mainVars>>

\* SIGHUP, or a request to /-/reload, which sends it.
Sighup ==
  /\ sighup' = TRUE
  /\ asked' = TRUE
  /\ UNCHANGED <<ticker, file, pc, cfg, loadVars, configSuccess, estimators,
                 cfgOf, running, fpLabels, mainVars>>

-----------------------------------------------------------------------------
(* startConfigReloader *)

\* select receives a signal or a tick.
Wake ==
  /\ pc = "idle"
  /\ \/ sighup /\ sighup' = FALSE
     \/ ticker /\ UNCHANGED sighup
  /\ pc' = "read"
  /\ UNCHANGED <<ticker, file, asked, cfg, loadVars, configSuccess, estimators,
                 cfgOf, running, fpLabels, mainVars>>

\* (mutant) stopCh is looked at only when a signal wakes the reloader up.
ReloaderExitLate ==
  /\ pc = "idle"
  /\ main # "serving"
  /\ sighup
  /\ pc' = "exited"
  /\ UNCHANGED <<envVars, cfg, loadVars, configSuccess, estimators, cfgOf,
                 running, fpLabels, mainVars>>

\* select receives from stopCh, which main has closed.
ReloaderExit ==
  /\ pc = "idle"
  /\ main # "serving"
  /\ pc' = "exited"
  /\ UNCHANGED <<envVars, cfg, loadVars, configSuccess, estimators, cfgOf,
                 running, fpLabels, mainVars>>

\* readConfig fails: the previous config stays active.
ReadError ==
  /\ pc = "read"
  /\ ~ file.ok
  /\ asked' = FALSE
  /\ configSuccess' = FALSE
  /\ pc' = "idle"
  /\ UNCHANGED <<ticker, file, sighup, cfg, loadVars, estimators, cfgOf,
                 running, fpLabels, mainVars>>

\* The file has the hash of the config in use.
ReadUnchanged ==
  /\ pc = "read"
  /\ file.ok
  /\ file.hash = cfg.hash
  /\ asked' = FALSE
  /\ configSuccess' = TRUE
  /\ pc' = "idle"
  /\ UNCHANGED <<ticker, file, sighup, cfg, loadVars, estimators, cfgOf,
                 running, fpLabels, mainVars>>

\* A new config: loadConfig starts with all active estimators as removed.
ReadChanged ==
  /\ pc = "read"
  /\ file.ok
  /\ file.hash # cfg.hash
  /\ asked' = FALSE
  /\ newCfg' = file
  /\ todo' = file.streams
  /\ es' = {}
  /\ created' = {}
  /\ removed' = estimators
  /\ pc' = "build"
  /\ UNCHANGED <<ticker, file, sighup, cfg, configSuccess, estimators, cfgOf,
                 running, fpLabels, mainVars>>

-----------------------------------------------------------------------------
(* loadConfig *)

\* (mutant) A reused estimator stays among the removed ones.
BuildReuseKeepsRemoved(s) ==
  /\ pc = "build"
  /\ s \in todo
  /\ \E i \in removed : cfgOf[i] = s /\ es' = es \cup {i}
  /\ todo' = todo \ {s}
  /\ UNCHANGED <<envVars, pc, cfg, newCfg, created, removed, configSuccess,
                 estimators, cfgOf, running, fpLabels, mainVars>>

\* The active estimator of the stream has the same settings: it is reused.
BuildReuse(s) ==
  /\ pc = "build"
  /\ s \in todo
  /\ \E i \in removed :
       /\ cfgOf[i] = s
       /\ es' = es \cup {i}
       /\ removed' = removed \ {i}
  /\ todo' = todo \ {s}
  /\ UNCHANGED <<envVars, pc, cfg, newCfg, created, configSuccess, estimators,
                 cfgOf, running, fpLabels, mainVars>>

\* (mutant) An estimator is made for every stream, unchanged ones too.
BuildCreateAlways(s, i) ==
  /\ pc = "build"
  /\ s \in todo
  /\ ~ s.bad
  /\ cfgOf' = [cfgOf EXCEPT ![i] = s]
  /\ running' = running \cup {i}
  /\ es' = es \cup {i}
  /\ created' = created \cup {i}
  /\ todo' = todo \ {s}
  /\ UNCHANGED <<envVars, pc, cfg, newCfg, removed, configSuccess, estimators,
                 fpLabels, mainVars>>

\* No active estimator has these settings: newEstimator makes instance i.
BuildCreate(s, i) ==
  /\ pc = "build"
  /\ s \in todo
  /\ s \notin SettingsOf(removed)
  /\ ~ s.bad
  /\ cfgOf' = [cfgOf EXCEPT ![i] = s]
  /\ running' = running \cup {i}
  /\ es' = es \cup {i}
  /\ created' = created \cup {i}
  /\ todo' = todo \ {s}
  /\ UNCHANGED <<envVars, pc, cfg, newCfg, removed, configSuccess, estimators,
                 fpLabels, mainVars>>

\* loadConfig returns to the reloader's loop.
LoadReturn(success) ==
  /\ configSuccess' = success
  /\ cfg' = IF success THEN newCfg ELSE cfg
  /\ newCfg' = cfg'
  /\ todo' = {} /\ es' = {} /\ created' = {} /\ removed' = {}
  /\ pc' = "idle"
  /\ UNCHANGED <<envVars, mainVars>>

\* (mutant) The estimators made before the error keep running.
BuildFailLeaks(s) ==
  /\ pc = "build"
  /\ s \in todo
  /\ s \notin SettingsOf(removed)
  /\ s.bad
  /\ LoadReturn(FALSE)
  /\ UNCHANGED <<estimators, cfgOf, running, fpLabels>>

\* (mutant) The new config is remembered although it could not be loaded.
BuildFailRemembers(s) ==
  /\ pc = "build"
  /\ s \in todo
  /\ s \notin SettingsOf(removed)
  /\ s.bad
  /\ StopInst(created)
  /\ LoadReturn(TRUE)
  /\ UNCHANGED <<estimators, fpLabels>>

\* newEstimator fails: what was created is stopped, nothing is swapped.
BuildFail(s) ==
  /\ pc = "build"
  /\ s \in todo
  /\ s \notin SettingsOf(removed)
  /\ s.bad
  /\ StopInst(created)
  /\ LoadReturn(FALSE)
  /\ UNCHANGED <<estimators, fpLabels>>

\* The file changed, its streams did not.
BuildNothing ==
  /\ pc = "build"
  /\ todo = {} /\ created = {} /\ removed = {}
  /\ LoadReturn(TRUE)
  /\ UNCHANGED <<estimators, cfgOf, running, fpLabels>>

\* SetFingerprintLabels, when a created estimator needs it.
EnableFingerprints ==
  /\ pc = "build"
  /\ todo = {} /\ created \cup removed # {}
  /\ fpLabels' = (fpLabels \/ \E i \in created : cfgOf[i].label)
  /\ pc' = "store"
  /\ UNCHANGED <<envVars, cfg, loadVars, configSuccess, estimators, cfgOf,
                 running, mainVars>>

\* (mutant) The deduplicator is reset only if an estimator was removed.
StoreSkipsReset ==
  /\ pc = "store"
  /\ estimators' = es
  /\ pc' = IF removed # {} THEN "dedup" ELSE "stop"
  /\ UNCHANGED <<envVars, cfg, loadVars, configSuccess, cfgOf, running, fpLabels,
                 mainVars>>

\* estimators.Store(es); the deduplicator is reset next if there is a new one.
Store ==
  /\ pc = "store"
  /\ estimators' = es
  /\ pc' = IF created # {} THEN "dedup" ELSE "stop"
  /\ UNCHANGED <<envVars, cfg, loadVars, configSuccess, cfgOf, running, fpLabels,
                 mainVars>>

\* dedup.Reset has returned.
DedupDone ==
  /\ pc = "dedup"
  /\ pc' = "stop"
  /\ UNCHANGED <<envVars, cfg, loadVars, configSuccess, estimators, cfgOf,
                 running, fpLabels, mainVars>>

\* A removed estimator is stopped.
StopRemoved ==
  /\ pc = "stop"
  /\ \E i \in removed : StopInst({i}) /\ removed' = removed \ {i}
  /\ UNCHANGED <<envVars, pc, cfg, newCfg, todo, es, created, configSuccess,
                 estimators, fpLabels, mainVars>>

\* All are stopped; the cache of exposed metrics is invalidated.
LoadDone ==
  /\ pc = "stop"
  /\ removed = {}
  /\ LoadReturn(TRUE)
  /\ UNCHANGED <<estimators, cfgOf, running, fpLabels>>

-----------------------------------------------------------------------------
(* The end of main *)

\* SIGTERM: the web server stops; stopReloader closes stopCh.
Shutdown ==
  /\ main = "serving"
  /\ main' = "waitReloader"
  /\ UNCHANGED <<envVars, pc, cfg, loadVars, configSuccess, estimators, cfgOf,
                 running, fpLabels, toStop>>

\* (mutant) stopReloader does not wait for doneCh.
ReloaderStoppedNoWait ==
  /\ main = "waitReloader"
  /\ main' = "stopEstimators"
  /\ toStop' = estimators
  /\ UNCHANGED <<envVars, pc, cfg, loadVars, configSuccess, estimators, cfgOf,
                 running, fpLabels>>

\* stopReloader returns once the reloader has exited.
ReloaderStopped ==
  /\ main = "waitReloader"
  /\ pc = "exited"
  /\ main' = "stopEstimators"
  /\ toStop' = estimators
  /\ UNCHANGED <<envVars, pc, cfg, loadVars, configSuccess, estimators, cfgOf,
                 running, fpLabels>>

StopActive ==
  /\ main = "stopEstimators"
  /\ \E i \in toStop : StopInst({i}) /\ toStop' = toStop \ {i}
  /\ UNCHANGED <<envVars, pc, cfg, loadVars, configSuccess, estimators,
                 fpLabels, main>>

MainReturn ==
  /\ main = "stopEstimators"
  /\ toStop = {}
  /\ main' = "returned"
  /\ UNCHANGED <<envVars, pc, cfg, loadVars, configSuccess, estimators, cfgOf,
                 running, fpLabels, toStop>>

-----------------------------------------------------------------------------
\* The steps of loadConfig and of the reloader's loop, given the instances
\* that are free; resetting the deduplicator is added by module Ingest.
ReloadStep(free) ==
  \/ ReadError \/ ReadUnchanged \/ ReadChanged
  \/ \E s \in todo : BuildReuse(s) \/ BuildFail(s)
  \/ \E s \in todo, i \in free : BuildCreate(s, i)
  \/ BuildNothing \/ EnableFingerprints \/ Store
  \/ StopRemoved \/ LoadDone

MainStep == Shutdown \/ ReloaderStopped \/ StopActive \/ MainReturn

\* One of the free instances, if there is any.
Fresh == {i \in Inst : FreeInst # {} /\ i = CHOOSE j \in FreeInst : TRUE}

ReloadNext ==
  \/ EditFile \/ Sighup
  \/ Wake \/ ReloaderExit \/ ReloadStep(Fresh) \/ DedupDone
  \/ MainStep

\* The reloader and main keep running; a closed stopCh is noticed even when
\* signals and ticks keep arriving, since select picks a ready case at random.
ReloadFairness ==
  /\ WF_reloadVars(Wake) /\ SF_reloadVars(ReloaderExit)
  /\ WF_reloadVars(ReloadStep(Fresh) \/ DedupDone)
  /\ WF_reloadVars(ReloaderStopped \/ StopActive \/ MainReturn)

ReloadSpec     == ReloadInit /\ [][ReloadNext]_reloadVars
ReloadFairSpec == ReloadSpec /\ ReloadFairness

-----------------------------------------------------------------------------
(* Properties *)

\* Types, and how the sets of instances loadConfig works with are related: an
\* estimator is reused, created or removed, and never two of these.
ReloadTypeOK ==
  /\ file \in Files /\ cfg \in Files /\ newCfg \in Files
  /\ {ticker, sighup, asked, configSuccess, fpLabels} \subseteq BOOLEAN
  /\ pc \in {"idle", "read", "build", "store", "dedup", "stop", "exited"}
  /\ main \in {"serving", "waitReloader", "stopEstimators", "returned"}
  /\ todo \subseteq Stream
  /\ cfgOf \in [Inst -> Stream \cup {NoStream}]
  /\ created \subseteq es
  /\ es \cap removed = {}
  /\ estimators \cup es \cup removed \cup running \cup toStop \subseteq Inst

\* Until the swap the active estimators are those of the config in use, one per
\* stream, and from the swap on those of the new one.  In particular a config
\* that cannot be read or loaded leaves them untouched.
ActiveMatchesConfig ==
  LET want == IF pc \in {"dedup", "stop"} THEN newCfg ELSE cfg IN
  main \in {"serving", "waitReloader"} =>
  /\ SettingsOf(estimators) = want.streams
  /\ Cardinality(estimators) = Cardinality(want.streams)

\* Between reloads exactly the active estimators have a rotation goroutine, and
\* when main returns none has: neither a failed reload nor one that races with
\* the shutdown leaves one behind.
NoGoroutineLeak ==
  /\ pc \in {"idle", "read", "exited"} /\ main \in {"serving", "waitReloader"}
       => running = estimators
  /\ main = "returned" => running = {}

\* No estimator is stopped twice: a second close of its stopCh panics.
StopsOnce ==
  /\ created \subseteq running
  /\ removed \subseteq running
  /\ toStop \subseteq running

\* A stream whose settings are in both configs keeps its estimator, and with it
\* its accumulated estimates, whatever happens to the other streams.
UnchangedStreamKept ==
  [][\A i \in estimators :
       cfgOf[i] \in {cfgOf'[j] : j \in estimators'} => i \in estimators']_reloadVars

\* A loadable config that is in the file when a reload is asked for becomes the
\* config in use, unless the file changes again or the process shuts down: no
\* signal is lost to a reload under way.
ReloadApplied ==
  \A f \in Files :
    f.ok /\ (\A s \in f.streams : ~ s.bad) =>
      ((asked /\ file = f) ~> (cfg = f \/ file # f \/ main # "serving"))

\* The process ends once it is told to, whatever the reloader is doing.
ShutdownEnds == (main = "waitReloader") ~> (main = "returned")
=============================================================================
