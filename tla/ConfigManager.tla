----------------------------- MODULE ConfigManager -----------------------------
(***************************************************************************)
(* Hot reload of the configuration file (internal/config/manager.go) up to *)
(* the reader of its signal, watchConfigReloads of                         *)
(* internal/proxy/route_manager.go.                                        *)
(*                                                                         *)
(* The content of the file is a version, 0 when the program starts and one *)
(* more with every edit; some versions do not load.  watch() debounces the *)
(* events of an edit with time.AfterFunc, whose callback runs reload() on  *)
(* a goroutine of its own, which no WaitGroup counts.                      *)
(***************************************************************************)
EXTENDS Integers, FiniteSets

CONSTANTS
    MaxEdits,    \* bound on the edits of the file
    Broken,      \* the versions that Load rejects
    Overlap      \* may a reload take longer than the debounce, so that the
                 \* next one starts before it ends

ASSUME ConfigAssumption ==
    /\ MaxEdits \in Nat
    /\ Broken \subseteq 1..MaxEdits
    /\ Overlap \in BOOLEAN

Versions == 0..MaxEdits
Reloads  == 1..MaxEdits     \* a reload is named by the order of its start

VARIABLES
    file,        \* version of the file
    events,      \* events in watcher.Events
    timer,       \* debounce timer of watch(): armed or not
    watching,    \* the goroutine of watch() runs
    started,     \* number of reloads started
    reload,      \* where each reload is
    loaded,      \* newConfig of a reload
    config,      \* cm.config
    signal,      \* reloadCh holds its one element
    reader,      \* watchConfigReloads: in select, about to read, changing routes
    applied,     \* the version the reader has last read
    stopping     \* Stop: not called, done closed, returned

reloadVars == <<started, reload, loaded>>
readerVars == <<reader, applied>>
vars == <<file, events, timer, watching, reloadVars, config, signal,
          readerVars, stopping>>

Busy == {"check", "load", "store", "signal"}

TypeOK ==
    /\ file \in Versions
    /\ events \in 0..MaxEdits
    /\ timer \in BOOLEAN
    /\ watching \in BOOLEAN
    /\ started \in 0..MaxEdits
    /\ reload \in [Reloads -> {"none"} \cup Busy \cup {"end"}]
    /\ loaded \in [Reloads -> Versions]
    /\ config \in Versions
    /\ signal \in BOOLEAN
    /\ reader \in {"select", "read", "apply"}
    /\ applied \in Versions
    /\ stopping \in {"no", "waiting", "returned"}

\* NewManager has loaded the file and started watch(); RouteManager.Start has
\* read the configuration.
Init ==
    /\ file = 0
    /\ events = 0
    /\ timer = FALSE
    /\ watching = TRUE
    /\ started = 0
    /\ reload = [i \in Reloads |-> "none"]
    /\ loaded = [i \in Reloads |-> 0]
    /\ config = 0
    /\ signal = FALSE
    /\ reader = "select"
    /\ applied = 0
    /\ stopping = "no"

--------------------------------------------------------------------------------
\* The user writes the file, and fsnotify reports it.
Edit ==
    /\ file < MaxEdits
    /\ file' = file + 1
    /\ events' = events + 1
    /\ UNCHANGED <<timer, watching, reloadVars, config, signal, readerVars, stopping>>

\* Mutant: an event that comes during a reload is taken for the one that
\* started it.
WatchEventUnlessBusy ==
    /\ watching
    /\ events > 0
    /\ events' = events - 1
    /\ timer' = (timer \/ \A i \in Reloads : reload[i] \notin Busy)
    /\ UNCHANGED <<file, watching, reloadVars, config, signal, readerVars, stopping>>

\* watch(): an event (re)arms the debounce timer.  Events of other files and of other
\* kinds change nothing (lines 157-161), so that events counts writes of the file only.
WatchEvent ==
    /\ watching
    /\ events > 0
    /\ events' = events - 1
    /\ timer' = TRUE
    /\ UNCHANGED <<file, watching, reloadVars, config, signal, readerVars, stopping>>

\* Mutant: no deferred timer.Stop().
WatchReturnKeepsTimer ==
    /\ watching
    /\ stopping # "no"
    /\ watching' = FALSE
    /\ UNCHANGED <<file, events, timer, reloadVars, config, signal, readerVars, stopping>>

\* watch(): done is closed; the deferred timer.Stop().
WatchReturn ==
    /\ watching
    /\ stopping # "no"
    /\ watching' = FALSE
    /\ timer' = FALSE
    /\ UNCHANGED <<file, events, reloadVars, config, signal, readerVars, stopping>>

\* The timer fires: a goroutine calls cm.reload().
TimerFires ==
    /\ timer
    /\ Overlap \/ \A i \in Reloads : reload[i] \notin Busy
    /\ timer' = FALSE
    /\ started' = started + 1
    /\ reload' = [reload EXCEPT ![started + 1] = "check"]
    /\ UNCHANGED <<file, events, watching, loaded, config, signal, readerVars, stopping>>

\* reload(): nothing to do once done is closed.
ReloadChecks(i) ==
    /\ reload[i] = "check"
    /\ reload' = [reload EXCEPT ![i] = IF stopping = "no" THEN "load" ELSE "end"]
    /\ UNCHANGED <<file, events, timer, watching, started, loaded, config,
                   signal, readerVars, stopping>>

\* Load(cm.path): a version that does not load ends the reload.
ReloadLoads(i) ==
    /\ reload[i] = "load"
    /\ loaded' = [loaded EXCEPT ![i] = file]
    /\ reload' = [reload EXCEPT ![i] = IF file \in Broken THEN "end" ELSE "store"]
    /\ UNCHANGED <<file, events, timer, watching, started, config, signal,
                   readerVars, stopping>>

\* Mutant: no signal.
ReloadStoresSilently(i) ==
    /\ reload[i] = "store"
    /\ config' = loaded[i]
    /\ reload' = [reload EXCEPT ![i] = "end"]
    /\ UNCHANGED <<file, events, timer, watching, started, loaded, signal,
                   readerVars, stopping>>

\* cm.config.Store(newConfig)
ReloadStores(i) ==
    /\ reload[i] = "store"
    /\ config' = loaded[i]
    /\ reload' = [reload EXCEPT ![i] = "signal"]
    /\ UNCHANGED <<file, events, timer, watching, started, loaded, signal,
                   readerVars, stopping>>

\* Mutant: the channel has no room, so that a signal is dropped while the reader
\* is not in its select.
ReloadSignalsUnbuffered(i) ==
    /\ reload[i] = "signal"
    /\ signal' = (signal \/ reader = "select")
    /\ reload' = [reload EXCEPT ![i] = "end"]
    /\ UNCHANGED <<file, events, timer, watching, started, loaded, config,
                   readerVars, stopping>>

\* The send that does not block: nothing happens when the channel is full.
ReloadSignals(i) ==
    /\ reload[i] = "signal"
    /\ signal' = TRUE
    /\ reload' = [reload EXCEPT ![i] = "end"]
    /\ UNCHANGED <<file, events, timer, watching, started, loaded, config,
                   readerVars, stopping>>

ReloadStep(i) ==
    ReloadChecks(i) \/ ReloadLoads(i) \/ ReloadStores(i) \/ ReloadSignals(i)

\* watchConfigReloads: case <-reloadChan.
ReaderReceives ==
    /\ reader = "select"
    /\ signal
    /\ signal' = FALSE
    /\ reader' = "read"
    /\ UNCHANGED <<file, events, timer, watching, reloadVars, config, applied, stopping>>

\* handleReload: GetConfig,
ReaderReads ==
    /\ reader = "read"
    /\ applied' = config
    /\ reader' = "apply"
    /\ UNCHANGED <<file, events, timer, watching, reloadVars, config, signal, stopping>>

\* ... and the routes follow it, which takes time.
ReaderApplied ==
    /\ reader = "apply"
    /\ reader' = "select"
    /\ UNCHANGED <<file, events, timer, watching, reloadVars, config, signal, applied, stopping>>

\* Stop: close(cm.done)
StopBegin ==
    /\ stopping = "no"
    /\ stopping' = "waiting"
    /\ UNCHANGED <<file, events, timer, watching, reloadVars, config, signal, readerVars>>

\* Stop: cm.wg.Wait(), which counts the goroutine of watch() alone.
StopReturn ==
    /\ stopping = "waiting"
    /\ ~watching
    /\ stopping' = "returned"
    /\ UNCHANGED <<file, events, timer, watching, reloadVars, config, signal, readerVars>>

Next ==
    \/ Edit \/ WatchEvent \/ WatchReturn \/ TimerFires
    \/ \E i \in Reloads : ReloadStep(i)
    \/ ReaderReceives \/ ReaderReads \/ ReaderApplied
    \/ StopBegin \/ StopReturn

\* Goroutines run and timers fire; nobody has to edit the file or to stop.
Fairness ==
    /\ WF_vars(WatchEvent) /\ WF_vars(WatchReturn) /\ WF_vars(TimerFires)
    /\ \A i \in Reloads : WF_vars(ReloadStep(i))
    /\ WF_vars(ReaderReceives \/ ReaderReads \/ ReaderApplied)
    /\ WF_vars(StopReturn)

SafeSpec == Init /\ [][Next]_vars
Spec == SafeSpec /\ Fairness

--------------------------------------------------------------------------------
\* The signal has room for one element and its sender drops it when it is full
\* (lines 200-203, 103-111): whenever the reader is behind, a signal is there, or
\* one is about to be sent, or the reader has taken one and not read yet.
NoLostSignal ==
    config # applied =>
        \/ signal
        \/ reader = "read"
        \/ \E i \in Reloads : reload[i] = "signal"

\* The last good configuration stays (lines 188-196).
OnlyLoadedConfigs == config \notin Broken /\ applied \notin Broken

\* When every reload is over and none is due, the configuration is the file's,
\* unless that does not load: the debounce drops events, never the last edit.
QuietMeansCurrent ==
    /\ stopping = "no" /\ events = 0 /\ ~timer
    /\ \A i \in Reloads : reload[i] \notin Busy
    => config = file \/ file \in Broken

\* "After Stop returns, no further config reloads will occur" (line 122), but for
\* one that has passed its check of done before: none is started and none passes
\* the check.
NoReloadStartsAfterStop ==
    [][stopping = "returned" =>
         /\ started' = started
         /\ \A i \in Reloads : reload[i] = "check" => reload'[i] # "load"]_vars

\* An edit that loads reaches the routes, unless the manager is stopped or the
\* file is edited again.
EditReachesRoutes ==
    \A v \in Versions \ Broken :
        file = v ~> (applied = v /\ reader = "select") \/ file # v \/ stopping # "no"
================================================================================
