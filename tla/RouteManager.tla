------------------------------ MODULE RouteManager ------------------------------
(***************************************************************************)
(* The listeners of internal/proxy/route_manager.go and how a reload of    *)
(* the configuration replaces them (internal/proxy/reload.go).             *)
(*                                                                         *)
(* Start makes a listener for every route and runs the reload watcher.     *)
(* The watcher compares the routes of a new configuration with the         *)
(* manager's listeners, stops those whose route is gone or modified, and   *)
(* starts those whose route is new or modified.  Stop takes the list of    *)
(* listeners and shuts them one by one.  Each listener has two goroutines: *)
(* the runner is in ListenAndServe, the starter reports after 100 ms that  *)
(* the listener runs.                                                      *)
(*                                                                         *)
(* Listeners are named by the order in which they are made, which is the   *)
(* order of m.routes.  The configuration is a set of routes, and what a    *)
(* route says besides its name and port is in its identity.                *)
(***************************************************************************)
EXTENDS Integers, FiniteSets

CONSTANTS
    Routes,        \* routes that configurations may hold
    KeyOf,         \* [Routes -> keys]: routeKey, the name and the port
    PortOf,        \* [Routes -> ports]
    Configs,       \* configurations the file may hold, sets of routes
    Versions,      \* bound: those it may hold after so many edits
    Foreign,       \* ports that another program may be listening on
    NoRoute,       \* "no route"
    MaxEdits,      \* bound on the changes of the configuration
    MaxListeners   \* bound on the listeners made, enough for MaxEdits

\* That no two routes of a configuration have the same port is asked of whoever
\* writes the file: validation.go looks at each port, never at two of them.
ASSUME RouteAssumption ==
    /\ Configs \subseteq SUBSET Routes
    /\ Versions \in [0..MaxEdits -> SUBSET Configs]
    /\ \A r, s \in Routes : KeyOf[r] = KeyOf[s] => PortOf[r] = PortOf[s]
    /\ \A c \in Configs :
         /\ IsFiniteSet(c) /\ Cardinality(c) <= MaxListeners
         /\ \A r, s \in c : PortOf[r] = PortOf[s] => r = s
    /\ NoRoute \notin Routes
    /\ MaxEdits \in Nat
    /\ MaxListeners \in Nat

Listeners == 1..MaxListeners
Keys == {KeyOf[r] : r \in Routes}

VARIABLES
    config,     \* configMgr.GetConfig().Routes
    signal,     \* the reload signal is in its channel
    edits,      \* number of changes of the configuration so far
    made,       \* number of listeners made
    route,      \* listener.route
    state,      \* listener.state
    server,     \* listener.server: new, listening, draining, shut; failed to bind
    started,    \* the listeners whose started channel is closed
    runner,     \* runListener: not there, spawned, begun, serving, exited
    starter,    \* goroutine of lines 502-514: not there, asleep, decided, done
    closed,     \* the listeners whose wake coordinator is closed
    routes,     \* m.routes
    routeMap,   \* m.routeMap, 0 for a missing key
    mgr,        \* new, running (m.cancel is set), stopped
    watcher,    \* where watchConfigReloads is
    toStop,     \* keys that the reload has still to stop
    toStart,    \* routes that the reload has still to start
    stopped,    \* successfulStops
    current,    \* the listener that the watcher stops or waits for
    stopper,    \* where Stop is
    snapshot,   \* the listeners that Stop has still to shut
    target,     \* the listener that Stop is shutting
    broken      \* history: listeners whose bind or Shutdown has failed

configVars   == <<config, signal, edits>>
listenerVars == <<state, server, started, runner, starter, closed>>
listVars     == <<made, route, routes, routeMap>>
watcherVars  == <<watcher, toStop, toStart, stopped, current>>
stopVars     == <<mgr, stopper, snapshot, target>>
vars == <<configVars, listenerVars, listVars, watcherVars, stopVars, broken>>

Made == 1..made
Key(l) == KeyOf[route[l]]
Live(l) == server[l] \in {"new", "listening"}

TypeOK ==
    /\ config \in Configs /\ signal \in BOOLEAN /\ edits \in 0..MaxEdits
    /\ made \in 0..MaxListeners
    /\ route \in [Listeners -> Routes \cup {NoRoute}]
    /\ \A l \in Listeners : route[l] # NoRoute <=> l \in Made
    /\ state \in [Listeners -> {"initial", "starting", "running", "stopping",
                                "stopped", "failed"}]
    /\ server \in [Listeners -> {"new", "listening", "draining", "shut", "failed"}]
    /\ runner \in [Listeners -> {"none", "spawned", "begun", "serving", "exited"}]
    /\ \A l \in Listeners : runner[l] # "none" <=> l \in Made
    /\ starter \in [Listeners -> {"none", "asleep", "decided", "done"}]
    /\ \A l \in Listeners \ Made :
         state[l] = "initial" /\ server[l] = "new" /\ starter[l] = "none"
    /\ started \subseteq Made /\ closed \subseteq Made /\ broken \subseteq Made
    /\ routes \subseteq Made
    /\ routeMap \in [Keys -> 0..made]
    /\ mgr \in {"new", "running", "stopped"}
    /\ watcher \in {"none", "select", "diff", "stop", "shutdown", "drain", "start",
                    "await", "exited"}
    /\ toStop \subseteq Keys /\ stopped \subseteq Keys /\ toStart \subseteq Routes
    /\ current \in 0..made
    /\ stopper \in {"none", "next", "shutdown", "drain", "wait", "clean", "timeout"}
    /\ snapshot \subseteq Made /\ target \in 0..made
    /\ stopper \in {"shutdown", "drain"} => target \in Made

Init ==
    /\ config \in Versions[0]
    /\ signal = FALSE /\ edits = 0
    /\ made = 0
    /\ route = [l \in Listeners |-> NoRoute]
    /\ state = [l \in Listeners |-> "initial"]
    /\ server = [l \in Listeners |-> "new"]
    /\ runner = [l \in Listeners |-> "none"]
    /\ starter = [l \in Listeners |-> "none"]
    /\ started = {} /\ closed = {} /\ broken = {}
    /\ routes = {}
    /\ routeMap = [k \in Keys |-> 0]
    /\ mgr = "new"
    /\ watcher = "none" /\ toStop = {} /\ toStart = {} /\ stopped = {} /\ current = 0
    /\ stopper = "none" /\ snapshot = {} /\ target = 0

--------------------------------------------------------------------------------
\* The configuration manager stores another configuration and signals it; what may
\* happen between the two is in ConfigManager.
Edit(c) ==
    /\ edits < MaxEdits /\ c \in Versions[edits + 1]
    /\ c # config
    /\ config' = c
    /\ signal' = TRUE
    /\ edits' = edits + 1
    /\ UNCHANGED <<listenerVars, listVars, watcherVars, stopVars, broken>>

\* Start: a listener for every route, in the order of the configuration.
Start ==
    /\ mgr = "new"
    /\ mgr' = "running"
    /\ LET n == Cardinality(config) IN
         \E f \in [1..n -> config] :
           /\ \A i, j \in 1..n : f[i] = f[j] => i = j
           /\ made' = n
           /\ route' = [l \in Listeners |-> IF l <= n THEN f[l] ELSE NoRoute]
           /\ runner' = [l \in Listeners |-> IF l <= n THEN "spawned" ELSE "none"]
           /\ routes' = 1..n
           /\ routeMap' = [k \in Keys |->
                IF \E i \in 1..n : KeyOf[f[i]] = k
                THEN CHOOSE i \in 1..n : KeyOf[f[i]] = k ELSE 0]
    /\ watcher' = "select"
    /\ UNCHANGED <<configVars, state, server, started, starter, closed, toStop,
                   toStart, stopped, current, stopper, snapshot, target, broken>>

--------------------------------------------------------------------------------
(* runListener *)

\* state = starting, whatever it was; the starter goes to sleep.
RunBegin(l) ==
    /\ runner[l] = "spawned"
    /\ runner' = [runner EXCEPT ![l] = "begun"]
    /\ state' = [state EXCEPT ![l] = "starting"]
    /\ starter' = [starter EXCEPT ![l] = "asleep"]
    /\ UNCHANGED <<configVars, server, started, closed, listVars, watcherVars,
                   stopVars, broken>>

Taken(p) == \E l \in Made : server[l] = "listening" /\ PortOf[route[l]] = p

\* ListenAndServe: its check for a shutdown and the bind of the port, in one.
RunListen(l) ==
    /\ runner[l] = "begun"
    /\ server[l] = "new"
    /\ ~Taken(PortOf[route[l]])
    /\ runner' = [runner EXCEPT ![l] = "serving"]
    /\ server' = [server EXCEPT ![l] = "listening"]
    /\ UNCHANGED <<configVars, state, started, starter, closed, listVars,
                   watcherVars, stopVars, broken>>

\* ListenAndServe cannot bind its port: state = failed, started is closed.
RunFail(l) ==
    /\ runner[l] = "begun"
    /\ server[l] = "new"
    /\ Taken(PortOf[route[l]]) \/ PortOf[route[l]] \in Foreign
    /\ runner' = [runner EXCEPT ![l] = "exited"]
    /\ server' = [server EXCEPT ![l] = "failed"]
    /\ state' = [state EXCEPT ![l] = "failed"]
    /\ started' = started \cup {l}
    /\ broken' = broken \cup {l}
    /\ UNCHANGED <<configVars, starter, closed, listVars, watcherVars, stopVars>>

\* http.ErrServerClosed: Shutdown came before ListenAndServe, or ends it.
RunReturn(l) ==
    /\ runner[l] \in {"begun", "serving"}
    /\ server[l] \in {"draining", "shut"}
    /\ runner' = [runner EXCEPT ![l] = "exited"]
    /\ UNCHANGED <<configVars, state, server, started, starter, closed, listVars,
                   watcherVars, stopVars, broken>>

\* After 100 ms: the state is read, the lock is left,
StarterRead(l) ==
    /\ starter[l] = "asleep"
    /\ starter' = [starter EXCEPT ![l] = IF state[l] = "starting" THEN "decided" ELSE "done"]
    /\ UNCHANGED <<configVars, state, server, started, runner, closed, listVars,
                   watcherVars, stopVars, broken>>

\* ... and then it is set, whatever it is by then; started is closed.
StarterSet(l) ==
    /\ starter[l] = "decided"
    /\ starter' = [starter EXCEPT ![l] = "done"]
    /\ state' = [state EXCEPT ![l] = "running"]
    /\ started' = started \cup {l}
    /\ UNCHANGED <<configVars, server, runner, closed, listVars, watcherVars,
                   stopVars, broken>>

RunListener(l) ==
    \/ RunBegin(l) \/ RunListen(l) \/ RunFail(l) \/ RunReturn(l)
    \/ StarterRead(l) \/ StarterSet(l)

\* server.Shutdown closes the port at once and then waits for the requests.
ShutServer(l) ==
    server' = [server EXCEPT ![l] = IF @ \in {"listening", "draining"} THEN "draining" ELSE "shut"]

--------------------------------------------------------------------------------
(* watchConfigReloads, handleReload, applyRouteChanges *)

\* Mutant: the context is looked at only when a signal comes.
WatcherExitOnSignal ==
    /\ watcher = "select"
    /\ mgr = "stopped" /\ signal
    /\ watcher' = "exited"
    /\ UNCHANGED <<configVars, listenerVars, listVars, toStop, toStart, stopped,
                   current, stopVars, broken>>

\* case <-ctx.Done(); when a signal is there too, select takes either.
WatcherExit ==
    /\ watcher = "select"
    /\ mgr = "stopped"
    /\ watcher' = "exited"
    /\ UNCHANGED <<configVars, listenerVars, listVars, toStop, toStart, stopped,
                   current, stopVars, broken>>

ReceiveSignal ==
    /\ watcher = "select"
    /\ signal
    /\ signal' = FALSE
    /\ watcher' = "diff"
    /\ UNCHANGED <<config, edits, listenerVars, listVars, toStop, toStart, stopped,
                   current, stopVars, broken>>

\* oldMap: the last listener in m.routes with a key gives its route.
OldKeys == {Key(l) : l \in routes}
OldRoute(k) == route[CHOOSE l \in routes :
                       Key(l) = k /\ \A j \in routes : Key(j) = k => j <= l]

Added    == {r \in config : KeyOf[r] \notin OldKeys}
Modified == {r \in config : KeyOf[r] \in OldKeys /\ OldRoute(KeyOf[r]) # r}
Removed  == OldKeys \ {KeyOf[r] : r \in config}

\* Mutant: the routes are started before the others are stopped.
DetectChangesStartFirst ==
    /\ watcher = "diff"
    /\ toStop' = Removed \cup {KeyOf[r] : r \in Modified}
    /\ toStart' = Added \cup Modified
    /\ stopped' = {}
    /\ watcher' = IF toStart' # {} THEN "start" ELSE IF toStop' # {} THEN "stop" ELSE "select"
    /\ UNCHANGED <<configVars, listenerVars, listVars, current, stopVars, broken>>

\* Mutant: a modified route is not compared, a known key is unchanged.
DetectChangesByKey ==
    /\ watcher = "diff"
    /\ toStop' = Removed
    /\ toStart' = Added
    /\ stopped' = {}
    /\ watcher' = IF Added = {} /\ Removed = {} THEN "select" ELSE "stop"
    /\ UNCHANGED <<configVars, listenerVars, listVars, current, stopVars, broken>>

\* detectChanges, and applyRouteChanges with what is to stop and to start.
DetectChanges ==
    /\ watcher = "diff"
    /\ toStop' = Removed \cup {KeyOf[r] : r \in Modified}
    /\ toStart' = Added \cup Modified
    /\ stopped' = {}
    /\ watcher' = IF Added \cup Modified = {} /\ Removed = {} THEN "select" ELSE "stop"
    /\ UNCHANGED <<configVars, listenerVars, listVars, current, stopVars, broken>>

\* stopRoute: the listener of the key, whose state becomes stopping.  The keys
\* come in the order of a Go map, so in any order.
StopRoute(k) ==
    /\ watcher = "stop"
    /\ k \in toStop
    /\ current' = routeMap[k]
    /\ state' = [state EXCEPT ![routeMap[k]] = "stopping"]
    /\ toStop' = toStop \ {k}
    /\ watcher' = "shutdown"
    /\ UNCHANGED <<configVars, server, started, runner, starter, closed, listVars,
                   toStart, stopped, stopVars, broken>>

StopRouteShutdown ==
    /\ watcher = "shutdown"
    /\ ShutServer(current)
    /\ watcher' = "drain"
    /\ UNCHANGED <<configVars, state, started, runner, starter, closed, listVars,
                   toStop, toStart, stopped, current, stopVars, broken>>

\* Shutdown has succeeded; the wake coordinator is closed; state = stopped.
StopRouteReturn ==
    /\ watcher = "drain"
    /\ server' = [server EXCEPT ![current] = "shut"]
    /\ closed' = closed \cup {current}
    /\ state' = [state EXCEPT ![current] = "stopped"]
    /\ stopped' = stopped \cup {Key(current)}
    /\ watcher' = "stop"
    /\ UNCHANGED <<configVars, started, runner, starter, listVars, toStop, toStart,
                   current, stopVars, broken>>

\* Mutant: a listener that does not stop is stopped again.
StopRouteRetry ==
    /\ watcher = "drain"
    /\ server[current] = "draining"
    /\ broken' = broken \cup {current}
    /\ toStop' = toStop \cup {Key(current)}
    /\ watcher' = "stop"
    /\ UNCHANGED <<configVars, state, server, started, runner, starter, closed,
                   listVars, toStart, stopped, current, stopVars>>

\* Requests outlast the shutdown timeout: server.Close, and stopRoute returns its
\* error; the coordinator stays open, the state stopping.
StopRouteFail ==
    /\ watcher = "drain"
    /\ server[current] = "draining"
    /\ server' = [server EXCEPT ![current] = "shut"]
    /\ broken' = broken \cup {current}
    /\ watcher' = "stop"
    /\ UNCHANGED <<configVars, state, started, runner, starter, closed, listVars,
                   toStop, toStart, stopped, current, stopVars>>

\* Mutant: the stopped listeners stay in the list.
CleanupMapOnly ==
    /\ watcher = "stop"
    /\ toStop = {}
    /\ routeMap' = [k \in Keys |-> IF k \in stopped THEN 0 ELSE routeMap[k]]
    /\ watcher' = "start"
    /\ UNCHANGED <<configVars, listenerVars, routes, made, route, toStop, toStart,
                   stopped, current, stopVars, broken>>

\* cleanupStoppedRoutes
Cleanup ==
    /\ watcher = "stop"
    /\ toStop = {}
    /\ routes' = {l \in routes : Key(l) \notin stopped}
    /\ routeMap' = [k \in Keys |-> IF k \in stopped THEN 0 ELSE routeMap[k]]
    /\ watcher' = "start"
    /\ UNCHANGED <<configVars, listenerVars, made, route, toStop, toStart, stopped,
                   current, stopVars, broken>>

\* Mutant: a key that is listed already is not listed again.
StartRouteListsKeyOnce(r) ==
    /\ watcher = "start"
    /\ r \in toStart
    /\ made < MaxListeners
    /\ made' = made + 1
    /\ route' = [route EXCEPT ![made + 1] = r]
    /\ runner' = [runner EXCEPT ![made + 1] = "spawned"]
    /\ routes' = IF KeyOf[r] \in OldKeys THEN routes ELSE routes \cup {made + 1}
    /\ routeMap' = [routeMap EXCEPT ![KeyOf[r]] = made + 1]
    /\ current' = made + 1
    /\ toStart' = toStart \ {r}
    /\ watcher' = "await"
    /\ UNCHANGED <<configVars, state, server, started, starter, closed, toStop,
                   stopped, stopVars, broken>>

\* startRoute: a new listener is listed, those that are stopped are dropped.
StartRoute(r) ==
    /\ watcher = "start"
    /\ r \in toStart
    /\ made < MaxListeners
    /\ made' = made + 1
    /\ route' = [route EXCEPT ![made + 1] = r]
    /\ runner' = [runner EXCEPT ![made + 1] = "spawned"]
    /\ routes' = {l \in routes : state[l] # "stopped"} \cup {made + 1}
    /\ routeMap' = [routeMap EXCEPT ![KeyOf[r]] = made + 1]
    /\ current' = made + 1
    /\ toStart' = toStart \ {r}
    /\ watcher' = "await"
    /\ UNCHANGED <<configVars, state, server, started, starter, closed, toStop,
                   stopped, stopVars, broken>>

\* startRoute waits for started, for 5 s: only when the starter has found the
\* listener in another state, at 100 ms, does nobody close it.
StartRouteReturn ==
    /\ watcher = "await"
    /\ current \in started \/ starter[current] = "done"
    /\ watcher' = "start"
    /\ UNCHANGED <<configVars, listenerVars, listVars, toStop, toStart, stopped,
                   current, stopVars, broken>>

ReloadEnd ==
    /\ watcher = "start"
    /\ toStart = {}
    /\ watcher' = "select"
    /\ UNCHANGED <<configVars, listenerVars, listVars, toStop, toStart, stopped,
                   current, stopVars, broken>>

Watcher ==
    \/ WatcherExit \/ ReceiveSignal \/ DetectChanges
    \/ \E k \in Keys : StopRoute(k)
    \/ StopRouteShutdown \/ StopRouteReturn \/ StopRouteFail \/ Cleanup
    \/ \E r \in Routes : StartRoute(r)
    \/ StartRouteReturn \/ ReloadEnd

--------------------------------------------------------------------------------
(* Stop *)

\* m.cancel(); the list of listeners is taken under the lock.
StopBegin ==
    /\ mgr = "running"
    /\ mgr' = "stopped"
    /\ snapshot' = routes
    /\ stopper' = "next"
    /\ UNCHANGED <<configVars, listenerVars, listVars, watcherVars, target, broken>>

\* shutdownRoutes, in the order of the list.
StopNext ==
    /\ stopper = "next"
    /\ \E l \in snapshot :
         /\ \A j \in snapshot : l <= j
         /\ target' = l
         /\ snapshot' = snapshot \ {l}
         /\ state' = [state EXCEPT ![l] = "stopping"]
    /\ stopper' = "shutdown"
    /\ UNCHANGED <<configVars, server, started, runner, starter, closed, listVars,
                   watcherVars, mgr, broken>>

StopShutdown ==
    /\ stopper = "shutdown"
    /\ ShutServer(target)
    /\ stopper' = "drain"
    /\ UNCHANGED <<configVars, state, started, runner, starter, closed, listVars,
                   watcherVars, mgr, snapshot, target, broken>>

\* Shutdown has succeeded, or server.Close was called; the coordinator is closed.
StopDrained ==
    /\ stopper = "drain"
    /\ server' = [server EXCEPT ![target] = "shut"]
    /\ closed' = closed \cup {target}
    /\ state' = [state EXCEPT ![target] = "stopped"]
    /\ stopper' = "next"
    /\ UNCHANGED <<configVars, started, runner, starter, listVars, watcherVars, mgr,
                   snapshot, target, broken>>

\* m.reloadWg.Wait()
StopJoinWatcher ==
    /\ stopper = "next"
    /\ snapshot = {}
    /\ watcher = "exited"
    /\ stopper' = "wait"
    /\ UNCHANGED <<configVars, listenerVars, listVars, watcherVars, mgr, snapshot,
                   target, broken>>

\* waitForShutdown: every runner has returned, or the time is over.
StopReturn ==
    /\ stopper = "wait"
    /\ stopper' = IF \A l \in Made : runner[l] = "exited" THEN "clean" ELSE "timeout"
    /\ UNCHANGED <<configVars, listenerVars, listVars, watcherVars, mgr, snapshot,
                   target, broken>>

Stopper == StopNext \/ StopShutdown \/ StopDrained \/ StopJoinWatcher \/ StopReturn

--------------------------------------------------------------------------------
Next ==
    \/ \E c \in Configs : Edit(c)
    \/ Start \/ Watcher \/ StopBegin \/ Stopper
    \/ \E l \in Listeners : RunListener(l)

\* Every goroutine that can run does.  Nobody has to edit the file or to stop.
Fairness ==
    /\ WF_vars(Watcher) /\ WF_vars(Stopper)
    /\ \A l \in Listeners : WF_vars(RunListener(l))

SafeSpec == Init /\ [][Next]_vars
Spec == SafeSpec /\ Fairness

--------------------------------------------------------------------------------
\* A reload stops before it starts (lines 662-711): two listeners that are up, or
\* are going to be, never want the same port, so that smaug does not fail to bind
\* a port for which its own old listener is in the way, not even when a stop
\* fails or a route changes its name and keeps its port.
PortsAreDistinct ==
    \A l, j \in Made : Live(l) /\ Live(j) /\ PortOf[route[l]] = PortOf[route[j]] => l = j

\* A listener that is up, or is going to be, is in m.routes: otherwise no reload
\* and no Stop would ever find it again (lines 591-640, 642-660).
LiveIsListed == \A l \in Made : Live(l) => l \in routes

\* A listed listener is found by its key: stopRoute (line 542) never answers
\* "route not found", and what it finds is the latest listener with that key.
ListedIsMapped ==
    \A l \in routes : l <= routeMap[Key(l)] /\ Key(routeMap[Key(l)]) = Key(l)

\* Why these three hold, as one inductive invariant: what startRoute drops by its
\* state (lines 597-605) has been shut,
StoppedIsShut == \A l \in Made : state[l] = "stopped" => server[l] = "shut"

\* a live listener is the one its key leads to, which a stop will therefore find,
LiveIsMapped == \A l \in Made : Live(l) => routeMap[Key(l)] = l

\* the keys that are still to be stopped are listed,
ToStopIsListed == watcher = "stop" => \A k \in toStop : \E l \in routes : Key(l) = k

\* the listener being stopped is the one its key leads to, and is shut,
CurrentIsMapped ==
    watcher \in {"shutdown", "drain"} =>
        /\ current \in Made
        /\ routeMap[Key(current)] = current
        /\ watcher = "drain" => ~Live(current)
        /\ \A k \in toStop : \E l \in routes : Key(l) = k

\* what Cleanup drops by its key is not live,
StoppedKeysAreDead ==
    watcher \in {"stop", "shutdown", "drain"} =>
        \A l \in Made : Key(l) \in stopped => ~Live(l)

\* and whoever holds the port of a route that is to be started is to be stopped
\* before.
StartsAreFree ==
    /\ watcher \in {"stop", "shutdown", "drain", "start", "await"} =>
         \A r, s \in toStart : PortOf[r] = PortOf[s] => r = s
    /\ watcher \in {"stop", "shutdown", "drain"} =>
         \A r \in toStart, l \in Made : Live(l) /\ PortOf[route[l]] = PortOf[r] =>
             Key(l) \in toStop \/ (watcher = "shutdown" /\ l = current)
    /\ watcher \in {"start", "await"} =>
         \A r \in toStart, l \in Made : Live(l) => PortOf[route[l]] # PortOf[r]

\* A manager that has not started has no listeners and no watcher.
NothingBeforeStart == mgr = "new" => made = 0 /\ watcher = "none"

\* The inductive invariant of the listeners' bookkeeping.
RouteInv ==
    /\ TypeOK /\ NothingBeforeStart
    /\ PortsAreDistinct /\ LiveIsListed /\ ListedIsMapped
    /\ StoppedIsShut /\ LiveIsMapped /\ ToStopIsListed /\ CurrentIsMapped
    /\ StoppedKeysAreDead /\ StartsAreFree

\* "compute diffs and apply changes to running routes" (lines 735-775): when no
\* reload is due or running, the live listeners are for routes of the
\* configuration only, and each of its routes is served, unless binding its port
\* or stopping its listener has failed.
QuietServesConfig ==
    mgr = "running" /\ watcher = "select" /\ ~signal =>
        /\ \A l \in Made : Live(l) => route[l] \in config
        /\ \A r \in config : \E l \in routes :
             route[l] = r /\ (Live(l) \/ l \in broken)

\* Why it holds: Stop does nothing before it is called,
StopperWaits == stopper # "none" => mgr = "stopped"

\* a route that is being stopped, or has been and is still to be dropped,
Stopping == {"stop", "shutdown", "drain"}
Underway ==
    IF watcher = "stop" THEN stopped
    ELSE IF watcher \in Stopping THEN stopped \cup {Key(current)} ELSE {}

\* the map leads to listed listeners of its keys,
MappedIsListed ==
    mgr = "running" => \A k \in Keys : routeMap[k] # 0 =>
        routeMap[k] \in routes /\ Key(routeMap[k]) = k

\* which serve unless they are being stopped or have failed,
MappedServes ==
    mgr = "running" => \A k \in Keys : routeMap[k] # 0 =>
        Live(routeMap[k]) \/ routeMap[k] \in broken \/ k \in Underway

\* startRoute never drops a listener of another route by its state,
StoppedIsUnderway ==
    mgr = "running" => \A l \in routes : state[l] = "stopped" =>
        watcher \in Stopping /\ Key(l) \in stopped

\* and from the comparison on, until the next signal, what is live is in the
\* configuration or still to be stopped, and what is in the configuration is
\* served or still to be started.
RoutesFollowConfig ==
    mgr = "running" /\ ~signal /\ watcher \notin {"none", "diff", "exited"} =>
        /\ watcher # "select" => toStart \subseteq config
        /\ \A l \in Made : Live(l) =>
             \/ route[l] \in config
             \/ watcher \in Stopping /\ Key(l) \in toStop
             \/ watcher = "shutdown" /\ l = current
        /\ \A r \in config :
             \/ watcher # "select" /\ r \in toStart
             \/ /\ \E l \in routes : route[l] = r /\ (Live(l) \/ l \in broken)
                /\ watcher \in Stopping => KeyOf[r] \notin toStop \cup Underway

\* Inductive together with RouteInv.
FollowInv ==
    /\ StopperWaits /\ MappedIsListed /\ MappedServes /\ StoppedIsUnderway
    /\ RoutesFollowConfig

\* "Stop gracefully stops all route listeners and the config reload watcher"
\* (line 265): no server listens once Stop has returned.
StopStopsAllListeners ==
    stopper \in {"clean", "timeout"} => \A l \in Made : server[l] # "listening"

\* A reload ends, whatever fails (lines 662-711).
ReloadEnds ==
    watcher \notin {"none", "select", "exited"} ~> watcher \in {"select", "exited"}

\* Stop returns (lines 266-292).
StopEnds == mgr = "stopped" ~> stopper \in {"clean", "timeout"}
================================================================================
