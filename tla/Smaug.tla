---------------------------------- MODULE Smaug ----------------------------------
(***************************************************************************)
(* The process: run() of cmd/smaug/main.go from the configuration to the   *)
(* exit, the two management servers, and a request (RequestPath) that a    *)
(* route's listener accepts while it serves.                               *)
(*                                                                         *)
(* run() starts its parts one after another and defers the Stop of each;   *)
(* whether it ends by an error or by a signal, the deferred calls unwind   *)
(* in the opposite order.  What each part does between its Start and its   *)
(* Stop is in the part's own module; here a part is up or not.             *)
(***************************************************************************)
EXTENDS RequestPath, ConfigValidation, Sequences

CONSTANTS
    Configs,   \* configuration files the process may be started with
    Requested, \* bound: those with which a request is made
    Foreign    \* ports that another program listens on

ASSUME SmaugAssumption == Configs \subseteq ConfigFiles

\* The management server and the metrics server run the same code.
Servers == {"management", "metrics"}

\* Prometheus may refuse a collector, the system the watch of the file's directory.
Refusals == {"registry", "watcher"}

VARIABLES
    conf,      \* cfg
    refused,   \* what the process is refused: collectors, or the watch of a directory
    stage,     \* where run() is: the part it starts next
    up,        \* the parts whose Stop is deferred, in the order of the defers
    exit,      \* how run() ends
    sender,    \* wakeOpts is not nil
    listener,  \* the route's http.Server
    forced,    \* history: the listener was closed over a request
    srv        \* the management servers

processVars == <<conf, refused, stage, up, exit, sender>>
vars == <<processVars, listener, forced, srv, chainVars, reqVars, gwVars>>

Started(part) == \E i \in 1..Len(up) : up[i] = part

Stages == {"registry", "load", "health", "wake", "tracker", "routes", "sleep",
           "management", "metrics", "notify", "serving", "unwinding", "exited"}
Startup == Stages \ {"serving", "unwinding", "exited"}

TypeOK ==
    /\ GwTypeOK /\ ReqTypeOK
    /\ conf \in Configs /\ refused \in SUBSET Refusals
    /\ stage \in Stages
    /\ up \in Seq({"config", "health", "tracker", "routes", "sleep"} \cup Servers)
    /\ exit \in {"none", "error", "ok", "killed"}
    /\ sender \in BOOLEAN
    /\ listener \in {"none", "spawned", "bound", "failed", "draining", "shut"}
    /\ forced \in BOOLEAN
    /\ srv \in [Servers -> [runner : {"none", "spawned", "begun", "serving", "failed", "shut"},
                            closer : {"none", "asleep", "spawned", "begun", "serving", "failed"},
                            running : BOOLEAN, startErr : BOOLEAN, started : BOOLEAN]]

Init ==
    /\ GwInit /\ ReqInit
    /\ gate = FALSE /\ recorder = "none" /\ closing = FALSE
    /\ conf \in Configs /\ refused \in SUBSET Refusals
    /\ stage = "registry" /\ up = <<>> /\ exit = "none"
    /\ sender = FALSE
    /\ listener = "none" /\ forced = FALSE
    /\ srv = [s \in Servers |-> [runner |-> "none", closer |-> "none", running |-> FALSE,
                                 startErr |-> FALSE, started |-> FALSE]]

Port(s)    == IF s = "management" THEN conf.mgmtPort ELSE conf.metricsPort
Enabled(s) == IF s = "management" THEN conf.mgmtOn ELSE conf.metricsOn

\* The route's server is one of cfg.Servers.
Served == conf.server = "known"

Taken(p) ==
    \/ p \in Foreign
    \/ listener = "bound" /\ conf.listen = p
    \/ \E s \in Servers : srv[s].runner = "serving" /\ Port(s) = p

--------------------------------------------------------------------------------
(* run(): the way up *)

Fail == stage' = "unwinding" /\ exit' = "error"

\* A part is up, its Stop deferred.
Up(part, next) ==
    /\ up' = Append(up, part)
    /\ stage' = next
    /\ UNCHANGED <<conf, refused, exit>>

\* initMetrics
InitMetrics ==
    /\ stage = "registry"
    /\ IF "registry" \in refused THEN Fail ELSE stage' = "load" /\ UNCHANGED exit
    /\ UNCHANGED <<conf, refused, up, sender, listener, forced, srv, chainVars, reqVars, gwVars>>

\* initConfigManager, NewManager: the file is loaded and its directory is watched.
LoadConfig ==
    /\ stage = "load"
    /\ IF Load(conf) /\ "watcher" \notin refused THEN Up("config", "health")
       ELSE Fail /\ UNCHANGED <<conf, refused, up>>
    /\ UNCHANGED <<sender, listener, forced, srv, chainVars, reqVars, gwVars>>

\* initHealthManager: the manager's Start has nothing that can fail.
StartHealth ==
    /\ stage = "health"
    /\ Up("health", "wake")
    /\ UNCHANGED <<sender, listener, forced, srv, chainVars, reqVars, gwVars>>

\* Mutant: the servers with Wake-on-LAN are not counted.
InitWakeAlways ==
    /\ stage = "wake"
    /\ sender' = (conf.gwURL # "")
    /\ IF sender' /\ conf.gwKey = "" THEN Fail ELSE stage' = "tracker" /\ UNCHANGED exit
    /\ UNCHANGED <<conf, refused, up, listener, forced, srv, chainVars, reqVars, gwVars>>

\* initWakeOptions: the Gwaihir client wants an API key.
InitWake ==
    /\ stage = "wake"
    /\ sender' = (conf.gwURL # "" /\ conf.wolOn)
    /\ IF sender' /\ conf.gwKey = "" THEN Fail ELSE stage' = "tracker" /\ UNCHANGED exit
    /\ UNCHANGED <<conf, refused, up, listener, forced, srv, chainVars, reqVars, gwVars>>

\* initIdleTracker: none when no route's server has Sleep-on-LAN.
StartTracker ==
    /\ stage = "tracker"
    /\ IF Served /\ conf.solOn THEN Up("tracker", "routes")
       ELSE stage' = "routes" /\ UNCHANGED <<conf, refused, up, exit>>
    /\ UNCHANGED <<sender, listener, forced, srv, chainVars, reqVars, gwVars>>

\* Mutant: a wake timeout that is left out is not replaced by its default.
WakeCoordinatorNoDefault ==
    sender /\ Served /\ conf.wolOn /\ conf.machineID # "" /\ conf.wolTimeout > 0

\* wrapWithWakeCoordinator, NewWakeCoordinator
WakeCoordinator ==
    sender /\ Served /\ conf.wolOn /\ conf.machineID # ""

\* initRouteManager, RouteManager.Start, createListener.  main.go passes its tracker,
\* a *IdleTracker, as an ActivityRecorder, which is therefore never nil.
StartRoutes ==
    /\ stage = "routes"
    /\ recorder' = IF Started("tracker") THEN "tracker" ELSE "typed_nil"
    /\ gate' = WakeCoordinator
    /\ listener' = "spawned"
    /\ Up("routes", "sleep")
    /\ UNCHANGED <<sender, forced, srv, closing, reqVars, gwVars>>

\* runListener; Start has not waited for it.
ListenerBinds ==
    /\ listener = "spawned"
    /\ listener' = IF Taken(conf.listen) THEN "failed" ELSE "bound"
    /\ UNCHANGED <<processVars, forced, srv, chainVars, reqVars, gwVars>>

\* initSleepCoordinator: validateEndpoint of the sleep client.
StartSleep ==
    /\ stage = "sleep"
    /\ IF ~Started("tracker") THEN stage' = "management" /\ UNCHANGED <<conf, refused, up, exit>>
       ELSE IF conf.solEndpoint = "loopback" THEN Fail /\ UNCHANGED <<conf, refused, up>>
       ELSE Up("sleep", "management")
    /\ UNCHANGED <<sender, listener, forced, srv, chainVars, reqVars, gwVars>>

AfterServer(s) == IF s = "management" THEN "metrics" ELSE "notify"

SkipServer(s) ==
    /\ stage = s /\ ~Enabled(s)
    /\ stage' = AfterServer(s)
    /\ UNCHANGED <<conf, refused, up, exit, sender, listener, forced, srv, chainVars, reqVars, gwVars>>

\* signal.Notify
Notify ==
    /\ stage = "notify"
    /\ stage' = "serving"
    /\ UNCHANGED <<conf, refused, up, exit, sender, listener, forced, srv, chainVars, reqVars, gwVars>>

--------------------------------------------------------------------------------
(* Server.Start and Stop of internal/management: run() waits for "started" *)

onlySrv == <<listener, forced, chainVars, reqVars, gwVars>>

StartServer(s) ==
    /\ stage = s /\ Enabled(s)
    /\ srv[s].runner = "none"
    /\ srv' = [srv EXCEPT ![s].runner = "spawned", ![s].closer = "asleep"]
    /\ UNCHANGED <<processVars, onlySrv>>

ServerRuns(s) ==
    /\ srv[s].runner = "spawned"
    /\ srv' = [srv EXCEPT ![s].runner = "begun", ![s].running = TRUE]
    /\ UNCHANGED <<processVars, onlySrv>>

ServerListens(s) ==
    /\ srv[s].runner = "begun"
    /\ ~Taken(Port(s))
    /\ srv' = [srv EXCEPT ![s].runner = "serving"]
    /\ UNCHANGED <<processVars, onlySrv>>

\* Mutant: started is left to the other goroutine.
ServerFailsUnannounced(s) ==
    /\ srv[s].runner = "begun"
    /\ Taken(Port(s))
    /\ srv' = [srv EXCEPT ![s].runner = "failed", ![s].running = FALSE, ![s].startErr = TRUE]
    /\ UNCHANGED <<processVars, onlySrv>>

\* ListenAndServe cannot bind the port.
ServerFails(s) ==
    /\ srv[s].runner = "begun"
    /\ Taken(Port(s))
    /\ srv' = [srv EXCEPT ![s].runner = "failed", ![s].running = FALSE,
                          ![s].startErr = TRUE, ![s].started = TRUE]
    /\ UNCHANGED <<processVars, onlySrv>>

\* After 100 ms, wherever the runner has come to; what it was at is kept as a history.
CloseStarted(s) ==
    /\ srv[s].closer = "asleep"
    /\ srv' = [srv EXCEPT ![s].closer = srv[s].runner, ![s].started = @ \/ srv[s].running]
    /\ UNCHANGED <<processVars, onlySrv>>

\* <-s.started
ServerStarted(s) ==
    /\ stage = s /\ srv[s].started
    /\ IF srv[s].startErr THEN Fail /\ UNCHANGED <<conf, refused, up>> ELSE Up(s, AfterServer(s))
    /\ UNCHANGED <<sender, srv, onlySrv>>

Server(s) ==
    \/ StartServer(s) \/ ServerRuns(s) \/ ServerListens(s) \/ ServerFails(s)
    \/ CloseStarted(s) \/ ServerStarted(s)

--------------------------------------------------------------------------------
(* The way down *)

\* <-sigChan
ReceiveSignal ==
    /\ stage = "serving"
    /\ stage' = "unwinding" /\ exit' = "ok"
    /\ UNCHANGED <<conf, refused, up, sender, listener, forced, srv, chainVars, reqVars, gwVars>>

\* Before Notify a signal has its default effect, and nothing is unwound.
KilledBySignal ==
    /\ stage \in Startup \/ (stage = "unwinding" /\ exit = "error")
    /\ stage' = "exited" /\ exit' = "killed"
    /\ UNCHANGED <<conf, refused, up, sender, listener, forced, srv, chainVars, reqVars, gwVars>>

\* Mutant: the parts are stopped in the order they were started.
UnwindsFirst(part) ==
    stage = "unwinding" /\ up # <<>> /\ Head(up) = part /\ up' = Tail(up)

\* The latest deferred Stop, done.
Unwinds(part) ==
    /\ stage = "unwinding" /\ up # <<>>
    /\ up[Len(up)] = part
    /\ up' = SubSeq(up, 1, Len(up) - 1)

StopPart ==
    /\ \E part \in {"config", "health", "tracker", "sleep"} : Unwinds(part)
    /\ UNCHANGED <<conf, refused, stage, exit, sender, listener, forced, srv, chainVars, reqVars, gwVars>>

\* Shutdown, also of a server that has not bound its port yet: it never will.  One
\* that has failed is not running, and there is nothing to stop.
StopServer(s) ==
    /\ Unwinds(s)
    /\ srv' = IF srv[s].running
              THEN [srv EXCEPT ![s].runner = "shut", ![s].running = FALSE] ELSE srv
    /\ UNCHANGED <<conf, refused, stage, exit, sender, onlySrv>>

StoppingRoutes == stage = "unwinding" /\ up # <<>> /\ up[Len(up)] = "routes"

\* RouteManager.Stop: Shutdown closes the port, and waits for the request;
ShutRoutes ==
    /\ StoppingRoutes
    /\ listener \in {"spawned", "bound", "failed"}
    /\ listener' = "draining"
    /\ UNCHANGED <<processVars, forced, srv, chainVars, reqVars, gwVars>>

\* Mutant: Shutdown does not wait for the request.
RoutesDrainAtOnce ==
    /\ StoppingRoutes
    /\ listener = "draining"
    /\ listener' = "shut"
    /\ UNCHANGED <<processVars, forced, srv, chainVars, reqVars, gwVars>>

RoutesDrain ==
    /\ StoppingRoutes
    /\ listener = "draining"
    /\ pc \in {"none", "done"}
    /\ listener' = "shut"
    /\ UNCHANGED <<processVars, forced, srv, chainVars, reqVars, gwVars>>

\* Mutant: Shutdown has no timeout.
RoutesAreNotForced == FALSE /\ UNCHANGED vars

\* ... for the shutdown timeout: then server.Close closes the connection.
RoutesAreForced ==
    /\ StoppingRoutes
    /\ listener = "draining"
    /\ pc \notin {"none", "done"}
    /\ listener' = "shut"
    /\ forced' = TRUE
    /\ gone' = TRUE
    /\ UNCHANGED <<processVars, srv, chainVars, pc, timeVars, healthy, backend, connVars,
                   logVars, gwVars>>

\* The wake coordinator's Close, which waits for the wake's goroutine.
CloseCoordinator ==
    /\ StoppingRoutes
    /\ listener = "shut" /\ ~closing
    /\ closing' = TRUE
    /\ UNCHANGED <<processVars, listener, forced, srv, gate, recorder, reqVars, gwVars>>

StopRoutes ==
    /\ Unwinds("routes")
    /\ closing
    /\ call \in {"idle", "done"}
    /\ UNCHANGED <<conf, refused, stage, exit, sender, listener, forced, srv, chainVars, reqVars, gwVars>>

Exit ==
    /\ stage = "unwinding" /\ up = <<>>
    /\ stage' = "exited"
    /\ UNCHANGED <<conf, refused, up, exit, sender, listener, forced, srv, chainVars, reqVars, gwVars>>

Unwind ==
    \/ StopPart \/ \E s \in Servers : StopServer(s)
    \/ ShutRoutes \/ RoutesDrain \/ RoutesAreForced \/ CloseCoordinator \/ StopRoutes
    \/ Exit

--------------------------------------------------------------------------------
Start ==
    \/ InitMetrics \/ LoadConfig \/ StartHealth \/ InitWake \/ StartTracker
    \/ StartRoutes \/ ListenerBinds \/ StartSleep \/ Notify
    \/ \E s \in Servers : SkipServer(s) \/ Server(s)

\* The request comes while the listener serves, and lives as long as the process.
Request ==
    /\ stage # "exited"
    /\ \/ Arrive /\ listener = "bound" /\ conf \in Requested
       \/ Handler
       \/ Tick
       \/ Backend
       \/ ConnectionCloses
       \/ HealthChanges /\ Started("health")
    /\ UNCHANGED <<processVars, listener, forced, srv, chainVars>>

Next ==
    \/ stage # "exited" /\ Start
    \/ ReceiveSignal \/ KilledBySignal \/ Unwind
    \/ Request

SafeSpec == Init /\ [][Next]_vars

\* The goroutines of smaug run and time passes; the server, the backend and the
\* client owe nothing, and nobody has to send a signal.
Spec ==
    /\ SafeSpec
    /\ WF_vars(stage # "exited" /\ Start) /\ WF_vars(Unwind)
    /\ WF_vars(stage # "exited" /\ (Handler \/ Tick) /\ UNCHANGED <<processVars, listener, forced, srv, chainVars>>)

--------------------------------------------------------------------------------
(* Properties *)

\* main.go:358-477: the process ends with an error only for its collectors, the file,
\* the watch of the file's directory, a client that refuses what validation accepts,
\* or a management port that somebody else may have.
FailsForCause ==
    exit = "error" =>
        \/ "registry" \in refused \/ "watcher" \in refused
        \/ ~Load(conf)
        \/ conf.gwURL # "" /\ conf.wolOn /\ conf.gwKey = ""
        \/ Served /\ conf.solOn /\ conf.solEndpoint = "loopback"
        \/ \E s \in Servers : Enabled(s) /\
             \/ Port(s) \in Foreign \cup {conf.listen}
             \/ \E t \in Servers \ {s} : Enabled(t) /\ Port(t) = Port(s)

\* What the configuration enables is there once smaug serves: the tracker and the
\* sleep coordinator run, the route is gated, unless Gwaihir or the machine is not
\* configured (main.go:276-313, route_manager.go:425-484: every zero value is
\* replaced by a default), and both management servers listen, except one that was
\* reported up after running had been set and before its port was bound
\* (server.go:81-98): it may still get its port, or not.
EnabledIsStarted ==
    stage = "serving" =>
        /\ \A s \in Servers : Enabled(s) =>
             Started(s) /\ (srv[s].runner = "serving" \/ srv[s].closer = "begun")
        /\ Served /\ conf.solOn => Started("tracker") /\ Started("sleep")
        /\ Served /\ conf.wolOn => gate \/ conf.gwURL = "" \/ conf.machineID = ""

\* The defers unwind in the right order (main.go:380-476): a request that is still
\* served has the health store's manager, the idle tracker and the configuration
\* behind it, and the sleep coordinator never outlives the tracker it reads from.
DependenciesOutlive ==
    stage # "exited" =>
        /\ pc \notin {"none", "done"} /\ ~forced =>
             /\ Started("config") /\ Started("health") /\ Started("routes")
             /\ recorder = "tracker" => Started("tracker")
        /\ Started("sleep") => Started("tracker")

\* "Graceful shutdown": unless run() was killed, no port is left open or about to be
\* opened, every part has been stopped, and no request has been abandoned that was
\* not over time.
NothingLeft ==
    stage = "exited" /\ exit # "killed" =>
        /\ up = <<>>
        /\ listener \in {"none", "shut"}
        /\ \A s \in Servers : srv[s].runner \in {"none", "failed", "shut"}
        /\ pc \in {"none", "done"} \/ forced

\* run() waits for a server that nobody will report: it listens, but was not running
\* yet when its closer looked, 100 ms after the start (server.go:81-90).
Hangs == \E s \in Servers :
    stage = s /\ srv[s].closer = "spawned" /\ srv[s].runner = "serving"

\* "Wait for startup to complete (success or failure)" (server.go:131): run() gets
\* through its startup, although it waits for the management servers; the one way
\* for it not to is a server that had not begun to run within its 100 ms.
StartupEnds == stage = "registry" ~> stage \in {"serving", "unwinding", "exited"} \/ Hangs

\* A shutdown ends, whatever the backend and the wake are at.
ShutdownEnds == stage = "unwinding" ~> stage = "exited"
================================================================================
