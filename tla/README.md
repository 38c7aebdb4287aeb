# A TLA+ model of smaug

smaug is a reverse proxy in front of home servers that sleep. A request for a
sleeping server wakes it (Wake-on-LAN through the Gwaihir service); a route
without requests for a while puts its server to sleep; the configuration file
may change while the program runs. This directory holds TLA+ modules of the
parts of smaug whose correctness depends on the order of events, the TLC
configurations that check them, and TLAPS proofs of their safety properties.

The reference is the code under `src/`. `PROJECT.json` names, for every
definition that models code, the lines it stands for, and for every property
the run that checks it and a mutation of the code that the run detects.

## 1. Inventory

| Component (source) | State it keeps | Operations | Interacts with |
|---|---|---|---|
| **WakeCoordinator** `internal/proxy/wake_coordinator.go` | `wakeInFlight`, `lastWoLAt`, `wg`, `done` | `ServeHTTP` (`ensureWake`, `waitForWake`, `pollUntilHealthy`), the goroutine `performWake`, `Close` | one per route: health store (read), Gwaihir client, RouteManager (closes it) |
| **IdleTracker** `internal/proxy/idle_tracker.go` | `lastSeen`, `thresholds`, `running`/`cancel`/`done` | `RecordActivity`, `RegisterRoute`, `runChecker`, `Start`, `Stop` | proxy handler (calls it), channel of triggers to SleepCoordinator |
| **SleepCoordinator** `internal/proxy/sleep_coordinator.go`, `routeSleepSender` in `cmd/smaug/main.go` | `running`/`cancel`/`done` | `runLoop`, `handleTrigger`, `Start`, `Stop` | triggers, health store (read), sleep client |
| **ConfigManager** `internal/config/manager.go` | the configuration, a signal channel of one element, `done` | `watch` (debounce), `reload`, `Stop` | the file, RouteManager (signal) |
| **RouteManager** `internal/proxy/route_manager.go`, `reload.go` | `routes`, `routeMap`, a state per listener | `Start`, `Stop`, `watchConfigReloads`, `applyRouteChanges`, `runListener` | ConfigManager, the HTTP servers, WakeCoordinators |
| **HealthManager**, checker and store `internal/health`, `internal/store` | status of each server; `cancel`, `wg` | a worker per server, `Start`, `Stop` | the wake gate and the sleep sender read the store |
| **GwaihirClient** `internal/client/gwaihir` | - | `SendWoL` with retries | WakeCoordinator |
| **Main** `cmd/smaug/main.go` | which parts are up | `run`: startup, signal, deferred stops | all |
| Management servers `internal/management` | `running`, `started` | `Start`, `Stop` | Main |
| ProxyHandler `internal/proxy/proxy.go` | - | `ServeHTTP`, the hooks of the reverse proxy | IdleTracker |
| Middleware `internal/middleware` | a response writer per request | recovery, logging | handlers |
| ConfigLoader `internal/config/{loader,substitute,validation}.go` | - | read, parse, substitute, validate | ConfigManager, Main |
| SleepClient `internal/client/sleep` | - | one request, no retry | SleepCoordinator |
| Management handlers | - | version, number of routes | - |
| Infrastructure | - | logging, Prometheus | all |

How the parts meet: the health workers write the store; the wake gate and the
sleep sender only read it. A request passes recovery and logging, then the wake
gate of its route, then the proxy handler, which records its activity and asks
the backend. The checker of the IdleTracker sends routes over a bounded channel
to the SleepCoordinator. The ConfigManager stores a new configuration and sends a
signal; the watcher of the RouteManager replaces listeners, each of which may
have a wake coordinator of its own. `run` starts the parts one after another and
unwinds them in the opposite order.

What is hard here:

- *Wake gate.* Any number of handlers race for one slot; a wake outlives the
  request that started it; its result is handed over by closing a channel; the
  slot, the channel and the WaitGroup change at different moments.
- *Sleep pipeline.* Clocks are read before locks are taken; the channel may be
  full; routes share servers; a trigger is acted on long after it was emitted.
- *Lifecycle.* `Stop` captures what it stops under a lock and waits outside it.
- *Reload.* Signals are dropped when the channel is full, reloads run on timer
  goroutines that nobody waits for, the file may be broken for a while.
- *Routes.* Two indexes of the listeners, stops that fail half-way, ports that
  move between listeners, a `Stop` in the middle of a reload.
- *Health.* A `Stop` cancels checks whose failure is still stored, and all
  cycles of workers share one WaitGroup.
- *Request and wake.* Four timeouts that know nothing of one another (attempt,
  backoff, wake, write deadline), retries of a command that may have been
  executed, a panic that crosses the middleware, a 1xx that looks like an answer.
- *Process.* An error half-way through startup when requests are already served;
  management servers that are reported up by a goroutine that looks once, 100 ms
  after the start; a shutdown that has to wait for a request that waits for a wake.

`PROJECT.json`, `hazards`, lists these one by one with their lines.

## 2. Modules

| Module | Models | Proofs |
|---|---|---|
| `WakeGate` | what a wake gate promises (abstract specification) | |
| `WakeCoordinator` | `wake_coordinator.go`; implements `WakeGate` | `WakeCoordinatorProofs` |
| `SleepPipeline` | IdleTracker's checker, the channel, SleepCoordinator's loop, `routeSleepSender` | `SleepPipelineProofs` |
| `Lifecycle` | `Start`/`Stop` of IdleTracker and SleepCoordinator (one pattern) | `LifecycleProofs` |
| `ConfigManager` | `watch`, `reload`, `Stop`, the reader of the signal | `ConfigManagerProofs` |
| `RouteManager` | listeners, the reload watcher, `Stop` | `RouteManagerProofs` |
| `HealthManager` | workers, checks, store, `Start`, `Stop` | `HealthManagerProofs` |
| `GwaihirClient` | one `SendWoL` | `GwaihirClientProofs` |
| `RequestPath` | one request through the handler chain; extends `GwaihirClient` | `SmaugProofs` |
| `ConfigValidation` | `Load`: which configurations are accepted | |
| `Smaug` | `run()` and the management servers; composes `RequestPath` and `ConfigValidation` | `SmaugProofs` |
| `MC...` | instances for TLC | |

### WakeCoordinator

`req[r]` is where the handler of request `r` is: at the gate (`ServeHTTP`), in
`ensureWake` (lock), about to spawn (after the unlock, before `wg.Add`), in
`waitForWake`, or polling by itself inside the debounce. `wake[w]` follows the
goroutine `performWake` of the wake that request `w` started: registered in the
slot, started, sending, polling, polled, published (`wake.err` set and `done`
closed), cleared (slot freed), exited (`wg.Done`). A critical section is one
action; what lies between two critical sections is interleaved. `result` is the
local `err`, `wakeErr` the field joiners read. Timers are countdowns; the time
since the last WoL saturates at `Debounce`. The outcome of `SendWoL` does not
matter to the gate (a failure is only logged), so it is one action here.
`Graceful` says whether `Close` is called only when every handler has returned
(`server.Shutdown` succeeded) or also after a forced `server.Close`.

`WakeGate` states the promise without slots, channels or timers: each request is
answered once; it is forwarded only on a healthy server or on the verdict of a
wake of its route that saw the server healthy; one wake per route; every wake
reaches one verdict and frees its route. The mapping is `Gate` at the end of
`WakeCoordinator`: `waking <- inFlight`, a verdict is a `result`.

### SleepPipeline

`age[rt]` is `now - lastSeen[rt]`, saturating where the code no longer tells
ages apart. `RecordActivity` and `checkIdleRoutes` read the clock (`hage`,
`nowAge`) before they get the lock; `MaxLag` bounds how long they wait. The scan
visits routes in any order (Go map), the send to `ch` does not block, and only a
send that succeeds resets `lastSeen`. The consumer drops a trigger without a
sleep client or for a server that is known to be unhealthy, otherwise it is busy
until `client.Sleep` returns. `quiet` and `spaced` are history: the time since
the last request and since the last trigger.

### Lifecycle

A cycle is one successful `Start`: its context and its `done` channel. `Stop`
marks the loop not running and captures the cycle (`StopBegin`, under the lock),
cancels it and waits (`StopCancel`, `StopReturn`, outside). The context given to
`Start` may be cancelled by its owner, of which the struct is not told.

### ConfigManager

The file is a version number; versions in `Broken` do not load. An edit stands for a
write of the file that `watch` is told of (it drops events of other files and of
other kinds). `watch` turns
events into one armed timer; `TimerFires` starts a reload, a goroutine with the
steps check of `done`, load, store, signal. `applied` is the configuration the
RouteManager's watcher last read; while it changes the routes (`reader` is
"apply") further signals may come. `Overlap` says whether a reload may take
longer than the debounce of one second, so that the next one starts beside it.

### RouteManager

A listener is named by the order in which it is made, which is its order in
`m.routes`. `server` is what net/http knows of it (listening, draining in
`Shutdown`, shut, failed to bind), `state` is what the code believes, `started`,
`runner` and `starter` are its channel and its two goroutines: the one in
`ListenAndServe` and the one that, after 100 ms, reads the state, leaves the
lock and sets it to running. `routes` and `routeMap` are the two indexes. The
watcher's actions follow `handleReload`: compute the differences from the list
(`DetectChanges`), stop route after route (`StopRoute`, `StopRouteShutdown`,
`StopRouteReturn` or `StopRouteFail`), `Cleanup`, start route after route
(`StartRoute`, `StartRouteReturn`). `Stop` runs next to all this (`StopBegin`,
`StopNext`, ..., `StopJoinWatcher` for `reloadWg.Wait`, `StopReturn` for the wait
for the runners with its timeout). A foreign program may hold a port. Two things are
one step here: the store of a configuration and its signal, which `ConfigManager` has
apart, and `ListenAndServe`'s look at whether the server has been shut and its bind.
`Versions` bounds what the file is changed to, edit by edit.

A configuration is a set of routes with distinct ports. That is an assumption on
whoever writes the file (`RouteAssumption`): `validation.go` looks at each port by
itself and lets two routes with one port, or with one name and port, pass. Two
routes with one key in different configurations are two versions of one route.
Routes are stopped and started in any order, as map iteration gives them.
`startRoute`'s wait of 5 s is taken to be longer than the 100 ms of the starter,
so it ends by its timeout only if the starter has gone without closing `started`.

### HealthManager

A cycle is one successful `Start` with one worker per monitored server (an
endpoint and a positive interval). `work` is where a worker's goroutine is:
spawned, checking (a request with `checkCtx`), checked (about to write the
store), waiting in its `select`, exited. `CheckHealth` maps what the server
answers at the moment the check returns to what the store shows; that an answer may
have been on its way for a while, as `StoreConverges` would then have to allow for, is
not modelled. `getFailureReason` only names a label of a metric. `Stop` captures `m.cancel` under the lock
(`StopBegin`), cancels outside (`StopCancel`), and waits on `m.wg`, which counts
the workers of all cycles, until it is zero (`StopReturn`) or five seconds are
over (`StopGivesUp`). Cancelled checks still store their failure. Time is in
ticks and passes only when no goroutine has anything to do at once. `calm`
is history: how long neither server nor manager has changed.

### GwaihirClient

`call` is where `sendWithRetry` is, `attempt` its loop variable, `timer` the time
left of the attempt (`http.Client.Timeout`) or of the backoff. An attempt ends by an
answer with a body (`AnswerRead`), an answer whose body cannot be read
(`AnswerCut`) or none (`AnswerLost`); a success or a readable 4xx is final, all
else is backed off (`Backoff`: doubled, capped, jittered by up to a tenth) or, after the last attempt,
made into the result (`HandleWoLResponse`). The context of the wake may end at
any point. Gwaihir itself is external: with a success it has sent the packet,
with a 4xx it has not, otherwise nobody knows (`woken` in `answer`).

### RequestPath

One request: `pc` is where it is in the chain that `main.go` and
`createListener` build. `gate` says whether the route has a wake coordinator;
the gate is what `WakeGate` promises, for one request, with the wake spelled out
as `SendWoL` and then the polling, both under the wake's timeout. `wrapped` is
`LoggingResponseWriter` (the first `WriteHeader` counts), `header` what the
connection has really been given; they differ when a 1xx came first. `seen` is
what the client has when the handler has returned: everything when the
connection is open and the write deadline not over, at most what was streamed
before when it is. `clock` runs from the reading of the header, as
`WriteTimeout` does, and saturates at `MaxClock`. The backend, `net/http` and
`httputil.ReverseProxy` are external and modelled by what the code sees of them.

### ConfigValidation and Smaug

`Load` of `ConfigValidation` is a test on a record with one field for each thing
the validation looks at; the substitution of environment variables is left out.
`Smaug` follows `run()`: `stage` is the part it starts next, `up` the parts whose
`Stop` is deferred, in order. `refused` is what the system refuses the process: a
collector of the metrics registry (`InitMetrics`), or the watch of the file's
directory, without which `NewManager` fails although the file has loaded
(`LoadConfig`). The health manager, the tracker and the sleep
coordinator have modules of their own for what happens between their `Start` and
`Stop`; here they are up or not, and only what may fail or decides about others
is modelled: the API key without which `initWakeOptions` fails, the tracker that
is nil when nothing sleeps, the endpoint the sleep client refuses, the defaults
that `wrapWithWakeCoordinator` puts in. Each management server has its two
goroutines and the channel `started` that `run()` waits on (`srv`): the runner, which
sets `running` and then is in `ListenAndServe`, and the closer, which looks at
`running` once, 100 ms after the start and wherever the runner has come to
(`CloseStarted`); `closer` keeps what the runner was at, as a history. The route's
listener binds its port whenever its goroutine comes to it, since
`RouteManager.Start` does not wait. The way down stops the latest part first;
`RouteManager.Stop` is `ShutRoutes`, `RoutesDrain` or `RoutesAreForced`,
`CloseCoordinator`, `StopRoutes`. A signal before `signal.Notify` kills.

## 3. Runs

| Run | Bounds | Shows |
|---|---|---|
| `wake_safety` | 3 requests, 1 route, timeout 1, debounce 2, graceful close | single flight, justified answers, clean `Close` |
| `wake_live` | 2 requests, any close | every request answered, `Close` returns, refinement of `WakeGate` |
| `sleep` | 1 tracked and 1 untracked route, 2 handlers, channel of 1, lag 1, idle timeout 2 | triggers are for idle routes and an idle timeout apart; a route that stays idle is handled again and again |
| `sleep_sibling` | 2 routes of one server | **violated**: an idle route puts a busy server to sleep |
| `lifecycle` | 3 callers, 3 cycles | no orphan, `Stop` waits for its own cycle, `Stop` returns |
| `config_reload` | 4 edits, one broken | nothing lost, the last good edit arrives, `Stop` |
| `route_reload` | a route modified, then renamed on its port; 3 listeners, the port may be taken | port discipline, bookkeeping, a quiet manager serves its configuration, a reload ends, `Stop` returns |
| `route_stop` | 2 routes, 1 edit, 3 listeners | **violated**: `Stop` during a reload leaves a listener |
| `health` | 1 monitored and 1 skipped server, 2 cycles, interval 2, check timeout 3, stop timeout 2 | the store converges, a stopped manager is quiet, `Stop` returns |
| `process` | 44 configuration files, 3 of them with a request; 3 attempts, wake timeout 4, write timeout 6 | the process from the file to its exit |
| `slow_wake` | a gated route, wake timeout 4, write timeout 3 | **violated**: a client whose server is woken gets no answer |
| `startup_untracked` | the configuration without Sleep-on-LAN | **violated**: every request panics |

Why the bounds are enough for what the runs ask:

- *wake*: three requests are the smallest number with a starter, a joiner and a
  late comer that starts the next wake while the first is being cleared. Two
  suffice for liveness and refinement, where a wake ends and another follows.
  Timeout 1 and debounce 2 make all orders of "wake over" and "debounce over"
  happen.
- *sleep*: with a timeout of 2, a lag of 1 and a check every tick every relation
  of age, lag and timeout occurs; a channel of one element is full at once. Two
  handlers are needed for one to overtake another.
- *lifecycle*: three callers and cycles let a `Stop` and two `Start`s overtake
  one another.
- *config*: a good, a broken and again a good edit while a reload is running.
- *routes*: the first edit replaces a route by a new version of it, the second by one
  with another name that keeps the port, which may come while the first reload is
  running, or after a stop that failed half-way or a bind that failed. A second order of
  the edits doubles the states (870,000) and the time, and two routes per
  configuration with two edits are beyond a run of minutes; two routes appear in
  `route_stop` only, with one edit. The theorems on these properties are
  for any configurations and edits.
- *health*: a check may outlast the interval (timeout 3 > 2), so that a tick is
  waiting when it returns; a `Stop` and the next `Start` overlap in any way; the
  stop timeout is shorter than a check, so giving up is possible.
- *process*: `MCSmaug` lists one configuration with everything in it, its
  variants with one field refused by `Load` and its variants with one feature on
  or off, a port taken by another program (22), by the route or by the other
  server, and the values that validation accepts and startup refuses. Each is started
  with and without a refusal of the registry and of the watch. A request is made in
  three of them: a gated route; one whose startup fails at the management server, when
  the request may already be served; and no Sleep-on-LAN. The others differ in what
  happens before a request. Three attempts with a delay of one tick and attempts of
  one tick can end before or with the wake's timeout of 4, or be cut short by it in a
  delay; with a timeout of 5 the last could not happen, as `RetriesEndBeforeTheWake`
  shows. `MaxClock` is `WriteTimeout`, beyond which nothing depends on the time of the
  request. The statuses stand for a success, the two refusals that are told apart,
  and an error that is retried.
- *slow wake*: `process` has a wake timeout below the write timeout; that a client whose
  server has been woken is answered is not among its properties, because it is what
  that inequality decides. `slow_wake` has the opposite inequality, with one attempt
  and one success, and finds the property violated; `WokenGetsAnswer` proves it for
  every configuration whose wake timeout is the smaller.

`CHECK_DEADLOCK FALSE` is set where the system really stops: edits, listeners and
cycles are bounded (`lifecycle`, `config_reload`, `route_*`: `MaxEdits`,
`MaxListeners`, `MaxCycles`), and the process exits (`process`, `slow_wake`,
`startup_untracked`). The other runs check deadlock.

### Fairness

Every goroutine that can run does (weak fairness per goroutine); nothing is
assumed of clients, of the servers' health, of edits or of calls of `Start` and
`Stop`. Three strong ones: `Exit` of `Lifecycle` and `ExitWorker` of
`HealthManager`, because Go's `select` chooses fairly between a tick and a
cancelled context, so a cancelled loop cannot take ticks for ever; and `Tick` of
`SleepPipeline`, because a goroutine that waits for the lock with its clock read
(`MaxLag`) may hold time up in the model, but never for ever.
`IdleRouteIsHandled` is claimed for one tracked route: with several and a slow
consumer a map order that is always the same can starve one of them. In `Smaug`
the steps of startup (the closer's and the runner's of each server among them, in any
order), of unwinding, and of the handler with the clock are weakly fair; Gwaihir, the
backend, the client and the operator owe nothing, so that `ShutdownEnds` rests on the
code's own timeouts.

### Properties, and what each is against

- `SlotNamesTheWake`: two wakes of a route at once; a wake that frees the slot of
  its successor.
- `ForwardedOnSuccess`: a joiner that reads the zero value of `wake.err`.
- `RefusedForCause`: a client that leaves and fails all others that joined its
  wake.
- `CloseLeavesNoWake`: a wake that outlives `Close`.
- `TriggersOnlyIdleRoutes`, `TriggersAreSpaced`: stale clocks that make a busy
  route look idle.
- `NoOrphan`, `StopIsOfItsCycle`, `StopReturns`: a `Start` between the two halves
  of a `Stop`.
- `NoLostSignal`, `QuietMeansCurrent`, `EditReachesRoutes`: an edit lost to the
  debounce or to a full channel.
- `NoReloadStartsAfterStop`: the debounce timer that fires after `Stop`.
- `PortsAreDistinct`: a new listener that cannot bind because its own
  predecessor is still there.
- `LiveIsListed`, `ListedIsMapped`: a listener that nobody finds any more.
- `QuietServesConfig`: a reload that leaves an old route running or a new one
  out.
- `StoreConverges`: a store that keeps showing what a server no longer answers.
- `StopMeansQuiet`, `StopGivesUpForCause`: a worker that writes after `Stop`; a
  `Stop` that times out although its own workers are gone, for another cause than
  a `Start` beside it.
- `ResultTellsTheAnswer`, `DefiniteAnswersEnd`, `RetriesAreBounded`: a result from
  another attempt than the last, a retry of what was settled, retries that use
  up the wake.
- `AnswersAreTold`, `LogTellsStatus`: an answer, or the line in the log, that is not
  what happened to the request. `WokenIsAnswered` (`slow_wake`): a wait at the gate
  that uses up the time for the answer.
- `FailsForCause`: a start that fails for anything but a refused collector or watch, the
  file, a client that refuses what validation accepts, or a management port.
- `EnabledIsStarted`: a feature that is left out in silence. It excepts, by name, a
  management server that was reported up between `running` and its bind, which may
  yet fail.
- `StartupEnds`: a start that hangs. It excepts, as `Hangs`, the server that was not
  `running` when its closer looked and then binds its port: nobody closes `started`.
- `DependenciesOutlive`, `NothingLeft`, `ShutdownEnds`: defers in the wrong order,
  something left running or about to listen, a shutdown that hangs on a request.

## 4. Where the code and its documentation differ

Runs that end in a violation:

1. `sleep_sibling`: the idle time of one route decides about the server of all.
2. `route_stop`: `Stop` copies the list of listeners (`route_manager.go:281`)
   while a reload may still add one, which is then never shut.
3. `startup_untracked`: without Sleep-on-LAN `initIdleTracker` returns a nil
   `*IdleTracker`, which as an `ActivityRecorder` is not nil (`main.go:429`,
   `:264`): `RecordActivity` panics on every request, and the client gets a 500.
4. `slow_wake`: `README.md:538` says "Increase `wakeOnLan.timeout` if servers take
   > 60s to wake", and the example at `:229` has 60 s; every listener's
   `WriteTimeout` is 60 s from the header (`route_manager.go:400`) and runs while the
   request waits. With the wake's timeout above it the server wakes, the request is
   forwarded, and the client gets nothing.

Seen in the models, without a run of their own.

*Wake and sleep*

- `wrapWithWakeCoordinator` gives each route a coordinator with its own
  `lastWoLAt` (`route_manager.go:453`), while the debounce is a setting of the
  server (`config/types.go:68`); a reload that modifies a route starts afresh.
- A request between `close(wake.done)` (`wake_coordinator.go:289`) and
  `wakeInFlight = nil` (`:291-293`) joins a wake that is over.
- After a forced `server.Close` a handler between its unlock and `wg.Add`
  (`:243`) starts a wake after `Close` has returned (`Graceful = FALSE`).
- A trigger that waited in the channel is acted on without another look at the
  route (`sleep_coordinator.go:177`).
- `Stop` clears `running` before its goroutine has ended (`idle_tracker.go:228`),
  so that a `Start` runs a second checker next to the first for a while.
- A 4xx of Gwaihir whose body cannot be read is retried
  (`client.go:214-242`, against "never retried" at `:144`).
- A server with Wake-on-LAN but no health endpoint never becomes healthy, so
  every wake for it expires; without a machine ID its route is not gated at all.

*Requests*

- A 1xx of the backend is taken for the answer by `LoggingResponseWriter`
  (`logging.go:31`): the final status is swallowed and the client gets a 200.
- Recovery swallows the panic with which the reverse proxy aborts a body that
  broke off, so the client sees it end as if it were complete. A request that
  panicked has no "response" line.

*Configuration and routes*

- A reload that outlasts the debounce stores its older configuration over a newer
  one (`config/manager.go:198`, `Overlap = TRUE`); a reload that has passed its
  check of `done` stores after `Stop` has returned (`:165`).
- `stopRoute` returns the error of `Shutdown` before it closes the wake
  coordinator (`route_manager.go:560`), and a later reload drops the listener.
- A listener that failed to bind, or whose stop failed, counts as unchanged in
  later reloads and is not tried again; `Start` reports success without waiting
  for its listeners, so smaug may serve nothing and say so only in the log.
- Two routes with one port pass the validation.

*Process and health*

- Configurations that validation accepts and startup refuses: a Gwaihir URL with
  Wake-on-LAN and no API key; a sleep endpoint on the machine itself.
- The management and the metrics server are reported up by a goroutine that looks at
  `running` once, after 100 ms (`health/server.go:81-90`). When the goroutine that
  sets it is later than that and then binds its port, `started` is never closed
  and `run` waits for ever, before `signal.Notify`, with its routes served: `Hangs`.
  Without that exception TLC finds `StartupEnds` violated.
- When the look comes after `running` is set and before the bind (`:96-100`), `Start`
  returns nil, although it "fails to bind immediately" (`:57`): smaug then serves
  without that server and says so only in the log, or with it if the port is free.
  Without that exception TLC finds `EnabledIsStarted` violated.
- A signal before `signal.Notify` (`main.go:485`) ends the process at once, with
  the parts that are already up.
- `health.go:116` wraps the error of a check with `%v`, so the reasons "timeout"
  and "too many redirects" are never reported.
- A `Start` of the HealthManager beside a `Stop` makes that `Stop` wait for
  workers it has not cancelled. The program calls each once; it is a matter of
  the interface only.

## 5. Proofs

TLC checks the instances above; the following holds for every value of the
constants that satisfies the module's `ASSUME`. Each argument is an inductive
invariant that was checked by TLC before it was proved.

- `WakeCoordinatorProofs`. `WakeInv` is inductive (`WakeInvariance`). The four
  safety properties are not inductive alone: that the slot names the wake that
  runs needs that a slot is of its own route (`SlotIsOfRoute`) and that a wake is
  registered exactly until its handler spawns it (`SpawnerRegistered`); that an
  answer is justified needs that a joined wake is of the same route
  (`JoinedIsOfRoute`), that its result is known before it is published
  (`ResultWhenPolled`) and that a wake gives up for a cause (`TimeoutForCause`);
  that `Close` is clean needs that the WaitGroup counts every goroutine
  (`WaitGroupCounts`) and that a graceful shutdown leaves no handler
  (`ShutBeforeClose`). `CoordinatorImplementsGate` shows with this invariant that
  every step is a step of `WakeGate` or a stutter.
- `SleepPipelineProofs`. From an invariant on the ages, for any routes, handlers
  and lag: `AgesAreRecent`, `TriggersAreForIdleRoutes`,
  `TriggersKeepTheirDistance`. `UnsharedServersAreIdle` delimits what `sleep_sibling`
  finds: `TriggersOnlyIdleServers` holds when no two routes with a timeout share a
  server.
- `LifecycleProofs`. `NoGoroutineIsOrphaned`, `StopWaitsForItsCycle`, for any
  callers and any number of cycles.
- `ConfigManagerProofs`. `SignalsAreNotLost`, `BrokenConfigsStayOut` and
  `StoppedManagerStartsNone`, for any number of edits, overlapping reloads
  included. `QuietIsCurrent` is for reloads that do not overlap: its invariant
  `CurrentInv` says that a reload about to store an older version is followed by
  another one, which needs that the timer does not fire meanwhile.
- `RouteManagerProofs`. `RouteInv` is inductive (`RouteInvariance`) and gives
  `ListenersNeverCompete`, `NoListenerIsLost` and `StopFindsItsListener`, for any
  configurations whose routes have distinct ports, any edits and listeners. That a
  port is free when a route is started needs that, from the comparison on, whoever
  holds the port of a route to be started is still to be stopped
  (`StartsAreFree`); that a stop finds that listener needs that a live listener is
  the one its key leads to (`LiveIsMapped`, `CurrentIsMapped`, `ToStopIsListed`);
  that no live listener is dropped from the list needs that what is dropped by its
  key or by its state is dead (`StoppedKeysAreDead`, `StoppedIsShut`).
  `FollowInv` is inductive relative to `RouteInv` and gives
  `QuietManagerServesConfig`. Its core, `RoutesFollowConfig`, says what is served,
  still to be stopped and still to be started between the comparison and the end
  of a reload, as long as no new signal is there; it needs that the map leads to
  listed listeners which serve unless they are under way or have failed
  (`MappedIsListed`, `MappedServes`) and that a start never drops a listener of
  another route by its state (`StoppedIsUnderway`).
  `LonelyStopStopsAll` delimits what `route_stop` finds: a `Stop` that no reload is
  running beside leaves no server listening (`StopInv`: what is up is still in the
  list that `Stop` works through).
- `HealthManagerProofs`. `HealthInv` is inductive (`HealthInvariance`) and gives
  `StoppedManagerIsQuiet` and `StopTimesOutForCause`, for any servers, intervals,
  timeouts and cycles. `CyclesRun` says that the WaitGroup counts exactly the
  workers that are there; `WaitedForOthers`, that after one tick of waiting the
  workers a `Stop` still waits for are a later cycle's. `ConvergeInv` is inductive
  relative to it (`ConvergeInvariance`) and gives `StoreFollowsServers`. It relates
  the clocks of a store that shows what its server no longer answers to the worker
  that will correct it: such a server has a keeper, whose next check begins with the
  next tick at the latest, and the time since the server changed leaves room for it
  (`StaleIsShort`); once time has passed since the last change nobody but the keeper
  writes the entry, and what it is about to write is what the server answers
  (`CalmIsKept`).
- `GwaihirClientProofs`. `BackoffIsCappedPower`: the delay that the loop of
  `Backoff` doubles and caps is `min(BaseDelay * 2^n, MaxDelay)`, for every `n`. The
  provers cannot instantiate the library's induction, whose predicate is an operator,
  so the module proves induction for sets (`LeastNat`, `NatSetInduction`) and from it
  that a recursion over the numbers has a function and only one (`RecursionExists`,
  `RecursionIsUnique`). `GwInv` is inductive (`GwInvariance`) and `GwTypeCorrect` gives
  the types; the lemmas on time (`Budget`, `InTime`) say that an attempt and a delay
  end within what `Slept` and the timeouts add up to.
- `SmaugProofs`, for any set of configuration files, statuses, ports, timeouts
  and attempts. `ProcessMakesCalls`: the process implements the specification of the
  Gwaihir client, so `GwInv` carries over and gives `ResultIsTrue` and
  `DefiniteIsFinal`. `TimeInv` (`TimeInvariance`) relates the clock of the request to
  the call's: a wake begins with its request and ends with its timeout, and an attempt
  is within its budget. It gives `RetriesTakeTheirTime`; `RetriesEndBeforeTheWake`,
  that retries that fit in the wake's timeout are never cut short by it; and, if
  `WakeTimeout < WriteTimeout`, `WokenGetsAnswer`. That the hypothesis is needed is
  what `slow_wake` finds. `RequestInv` says at each point of the chain what has been
  written and by whom (`FromBackend`, `FromSmaug`, `FromPanic`), and that the
  coordinator is closed only when the listener is shut; it gives `ClientIsTold`
  and `LogIsTrue`. `ProcInv` says what is up at each stage (`StageInv`), that the
  defers are in the order of the stages (`Ordered`), what each server's
  goroutines have done (`ServerInv`) and what depends on what (`DependInv`); since
  the way down always stops the part with the highest place, nothing that is
  needed goes first. `ServerInv` relates each server's two goroutines, in any order of
  their steps: what the runner has set (`RunnerInv`), what the closer saw and when it
  may have closed `started` (`CloserInv`). `ProcInv` gives `FailureHasCause`,
  `ServingIsComplete`, `RequestsKeepTheirParts` and `ShutdownIsClean`, and
  `OnlyAnEarlyLookHangs`: when both goroutines of a server have come as far as they
  get, `started` is closed unless the closer looked before `running` was set, the
  safety half of `StartupEnds`. `ProcessTypes` is type correctness
  of the whole. `TrackedPanicsOnlyOnAbort` delimits what `startup_untracked` finds: a
  process whose configuration has a tracker panics only when a body breaks off.

Only model-checked: liveness, and so the fairness half of `ImplementsGate`, since
neither fairness nor `ENABLED` is within the reach of the provers. Every invariant
and every action property of a passing run is stated by a theorem; of the violated
ones, `WokenIsAnswered`, `TriggersOnlyIdleServers`, `StopStopsAllListeners` and
`PanicsOnlyOnAbort` are proved, or proved of a part, under the condition that the run
breaks.

## 6. What is not modelled

- Metrics (beyond whether the registry takes its collectors), logging and the wording
  of errors, and the management handlers: no state depends on them. The metrics
  middleware is not used by the program.
- The remaining errors that `run` could return: those of constructors that are given
  nothing (a nil logger, a missing dependency) and of a second `Start`. `main.go`
  does neither.
- The substitution of environment variables in the configuration and the
  forwarded headers of a request: rewritings of text. Of the parsing, only whether
  it succeeds.
- The sleep client beyond what its endpoint and its one request can end in: it
  has no retry and its caller only logs.
- `Start` of the RouteManager with a cancelled context, without a configuration
  or called twice, and its read-only `GetActiveRouteCount`; the waiter for the
  context in the management servers, which the program gives a context that never ends.
- `RegisterRoute` after `Start` (the program registers all routes before).
- The panic of a WaitGroup that is reused while a `Wait` returns, which needs a
  `Start` beside a `Stop` that the program never does.
- One state space of all parts: `Smaug` has the request path and the lifecycle,
  the others are checked by themselves, against an environment that may do what
  their callers may do. In particular a server that really wakes and sleeps, with
  the tracker and the gate both acting on it, is not composed: no text of the
  repository says what should hold between the two.

## 7. Order of the work

Modelled in the order wake gate, sleep, lifecycle, configuration, routes (what
decides whether requests get through), then health, Gwaihir client, request
path, validation and process. What would come next is the composition of wake
and sleep over one server mentioned above, once it is decided what the two owe
each other, and the substitution of variables if it gets any state.
