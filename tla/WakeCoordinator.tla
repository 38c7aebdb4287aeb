---------------------------- MODULE WakeCoordinator ----------------------------
(***************************************************************************)
(* The Wake-on-LAN gate of internal/proxy/wake_coordinator.go.             *)
(*                                                                         *)
(* A WakeCoordinator is the http.Handler in front of one route.  A request *)
(* that finds the server unhealthy joins the wake in flight, or polls the  *)
(* health store by itself inside the debounce window, or starts a wake.    *)
(* A wake is a goroutine: it sends the WoL command, polls the health store *)
(* until WakeTimeout, publishes its result and frees the slot.             *)
(*                                                                         *)
(* Several routes may name the same server: each then has a coordinator of *)
(* its own over the one entry of the health store.  A wake is named by the *)
(* request that started it.  Clocks are countdowns, and the time since the *)
(* last WoL saturates at the debounce, so time itself is unbounded.        *)
(* A step between c.mu.Lock and c.mu.Unlock is one action.                 *)
(***************************************************************************)
EXTENDS Integers, FiniteSets

CONSTANTS
    Routes,        \* routes, all of them in front of one server
    Requests,      \* requests; each runs the handler once
    RouteOf,       \* [Requests -> Routes]
    None,          \* "no wake"
    WakeTimeout,   \* ticks a wake, or a request on its own, may poll
    Debounce,      \* ticks between the WoL commands of one coordinator
    Graceful       \* Close only once every handler has returned (Shutdown
                   \* succeeded), or also after a forced server.Close

ASSUME WakeAssumption ==
    /\ RouteOf \in [Requests -> Routes]
    /\ None \notin Requests
    /\ WakeTimeout \in Nat \ {0}
    /\ Debounce \in Nat
    /\ Graceful \in BOOLEAN

VARIABLES
    healthy,    \* found && status.Healthy of the server's store entry
    req,        \* where the handler of a request is
    joined,     \* the wake a request waits for (its inflightWake)
    ctxDone,    \* the request's context is cancelled: the client has gone
    reqTimer,   \* pollCtx of a request that polls by itself
    wake,       \* where the goroutine of a wake is
    result,     \* err of performWake: "none" before it is known
    wakeErr,    \* wake.err; Go's zero value is nil
    wakeTimer,  \* wakeCtx
    inFlight,   \* c.wakeInFlight
    sinceWoL,   \* time.Since(c.lastWoLAt), saturating at Debounce
    wg,         \* the wakes c.wg counts
    closer      \* c.Close(): not called, in wg.Wait, returned

reqVars  == <<req, joined, reqTimer>>
wakeVars == <<wake, result, wakeErr, wakeTimer>>
vars == <<healthy, reqVars, ctxDone, wakeVars, inFlight, sinceWoL, wg, closer>>

Answered == {"forwarded", "refused"}
Handling == {"gate", "ensure", "spawn", "wait", "poll"}
Running  == {"registered", "started", "sending", "polling", "polled"}
Done     == {"published", "cleared", "exited"}

\* The wakes of a route that still own its slot.
Owning == Running \cup {"published"}

WakesOf(rt) == {w \in Requests : RouteOf[w] = rt}
Closed(rt)  == closer[rt] # "open"

TypeOK ==
    /\ healthy \in BOOLEAN
    /\ req \in [Requests -> {"idle"} \cup Handling \cup Answered]
    /\ joined \in [Requests -> Requests \cup {None}]
    /\ ctxDone \in [Requests -> BOOLEAN]
    /\ reqTimer \in [Requests -> 0..WakeTimeout]
    /\ wake \in [Requests -> {"none"} \cup Running \cup Done]
    /\ result \in [Requests -> {"none", "nil", "timeout"}]
    /\ wakeErr \in [Requests -> {"nil", "timeout"}]
    /\ wakeTimer \in [Requests -> 0..WakeTimeout]
    /\ inFlight \in [Routes -> Requests \cup {None}]
    /\ sinceWoL \in [Routes -> 0..Debounce]
    /\ wg \in [Routes -> SUBSET Requests]
    /\ closer \in [Routes -> {"open", "waiting", "returned"}]

\* NewWakeCoordinator: no wake yet, lastWoLAt is the zero time.
Init ==
    /\ healthy \in BOOLEAN
    /\ req = [r \in Requests |-> "idle"]
    /\ joined = [r \in Requests |-> None]
    /\ ctxDone = [r \in Requests |-> FALSE]
    /\ reqTimer = [r \in Requests |-> 0]
    /\ wake = [w \in Requests |-> "none"]
    /\ result = [w \in Requests |-> "none"]
    /\ wakeErr = [w \in Requests |-> "nil"]
    /\ wakeTimer = [w \in Requests |-> 0]
    /\ inFlight = [rt \in Routes |-> None]
    /\ sinceWoL = [rt \in Routes |-> Debounce]
    /\ wg = [rt \in Routes |-> {}]
    /\ closer = [rt \in Routes |-> "open"]

--------------------------------------------------------------------------------
(* The environment *)

\* A health worker records another answer of the server.
HealthUpdate ==
    /\ healthy' = ~healthy
    /\ UNCHANGED <<reqVars, ctxDone, wakeVars, inFlight, sinceWoL, wg, closer>>

\* The HTTP server of the route accepts a request; it no longer does once the
\* listener is shut, and only then is the coordinator closed.
Arrive(r) ==
    /\ req[r] = "idle"
    /\ ~Closed(RouteOf[r])
    /\ req' = [req EXCEPT ![r] = "gate"]
    /\ UNCHANGED <<healthy, joined, reqTimer, ctxDone, wakeVars, inFlight,
                   sinceWoL, wg, closer>>

\* net/http cancels the request's context when its client disconnects.
CancelRequest(r) ==
    /\ req[r] \in Handling
    /\ ~ctxDone[r]
    /\ ctxDone' = [ctxDone EXCEPT ![r] = TRUE]
    /\ UNCHANGED <<healthy, reqVars, wakeVars, inFlight, sinceWoL, wg, closer>>

\* One unit of time passes for every clock that is running.
Polling(r) == req[r] = "poll"
Timed(w)   == wake[w] \in {"sending", "polling"}

Tick ==
    /\ \/ \E r \in Requests : Polling(r) /\ reqTimer[r] > 0
       \/ \E w \in Requests : Timed(w) /\ wakeTimer[w] > 0
       \/ \E rt \in Routes : sinceWoL[rt] < Debounce
    /\ reqTimer' = [r \in Requests |->
           IF Polling(r) /\ reqTimer[r] > 0 THEN reqTimer[r] - 1 ELSE reqTimer[r]]
    /\ wakeTimer' = [w \in Requests |->
           IF Timed(w) /\ wakeTimer[w] > 0 THEN wakeTimer[w] - 1 ELSE wakeTimer[w]]
    /\ sinceWoL' = [rt \in Routes |->
           IF sinceWoL[rt] < Debounce THEN sinceWoL[rt] + 1 ELSE sinceWoL[rt]]
    /\ UNCHANGED <<healthy, req, joined, ctxDone, wake, result, wakeErr,
                   inFlight, wg, closer>>

--------------------------------------------------------------------------------
(* The handler of a request *)

Answer(r, how) == req' = [req EXCEPT ![r] = how]

\* Mutant: a request that finds a wake in flight is let through.
ServeHTTPWhileWaking(r) ==
    /\ req[r] = "gate"
    /\ Answer(r, IF healthy \/ inFlight[RouteOf[r]] # None THEN "forwarded" ELSE "ensure")
    /\ UNCHANGED <<healthy, joined, reqTimer, ctxDone, wakeVars, inFlight,
                   sinceWoL, wg, closer>>

\* ServeHTTP: straight to the downstream handler, or into ensureWake.
ServeHTTP(r) ==
    /\ req[r] = "gate"
    /\ Answer(r, IF healthy THEN "forwarded" ELSE "ensure")
    /\ UNCHANGED <<healthy, joined, reqTimer, ctxDone, wakeVars, inFlight,
                   sinceWoL, wg, closer>>

\* ensureWake, "Join an in-flight wake".
JoinWake(r) ==
    /\ req[r] = "ensure"
    /\ inFlight[RouteOf[r]] # None
    /\ joined' = [joined EXCEPT ![r] = inFlight[RouteOf[r]]]
    /\ req' = [req EXCEPT ![r] = "wait"]
    /\ UNCHANGED <<healthy, reqTimer, ctxDone, wakeVars, inFlight, sinceWoL,
                   wg, closer>>

\* ensureWake, "Within debounce window": poll, with a timeout of its own.
PollInDebounce(r) ==
    /\ req[r] = "ensure"
    /\ inFlight[RouteOf[r]] = None
    /\ sinceWoL[RouteOf[r]] < Debounce
    /\ reqTimer' = [reqTimer EXCEPT ![r] = WakeTimeout]
    /\ req' = [req EXCEPT ![r] = "poll"]
    /\ UNCHANGED <<healthy, joined, ctxDone, wakeVars, inFlight, sinceWoL,
                   wg, closer>>

\* Mutant: no look at the wake in flight.
StartWakeAnyway(r) ==
    /\ req[r] = "ensure"
    /\ sinceWoL[RouteOf[r]] >= Debounce
    /\ inFlight' = [inFlight EXCEPT ![RouteOf[r]] = r]
    /\ sinceWoL' = [sinceWoL EXCEPT ![RouteOf[r]] = 0]
    /\ wake' = [wake EXCEPT ![r] = "registered"]
    /\ joined' = [joined EXCEPT ![r] = r]
    /\ req' = [req EXCEPT ![r] = "spawn"]
    /\ UNCHANGED <<healthy, reqTimer, ctxDone, result, wakeErr, wakeTimer,
                   wg, closer>>

\* ensureWake, "Start a new wake attempt": the slot is taken under the lock.
StartWake(r) ==
    /\ req[r] = "ensure"
    /\ inFlight[RouteOf[r]] = None
    /\ sinceWoL[RouteOf[r]] >= Debounce
    /\ inFlight' = [inFlight EXCEPT ![RouteOf[r]] = r]
    /\ sinceWoL' = [sinceWoL EXCEPT ![RouteOf[r]] = 0]
    /\ wake' = [wake EXCEPT ![r] = "registered"]
    /\ joined' = [joined EXCEPT ![r] = r]
    /\ req' = [req EXCEPT ![r] = "spawn"]
    /\ UNCHANGED <<healthy, reqTimer, ctxDone, result, wakeErr, wakeTimer,
                   wg, closer>>

\* ... and the goroutine is counted and started after the unlock.
SpawnWake(r) ==
    /\ req[r] = "spawn"
    /\ wg' = [wg EXCEPT ![RouteOf[r]] = @ \cup {r}]
    /\ wake' = [wake EXCEPT ![r] = "started"]
    /\ req' = [req EXCEPT ![r] = "wait"]
    /\ UNCHANGED <<healthy, joined, reqTimer, ctxDone, result, wakeErr,
                   wakeTimer, inFlight, sinceWoL, closer>>

\* Mutant: done is closed before the result is set.
WaitForWakeEarly(r) ==
    /\ req[r] = "wait"
    /\ \/ /\ wake[joined[r]] \in {"polled"} \cup Done
          /\ Answer(r, IF wakeErr[joined[r]] = "nil" THEN "forwarded" ELSE "refused")
       \/ ctxDone[r] /\ Answer(r, "refused")
    /\ UNCHANGED <<healthy, joined, reqTimer, ctxDone, wakeVars, inFlight,
                   sinceWoL, wg, closer>>

\* waitForWake: the wake's result, or the end of the request's context; when
\* both are ready select takes either.
WaitForWake(r) ==
    /\ req[r] = "wait"
    /\ \/ /\ wake[joined[r]] \in Done
          /\ Answer(r, IF wakeErr[joined[r]] = "nil" THEN "forwarded" ELSE "refused")
       \/ ctxDone[r] /\ Answer(r, "refused")
    /\ UNCHANGED <<healthy, joined, reqTimer, ctxDone, wakeVars, inFlight,
                   sinceWoL, wg, closer>>

\* Mutant: polling without the timeout.
PollUntilHealthyForever(r) ==
    /\ req[r] = "poll"
    /\ \/ healthy /\ Answer(r, "forwarded")
       \/ /\ ctxDone[r] \/ Closed(RouteOf[r])
          /\ Answer(r, "refused")
    /\ UNCHANGED <<healthy, joined, reqTimer, ctxDone, wakeVars, inFlight,
                   sinceWoL, wg, closer>>

\* pollUntilHealthy on the request's own goroutine.
PollUntilHealthy(r) ==
    /\ req[r] = "poll"
    /\ \/ healthy /\ Answer(r, "forwarded")
       \/ /\ reqTimer[r] = 0 \/ ctxDone[r] \/ Closed(RouteOf[r])
          /\ Answer(r, "refused")
    /\ UNCHANGED <<healthy, joined, reqTimer, ctxDone, wakeVars, inFlight,
                   sinceWoL, wg, closer>>

Handler(r) ==
    \/ ServeHTTP(r)
    \/ JoinWake(r) \/ PollInDebounce(r) \/ StartWake(r)
    \/ SpawnWake(r)
    \/ WaitForWake(r) \/ PollUntilHealthy(r)

--------------------------------------------------------------------------------
(* performWake, the goroutine of a wake *)

\* wakeCtx starts to run and SendWoL is called.
BeginWake(w) ==
    /\ wake[w] = "started"
    /\ wake' = [wake EXCEPT ![w] = "sending"]
    /\ wakeTimer' = [wakeTimer EXCEPT ![w] = WakeTimeout]
    /\ UNCHANGED <<healthy, reqVars, ctxDone, result, wakeErr, inFlight,
                   sinceWoL, wg, closer>>

\* SendWoL returns at any moment, at the latest when wakeCtx ends; whether it
\* failed changes nothing.
SendWoLReturns(w) ==
    /\ wake[w] = "sending"
    /\ wake' = [wake EXCEPT ![w] = "polling"]
    /\ UNCHANGED <<healthy, reqVars, ctxDone, result, wakeErr, wakeTimer,
                   inFlight, sinceWoL, wg, closer>>

\* Mutant: wakeCtx is a child of the context of the request that started it.
PollWakeOfRequest(w) ==
    /\ wake[w] = "polling"
    /\ \/ healthy /\ result' = [result EXCEPT ![w] = "nil"]
       \/ /\ wakeTimer[w] = 0 \/ ctxDone[w] \/ Closed(RouteOf[w])
          /\ result' = [result EXCEPT ![w] = "timeout"]
    /\ wake' = [wake EXCEPT ![w] = "polled"]
    /\ UNCHANGED <<healthy, reqVars, ctxDone, wakeErr, wakeTimer, inFlight,
                   sinceWoL, wg, closer>>

\* pollUntilHealthyWithContext(wakeCtx): wakeCtx is no child of any request's.
PollWake(w) ==
    /\ wake[w] = "polling"
    /\ \/ healthy /\ result' = [result EXCEPT ![w] = "nil"]
       \/ /\ wakeTimer[w] = 0 \/ Closed(RouteOf[w])
          /\ result' = [result EXCEPT ![w] = "timeout"]
    /\ wake' = [wake EXCEPT ![w] = "polled"]
    /\ UNCHANGED <<healthy, reqVars, ctxDone, wakeErr, wakeTimer, inFlight,
                   sinceWoL, wg, closer>>

\* wake.err = err; close(wake.done).  Nobody reads wake.err before done is
\* closed, so the two are one step.
PublishResult(w) ==
    /\ wake[w] = "polled"
    /\ wakeErr' = [wakeErr EXCEPT ![w] = result[w]]
    /\ wake' = [wake EXCEPT ![w] = "published"]
    /\ UNCHANGED <<healthy, reqVars, ctxDone, result, wakeTimer, inFlight,
                   sinceWoL, wg, closer>>

\* c.wakeInFlight = nil, whichever wake is in it.
ClearInFlight(w) ==
    /\ wake[w] = "published"
    /\ inFlight' = [inFlight EXCEPT ![RouteOf[w]] = None]
    /\ wake' = [wake EXCEPT ![w] = "cleared"]
    /\ UNCHANGED <<healthy, reqVars, ctxDone, result, wakeErr, wakeTimer,
                   sinceWoL, wg, closer>>

\* Mutant: no wg.Done().
ExitWakeCounted(w) ==
    /\ wake[w] = "cleared"
    /\ wake' = [wake EXCEPT ![w] = "exited"]
    /\ UNCHANGED <<healthy, reqVars, ctxDone, result, wakeErr, wakeTimer,
                   inFlight, sinceWoL, wg, closer>>

\* defer c.wg.Done()
ExitWake(w) ==
    /\ wake[w] = "cleared"
    /\ wg' = [wg EXCEPT ![RouteOf[w]] = @ \ {w}]
    /\ wake' = [wake EXCEPT ![w] = "exited"]
    /\ UNCHANGED <<healthy, reqVars, ctxDone, result, wakeErr, wakeTimer,
                   inFlight, sinceWoL, closer>>

PerformWake(w) ==
    \/ BeginWake(w) \/ SendWoLReturns(w) \/ PollWake(w)
    \/ PublishResult(w) \/ ClearInFlight(w) \/ ExitWake(w)

--------------------------------------------------------------------------------
(* Close *)

\* The route manager closes the coordinator after the listener is shut: when
\* server.Shutdown succeeded no handler is left; after a forced server.Close
\* handlers may still run.
CloseBegin(rt) ==
    /\ closer[rt] = "open"
    /\ Graceful => \A r \in WakesOf(rt) : req[r] \notin Handling
    /\ closer' = [closer EXCEPT ![rt] = "waiting"]
    /\ UNCHANGED <<healthy, reqVars, ctxDone, wakeVars, inFlight, sinceWoL, wg>>

\* Mutant: Close does not wait.
CloseReturnAtOnce(rt) ==
    /\ closer[rt] = "waiting"
    /\ closer' = [closer EXCEPT ![rt] = "returned"]
    /\ UNCHANGED <<healthy, reqVars, ctxDone, wakeVars, inFlight, sinceWoL, wg>>

\* wg.Wait() returns.
CloseReturn(rt) ==
    /\ closer[rt] = "waiting"
    /\ wg[rt] = {}
    /\ closer' = [closer EXCEPT ![rt] = "returned"]
    /\ UNCHANGED <<healthy, reqVars, ctxDone, wakeVars, inFlight, sinceWoL, wg>>

--------------------------------------------------------------------------------
Next ==
    \/ HealthUpdate
    \/ Tick
    \/ \E r \in Requests :
         Arrive(r) \/ CancelRequest(r) \/ Handler(r) \/ PerformWake(r)
    \/ \E rt \in Routes : CloseBegin(rt) \/ CloseReturn(rt)

\* The Go scheduler runs every goroutine that can run, and time passes.
\* Nothing is assumed of clients, of the server's health, or of shutdown.
Fairness ==
    /\ WF_vars(Tick)
    /\ \A r \in Requests : WF_vars(Handler(r)) /\ WF_vars(PerformWake(r))
    /\ \A rt \in Routes : WF_vars(CloseReturn(rt))

SafeSpec == Init /\ [][Next]_vars
Spec == SafeSpec /\ Fairness

--------------------------------------------------------------------------------
(* Safety *)

\* Single flight (lines 222-244, 291-293): the slot of a route names the one
\* wake of that route that has been registered and not yet cleared.  Two wakes
\* never overlap, and a wake that ends never clears the slot of a later one.
SlotNamesTheWake ==
    \A w \in Requests : wake[w] \in Owning <=> inFlight[RouteOf[w]] = w

\* "result set before done is closed; safe to read after <-done" (line 74):
\* a request forwarded by the wake it joined was forwarded on a wake that has
\* seen the server healthy, never on the zero value of wake.err, and that wake
\* is of the request's own route.
ForwardedOnSuccess ==
    \A r \in Requests :
        req[r] = "forwarded" /\ joined[r] # None =>
            result[joined[r]] = "nil" /\ RouteOf[joined[r]] = RouteOf[r]

\* A 503 (line 212) has one of four causes: the client has gone, the
\* coordinator is closed, the request polled for the whole WakeTimeout, or the
\* wake it joined polled for the whole WakeTimeout.  In particular the client
\* that started a wake can leave without failing those that joined it.
RefusedForCause ==
    \A r \in Requests : req[r] = "refused" =>
        \/ ctxDone[r]
        \/ Closed(RouteOf[r])
        \/ joined[r] = None /\ reqTimer[r] = 0
        \/ joined[r] # None /\ result[joined[r]] = "timeout" /\ wakeTimer[joined[r]] = 0

\* Close "waits for them to exit" (lines 155-156): once Close has returned no
\* wake goroutine of the route runs or will start.
CloseLeavesNoWake ==
    \A w \in Requests :
        closer[RouteOf[w]] = "returned" => wake[w] \in {"none", "exited"}

\* Why the four invariants above hold, as one inductive invariant:
\* c.wakeInFlight is of its coordinator's own requests,
SlotIsOfRoute ==
    \A rt \in Routes : inFlight[rt] # None => RouteOf[inFlight[rt]] = rt

\* a wake is registered exactly until its handler has spawned it,
SpawnerRegistered ==
    \A r \in Requests : req[r] = "spawn" <=> wake[r] = "registered"

\* a handler waits on a wake of its own route, on its own if it started one,
JoinedIsOfRoute ==
    \A r \in Requests :
        /\ joined[r] # None => RouteOf[joined[r]] = RouteOf[r]
        /\ req[r] \in {"idle", "gate", "ensure", "poll"} => joined[r] = None
        /\ req[r] \in {"spawn", "wait"} => joined[r] # None
        /\ wake[r] # "none" => joined[r] = r

\* the result is known once the polling is over, and published with done,
ResultWhenPolled ==
    \A w \in Requests :
        /\ result[w] = "none" <=> wake[w] \notin {"polled"} \cup Done
        /\ wake[w] \in Done => wakeErr[w] = result[w]

\* a wake gives up for a cause,
TimeoutForCause ==
    \A w \in Requests :
        result[w] = "timeout" => wakeTimer[w] = 0 \/ Closed(RouteOf[w])

\* c.wg counts the goroutines of the coordinator's own wakes,
WaitGroupCounts ==
    \A w \in Requests :
        wake[w] \in {"started", "sending", "polling", "polled", "published", "cleared"}
            => w \in wg[RouteOf[w]]

\* and a graceful shutdown closes a coordinator without handlers.
ShutBeforeClose ==
    Graceful => \A r \in Requests : Closed(RouteOf[r]) => req[r] \notin Handling

\* The inductive invariant (of wake_coordinator.go as a whole).
WakeInv ==
    /\ TypeOK
    /\ SlotNamesTheWake /\ SlotIsOfRoute /\ SpawnerRegistered
    /\ JoinedIsOfRoute /\ ResultWhenPolled /\ TimeoutForCause
    /\ WaitGroupCounts /\ ShutBeforeClose
    /\ ForwardedOnSuccess /\ RefusedForCause
    /\ Graceful => CloseLeavesNoWake

(* Liveness *)

\* No request hangs at the gate (lines 249-256, 302-324).
EveryRequestAnswered ==
    \A r \in Requests : req[r] \in Handling ~> req[r] \in Answered

\* Close does not hang on a wake (lines 157-161).
CloseReturns ==
    \A rt \in Routes : closer[rt] = "waiting" ~> closer[rt] = "returned"

--------------------------------------------------------------------------------
(* Refinement of WakeGate *)

AbsAnswer == [r \in Requests |->
    IF req[r] = "idle" THEN "absent"
    ELSE IF req[r] \in Handling THEN "pending" ELSE req[r]]

AbsVerdict == [w \in Requests |->
    IF result[w] = "nil" THEN "awake"
    ELSE IF result[w] = "timeout" THEN "failed" ELSE "none"]

Gate == INSTANCE WakeGate WITH
            up <- healthy, answer <- AbsAnswer, waking <- inFlight,
            verdict <- AbsVerdict

ImplementsGateSafely == Gate!SafeSpec
ImplementsGate == Gate!Spec
================================================================================
