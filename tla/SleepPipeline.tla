----------------------------- MODULE SleepPipeline -----------------------------
(***************************************************************************)
(* From the last request of a route to the sleep command of its server:    *)
(* IdleTracker (internal/proxy/idle_tracker.go), the channel of triggers,  *)
(* SleepCoordinator (internal/proxy/sleep_coordinator.go) and              *)
(* routeSleepSender (cmd/smaug/main.go).                                   *)
(*                                                                         *)
(* lastSeen is kept as the age of the last activity, saturating where the  *)
(* code no longer tells ages apart, so time itself is unbounded.  Both     *)
(* RecordActivity and checkIdleRoutes read the clock before they take the  *)
(* lock; MaxLag bounds the time they wait for it.  The background loops'   *)
(* Start and Stop are in module Lifecycle.                                 *)
(***************************************************************************)
EXTENDS Integers, Sequences

CONSTANTS
    Routes,         \* routes known to the tracker
    ServerOf,       \* [Routes -> servers]; routes may share a server
    IdleTimeout,    \* [Routes -> Nat]: registered timeout; 0 never sleeps
    Senders,        \* the routes that have a sleep client
    Handlers,       \* requests in ProxyHandler.ServeHTTP at one time
    NoRoute,        \* "no route"
    CheckInterval,  \* ticks between two checks
    MaxLag,         \* ticks between reading the clock and having the lock
    BufSize         \* capacity of the channel of triggers

Servers == {ServerOf[rt] : rt \in Routes}

ASSUME SleepAssumption ==
    /\ IdleTimeout \in [Routes -> Nat]
    /\ Senders \subseteq Routes
    /\ NoRoute \notin Routes
    /\ CheckInterval \in Nat \ {0}
    /\ MaxLag \in Nat
    /\ BufSize \in Nat \ {0}

VARIABLES
    age,        \* now - lastSeen of a route; saturated if never seen
    hroute,     \* the route a handler is recording activity for, or NoRoute
    hage,       \* ... and the time since it read the clock
    ticker,     \* ticks until the ticker fires
    fired,      \* ticker.C holds a tick
    checker,    \* runChecker: in select, waiting for the lock, scanning
    nowAge,     \* time since checkIdleRoutes read the clock
    scan,       \* routes the scan has still to look at, in any order
    ch,         \* sleepCh
    loop,       \* runLoop: in select, in Sleep, in client.Sleep
    current,    \* the route of the trigger being handled, or NoRoute
    status,     \* health store entry of a server, "unknown" if not found
    quiet,      \* history: time since the last request of a route
    spaced      \* history: time since the last trigger of a route

trackerVars == <<age, hroute, hage>>
checkVars   == <<ticker, fired, checker, nowAge, scan>>
loopVars    == <<loop, current>>
vars == <<trackerVars, checkVars, ch, loopVars, status, quiet, spaced>>

\* Beyond this age a route is idle, however late the checker read its clock.
Cap(rt) == IdleTimeout[rt] + MaxLag

Smaller(x, y) == IF x < y THEN x ELSE y
Later(x, rt) == Smaller(x + 1, Cap(rt))

Recording(rt) == \E h \in Handlers : hroute[h] = rt

TypeOK ==
    /\ \A rt \in Routes :
         /\ age[rt] \in 0..Cap(rt)
         /\ quiet[rt] \in 0..Cap(rt)
         /\ spaced[rt] \in 0..Cap(rt)
    /\ hroute \in [Handlers -> Routes \cup {NoRoute}]
    /\ hage \in [Handlers -> 0..MaxLag]
    /\ ticker \in 1..CheckInterval
    /\ fired \in BOOLEAN
    /\ checker \in {"select", "lock", "scan"}
    /\ nowAge \in 0..MaxLag
    /\ scan \subseteq Routes
    /\ ch \in Seq(Routes) /\ Len(ch) <= BufSize
    /\ loop \in {"select", "sleep", "sending"}
    /\ current \in Routes \cup {NoRoute}
    /\ status \in [Servers -> {"unknown", "healthy", "unhealthy"}]

\* Routes are registered before Start; none has been seen (idleNeverSeen).
Init ==
    /\ age = [rt \in Routes |-> Cap(rt)]
    /\ hroute = [h \in Handlers |-> NoRoute]
    /\ hage = [h \in Handlers |-> 0]
    /\ ticker = CheckInterval
    /\ fired = FALSE
    /\ checker = "select"
    /\ nowAge = 0
    /\ scan = {}
    /\ ch = <<>>
    /\ loop = "select"
    /\ current = NoRoute
    /\ status = [s \in Servers |-> "unknown"]
    /\ quiet = [rt \in Routes |-> Cap(rt)]
    /\ spaced = [rt \in Routes |-> Cap(rt)]

--------------------------------------------------------------------------------
(* RecordActivity, called by ProxyHandler.ServeHTTP *)

\* now := time.Now()
BeginActivity(h, rt) ==
    /\ hroute[h] = NoRoute
    /\ hroute' = [hroute EXCEPT ![h] = rt]
    /\ hage' = [hage EXCEPT ![h] = 0]
    /\ quiet' = [quiet EXCEPT ![rt] = 0]
    /\ UNCHANGED <<age, checkVars, ch, loopVars, status, spaced>>

\* entry.lastSeen = now, under the lock.
RecordActivity(h) ==
    /\ hroute[h] # NoRoute
    /\ checker # "scan"
    /\ age' = [age EXCEPT ![hroute[h]] = hage[h]]
    /\ hroute' = [hroute EXCEPT ![h] = NoRoute]
    /\ hage' = [hage EXCEPT ![h] = 0]
    /\ UNCHANGED <<checkVars, ch, loopVars, status, quiet, spaced>>

--------------------------------------------------------------------------------
(* runChecker and checkIdleRoutes *)

\* case <-ticker.C; now := time.Now()
BeginCheck ==
    /\ checker = "select"
    /\ fired
    /\ fired' = FALSE
    /\ checker' = "lock"
    /\ nowAge' = 0
    /\ UNCHANGED <<trackerVars, ticker, scan, ch, loopVars, status, quiet, spaced>>

\* t.mu.Lock(); the range over t.routes begins.
BeginScan ==
    /\ checker = "lock"
    /\ checker' = "scan"
    /\ scan' = Routes
    /\ UNCHANGED <<trackerVars, ticker, fired, nowAge, ch, loopVars, status,
                   quiet, spaced>>
\* Mutant: an off-by-one tick in the comparison.
IsIdleTooSoon(rt) == IdleTimeout[rt] > 0 /\ age[rt] - nowAge + 1 >= IdleTimeout[rt]

IsIdle(rt) == IdleTimeout[rt] > 0 /\ age[rt] - nowAge >= IdleTimeout[rt]

\* Mutant: lastSeen is not reset.
EmitTriggerNoReset(rt) ==
    /\ checker = "scan" /\ rt \in scan
    /\ IsIdle(rt)
    /\ Len(ch) < BufSize
    /\ ch' = Append(ch, rt)
    /\ scan' = scan \ {rt}
    /\ spaced' = [spaced EXCEPT ![rt] = 0]
    /\ UNCHANGED <<trackerVars, ticker, fired, checker, nowAge, loopVars,
                   status, quiet>>

\* An idle route: the trigger is delivered, and lastSeen = now.
EmitTrigger(rt) ==
    /\ checker = "scan" /\ rt \in scan
    /\ IsIdle(rt)
    /\ Len(ch) < BufSize
    /\ ch' = Append(ch, rt)
    /\ age' = [age EXCEPT ![rt] = nowAge]
    /\ scan' = scan \ {rt}
    /\ spaced' = [spaced EXCEPT ![rt] = 0]
    /\ UNCHANGED <<hroute, hage, ticker, fired, checker, nowAge, loopVars,
                   status, quiet>>

\* A route that is not idle, or a channel that is full.
PassOver(rt) ==
    /\ checker = "scan" /\ rt \in scan
    /\ IsIdle(rt) => Len(ch) = BufSize
    /\ scan' = scan \ {rt}
    /\ UNCHANGED <<trackerVars, ticker, fired, checker, nowAge, ch, loopVars,
                   status, quiet, spaced>>

EndScan ==
    /\ checker = "scan" /\ scan = {}
    /\ checker' = "select"
    /\ nowAge' = 0
    /\ UNCHANGED <<trackerVars, ticker, fired, scan, ch, loopVars, status,
                   quiet, spaced>>

Checker ==
    \/ BeginCheck \/ BeginScan \/ EndScan
    \/ \E rt \in Routes : EmitTrigger(rt) \/ PassOver(rt)

--------------------------------------------------------------------------------
(* runLoop, handleTrigger and routeSleepSender.Sleep *)

\* case routeID := <-c.triggers
ReceiveTrigger ==
    /\ loop = "select"
    /\ ch # <<>>
    /\ current' = Head(ch)
    /\ ch' = Tail(ch)
    /\ loop' = "sleep"
    /\ UNCHANGED <<trackerVars, checkVars, status, quiet, spaced>>

\* The server is recorded unhealthy, or the route has no client.
SkipSleep ==
    /\ loop = "sleep"
    /\ current \notin Senders \/ status[ServerOf[current]] = "unhealthy"
    /\ loop' = "select"
    /\ current' = NoRoute
    /\ UNCHANGED <<trackerVars, checkVars, ch, status, quiet, spaced>>

\* The server is recorded healthy, or not recorded yet: the command goes out.
SendSleep ==
    /\ loop = "sleep"
    /\ current \in Senders /\ status[ServerOf[current]] # "unhealthy"
    /\ loop' = "sending"
    /\ UNCHANGED <<trackerVars, checkVars, ch, current, status, quiet, spaced>>

\* Mutant: the loop ends after a sleep command, as after a failed one.
SleepReturnsForGood ==
    /\ loop = "sending"
    /\ loop' = "stopped"
    /\ current' = NoRoute
    /\ UNCHANGED <<trackerVars, checkVars, ch, status, quiet, spaced>>

\* client.Sleep returns; an error is only logged.
SleepReturns ==
    /\ loop = "sending"
    /\ loop' = "select"
    /\ current' = NoRoute
    /\ UNCHANGED <<trackerVars, checkVars, ch, status, quiet, spaced>>

Loop == ReceiveTrigger \/ SkipSleep \/ SendSleep \/ SleepReturns

--------------------------------------------------------------------------------
(* The environment *)

HealthUpdate(s, v) ==
    /\ status[s] # v
    /\ status' = [status EXCEPT ![s] = v]
    /\ UNCHANGED <<trackerVars, checkVars, ch, loopVars, quiet, spaced>>

\* One unit of time; a tick finds ticker.C full when the last one is not taken.
\* Nobody who has read the clock waits for the lock for more than MaxLag.
Tick ==
    /\ \A h \in Handlers : hroute[h] # NoRoute => hage[h] < MaxLag
    /\ checker # "select" => nowAge < MaxLag
    /\ age' = [rt \in Routes |-> Later(age[rt], rt)]
    /\ quiet' = [rt \in Routes |-> Later(quiet[rt], rt)]
    /\ spaced' = [rt \in Routes |-> Later(spaced[rt], rt)]
    /\ hage' = [h \in Handlers |-> IF hroute[h] = NoRoute THEN 0 ELSE hage[h] + 1]
    /\ nowAge' = IF checker = "select" THEN 0 ELSE nowAge + 1
    /\ ticker' = IF ticker = 1 THEN CheckInterval ELSE ticker - 1
    /\ fired' = (fired \/ ticker = 1)
    /\ UNCHANGED <<hroute, checker, scan, ch, loopVars, status>>

--------------------------------------------------------------------------------
Next ==
    \/ Tick \/ Checker \/ Loop
    \/ \E h \in Handlers : RecordActivity(h) \/ \E rt \in Routes : BeginActivity(h, rt)
    \/ \E s \in Servers, v \in {"healthy", "unhealthy"} : HealthUpdate(s, v)

\* Every goroutine that can run does, and time does not stop: requests that come
\* without end may hold Tick up (MaxLag), never for ever.  Nothing is assumed of
\* clients or of the servers' health.
Fairness ==
    /\ SF_vars(Tick) /\ WF_vars(Checker) /\ WF_vars(Loop)
    /\ \A h \in Handlers : WF_vars(RecordActivity(h))

SafeSpec == Init /\ [][Next]_vars
Spec == SafeSpec /\ Fairness

--------------------------------------------------------------------------------
(* Safety *)

\* What keeps the tracker honest: but for handlers that are still waiting for
\* the lock, lastSeen is not older than the last request or the last trigger by
\* more than the lag, although a late handler may move it backwards (lines
\* 135-148, 264-294).
AgeIsRecent ==
    \A rt \in Routes :
        /\ ~Recording(rt) => age[rt] <= quiet[rt] + MaxLag
        /\ age[rt] <= spaced[rt] + MaxLag

(* Action properties *)

Emitted(rt) == Len(ch') > Len(ch) /\ ch'[Len(ch')] = rt

\* A trigger is emitted for a route only after its idle timeout without a
\* request, up to the lag, or while a request is still to be recorded (lines
\* 263-305).
TriggersOnlyIdleRoutes ==
    [][\A rt \in Routes : Emitted(rt) =>
         Recording(rt) \/ quiet[rt] + MaxLag >= IdleTimeout[rt]]_vars

\* "the same route cannot trigger again until another full idle cycle elapses"
\* (sleep_coordinator.go:48-50), up to the lag, however slow the consumer is.
TriggersAreSpaced ==
    [][\A rt \in Routes : Emitted(rt) =>
         spaced[rt] + MaxLag >= IdleTimeout[rt]]_vars

\* "Puts idle servers to sleep" (README.md:78): when a trigger is emitted, no
\* route of its server has had a request within its idle timeout.
TriggersOnlyIdleServers ==
    [][\A rt, other \in Routes :
         Emitted(rt) /\ ServerOf[other] = ServerOf[rt] =>
             Recording(other) \/ quiet[other] + MaxLag >= IdleTimeout[other]]_vars

(* Liveness *)

\* "Dropped triggers (channel full) are retried on every tick" (lines 62-63):
\* a route that stays idle is handed to the sleep coordinator again and again.
IdleRouteIsHandled ==
    \A rt \in Routes : IdleTimeout[rt] > 0 =>
        (<>[](quiet[rt] >= IdleTimeout[rt]) => []<>(current = rt))
================================================================================
