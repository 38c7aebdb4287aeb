----------------------------- MODULE HealthManager -----------------------------
(***************************************************************************)
(* The workers that fill the health store: internal/health/manager.go with *)
(* the checker of a server (server_health_checker.go, health.go) and the   *)
(* store (internal/store/health_store.go).                                 *)
(*                                                                         *)
(* A cycle is one successful Start: its context and one worker for each    *)
(* monitored server.  Stop takes the cycle out of m.cancel under the lock, *)
(* and cancels and waits outside it, on a WaitGroup that all cycles share. *)
(*                                                                         *)
(* Time is in ticks.  A goroutine that can run does so before the next     *)
(* tick; checks in flight, tickers and the wait of Stop take ticks.        *)
(***************************************************************************)
EXTENDS Integers, FiniteSets

CONSTANTS
    Servers,      \* the servers of the configuration
    Interval,     \* [Servers -> Int], healthCheck.interval; 0 without an endpoint
    Timeout,      \* ticks a check may take (checkCtx and http.Client.Timeout)
    StopTimeout,  \* ticks Stop waits for the workers (5 s)
    MaxCycles     \* bound on successful Starts

ASSUME HealthAssumption ==
    /\ Interval \in [Servers -> Int]
    /\ Timeout \in Nat \ {0}
    /\ StopTimeout \in Nat \ {0}
    /\ MaxCycles \in Nat

Cycles == 1..MaxCycles

\* Start skips a server without an endpoint or with an interval <= 0.
Monitored == {s \in Servers : Interval[s] > 0}
Workers   == Cycles \X Monitored

VARIABLES
    answer,     \* what each server answers: a status below 400, above, or none
    store,      \* the store's entry: "none", or the outcome of a check
    cycle,      \* number of successful Starts
    current,    \* m.cancel: the running cycle, 0 for nil
    cancelled,  \* the cycles whose context is cancelled
    work,       \* where the goroutine of a worker is
    outcome,    \* what the check of a worker returned
    deadline,   \* checkCtx of the check in flight
    ticker,     \* ticks until the worker's ticker fires
    fired,      \* the element in ticker.C
    wg,         \* the workers m.wg counts
    stop,       \* the Stop of a cycle
    waited,     \* ticks that Stop has waited
    calm        \* history: ticks since the server, or the manager, last changed

workVars == <<work, outcome, deadline, ticker, fired>>
stopVars == <<stop, waited>>
vars == <<answer, store, cycle, current, cancelled, workVars, wg, stopVars, calm>>

Answers  == {"ok", "bad", "silent"}
Outcomes == {"healthy", "unhealthy_status", "network_error"}
Urgent   == {"spawned", "checked"}

\* Ticks after which the store must show what a server has answered since.
Settled(s) == Interval[s] + Timeout
MaxSettle  == CHOOSE n \in {Settled(s) : s \in Monitored} :
                  \A s \in Monitored : Settled(s) <= n

\* CheckHealth: 200-399 is healthy; every failure of the request, a timeout or too
\* many redirects included, is wrapped with %v in ErrHealthCheckNetworkError, so
\* that "network_error" is all that is known of it.
CheckHealth(a) ==
    IF a = "ok" THEN "healthy"
    ELSE IF a = "bad" THEN "unhealthy_status" ELSE "network_error"

TypeOK ==
    /\ answer \in [Monitored -> Answers]
    /\ store \in [Monitored -> Outcomes \cup {"none"}]
    /\ cycle \in 0..MaxCycles
    /\ current \in 0..MaxCycles
    /\ cancelled \subseteq Cycles
    /\ work \in [Workers -> {"none", "checking", "waiting", "exited"} \cup Urgent]
    /\ outcome \in [Workers -> Outcomes]
    /\ deadline \in [Workers -> 0..Timeout]
    /\ ticker \in [Workers -> Int]
    /\ fired \in [Workers -> BOOLEAN]
    /\ wg \subseteq Workers
    /\ stop \in [Cycles -> {"none", "captured", "waiting", "nil", "timeout"}]
    /\ waited \in [Cycles -> 0..StopTimeout]
    /\ calm \in [Monitored -> Nat]

\* NewHealthManager and NewInMemoryHealthStore.
Init ==
    /\ answer \in [Monitored -> Answers]
    /\ store = [s \in Monitored |-> "none"]
    /\ cycle = 0
    /\ current = 0
    /\ cancelled = {}
    /\ work = [w \in Workers |-> "none"]
    /\ outcome = [w \in Workers |-> "healthy"]
    /\ deadline = [w \in Workers |-> 0]
    /\ ticker = [w \in Workers |-> 0]
    /\ fired = [w \in Workers |-> FALSE]
    /\ wg = {}
    /\ stop = [c \in Cycles |-> "none"]
    /\ waited = [c \in Cycles |-> 0]
    /\ calm = [s \in Monitored |-> 0]

--------------------------------------------------------------------------------
(* Start and the workers *)

At(w, from, to) == work[w] = from /\ work' = [work EXCEPT ![w] = to]

\* Start: m.cancel decides whether the manager runs; the workers of an earlier
\* cycle may still be on their way out.
Start ==
    /\ current = 0
    /\ cycle < MaxCycles
    /\ cycle' = cycle + 1
    /\ current' = cycle + 1
    /\ work' = [w \in Workers |-> IF w[1] = cycle + 1 THEN "spawned" ELSE work[w]]
    /\ wg' = wg \cup {w \in Workers : w[1] = cycle + 1}
    /\ calm' = [s \in Monitored |-> 0]
    /\ UNCHANGED <<answer, store, cancelled, outcome, deadline, ticker, fired,
                   stopVars>>

\* performCheck: the request is on its way, with a deadline.
SendCheck(w) == deadline' = [deadline EXCEPT ![w] = Timeout]

\* runWorker: a ticker, and the first check at once.
RunWorker(w) ==
    /\ At(w, "spawned", "checking")
    /\ SendCheck(w)
    /\ ticker' = [ticker EXCEPT ![w] = Interval[w[2]]]
    /\ UNCHANGED <<answer, store, cycle, current, cancelled, outcome, fired, wg,
                   stopVars, calm>>

\* The check returns with what the server answers at that moment: an answer takes no
\* time on the way.  A cancelled check fails, unless its answer was already there.
CheckReturns(w) ==
    /\ At(w, "checking", "checked")
    /\ \/ /\ answer[w[2]] # "silent" \/ deadline[w] = 0
          /\ outcome' = [outcome EXCEPT ![w] = CheckHealth(answer[w[2]])]
       \/ /\ w[1] \in cancelled
          /\ outcome' = [outcome EXCEPT ![w] = CheckHealth("silent")]
    /\ UNCHANGED <<answer, store, cycle, current, cancelled, deadline, ticker,
                   fired, wg, stopVars, calm>>

\* Mutant: an entry that says healthy is kept.
UpdateStoreOnce(w) ==
    /\ At(w, "checked", "waiting")
    /\ store' = [store EXCEPT ![w[2]] = IF @ = "healthy" THEN @ ELSE outcome[w]]
    /\ UNCHANGED <<answer, cycle, current, cancelled, outcome, deadline, ticker,
                   fired, wg, stopVars, calm>>

\* Check writes the store, whether its cycle still runs or not.
UpdateStore(w) ==
    /\ At(w, "checked", "waiting")
    /\ store' = [store EXCEPT ![w[2]] = outcome[w]]
    /\ UNCHANGED <<answer, cycle, current, cancelled, outcome, deadline, ticker,
                   fired, wg, stopVars, calm>>

\* select: the ticker fires, ...
NextCheck(w) ==
    /\ At(w, "waiting", "checking")
    /\ fired[w]
    /\ fired' = [fired EXCEPT ![w] = FALSE]
    /\ SendCheck(w)
    /\ UNCHANGED <<answer, store, cycle, current, cancelled, outcome, ticker, wg,
                   stopVars, calm>>

\* ... or the context is done.
ExitWorker(w) ==
    /\ At(w, "waiting", "exited")
    /\ w[1] \in cancelled
    /\ wg' = wg \ {w}
    /\ UNCHANGED <<answer, store, cycle, current, cancelled, outcome, deadline,
                   ticker, fired, stopVars, calm>>

Worker(w) ==
    RunWorker(w) \/ CheckReturns(w) \/ UpdateStore(w) \/ NextCheck(w) \/ ExitWorker(w)

--------------------------------------------------------------------------------
(* Stop *)

\* Under the lock: the running cycle, and m.cancel = nil.
StopBegin ==
    /\ current # 0
    /\ stop' = [stop EXCEPT ![current] = "captured"]
    /\ current' = 0
    /\ UNCHANGED <<answer, store, cycle, cancelled, workVars, wg, waited, calm>>

\* Outside: cancel().  The servers' entries are at the mercy of dying checks.
StopCancel(c) ==
    /\ stop[c] = "captured"
    /\ stop' = [stop EXCEPT ![c] = "waiting"]
    /\ cancelled' = cancelled \cup {c}
    /\ calm' = [s \in Monitored |-> 0]
    /\ UNCHANGED <<answer, store, cycle, current, workVars, wg, waited>>

\* Mutant: Stop does not wait.
StopReturnAtOnce(c) ==
    /\ stop[c] = "waiting"
    /\ stop' = [stop EXCEPT ![c] = "nil"]
    /\ UNCHANGED <<answer, store, cycle, current, cancelled, workVars, wg, waited,
                   calm>>

\* m.wg.Wait() returned.
StopReturn(c) ==
    /\ stop[c] = "waiting"
    /\ wg = {}
    /\ stop' = [stop EXCEPT ![c] = "nil"]
    /\ UNCHANGED <<answer, store, cycle, current, cancelled, workVars, wg, waited,
                   calm>>

\* Mutant: the workers get no time.
StopGivesUpEarly(c) ==
    /\ stop[c] = "waiting"
    /\ wg # {}
    /\ stop' = [stop EXCEPT ![c] = "timeout"]
    /\ UNCHANGED <<answer, store, cycle, current, cancelled, workVars, wg, waited,
                   calm>>

\* Mutant: no time.After.
StopNeverGivesUp(c) == StopReturn(c)

\* time.After(5 * time.Second)
StopGivesUp(c) ==
    /\ stop[c] = "waiting"
    /\ waited[c] = StopTimeout
    /\ stop' = [stop EXCEPT ![c] = "timeout"]
    /\ UNCHANGED <<answer, store, cycle, current, cancelled, workVars, wg, waited,
                   calm>>

Stopper(c) == StopCancel(c) \/ StopReturn(c) \/ StopGivesUp(c)

--------------------------------------------------------------------------------
(* The environment *)

\* A server boots, breaks, recovers or falls asleep.
ServerChanges(s) ==
    /\ \E a \in Answers \ {answer[s]} : answer' = [answer EXCEPT ![s] = a]
    /\ calm' = [calm EXCEPT ![s] = 0]
    /\ UNCHANGED <<store, cycle, current, cancelled, workVars, wg, stopVars>>

Ticking(w) == work[w] \in {"checking", "waiting"}

\* A goroutine has something to do before time passes.
Due(w) ==
    \/ work[w] \in Urgent
    \/ work[w] = "waiting" /\ (fired[w] \/ w[1] \in cancelled)
    \/ work[w] = "checking" /\ (deadline[w] = 0 \/ w[1] \in cancelled)

Tick ==
    /\ \A w \in Workers : ~Due(w)
    /\ \A c \in Cycles :
         /\ stop[c] # "captured"
         /\ stop[c] = "waiting" => wg # {} /\ waited[c] < StopTimeout
    /\ deadline' = [w \in Workers |->
           IF work[w] = "checking" THEN deadline[w] - 1 ELSE deadline[w]]
    /\ ticker' = [w \in Workers |->
           IF ~Ticking(w) THEN ticker[w]
           ELSE IF ticker[w] = 1 THEN Interval[w[2]] ELSE ticker[w] - 1]
    /\ fired' = [w \in Workers |-> fired[w] \/ (Ticking(w) /\ ticker[w] = 1)]
    /\ waited' = [c \in Cycles |->
           IF stop[c] = "waiting" THEN waited[c] + 1 ELSE waited[c]]
    /\ calm' = [s \in Monitored |-> IF calm[s] > MaxSettle THEN calm[s] ELSE calm[s] + 1]
    /\ UNCHANGED <<answer, store, cycle, current, cancelled, work, outcome, wg, stop>>

--------------------------------------------------------------------------------
Next ==
    \/ Start \/ StopBegin \/ Tick
    \/ \E w \in Workers : Worker(w)
    \/ \E c \in Cycles : Stopper(c)
    \/ \E s \in Monitored : ServerChanges(s)

\* Every goroutine that can run does, and time passes.  Nobody has to call
\* Start or Stop, and servers change or not.
Fairness ==
    /\ WF_vars(Tick)
    /\ \A w \in Workers : WF_vars(RunWorker(w) \/ CheckReturns(w) \/ UpdateStore(w)
                                   \/ NextCheck(w)) /\ SF_vars(ExitWorker(w))
    /\ \A c \in Cycles : WF_vars(Stopper(c))

SafeSpec == Init /\ [][Next]_vars
Spec == SafeSpec /\ Fairness

--------------------------------------------------------------------------------
(* Properties *)

\* What the wake gate and the sleep sender rely on (store.Get in
\* wake_coordinator.go and main.go:59): while the manager runs and neither it nor
\* the server has changed for an interval and a timeout, the store says what the
\* server answers, although checks are cancelled, tick into one another, or
\* overlap with those of an earlier cycle.
StoreConverges ==
    \A s \in Monitored :
        current # 0 /\ calm[s] > Settled(s) => store[s] = CheckHealth(answer[s])

\* "It waits for all workers to finish" (manager.go:155): once Stop has returned
\* nil no worker of its cycle, or of one before, writes to the store.
StopMeansQuiet ==
    \A c \in Cycles : stop[c] = "nil" =>
        \A w \in Workers : w[1] <= c => work[w] = "exited"

\* "if shutdown times out" (manager.go:158): a Stop gives up only because a
\* later Start has put its workers into the same WaitGroup; its own are gone.
StopGivesUpForCause ==
    \A c \in Cycles : stop[c] = "timeout" =>
        /\ cycle > c
        /\ \A w \in Workers : w[1] = c => work[w] = "exited"

\* Stop returns.
StopReturns == \A c \in Cycles : stop[c] = "captured" ~> stop[c] \in {"nil", "timeout"}

\* m.wg counts every goroutine, and those of the running cycle live on.
CyclesRun ==
    /\ current # 0 => current = cycle /\ stop[current] = "none"
    /\ \A c \in Cycles :
         /\ c > cycle <=> (stop[c] = "none" /\ c # current)
         /\ c \in cancelled <=> stop[c] \in {"waiting", "nil", "timeout"}
    /\ \A w \in Workers :
         /\ work[w] = "none" <=> w[1] > cycle
         /\ w \in wg <=> work[w] \notin {"none", "exited"}

\* While a Stop waits for one tick its workers go, and what it then waits for
\* are those of a later cycle.
WaitedForOthers ==
    \A c \in Cycles : waited[c] > 0 =>
        /\ cycle > c
        /\ \A w \in Workers : w[1] = c => work[w] = "exited"

\* The inductive invariant of Start, the workers and Stop.
HealthInv ==
    TypeOK /\ CyclesRun /\ StopMeansQuiet /\ WaitedForOthers /\ StopGivesUpForCause

\* The worker that keeps the entry of s now.
Keeper(s) == <<current, s>>

\* Only a cancelled worker exits, and a ticker that runs fires within the interval.
WorkersTick ==
    \A w \in Workers :
        /\ work[w] = "exited" => w[1] \in cancelled
        /\ work[w] \in {"checking", "checked", "waiting"} => ticker[w] \in 1..Interval[w[2]]

\* Once time has passed since the last change nobody else writes the entry, and
\* what its keeper is about to write is what the server answers.
CalmIsKept ==
    current # 0 => \A s \in Monitored : calm[s] > 0 =>
        /\ \A w \in Workers : w[1] # current => work[w] \in {"none", "exited"}
        /\ work[Keeper(s)] # "spawned"
        /\ work[Keeper(s)] = "checked" => outcome[Keeper(s)] = CheckHealth(answer[s])

\* While the entry is stale its keeper checks within an interval, and has the
\* answer within a timeout of that.
StaleIsShort ==
    current # 0 => \A s \in Monitored : store[s] # CheckHealth(answer[s]) =>
        LET w == Keeper(s) IN
        /\ work[w] = "waiting" =>
             calm[s] + (IF fired[w] THEN 0 ELSE ticker[w]) <= Interval[s]
        /\ work[w] = "checking" => calm[s] + deadline[w] <= Settled(s)
        /\ work[w] = "checked" => calm[s] <= Settled(s)

\* Inductive together with HealthInv.
ConvergeInv == WorkersTick /\ CalmIsKept /\ StaleIsShort
================================================================================
