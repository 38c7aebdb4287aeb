------------------------------- MODULE Lifecycle -------------------------------
(***************************************************************************)
(* Start and Stop of the two background loops of internal/proxy:           *)
(* IdleTracker (runChecker) and SleepCoordinator (runLoop), which share    *)
(* one pattern.  Each Start makes a cycle of its own: a context to cancel  *)
(* and a done channel that the goroutine of the cycle closes when it ends. *)
(* Any number of callers start and stop the loop concurrently; a cycle is  *)
(* named by its number.                                                    *)
(***************************************************************************)
EXTENDS Integers, FiniteSets

CONSTANTS
    Callers,     \* goroutines that call Start and Stop
    MaxCycles    \* bound on the number of successful Starts

ASSUME LifecycleAssumption == MaxCycles \in Nat

VARIABLES
    running,     \* t.running
    cycle,       \* the cycle whose cancel and done the struct holds
    cancelled,   \* the cycles whose context is cancelled
    goroutine,   \* per cycle: not started, in select, in its work, done closed
    pc,          \* where a caller is
    stops,       \* the cycle a caller stops, captured under the lock
    ctxDone      \* the cycles whose parent context, given to Start, is cancelled

vars == <<running, cycle, cancelled, goroutine, pc, stops, ctxDone>>

Cycles == 1..MaxCycles
Live == {"select", "work"}

TypeOK ==
    /\ running \in BOOLEAN
    /\ cycle \in 0..MaxCycles
    /\ cancelled \subseteq 1..cycle
    /\ goroutine \in [Cycles -> {"none"} \cup Live \cup {"done"}]
    /\ pc \in [Callers -> {"idle", "cancel", "wait"}]
    /\ stops \in [Callers -> 0..cycle]
    /\ ctxDone \subseteq 1..cycle

Init ==
    /\ running = FALSE
    /\ cycle = 0
    /\ cancelled = {}
    /\ goroutine = [k \in Cycles |-> "none"]
    /\ pc = [c \in Callers |-> "idle"]
    /\ stops = [c \in Callers |-> 0]
    /\ ctxDone = {}

--------------------------------------------------------------------------------
\* Start of a loop that is not running; a running one is left alone.
Start(c) ==
    /\ pc[c] = "idle"
    /\ ~running
    /\ cycle < MaxCycles
    /\ running' = TRUE
    /\ cycle' = cycle + 1
    /\ goroutine' = [goroutine EXCEPT ![cycle + 1] = "select"]
    /\ UNCHANGED <<cancelled, pc, stops, ctxDone>>

\* Stop of a running loop: cancel and done are captured under the lock.
StopBegin(c) ==
    /\ pc[c] = "idle"
    /\ running
    /\ running' = FALSE
    /\ stops' = [stops EXCEPT ![c] = cycle]
    /\ pc' = [pc EXCEPT ![c] = "cancel"]
    /\ UNCHANGED <<cycle, cancelled, goroutine, ctxDone>>

\* Mutant: t.cancel is read after the unlock.
StopCancelLatest(c) ==
    /\ pc[c] = "cancel"
    /\ cancelled' = cancelled \cup {cycle}
    /\ pc' = [pc EXCEPT ![c] = "wait"]
    /\ UNCHANGED <<running, cycle, goroutine, stops, ctxDone>>

\* Mutant: no call of cancel.
StopNoCancel(c) ==
    /\ pc[c] = "cancel"
    /\ pc' = [pc EXCEPT ![c] = "wait"]
    /\ UNCHANGED <<running, cycle, cancelled, goroutine, stops, ctxDone>>

\* cancel(), after the unlock.
StopCancel(c) ==
    /\ pc[c] = "cancel"
    /\ cancelled' = cancelled \cup {stops[c]}
    /\ pc' = [pc EXCEPT ![c] = "wait"]
    /\ UNCHANGED <<running, cycle, goroutine, stops, ctxDone>>

\* Mutant: Stop does not wait for done.
StopReturnAtOnce(c) ==
    /\ pc[c] = "wait"
    /\ pc' = [pc EXCEPT ![c] = "idle"]
    /\ UNCHANGED <<running, cycle, cancelled, goroutine, stops, ctxDone>>

\* <-done
StopReturn(c) ==
    /\ pc[c] = "wait"
    /\ goroutine[stops[c]] = "done"
    /\ pc' = [pc EXCEPT ![c] = "idle"]
    /\ UNCHANGED <<running, cycle, cancelled, goroutine, stops, ctxDone>>

\* The loop takes up a tick or a trigger; when its context is cancelled too,
\* select takes either.
Work(k) ==
    /\ goroutine[k] = "select"
    /\ goroutine' = [goroutine EXCEPT ![k] = "work"]
    /\ UNCHANGED <<running, cycle, cancelled, pc, stops, ctxDone>>

WorkDone(k) ==
    /\ goroutine[k] = "work"
    /\ goroutine' = [goroutine EXCEPT ![k] = "select"]
    /\ UNCHANGED <<running, cycle, cancelled, pc, stops, ctxDone>>

\* case <-ctx.Done(): return, and the deferred close(done).
Exit(k) ==
    /\ goroutine[k] = "select"
    /\ k \in cancelled \cup ctxDone
    /\ goroutine' = [goroutine EXCEPT ![k] = "done"]
    /\ UNCHANGED <<running, cycle, cancelled, pc, stops, ctxDone>>

\* The owner of the context given to Start cancels it; the struct is not told.
CancelContext(k) ==
    /\ goroutine[k] \in Live
    /\ k \notin ctxDone
    /\ ctxDone' = ctxDone \cup {k}
    /\ UNCHANGED <<running, cycle, cancelled, goroutine, pc, stops>>

Next ==
    \/ \E c \in Callers : Start(c) \/ StopBegin(c) \/ StopCancel(c) \/ StopReturn(c)
    \/ \E k \in Cycles : Work(k) \/ WorkDone(k) \/ Exit(k) \/ CancelContext(k)

\* Goroutines run.  select is fair between its ready cases: a cancelled loop
\* does not take ticks for ever.  No caller has to call anything.
Fairness ==
    /\ \A c \in Callers : WF_vars(StopCancel(c)) /\ WF_vars(StopReturn(c))
    /\ \A k \in Cycles : WF_vars(WorkDone(k)) /\ SF_vars(Exit(k))

SafeSpec == Init /\ [][Next]_vars
Spec == SafeSpec /\ Fairness

--------------------------------------------------------------------------------
\* No goroutine is orphaned: one that lives is the loop the struct calls
\* running, or some Stop has it in hand and will cancel it and wait for it.
NoOrphan ==
    \A k \in Cycles : goroutine[k] \in Live =>
        \/ running /\ k = cycle
        \/ \E c \in Callers : pc[c] \in {"cancel", "wait"} /\ stops[c] = k

\* "a concurrent Start cannot cause Stop to wait on the wrong goroutine"
\* (idle_tracker.go:64-65): when Stop returns, the goroutine it stopped is gone,
\* and a goroutine started since is not cancelled and lives.
StopIsOfItsCycle ==
    /\ \A c \in Callers : pc[c] = "idle" /\ stops[c] # 0 => goroutine[stops[c]] = "done"
    /\ running => cycle \notin cancelled
    /\ running /\ cycle \notin ctxDone => goroutine[cycle] \in Live

\* Stop returns (idle_tracker.go:231-232, sleep_coordinator.go:144-145).
StopReturns ==
    \A c \in Callers : pc[c] = "cancel" ~> pc[c] = "idle"
================================================================================
