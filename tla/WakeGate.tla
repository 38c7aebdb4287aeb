------------------------------- MODULE WakeGate -------------------------------
(***************************************************************************)
(* What the wake gate in front of a route promises, whatever happens       *)
(* inside it (internal/proxy/wake_coordinator.go):                         *)
(*   - every request is answered exactly once, forwarded or refused;       *)
(*   - a request is forwarded only on a healthy server, or on the verdict  *)
(*     of a wake of its own route that has seen the server healthy;        *)
(*   - at most one wake is running for a route, it belongs to one request  *)
(*     that asked for it, and it reaches one verdict, which never changes. *)
(* WakeCoordinator is shown to implement this specification.               *)
(***************************************************************************)
CONSTANTS
    Routes,     \* routes with a wake gate, all of them in front of one server
    Requests,   \* requests, each served at most once
    RouteOf,    \* the route a request comes in on
    None        \* "no request"

VARIABLES
    up,         \* is the server recorded as healthy
    answer,     \* what became of each request
    waking,     \* the request whose wake is running on a route, or None
    verdict     \* how the wake a request asked for has ended

gvars == <<up, answer, waking, verdict>>

Init ==
    /\ up \in BOOLEAN
    /\ answer = [q \in Requests |-> "absent"]
    /\ waking = [rt \in Routes |-> None]
    /\ verdict = [q \in Requests |-> "none"]

\* The environment: the server goes up or down.
Flip ==
    /\ up' = ~up
    /\ UNCHANGED <<answer, waking, verdict>>

Arrive(q) ==
    /\ answer[q] = "absent"
    /\ answer' = [answer EXCEPT ![q] = "pending"]
    /\ UNCHANGED <<up, waking, verdict>>

\* A pending request finds no wake running on its route and asks for one.
Trigger(q) ==
    /\ answer[q] = "pending"
    /\ waking[RouteOf[q]] = None
    /\ verdict[q] = "none"
    /\ waking' = [waking EXCEPT ![RouteOf[q]] = q]
    /\ UNCHANGED <<up, answer, verdict>>

\* The running wake ends: it has seen the server up, or it has given up.
Decide(q, v) ==
    /\ waking[RouteOf[q]] = q
    /\ verdict[q] = "none"
    /\ v = "awake" => up
    /\ verdict' = [verdict EXCEPT ![q] = v]
    /\ UNCHANGED <<up, answer, waking>>

\* The route is free for another wake.
Settle(q) ==
    /\ waking[RouteOf[q]] = q
    /\ verdict[q] # "none"
    /\ waking' = [waking EXCEPT ![RouteOf[q]] = None]
    /\ UNCHANGED <<up, answer, verdict>>

Forward(q) ==
    /\ answer[q] = "pending"
    /\ \/ up
       \/ \E w \in Requests : RouteOf[w] = RouteOf[q] /\ verdict[w] = "awake"
    /\ answer' = [answer EXCEPT ![q] = "forwarded"]
    /\ UNCHANGED <<up, waking, verdict>>

Refuse(q) ==
    /\ answer[q] = "pending"
    /\ answer' = [answer EXCEPT ![q] = "refused"]
    /\ UNCHANGED <<up, waking, verdict>>

Next ==
    \/ Flip
    \/ \E q \in Requests :
         \/ Arrive(q) \/ Trigger(q) \/ Settle(q) \/ Forward(q) \/ Refuse(q)
         \/ \E v \in {"awake", "failed"} : Decide(q, v)

\* Every request is answered, and no wake keeps its route for ever.
Fairness ==
    \A q \in Requests :
        /\ WF_gvars(Forward(q) \/ Refuse(q))
        /\ WF_gvars(\E v \in {"awake", "failed"} : Decide(q, v))
        /\ WF_gvars(Settle(q))

SafeSpec == Init /\ [][Next]_gvars
Spec == SafeSpec /\ Fairness
================================================================================
