------------------------------ MODULE RequestPath ------------------------------
(***************************************************************************)
(* One request on its way through a listener: the chain that main.go and   *)
(* createListener build (Recovery, Logging, the wake gate if the server    *)
(* has one, ProxyHandler), the ReverseProxy of net/http/httputil, and the  *)
(* connection of net/http that the answer is written to.                   *)
(*                                                                         *)
(* The gate is what WakeGate promises, for one request: it forwards on a   *)
(* healthy server, else it starts a wake and waits for its verdict.  The   *)
(* wake is SendWoL (GwaihirClient), then the polling of the health store.  *)
(***************************************************************************)
EXTENDS GwaihirClient

CONSTANTS
    WakeTimeout,   \* wakeOnLan.timeout of the server
    WriteTimeout,  \* http.Server.WriteTimeout of the listener (60 s)
    MaxClock       \* bound: the time of a request is told apart up to here

ASSUME RequestAssumption ==
    /\ WakeTimeout \in Nat \ {0}
    /\ WriteTimeout \in Nat \ {0}
    /\ MaxClock \in Nat

VARIABLES
    gate,       \* the handler is wrapped in a WakeCoordinator
    recorder,   \* the listener's ActivityRecorder
    closing,    \* WakeCoordinator.Close has been called
    pc,         \* where the request is
    clock,      \* ticks since its header was read
    passed,     \* clock when it got past the gate
    healthy,    \* what the health store says of the server
    gone,       \* the client's connection is closed, by either side
    backend,    \* what the backend has done: a 1xx, its status
    header,     \* the status the connection has been given, 0 for none
    wrapped,    \* LoggingResponseWriter: headerWritten and statusCode
    requestID,  \* X-Request-ID is in the header map
    panicked,   \* Recovery has caught a panic
    logged,     \* the lines in the log
    seen        \* what the client has got

chainVars == <<gate, recorder, closing>>
timeVars  == <<clock, passed>>
worldVars == <<healthy, gone>>
connVars  == <<header, wrapped, requestID>>
logVars   == <<panicked, logged, seen>>
reqVars   == <<pc, timeVars, worldVars, backend, connVars, logVars>>

\* The statuses of a backend stand for all that are not 1xx.
BackendStatuses == {200, 404}
NoBackend == [status |-> 0, informed |-> FALSE]
Nothing   == [status |-> 0, requestID |-> FALSE]

ReqTypeOK ==
    /\ gate \in BOOLEAN
    /\ recorder \in {"none", "tracker", "typed_nil"}
    /\ pc \in {"none", "gate", "waiting", "proxy", "backend", "body", "recover",
               "respond", "finish", "done"}
    /\ clock \in 0..MaxClock /\ passed \in 0..MaxClock
    /\ healthy \in BOOLEAN /\ gone \in BOOLEAN /\ closing \in BOOLEAN
    /\ backend \in [status : BackendStatuses \cup {0}, informed : BOOLEAN]
    /\ header \in BackendStatuses \cup {0, 500, 502, 503}
    /\ wrapped \in [written : BOOLEAN, status : BackendStatuses \cup {103, 502, 503}]
    /\ requestID \in BOOLEAN /\ panicked \in BOOLEAN
    /\ logged \subseteq {"request", "response"}
    /\ seen \in [status : BackendStatuses \cup {0, 500, 502, 503}, requestID : BOOLEAN]

ReqInit ==
    /\ pc = "none" /\ clock = 0 /\ passed = 0
    /\ healthy \in BOOLEAN /\ gone = FALSE
    /\ backend = NoBackend
    /\ header = 0
    /\ wrapped = [written |-> FALSE, status |-> 200]
    /\ requestID = FALSE /\ panicked = FALSE
    /\ logged = {} /\ seen = Nothing

At(from, to) == pc = from /\ pc' = to

--------------------------------------------------------------------------------
(* Recovery, Logging and the gate *)

\* The first half of the Logging middleware.
Arrive ==
    /\ At("none", "gate")
    /\ requestID' = TRUE
    /\ logged' = {"request"}
    /\ UNCHANGED <<timeVars, worldVars, backend, header, wrapped, panicked, seen, gwVars>>

\* WakeCoordinator.ServeHTTP on a healthy server, or no coordinator at all.
Forward ==
    /\ At("gate", "proxy")
    /\ ~gate \/ healthy
    /\ passed' = clock
    /\ UNCHANGED <<clock, worldVars, backend, connVars, logVars, gwVars>>

\* ensureWake, performWake
StartWake ==
    /\ At("gate", "waiting")
    /\ gate /\ ~healthy
    /\ SendWoL
    /\ UNCHANGED <<timeVars, worldVars, backend, connVars, logVars>>

\* The store is polled only after SendWoL has returned, whatever it returned.
WakeSucceeds ==
    /\ At("waiting", "proxy")
    /\ call = "done" /\ healthy
    /\ passed' = clock
    /\ UNCHANGED <<clock, worldVars, backend, connVars, logVars, gwVars>>

\* wakeCtx: the wake has lasted its timeout, whether or not the request still waits.
WakeIsLate ==
    /\ pc = "waiting" \/ call \in {"sending", "backoff"}
    /\ clock >= WakeTimeout
    /\ ~ctxDone

WakeExpires ==
    /\ WakeIsLate
    /\ ContextEnds
    /\ UNCHANGED reqVars

\* LoggingResponseWriter.WriteHeader: the first call counts.  net/http sends a 1xx
\* at once and still waits for the status.
WriteHeader(status) ==
    IF wrapped.written THEN UNCHANGED <<wrapped, header>>
    ELSE /\ wrapped' = [written |-> TRUE, status |-> status]
         /\ header' = IF status \in 100..199 THEN header ELSE status

\* Mutant: ServeHTTP does not return after http.Error.
WakeFailsForwarding ==
    /\ At("waiting", "proxy")
    /\ gone \/ (call = "done" /\ (ctxDone \/ closing))
    /\ WriteHeader(503)
    /\ UNCHANGED <<timeVars, worldVars, backend, requestID, logVars, gwVars>>

\* The wake has failed, or the client does not wait for it: http.Error.
WakeFails ==
    /\ At("waiting", "respond")
    /\ gone \/ (call = "done" /\ (ctxDone \/ closing))
    /\ WriteHeader(503)
    /\ UNCHANGED <<timeVars, worldVars, backend, requestID, logVars, gwVars>>

--------------------------------------------------------------------------------
(* ProxyHandler.ServeHTTP and the ReverseProxy *)

\* A nil *IdleTracker in the ActivityRecorder is not a nil ActivityRecorder:
\* RecordActivity is called, and locks a mutex that is not there.
RecordPanics ==
    /\ At("proxy", "recover")
    /\ recorder = "typed_nil"
    /\ UNCHANGED <<timeVars, worldVars, backend, connVars, logVars, gwVars>>

Record ==
    /\ At("proxy", "backend")
    /\ recorder # "typed_nil"
    /\ UNCHANGED <<timeVars, worldVars, backend, connVars, logVars, gwVars>>

\* Got1xxResponse: WriteHeader(1xx), and the header map is cleared.
BackendInforms ==
    /\ pc = "backend" /\ ~backend.informed
    /\ backend' = [backend EXCEPT !.informed = TRUE]
    /\ WriteHeader(103)
    /\ requestID' = FALSE
    /\ UNCHANGED <<pc, timeVars, worldVars, logVars, gwVars>>

\* proxy.ErrorHandler
BackendFails ==
    /\ At("backend", "respond")
    /\ WriteHeader(502)
    /\ UNCHANGED <<timeVars, worldVars, backend, requestID, logVars, gwVars>>

BackendAnswers(status) ==
    /\ At("backend", "body")
    /\ backend' = [backend EXCEPT !.status = status]
    /\ WriteHeader(status)
    /\ UNCHANGED <<timeVars, worldVars, requestID, logVars, gwVars>>

\* The body is copied.  When the status was swallowed, net/http writes a 200.
Copy ==
    /\ header' = IF header = 0 THEN 200 ELSE header
    /\ UNCHANGED <<timeVars, worldVars, backend, wrapped, requestID, logVars, gwVars>>

BodyEnds == At("body", "respond") /\ Copy

\* The backend goes away, or nobody reads any more: panic(http.ErrAbortHandler).
BodyBreaks == At("body", "recover") /\ Copy

--------------------------------------------------------------------------------
(* The way back *)

\* Mutant: the response is logged in a defer, before Recovery has answered.
RecoverLogged ==
    /\ At("recover", "finish")
    /\ panicked' = TRUE
    /\ header' = IF header = 0 THEN 500 ELSE header
    /\ logged' = logged \cup {"response"}
    /\ UNCHANGED <<timeVars, worldVars, backend, wrapped, requestID, seen, gwVars>>

\* Recovery, around Logging: a 500, unless a header has been written (its text then
\* ends the body, which net/http closes as if it were complete).
Recover ==
    /\ At("recover", "finish")
    /\ panicked' = TRUE
    /\ header' = IF header = 0 THEN 500 ELSE header
    /\ UNCHANGED <<timeVars, worldVars, backend, wrapped, requestID, logged, seen, gwVars>>

\* The second half of the Logging middleware.
LogResponse ==
    /\ At("respond", "finish")
    /\ logged' = logged \cup {"response"}
    /\ UNCHANGED <<timeVars, worldVars, backend, connVars, panicked, seen, gwVars>>

\* A header that was never written is a 200.
Answered == [status |-> IF header = 0 THEN 200 ELSE header, requestID |-> requestID]

\* net/http flushes what is left.  When the connection is closed or past its write
\* deadline, the client has at most what was streamed before.
Finish ==
    /\ At("finish", "done")
    /\ seen' \in
         IF ~gone /\ clock < WriteTimeout THEN {Answered}
         ELSE IF backend.status # 0 /\ passed < WriteTimeout THEN {Nothing, Answered}
         ELSE {Nothing}
    /\ UNCHANGED <<timeVars, worldVars, backend, connVars, panicked, logged, gwVars>>

--------------------------------------------------------------------------------
(* The environment *)

\* The health store follows the server (HealthManager); only the gate reads
\* it, and what it says at first is in ReqInit.
HealthChanges ==
    /\ pc = "waiting"
    /\ healthy' = ~healthy
    /\ UNCHANGED <<pc, timeVars, gone, backend, connVars, logVars, gwVars>>

ConnectionCloses ==
    /\ pc \in {"waiting", "backend", "body"} /\ ~gone
    /\ gone' = TRUE
    /\ UNCHANGED <<pc, timeVars, healthy, backend, connVars, logVars, gwVars>>

\* A handler that can go on does so before time passes; the backend may take time,
\* but not once the request's context is cancelled.
ReqDue ==
    \/ pc \in {"gate", "proxy", "recover", "respond", "finish"}
    \/ pc \in {"waiting", "backend", "body"} /\ gone
    \/ pc = "waiting" /\ call = "done" /\ (healthy \/ ctxDone \/ closing)
    \/ WakeIsLate

Tick ==
    /\ pc # "none"
    /\ ~ReqDue
    /\ GwTick
    /\ clock' = IF clock < MaxClock THEN clock + 1 ELSE clock
    /\ UNCHANGED <<pc, passed, worldVars, backend, connVars, logVars>>

Handler ==
    \/ Forward \/ StartWake \/ WakeSucceeds \/ WakeFails \/ WakeExpires
    \/ RecordPanics \/ Record \/ Recover \/ LogResponse \/ Finish
    \/ GwStep /\ UNCHANGED reqVars

Backend ==
    \/ BackendInforms \/ BackendFails \/ BodyEnds \/ BodyBreaks
    \/ \E status \in BackendStatuses : BackendAnswers(status)

--------------------------------------------------------------------------------
(* Properties *)

\* Whatever the order in which the wake, the backend, the client and the write
\* deadline come, what the client is told is what happened: a 503 is a wake that
\* failed, a 502 a backend that failed, a 500 a panic before the header, and any
\* other status the backend's own, unless the backend sent a 1xx first, which the
\* guard of LoggingResponseWriter (logging.go:31-38) takes for the answer.
AnswersAreTold ==
    pc = "done" /\ seen.status # 0 =>
        /\ CASE seen.status = 503 -> gate /\ ctxDone /\ backend.status = 0
             [] seen.status = 502 -> backend.status = 0
             [] seen.status = 500 -> panicked /\ backend.status = 0
             [] OTHER -> seen.status = backend.status \/ backend.informed
        /\ seen.requestID \/ backend.informed

\* The "response" line of a request tells the status its client gets, again with a
\* 1xx as the exception; a request that panicked has no such line (logging.go:102-113).
LogTellsStatus ==
    /\ "response" \in logged =>
         ~panicked /\ (wrapped.status = header \/ backend.informed)
    /\ pc = "done" => ("response" \in logged <=> ~panicked)

\* The retries of SendWoL take at most the attempts' timeouts and the capped,
\* jittered delays between them (types.go:69-89), so that a wake that begins to
\* poll late does so for a reason.
RetriesAreBounded ==
    /\ call = "sending" => clock <= attempt * GwTimeout + Slept[attempt - 1]
    /\ call = "backoff" => clock <= attempt * GwTimeout + Slept[attempt]

\* "Increase `wakeOnLan.timeout` if servers take > 60s to wake" (README.md:538): who
\* has waited for a wake that succeeded gets an answer; at least a request that ends
\* in the moment it passes the gate reaches its client, if that is still there.  It is
\* so with a wake timeout below the listener's WriteTimeout (route_manager.go:400),
\* and not with the longer one that is advised.
WokenIsAnswered ==
    pc = "done" /\ ~gone /\ clock = passed => seen.status # 0

\* The idle tracker is "optional; nil means idle tracking is disabled"
\* (route_manager.go:69): a request panics only when the body of an answer breaks
\* off, whatever is configured (proxy.go:131-136, main.go:264, 429).
PanicsOnlyOnAbort == panicked => backend.status # 0
================================================================================
