------------------------------ MODULE SmaugProofs ------------------------------
(***************************************************************************)
(* Proofs about the process (Smaug), for every set of configuration files, *)
(* statuses, timeouts and attempts, in three steps: one call of SendWoL,   *)
(* which is a behaviour of GwaihirClient whatever the process does around  *)
(* it (GwInv); the request, whose invariant relates what its handlers have *)
(* written to what made them write it (RequestInv); and run(), whose       *)
(* invariant says what is up at each of its stages, in which order, and    *)
(* what depends on it (ProcInv).                                           *)
(***************************************************************************)
EXTENDS Smaug, GwaihirClientProofs

--------------------------------------------------------------------------------
(* The process makes calls of SendWoL *)

\* The handlers of a request use the client through its own operations.
LEMMA HandlerCalls == ASSUME Handler PROVE [GwNext]_gwVars
<1>1. CASE Handler BY <1>1 DEF Handler, Forward, StartWake, WakeSucceeds, WakeFails,
    WakeExpires, RecordPanics, Record, Recover, LogResponse, Finish, GwNext
<1>. QED BY <1>1

\* So does what else may happen to a request.
LEMMA RequestCalls == ASSUME Request PROVE [GwNext]_gwVars
<1>1. CASE Arrive BY <1>1 DEF Arrive
<1>2. CASE Tick BY <1>2 DEF Tick, GwNext
<1>3. CASE Backend BY <1>3 DEF Backend, BackendInforms, BackendFails, BodyEnds,
    BodyBreaks, Copy, BackendAnswers
<1>4. CASE ConnectionCloses BY <1>4 DEF ConnectionCloses
<1>5. CASE HealthChanges BY <1>5 DEF HealthChanges
<1>. QED BY <1>1, <1>2, <1>3, <1>4, <1>5, HandlerCalls DEF Request

\* The way up makes no call.
LEMMA StartCalls == ASSUME Start PROVE UNCHANGED gwVars
BY DEF Start, InitMetrics, LoadConfig, StartHealth, InitWake, StartTracker, StartRoutes,
    ListenerBinds, StartSleep, Notify, SkipServer, Server, StartServer, ServerRuns, ServerListens,
    ServerFails, CloseStarted, ServerStarted, onlySrv

\* Nor does the way down.
LEMMA UnwindCalls == ASSUME Unwind PROVE UNCHANGED gwVars
BY DEF Unwind, StopPart, StopServer, onlySrv, ShutRoutes, RoutesDrain, RoutesAreForced,
    CloseCoordinator, StopRoutes, Exit

\* Every step of the process is a step of the client or leaves it alone.
LEMMA ProcessCalls == ASSUME [Next]_vars PROVE [GwNext]_gwVars
<1>1. CASE Request BY <1>1, RequestCalls
<1>2. CASE Start BY <1>2, StartCalls
<1>3. CASE Unwind BY <1>3, UnwindCalls
<1>4. CASE ReceiveSignal \/ KilledBySignal BY <1>4 DEF ReceiveSignal, KilledBySignal
<1>5. CASE UNCHANGED vars BY <1>5 DEF vars
<1>. QED BY <1>1, <1>2, <1>3, <1>4, <1>5 DEF Next

\* The process implements the specification of the Gwaihir client: whatever the
\* wake coordinator and the request do, SendWoL runs as client.go:94 has it.
THEOREM ProcessMakesCalls == SafeSpec => GwSpec
<1>1. Init => GwInit BY DEF Init
<1>2. [Next]_vars => [GwNext]_gwVars BY ProcessCalls
<1>. QED BY <1>1, <1>2, PTL DEF SafeSpec, GwSpec

\* The inductive invariant of SendWoL (client.go:94) holds throughout the process:
\* attempts and requests sent agree, and the result is what the last answer says.
THEOREM CallInvariance == SafeSpec => []GwInv
BY ProcessMakesCalls, GwInvariance, PTL

\* The error that SendWoL returns (client.go:94, handleWoLResponse) tells what the
\* last answer was, with any set of statuses and any number of attempts.
THEOREM ResultIsTrue == SafeSpec => []ResultTellsTheAnswer
<1>1. GwInv => ResultTellsTheAnswer BY DEF GwInv
<1>. QED BY <1>1, CallInvariance, PTL

\* After a success, or a client error that it could read, SendWoL makes no further
\* attempt (client.go:140-151).
THEOREM DefiniteIsFinal == SafeSpec => DefiniteAnswersEnd
<1>1. GwInv /\ [Next]_vars => [attempt > 0 /\ attempt' > attempt =>
    ~Definite(answer)]_gwVars
  BY NoAttemptAfterDefinite, ProcessCalls
<1>. QED BY <1>1, CallInvariance, PTL DEF SafeSpec, DefiniteAnswersEnd

--------------------------------------------------------------------------------
(* The request *)

PathTypes ==
    /\ pc \in {"none", "gate", "waiting", "proxy", "backend", "body", "recover",
               "respond", "finish", "done"}
    /\ gate \in BOOLEAN /\ closing \in BOOLEAN /\ gone \in BOOLEAN
    /\ backend \in [status : BackendStatuses \cup {0}, informed : BOOLEAN]
    /\ wrapped \in [written : BOOLEAN, status : Nat]
    /\ requestID \in BOOLEAN /\ panicked \in BOOLEAN

FromBackend ==
    /\ backend.status # 0
    /\ header = backend.status \/ (backend.informed /\ header \in {0, 200})
    /\ wrapped.status = header \/ backend.informed

FromSmaug ==
    /\ backend.status = 0
    /\ \/ header = 502
       \/ header = 0 /\ backend.informed
       \/ header = 503 /\ (gone \/ (gate /\ ctxDone))
    /\ wrapped.status = header \/ backend.informed

FromPanic ==
    /\ panicked
    /\ \/ FromBackend /\ header # 0
       \/ header = 500 /\ backend.status = 0

PathInv ==
    /\ pc \in {"none", "gate", "waiting", "proxy"} =>
         backend.status = 0 /\ ~backend.informed /\ header = 0 /\ ~wrapped.written
    /\ pc = "waiting" => gate
    /\ pc = "backend" =>
         backend.status = 0 /\ header = 0 /\ (wrapped.written <=> backend.informed)
    /\ pc = "body" => FromBackend
    /\ pc = "respond" => FromBackend \/ FromSmaug
    /\ pc = "recover" => (FromBackend /\ header # 0) \/ (header = 0 /\ backend.status = 0)
    /\ pc \in {"finish", "done"} =>
         IF "response" \in logged THEN ~panicked /\ (FromBackend \/ FromSmaug) ELSE
           FromPanic
    /\ pc \notin {"finish", "done"} => ~panicked /\ "response" \notin logged
    /\ pc # "none" => requestID \/ backend.informed
    /\ pc = "done" /\ seen.status # 0 => seen = Answered /\ (header = 503 => gate /\
      ctxDone)

ListenerInv ==
    /\ closing => listener = "shut"
    /\ listener = "shut" => pc \in {"none", "done"} \/ gone
    /\ listener \in {"none", "spawned", "failed"} => pc = "none"
    /\ stage \in {"registry", "load", "health", "wake", "tracker", "routes"} =>
         listener = "none"

RequestInv == PathTypes /\ PathInv /\ ListenerInv

\* No request has come yet.
LEMMA RequestInitially == ASSUME Init PROVE RequestInv
BY DEF Init, GwInit, ReqInit, NoBackend, Nothing, BackendStatuses, RequestInv, PathTypes,
    PathInv, ListenerInv

\* The invariant is strong enough for both properties.
LEMMA InvTold == ASSUME RequestInv PROVE AnswersAreTold /\ LogTellsStatus
<1>1. AnswersAreTold
  BY DEF AnswersAreTold, RequestInv, PathTypes, PathInv, FromBackend, FromSmaug,
    FromPanic, Answered, BackendStatuses
<1>2. LogTellsStatus
  BY DEF LogTellsStatus, RequestInv, PathTypes, PathInv, FromBackend, FromSmaug, FromPanic
<1>. QED BY <1>1, <1>2

\* A wake's deadline, once over, stays over.
LEMMA ContextStays == ASSUME [GwNext]_gwVars, ctxDone PROVE ctxDone'
BY DEF GwNext, GwStep, SendWoL, AnswerRead, AnswerCut, AnswerLost, Answer, BackoffOver,
    BackoffInterrupted, ContextEnds, GwTick, gwVars

\* WriteHeader of the logging middleware and net/http below it: the first status is
\* recorded, a later one is dropped, an informational one does not end the header.
LEMMA HeaderWritten ==
    ASSUME wrapped \in [written : BOOLEAN, status : Nat], NEW status \in Nat,
      WriteHeader(status)
    PROVE  IF wrapped.written THEN wrapped' = wrapped /\ header' = header
           ELSE /\ wrapped'.written /\ wrapped'.status = status
                /\ wrapped' \in [written : BOOLEAN, status : Nat]
                /\ header' = IF status \in 100..199 THEN header ELSE status
<1>1. CASE wrapped.written BY <1>1 DEF WriteHeader
<1>2. CASE ~wrapped.written
  <2>1. wrapped' = [written |-> TRUE, status |-> status] BY <1>2 DEF WriteHeader
  <2>2. header' = IF status \in 100..199 THEN header ELSE status BY <1>2 DEF WriteHeader
  <2>. QED BY <1>2, <2>1, <2>2
<1>. QED BY <1>1, <1>2

\* An informational answer changes no status.
LEMMA Informed ==
    ASSUME backend \in [status : BackendStatuses \cup {0}, informed : BOOLEAN],
           backend' = [status |-> backend.status, informed |-> TRUE]
    PROVE  /\ backend'.informed /\ backend'.status = backend.status
           /\ backend' \in [status : BackendStatuses \cup {0}, informed : BOOLEAN]
OBVIOUS

\* While the backend is asked, only an informational answer may have been written.
LEMMA NothingButInformed ==
    ASSUME PathTypes, PathInv, pc = "backend"
    PROVE  header = 0 /\ backend.status = 0 /\ (wrapped.written => backend.informed)
BY DEF PathTypes, PathInv

\* An informational answer keeps the types.
LEMMA TypesStay ==
    ASSUME PathTypes, UNCHANGED <<pc, gone, panicked, gate, closing>>, requestID' = FALSE,
           backend' \in [status : BackendStatuses \cup {0}, informed : BOOLEAN],
           wrapped' \in [written : BOOLEAN, status : Nat]
    PROVE  PathTypes'
BY Zenon DEF PathTypes

\* Every step of the request keeps its invariant.
LEMMA RequestSteps == ASSUME RequestInv, GwInv, Request PROVE RequestInv'
<1>. USE DEF RequestInv, PathTypes, PathInv, ListenerInv, At, reqVars, timeVars,
    worldVars, connVars, logVars, chainVars, processVars, gwVars, FromBackend, FromSmaug,
    FromPanic, BackendStatuses
<1>0. UNCHANGED <<processVars, listener, gate, closing>> /\ (ctxDone => ctxDone')
  BY RequestCalls, ContextStays DEF Request
<1>1. CASE Arrive /\ listener = "bound" BY <1>0, <1>1 DEF Arrive
<1>2. CASE Forward BY <1>0, <1>2 DEF Forward
<1>3. CASE StartWake BY <1>0, <1>3 DEF StartWake
<1>4. CASE WakeSucceeds BY <1>0, <1>4 DEF WakeSucceeds
<1>5. CASE WakeFails
  <2>1. WriteHeader(503) BY <1>5 DEF WakeFails
  <2>2. header' = 503 /\ wrapped'.status = 503 /\ wrapped' \in [written : BOOLEAN,
    status : Nat]
    BY <1>5, <2>1, HeaderWritten DEF WakeFails
  <2>. QED BY <1>0, <1>5, <2>2 DEF WakeFails
<1>6. CASE WakeExpires BY <1>0, <1>6 DEF WakeExpires, Answered
<1>7. CASE RecordPanics BY <1>0, <1>7 DEF RecordPanics
<1>8. CASE Record BY <1>0, <1>8 DEF Record
<1>9. CASE Recover BY <1>0, <1>9 DEF Recover
<1>10. CASE LogResponse BY <1>0, <1>10 DEF LogResponse
<1>11. CASE Finish BY <1>0, <1>11 DEF Finish, Answered, Nothing
<1>12. CASE UNCHANGED reqVars BY <1>0, <1>12 DEF Answered
<1>13. CASE Tick BY <1>0, <1>13 DEF Tick, Answered
<1>14. CASE BackendInforms
  <2>1. backend' = [status |-> backend.status, informed |-> TRUE]
    BY <1>14 DEF BackendInforms
  <2>2. WriteHeader(103) BY <1>14 DEF BackendInforms
  <2>3. header' = 0 /\ wrapped'.written /\ wrapped' \in [written : BOOLEAN, status : Nat]
    BY <1>14, <2>2, HeaderWritten DEF BackendInforms
  <2>4. /\ backend'.informed /\ backend'.status = 0
        /\ backend' \in [status : BackendStatuses \cup {0}, informed : BOOLEAN]
    BY <1>14, <2>1, Informed, NothingButInformed DEF BackendInforms
  <2>5. pc = "backend" /\ UNCHANGED <<pc, gone, panicked, logged, seen, gate, closing,
    listener, stage>> /\ requestID' = FALSE
    BY <1>0, <1>14 DEF BackendInforms
  <2>6. PathTypes'
    BY <2>3, <2>4, <2>5, TypesStay DEF PathTypes
  <2>7. PathInv' BY <2>3, <2>4, <2>5
  <2>8. ListenerInv' BY <2>5
  <2>. QED BY <2>6, <2>7, <2>8
<1>15. CASE BackendFails
  <2>1. WriteHeader(502) BY <1>15 DEF BackendFails
  <2>2. /\ (backend.informed /\ header' = 0) \/ (header' = 502 /\ wrapped'.status = 502)
        /\ wrapped' \in [written : BOOLEAN, status : Nat]
    <3>1. CASE wrapped.written
      <4>1. wrapped' = wrapped /\ header' = header BY <2>1, <3>1, HeaderWritten
      <4>. QED BY <1>15, <3>1, <4>1, NothingButInformed DEF BackendFails
    <3>2. CASE ~wrapped.written BY <2>1, <3>2, HeaderWritten
    <3>. QED BY <3>1, <3>2
  <2>. QED BY <1>0, <1>15, <2>2 DEF BackendFails
<1>16. CASE BodyEnds BY <1>0, <1>16 DEF BodyEnds, Copy
<1>17. CASE BodyBreaks BY <1>0, <1>17 DEF BodyBreaks, Copy
<1>18. ASSUME NEW status \in BackendStatuses, BackendAnswers(status) PROVE RequestInv'
  <2>1. backend' = [status |-> status, informed |-> backend.informed]
    BY <1>18 DEF BackendAnswers
  <2>2. WriteHeader(status) BY <1>18 DEF BackendAnswers
  <2>3. /\ \/ backend.informed /\ header' = 0
           \/ header' = status /\ wrapped'.status = status
        /\ wrapped' \in [written : BOOLEAN, status : Nat]
    <3>1. CASE wrapped.written
      <4>1. wrapped' = wrapped /\ header' = header BY <2>2, <3>1, HeaderWritten
      <4>. QED BY <1>18, <3>1, <4>1, NothingButInformed DEF BackendAnswers
    <3>2. CASE ~wrapped.written BY <2>2, <3>2, HeaderWritten
    <3>. QED BY <3>1, <3>2
  <2>. QED BY <1>0, <1>18, <2>1, <2>3 DEF BackendAnswers
<1>19. CASE ConnectionCloses BY <1>0, <1>19 DEF ConnectionCloses
<1>20. CASE HealthChanges BY <1>0, <1>20 DEF HealthChanges
<1>. QED BY <1>1, <1>2, <1>3, <1>4, <1>5, <1>6, <1>7, <1>8, <1>9, <1>10, <1>11, <1>12,
    <1>13, <1>14, <1>15, <1>16, <1>17, <1>18, <1>19, <1>20 DEF Request, Handler, Backend

\* What the process does besides leaves the request alone, but for closing its
\* connection and its wake coordinator.
LEMMA RequestUntouched ==
    ASSUME RequestInv, UNCHANGED <<gwVars, pc, timeVars, backend, connVars, logVars,
      gate>>,
           gone' \in BOOLEAN, gone => gone', closing' \in BOOLEAN, ListenerInv'
    PROVE  RequestInv'
BY DEF RequestInv, PathTypes, PathInv, FromBackend, FromSmaug, FromPanic, Answered,
    gwVars, timeVars, connVars, logVars

\* The way up keeps the request's invariant: there is no request before the
\* listener has bound its port, so its chain of handlers is set before it comes.
LEMMA StartKeeps == ASSUME RequestInv, Start PROVE RequestInv'
<1>. USE DEF ListenerInv, reqVars, chainVars, processVars, worldVars, Fail, Up
<1>1. CASE StartRoutes
  <2>1. pc = "none" /\ ~closing /\ listener' = "spawned" /\ stage' = "sleep" /\
    UNCHANGED <<gwVars, reqVars, closing>> /\ gate' = WakeCoordinator
    BY <1>1 DEF RequestInv, StartRoutes, PathTypes
  <2>2. gate' \in BOOLEAN BY <2>1 DEF WakeCoordinator
  <2>. QED BY <2>1, <2>2 DEF RequestInv, PathTypes, PathInv, FromBackend, FromSmaug,
    FromPanic, Answered, timeVars, connVars, logVars
<1>2. CASE InitMetrics \/ LoadConfig \/ StartHealth \/ InitWake \/ StartTracker \/
    ListenerBinds \/ StartSleep \/ Notify
  <2>1. UNCHANGED <<gwVars, reqVars, chainVars>>
    BY <1>2 DEF InitMetrics, LoadConfig, StartHealth, InitWake, StartTracker, ListenerBinds,
      StartSleep, Notify
  <2>2. ListenerInv'
    <3>. USE DEF RequestInv, PathTypes
    <3>0. CASE InitMetrics BY <3>0 DEF InitMetrics
    <3>1. CASE LoadConfig BY <3>1 DEF LoadConfig
    <3>2. CASE StartHealth BY <3>2 DEF StartHealth
    <3>3. CASE InitWake BY <3>3 DEF InitWake
    <3>4. CASE StartTracker BY <3>4 DEF StartTracker
    <3>5. CASE ListenerBinds BY <3>5 DEF ListenerBinds
    <3>6. CASE StartSleep BY <3>6 DEF StartSleep
    <3>7. CASE Notify BY <3>7 DEF Notify
    <3>. QED BY <1>2, <3>0, <3>1, <3>2, <3>3, <3>4, <3>5, <3>6, <3>7
  <2>. QED BY <2>1, <2>2, RequestUntouched DEF RequestInv, PathTypes
<1>3. ASSUME NEW s \in Servers, SkipServer(s) \/ Server(s) PROVE RequestInv'
  <2>1. UNCHANGED <<gwVars, reqVars, chainVars, listener>>
    BY <1>3 DEF SkipServer, Server, StartServer, ServerRuns, ServerListens, ServerFails,
      CloseStarted, ServerStarted, onlySrv
  <2>2. \/ stage' = stage
        \/ stage' \notin {"registry", "load", "health", "wake", "tracker", "routes"}
    BY <1>3 DEF SkipServer, Server, StartServer, ServerRuns, ServerListens, ServerFails,
      CloseStarted, ServerStarted, AfterServer, onlySrv
  <2>3. ListenerInv' BY <2>1, <2>2 DEF RequestInv
  <2>. QED BY <2>1, <2>3, RequestUntouched DEF RequestInv, PathTypes
<1>. QED BY <1>1, <1>2, <1>3 DEF Start

\* The way down keeps it: the coordinator is closed after the listener has been
\* shut, which is when no request is left or its connection has been closed.
LEMMA UnwindKeeps == ASSUME RequestInv, Unwind PROVE RequestInv'
<1>. USE DEF ListenerInv, reqVars, chainVars, processVars, worldVars
<1>1. /\ UNCHANGED <<gwVars, pc, timeVars, backend, connVars, logVars, gate>>
      /\ gone' \in BOOLEAN /\ (gone => gone') /\ closing' \in BOOLEAN
  BY DEF Unwind, StopPart, StopServer, onlySrv, ShutRoutes, RoutesDrain,
    RoutesAreForced, CloseCoordinator, StopRoutes, Exit, RequestInv, PathTypes
<1>2. ListenerInv'
  <2>. USE DEF RequestInv, PathTypes
  <2>1. CASE StopPart BY <2>1 DEF StopPart
  <2>2. ASSUME NEW s \in Servers, StopServer(s) PROVE ListenerInv' BY <2>2 DEF
    StopServer, onlySrv
  <2>3. CASE ShutRoutes BY <2>3 DEF ShutRoutes, StoppingRoutes
  <2>4. CASE RoutesDrain BY <2>4 DEF RoutesDrain, StoppingRoutes
  <2>5. CASE RoutesAreForced BY <2>5 DEF RoutesAreForced, StoppingRoutes
  <2>6. CASE CloseCoordinator BY <2>6 DEF CloseCoordinator
  <2>7. CASE StopRoutes BY <2>7 DEF StopRoutes
  <2>8. CASE Exit BY <2>8 DEF Exit
  <2>. QED BY <2>1, <2>2, <2>3, <2>4, <2>5, <2>6, <2>7, <2>8 DEF Unwind
<1>. QED BY <1>1, <1>2, RequestUntouched

\* The request's inductive invariant holds throughout the process.
THEOREM RequestInvariance == SafeSpec => []RequestInv
<1>1. Init => RequestInv BY RequestInitially
<1>2. ASSUME RequestInv, GwInv, [Next]_vars PROVE RequestInv'
  <2>1. CASE ReceiveSignal \/ KilledBySignal
    <3>1. UNCHANGED <<gwVars, reqVars, chainVars>> /\ ListenerInv'
      BY <1>2, <2>1 DEF ReceiveSignal, KilledBySignal, ListenerInv, RequestInv,
        PathTypes, reqVars, chainVars, worldVars
    <3>. QED BY <1>2, <3>1, RequestUntouched DEF RequestInv, PathTypes, reqVars,
      chainVars, worldVars
  <2>2. CASE UNCHANGED vars
    <3>1. UNCHANGED <<gwVars, reqVars, chainVars>> /\ ListenerInv'
      BY <1>2, <2>2 DEF vars, ListenerInv, RequestInv, PathTypes, reqVars, chainVars,
        processVars, worldVars
    <3>. QED BY <1>2, <3>1, RequestUntouched DEF RequestInv, PathTypes, reqVars,
      chainVars, worldVars
  <2>. QED BY <1>2, <2>1, <2>2, StartKeeps, UnwindKeeps, RequestSteps DEF Next
<1>. QED BY <1>1, <1>2, CallInvariance, PTL DEF SafeSpec

\* What the client of a request is told (proxy.go, wake_coordinator.go, recovery)
\* is what happened to it: the backend's answer, 502 when the backend failed, 503
\* only for a wake that failed or expired, 500 only for a panic.
THEOREM ClientIsTold == SafeSpec => []AnswersAreTold
<1>1. RequestInv => AnswersAreTold BY InvTold
<1>. QED BY <1>1, RequestInvariance, PTL

\* The "response" line of the logging middleware has the status that was sent,
\* unless the backend sent an informational answer first.
THEOREM LogIsTrue == SafeSpec => []LogTellsStatus
<1>1. RequestInv => LogTellsStatus BY InvTold
<1>. QED BY <1>1, RequestInvariance, PTL

--------------------------------------------------------------------------------
(* The time of the request *)

\* A wake begins when its request has just come, lasts its timeout and no longer,
\* and its deadline is what ends its context; whoever gets past the gate does so by
\* that time.
TimeInv ==
    /\ clock \in Nat /\ passed \in Nat
    /\ pc \in {"none", "gate"} => clock = 0
    /\ pc = "waiting" => call # "idle" /\ clock <= WakeTimeout
    /\ passed <= WakeTimeout
    /\ ctxDone => clock >= WakeTimeout
    /\ InTime(clock)

\* After the end of a request its client has an answer, or is gone, or time has
\* passed since the gate.
SeenInTime == pc = "done" => gone \/ seen.status # 0 \/ clock > passed

\* The deadline ends with the request's own clock.
LEMMA DeadlineIsTheWakes ==
    ASSUME [GwNext]_gwVars, ~ctxDone, ctxDone'
    PROVE  ContextEnds
BY DEF GwNext, GwStep, SendWoL, AnswerRead, AnswerCut, AnswerLost, Answer, BackoffOver,
    BackoffInterrupted, GwTick, gwVars

\* A step of the call within a request in which no time passes.
LEMMA CallKeepsTime ==
    ASSUME TimeInv, GwInv, GwTypeOK, GwStep \/ ContextEnds \/ UNCHANGED gwVars,
           UNCHANGED <<pc, timeVars>>, ContextEnds => clock >= WakeTimeout
    PROVE  TimeInv'
<1>1. InTime(clock)'
  <2>1. clock' = clock /\ clock \in Nat /\ InTime(clock)
    BY DEF TimeInv, timeVars
  <2>2. \A now \in Nat : InTime(now) => InTime(now)'
    BY StepInTime
  <2> QED
    BY <2>1, <2>2 DEF InTime, Budget
<1>2. call # "idle" => call' # "idle"
  BY DEF GwStep, AnswerRead, AnswerCut, AnswerLost, NextAttempt, Return, BackoffOver,
    BackoffInterrupted, ContextEnds, gwVars
<1>3. ctxDone' => ctxDone \/ ContextEnds
  BY DeadlineIsTheWakes DEF GwNext
<1> QED
  BY <1>1, <1>2, <1>3 DEF TimeInv, timeVars

\* A step of the handlers or of the backend, which takes no time and is not the call's.
LEMMA PathKeepsTime ==
    ASSUME TimeInv, UNCHANGED <<gwVars, clock>>,
           \/ passed' = passed
           \/ passed' = clock /\ pc \in {"gate", "waiting"},
           pc' \in {"none", "gate"} => pc \in {"none", "gate"},
           pc' = "waiting" => pc = "waiting"
    PROVE  TimeInv'
<1>1. InTime(clock)'
  BY DEF TimeInv, gwVars, InTime, Budget
<1> QED
  BY <1>1, RequestAssumption DEF TimeInv, gwVars

\* Time passes: not at the gate, not once the wake is over, and while a timer runs.
LEMMA TickKeepsTime == ASSUME TimeInv, GwInv, GwTypeOK, Tick PROVE TimeInv'
<1>1. /\ pc \notin {"none", "gate"} /\ pc' = pc /\ passed' = passed
      /\ clock' \in {clock, clock + 1} /\ clock \in Nat
  BY DEF Tick, ReqDue, TimeInv
<1>2. InTime(clock)'
  <2>1. \A now \in Nat : InTime(now) => InTime(now)' /\ InTime(now + 1)'
    BY TickInTime DEF Tick
  <2>2. InTime(clock)
    BY DEF TimeInv
  <2>3. clock + 1 \in Nat
    BY <1>1
  <2> QED
    BY <1>1, <2>1, <2>2, <2>3 DEF InTime, Budget
<1>3. UNCHANGED <<call, ctxDone>>
  BY DEF Tick, GwTick
<1>4. pc = "waiting" => clock < WakeTimeout
  <2> SUFFICES ASSUME pc = "waiting" PROVE clock < WakeTimeout
    OBVIOUS
  <2>1. call \in {"sending", "backoff", "done"}
    BY DEF TimeInv, GwInv, GwTypes
  <2>2. ~ctxDone
    BY <2>1 DEF Tick, GwTick, GwDue, ReqDue
  <2> QED
    BY <1>1, <2>2, RequestAssumption DEF Tick, ReqDue, WakeIsLate
<1> QED
  BY <1>1, <1>2, <1>3, <1>4, RequestAssumption DEF TimeInv

\* Every step of the request keeps its time.
LEMMA RequestKeepsTime == ASSUME TimeInv, GwInv, GwTypeOK, Request PROVE TimeInv'
<1> USE DEF At, timeVars, gwVars
<1>1. CASE Arrive BY <1>1, PathKeepsTime DEF Arrive
<1>2. CASE Forward BY <1>2, PathKeepsTime DEF Forward
<1>3. CASE StartWake
  <2>1. /\ pc = "gate" /\ pc' = "waiting" /\ UNCHANGED <<clock, passed, ctxDone>>
        /\ call' = "sending" /\ SendWoL
    BY <1>3 DEF StartWake, SendWoL
  <2>2. clock = 0 /\ clock' = 0
    BY <2>1 DEF TimeInv
  <2>3. InTime(clock)'
    BY <2>1, <2>2, SendInTime DEF InTime, Budget
  <2> QED
    BY <2>1, <2>2, <2>3, RequestAssumption DEF TimeInv
<1>4. CASE WakeSucceeds BY <1>4, PathKeepsTime DEF WakeSucceeds
<1>5. CASE WakeFails BY <1>5, PathKeepsTime DEF WakeFails
<1>6. CASE WakeExpires BY <1>6, CallKeepsTime DEF WakeExpires, WakeIsLate, reqVars
<1>7. CASE RecordPanics \/ Record BY <1>7, PathKeepsTime DEF RecordPanics, Record
<1>8. CASE Recover BY <1>8, PathKeepsTime DEF Recover
<1>9. CASE LogResponse BY <1>9, PathKeepsTime DEF LogResponse
<1>10. CASE Finish BY <1>10, PathKeepsTime DEF Finish
<1>11. CASE GwStep /\ UNCHANGED reqVars
  <2>1. ~ContextEnds \/ UNCHANGED ctxDone
    BY <1>11 DEF GwStep, AnswerRead, AnswerCut, AnswerLost, Answer, BackoffOver,
      BackoffInterrupted
  <2>2. ~ContextEnds
    BY <2>1 DEF ContextEnds
  <2> QED BY <1>11, <2>2, CallKeepsTime DEF reqVars
<1>12. CASE Tick BY <1>12, TickKeepsTime
<1>13. CASE BackendInforms BY <1>13, PathKeepsTime DEF BackendInforms
<1>14. CASE BackendFails BY <1>14, PathKeepsTime DEF BackendFails
<1>15. CASE BodyEnds \/ BodyBreaks BY <1>15, PathKeepsTime DEF BodyEnds, BodyBreaks, Copy
<1>16. ASSUME NEW status \in BackendStatuses, BackendAnswers(status) PROVE TimeInv'
  BY <1>16, PathKeepsTime DEF BackendAnswers
<1>17. CASE ConnectionCloses BY <1>17, PathKeepsTime DEF ConnectionCloses
<1>18. CASE HealthChanges BY <1>18, PathKeepsTime DEF HealthChanges
<1>. QED BY <1>1, <1>2, <1>3, <1>4, <1>5, <1>6, <1>7, <1>8, <1>9, <1>10, <1>11, <1>12,
    <1>13, <1>14, <1>15, <1>16, <1>17, <1>18 DEF Request, Handler, Backend

\* All that run() does to a request is to close its connection, or its coordinator.
LEMMA AroundRequest ==
    ASSUME Start \/ Unwind \/ ReceiveSignal \/ KilledBySignal \/ UNCHANGED vars
    PROVE  /\ UNCHANGED <<gwVars, pc, timeVars, healthy, backend, connVars, logVars>>
           /\ gone' = gone \/ gone'
<1>. USE DEF reqVars, worldVars
<1>1. CASE Start BY <1>1 DEF Start, InitMetrics, LoadConfig, StartHealth, InitWake, StartTracker,
    StartRoutes, ListenerBinds, StartSleep, Notify, SkipServer, Server, StartServer,
    ServerRuns, ServerListens, ServerFails, CloseStarted, ServerStarted, onlySrv
<1>2. CASE Unwind BY <1>2 DEF Unwind, StopPart, StopServer, onlySrv, ShutRoutes,
    RoutesDrain, RoutesAreForced, CloseCoordinator, StopRoutes, Exit
<1>3. CASE ReceiveSignal \/ KilledBySignal BY <1>3 DEF ReceiveSignal, KilledBySignal
<1>4. CASE UNCHANGED vars BY <1>4 DEF vars
<1>. QED BY <1>1, <1>2, <1>3, <1>4

\* The types of a call hold throughout the process.
THEOREM CallTypes == SafeSpec => []GwTypeOK
BY ProcessMakesCalls, GwTypeCorrect, PTL

\* So does the invariant of its time.
THEOREM TimeInvariance == SafeSpec => []TimeInv
<1>1. Init => TimeInv
  BY RequestAssumption DEF Init, GwInit, ReqInit, TimeInv, InTime
<1>2. ASSUME TimeInv, GwInv, GwTypeOK, [Next]_vars PROVE TimeInv'
  <2>1. CASE Request BY <1>2, <2>1, RequestKeepsTime
  <2>2. CASE Start \/ Unwind \/ ReceiveSignal \/ KilledBySignal \/ UNCHANGED vars
    BY <1>2, <2>2, AroundRequest, PathKeepsTime DEF timeVars
  <2>. QED BY <1>2, <2>1, <2>2 DEF Next
<1>. QED BY <1>1, <1>2, CallInvariance, CallTypes, PTL DEF SafeSpec

\* The attempts of SendWoL and the delays between them (types.go:69-89) take no longer
\* than their timeouts and the capped, jittered powers of two add up to.
THEOREM RetriesTakeTheirTime == SafeSpec => []RetriesAreBounded
<1>1. ASSUME TimeInv, GwInv, GwTypeOK PROVE RetriesAreBounded
  <2>1. clock \in Nat /\ timer \in Nat /\ InTime(clock)
    BY <1>1 DEF TimeInv, GwTypeOK
  <2>2. call = "sending" => clock <= attempt * GwTimeout + Slept[attempt - 1]
    <3> SUFFICES ASSUME call = "sending"
                 PROVE  clock <= attempt * GwTimeout + Slept[attempt - 1]
      OBVIOUS
    <3> DEFINE b == attempt * GwTimeout + Slept[attempt - 1]
    <3>1. clock + timer <= b
      BY <2>1 DEF InTime, Budget
    <3>2. attempt \in Nat /\ attempt - 1 \in Nat
      BY <1>1 DEF GwInv, GwTypes, AttemptsAreCounted
    <3>3. b \in Nat
      BY <3>2, BudgetSteps
    <3> HIDE DEF b
    <3>4. clock <= b
      BY <2>1, <3>1, <3>3
    <3> QED
      BY <3>4 DEF b
  <2>3. call = "backoff" => clock <= attempt * GwTimeout + Slept[attempt]
    <3> SUFFICES ASSUME call = "backoff"
                 PROVE  clock <= attempt * GwTimeout + Slept[attempt]
      OBVIOUS
    <3> DEFINE b == attempt * GwTimeout + Slept[attempt]
    <3>1. clock + timer <= b
      BY <2>1 DEF InTime, Budget
    <3>2. attempt \in Nat
      BY <1>1 DEF GwInv, GwTypes
    <3>3. b \in Nat
      BY <3>2, BudgetSteps
    <3> HIDE DEF b
    <3>4. clock <= b
      BY <2>1, <3>1, <3>3
    <3> QED
      BY <3>4 DEF b
  <2>. QED BY <2>2, <2>3 DEF RetriesAreBounded
<1>. QED BY <1>1, TimeInvariance, CallInvariance, CallTypes, PTL

\* The delays of all retries and the timeouts of all attempts but the last.
RetriesFit == (MaxAttempts - 1) * GwTimeout + Slept[MaxAttempts - 1] < WakeTimeout

\* When the retries fit in the wake, its deadline never cuts a delay short.
LEMMA FittingRetriesGoOn ==
    ASSUME RetriesFit, TimeInv, GwInv, GwTypeOK PROVE ~BackoffInterrupted
<1>. SUFFICES ASSUME call = "backoff", ctxDone PROVE FALSE
  BY DEF BackoffInterrupted
<1>1. /\ attempt \in Nat /\ MaxAttempts - 1 \in Nat /\ attempt <= MaxAttempts - 1
      /\ timer \in Nat /\ clock \in Nat /\ clock >= WakeTimeout /\ WakeTimeout \in Nat
  BY GwaihirAssumption, RequestAssumption DEF GwInv, GwTypes, AttemptsAreCounted, TimeInv,
    GwTypeOK
<1>. DEFINE here == attempt * GwTimeout + Slept[attempt]
            most == (MaxAttempts - 1) * GwTimeout + Slept[MaxAttempts - 1]
<1>2. clock + timer <= here
  BY DEF TimeInv, InTime, Budget
<1>3. here \in Nat /\ most \in Nat
  <2>1. \A n \in Nat : n * GwTimeout + Slept[n] \in Nat
    <3>. SUFFICES ASSUME NEW n \in Nat PROVE n * GwTimeout + Slept[n] \in Nat
      OBVIOUS
    <3>1. n * GwTimeout \in Nat /\ Slept[n] \in Nat BY BudgetSteps
    <3>. QED BY <3>1
  <2>. QED BY <1>1, <2>1
<1>a. here <= most
  BY <1>1, BudgetGrows
<1>4. most < WakeTimeout
  BY DEF RetriesFit
<1>. HIDE DEF here, most
<1>. QED BY <1>1, <1>2, <1>3, <1>4, <1>a

\* SendWoL has not been interrupted by the end of its wake.
Uninterrupted == sendResult # "interrupted"

\* With wakeOnLan.timeout (30 s by default) longer than the retries may take (under
\* 14 s by default), no delay between its attempts is cut short (client.go:206-210).
THEOREM RetriesEndBeforeTheWake ==
    RetriesFit => (SafeSpec => []Uninterrupted)
<1>. SUFFICES ASSUME RetriesFit PROVE SafeSpec => []Uninterrupted
  OBVIOUS
<1>1. Init => Uninterrupted BY DEF Init, GwInit, Uninterrupted
<1>2. ASSUME TimeInv, GwInv, GwTypeOK, Uninterrupted, [Next]_vars
      PROVE  Uninterrupted'
  <2>. USE DEF Uninterrupted
  <2>1. [GwNext]_gwVars /\ ~BackoffInterrupted
    BY <1>2, ProcessCalls, FittingRetriesGoOn
  <2>2. ASSUME NEW s, NextAttempt(s) PROVE sendResult' # "interrupted"
    BY <1>2, <2>2, Handled DEF NextAttempt, Return
  <2>3. ASSUME NEW s, Return(HandleWoLResponse(s)) PROVE sendResult' # "interrupted"
    BY <2>3, Handled DEF Return
  <2>. QED BY <1>2, <2>1, <2>2, <2>3 DEF GwNext, GwStep, SendWoL, AnswerRead, AnswerCut,
    AnswerLost, BackoffOver, ContextEnds, GwTick, gwVars
<1>. QED BY <1>1, <1>2, TimeInvariance, CallInvariance, CallTypes, PTL DEF SafeSpec

\* A request that is forwarded after a wake still has time to answer.
LEMMA RequestIsSeen ==
    ASSUME WakeTimeout < WriteTimeout, TimeInv, SeenInTime, Request
    PROVE  SeenInTime'
<1>. USE DEF At, timeVars, worldVars, logVars, reqVars
<1>1. CASE Finish
  <2>1. pc' = "done" /\ UNCHANGED <<clock, passed, gone>>
    BY <1>1 DEF Finish
  <2>2. CASE ~gone /\ clock < WriteTimeout
    <3>1. seen' = Answered
      BY <1>1, <2>2 DEF Finish
    <3>. QED BY <3>1 DEF Answered, SeenInTime
  <2>3. CASE ~gone /\ ~(clock < WriteTimeout)
    <3>1. clock > passed
      BY <2>3, RequestAssumption DEF TimeInv
    <3>. QED BY <2>1, <3>1 DEF SeenInTime
  <2>. QED BY <2>1, <2>2, <2>3 DEF SeenInTime
<1>2. CASE Tick BY <1>2 DEF Tick, SeenInTime, TimeInv
<1>3. CASE WakeExpires \/ UNCHANGED reqVars
  BY <1>3 DEF WakeExpires, SeenInTime
<1>4. CASE pc' # "done" BY <1>4 DEF SeenInTime
<1>. QED BY <1>1, <1>2, <1>3, <1>4 DEF Request, Handler, Backend, Arrive, Forward, StartWake,
    WakeSucceeds, WakeFails, RecordPanics, Record, Recover, LogResponse, BackendInforms,
    BackendFails, BodyEnds, BodyBreaks, BackendAnswers, ConnectionCloses, HealthChanges

\* With a wake timeout below the listener's WriteTimeout (route_manager.go:400), whoever
\* has waited for a wake that succeeded gets an answer, if he is still there.
THEOREM WokenGetsAnswer == WakeTimeout < WriteTimeout => (SafeSpec => []WokenIsAnswered)
<1>. SUFFICES ASSUME WakeTimeout < WriteTimeout PROVE SafeSpec => []WokenIsAnswered
  OBVIOUS
<1>1. Init => SeenInTime BY DEF Init, ReqInit, SeenInTime
<1>2. ASSUME TimeInv, SeenInTime, [Next]_vars PROVE SeenInTime'
  <2>1. CASE Request BY <1>2, <2>1, RequestIsSeen
  <2>2. CASE Start \/ Unwind \/ ReceiveSignal \/ KilledBySignal \/ UNCHANGED vars
    BY <1>2, <2>2, AroundRequest DEF SeenInTime, timeVars, logVars
  <2>. QED BY <1>2, <2>1, <2>2 DEF Next
<1>3. TimeInv /\ SeenInTime => WokenIsAnswered
  BY DEF TimeInv, SeenInTime, WokenIsAnswered
<1>. QED BY <1>1, <1>2, <1>3, TimeInvariance, PTL DEF SafeSpec

--------------------------------------------------------------------------------
(* Startup and shutdown *)

\* What run() defers a Stop of.
AllParts == {"config", "health", "tracker", "routes", "sleep", "management", "metrics"}

\* The order in which run() comes to its stages; a part has its stage's place.
Order ==
    [registry |-> 0, load |-> 1, config |-> 1, health |-> 2, wake |-> 3, tracker |-> 4,
     routes |-> 5, sleep |-> 6, management |-> 7, metrics |-> 8, notify |-> 9,
     serving |-> 10, unwinding |-> 0, exited |-> 0]

UpParts == {up[i] : i \in 1..Len(up)}

\* The defers are in the order of the stages.
Ordered ==
    /\ up \in Seq(AllParts)
    /\ \A i, j \in 1..Len(up) : i < j => Order[up[i]] < Order[up[j]]

\* The order of a part is a number.
LEMMA OrderIsNat == \A p \in AllParts : Order[p] \in Nat
BY DEF AllParts, Order

\* What is started is what the defers hold.
LEMMA StartedIsUp == ASSUME NEW part PROVE Started(part) <=> part \in UpParts
BY DEF Started, UpParts

\* A part that is put up after all others is the last of the defers,
LEMMA Grows ==
    ASSUME Ordered, NEW part \in AllParts, up' = Append(up, part),
           \A q \in UpParts : Order[q] < Order[part]
    PROVE  Ordered' /\ UpParts' = UpParts \cup {part}
<1>1. /\ up' \in Seq(AllParts) /\ Len(up') = Len(up) + 1 /\ Len(up) \in Nat
      /\ up'[Len(up) + 1] = part /\ \A i \in 1..Len(up) : up'[i] = up[i]
  BY DEF Ordered
<1>2. UpParts' = UpParts \cup {part}
  BY <1>1 DEF UpParts
<1>3. ASSUME NEW i \in 1..Len(up'), NEW j \in 1..Len(up'), i < j PROVE Order[up'[i]] <
  Order[up'[j]]
  <2>1. i \in 1..Len(up) /\ up[i] \in UpParts BY <1>1, <1>3 DEF UpParts
  <2>2. CASE j \in 1..Len(up) BY <1>1, <1>3, <2>1, <2>2 DEF Ordered
  <2>3. CASE j = Len(up) + 1 BY <1>1, <2>1, <2>3
  <2>. QED BY <1>1, <2>2, <2>3
<1>. QED BY <1>1, <1>2, <1>3 DEF Ordered

\* A prefix of a sequence.
LEMMA SubSeqIsPrefix ==
    ASSUME NEW S, NEW s \in Seq(S), NEW n \in 0..Len(s)
    PROVE  /\ SubSeq(s, 1, n) \in Seq(S)
           /\ Len(SubSeq(s, 1, n)) = n
           /\ \A i \in 1..n : SubSeq(s, 1, n)[i] = s[i]
OBVIOUS

\* ... and the one that is stopped is the latest of them all.
LEMMA Shrinks ==
    ASSUME Ordered, NEW part, Unwinds(part)
    PROVE  /\ Ordered' /\ UpParts' = UpParts \ {part} /\ part \in UpParts
           /\ \A q \in UpParts : q # part => Order[q] < Order[part]
<1>1. up \in Seq(AllParts) /\ up # <<>> /\ up[Len(up)] = part /\ up' = SubSeq(up, 1,
  Len(up) - 1)
  BY DEF Ordered, Unwinds
<1>2. /\ Len(up) \in Nat \ {0} /\ Len(up') = Len(up) - 1 /\ up' \in Seq(AllParts)
      /\ \A i \in 1..Len(up') : up'[i] = up[i]
  <2>1. Len(up) \in Nat \ {0} BY <1>1
  <2>2. Len(up) - 1 \in 0..Len(up) BY <2>1
  <2>3. /\ up' \in Seq(AllParts)
        /\ Len(up') = Len(up) - 1
        /\ \A i \in 1..Len(up') : up'[i] = up[i]
    BY <1>1, <2>1, <2>2, SubSeqIsPrefix
  <2>. QED BY <2>1, <2>3
<1>3. \A i \in 1..Len(up) : i # Len(up) => Order[up[i]] < Order[part]
  BY <1>1, <1>2 DEF Ordered
<1>4. \A i \in 1..Len(up) : i # Len(up) => up[i] # part
  <2>1. part \in AllParts BY <1>1, <1>2
  <2>. QED BY <1>3, <2>1, OrderIsNat
<1>5. UpParts' = UpParts \ {part}
  <2>1. UpParts' = {up[i] : i \in 1..Len(up')} BY <1>2 DEF UpParts
  <2>2. 1..Len(up) = 1..Len(up') \cup {Len(up)} BY <1>2
  <2>. QED BY <1>1, <1>2, <1>4, <2>1, <2>2 DEF UpParts
<1>6. part \in UpParts BY <1>1, <1>2 DEF UpParts
<1>7. \A q \in UpParts : q # part => Order[q] < Order[part] BY <1>1, <1>3 DEF UpParts
<1>8. Ordered' BY <1>2 DEF Ordered
<1>. QED BY <1>5, <1>6, <1>7, <1>8

\* The order of the stages, as facts the provers can use.
LEMMA Orders ==
    /\ Order["registry"] = 0
    /\ Order["load"] = 1 /\ Order["config"] = 1 /\ Order["health"] = 2 /\ Order["wake"] = 3
    /\ Order["tracker"] = 4 /\ Order["routes"] = 5 /\ Order["sleep"] = 6
    /\ Order["management"] = 7 /\ Order["metrics"] = 8 /\ Order["notify"] = 9
    /\ Order["serving"] = 10 /\ Order["unwinding"] = 0 /\ Order["exited"] = 0
BY DEF Order

\* A management server.
SrvState == [runner : {"none", "spawned", "begun", "serving", "failed", "shut"},
             closer : {"none", "asleep", "spawned", "begun", "serving", "failed"},
             running : BOOLEAN, startErr : BOOLEAN, started : BOOLEAN]

ProcTypes ==
    /\ stage \in Stages
    /\ Ordered
    /\ exit \in {"none", "error", "ok", "killed"}
    /\ listener \in {"none", "spawned", "bound", "failed", "draining", "shut"}
    /\ srv \in [Servers -> SrvState]

\* Somebody has the server's port.
PortCause(s) ==
    \/ Port(s) \in Foreign \cup {conf.listen}
    \/ \E t \in Servers \ {s} : Enabled(t) /\ Port(t) = Port(s)

\* How run() ends.
ExitInv ==
    /\ exit = "none" <=> stage \notin {"unwinding", "exited"}
    /\ stage = "unwinding" => exit # "killed"
    /\ FailsForCause
    /\ stage = "exited" /\ exit # "killed" => up = <<>>

Ended == {"unwinding", "exited"}
Late  == {"management", "metrics", "notify", "serving"}

\* What has been decided by the time run() is at a stage.
StageInv ==
    /\ stage \notin Ended => \A q \in UpParts : Order[q] < Order[stage]
    /\ stage \notin Ended \cup {"registry", "load"} => "config" \in UpParts
    /\ stage \notin Ended \cup {"registry", "load", "health"} => "health" \in UpParts
    /\ stage \notin Ended \cup {"registry", "load", "health", "wake"} =>
         (sender <=> conf.gwURL # "" /\ conf.wolOn)
    /\ stage \in Late \cup {"routes", "sleep"} =>
         ("tracker" \in UpParts <=> Served /\ conf.solOn)
    /\ stage \in Late \cup {"sleep"} => (gate <=> WakeCoordinator)
    /\ stage \in Late => (Served /\ conf.solOn => "sleep" \in UpParts)
    /\ stage \in Late \ {"management"} =>
         (Enabled("management") => "management" \in UpParts)
    /\ stage \in {"notify", "serving"} => (Enabled("metrics") => "metrics" \in UpParts)

\* A server: where its runner is,
RunnerInv(s) ==
    /\ srv[s].runner # "none" => Enabled(s)
    /\ srv[s].runner = "spawned" => stage = s \/ exit = "killed"
    /\ srv[s].runner \in {"begun", "serving"} =>
         stage = s \/ s \in UpParts \/ exit = "killed"
    /\ srv[s].runner = "failed" => PortCause(s)
    /\ srv[s].runner = "shut" => stage \in {"unwinding", "exited"}
    /\ srv[s].running <=> srv[s].runner \in {"begun", "serving"}
    /\ srv[s].startErr <=> srv[s].runner = "failed"

\* where it was when its closer looked, and what run() knows of it.
CloserInv(s) ==
    /\ srv[s].runner = "none" => srv[s].closer = "none"
    /\ srv[s].closer = "begun" => srv[s].runner \in {"begun", "serving", "failed", "shut"}
    /\ srv[s].closer = "serving" => srv[s].runner \in {"serving", "shut"}
    /\ srv[s].closer = "failed" => srv[s].runner = "failed"
    /\ srv[s].started <=>
         srv[s].closer \in {"begun", "serving"} \/ srv[s].runner = "failed"
    /\ s \in UpParts => srv[s].closer \in {"begun", "serving"}
    /\ srv[s].runner = "shut" => srv[s].closer \in {"begun", "serving"}

ServerInv(s) == RunnerInv(s) /\ CloserInv(s)

\* What is up has what it depends on below it, and a request its listener.
DependInv ==
    /\ "health" \in UpParts => "config" \in UpParts
    /\ "tracker" \in UpParts => "health" \in UpParts
    /\ "routes" \in UpParts => /\ "health" \in UpParts
                               /\ recorder = "tracker" => "tracker" \in UpParts
    /\ "sleep" \in UpParts => "tracker" \in UpParts
    /\ listener \in {"spawned", "bound", "failed", "draining"} =>
         "routes" \in UpParts \/ exit = "killed"
    /\ pc \notin {"none", "done"} /\ ~forced => listener \in {"bound", "draining"}

ProcInv ==
    /\ ProcTypes /\ ExitInv /\ StageInv /\ DependInv
    /\ \A s \in Servers : ServerInv(s)

\* Nothing is up yet.
LEMMA ProcInitially == ASSUME Init PROVE ProcInv
<1>1. up = <<>> /\ UpParts = {} BY DEF Init, UpParts
<1>2. Ordered BY <1>1 DEF Ordered
<1>3. srv \in [Servers -> SrvState] BY DEF Init, SrvState
<1>4. ProcTypes BY <1>2, <1>3 DEF Init, ProcTypes, Stages
<1>5. ExitInv BY DEF Init, ExitInv, FailsForCause
<1>6. StageInv BY <1>1, Orders DEF Init, StageInv, Ended, Late
<1>7. DependInv BY <1>1 DEF Init, DependInv, ReqInit
<1>8. \A s \in Servers : ServerInv(s) BY <1>1 DEF Init, ServerInv, RunnerInv, CloserInv
<1>. QED BY <1>4, <1>5, <1>6, <1>7, <1>8 DEF ProcInv

\* The invariant is strong enough for the four properties.
LEMMA ProcProperties ==
    ASSUME ProcInv
    PROVE  FailsForCause /\ EnabledIsStarted /\ DependenciesOutlive /\ NothingLeft
<1>1. FailsForCause BY DEF ProcInv, ExitInv
<1>2. EnabledIsStarted
  <2>. SUFFICES ASSUME stage = "serving" PROVE EnabledIsStarted
    BY DEF EnabledIsStarted
  <2>2. ASSUME NEW s \in Servers, Enabled(s)
        PROVE  Started(s) /\ (srv[s].runner = "serving" \/ srv[s].closer = "begun")
    <3>1. s \in UpParts
      BY <2>2 DEF ProcInv, StageInv, Servers, Late, Ended
    <3>2. srv[s].closer \in {"begun", "serving"} /\ srv[s].runner # "shut"
      BY <3>1 DEF ProcInv, ServerInv, RunnerInv, CloserInv
    <3>3. srv[s].closer = "serving" => srv[s].runner = "serving"
      BY <3>2 DEF ProcInv, ServerInv, CloserInv
    <3>. QED BY <3>1, <3>2, <3>3, StartedIsUp
  <2>3. Served /\ conf.solOn => Started("tracker") /\ Started("sleep")
    BY StartedIsUp DEF ProcInv, StageInv, Late, Ended
  <2>4. Served /\ conf.wolOn => gate \/ conf.gwURL = "" \/ conf.machineID = ""
    BY DEF ProcInv, StageInv, WakeCoordinator, Late, Ended
  <2>. QED BY <2>2, <2>3, <2>4, Zenon DEF EnabledIsStarted
<1>3. DependenciesOutlive
  BY StartedIsUp DEF ProcInv, ProcTypes, DependInv, ExitInv, DependenciesOutlive
<1>4. NothingLeft
  <2>1. ASSUME stage = "exited", exit # "killed" PROVE up = <<>> /\ UpParts = {}
    BY <2>1 DEF ProcInv, ExitInv, UpParts
  <2>2. ASSUME stage = "exited", exit # "killed", NEW s \in Servers
        PROVE  srv[s].runner \in {"none", "failed", "shut"}
    <3>1. srv[s].runner \in {"none", "spawned", "begun", "serving", "failed", "shut"}
      BY DEF ProcInv, ProcTypes, SrvState
    <3>2. srv[s].runner \notin {"spawned", "begun", "serving"}
      BY <2>1, <2>2 DEF ProcInv, ServerInv, RunnerInv, Servers
    <3>. QED BY <3>1, <3>2
  <2>. QED BY <2>1, <2>2 DEF ProcInv, ProcTypes, DependInv, NothingLeft
<1>. QED BY <1>1, <1>2, <1>3, <1>4

\* Nothing is put up or stopped.
LEMMA UpIsKept == ASSUME Ordered, UNCHANGED up PROVE Ordered' /\ UpParts' = UpParts
BY DEF Ordered, UpParts

\* The parts that are up have an order.
LEMMA UpOrder ==
    ASSUME Ordered, stage \in Stages
    PROVE  /\ UpParts \subseteq AllParts
           /\ \A q \in UpParts : Order[q] \in Nat
           /\ Order[stage] \in Nat
<1>1. UpParts \subseteq AllParts BY DEF Ordered, UpParts
<1>2. Order[stage] \in Nat BY Orders DEF Stages
<1>. QED BY <1>1, <1>2, OrderIsNat

\* Another part moves, the servers do not.
LEMMA ServersAreKept ==
    ASSUME ProcInv, UNCHANGED <<conf, srv>>,
           \A s \in Servers : s \in UpParts' <=> s \in UpParts,
           exit = "killed" => exit' = "killed",
           \/ stage' = stage
           \/ /\ stage \notin Servers
              /\ stage \in {"unwinding", "exited"} => stage' \in {"unwinding", "exited"}
    PROVE  \A s \in Servers : ServerInv(s)'
<1>. SUFFICES ASSUME NEW s \in Servers PROVE ServerInv(s)'
  OBVIOUS
<1>1. (PortCause(s)' <=> PortCause(s)) /\ (Enabled(s)' <=> Enabled(s))
  BY DEF PortCause, Port, Enabled
<1>2. ServerInv(s) BY DEF ProcInv
<1>. QED BY <1>1, <1>2 DEF ServerInv, RunnerInv, CloserInv

\* One stage further, with a part more or not.
LEMMA Proceeds ==
    ASSUME ProcInv, stage \in Startup \ Servers, stage' \in Startup \cup {"serving"},
           UNCHANGED <<conf, exit, srv>>,
           Ordered', UpParts' \cap Servers = UpParts \cap Servers,
           listener' \in {"none", "spawned", "bound", "failed", "draining", "shut"},
           StageInv', DependInv'
    PROVE  ProcInv'
<1>1. ProcTypes' BY DEF ProcInv, ProcTypes, Startup, Stages
<1>2. ExitInv'
  <2>1. exit = "none" /\ stage' \notin {"unwinding", "exited"} BY DEF ProcInv, ExitInv,
    Startup
  <2>. QED BY <2>1 DEF ExitInv, FailsForCause
<1>3. \A s \in Servers : ServerInv(s)' BY ServersAreKept DEF Startup
<1>. QED BY <1>1, <1>2, <1>3 DEF ProcInv

\* A part is put up at its stage.
LEMMA Climbs ==
    ASSUME ProcInv, stage \in Startup, NEW part \in AllParts, NEW next, Up(part, next),
           Order[part] = Order[stage]
    PROVE  /\ Ordered' /\ UpParts' = UpParts \cup {part}
           /\ stage' = next /\ UNCHANGED <<conf, exit>>
<1>1. \A q \in UpParts : Order[q] < Order[part]
  BY DEF ProcInv, StageInv, Startup, Stages, Ended
<1>. QED BY <1>1, Grows DEF Up, ProcInv, ProcTypes

\* run() fails, for a cause, at a stage whose server has not bound its port.
LEMMA Fails ==
    ASSUME ProcInv, stage \in Startup, Fail,
           UNCHANGED <<conf, up, srv, listener, forced, recorder, pc>>,
           \A s \in Servers :
             stage = s => srv[s].runner \notin {"spawned", "begun", "serving"},
           FailsForCause'
    PROVE  ProcInv'
<1>1. UpParts' = UpParts /\ Ordered' BY UpIsKept DEF ProcInv, ProcTypes
<1>2. stage' = "unwinding" /\ exit' = "error" /\ exit = "none"
  BY DEF Fail, ProcInv, ExitInv, Startup
<1>3. ProcTypes' BY <1>1, <1>2 DEF ProcInv, ProcTypes, Stages
<1>4. ExitInv' BY <1>2 DEF ExitInv
<1>5. StageInv'
  BY <1>2 DEF StageInv, Ended, Late
<1>6. DependInv' BY <1>1, <1>2 DEF ProcInv, DependInv
<1>7. ASSUME NEW s \in Servers PROVE ServerInv(s)'
  <2>1. (PortCause(s)' <=> PortCause(s)) /\ (Enabled(s)' <=> Enabled(s))
    BY DEF PortCause, Port, Enabled
  <2>. QED BY <1>1, <1>2, <1>7, <2>1 DEF ProcInv, ServerInv, RunnerInv, CloserInv
<1>. QED BY <1>3, <1>4, <1>5, <1>6, <1>7 DEF ProcInv

\* One stage further, all that is up comes before it.
LEMMA Later ==
    ASSUME ProcInv, stage \in Startup, Order[stage'] = Order[stage] + 1,
           UpParts' \subseteq UpParts \cup {p \in AllParts : Order[p] = Order[stage]}
    PROVE  \A q \in UpParts' : Order[q] < Order[stage']
<1>1. \A q \in UpParts : Order[q] < Order[stage]
  BY DEF ProcInv, StageInv, Startup, Stages, Ended
<1>. QED BY <1>1, UpOrder, OrderIsNat DEF ProcInv, ProcTypes

\* main.go:101-108, 371-374
LEMMA InitMetricsKeeps == ASSUME ProcInv, InitMetrics PROVE ProcInv'
<1>. USE DEF InitMetrics, reqVars, chainVars
<1>1. Ordered' /\ UpParts' = UpParts BY UpIsKept DEF ProcInv, ProcTypes
<1>2. CASE "registry" \in refused
  <2>1. Fail /\ FailsForCause' BY <1>2 DEF FailsForCause, Fail
  <2>. QED BY <2>1, Fails DEF Startup, Stages, Servers
<1>3. CASE "registry" \notin refused
  <2>1. stage' = "load" /\ UNCHANGED exit BY <1>3
  <2>2. \A q \in UpParts' : Order[q] < Order[stage']
    <3>1. Order[stage'] = Order[stage] + 1 BY <2>1, Orders
    <3>. QED BY <1>1, <3>1, Later DEF Startup, Stages
  <2>3. StageInv' BY <2>1, <2>2 DEF StageInv, Ended, Late
  <2>4. DependInv' BY <1>1, <2>1 DEF ProcInv, DependInv
  <2>. QED BY <1>1, <2>1, <2>3, <2>4, Proceeds DEF Startup, Stages, Servers, ProcInv,
    ProcTypes
<1>. QED BY <1>2, <1>3

\* main.go:110-121, 376-379
LEMMA LoadConfigKeeps == ASSUME ProcInv, LoadConfig PROVE ProcInv'
<1>. USE DEF LoadConfig, reqVars, chainVars
<1>1. CASE Load(conf) /\ "watcher" \notin refused
  <2>1. Ordered' /\ UpParts' = UpParts \cup {"config"} /\ stage' = "health" /\ UNCHANGED
    <<conf, exit>>
    BY <1>1, Climbs, Orders DEF Startup, Stages, AllParts
  <2>2. StageInv'
    BY <1>1, <2>1, Orders, UpOrder DEF ProcInv, ProcTypes, StageInv, Ended, Late
  <2>3. DependInv' BY <1>1, <2>1 DEF ProcInv, DependInv
  <2>. QED BY <1>1, <2>1, <2>2, <2>3, Proceeds DEF Startup, Stages, Servers, ProcInv,
    ProcTypes
<1>2. CASE ~(Load(conf) /\ "watcher" \notin refused)
  <2>1. Fail /\ FailsForCause' BY <1>2 DEF FailsForCause, Fail
  <2>. QED BY <1>2, <2>1, Fails DEF Startup, Stages, Servers
<1>. QED BY <1>1, <1>2

\* The health manager goes up after the configuration.
LEMMA StartHealthKeeps == ASSUME ProcInv, StartHealth PROVE ProcInv'
<1>. USE DEF StartHealth, reqVars, chainVars
<1>1. /\ Ordered' /\ UpParts' = UpParts \cup {"health"}
      /\ stage' = "wake" /\ UNCHANGED <<conf, exit>>
  BY Climbs, Orders DEF Startup, Stages, AllParts
<1>2. \A q \in UpParts' : Order[q] < Order[stage']
  BY <1>1, Later, Orders DEF Startup, Stages, AllParts
<1>3. "config" \in UpParts BY DEF ProcInv, StageInv, Ended
<1>4. StageInv' BY <1>1, <1>2, <1>3 DEF StageInv, Ended, Late
<1>5. DependInv' BY <1>1, <1>3 DEF ProcInv, DependInv
<1>. QED BY <1>1, <1>4, <1>5, Proceeds DEF Startup, Stages, Servers, ProcInv, ProcTypes

\* A Gwaihir client is made, left out, or refused for want of a key.
LEMMA InitWakeKeeps == ASSUME ProcInv, InitWake PROVE ProcInv'
<1>a. Order["tracker"] = Order["wake"] + 1 BY Orders
<1>b. stage = "wake" BY DEF InitWake
<1>. USE DEF InitWake, reqVars, chainVars
<1>1. Ordered' /\ UpParts' = UpParts BY UpIsKept DEF ProcInv, ProcTypes
<1>2. sender' <=> conf.gwURL # "" /\ conf.wolOn BY Zenon
<1>3. CASE sender' /\ conf.gwKey = ""
  <2>1. Fail /\ FailsForCause' BY <1>2, <1>3 DEF FailsForCause, Fail
  <2>. QED BY <2>1, Fails DEF Startup, Stages, Servers
<1>4. CASE ~(sender' /\ conf.gwKey = "")
  <2>1. stage' = "tracker" /\ UNCHANGED exit BY <1>4
  <2>2. \A q \in UpParts' : Order[q] < Order[stage']
    <3>1. Order[stage'] = Order[stage] + 1 BY <1>a, <1>b, <2>1, Zenon
    <3>. QED BY <1>1, <3>1, Later DEF Startup, Stages
  <2>3. "config" \in UpParts /\ "health" \in UpParts BY DEF ProcInv, StageInv, Ended
  <2>4. StageInv' BY <1>1, <1>2, <2>1, <2>2, <2>3 DEF StageInv, Ended, Late
  <2>5. DependInv' BY <1>1, <2>1 DEF ProcInv, DependInv
  <2>. QED BY <1>1, <2>1, <2>4, <2>5, Proceeds DEF Startup, Stages, Servers, ProcInv,
    ProcTypes
<1>. QED BY <1>3, <1>4

\* The tracker goes up exactly when the route sleeps.
LEMMA StartTrackerKeeps == ASSUME ProcInv, StartTracker PROVE ProcInv'
<1>. USE DEF StartTracker, reqVars, chainVars
<1>1. /\ Ordered' /\ stage' = "routes" /\ UNCHANGED <<conf, exit>>
      /\ UpParts' = IF Served /\ conf.solOn THEN UpParts \cup {"tracker"} ELSE UpParts
  <2>1. CASE Served /\ conf.solOn
    BY <2>1, Climbs, Orders DEF Startup, Stages, AllParts
  <2>2. CASE ~(Served /\ conf.solOn)
    BY <2>2, UpIsKept DEF ProcInv, ProcTypes
  <2>. QED BY <2>1, <2>2
<1>2. \A q \in UpParts' : Order[q] < Order[stage']
  BY <1>1, Later, Orders DEF Startup, Stages, AllParts
<1>3. /\ "config" \in UpParts /\ "health" \in UpParts
      /\ sender <=> conf.gwURL # "" /\ conf.wolOn
  BY DEF ProcInv, StageInv, Ended
<1>4. "tracker" \notin UpParts
  <2>1. \A q \in UpParts : Order[q] < Order[stage] BY DEF ProcInv, StageInv, Ended
  <2>. QED BY <2>1, Orders
<1>5. StageInv' BY <1>1, <1>2, <1>3, <1>4 DEF StageInv, Ended, Late, Served
<1>6. DependInv' BY <1>1, <1>3 DEF ProcInv, DependInv
<1>. QED BY <1>1, <1>5, <1>6, Proceeds DEF Startup, Stages, Servers, ProcInv, ProcTypes

\* The routes go up with a tracker below them, if there is one.
LEMMA StartRoutesKeeps == ASSUME ProcInv, StartRoutes PROVE ProcInv'
<1>. USE DEF StartRoutes, reqVars, chainVars
<1>1. /\ Ordered' /\ UpParts' = UpParts \cup {"routes"}
      /\ stage' = "sleep" /\ UNCHANGED <<conf, exit>>
  BY Climbs, Orders DEF Startup, Stages, AllParts
<1>2. \A q \in UpParts' : Order[q] < Order[stage']
  BY <1>1, Later, Orders DEF Startup, Stages, AllParts
<1>3. /\ "config" \in UpParts /\ "health" \in UpParts
      /\ sender <=> conf.gwURL # "" /\ conf.wolOn
      /\ "tracker" \in UpParts <=> Served /\ conf.solOn
  BY DEF ProcInv, StageInv, Ended, Late
<1>4. gate' <=> WakeCoordinator' BY <1>1 DEF WakeCoordinator, Served
<1>5. "routes" \notin UpParts
  <2>1. \A q \in UpParts : Order[q] < Order[stage] BY DEF ProcInv, StageInv, Ended
  <2>. QED BY <2>1, Orders
<1>6. StageInv' BY <1>1, <1>2, <1>3, <1>4 DEF StageInv, Ended, Late, Served
<1>7. exit # "killed" BY DEF ProcInv, ExitInv
<1>8. DependInv' BY <1>1, <1>3, <1>5, <1>7, StartedIsUp DEF ProcInv, ProcTypes, DependInv
<1>. QED BY <1>1, <1>6, <1>8, Proceeds DEF Startup, Stages, Servers, ProcInv, ProcTypes

\* The sleep coordinator goes up with the tracker, or its endpoint is refused.
LEMMA StartSleepKeeps == ASSUME ProcInv, StartSleep PROVE ProcInv'
<1>. USE DEF StartSleep, reqVars, chainVars
<1>1. Started("tracker") <=> Served /\ conf.solOn
  BY StartedIsUp DEF ProcInv, StageInv, Ended, Late
<1>2. CASE Started("tracker") /\ conf.solEndpoint = "loopback"
  <2>1. Fail /\ FailsForCause' BY <1>1, <1>2 DEF FailsForCause, Fail, Served
  <2>. QED BY <1>2, <2>1, Fails DEF Startup, Stages, Servers
<1>3. CASE ~(Started("tracker") /\ conf.solEndpoint = "loopback")
  <2>1. /\ Ordered' /\ stage' = "management" /\ UNCHANGED <<conf, exit>>
        /\ UpParts' = IF Started("tracker") THEN UpParts \cup {"sleep"} ELSE UpParts
    <3>1. CASE Started("tracker")
      BY <1>3, <3>1, Climbs, Orders DEF Startup, Stages, AllParts
    <3>2. CASE ~Started("tracker")
      BY <3>2, UpIsKept DEF ProcInv, ProcTypes
    <3>. QED BY <3>1, <3>2
  <2>2. \A q \in UpParts' : Order[q] < Order[stage']
    BY <2>1, Later, Orders DEF Startup, Stages, AllParts
  <2>3. /\ "config" \in UpParts /\ "health" \in UpParts
        /\ sender <=> conf.gwURL # "" /\ conf.wolOn
        /\ "tracker" \in UpParts <=> Served /\ conf.solOn
        /\ gate <=> WakeCoordinator
    BY DEF ProcInv, StageInv, Ended, Late
  <2>4. StageInv'
    BY <1>1, <2>1, <2>2, <2>3 DEF StageInv, Ended, Late, Served, WakeCoordinator
  <2>5. DependInv' BY <2>1, StartedIsUp DEF ProcInv, DependInv
  <2>. QED BY <1>3, <2>1, <2>4, <2>5, Proceeds DEF Startup, Stages, Servers, ProcInv,
    ProcTypes
<1>. QED BY <1>2, <1>3
\* The signals are caught from here on.
LEMMA NotifyKeeps == ASSUME ProcInv, Notify PROVE ProcInv'
<1>. USE DEF Notify, reqVars, chainVars
<1>1. Ordered' /\ UpParts' = UpParts BY UpIsKept DEF ProcInv, ProcTypes
<1>2. \A q \in UpParts' : Order[q] < Order[stage']
  <2>1. Order[stage'] = Order[stage] + 1 BY Orders
  <2>. QED BY <1>1, <2>1, Later DEF Startup, Stages
<1>3. StageInv'
  <2>1. UNCHANGED <<Served, WakeCoordinator, Enabled("management"), Enabled("metrics")>>
    BY DEF Served, WakeCoordinator, Enabled
  <2>. QED BY <1>1, <1>2, <2>1 DEF ProcInv, StageInv, Ended, Late
<1>4. DependInv' BY <1>1 DEF ProcInv, DependInv
<1>. QED BY <1>1, <1>3, <1>4, Proceeds DEF Startup, Stages, Servers, ProcInv, ProcTypes

\* The route's port is bound, or it is taken.
LEMMA ListenerBindsKeeps == ASSUME ProcInv, RequestInv, ListenerBinds PROVE ProcInv'
<1>. USE DEF ListenerBinds, processVars, reqVars, chainVars
<1>1. Ordered' /\ UpParts' = UpParts BY UpIsKept DEF ProcInv, ProcTypes
<1>2. listener' \in {"bound", "failed"} /\ pc = "none"
  BY DEF RequestInv, ListenerInv
<1>3. ProcTypes' BY <1>1, <1>2 DEF ProcInv, ProcTypes
<1>4. ExitInv' BY DEF ProcInv, ExitInv, FailsForCause, Served, Enabled, Port
<1>5. StageInv'
  <2>1. UNCHANGED <<Served, WakeCoordinator, Enabled("management"), Enabled("metrics")>>
    BY DEF Served, WakeCoordinator, Enabled
  <2>. QED BY <1>1, <2>1 DEF ProcInv, StageInv
<1>6. DependInv' BY <1>1, <1>2 DEF ProcInv, DependInv
<1>7. \A s \in Servers : ServerInv(s)' BY <1>1, ServersAreKept
<1>. QED BY <1>3, <1>4, <1>5, <1>6, <1>7 DEF ProcInv

\* A server is taken further, and nothing else.
LEMMA ServerChanges ==
    ASSUME ProcInv, NEW s \in Servers, srv' \in [Servers -> SrvState],
           \A t \in Servers \ {s} : srv'[t] = srv[t],
           UNCHANGED <<processVars, onlySrv>>,
           (UpParts' = UpParts /\ Ordered' /\ UNCHANGED <<PortCause(s), Enabled(s)>>)
             => ServerInv(s)'
    PROVE  ProcInv'
<1>. USE DEF processVars, onlySrv, reqVars, chainVars
<1>1. Ordered' /\ UpParts' = UpParts BY UpIsKept DEF ProcInv, ProcTypes
<1>2. ProcTypes' BY <1>1 DEF ProcInv, ProcTypes
<1>3. ExitInv' BY DEF ProcInv, ExitInv, FailsForCause, Served, Enabled, Port
<1>4. StageInv'
  <2>1. UNCHANGED <<Served, WakeCoordinator, Enabled("management"), Enabled("metrics")>>
    BY DEF Served, WakeCoordinator, Enabled
  <2>. QED BY <1>1, <2>1 DEF ProcInv, StageInv
<1>5. DependInv' BY <1>1 DEF ProcInv, DependInv
<1>6. ASSUME NEW t \in Servers PROVE ServerInv(t)'
  <2>1. UNCHANGED <<PortCause(t), Enabled(t)>> BY DEF PortCause, Port, Enabled
  <2>2. CASE t = s BY <1>1, <2>1, <2>2
  <2>3. CASE t # s BY <1>1, <2>1, <2>3 DEF ProcInv, ServerInv, RunnerInv, CloserInv
  <2>. QED BY <2>2, <2>3
<1>. QED BY <1>2, <1>3, <1>4, <1>5, <1>6 DEF ProcInv


\* run() starts a management server.
LEMMA StartServerKeeps ==
    ASSUME ProcInv, NEW s \in Servers, StartServer(s) PROVE ProcInv'
<1>1. /\ srv' \in [Servers -> SrvState]
      /\ \A t \in Servers \ {s} : srv'[t] = srv[t]
      /\ srv'[s].runner = "spawned" /\ srv'[s].closer = "asleep"
      /\ srv'[s].started = srv[s].started /\ srv'[s].startErr = srv[s].startErr
      /\ srv'[s].running = srv[s].running
  BY DEF ProcInv, ProcTypes, StartServer, SrvState
<1>2. stage = s /\ Enabled(s) /\ srv[s].runner = "none" /\ UNCHANGED <<processVars,
  onlySrv>>
  BY DEF StartServer
<1>3. RunnerInv(s) /\ CloserInv(s) BY DEF ProcInv, ServerInv
<1>4. UpParts' = UpParts /\ UNCHANGED <<PortCause(s), Enabled(s)>> => ServerInv(s)'
  BY <1>1, <1>2, <1>3 DEF ServerInv, RunnerInv, CloserInv, processVars
<1>. QED BY <1>1, <1>2, <1>4, ServerChanges

\* Its goroutine begins,
LEMMA ServerRunsKeeps ==
    ASSUME ProcInv, NEW s \in Servers, ServerRuns(s) PROVE ProcInv'
<1>1. /\ srv' \in [Servers -> SrvState]
      /\ \A t \in Servers \ {s} : srv'[t] = srv[t]
      /\ srv'[s].runner = "begun" /\ srv'[s].running
      /\ srv'[s].started = srv[s].started /\ srv'[s].startErr = srv[s].startErr
      /\ srv'[s].closer = srv[s].closer
  BY DEF ProcInv, ProcTypes, ServerRuns, SrvState
<1>2. srv[s].runner = "spawned" /\ UNCHANGED <<processVars, onlySrv>>
  BY DEF ServerRuns
<1>3. RunnerInv(s) /\ CloserInv(s) BY DEF ProcInv, ServerInv
<1>4. UpParts' = UpParts /\ UNCHANGED <<PortCause(s), Enabled(s)>> => ServerInv(s)'
  BY <1>1, <1>2, <1>3 DEF ServerInv, RunnerInv, CloserInv, processVars
<1>. QED BY <1>1, <1>2, <1>4, ServerChanges

\* ... and has its port
LEMMA ServerListensKeeps ==
    ASSUME ProcInv, NEW s \in Servers, ServerListens(s) PROVE ProcInv'
<1>1. /\ srv' \in [Servers -> SrvState]
      /\ \A t \in Servers \ {s} : srv'[t] = srv[t]
      /\ srv'[s].runner = "serving" /\ srv'[s].running = srv[s].running
      /\ srv'[s].started = srv[s].started /\ srv'[s].startErr = srv[s].startErr
      /\ srv'[s].closer = srv[s].closer
  BY DEF ProcInv, ProcTypes, ServerListens, SrvState
<1>2. srv[s].runner = "begun" /\ UNCHANGED <<processVars, onlySrv>>
  BY DEF ServerListens
<1>3. RunnerInv(s) /\ CloserInv(s) BY DEF ProcInv, ServerInv
<1>4. UpParts' = UpParts /\ UNCHANGED <<PortCause(s), Enabled(s)>> => ServerInv(s)'
  BY <1>1, <1>2, <1>3 DEF ServerInv, RunnerInv, CloserInv, processVars
<1>. QED BY <1>1, <1>2, <1>4, ServerChanges

\* A port that is taken is another program's, the route's or the other server's.
LEMMA TakenIsCause ==
    ASSUME ProcInv, NEW s \in Servers, srv[s].runner # "serving", Taken(Port(s))
    PROVE  PortCause(s)
<1>1. \A t \in Servers : srv[t].runner = "serving" => Enabled(t)
  BY DEF ProcInv, ServerInv, RunnerInv
<1>. QED BY <1>1 DEF Taken, PortCause

\* The state of a server that has failed.
LEMMA FailedState ==
    ASSUME NEW r \in SrvState
    PROVE  LET f == [r EXCEPT !.runner = "failed", !.running = FALSE,
                              !.startErr = TRUE, !.started = TRUE]
           IN  /\ f \in SrvState /\ f.runner = "failed" /\ f.startErr
               /\ ~f.running /\ f.started /\ f.closer = r.closer
BY DEF SrvState

\* ... or fails, for a cause, whether or not run() has been told that it is up.
LEMMA ServerFailsKeeps ==
    ASSUME ProcInv, NEW s \in Servers, ServerFails(s) PROVE ProcInv'
<1>1. /\ srv' \in [Servers -> SrvState]
      /\ \A t \in Servers \ {s} : srv'[t] = srv[t]
      /\ srv'[s].runner = "failed" /\ srv'[s].startErr /\ ~srv'[s].running
      /\ srv'[s].closer = srv[s].closer /\ srv'[s].started
  <2>1. srv' = [srv EXCEPT ![s] = [srv[s] EXCEPT !.runner = "failed", !.running = FALSE,
                                                 !.startErr = TRUE, !.started = TRUE]]
    BY DEF ServerFails
  <2>2. srv[s] \in SrvState BY DEF ProcInv, ProcTypes
  <2>. QED BY <2>1, <2>2, FailedState DEF ProcInv, ProcTypes
<1>2. srv[s].runner = "begun" /\ UNCHANGED <<processVars, onlySrv>> /\ PortCause(s)
  BY TakenIsCause DEF ServerFails
<1>3. RunnerInv(s) /\ CloserInv(s) BY DEF ProcInv, ServerInv
<1>4. UpParts' = UpParts /\ UNCHANGED <<PortCause(s), Enabled(s)>> => ServerInv(s)'
  BY <1>1, <1>2, <1>3 DEF ServerInv, RunnerInv, CloserInv, processVars
<1>. QED BY <1>1, <1>2, <1>4, ServerChanges

\* The other goroutine looks, wherever the runner is, and closes started if it runs.
LEMMA CloseStartedKeeps ==
    ASSUME ProcInv, NEW s \in Servers, CloseStarted(s) PROVE ProcInv'
<1>1. RunnerInv(s) /\ CloserInv(s) BY DEF ProcInv, ServerInv
<1>2. srv[s].closer = "asleep" /\ UNCHANGED <<processVars, onlySrv>>
  BY DEF CloseStarted
<1>3. /\ srv[s] \in SrvState
      /\ srv[s].runner \in {"spawned", "begun", "serving", "failed"}
  BY <1>1, <1>2 DEF CloserInv, ProcInv, ProcTypes, SrvState
<1>4. /\ srv' \in [Servers -> SrvState]
      /\ \A t \in Servers \ {s} : srv'[t] = srv[t]
      /\ srv'[s].runner = srv[s].runner /\ srv'[s].startErr = srv[s].startErr
      /\ srv'[s].running = srv[s].running /\ srv'[s].closer = srv[s].runner
      /\ srv'[s].started = (srv[s].started \/ srv[s].running)
  BY <1>3 DEF ProcInv, ProcTypes, CloseStarted, SrvState
<1>5. UpParts' = UpParts /\ UNCHANGED <<PortCause(s), Enabled(s)>> => ServerInv(s)'
  BY <1>1, <1>2, <1>3, <1>4 DEF ServerInv, RunnerInv, CloserInv, processVars
<1>. QED BY <1>2, <1>4, <1>5, ServerChanges

\* run() has the answer: the server is up, or run() fails.
LEMMA ServerStartedKeeps ==
    ASSUME ProcInv, stage # "exited", NEW s \in Servers, ServerStarted(s) PROVE ProcInv'
<1>. USE DEF reqVars, chainVars, onlySrv
<1>1. stage = s /\ stage \in Startup /\ srv[s].started /\ exit = "none" /\ UNCHANGED srv
  BY DEF ServerStarted, Servers, Startup, Stages, ProcInv, ExitInv
<1>2. ServerInv(s) /\ s \in AllParts /\ Order[s] = Order[stage]
  BY <1>1 DEF ProcInv, Servers, AllParts
<1>3. CASE srv[s].startErr
  <2>1. Fail /\ UNCHANGED <<conf, up, listener, forced, recorder, pc>>
    BY <1>3 DEF ServerStarted
  <2>2. Enabled(s) /\ PortCause(s) BY <1>2, <1>3 DEF ServerInv, RunnerInv, CloserInv
  <2>3. FailsForCause'
    BY <2>1, <2>2 DEF FailsForCause, PortCause, Enabled, Port
  <2>4. \A t \in Servers : stage = t => srv[t].runner \notin {"spawned", "begun",
    "serving"}
    BY <1>1, <1>2, <1>3 DEF ServerInv, RunnerInv, CloserInv
  <2>. QED BY <1>1, <2>1, <2>3, <2>4, Fails
<1>4. CASE ~srv[s].startErr
  <2>1. Up(s, AfterServer(s)) /\ UNCHANGED <<sender, listener, forced, recorder, gate,
    pc>>
    BY <1>4 DEF ServerStarted
  <2>2. srv[s].closer \in {"begun", "serving"}
    BY <1>1, <1>2, <1>4 DEF ServerInv, RunnerInv, CloserInv
  <2>3. /\ Ordered' /\ UpParts' = UpParts \cup {s}
        /\ stage' = AfterServer(s) /\ UNCHANGED <<conf, exit>>
    BY <1>1, <1>2, <2>1, Climbs
  <2>4. \A q \in UpParts' : Order[q] < Order[stage']
    <3>1. Order[stage'] = Order[stage] + 1 BY <1>1, <2>3, Orders DEF AfterServer, Servers
    <3>. QED BY <1>1, <1>2, <2>3, <3>1, Later
  <2>5. StageInv'
    <3>1. UNCHANGED <<Served, WakeCoordinator, Enabled("management"), Enabled("metrics")>>
      BY <2>1, <2>3 DEF Served, WakeCoordinator, Enabled
    <3>2. stage' = IF stage = "management" THEN "metrics" ELSE "notify"
      BY <1>1, <2>3 DEF AfterServer
    <3>. QED BY <1>1, <2>1, <2>3, <2>4, <3>1, <3>2 DEF ProcInv, StageInv, Ended, Late,
      Servers
  <2>6. DependInv' BY <2>1, <2>3 DEF ProcInv, DependInv, Servers
  <2>7. ProcTypes' BY <1>1, <2>1, <2>3 DEF ProcInv, ProcTypes, AfterServer, Stages
  <2>8. ExitInv' BY <1>1, <2>3 DEF ExitInv, FailsForCause, AfterServer
  <2>9. ASSUME NEW t \in Servers PROVE ServerInv(t)'
    <3>1. UNCHANGED <<PortCause(t), Enabled(t)>>
      BY <2>3 DEF PortCause, Port, Enabled
    <3>2. ServerInv(t) BY DEF ProcInv
    <3>. QED BY <1>1, <2>2, <2>3, <3>1, <3>2
      DEF ServerInv, RunnerInv, CloserInv, AfterServer, Startup
  <2>. QED BY <2>5, <2>6, <2>7, <2>8, <2>9 DEF ProcInv
<1>. QED BY <1>3, <1>4

\* A server that is not enabled is passed over.
LEMMA SkipServerKeeps ==
    ASSUME ProcInv, NEW s \in Servers, SkipServer(s) PROVE ProcInv'
<1>. USE DEF SkipServer, reqVars, chainVars
<1>1. Ordered' /\ UpParts' = UpParts BY UpIsKept DEF ProcInv, ProcTypes
<1>2. stage = s /\ stage \in Startup /\ srv[s].runner = "none" /\ s \notin UpParts /\
  exit = "none"
  BY DEF ProcInv, ServerInv, RunnerInv, CloserInv, Servers, Startup, Stages,
     ExitInv
<1>3. stage' = AfterServer(s) /\ UNCHANGED <<conf, exit>> OBVIOUS
<1>4. \A q \in UpParts' : Order[q] < Order[stage']
  <2>1. Order[stage'] = Order[stage] + 1 BY <1>2, Orders DEF AfterServer, Servers
  <2>. QED BY <1>1, <1>2, <2>1, Later
<1>5. StageInv'
  <2>1. UNCHANGED <<Served, WakeCoordinator, Enabled("management"), Enabled("metrics")>>
    BY DEF Served, WakeCoordinator, Enabled
  <2>2. stage' = IF stage = "management" THEN "metrics" ELSE "notify"
    BY <1>2 DEF AfterServer
  <2>. QED BY <1>1, <1>2, <1>4, <2>1, <2>2 DEF ProcInv, StageInv, Ended, Late, Servers
<1>6. DependInv' BY <1>1 DEF ProcInv, DependInv
<1>7. ProcTypes' BY <1>1 DEF ProcInv, ProcTypes, AfterServer, Stages
<1>8. ExitInv' BY <1>2 DEF ExitInv, FailsForCause, AfterServer
<1>9. ASSUME NEW t \in Servers PROVE ServerInv(t)'
  <2>1. UNCHANGED <<PortCause(t), Enabled(t)>> BY DEF PortCause, Port, Enabled
  <2>2. ServerInv(t) BY DEF ProcInv
  <2>. QED BY <1>1, <1>2, <2>1, <2>2
    DEF ServerInv, RunnerInv, CloserInv, AfterServer, Startup
<1>. QED BY <1>5, <1>6, <1>7, <1>8, <1>9 DEF ProcInv

\* Every step of the way up keeps the invariant.
LEMMA StartIsKept ==
    ASSUME ProcInv, RequestInv, stage # "exited", Start PROVE ProcInv'
BY InitMetricsKeeps, LoadConfigKeeps, StartHealthKeeps, InitWakeKeeps, StartTrackerKeeps, StartRoutesKeeps,
   ListenerBindsKeeps, StartSleepKeeps, NotifyKeeps, SkipServerKeeps, StartServerKeeps,
   ServerRunsKeeps, ServerListensKeeps, ServerFailsKeeps, CloseStartedKeeps,
   ServerStartedKeeps
   DEF Start, Server

--------------------------------------------------------------------------------
(* The way down *)

\* What a step of the way down has to see to.
LEMMA WayDown ==
    ASSUME ProcInv, stage \in Ended, stage' \in Ended,
           UNCHANGED <<conf, refused, sender, recorder, gate>>,
           Ordered', UpParts' \subseteq UpParts,
           exit' \in {"error", "ok", "killed"}, exit' = exit \/ exit' = "killed",
           stage' = "unwinding" => exit' # "killed",
           stage' = "exited" /\ exit' # "killed" => up' = <<>>,
           listener' \in {"none", "spawned", "bound", "failed", "draining", "shut"},
           srv' \in [Servers -> SrvState],
           \A s \in Servers : \/ srv'[s] = srv[s] /\ (s \in UpParts' <=> s \in UpParts)
                              \/ ServerInv(s)',
           DependInv'
    PROVE  ProcInv'
<1>1. ProcTypes' BY DEF ProcInv, ProcTypes, Ended, Stages
<1>2. ExitInv' BY DEF ProcInv, ExitInv, FailsForCause, Served, Enabled, Port, Ended
<1>3. StageInv' BY DEF StageInv, Ended, Late
<1>4. ASSUME NEW s \in Servers PROVE ServerInv(s)'
  <2>1. UNCHANGED <<PortCause(s), Enabled(s)>> BY DEF PortCause, Port, Enabled
  <2>2. ServerInv(s) /\ stage # s /\ stage' # s BY DEF ProcInv, Ended, Servers
  <2>3. exit = "killed" => exit' = "killed" OBVIOUS
  <2>. QED BY <2>1, <2>2, <2>3 DEF ServerInv, RunnerInv, CloserInv, Ended
<1>. QED BY <1>1, <1>2, <1>3, <1>4 DEF ProcInv
\* A part is stopped after all that depends on it.
LEMMA StopPartKeeps == ASSUME ProcInv, StopPart PROVE ProcInv'
<1>. USE DEF StopPart, reqVars, chainVars
<1>1. PICK part \in {"config", "health", "tracker", "sleep"} : Unwinds(part)
  OBVIOUS
<1>2. stage = "unwinding" /\ UNCHANGED <<conf, refused, sender, recorder, gate, stage, exit>> /\
  exit \in {"error", "ok"}
  BY <1>1 DEF Unwinds, ProcInv, ProcTypes, ExitInv
<1>3. /\ Ordered' /\ UpParts' = UpParts \ {part}
      /\ \A q \in UpParts : q # part => Order[q] < Order[part]
  BY <1>1, Shrinks DEF ProcInv, ProcTypes
<1>4. DependInv'
  <2>1. /\ part = "config" => "health" \notin UpParts
        /\ part = "health" => "tracker" \notin UpParts /\ "routes" \notin UpParts
        /\ part = "tracker" => "routes" \notin UpParts /\ "sleep" \notin UpParts
    BY <1>3, Orders
  <2>. QED BY <1>2, <1>3, <2>1 DEF ProcInv, DependInv
<1>. QED BY <1>2, <1>3, <1>4, WayDown DEF ProcInv, ProcTypes, Ended, Servers

\* A management server is shut down.
LEMMA StopServerKeeps ==
    ASSUME ProcInv, NEW s \in Servers, StopServer(s) PROVE ProcInv'
<1>. USE DEF StopServer, onlySrv, reqVars, chainVars
<1>1. /\ stage = "unwinding" /\ UNCHANGED <<conf, refused, sender, recorder, gate, stage, exit>>
      /\ exit \in {"error", "ok"}
  BY DEF Unwinds, ProcInv, ProcTypes, ExitInv
<1>2. Ordered' /\ UpParts' = UpParts \ {s} /\ s \in UpParts
  BY Shrinks DEF ProcInv, ProcTypes
<1>3. DependInv' BY <1>1, <1>2 DEF ProcInv, DependInv, Servers
<1>4. RunnerInv(s) /\ CloserInv(s) /\ srv \in [Servers -> SrvState]
  BY DEF ProcInv, ProcTypes, ServerInv
<1>5. srv' \in [Servers -> SrvState] /\ \A t \in Servers \ {s} : srv'[t] = srv[t]
  BY <1>4 DEF SrvState
<1>6. ServerInv(s)'
  <2>1. UNCHANGED <<Enabled(s), PortCause(s)>> BY <1>1 DEF Enabled, PortCause, Port
  <2>2. CASE srv[s].running
    <3>1. /\ srv'[s].runner = "shut" /\ ~srv'[s].running
          /\ srv'[s].started = srv[s].started /\ srv'[s].startErr = srv[s].startErr
          /\ srv'[s].closer = srv[s].closer
      BY <1>4, <2>2 DEF SrvState
    <3>. QED BY <1>1, <1>2, <1>4, <2>1, <2>2, <3>1 DEF ServerInv, RunnerInv, CloserInv
  <2>3. CASE ~srv[s].running
    BY <1>1, <1>2, <1>4, <2>1, <2>3 DEF ServerInv, RunnerInv, CloserInv
  <2>. QED BY <2>2, <2>3
<1>. QED BY <1>1, <1>2, <1>3, <1>5, <1>6, WayDown DEF ProcInv, ProcTypes, Ended

\* RouteManager.Stop, but for its return.
LEMMA ListenerIsStopped ==
    ASSUME ProcInv, RequestInv,
           ShutRoutes \/ RoutesDrain \/ RoutesAreForced \/ CloseCoordinator
    PROVE  ProcInv'
<1>. USE DEF processVars, reqVars, chainVars
<1>1. /\ stage = "unwinding" /\ "routes" \in UpParts /\ exit \in {"error", "ok"}
      /\ UNCHANGED <<processVars, srv, recorder, gate, pc>>
  <2>1. StoppingRoutes /\ UNCHANGED <<processVars, srv, recorder, gate, pc>>
    BY DEF ShutRoutes, RoutesDrain, RoutesAreForced, CloseCoordinator
  <2>2. Len(up) \in 1..Len(up) BY <2>1 DEF StoppingRoutes, ProcInv, ProcTypes, Ordered
  <2>. QED BY <2>1, <2>2 DEF StoppingRoutes, UpParts, ProcInv, ProcTypes, ExitInv
<1>2. Ordered' /\ UpParts' = UpParts BY <1>1, UpIsKept DEF ProcInv, ProcTypes
<1>3. listener' \in {"none", "spawned", "bound", "failed", "draining", "shut"}
  BY DEF ProcInv, ProcTypes, ShutRoutes, RoutesDrain, RoutesAreForced, CloseCoordinator
<1>4. pc \notin {"none", "done"} /\ ~forced' => listener' \in {"bound", "draining"}
  BY DEF ProcInv, DependInv, ShutRoutes, RoutesDrain, RoutesAreForced, CloseCoordinator
<1>5. DependInv' BY <1>1, <1>2, <1>4 DEF ProcInv, DependInv
<1>. QED BY <1>1, <1>2, <1>3, <1>5, WayDown DEF ProcInv, ProcTypes, Ended, Servers

\* RouteManager.Stop returns: no listener is left.
LEMMA StopRoutesKeeps == ASSUME ProcInv, RequestInv, StopRoutes PROVE ProcInv'
<1>. USE DEF StopRoutes, reqVars, chainVars
<1>1. /\ stage = "unwinding"
      /\ UNCHANGED <<conf, refused, sender, recorder, gate, stage, exit, pc>>
      /\ exit \in {"error", "ok"} /\ listener = "shut" /\ UNCHANGED listener
  BY DEF Unwinds, ProcInv, ProcTypes, ExitInv, RequestInv, ListenerInv
<1>2. Ordered' /\ UpParts' = UpParts \ {"routes"}
  BY Shrinks DEF ProcInv, ProcTypes
<1>3. DependInv' BY <1>1, <1>2 DEF ProcInv, DependInv
<1>. QED BY <1>1, <1>2, <1>3, WayDown DEF ProcInv, ProcTypes, Ended, Servers

\* All defers have run.
LEMMA ExitKeeps == ASSUME ProcInv, Exit PROVE ProcInv'
<1>. USE DEF Exit, reqVars, chainVars
<1>1. Ordered' /\ UpParts' = UpParts BY UpIsKept DEF ProcInv, ProcTypes
<1>2. exit' \in {"error", "ok"} /\ exit' = exit BY DEF ProcInv, ProcTypes, ExitInv
<1>3. DependInv' BY <1>1, <1>2 DEF ProcInv, DependInv
<1>. QED BY <1>1, <1>2, <1>3, WayDown DEF ProcInv, ProcTypes, Ended, Servers

\* Every step of the way down keeps the invariant.
LEMMA UnwindIsKept == ASSUME ProcInv, RequestInv, Unwind PROVE ProcInv'
BY StopPartKeeps, StopServerKeeps, ListenerIsStopped, StopRoutesKeeps, ExitKeeps DEF
  Unwind

\* A signal, caught or not.
LEMMA SignalKeeps == ASSUME ProcInv, ReceiveSignal \/ KilledBySignal PROVE ProcInv'
<1>. USE DEF ReceiveSignal, KilledBySignal, reqVars, chainVars
<1>1. Ordered' /\ UpParts' = UpParts BY UpIsKept DEF ProcInv, ProcTypes
<1>2. \/ stage = "serving" /\ stage' = "unwinding" /\ exit' = "ok"
      \/ stage' = "exited" /\ exit' = "killed"
  OBVIOUS
<1>3. ProcTypes' BY <1>1, <1>2 DEF ProcInv, ProcTypes, Stages
<1>4. ExitInv' BY <1>2 DEF ExitInv, FailsForCause
<1>5. StageInv' BY <1>2 DEF StageInv, Ended, Late
<1>6. exit = "killed" => exit' = "killed" BY <1>2 DEF ProcInv, ExitInv
<1>7. DependInv' BY <1>1, <1>6 DEF ProcInv, DependInv
<1>8. ASSUME NEW s \in Servers PROVE ServerInv(s)'
  <2>1. UNCHANGED <<PortCause(s), Enabled(s)>> BY DEF PortCause, Port, Enabled
  <2>2. ServerInv(s) BY DEF ProcInv
  <2>. QED BY <1>1, <1>2, <1>6, <2>1, <2>2 DEF ServerInv, RunnerInv, CloserInv, Servers
<1>. QED BY <1>3, <1>4, <1>5, <1>7, <1>8 DEF ProcInv

\* A request leaves the process alone, and comes only while the listener serves.
LEMMA RequestIsKept == ASSUME ProcInv, Request PROVE ProcInv'
<1>1. UNCHANGED <<processVars, listener, forced, srv, chainVars>> BY DEF Request
<1>2. pc \in {"none", "done"} => pc' \in {"none", "done"} \/ listener = "bound"
  <2>1. CASE Arrive /\ listener = "bound" BY <2>1
  <2>2. CASE Handler
    BY <2>2 DEF Handler, At, Forward, StartWake, WakeSucceeds, WakeFails, WakeExpires,
      RecordPanics, Record, Recover, LogResponse, Finish, reqVars, timeVars
  <2>3. CASE Backend
    BY <2>3 DEF Backend, At, BackendInforms, BackendFails, BodyEnds, BodyBreaks, Copy,
      BackendAnswers
  <2>4. CASE Tick \/ ConnectionCloses \/ HealthChanges
    BY <2>4 DEF Tick, ConnectionCloses, HealthChanges
  <2>. QED BY <2>1, <2>2, <2>3, <2>4 DEF Request
<1>. USE DEF processVars, chainVars
<1>3. Ordered' /\ UpParts' = UpParts BY <1>1, UpIsKept DEF ProcInv, ProcTypes
<1>4. ProcTypes' BY <1>1, <1>3 DEF ProcInv, ProcTypes
<1>5. ExitInv' BY <1>1 DEF ProcInv, ExitInv, FailsForCause, Served, Enabled, Port
<1>6. StageInv'
  <2>1. UNCHANGED <<Served, WakeCoordinator, Enabled("management"), Enabled("metrics")>>
    BY <1>1 DEF Served, WakeCoordinator, Enabled
  <2>. QED BY <1>1, <1>3, <2>1 DEF ProcInv, StageInv
<1>7. DependInv' BY <1>1, <1>2, <1>3 DEF ProcInv, DependInv
<1>8. \A s \in Servers : ServerInv(s)' BY <1>1, <1>3, ServersAreKept
<1>. QED BY <1>4, <1>5, <1>6, <1>7, <1>8 DEF ProcInv

\* And so does a step of nobody.
LEMMA StutterKeeps == ASSUME ProcInv, UNCHANGED vars PROVE ProcInv'
<1>. USE DEF vars, processVars, chainVars, reqVars
<1>1. Ordered' /\ UpParts' = UpParts BY UpIsKept DEF ProcInv, ProcTypes
<1>2. ProcTypes' BY <1>1 DEF ProcInv, ProcTypes
<1>3. ExitInv' BY DEF ProcInv, ExitInv, FailsForCause, Served, Enabled, Port
<1>4. StageInv'
  <2>1. UNCHANGED <<Served, WakeCoordinator, Enabled("management"), Enabled("metrics")>>
    BY DEF Served, WakeCoordinator, Enabled
  <2>. QED BY <1>1, <2>1 DEF ProcInv, StageInv
<1>5. DependInv' BY <1>1 DEF ProcInv, DependInv
<1>6. \A s \in Servers : ServerInv(s)' BY <1>1, ServersAreKept
<1>. QED BY <1>2, <1>3, <1>4, <1>5, <1>6 DEF ProcInv

\* The inductive invariant of run() (main.go:358-477).
THEOREM ProcessInvariance == SafeSpec => []ProcInv
<1>1. Init => ProcInv BY ProcInitially
<1>2. ProcInv /\ RequestInv /\ [Next]_vars => ProcInv'
  BY StartIsKept, UnwindIsKept, SignalKeeps, RequestIsKept, StutterKeeps DEF Next
<1>. QED BY <1>1, <1>2, RequestInvariance, PTL DEF SafeSpec

\* run() (main.go:358-477) ends with an error only for a collector that is refused, a
\* file that does not load, a directory that cannot be watched, a client that refuses
\* what validation has let through, or a management port that another program, the
\* route or the other server may have: for every configuration.
THEOREM FailureHasCause == SafeSpec => []FailsForCause
<1>1. ProcInv => FailsForCause BY ProcProperties
<1>. QED BY <1>1, ProcessInvariance, PTL

\* Once run() waits for a signal, what the configuration enables is there: the tracker
\* and the sleep coordinator run, the route is gated (main.go:276-313,
\* route_manager.go:425-484), and each server's Start has returned; a server that does
\* not listen has been looked at between running and the bind (server.go:81-98).
THEOREM ServingIsComplete == SafeSpec => []EnabledIsStarted
<1>1. ProcInv => EnabledIsStarted BY ProcProperties
<1>. QED BY <1>1, ProcessInvariance, PTL

\* The goroutines of a server that run() waits for have nothing left to do.
Settled(s) ==
    /\ stage = s
    /\ srv[s].runner \in {"serving", "failed"} /\ srv[s].closer \notin {"none", "asleep"}

\* Then one of them has closed started, or run() hangs.
WaitsOnlyWhenHanging == \A s \in Servers : Settled(s) => srv[s].started \/ Hangs

\* The hang that StartupEnds excepts is the only one, for every configuration: a server
\* that listens or has failed, and whose closer has looked, is reported to run()
\* (server.go:81-109, 131-132), unless the look came before running was set.
THEOREM OnlyAnEarlyLookHangs == SafeSpec => []WaitsOnlyWhenHanging
<1>1. ASSUME ProcInv PROVE WaitsOnlyWhenHanging
  <2>. SUFFICES ASSUME NEW s \in Servers, Settled(s), ~srv[s].started PROVE Hangs
    BY DEF WaitsOnlyWhenHanging
  <2>1. srv[s].closer \in {"none", "asleep", "spawned", "begun", "serving", "failed"}
    BY <1>1 DEF ProcInv, ProcTypes, SrvState
  <2>2. srv[s].closer \notin {"begun", "serving", "failed"} /\ srv[s].runner # "failed"
    BY <1>1 DEF ProcInv, ServerInv, CloserInv
  <2>. QED BY <2>1, <2>2 DEF Settled, Hangs
<1>. QED BY <1>1, ProcessInvariance, PTL

\* The order of the defers (main.go:380-476) keeps the configuration, the health
\* manager, the routes and the tracker behind a request until it is over or its
\* connection has been closed, and stops the sleep coordinator before the tracker.
THEOREM RequestsKeepTheirParts == SafeSpec => []DependenciesOutlive
<1>1. ProcInv => DependenciesOutlive BY ProcProperties
<1>. QED BY <1>1, ProcessInvariance, PTL

\* An exit that is not a kill leaves no part up, no port open, and no request but
\* those over their time (main.go:380-476, route_manager.go:170-213).
THEOREM ShutdownIsClean == SafeSpec => []NothingLeft
<1>1. ProcInv => NothingLeft BY ProcProperties
<1>. QED BY <1>1, ProcessInvariance, PTL

--------------------------------------------------------------------------------
(* The types of the process *)

\* What PathTypes, ProcTypes and GwTypeOK leave to be said of the types.
ConnTypes ==
    /\ header \in BackendStatuses \cup {0, 500, 502, 503}
    /\ wrapped \in [written : BOOLEAN, status : BackendStatuses \cup {103, 502, 503}]
    /\ logged \subseteq {"request", "response"}
    /\ seen \in [status : BackendStatuses \cup {0, 500, 502, 503}, requestID : BOOLEAN]

WorldTypes ==
    /\ conf \in Configs /\ refused \in SUBSET Refusals
    /\ sender \in BOOLEAN /\ forced \in BOOLEAN /\ healthy \in BOOLEAN
    /\ recorder \in {"none", "tracker", "typed_nil"}
    /\ clock \in 0..MaxClock /\ passed \in 0..MaxClock

\* The statuses that smaug or a backend writes.
LEMMA WritesStatus ==
    ASSUME ConnTypes, NEW status \in BackendStatuses \cup {103, 502, 503},
           WriteHeader(status), UNCHANGED <<logged, seen>>
    PROVE  ConnTypes'
<1>. USE DEF ConnTypes, BackendStatuses
<1>1. CASE wrapped.written BY <1>1 DEF WriteHeader
<1>2. CASE ~wrapped.written
  <2>1. wrapped' = [written |-> TRUE, status |-> status] BY <1>2 DEF WriteHeader
  <2>2. header' \in BackendStatuses \cup {0, 500, 502, 503} BY <1>2 DEF WriteHeader
  <2>. QED BY <2>1, <2>2
<1>. QED BY <1>1, <1>2

\* What a client sees is a status and whether it came with an ID.
LEMMA AnsweredType ==
    ASSUME ConnTypes, PathTypes
    PROVE  {Answered, Nothing} \subseteq
             [status : BackendStatuses \cup {0, 500, 502, 503}, requestID : BOOLEAN]
<1>1. Answered \in [status : BackendStatuses \cup {0, 500, 502, 503}, requestID : BOOLEAN]
  BY DEF Answered, ConnTypes, PathTypes, BackendStatuses
<1>2. Nothing \in [status : BackendStatuses \cup {0, 500, 502, 503}, requestID : BOOLEAN]
  BY DEF Nothing
<1>. QED BY <1>1, <1>2

\* A request keeps the types of its connection,
LEMMA RequestKeepsConn == ASSUME ConnTypes, PathTypes, Request PROVE ConnTypes'
<1>. USE DEF connVars, logVars, reqVars
<1>1. CASE UNCHANGED <<header, wrapped, logged, seen>>
  BY <1>1 DEF ConnTypes
<1>2. CASE Arrive BY <1>2 DEF Arrive, ConnTypes
<1>3. CASE WakeFails BY <1>3, WritesStatus DEF WakeFails
<1>4. CASE BackendInforms BY <1>4, WritesStatus DEF BackendInforms
<1>5. CASE BackendFails BY <1>5, WritesStatus DEF BackendFails
<1>6. ASSUME NEW status \in BackendStatuses, BackendAnswers(status) PROVE ConnTypes'
  BY <1>6, WritesStatus DEF BackendAnswers
<1>7. CASE BodyEnds \/ BodyBreaks
  <2>1. UNCHANGED <<wrapped, logged, seen>> /\ header' \in {header, 200}
    BY <1>7 DEF BodyEnds, BodyBreaks, Copy
  <2>2. header' \in BackendStatuses \cup {0, 500, 502, 503}
    BY <2>1 DEF ConnTypes, BackendStatuses
  <2>. QED BY <2>1, <2>2 DEF ConnTypes
<1>8. CASE Recover BY <1>8 DEF Recover, ConnTypes
<1>9. CASE LogResponse BY <1>9 DEF LogResponse, ConnTypes
<1>10. CASE Finish
  <2>1. seen' \in {Answered, Nothing} BY <1>10 DEF Finish
  <2>2. seen' \in [status : BackendStatuses \cup {0, 500, 502, 503}, requestID : BOOLEAN]
    BY <2>1, AnsweredType
  <2>. QED BY <1>10, <2>2 DEF Finish, ConnTypes
<1>. QED BY <1>1, <1>2, <1>3, <1>4, <1>5, <1>6, <1>7, <1>8, <1>9, <1>10 DEF Request,
    Handler, Backend, Forward, StartWake, WakeSucceeds, WakeExpires, RecordPanics, Record,
    Tick, ConnectionCloses, HealthChanges

\* ... and its clocks.
LEMMA RequestKeepsWorld == ASSUME WorldTypes, Request PROVE WorldTypes'
<1>. USE DEF WorldTypes, timeVars, worldVars, reqVars, processVars, chainVars
<1>1. UNCHANGED <<conf, refused, sender, forced, recorder>> BY DEF Request
<1>2. CASE UNCHANGED <<timeVars, healthy>> BY <1>1, <1>2
<1>3. CASE Forward \/ WakeSucceeds BY <1>1, <1>3 DEF Forward, WakeSucceeds
<1>4. CASE Tick BY <1>1, <1>4, RequestAssumption DEF Tick
<1>5. CASE HealthChanges BY <1>1, <1>5 DEF HealthChanges
<1>. QED BY <1>2, <1>3, <1>4, <1>5 DEF Request, Handler, Backend, Arrive, StartWake,
    WakeFails, WakeExpires, RecordPanics, Record, Recover, LogResponse, Finish,
    BackendInforms, BackendFails, BodyEnds, BodyBreaks, Copy, BackendAnswers,
    ConnectionCloses

\* run() sets the sender, the recorder and the history, and nothing else of these.
LEMMA AroundKeepsWorld ==
    ASSUME WorldTypes,
           Start \/ Unwind \/ ReceiveSignal \/ KilledBySignal \/ UNCHANGED vars
    PROVE  WorldTypes'
<1>1. UNCHANGED <<timeVars, healthy>>
  BY AroundRequest
<1>2. conf' = conf /\ refused' = refused
  BY DEF Start, InitMetrics, LoadConfig, StartHealth, InitWake, StartTracker, StartRoutes,
    ListenerBinds, StartSleep, Notify, SkipServer, Server, StartServer, ServerRuns,
    ServerListens, ServerFails, CloseStarted, ServerStarted, Up, processVars, Unwind,
    StopPart, StopServer, ShutRoutes, RoutesDrain, RoutesAreForced, CloseCoordinator,
    StopRoutes, Exit, ReceiveSignal, KilledBySignal, vars
<1>3. sender' \in BOOLEAN
  <2>1. CASE InitWake BY <2>1 DEF InitWake
  <2>2. CASE UNCHANGED sender BY <2>2 DEF WorldTypes
  <2>. QED BY <2>1, <2>2
    DEF Start, InitMetrics, LoadConfig, StartHealth, StartTracker, StartRoutes,
      ListenerBinds, StartSleep, Notify, SkipServer, Server, StartServer, ServerRuns,
      ServerListens, ServerFails, CloseStarted, ServerStarted, processVars, Unwind,
      StopPart, StopServer, ShutRoutes, RoutesDrain, RoutesAreForced, CloseCoordinator,
      StopRoutes, Exit, ReceiveSignal, KilledBySignal, vars
<1>4. recorder' \in {"none", "tracker", "typed_nil"}
  <2>1. CASE StartRoutes BY <2>1 DEF StartRoutes
  <2>2. CASE UNCHANGED recorder BY <2>2 DEF WorldTypes
  <2>. QED BY <2>1, <2>2
    DEF Start, InitMetrics, LoadConfig, StartHealth, InitWake, StartTracker,
      ListenerBinds, StartSleep, Notify, SkipServer, Server, StartServer, ServerRuns,
      ServerListens, ServerFails, CloseStarted, ServerStarted, chainVars, onlySrv, Unwind,
      StopPart, StopServer, ShutRoutes, RoutesDrain, RoutesAreForced, CloseCoordinator,
      StopRoutes, Exit, ReceiveSignal, KilledBySignal, vars
<1>5. forced' \in BOOLEAN
  <2>1. CASE RoutesAreForced BY <2>1 DEF RoutesAreForced
  <2>2. CASE UNCHANGED forced BY <2>2 DEF WorldTypes
  <2>. QED BY <2>1, <2>2
    DEF Start, InitMetrics, LoadConfig, StartHealth, InitWake, StartTracker, StartRoutes,
      ListenerBinds, StartSleep, Notify, SkipServer, Server, StartServer, ServerRuns,
      ServerListens, ServerFails, CloseStarted, ServerStarted, onlySrv, Unwind,
      StopPart, StopServer, ShutRoutes, RoutesDrain, CloseCoordinator,
      StopRoutes, Exit, ReceiveSignal, KilledBySignal, vars
<1>. QED BY <1>1, <1>2, <1>3, <1>4, <1>5 DEF WorldTypes, timeVars

\* Every variable of the process, of its request and of the call of SendWoL keeps its
\* type (main.go:358, route_manager.go:387, client.go:94), for any configurations.
THEOREM ProcessTypes == SafeSpec => []TypeOK
<1>1. Init => ConnTypes /\ WorldTypes
  <2>. SUFFICES ASSUME Init PROVE ConnTypes /\ WorldTypes
    OBVIOUS
  <2>1. ConnTypes
    BY DEF Init, ReqInit, Nothing, ConnTypes, BackendStatuses
  <2>2. WorldTypes
    <3>1. 0 \in 0..MaxClock
      BY RequestAssumption
    <3>2. /\ clock \in 0..MaxClock /\ passed \in 0..MaxClock
          /\ healthy \in BOOLEAN /\ sender \in BOOLEAN /\ forced \in BOOLEAN
      BY <3>1, Zenon DEF Init, ReqInit
    <3>. QED BY <3>2 DEF Init, WorldTypes
  <2>. QED BY <2>1, <2>2
<1>2. ASSUME ConnTypes, WorldTypes, RequestInv, [Next]_vars PROVE ConnTypes' /\ WorldTypes'
  <2>1. CASE Request
    BY <1>2, <2>1, RequestKeepsConn, RequestKeepsWorld DEF RequestInv
  <2>2. CASE Start \/ Unwind \/ ReceiveSignal \/ KilledBySignal \/ UNCHANGED vars
    <3>1. UNCHANGED <<header, wrapped, logged, seen>>
      BY <2>2, AroundRequest DEF connVars, logVars
    <3>2. ConnTypes' BY <1>2, <3>1 DEF ConnTypes
    <3>3. WorldTypes' BY <1>2, <2>2, AroundKeepsWorld
    <3>. QED BY <3>2, <3>3
  <2>. QED BY <1>2, <2>1, <2>2 DEF Next
<1>3. ConnTypes /\ WorldTypes /\ RequestInv /\ GwTypeOK /\ ProcInv => TypeOK
  <2>. SUFFICES ASSUME ConnTypes, WorldTypes, RequestInv, GwTypeOK, ProcInv PROVE TypeOK
    OBVIOUS
  <2>1. ReqTypeOK
    BY DEF ReqTypeOK, ConnTypes, WorldTypes, RequestInv, PathTypes
  <2>2. up \in Seq({"config", "health", "tracker", "routes", "sleep"} \cup Servers)
    <3>1. {"config", "health", "tracker", "routes", "sleep"} \cup Servers = AllParts
      BY DEF AllParts, Servers
    <3>. QED BY <3>1 DEF ProcInv, ProcTypes, Ordered
  <2>. QED BY <2>1, <2>2 DEF TypeOK, WorldTypes, ProcInv, ProcTypes, SrvState
<1>. QED BY <1>1, <1>2, <1>3, RequestInvariance, CallTypes, ProcessInvariance, PTL
  DEF SafeSpec

--------------------------------------------------------------------------------
(* The panics *)

\* The configuration has a tracker.
Tracked == Served /\ conf.solOn

\* With it no recorder is a typed nil; then only a body that breaks off is recovered.
PanicInv ==
    Tracked => /\ recorder # "typed_nil"
               /\ pc = "recover" => backend.status # 0
               /\ PanicsOnlyOnAbort

\* A request leaves the recorder alone, and panics only in it or in a body.
LEMMA RequestPanics == ASSUME PanicInv, RequestInv, Request PROVE PanicInv'
<1>. USE DEF PanicInv, PanicsOnlyOnAbort, connVars, logVars, reqVars
<1>1. UNCHANGED <<conf, recorder>> BY DEF Request, processVars, chainVars
<1>2. Tracked' = Tracked BY <1>1 DEF Tracked, Served
<1>3. CASE RecordPanics BY <1>1, <1>2, <1>3 DEF RecordPanics, At
<1>4. CASE BodyBreaks
  BY <1>1, <1>2, <1>4 DEF BodyBreaks, Copy, At, RequestInv, PathInv, FromBackend
<1>5. CASE Recover BY <1>1, <1>2, <1>5 DEF Recover, At
<1>6. ASSUME NEW status \in BackendStatuses, BackendAnswers(status) PROVE PanicInv'
  BY <1>1, <1>2, <1>6 DEF BackendAnswers, At, RequestInv, PathInv
<1>7. CASE BackendInforms
  BY <1>1, <1>2, <1>7 DEF BackendInforms, RequestInv, PathInv
<1>8. CASE Forward \/ StartWake \/ WakeSucceeds \/ WakeFails \/ Record \/ LogResponse
           \/ Finish \/ Arrive \/ BackendFails \/ BodyEnds
  BY <1>1, <1>2, <1>8 DEF Forward, StartWake, WakeSucceeds, WakeFails, Record,
    LogResponse, Finish, Arrive, BackendFails, BodyEnds, Copy, At
<1>9. CASE WakeExpires \/ Tick \/ ConnectionCloses \/ HealthChanges
  BY <1>1, <1>2, <1>9 DEF WakeExpires, Tick, ConnectionCloses, HealthChanges
<1>10. CASE UNCHANGED reqVars BY <1>1, <1>2, <1>10
<1>. HIDE DEF PanicInv, PanicsOnlyOnAbort
<1>. QED BY <1>3, <1>4, <1>5, <1>6, <1>7, <1>8, <1>9, <1>10
  DEF Request, Handler, Backend

\* The routes get the tracker that has been started, or a nil in its place.
LEMMA AroundPanics ==
    ASSUME PanicInv, ProcInv,
           Start \/ Unwind \/ ReceiveSignal \/ KilledBySignal \/ UNCHANGED vars
    PROVE  PanicInv'
<1>1. UNCHANGED <<pc, backend, panicked>>
  BY AroundRequest DEF connVars, logVars
<1>2. conf' = conf /\ refused' = refused
  BY DEF Start, InitMetrics, LoadConfig, StartHealth, InitWake, StartTracker, StartRoutes,
    ListenerBinds, StartSleep, Notify, SkipServer, Server, StartServer, ServerRuns,
    ServerListens, ServerFails, CloseStarted, ServerStarted, Up, processVars, Unwind,
    StopPart, StopServer, ShutRoutes, RoutesDrain, RoutesAreForced, CloseCoordinator,
    StopRoutes, Exit, ReceiveSignal, KilledBySignal, vars
<1>3. Tracked' = Tracked BY <1>2 DEF Tracked, Served
<1>4. Tracked /\ recorder # "typed_nil" => recorder' # "typed_nil"
  <2>1. CASE StartRoutes
    <3>1. Tracked => Started("tracker")
      BY <2>1, StartedIsUp DEF StartRoutes, Tracked, ProcInv, StageInv
    <3>. QED BY <2>1, <3>1 DEF StartRoutes
  <2>2. CASE UNCHANGED recorder BY <2>2
  <2>. QED BY <2>1, <2>2
    DEF Start, InitMetrics, LoadConfig, StartHealth, InitWake, StartTracker,
      ListenerBinds, StartSleep, Notify, SkipServer, Server, StartServer, ServerRuns,
      ServerListens, ServerFails, CloseStarted, ServerStarted, chainVars, onlySrv, Unwind,
      StopPart, StopServer, ShutRoutes, RoutesDrain, RoutesAreForced, CloseCoordinator,
      StopRoutes, Exit, ReceiveSignal, KilledBySignal, vars
<1>. QED BY <1>1, <1>3, <1>4 DEF PanicInv, PanicsOnlyOnAbort

\* A process whose route sleeps panics over a request only when the body of an answer
\* breaks off (main.go:145, 264, 429, proxy.go:131-136).  Of the others the run of a
\* configuration without a tracker shows that they do not.
THEOREM TrackedPanicsOnlyOnAbort == SafeSpec => [](Tracked => PanicsOnlyOnAbort)
<1>1. Init => PanicInv
  BY DEF Init, ReqInit, PanicInv, PanicsOnlyOnAbort
<1>2. ASSUME PanicInv, RequestInv, ProcInv, [Next]_vars PROVE PanicInv'
  BY <1>2, RequestPanics, AroundPanics DEF Next
<1>3. PanicInv => (Tracked => PanicsOnlyOnAbort)
  BY DEF PanicInv
<1>. QED BY <1>1, <1>2, <1>3, RequestInvariance, ProcessInvariance, PTL DEF SafeSpec
================================================================================
