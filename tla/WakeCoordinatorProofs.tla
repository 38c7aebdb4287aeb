------------------------- MODULE WakeCoordinatorProofs -------------------------
(***************************************************************************)
(* Proofs about WakeCoordinator, for every set of routes and requests,     *)
(* every WakeTimeout and every Debounce.                                   *)
(*                                                                         *)
(* WakeInv is inductive: one lemma for the initial states, then one per    *)
(* group of its conjuncts, each with one step per action.  The theorems    *)
(* follow from it.                                                         *)
(***************************************************************************)
EXTENDS WakeCoordinator, TLAPS

\* The initial state satisfies the inductive invariant (lines 140-152).
LEMMA InitWakeInv == Init => WakeInv
BY WakeAssumption
   DEF Init, WakeInv, TypeOK, SlotNamesTheWake, SlotIsOfRoute, SpawnerRegistered,
       JoinedIsOfRoute, ResultWhenPolled, TimeoutForCause, WaitGroupCounts,
       ShutBeforeClose, ForwardedOnSuccess, RefusedForCause, CloseLeavesNoWake,
       Owning, Running, Done, Handling, Answered, Closed

\* Every step keeps the types; ResultWhenPolled tells that a published
\* result is known.
LEMMA TypeStep ==
    ASSUME WakeInv, [Next]_vars
    PROVE  TypeOK'
<1> USE WakeAssumption
        DEF reqVars, wakeVars, WakeInv, TypeOK, Running, Done, Handling,
            Answered, ResultWhenPolled
<1>1. CASE HealthUpdate
  BY <1>1 DEF HealthUpdate
<1>2. CASE Tick
  BY <1>2 DEF Tick, Polling, Timed
<1>3. CASE \E r \in Requests : Arrive(r)
  BY <1>3 DEF Arrive
<1>4. CASE \E r \in Requests : CancelRequest(r)
  BY <1>4 DEF CancelRequest
<1>5. CASE \E r \in Requests : ServeHTTP(r)
  BY <1>5 DEF ServeHTTP, Answer
<1>6. CASE \E r \in Requests : JoinWake(r)
  BY <1>6 DEF JoinWake
<1>7. CASE \E r \in Requests : PollInDebounce(r)
  BY <1>7 DEF PollInDebounce
<1>8. CASE \E r \in Requests : StartWake(r)
  BY <1>8 DEF StartWake
<1>9. CASE \E r \in Requests : SpawnWake(r)
  BY <1>9 DEF SpawnWake
<1>10. CASE \E r \in Requests : WaitForWake(r)
  BY <1>10 DEF WaitForWake, Answer
<1>11. CASE \E r \in Requests : PollUntilHealthy(r)
  BY <1>11 DEF PollUntilHealthy, Answer
<1>12. CASE \E r \in Requests : BeginWake(r)
  BY <1>12 DEF BeginWake
<1>13. CASE \E r \in Requests : SendWoLReturns(r)
  BY <1>13 DEF SendWoLReturns
<1>14. CASE \E r \in Requests : PollWake(r)
  BY <1>14 DEF PollWake
<1>15. CASE \E r \in Requests : PublishResult(r)
  BY <1>15 DEF PublishResult
<1>16. CASE \E r \in Requests : ClearInFlight(r)
  BY <1>16 DEF ClearInFlight
<1>17. CASE \E r \in Requests : ExitWake(r)
  BY <1>17 DEF ExitWake
<1>18. CASE \E rt \in Routes : CloseBegin(rt)
  BY <1>18 DEF CloseBegin, WakesOf
<1>19. CASE \E rt \in Routes : CloseReturn(rt)
  BY <1>19 DEF CloseReturn
<1>20. CASE UNCHANGED vars
  BY <1>20 DEF vars
<1> QED
  BY <1>1, <1>2, <1>3, <1>4, <1>5, <1>6, <1>7, <1>8, <1>9, <1>10, <1>11, <1>12,
     <1>13, <1>14, <1>15, <1>16, <1>17, <1>18, <1>19, <1>20
     DEF Next, Handler, PerformWake

\* c.wakeInFlight: taken under the lock by StartWake, and freed by the only
\* wake that can own it.
LEMMA SlotStep ==
    ASSUME WakeInv, [Next]_vars
    PROVE  (SlotNamesTheWake /\ SlotIsOfRoute /\ SpawnerRegistered)'
<1> USE WakeAssumption
        DEF reqVars, wakeVars, WakeInv, TypeOK, Owning, Running, Done, Handling,
            Answered, SlotNamesTheWake, SlotIsOfRoute, SpawnerRegistered
<1>1. CASE HealthUpdate
  BY <1>1 DEF HealthUpdate
<1>2. CASE Tick
  BY <1>2 DEF Tick, Polling, Timed
<1>3. CASE \E r \in Requests : Arrive(r)
  BY <1>3 DEF Arrive
<1>4. CASE \E r \in Requests : CancelRequest(r)
  BY <1>4 DEF CancelRequest
<1>5. CASE \E r \in Requests : ServeHTTP(r)
  BY <1>5 DEF ServeHTTP, Answer
<1>6. CASE \E r \in Requests : JoinWake(r)
  BY <1>6 DEF JoinWake
<1>7. CASE \E r \in Requests : PollInDebounce(r)
  BY <1>7 DEF PollInDebounce
<1>8. CASE \E r \in Requests : StartWake(r)
  BY <1>8 DEF StartWake
<1>9. CASE \E r \in Requests : SpawnWake(r)
  BY <1>9 DEF SpawnWake
<1>10. CASE \E r \in Requests : WaitForWake(r)
  BY <1>10 DEF WaitForWake, Answer
<1>11. CASE \E r \in Requests : PollUntilHealthy(r)
  BY <1>11 DEF PollUntilHealthy, Answer
<1>12. CASE \E r \in Requests : BeginWake(r)
  BY <1>12 DEF BeginWake
<1>13. CASE \E r \in Requests : SendWoLReturns(r)
  BY <1>13 DEF SendWoLReturns
<1>14. CASE \E r \in Requests : PollWake(r)
  BY <1>14 DEF PollWake
<1>15. CASE \E r \in Requests : PublishResult(r)
  BY <1>15 DEF PublishResult
<1>16. CASE \E r \in Requests : ClearInFlight(r)
  BY <1>16 DEF ClearInFlight
<1>17. CASE \E r \in Requests : ExitWake(r)
  BY <1>17 DEF ExitWake
<1>18. CASE \E rt \in Routes : CloseBegin(rt)
  BY <1>18 DEF CloseBegin, WakesOf
<1>19. CASE \E rt \in Routes : CloseReturn(rt)
  BY <1>19 DEF CloseReturn
<1>20. CASE UNCHANGED vars
  BY <1>20 DEF vars
<1> QED
  BY <1>1, <1>2, <1>3, <1>4, <1>5, <1>6, <1>7, <1>8, <1>9, <1>10, <1>11, <1>12,
     <1>13, <1>14, <1>15, <1>16, <1>17, <1>18, <1>19, <1>20
     DEF Next, Handler, PerformWake

\* A handler waits on the wake it found in its own coordinator's slot.
LEMMA JoinStep ==
    ASSUME WakeInv, [Next]_vars
    PROVE  JoinedIsOfRoute'
<1> USE WakeAssumption
        DEF reqVars, wakeVars, WakeInv, TypeOK, Running, Done, Handling,
            Answered, SlotIsOfRoute, SpawnerRegistered, JoinedIsOfRoute
<1>1. CASE HealthUpdate
  BY <1>1 DEF HealthUpdate
<1>2. CASE Tick
  BY <1>2 DEF Tick, Polling, Timed
<1>3. CASE \E r \in Requests : Arrive(r)
  BY <1>3 DEF Arrive
<1>4. CASE \E r \in Requests : CancelRequest(r)
  BY <1>4 DEF CancelRequest
<1>5. CASE \E r \in Requests : ServeHTTP(r)
  BY <1>5 DEF ServeHTTP, Answer
<1>6. CASE \E r \in Requests : JoinWake(r)
  BY <1>6 DEF JoinWake
<1>7. CASE \E r \in Requests : PollInDebounce(r)
  BY <1>7 DEF PollInDebounce
<1>8. CASE \E r \in Requests : StartWake(r)
  BY <1>8 DEF StartWake
<1>9. CASE \E r \in Requests : SpawnWake(r)
  BY <1>9 DEF SpawnWake
<1>10. CASE \E r \in Requests : WaitForWake(r)
  BY <1>10 DEF WaitForWake, Answer
<1>11. CASE \E r \in Requests : PollUntilHealthy(r)
  BY <1>11 DEF PollUntilHealthy, Answer
<1>12. CASE \E r \in Requests : BeginWake(r)
  BY <1>12 DEF BeginWake
<1>13. CASE \E r \in Requests : SendWoLReturns(r)
  BY <1>13 DEF SendWoLReturns
<1>14. CASE \E r \in Requests : PollWake(r)
  BY <1>14 DEF PollWake
<1>15. CASE \E r \in Requests : PublishResult(r)
  BY <1>15 DEF PublishResult
<1>16. CASE \E r \in Requests : ClearInFlight(r)
  BY <1>16 DEF ClearInFlight
<1>17. CASE \E r \in Requests : ExitWake(r)
  BY <1>17 DEF ExitWake
<1>18. CASE \E rt \in Routes : CloseBegin(rt)
  BY <1>18 DEF CloseBegin, WakesOf
<1>19. CASE \E rt \in Routes : CloseReturn(rt)
  BY <1>19 DEF CloseReturn
<1>20. CASE UNCHANGED vars
  BY <1>20 DEF vars
<1> QED
  BY <1>1, <1>2, <1>3, <1>4, <1>5, <1>6, <1>7, <1>8, <1>9, <1>10, <1>11, <1>12,
     <1>13, <1>14, <1>15, <1>16, <1>17, <1>18, <1>19, <1>20
     DEF Next, Handler, PerformWake

\* performWake sets its result once, after polling, for one of two causes.
LEMMA ResultStep ==
    ASSUME WakeInv, [Next]_vars
    PROVE  (ResultWhenPolled /\ TimeoutForCause)'
<1> USE WakeAssumption
        DEF reqVars, wakeVars, WakeInv, TypeOK, Running, Done, Closed,
            SpawnerRegistered, JoinedIsOfRoute, ResultWhenPolled,
            TimeoutForCause
<1>1. CASE HealthUpdate
  BY <1>1 DEF HealthUpdate
<1>2. CASE Tick
  BY <1>2 DEF Tick, Polling, Timed
<1>3. CASE \E r \in Requests : Arrive(r)
  BY <1>3 DEF Arrive
<1>4. CASE \E r \in Requests : CancelRequest(r)
  BY <1>4 DEF CancelRequest
<1>5. CASE \E r \in Requests : ServeHTTP(r)
  BY <1>5 DEF ServeHTTP, Answer
<1>6. CASE \E r \in Requests : JoinWake(r)
  BY <1>6 DEF JoinWake
<1>7. CASE \E r \in Requests : PollInDebounce(r)
  BY <1>7 DEF PollInDebounce
<1>8. CASE \E r \in Requests : StartWake(r)
  BY <1>8 DEF StartWake
<1>9. CASE \E r \in Requests : SpawnWake(r)
  BY <1>9 DEF SpawnWake
<1>10. CASE \E r \in Requests : WaitForWake(r)
  BY <1>10 DEF WaitForWake, Answer
<1>11. CASE \E r \in Requests : PollUntilHealthy(r)
  BY <1>11 DEF PollUntilHealthy, Answer
<1>12. CASE \E r \in Requests : BeginWake(r)
  BY <1>12 DEF BeginWake
<1>13. CASE \E r \in Requests : SendWoLReturns(r)
  BY <1>13 DEF SendWoLReturns
<1>14. CASE \E r \in Requests : PollWake(r)
  BY <1>14 DEF PollWake
<1>15. CASE \E r \in Requests : PublishResult(r)
  BY <1>15 DEF PublishResult
<1>16. CASE \E r \in Requests : ClearInFlight(r)
  BY <1>16 DEF ClearInFlight
<1>17. CASE \E r \in Requests : ExitWake(r)
  BY <1>17 DEF ExitWake
<1>18. CASE \E rt \in Routes : CloseBegin(rt)
  BY <1>18 DEF CloseBegin, WakesOf
<1>19. CASE \E rt \in Routes : CloseReturn(rt)
  BY <1>19 DEF CloseReturn
<1>20. CASE UNCHANGED vars
  BY <1>20 DEF vars
<1> QED
  BY <1>1, <1>2, <1>3, <1>4, <1>5, <1>6, <1>7, <1>8, <1>9, <1>10, <1>11, <1>12,
     <1>13, <1>14, <1>15, <1>16, <1>17, <1>18, <1>19, <1>20
     DEF Next, Handler, PerformWake

\* The WaitGroup covers a wake from its spawning to its exit, and a graceful
\* shutdown leaves no handler to spawn another.
LEMMA CloseStep ==
    ASSUME WakeInv, [Next]_vars
    PROVE  (WaitGroupCounts /\ ShutBeforeClose)'
<1> USE WakeAssumption
        DEF reqVars, wakeVars, WakeInv, TypeOK, Running, Done, Handling,
            Answered, Closed, SpawnerRegistered, WaitGroupCounts,
            ShutBeforeClose
<1>1. CASE HealthUpdate
  BY <1>1 DEF HealthUpdate
<1>2. CASE Tick
  BY <1>2 DEF Tick, Polling, Timed
<1>3. CASE \E r \in Requests : Arrive(r)
  BY <1>3 DEF Arrive
<1>4. CASE \E r \in Requests : CancelRequest(r)
  BY <1>4 DEF CancelRequest
<1>5. CASE \E r \in Requests : ServeHTTP(r)
  BY <1>5 DEF ServeHTTP, Answer
<1>6. CASE \E r \in Requests : JoinWake(r)
  BY <1>6 DEF JoinWake
<1>7. CASE \E r \in Requests : PollInDebounce(r)
  BY <1>7 DEF PollInDebounce
<1>8. CASE \E r \in Requests : StartWake(r)
  BY <1>8 DEF StartWake
<1>9. CASE \E r \in Requests : SpawnWake(r)
  BY <1>9 DEF SpawnWake
<1>10. CASE \E r \in Requests : WaitForWake(r)
  BY <1>10 DEF WaitForWake, Answer
<1>11. CASE \E r \in Requests : PollUntilHealthy(r)
  BY <1>11 DEF PollUntilHealthy, Answer
<1>12. CASE \E r \in Requests : BeginWake(r)
  BY <1>12 DEF BeginWake
<1>13. CASE \E r \in Requests : SendWoLReturns(r)
  BY <1>13 DEF SendWoLReturns
<1>14. CASE \E r \in Requests : PollWake(r)
  BY <1>14 DEF PollWake
<1>15. CASE \E r \in Requests : PublishResult(r)
  BY <1>15 DEF PublishResult
<1>16. CASE \E r \in Requests : ClearInFlight(r)
  BY <1>16 DEF ClearInFlight
<1>17. CASE \E r \in Requests : ExitWake(r)
  BY <1>17 DEF ExitWake
<1>18. CASE \E rt \in Routes : CloseBegin(rt)
  BY <1>18 DEF CloseBegin, WakesOf
<1>19. CASE \E rt \in Routes : CloseReturn(rt)
  BY <1>19 DEF CloseReturn
<1>20. CASE UNCHANGED vars
  BY <1>20 DEF vars
<1> QED
  BY <1>1, <1>2, <1>3, <1>4, <1>5, <1>6, <1>7, <1>8, <1>9, <1>10, <1>11, <1>12,
     <1>13, <1>14, <1>15, <1>16, <1>17, <1>18, <1>19, <1>20
     DEF Next, Handler, PerformWake

\* waitForWake reads wake.err only when done is closed, hence when it is the
\* result of the polling.
LEMMA ForwardedStep ==
    ASSUME WakeInv, [Next]_vars
    PROVE  ForwardedOnSuccess'
<1> USE WakeAssumption
        DEF reqVars, wakeVars, WakeInv, TypeOK, Running, Done, Handling,
            Answered, JoinedIsOfRoute, ResultWhenPolled, ForwardedOnSuccess
<1>1. CASE HealthUpdate
  BY <1>1 DEF HealthUpdate
<1>2. CASE Tick
  BY <1>2 DEF Tick, Polling, Timed
<1>3. CASE \E r \in Requests : Arrive(r)
  BY <1>3 DEF Arrive
<1>4. CASE \E r \in Requests : CancelRequest(r)
  BY <1>4 DEF CancelRequest
<1>5. CASE \E r \in Requests : ServeHTTP(r)
  BY <1>5 DEF ServeHTTP, Answer
<1>6. CASE \E r \in Requests : JoinWake(r)
  BY <1>6 DEF JoinWake
<1>7. CASE \E r \in Requests : PollInDebounce(r)
  BY <1>7 DEF PollInDebounce
<1>8. CASE \E r \in Requests : StartWake(r)
  BY <1>8 DEF StartWake
<1>9. CASE \E r \in Requests : SpawnWake(r)
  BY <1>9 DEF SpawnWake
<1>10. CASE \E r \in Requests : WaitForWake(r)
  BY <1>10 DEF WaitForWake, Answer
<1>11. CASE \E r \in Requests : PollUntilHealthy(r)
  BY <1>11 DEF PollUntilHealthy, Answer
<1>12. CASE \E r \in Requests : BeginWake(r)
  BY <1>12 DEF BeginWake
<1>13. CASE \E r \in Requests : SendWoLReturns(r)
  BY <1>13 DEF SendWoLReturns
<1>14. CASE \E r \in Requests : PollWake(r)
  BY <1>14 DEF PollWake
<1>15. CASE \E r \in Requests : PublishResult(r)
  BY <1>15 DEF PublishResult
<1>16. CASE \E r \in Requests : ClearInFlight(r)
  BY <1>16 DEF ClearInFlight
<1>17. CASE \E r \in Requests : ExitWake(r)
  BY <1>17 DEF ExitWake
<1>18. CASE \E rt \in Routes : CloseBegin(rt)
  BY <1>18 DEF CloseBegin, WakesOf
<1>19. CASE \E rt \in Routes : CloseReturn(rt)
  BY <1>19 DEF CloseReturn
<1>20. CASE UNCHANGED vars
  BY <1>20 DEF vars
<1> QED
  BY <1>1, <1>2, <1>3, <1>4, <1>5, <1>6, <1>7, <1>8, <1>9, <1>10, <1>11, <1>12,
     <1>13, <1>14, <1>15, <1>16, <1>17, <1>18, <1>19, <1>20
     DEF Next, Handler, PerformWake

\* The causes of a 503 do not go away once it is sent.
LEMMA RefusedStep ==
    ASSUME WakeInv, [Next]_vars
    PROVE  RefusedForCause'
<1> USE WakeAssumption
        DEF reqVars, wakeVars, WakeInv, TypeOK, Running, Done, Handling,
            Answered, Closed, JoinedIsOfRoute, ResultWhenPolled, TimeoutForCause,
            RefusedForCause
<1>1. CASE HealthUpdate
  BY <1>1 DEF HealthUpdate
<1>2. CASE Tick
  BY <1>2 DEF Tick, Polling, Timed
<1>3. CASE \E r \in Requests : Arrive(r)
  BY <1>3 DEF Arrive
<1>4. CASE \E r \in Requests : CancelRequest(r)
  BY <1>4 DEF CancelRequest
<1>5. CASE \E r \in Requests : ServeHTTP(r)
  BY <1>5 DEF ServeHTTP, Answer
<1>6. CASE \E r \in Requests : JoinWake(r)
  BY <1>6 DEF JoinWake
<1>7. CASE \E r \in Requests : PollInDebounce(r)
  BY <1>7 DEF PollInDebounce
<1>8. CASE \E r \in Requests : StartWake(r)
  BY <1>8 DEF StartWake
<1>9. CASE \E r \in Requests : SpawnWake(r)
  BY <1>9 DEF SpawnWake
<1>10. CASE \E r \in Requests : WaitForWake(r)
  BY <1>10 DEF WaitForWake, Answer
<1>11. CASE \E r \in Requests : PollUntilHealthy(r)
  BY <1>11 DEF PollUntilHealthy, Answer
<1>12. CASE \E r \in Requests : BeginWake(r)
  BY <1>12 DEF BeginWake
<1>13. CASE \E r \in Requests : SendWoLReturns(r)
  BY <1>13 DEF SendWoLReturns
<1>14. CASE \E r \in Requests : PollWake(r)
  BY <1>14 DEF PollWake
<1>15. CASE \E r \in Requests : PublishResult(r)
  BY <1>15 DEF PublishResult
<1>16. CASE \E r \in Requests : ClearInFlight(r)
  BY <1>16 DEF ClearInFlight
<1>17. CASE \E r \in Requests : ExitWake(r)
  BY <1>17 DEF ExitWake
<1>18. CASE \E rt \in Routes : CloseBegin(rt)
  BY <1>18 DEF CloseBegin, WakesOf
<1>19. CASE \E rt \in Routes : CloseReturn(rt)
  BY <1>19 DEF CloseReturn
<1>20. CASE UNCHANGED vars
  BY <1>20 DEF vars
<1> QED
  BY <1>1, <1>2, <1>3, <1>4, <1>5, <1>6, <1>7, <1>8, <1>9, <1>10, <1>11, <1>12,
     <1>13, <1>14, <1>15, <1>16, <1>17, <1>18, <1>19, <1>20
     DEF Next, Handler, PerformWake

\* wg.Wait returns on an empty group, and nobody is left to add to it.
LEMMA NoWakeStep ==
    ASSUME WakeInv, Graceful, [Next]_vars
    PROVE  CloseLeavesNoWake'
<1> USE WakeAssumption
        DEF reqVars, wakeVars, WakeInv, TypeOK, Running, Done, Handling, Closed,
            SpawnerRegistered, WaitGroupCounts, ShutBeforeClose,
            CloseLeavesNoWake
<1>1. CASE HealthUpdate
  BY <1>1 DEF HealthUpdate
<1>2. CASE Tick
  BY <1>2 DEF Tick, Polling, Timed
<1>3. CASE \E r \in Requests : Arrive(r)
  BY <1>3 DEF Arrive
<1>4. CASE \E r \in Requests : CancelRequest(r)
  BY <1>4 DEF CancelRequest
<1>5. CASE \E r \in Requests : ServeHTTP(r)
  BY <1>5 DEF ServeHTTP, Answer
<1>6. CASE \E r \in Requests : JoinWake(r)
  BY <1>6 DEF JoinWake
<1>7. CASE \E r \in Requests : PollInDebounce(r)
  BY <1>7 DEF PollInDebounce
<1>8. CASE \E r \in Requests : StartWake(r)
  BY <1>8 DEF StartWake
<1>9. CASE \E r \in Requests : SpawnWake(r)
  BY <1>9 DEF SpawnWake
<1>10. CASE \E r \in Requests : WaitForWake(r)
  BY <1>10 DEF WaitForWake, Answer
<1>11. CASE \E r \in Requests : PollUntilHealthy(r)
  BY <1>11 DEF PollUntilHealthy, Answer
<1>12. CASE \E r \in Requests : BeginWake(r)
  BY <1>12 DEF BeginWake
<1>13. CASE \E r \in Requests : SendWoLReturns(r)
  BY <1>13 DEF SendWoLReturns
<1>14. CASE \E r \in Requests : PollWake(r)
  BY <1>14 DEF PollWake
<1>15. CASE \E r \in Requests : PublishResult(r)
  BY <1>15 DEF PublishResult
<1>16. CASE \E r \in Requests : ClearInFlight(r)
  BY <1>16 DEF ClearInFlight
<1>17. CASE \E r \in Requests : ExitWake(r)
  BY <1>17 DEF ExitWake
<1>18. CASE \E rt \in Routes : CloseBegin(rt)
  BY <1>18 DEF CloseBegin, WakesOf
<1>19. CASE \E rt \in Routes : CloseReturn(rt)
  BY <1>19 DEF CloseReturn
<1>20. CASE UNCHANGED vars
  BY <1>20 DEF vars
<1> QED
  BY <1>1, <1>2, <1>3, <1>4, <1>5, <1>6, <1>7, <1>8, <1>9, <1>10, <1>11, <1>12,
     <1>13, <1>14, <1>15, <1>16, <1>17, <1>18, <1>19, <1>20
     DEF Next, Handler, PerformWake

\* WakeInv is an invariant of wake_coordinator.go.
THEOREM WakeInvariance == SafeSpec => []WakeInv
<1>1. ASSUME WakeInv, [Next]_vars PROVE WakeInv'
  <2>1. Graceful => CloseLeavesNoWake'
    BY <1>1, NoWakeStep
  <2> QED
    BY <1>1, <2>1, TypeStep, SlotStep, JoinStep, ResultStep, CloseStep,
       ForwardedStep, RefusedStep
       DEF WakeInv
<1> QED
  BY <1>1, InitWakeInv, PTL DEF SafeSpec

\* Every variable keeps its type.
THEOREM TypeCorrect == SafeSpec => []TypeOK
BY WakeInvariance, PTL DEF WakeInv

\* Single flight (lines 222-244, 291-293): one wake per route, and the slot
\* names it.
THEOREM SingleFlight == SafeSpec => []SlotNamesTheWake
BY WakeInvariance, PTL DEF WakeInv

\* A joined request is forwarded only on a wake of its own route that has seen
\* the server healthy (lines 249-256, 288-289).
THEOREM ForwardedIsJustified == SafeSpec => []ForwardedOnSuccess
BY WakeInvariance, PTL DEF WakeInv

\* A 503 always has one of its four causes (lines 206-214, 302-313).
THEOREM RefusedIsJustified == SafeSpec => []RefusedForCause
BY WakeInvariance, PTL DEF WakeInv

\* After a graceful shutdown, Close returns with no wake goroutine left to run
\* (lines 155-161).
THEOREM GracefulCloseIsClean ==
    ASSUME Graceful PROVE SafeSpec => []CloseLeavesNoWake
<1>1. WakeInv => CloseLeavesNoWake
  BY DEF WakeInv
<1> QED
  BY <1>1, WakeInvariance, PTL

--------------------------------------------------------------------------------
(* WakeCoordinator implements WakeGate. *)

\* No wake is running and nothing is answered at first.
LEMMA GateInit == Init => Gate!Init
BY WakeAssumption DEF Init, Gate!Init, AbsAnswer, AbsVerdict, Handling

\* Every step of the coordinator is a step of the gate, or invisible to it.
LEMMA GateStep ==
    ASSUME WakeInv, [Next]_vars
    PROVE  [Gate!Next]_(Gate!gvars)
<1> USE WakeAssumption
        DEF reqVars, wakeVars, WakeInv, TypeOK, Running, Done, Handling, Answered,
            AbsAnswer, AbsVerdict, Gate!gvars
<1>1. CASE HealthUpdate
  BY <1>1 DEF HealthUpdate, Gate!Next, Gate!Flip
<1>2. CASE Tick
  BY <1>2 DEF Tick, Polling, Timed
<1>3. ASSUME NEW r \in Requests, Arrive(r)
      PROVE  Gate!Arrive(r)
  BY <1>3 DEF Arrive, Gate!Arrive
<1>4. ASSUME NEW r \in Requests, CancelRequest(r) PROVE UNCHANGED Gate!gvars
  BY <1>4 DEF CancelRequest
<1>5. ASSUME NEW r \in Requests, ServeHTTP(r)
      PROVE  Gate!Forward(r) \/ UNCHANGED Gate!gvars
  BY <1>5 DEF ServeHTTP, Answer, Gate!Forward
<1>6. ASSUME NEW r \in Requests, JoinWake(r) PROVE UNCHANGED Gate!gvars
  BY <1>6 DEF JoinWake
<1>7. ASSUME NEW r \in Requests, PollInDebounce(r) PROVE UNCHANGED Gate!gvars
  BY <1>7 DEF PollInDebounce
<1>8. ASSUME NEW r \in Requests, StartWake(r)
      PROVE  Gate!Trigger(r)
  BY <1>8 DEF StartWake, JoinedIsOfRoute, ResultWhenPolled, Gate!Trigger
<1>9. ASSUME NEW r \in Requests, SpawnWake(r) PROVE UNCHANGED Gate!gvars
  BY <1>9 DEF SpawnWake
<1>10. ASSUME NEW r \in Requests, WaitForWake(r)
      PROVE  Gate!Forward(r) \/ Gate!Refuse(r)
  <2> USE <1>10 DEF WaitForWake, Answer
  <2>1. CASE req' = [req EXCEPT ![r] = "forwarded"]
    <3>1. joined[r] \in Requests /\ RouteOf[joined[r]] = RouteOf[r]
      BY DEF JoinedIsOfRoute
    <3>2. result[joined[r]] = "nil"
      BY <2>1, <3>1 DEF ResultWhenPolled
    <3>3. AbsVerdict[joined[r]] = "awake"
      BY <3>1, <3>2
    <3>4. AbsAnswer[r] = "pending" /\ AbsAnswer' = [AbsAnswer EXCEPT ![r] = "forwarded"]
      BY <2>1
    <3> QED
      BY <3>1, <3>3, <3>4 DEF Gate!Forward
  <2>2. CASE req' = [req EXCEPT ![r] = "refused"]
    <3>1. AbsAnswer[r] = "pending" /\ AbsAnswer' = [AbsAnswer EXCEPT ![r] = "refused"]
      BY <2>2
    <3> QED
      BY <3>1 DEF Gate!Refuse
  <2> QED
    BY <2>1, <2>2
<1>11. ASSUME NEW r \in Requests, PollUntilHealthy(r)
      PROVE  Gate!Forward(r) \/ Gate!Refuse(r)
  <2> USE <1>11 DEF PollUntilHealthy, Answer
  <2>1. CASE healthy /\ req' = [req EXCEPT ![r] = "forwarded"]
    <3>1. AbsAnswer[r] = "pending" /\ AbsAnswer' = [AbsAnswer EXCEPT ![r] = "forwarded"]
      BY <2>1
    <3> QED
      BY <2>1, <3>1 DEF Gate!Forward
  <2>2. CASE req' = [req EXCEPT ![r] = "refused"]
    <3>1. AbsAnswer[r] = "pending" /\ AbsAnswer' = [AbsAnswer EXCEPT ![r] = "refused"]
      BY <2>2
    <3> QED
      BY <3>1 DEF Gate!Refuse
  <2> QED
    BY <2>1, <2>2
<1>12. ASSUME NEW r \in Requests, BeginWake(r) PROVE UNCHANGED Gate!gvars
  BY <1>12 DEF BeginWake
<1>13. ASSUME NEW r \in Requests, SendWoLReturns(r) PROVE UNCHANGED Gate!gvars
  BY <1>13 DEF SendWoLReturns
<1>14. ASSUME NEW r \in Requests, PollWake(r)
      PROVE  \E v \in {"awake", "failed"} : Gate!Decide(r, v)
  <2> USE <1>14 DEF PollWake
  <2>1. inFlight[RouteOf[r]] = r /\ AbsVerdict[r] = "none"
    BY DEF SlotNamesTheWake, Owning, ResultWhenPolled
  <2>2. CASE healthy /\ result' = [result EXCEPT ![r] = "nil"]
    <3>1. AbsVerdict' = [AbsVerdict EXCEPT ![r] = "awake"]
      BY <2>2
    <3> QED
      BY <2>1, <2>2, <3>1 DEF Gate!Decide
  <2>3. CASE result' = [result EXCEPT ![r] = "timeout"]
    <3>1. AbsVerdict' = [AbsVerdict EXCEPT ![r] = "failed"]
      BY <2>3
    <3> QED
      BY <2>1, <2>3, <3>1 DEF Gate!Decide
  <2> QED
    BY <2>2, <2>3
<1>15. ASSUME NEW r \in Requests, PublishResult(r) PROVE UNCHANGED Gate!gvars
  BY <1>15 DEF PublishResult
<1>16. ASSUME NEW r \in Requests, ClearInFlight(r)
      PROVE  Gate!Settle(r)
  BY <1>16 DEF ClearInFlight, SlotNamesTheWake, Owning, ResultWhenPolled, Gate!Settle
<1>17. ASSUME NEW r \in Requests, ExitWake(r) PROVE UNCHANGED Gate!gvars
  BY <1>17 DEF ExitWake
<1>18. ASSUME NEW rt \in Routes, CloseBegin(rt) PROVE UNCHANGED Gate!gvars
  BY <1>18 DEF CloseBegin
<1>19. ASSUME NEW rt \in Routes, CloseReturn(rt) PROVE UNCHANGED Gate!gvars
  BY <1>19 DEF CloseReturn
<1>20. CASE UNCHANGED vars
  BY <1>20 DEF vars
<1> QED
  BY <1>1, <1>2, <1>3, <1>4, <1>5, <1>6, <1>7, <1>8, <1>9, <1>10, <1>11, <1>12, <1>13,
     <1>14, <1>15, <1>16, <1>17, <1>18, <1>19, <1>20
     DEF Next, Handler, PerformWake, Gate!Next

\* The safety half of the refinement that the liveness run checks in full.
THEOREM CoordinatorImplementsGate == SafeSpec => Gate!SafeSpec
<1>1. WakeInv /\ [Next]_vars => [Gate!Next]_(Gate!gvars)
  BY GateStep
<1> QED
  BY <1>1, GateInit, WakeInvariance, PTL DEF SafeSpec, Gate!SafeSpec

================================================================================
