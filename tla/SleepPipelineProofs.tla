-------------------------- MODULE SleepPipelineProofs --------------------------
(***************************************************************************)
(* Proofs about SleepPipeline, for any routes, timeouts, handlers, channel *)
(* capacity, check interval and lag.                                       *)
(***************************************************************************)
EXTENDS SleepPipeline, TLAPS

\* The types the ages need.
AgeTypes ==
    /\ age \in [Routes -> Nat] /\ quiet \in [Routes -> Nat] /\ spaced \in [Routes -> Nat]
    /\ \A rt \in Routes :
         age[rt] <= Cap(rt) /\ quiet[rt] <= Cap(rt) /\ spaced[rt] <= Cap(rt)
    /\ hroute \in [Handlers -> Routes \cup {NoRoute}]
    /\ hage \in [Handlers -> 0..MaxLag]
    /\ nowAge \in 0..MaxLag
    /\ checker \in {"select", "lock", "scan"}

AgeInv == AgeTypes /\ AgeIsRecent

\* A route never seen is as old as it gets, and so is its last request.
LEMMA InitAgeInv == Init => AgeInv
BY SleepAssumption DEF Init, AgeInv, AgeTypes, AgeIsRecent, Cap, Recording

\* RecordActivity writes a clock it read at most MaxLag ago, and a trigger resets
\* lastSeen to such a clock; time ages all of them alike.
LEMMA NextAgeInv ==
    ASSUME AgeInv, [Next]_vars
    PROVE  AgeInv'
<1> USE SleepAssumption
        DEF AgeInv, AgeTypes, AgeIsRecent, Cap, Recording,
            trackerVars, checkVars, loopVars
<1>1. CASE Tick
  <2> USE <1>1 DEF Tick, Later, Smaller
  <2>1. AgeTypes'
    OBVIOUS
  <2>2. AgeIsRecent'
    OBVIOUS
  <2> QED
    BY <2>1, <2>2
<1>2. ASSUME NEW h \in Handlers, NEW rt \in Routes, BeginActivity(h, rt) PROVE AgeInv'
  BY <1>2 DEF BeginActivity
<1>3. ASSUME NEW h \in Handlers, RecordActivity(h) PROVE AgeInv'
  BY <1>3 DEF RecordActivity
<1>4. CASE BeginCheck
  BY <1>4 DEF BeginCheck
<1>5. CASE BeginScan
  BY <1>5 DEF BeginScan
<1>6. ASSUME NEW rt \in Routes, EmitTrigger(rt) PROVE AgeInv'
  <2>1. /\ age' = [age EXCEPT ![rt] = nowAge]
        /\ spaced' = [spaced EXCEPT ![rt] = 0]
        /\ UNCHANGED <<hroute, hage, checker, nowAge, quiet>>
    BY <1>6 DEF EmitTrigger
  <2>2. nowAge \in Nat /\ nowAge <= Cap(rt) /\ 0 <= Cap(rt)
    OBVIOUS
  <2>3. AgeTypes'
    BY <2>1, <2>2
  <2>4. AgeIsRecent'
    BY <2>1
  <2> QED
    BY <2>3, <2>4
<1>7. ASSUME NEW rt \in Routes, PassOver(rt) PROVE AgeInv'
  BY <1>7 DEF PassOver
<1>8. CASE EndScan
  BY <1>8 DEF EndScan
<1>9. CASE Loop
  BY <1>9 DEF Loop, ReceiveTrigger, SkipSleep, SendSleep, SleepReturns
<1>10. ASSUME NEW s \in Servers, NEW v \in {"healthy", "unhealthy"}, HealthUpdate(s, v)
       PROVE  AgeInv'
  BY <1>10 DEF HealthUpdate
<1>11. CASE UNCHANGED vars
  BY <1>11 DEF vars
<1> QED
  BY <1>1, <1>2, <1>3, <1>4, <1>5, <1>6, <1>7, <1>8, <1>9, <1>10, <1>11
     DEF Next, Checker

\* AgeInv is an invariant of the tracker.
THEOREM AgeInvariance == SafeSpec => []AgeInv
BY InitAgeInv, NextAgeInv, PTL DEF SafeSpec

\* lastSeen follows the requests and the triggers (lines 135-148, 264-294).
THEOREM AgesAreRecent == SafeSpec => []AgeIsRecent
BY AgeInvariance, PTL DEF AgeInv
\* The channel holds routes.
ChannelType == ch \in Seq(Routes)

\* EmitTrigger adds a route and ReceiveTrigger takes one.
THEOREM ChannelInvariance == SafeSpec => []ChannelType
<1>1. Init => ChannelType
  BY DEF Init, ChannelType
<1>2. ASSUME ChannelType, [Next]_vars PROVE ChannelType'
  <2> USE <1>2 DEF ChannelType
  <2>1. CASE \E rt \in Routes : EmitTrigger(rt)
    BY <2>1 DEF EmitTrigger
  <2>2. CASE ReceiveTrigger
    BY <2>2 DEF ReceiveTrigger
  <2>3. CASE UNCHANGED ch
    BY <2>3
  <2> QED
    BY <2>1, <2>2, <2>3
       DEF Next, Tick, Checker, BeginCheck, BeginScan, EndScan, PassOver, Loop,
           SkipSleep, SendSleep, SleepReturns, RecordActivity, BeginActivity,
           HealthUpdate, vars, loopVars
<1> QED
  BY <1>1, <1>2, PTL DEF SafeSpec

\* Only EmitTrigger adds to the channel.
LEMMA OnlyEmitTriggerEmits ==
    ASSUME ChannelType, [Next]_vars, NEW rt \in Routes, Emitted(rt)
    PROVE  EmitTrigger(rt)
<1> USE DEF ChannelType, Emitted
<1>1. CASE \E r \in Routes : EmitTrigger(r)
  <2>1. PICK r \in Routes : EmitTrigger(r)
    BY <1>1
  <2>2. ch' = Append(ch, r) /\ Len(ch) \in Nat
    BY <2>1 DEF EmitTrigger
  <2>3. Len(ch') = Len(ch) + 1 /\ ch'[Len(ch) + 1] = r
    BY <2>2
  <2>4. r = rt
    BY <2>3
  <2> QED
    BY <2>1, <2>4
<1>2. CASE ReceiveTrigger
  <2>1. Len(ch') < Len(ch)
    BY <1>2 DEF ReceiveTrigger
  <2>2. Len(ch') \in Nat /\ Len(ch) \in Nat
    BY <1>2 DEF ReceiveTrigger
  <2> QED
    BY <2>1, <2>2
<1>3. CASE UNCHANGED ch
  <2>1. Len(ch) \in Nat
    OBVIOUS
  <2> QED
    BY <1>3, <2>1
<1> QED
  BY <1>1, <1>2, <1>3
     DEF Next, Tick, Checker, BeginCheck, BeginScan, EndScan, PassOver, Loop,
         SkipSleep, SendSleep, SleepReturns, RecordActivity, BeginActivity,
         HealthUpdate, vars, loopVars

\* What the tracker promises of a trigger (lines 263-305): its route has been
\* idle for its timeout, up to the lag.
THEOREM TriggersAreForIdleRoutes == SafeSpec => TriggersOnlyIdleRoutes
<1>1. ASSUME AgeInv, ChannelType, [Next]_vars, NEW rt \in Routes, Emitted(rt)
      PROVE  Recording(rt) \/ quiet[rt] + MaxLag >= IdleTimeout[rt]
  <2>1. IsIdle(rt)
    BY <1>1, OnlyEmitTriggerEmits DEF EmitTrigger
  <2> QED
    BY <1>1, <2>1, SleepAssumption DEF AgeInv, AgeTypes, AgeIsRecent, IsIdle
<1>2. AgeInv /\ ChannelType /\ [Next]_vars =>
        [\A rt \in Routes : Emitted(rt) =>
           Recording(rt) \/ quiet[rt] + MaxLag >= IdleTimeout[rt]]_vars
  BY <1>1
<1> QED
  BY <1>2, AgeInvariance, ChannelInvariance, PTL DEF SafeSpec, TriggersOnlyIdleRoutes

\* ... and has had no trigger for as long (sleep_coordinator.go:48-50).
THEOREM TriggersKeepTheirDistance == SafeSpec => TriggersAreSpaced
<1>1. ASSUME AgeInv, ChannelType, [Next]_vars, NEW rt \in Routes, Emitted(rt)
      PROVE  spaced[rt] + MaxLag >= IdleTimeout[rt]
  <2>1. IsIdle(rt)
    BY <1>1, OnlyEmitTriggerEmits DEF EmitTrigger
  <2> QED
    BY <1>1, <2>1, SleepAssumption DEF AgeInv, AgeTypes, AgeIsRecent, IsIdle
<1>2. AgeInv /\ ChannelType /\ [Next]_vars =>
        [\A rt \in Routes : Emitted(rt) =>
           spaced[rt] + MaxLag >= IdleTimeout[rt]]_vars
  BY <1>1
<1> QED
  BY <1>2, AgeInvariance, ChannelInvariance, PTL DEF SafeSpec, TriggersAreSpaced

\* ... and so has its server, when no two of the routes with a timeout share one
\* (main.go:214-215): what the run of two such routes finds of TriggersOnlyIdleServers
\* is all there is to it.
THEOREM UnsharedServersAreIdle ==
    (\A rt, other \in Routes :
       ServerOf[other] = ServerOf[rt] /\ IdleTimeout[rt] > 0 /\ IdleTimeout[other] > 0
         => other = rt)
      => (SafeSpec => TriggersOnlyIdleServers)
<1> SUFFICES ASSUME \A rt, other \in Routes :
                      ServerOf[other] = ServerOf[rt] /\ IdleTimeout[rt] > 0
                        /\ IdleTimeout[other] > 0 => other = rt
             PROVE  SafeSpec => TriggersOnlyIdleServers
  OBVIOUS
<1>1. ASSUME AgeInv, ChannelType, [Next]_vars, NEW rt \in Routes, NEW other \in Routes,
             Emitted(rt), ServerOf[other] = ServerOf[rt]
      PROVE  Recording(other) \/ quiet[other] + MaxLag >= IdleTimeout[other]
  <2>1. IsIdle(rt)
    BY <1>1, OnlyEmitTriggerEmits DEF EmitTrigger
  <2>2. CASE IdleTimeout[other] > 0
    <3>1. other = rt
      BY <1>1, <2>1, <2>2 DEF IsIdle
    <3> QED
      BY <1>1, <2>1, <3>1, SleepAssumption
         DEF AgeInv, AgeTypes, AgeIsRecent, IsIdle
  <2>3. CASE ~(IdleTimeout[other] > 0)
    BY <1>1, <2>3, SleepAssumption DEF AgeInv, AgeTypes
  <2> QED
    BY <2>2, <2>3
<1>2. AgeInv /\ ChannelType /\ [Next]_vars =>
        [\A rt, other \in Routes :
           Emitted(rt) /\ ServerOf[other] = ServerOf[rt] =>
             Recording(other) \/ quiet[other] + MaxLag >= IdleTimeout[other]]_vars
  BY <1>1
<1> QED
  BY <1>2, AgeInvariance, ChannelInvariance, PTL DEF SafeSpec, TriggersOnlyIdleServers
================================================================================
