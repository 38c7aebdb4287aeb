-------------------------- MODULE HealthManagerProofs --------------------------
(***************************************************************************)
(* Proofs about HealthManager, for any servers, intervals, timeouts and    *)
(* any number of cycles, overlapping ones included.                        *)
(***************************************************************************)
EXTENDS HealthManager, TLAPS

\* A worker is a cycle and a server.
LEMMA WorkerParts == \A w \in Workers : w[1] \in Cycles /\ w[2] \in Monitored
BY DEF Workers

\* The interval of a monitored server is positive.
LEMMA MonitoredIntervals == \A s \in Monitored : s \in Servers /\ Interval[s] \in Int
BY HealthAssumption DEF Monitored

\* Nothing has been started.
LEMMA InitHealthInv == Init => HealthInv
<1> SUFFICES ASSUME Init PROVE HealthInv
  OBVIOUS
<1> USE HealthAssumption, WorkerParts DEF Init, Cycles
<1>1. TypeOK
  BY DEF TypeOK, Outcomes
<1>2. CyclesRun
  BY DEF CyclesRun
<1>3. StopMeansQuiet /\ WaitedForOthers /\ StopGivesUpForCause
  BY DEF StopMeansQuiet, WaitedForOthers, StopGivesUpForCause
<1> QED
  BY <1>1, <1>2, <1>3 DEF HealthInv

\* Steps of one worker: they touch its own place, and only the last one leaves the
\* WaitGroup.
LEMMA WorkerHealthInv ==
    ASSUME HealthInv, NEW w \in Workers, Worker(w)
    PROVE  HealthInv'
<1> USE HealthAssumption, WorkerParts, MonitoredIntervals DEF HealthInv, Cycles
<1>1. work[w] \in {"spawned", "checking", "checked", "waiting"}
  BY DEF Worker, RunWorker, CheckReturns, UpdateStore, NextCheck, ExitWorker, At
<1>2. \E to \in {"checking", "checked", "waiting", "exited"} :
         /\ work' = [work EXCEPT ![w] = to]
         /\ wg' = IF to = "exited" THEN wg \ {w} ELSE wg
  BY DEF Worker, RunWorker, CheckReturns, UpdateStore, NextCheck, ExitWorker, At
<1>3. UNCHANGED <<answer, cycle, current, cancelled, stop, waited, calm>>
  BY DEF Worker, RunWorker, CheckReturns, UpdateStore, NextCheck, ExitWorker, stopVars
<1>4. TypeOK'
  <2>1. /\ store' \in [Monitored -> Outcomes \cup {"none"}]
        /\ outcome' \in [Workers -> Outcomes]
    <3>1. \A a : CheckHealth(a) \in Outcomes
      BY DEF CheckHealth, Outcomes
    <3>2. CASE CheckReturns(w)
      <4>1. \E o \in Outcomes : outcome' = [outcome EXCEPT ![w] = o]
        BY <3>1, <3>2 DEF CheckReturns
      <4>2. store' = store
        BY <3>2 DEF CheckReturns
      <4> QED
        BY <4>1, <4>2 DEF TypeOK
    <3>3. CASE UpdateStore(w)
      BY <3>3 DEF UpdateStore, TypeOK
    <3>4. CASE RunWorker(w) \/ NextCheck(w) \/ ExitWorker(w)
      BY <3>4 DEF RunWorker, NextCheck, ExitWorker, TypeOK
    <3> QED
      BY <3>2, <3>3, <3>4 DEF Worker
  <2>2. /\ deadline' \in [Workers -> 0..Timeout]
        /\ ticker' \in [Workers -> Int]
        /\ fired' \in [Workers -> BOOLEAN]
    <3>1. CASE RunWorker(w)
      <4>1. /\ deadline' = [deadline EXCEPT ![w] = Timeout]
            /\ ticker' = [ticker EXCEPT ![w] = Interval[w[2]]]
            /\ fired' = fired
        BY <3>1 DEF RunWorker, SendCheck
      <4>2. Interval[w[2]] \in Int /\ Timeout \in 0..Timeout
        OBVIOUS
      <4> QED
        BY <4>1, <4>2 DEF TypeOK
    <3>2. CASE NextCheck(w)
      <4>1. /\ deadline' = [deadline EXCEPT ![w] = Timeout]
            /\ ticker' = ticker
            /\ fired' = [fired EXCEPT ![w] = FALSE]
        BY <3>2 DEF NextCheck, SendCheck
      <4> QED
        BY <4>1 DEF TypeOK
    <3>3. CASE CheckReturns(w) \/ UpdateStore(w) \/ ExitWorker(w)
      BY <3>3 DEF CheckReturns, UpdateStore, ExitWorker, TypeOK
    <3> QED
      BY <3>1, <3>2, <3>3 DEF Worker
  <2>3. /\ work' \in [Workers -> {"none", "checking", "waiting", "exited"} \cup Urgent]
        /\ wg' \subseteq Workers
    BY <1>2 DEF TypeOK, Urgent
  <2> QED
    BY <2>1, <2>2, <2>3, <1>3 DEF TypeOK
<1>5. CyclesRun'
  BY <1>1, <1>2, <1>3 DEF CyclesRun, TypeOK
<1>6. StopMeansQuiet' /\ WaitedForOthers' /\ StopGivesUpForCause'
  BY <1>1, <1>2, <1>3 DEF StopMeansQuiet, WaitedForOthers, StopGivesUpForCause, TypeOK
<1> QED
  BY <1>4, <1>5, <1>6

\* Time passes only when the workers of every cancelled cycle have gone, so that
\* a Stop that has waited for a tick waits for those of the running cycle.
LEMMA TickHealthInv ==
    ASSUME HealthInv, Tick
    PROVE  HealthInv'
<1> USE HealthAssumption, WorkerParts DEF HealthInv, Cycles
<1>1. TypeOK'
  <2>1. deadline' \in [Workers -> 0..Timeout]
    BY DEF Tick, TypeOK, Due
  <2>2. /\ ticker' \in [Workers -> Int]
        /\ fired' \in [Workers -> BOOLEAN]
    BY MonitoredIntervals DEF Tick, TypeOK
  <2>3. /\ waited' \in [Cycles -> 0..StopTimeout]
        /\ calm' \in [Monitored -> Nat]
    BY DEF Tick, TypeOK
  <2> QED
    BY <2>1, <2>2, <2>3 DEF Tick, TypeOK
<1>2. CyclesRun' /\ StopMeansQuiet' /\ StopGivesUpForCause'
  BY DEF Tick, CyclesRun, StopMeansQuiet, StopGivesUpForCause
<1>3. \A w \in Workers : w[1] \in cancelled => work[w] = "exited"
  BY DEF Tick, Due, TypeOK, CyclesRun, Urgent
<1>4. \A c \in Cycles : c <= cycle /\ c # current => c \in cancelled
  BY DEF Tick, TypeOK, CyclesRun
<1>5. ASSUME NEW c \in Cycles, stop[c] = "waiting" PROVE cycle > c
  <2>1. PICK w \in Workers : w \in wg
    BY <1>5 DEF Tick, TypeOK
  <2>2. work[w] # "none" /\ work[w] # "exited"
    BY <2>1 DEF CyclesRun
  <2>3. w[1] <= cycle /\ w[1] \notin cancelled
    BY <2>2, <1>3 DEF CyclesRun, TypeOK
  <2>4. w[1] = current
    BY <2>3, <1>4
  <2>5. current # 0 /\ current = cycle /\ stop[current] = "none"
    BY <2>4 DEF CyclesRun, TypeOK
  <2>6. c <= cycle
    BY <1>5 DEF CyclesRun, TypeOK
  <2> QED
    BY <2>5, <2>6, <1>5 DEF TypeOK
<1>6. WaitedForOthers'
  <2> SUFFICES ASSUME NEW c \in Cycles, waited'[c] > 0
               PROVE  /\ cycle > c
                      /\ \A w \in Workers : w[1] = c => work[w] = "exited"
    BY DEF Tick, WaitedForOthers
  <2>1. CASE stop[c] = "waiting"
    BY <2>1, <1>3, <1>5 DEF CyclesRun
  <2>2. CASE stop[c] # "waiting"
    BY <2>2 DEF Tick, WaitedForOthers, TypeOK
  <2> QED
    BY <2>1, <2>2
<1> QED
  BY <1>1, <1>2, <1>6

\* Every step of the manager keeps the invariant.
LEMMA NextHealthInv ==
    ASSUME HealthInv, [Next]_vars
    PROVE  HealthInv'
<1> USE HealthAssumption, WorkerParts DEF HealthInv, Cycles
<1>1. CASE Start
  <2> USE <1>1 DEF Start, stopVars
  <2>1. TypeOK'
    BY DEF TypeOK, Urgent
  <2>2. CyclesRun'
    <3>1. cycle + 1 \in Cycles /\ stop[cycle + 1] = "none"
      BY DEF TypeOK, CyclesRun
    <3>2. current' # 0 => current' = cycle' /\ stop'[current'] = "none"
      BY <3>1
    <3>3. \A c \in Cycles :
            /\ c > cycle' <=> (stop'[c] = "none" /\ c # current')
            /\ c \in cancelled' <=> stop'[c] \in {"waiting", "nil", "timeout"}
      BY <3>1 DEF TypeOK, CyclesRun
    <3>4. \A w \in Workers :
            /\ work'[w] = "none" <=> w[1] > cycle'
            /\ w \in wg' <=> work'[w] \notin {"none", "exited"}
      BY DEF TypeOK, CyclesRun
    <3> QED
      BY <3>2, <3>3, <3>4 DEF CyclesRun
  <2>3. StopMeansQuiet' /\ WaitedForOthers' /\ StopGivesUpForCause'
    BY DEF TypeOK, CyclesRun, StopMeansQuiet, WaitedForOthers, StopGivesUpForCause
  <2> QED
    BY <2>1, <2>2, <2>3
<1>2. CASE StopBegin
  <2> USE <1>2 DEF StopBegin, workVars
  <2>1. TypeOK'
    BY DEF TypeOK
  <2>2. CyclesRun'
    <3>1. current \in Cycles /\ current = cycle /\ current' = 0
      BY DEF TypeOK, CyclesRun
    <3>2. \A c \in Cycles :
            /\ c > cycle <=> (stop'[c] = "none" /\ c # 0)
            /\ c \in cancelled <=> stop'[c] \in {"waiting", "nil", "timeout"}
      <4> TAKE c \in Cycles
      <4>1. CASE c = current
        <5>1. stop'[c] = "captured" /\ c # 0
          BY <3>1, <4>1 DEF TypeOK
        <5>2. stop[c] = "none" /\ ~(c > cycle)
          BY <3>1, <4>1 DEF CyclesRun
        <5>3. c \notin cancelled
          BY <5>2 DEF CyclesRun
        <5> QED
          BY <5>1, <5>2, <5>3
      <4>2. CASE c # current
        <5>1. stop'[c] = stop[c] /\ c # 0
          BY <4>2 DEF TypeOK
        <5> QED
          BY <5>1, <4>2 DEF CyclesRun
      <4> QED
        BY <4>1, <4>2
    <3> QED
      BY <3>1, <3>2 DEF CyclesRun
  <2>3. StopMeansQuiet' /\ WaitedForOthers' /\ StopGivesUpForCause'
    BY DEF TypeOK, StopMeansQuiet, WaitedForOthers, StopGivesUpForCause
  <2> QED
    BY <2>1, <2>2, <2>3
<1>3. ASSUME NEW c \in Cycles, StopCancel(c) PROVE HealthInv'
  <2> USE <1>3 DEF StopCancel, workVars
  <2>1. TypeOK'
    BY DEF TypeOK
  <2>2. CyclesRun'
    BY DEF TypeOK, CyclesRun
  <2>3. StopMeansQuiet' /\ WaitedForOthers' /\ StopGivesUpForCause'
    BY DEF TypeOK, StopMeansQuiet, WaitedForOthers, StopGivesUpForCause
  <2> QED
    BY <2>1, <2>2, <2>3
<1>4. ASSUME NEW c \in Cycles, StopReturn(c) PROVE HealthInv'
  <2> USE <1>4 DEF StopReturn, workVars
  <2>1. TypeOK'
    BY DEF TypeOK
  <2>2. CyclesRun'
    BY DEF TypeOK, CyclesRun
  <2>3. \A w \in Workers : w[1] <= c => work[w] = "exited"
    BY DEF TypeOK, CyclesRun
  <2>4. StopMeansQuiet'
    BY <2>3 DEF TypeOK, StopMeansQuiet
  <2>5. WaitedForOthers' /\ StopGivesUpForCause'
    BY DEF TypeOK, WaitedForOthers, StopGivesUpForCause
  <2> QED
    BY <2>1, <2>2, <2>4, <2>5
<1>5. ASSUME NEW c \in Cycles, StopGivesUp(c) PROVE HealthInv'
  <2> USE <1>5 DEF StopGivesUp, workVars
  <2>1. TypeOK'
    BY DEF TypeOK
  <2>2. CyclesRun'
    BY DEF TypeOK, CyclesRun
  <2>3. StopMeansQuiet' /\ WaitedForOthers'
    BY DEF TypeOK, StopMeansQuiet, WaitedForOthers
  <2>4. cycle > c /\ \A w \in Workers : w[1] = c => work[w] = "exited"
    BY DEF TypeOK, WaitedForOthers
  <2>5. StopGivesUpForCause'
    BY <2>4 DEF TypeOK, StopGivesUpForCause
  <2> QED
    BY <2>1, <2>2, <2>3, <2>5
<1>6. ASSUME NEW s \in Monitored, ServerChanges(s) PROVE HealthInv'
  BY <1>6 DEF ServerChanges, workVars, stopVars, TypeOK, CyclesRun, StopMeansQuiet,
              WaitedForOthers, StopGivesUpForCause, Answers
<1>7. CASE UNCHANGED vars
  BY <1>7 DEF vars, workVars, stopVars, TypeOK, CyclesRun, StopMeansQuiet,
              WaitedForOthers, StopGivesUpForCause
<1> QED
  BY <1>1, <1>2, <1>3, <1>4, <1>5, <1>6, <1>7, WorkerHealthInv, TickHealthInv
     DEF Next, Stopper

\* HealthInv is an invariant of Start, the workers and Stop.
THEOREM HealthInvariance == SafeSpec => []HealthInv
BY InitHealthInv, NextHealthInv, PTL DEF SafeSpec

\* Every variable keeps its type (manager.go, health_store.go).
THEOREM HealthTypes == SafeSpec => []TypeOK
BY HealthInvariance, PTL DEF HealthInv

\* After Stop has returned nil no worker writes the store (manager.go:155).
THEOREM StoppedManagerIsQuiet == SafeSpec => []StopMeansQuiet
BY HealthInvariance, PTL DEF HealthInv

\* Stop times out only over the workers of a later Start (manager.go:158).
THEOREM StopTimesOutForCause == SafeSpec => []StopGivesUpForCause
BY HealthInvariance, PTL DEF HealthInv

--------------------------------------------------------------------------------
(* The store converges *)

\* The running cycle is not cancelled, and has a worker for each monitored server.
LEMMA KeeperWorks ==
    ASSUME HealthInv, current # 0, NEW s \in Monitored
    PROVE  /\ Keeper(s) \in Workers /\ Keeper(s)[1] = current /\ Keeper(s)[2] = s
           /\ current \in Cycles /\ current \notin cancelled
           /\ \A w \in Workers : w[1] = current /\ w[2] = s => w = Keeper(s)
BY DEF HealthInv, TypeOK, CyclesRun, Keeper, Workers, Cycles

\* Nothing has been started.
LEMMA InitConvergeInv == Init => ConvergeInv
BY DEF Init, ConvergeInv, WorkersTick, CalmIsKept, StaleIsShort

\* When the clock of a server's history is reset, its entry may be stale for as
\* long as the worker's timers say.
LEMMA ResetKeepsShort ==
    ASSUME HealthInv', WorkersTick', current' # 0, NEW s \in Monitored, calm'[s] = 0
    PROVE  LET w == Keeper(s)' IN
           /\ work'[w] = "waiting" =>
                calm'[s] + (IF fired'[w] THEN 0 ELSE ticker'[w]) <= Interval[s]
           /\ work'[w] = "checking" => calm'[s] + deadline'[w] <= Settled(s)
           /\ work'[w] = "checked" => calm'[s] <= Settled(s)
<1> DEFINE w == Keeper(s)'
<1>1. w \in Workers /\ w[2] = s
  BY DEF HealthInv, TypeOK, Keeper, Workers, Cycles
<1>2. Interval[s] \in Nat \ {0} /\ Timeout \in Nat \ {0}
  BY HealthAssumption DEF Monitored
<1>3. deadline'[w] \in 0..Timeout
  BY <1>1 DEF HealthInv, TypeOK
<1>4. work'[w] = "waiting" => ticker'[w] \in 1..Interval[s]
  BY <1>1 DEF WorkersTick
<1> HIDE DEF w
<1> QED
  BY <1>2, <1>3, <1>4 DEF Settled, w

\* The steps of a worker.
LEMMA WorkerConvergeInv ==
    ASSUME HealthInv, HealthInv', ConvergeInv, NEW v \in Workers, Worker(v)
    PROVE  ConvergeInv'
<1> USE HealthAssumption, WorkerParts, MonitoredIntervals DEF ConvergeInv
<1>1. UNCHANGED <<answer, current, cancelled, calm>>
  BY DEF Worker, RunWorker, CheckReturns, UpdateStore, NextCheck, ExitWorker
<1>2. WorkersTick'
  BY DEF Worker, RunWorker, CheckReturns, UpdateStore, NextCheck, ExitWorker, At,
         WorkersTick, HealthInv, TypeOK, Monitored
<1>a. work[v] \notin {"none", "exited"}
  BY DEF Worker, RunWorker, CheckReturns, UpdateStore, NextCheck, ExitWorker, At
<1>3. ASSUME current # 0, NEW s \in Monitored, calm[s] > 0
      PROVE  v[1] = current /\ ~ExitWorker(v)
  <2>1. v[1] = current
    BY <1>a, <1>3 DEF CalmIsKept
  <2> QED
    BY <2>1, <1>3, KeeperWorks DEF ExitWorker
<1>4. CalmIsKept'
  <2> SUFFICES ASSUME current # 0, NEW s \in Monitored, calm[s] > 0
               PROVE  /\ \A w \in Workers : w[1] # current => work'[w] \in {"none", "exited"}
                      /\ work'[Keeper(s)] # "spawned"
                      /\ work'[Keeper(s)] = "checked" =>
                           outcome'[Keeper(s)] = CheckHealth(answer[s])
    BY <1>1 DEF CalmIsKept, Keeper
  <2>1. v[1] = current /\ (RunWorker(v) \/ CheckReturns(v) \/ UpdateStore(v) \/ NextCheck(v))
    BY <1>3 DEF Worker
  <2>2. \A w \in Workers : w # v => work'[w] = work[w] /\ outcome'[w] = outcome[w]
    BY <2>1 DEF RunWorker, CheckReturns, UpdateStore, NextCheck, At, HealthInv, TypeOK
  <2>3. /\ work'[v] # "spawned"
        /\ work'[v] = "checked" => outcome'[v] = CheckHealth(answer[v[2]])
    BY <2>1, KeeperWorks
       DEF RunWorker, CheckReturns, UpdateStore, NextCheck, At, HealthInv, TypeOK
  <2> QED
    BY <2>1, <2>2, <2>3, <1>3, KeeperWorks DEF CalmIsKept
<1>5. StaleIsShort'
  <2> SUFFICES ASSUME current # 0, NEW s \in Monitored, store'[s] # CheckHealth(answer[s])
               PROVE  LET w == Keeper(s) IN
                      /\ work'[w] = "waiting" =>
                           calm[s] + (IF fired'[w] THEN 0 ELSE ticker'[w]) <= Interval[s]
                      /\ work'[w] = "checking" => calm[s] + deadline'[w] <= Settled(s)
                      /\ work'[w] = "checked" => calm[s] <= Settled(s)
    BY <1>1 DEF StaleIsShort, Keeper
  <2> DEFINE k == Keeper(s)
  <2>1. k \in Workers /\ k[2] = s /\ calm[s] \in Nat
    BY KeeperWorks DEF HealthInv, TypeOK
  <2>2. Keeper(s)' = k
    BY <1>1 DEF Keeper
  <2>3. CASE calm[s] = 0
    BY <1>1, <1>2, <2>2, <2>3, ResetKeepsShort
  <2>4. CASE calm[s] > 0
    <3>1. v[1] = current /\ (RunWorker(v) \/ CheckReturns(v) \/ UpdateStore(v) \/ NextCheck(v))
      BY <1>3, <2>4 DEF Worker
    <3>2. CASE v # k
      <4>1. v[2] # s
        BY <1>3, <2>4, <3>2, KeeperWorks
      <4>2. /\ store'[s] = store[s] /\ work'[k] = work[k] /\ deadline'[k] = deadline[k]
            /\ fired'[k] = fired[k] /\ ticker'[k] = ticker[k]
        BY <3>1, <3>2, <4>1, <2>1
           DEF RunWorker, CheckReturns, UpdateStore, NextCheck, SendCheck, At, HealthInv,
               TypeOK
      <4> QED
        BY <4>2 DEF StaleIsShort
    <3>3. CASE v = k
      <4>1. Interval[s] \in Nat /\ Timeout \in Nat /\ deadline[k] \in 0..Timeout
        BY <2>1 DEF HealthInv, TypeOK, Monitored
      <4>2. CASE CheckReturns(k)
        <5>1. store'[s] = store[s] /\ work[k] = "checking" /\ work'[k] = "checked"
          BY <4>2, <2>1 DEF CheckReturns, At, HealthInv, TypeOK
        <5> QED
          BY <5>1, <4>1, <2>1 DEF StaleIsShort, Settled
      <4>3. CASE UpdateStore(k)
        <5>1. store'[s] = outcome[k] /\ work[k] = "checked"
          BY <4>3, <2>1 DEF UpdateStore, At, HealthInv, TypeOK
        <5> QED
          BY <5>1, <2>4 DEF CalmIsKept
      <4>4. CASE NextCheck(k)
        <5>1. /\ store'[s] = store[s] /\ work[k] = "waiting" /\ fired[k]
              /\ work'[k] = "checking" /\ deadline'[k] = Timeout
          BY <4>4, <2>1 DEF NextCheck, SendCheck, At, HealthInv, TypeOK
        <5> QED
          BY <5>1, <4>1, <2>1 DEF StaleIsShort, Settled
      <4>5. CASE RunWorker(k)
        BY <4>5, <2>4 DEF RunWorker, At, CalmIsKept
      <4> QED
        BY <3>1, <3>3, <4>2, <4>3, <4>4, <4>5
    <3> QED
      BY <3>2, <3>3
  <2> QED
    BY <2>1, <2>3, <2>4
<1> QED BY <1>2, <1>4, <1>5

\* Time passes only when every goroutine of a cancelled cycle has gone, and it
\* brings the keeper's ticker, or the end of its check, as much nearer as it
\* makes the entry older.
LEMMA TickConvergeInv ==
    ASSUME HealthInv, ConvergeInv, Tick
    PROVE  ConvergeInv'
<1> USE HealthAssumption, WorkerParts, MonitoredIntervals DEF ConvergeInv
<1>1. /\ UNCHANGED <<answer, store, cycle, current, cancelled, work, outcome>>
      /\ \A w \in Workers : ~Due(w)
  BY DEF Tick
<1>2. WorkersTick'
  BY DEF Tick, Ticking, WorkersTick, HealthInv, TypeOK, Monitored
<1>3. ASSUME current # 0
      PROVE  \A w \in Workers : w[1] # current => work[w] \in {"none", "exited"}
  BY <1>3, <1>1 DEF Tick, Due, Urgent, HealthInv, TypeOK, CyclesRun
<1>4. CalmIsKept'
  BY <1>1, <1>3, KeeperWorks DEF CalmIsKept, Due, Urgent, Keeper
<1>5. StaleIsShort'
  <2> SUFFICES ASSUME current # 0, NEW s \in Monitored, store[s] # CheckHealth(answer[s])
               PROVE  LET w == Keeper(s) IN
                      /\ work[w] = "waiting" =>
                           calm'[s] + (IF fired'[w] THEN 0 ELSE ticker'[w]) <= Interval[s]
                      /\ work[w] = "checking" => calm'[s] + deadline'[w] <= Settled(s)
                      /\ work[w] = "checked" => calm'[s] <= Settled(s)
    BY <1>1 DEF StaleIsShort, Keeper
  <2> DEFINE k == Keeper(s)
  <2>1. k \in Workers /\ k[2] = s /\ calm[s] \in Nat /\ work[k] # "checked"
    BY <1>1, KeeperWorks DEF HealthInv, TypeOK, Due, Urgent
  <2>2. calm'[s] \in Nat /\ calm'[s] <= calm[s] + 1
    BY <2>1 DEF Tick
  <2>3. CASE work[k] = "waiting"
    <3>1. ~fired[k] /\ ticker[k] \in 1..Interval[s] /\ calm[s] + ticker[k] <= Interval[s]
      BY <1>1, <2>1, <2>3 DEF Due, WorkersTick, StaleIsShort, HealthInv, TypeOK
    <3>2. IF ticker[k] = 1 THEN fired'[k] ELSE ~fired'[k] /\ ticker'[k] = ticker[k] - 1
      BY <2>1, <2>3, <3>1 DEF Tick, Ticking
    <3> QED
      BY <2>1, <2>2, <2>3, <3>1, <3>2
  <2>4. CASE work[k] = "checking"
    <3>1. deadline[k] \in Nat \ {0} /\ calm[s] + deadline[k] <= Settled(s)
      BY <1>1, <2>1, <2>4 DEF Due, StaleIsShort, HealthInv, TypeOK
    <3>2. deadline'[k] = deadline[k] - 1
      BY <2>1, <2>4 DEF Tick
    <3>3. Settled(s) \in Int
      BY DEF Settled
    <3> QED
      BY <2>1, <2>2, <2>4, <3>1, <3>2, <3>3
  <2> QED
    BY <2>1, <2>3, <2>4
<1> QED BY <1>2, <1>4, <1>5

\* Start and the cancellation in Stop reset the history of every server.
LEMMA ResetConvergeInv ==
    ASSUME HealthInv, HealthInv', ConvergeInv, Start \/ \E c \in Cycles : StopCancel(c)
    PROVE  ConvergeInv'
<1> USE HealthAssumption, WorkerParts DEF ConvergeInv
<1>1. \A s \in Monitored : calm'[s] = 0
  BY DEF Start, StopCancel
<1>2. WorkersTick'
  BY DEF Start, StopCancel, workVars, WorkersTick, HealthInv, TypeOK
<1>3. CalmIsKept'
  BY <1>1 DEF CalmIsKept
<1>4. StaleIsShort'
  BY <1>1, <1>2, ResetKeepsShort DEF StaleIsShort
<1> QED BY <1>2, <1>3, <1>4

\* The other steps: a server changes, which resets its own history, and Stop, which
\* takes the cycle away before it does anything else.
LEMMA OtherConvergeInv ==
    ASSUME HealthInv, HealthInv', ConvergeInv,
           \/ \E s \in Monitored : ServerChanges(s)
           \/ StopBegin
           \/ \E c \in Cycles : StopReturn(c) \/ StopGivesUp(c)
           \/ UNCHANGED vars
    PROVE  ConvergeInv'
<1> USE HealthAssumption, WorkerParts DEF ConvergeInv
<1>1. ASSUME NEW s \in Monitored, ServerChanges(s) PROVE ConvergeInv'
  <2>1. UNCHANGED <<store, current, cancelled, work, outcome, deadline, ticker, fired>>
    BY <1>1 DEF ServerChanges, workVars
  <2>2. WorkersTick'
    BY <2>1 DEF WorkersTick
  <2>3. /\ calm'[s] = 0
        /\ \A t \in Monitored : t # s => calm'[t] = calm[t] /\ answer'[t] = answer[t]
    BY <1>1 DEF ServerChanges, HealthInv, TypeOK
  <2>4. CalmIsKept'
    BY <2>1, <2>3 DEF CalmIsKept, Keeper
  <2>5. StaleIsShort'
    <3> SUFFICES ASSUME current' # 0, NEW t \in Monitored, store'[t] # CheckHealth(answer'[t])
                 PROVE  LET w == Keeper(t)' IN
                        /\ work'[w] = "waiting" =>
                             calm'[t] + (IF fired'[w] THEN 0 ELSE ticker'[w]) <= Interval[t]
                        /\ work'[w] = "checking" => calm'[t] + deadline'[w] <= Settled(t)
                        /\ work'[w] = "checked" => calm'[t] <= Settled(t)
      BY DEF StaleIsShort
    <3>1. CASE t = s
      BY <3>1, <2>2, <2>3, ResetKeepsShort
    <3>2. CASE t # s
      BY <3>2, <2>1, <2>3 DEF StaleIsShort, Keeper
    <3> QED
      BY <3>1, <3>2
  <2> QED BY <2>2, <2>4, <2>5
<1>2. CASE StopBegin
  BY <1>2 DEF StopBegin, workVars, WorkersTick, CalmIsKept, StaleIsShort
<1>3. CASE (\E c \in Cycles : StopReturn(c) \/ StopGivesUp(c)) \/ UNCHANGED vars
  <2>1. UNCHANGED <<answer, store, current, cancelled, work, outcome, deadline, ticker, fired,
                    calm>>
    BY <1>3 DEF StopReturn, StopGivesUp, vars, workVars
  <2> QED
    BY <2>1 DEF WorkersTick, CalmIsKept, StaleIsShort, Keeper
<1> QED BY <1>1, <1>2, <1>3

\* ConvergeInv holds, whatever the cycles and the servers do.
THEOREM ConvergeInvariance == SafeSpec => []ConvergeInv
<1>1. HealthInv /\ HealthInv' /\ ConvergeInv /\ [Next]_vars => ConvergeInv'
  BY WorkerConvergeInv, TickConvergeInv, ResetConvergeInv, OtherConvergeInv
     DEF Next, Stopper
<1> QED
  BY <1>1, InitConvergeInv, HealthInvariance, PTL DEF SafeSpec

\* Whoever reads the store (wake_coordinator.go:184, main.go:59) sees what a server
\* answers once nothing has changed for an interval and a timeout.
THEOREM StoreFollowsServers == SafeSpec => []StoreConverges
<1>1. ASSUME HealthInv, ConvergeInv, current # 0, NEW s \in Monitored, calm[s] > Settled(s)
      PROVE  store[s] = CheckHealth(answer[s])
  <2> DEFINE k == Keeper(s)
  <2> SUFFICES ASSUME store[s] # CheckHealth(answer[s]) PROVE FALSE
    OBVIOUS
  <2>1. /\ k \in Workers /\ k[1] = current /\ k[2] = s
        /\ current \in Cycles /\ current \notin cancelled
    BY <1>1, KeeperWorks
  <2>2. /\ calm[s] \in Nat /\ Interval[s] \in Nat \ {0} /\ Timeout \in Nat \ {0}
        /\ deadline[k] \in Nat /\ ticker[k] \in Int
    BY <1>1, <2>1, HealthAssumption DEF HealthInv, TypeOK, Monitored
  <2>3. calm[s] > 0
    BY <1>1, <2>2 DEF Settled
  <2>4. work[k] \in {"checking", "checked", "waiting"}
    BY <1>1, <2>1, <2>3
       DEF HealthInv, TypeOK, CyclesRun, ConvergeInv, CalmIsKept, WorkersTick, Cycles, Urgent
  <2>5. work[k] = "waiting" => ticker[k] >= 1
    BY <1>1, <2>1, <2>2 DEF ConvergeInv, WorkersTick
  <2> QED
    BY <1>1, <2>1, <2>2, <2>4, <2>5 DEF ConvergeInv, StaleIsShort, Settled
<1>2. HealthInv /\ ConvergeInv => StoreConverges
  BY <1>1 DEF StoreConverges
<1> QED
  BY <1>2, HealthInvariance, ConvergeInvariance, PTL
================================================================================
