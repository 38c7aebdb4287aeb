---------------------------- MODULE LifecycleProofs ----------------------------
(* Proofs about Lifecycle, for any set of callers and any number of cycles. *)
EXTENDS Lifecycle, TLAPS

\* What makes both invariants inductive: two Stops never have the same cycle in
\* hand, a caller in Stop has a cycle that is not the running one, and a cycle
\* is cancelled only by the Stop that captured it (idle_tracker.go:226-232).
CyclesInHand ==
    /\ running => cycle \in Cycles
    /\ \A c \in Callers : pc[c] # "idle" =>
         stops[c] \in 1..cycle /\ (running => stops[c] # cycle)
    /\ \A k \in Cycles : goroutine[k] # "none" <=> k <= cycle
    /\ \A k \in cancelled : running => k # cycle
    /\ \A k \in Cycles : goroutine[k] = "done" => k \in cancelled \cup ctxDone
    /\ \A c \in Callers : stops[c] # 0 => (running => stops[c] # cycle)

LifecycleInv == TypeOK /\ CyclesInHand /\ NoOrphan /\ StopIsOfItsCycle

\* No cycle has begun.
LEMMA InitLifecycleInv == Init => LifecycleInv
<1> SUFFICES ASSUME Init PROVE LifecycleInv
  OBVIOUS
<1> USE LifecycleAssumption DEF Init, Live, Cycles
<1>1. TypeOK
  <2>1. goroutine \in [Cycles -> {"none"} \cup Live \cup {"done"}]
    OBVIOUS
  <2>2. cycle \in 0..MaxCycles /\ stops \in [Callers -> 0..cycle]
    OBVIOUS
  <2>3. running \in BOOLEAN /\ pc \in [Callers -> {"idle", "cancel", "wait"}]
    OBVIOUS
  <2>4. cancelled \subseteq 1..cycle /\ ctxDone \subseteq 1..cycle
    OBVIOUS
  <2> QED
    BY <2>1, <2>2, <2>3, <2>4 DEF TypeOK
<1>2. CyclesInHand
  BY DEF CyclesInHand
<1>3. NoOrphan /\ StopIsOfItsCycle
  BY DEF NoOrphan, StopIsOfItsCycle
<1> QED
  BY <1>1, <1>2, <1>3 DEF LifecycleInv

\* Every step of Start, Stop and the loop keeps the invariant.
LEMMA NextLifecycleInv ==
    ASSUME LifecycleInv, [Next]_vars
    PROVE  LifecycleInv'
<1> USE LifecycleAssumption DEF LifecycleInv, TypeOK, CyclesInHand, Live, Cycles
<1>1. ASSUME NEW c \in Callers, Start(c) PROVE LifecycleInv'
  <2> USE <1>1 DEF Start
  <2>1. TypeOK'
    <3>1. cycle' \in 0..MaxCycles /\ stops' \in [Callers -> 0..cycle']
      OBVIOUS
    <3>2. goroutine' \in [Cycles -> {"none"} \cup Live \cup {"done"}]
      OBVIOUS
    <3>3. cancelled' \subseteq 1..cycle' /\ ctxDone' \subseteq 1..cycle'
      OBVIOUS
    <3> QED
      BY <3>1, <3>2, <3>3
  <2>2. CyclesInHand'
    BY DEF StopIsOfItsCycle
  <2>3. NoOrphan'
    BY DEF NoOrphan
  <2>4. StopIsOfItsCycle'
    BY DEF StopIsOfItsCycle
  <2> QED
    BY <2>1, <2>2, <2>3, <2>4
<1>2. ASSUME NEW c \in Callers, StopBegin(c) PROVE LifecycleInv'
  <2> USE <1>2 DEF StopBegin
  <2>1. TypeOK'
    <3>1. stops' \in [Callers -> 0..cycle]
      OBVIOUS
    <3>2. pc' \in [Callers -> {"idle", "cancel", "wait"}]
      OBVIOUS
    <3> QED
      BY <3>1, <3>2
  <2>2. CyclesInHand'
    BY DEF StopIsOfItsCycle
  <2>3. NoOrphan'
    BY DEF NoOrphan
  <2>4. StopIsOfItsCycle'
    BY DEF StopIsOfItsCycle
  <2> QED
    BY <2>1, <2>2, <2>3, <2>4
<1>3. ASSUME NEW c \in Callers, StopCancel(c) PROVE LifecycleInv'
  <2> USE <1>3 DEF StopCancel
  <2>1. stops[c] \in 1..cycle /\ (running => stops[c] # cycle)
    OBVIOUS
  <2>2. TypeOK'
    BY <2>1
  <2>3. CyclesInHand'
    BY <2>1
  <2>4. NoOrphan'
    BY DEF NoOrphan
  <2>5. StopIsOfItsCycle'
    BY <2>1 DEF StopIsOfItsCycle
  <2> QED
    BY <2>2, <2>3, <2>4, <2>5
<1>4. ASSUME NEW c \in Callers, StopReturn(c) PROVE LifecycleInv'
  BY <1>4 DEF StopReturn, NoOrphan, StopIsOfItsCycle
<1>5. ASSUME NEW k \in Cycles, Work(k) PROVE LifecycleInv'
  BY <1>5 DEF Work, NoOrphan, StopIsOfItsCycle
<1>6. ASSUME NEW k \in Cycles, WorkDone(k) PROVE LifecycleInv'
  BY <1>6 DEF WorkDone, NoOrphan, StopIsOfItsCycle
<1>7. ASSUME NEW k \in Cycles, Exit(k) PROVE LifecycleInv'
  BY <1>7 DEF Exit, NoOrphan, StopIsOfItsCycle
<1>8. ASSUME NEW k \in Cycles, CancelContext(k) PROVE LifecycleInv'
  BY <1>8 DEF CancelContext, NoOrphan, StopIsOfItsCycle
<1>9. CASE UNCHANGED vars
  BY <1>9 DEF vars, NoOrphan, StopIsOfItsCycle
<1> QED
  BY <1>1, <1>2, <1>3, <1>4, <1>5, <1>6, <1>7, <1>8, <1>9 DEF Next

\* LifecycleInv is an invariant of Start, Stop and the loops.
THEOREM LifecycleInvariance == SafeSpec => []LifecycleInv
BY InitLifecycleInv, NextLifecycleInv, PTL DEF SafeSpec

\* A goroutine that lives is the running loop, or some Stop is ending it.
THEOREM NoGoroutineIsOrphaned == SafeSpec => []NoOrphan
BY LifecycleInvariance, PTL DEF LifecycleInv

\* Stop waits for the goroutine of its own cycle (idle_tracker.go:64-65).
THEOREM StopWaitsForItsCycle == SafeSpec => []StopIsOfItsCycle
BY LifecycleInvariance, PTL DEF LifecycleInv
================================================================================
