-------------------------- MODULE ConfigManagerProofs --------------------------
(***************************************************************************)
(* Proofs about ConfigManager, for any number of edits and whichever       *)
(* versions do not load; reloads may overlap, but for QuietIsCurrent.      *)
(***************************************************************************)
EXTENDS ConfigManager, TLAPS

\* Only what Load has accepted waits to be stored (manager.go:188-198).
StoresAreLoaded ==
    \A i \in Reloads : reload[i] = "store" => loaded[i] \notin Broken

\* Reloads start in order.
StartedInOrder == \A i \in Reloads : reload[i] # "none" => i <= started

ReloadTypes ==
    /\ file \in Versions /\ config \in Versions /\ applied \in Versions
    /\ started \in Nat
    /\ signal \in BOOLEAN
    /\ reader \in {"select", "read", "apply"}
    /\ reload \in [Reloads -> {"none"} \cup Busy \cup {"end"}]
    /\ loaded \in [Reloads -> Versions]

ReloadInv ==
    /\ ReloadTypes /\ StartedInOrder
    /\ StoresAreLoaded /\ OnlyLoadedConfigs /\ NoLostSignal

\* The program has started with version 0, which has loaded.
LEMMA InitReloadInv == Init => ReloadInv
<1> SUFFICES ASSUME Init PROVE ReloadInv
  OBVIOUS
<1> USE ConfigAssumption DEF Init, Versions, Reloads, Busy
<1>1. ReloadTypes
  <2>1. reload \in [Reloads -> {"none"} \cup Busy \cup {"end"}]
    OBVIOUS
  <2>2. loaded \in [Reloads -> Versions]
    OBVIOUS
  <2>3. file \in Versions /\ config \in Versions /\ applied \in Versions
    OBVIOUS
  <2>4. started \in Nat /\ signal \in BOOLEAN /\ reader \in {"select", "read", "apply"}
    OBVIOUS
  <2> QED
    BY <2>1, <2>2, <2>3, <2>4 DEF ReloadTypes
<1>2. StartedInOrder /\ StoresAreLoaded /\ OnlyLoadedConfigs /\ NoLostSignal
  BY DEF StartedInOrder, StoresAreLoaded, OnlyLoadedConfigs, NoLostSignal
<1> QED
  BY <1>1, <1>2 DEF ReloadInv

\* Every step of the watcher, the reloads and the reader keeps the invariant.
LEMMA NextReloadInv ==
    ASSUME ReloadInv, [Next]_vars
    PROVE  ReloadInv'
<1> USE ConfigAssumption
        DEF ReloadInv, ReloadTypes, StartedInOrder, StoresAreLoaded,
            OnlyLoadedConfigs, NoLostSignal, Versions, Reloads, Busy, reloadVars, readerVars
<1>1. CASE Edit
  BY <1>1 DEF Edit
<1>2. CASE WatchEvent
  BY <1>2 DEF WatchEvent
<1>3. CASE WatchReturn
  BY <1>3 DEF WatchReturn
<1>4. CASE TimerFires
  <2> USE <1>4 DEF TimerFires
  <2>1. reload' \in [Reloads -> {"none"} \cup Busy \cup {"end"}]
    OBVIOUS
  <2>2. ReloadTypes'
    BY <2>1
  <2>3. \A i \in Reloads : reload[i] # "none" => reload'[i] = reload[i]
    OBVIOUS
  <2>4. StartedInOrder' /\ StoresAreLoaded' /\ OnlyLoadedConfigs'
    OBVIOUS
  <2>5. NoLostSignal'
    BY <2>3
  <2> QED
    BY <2>2, <2>4, <2>5
<1>5. ASSUME NEW i \in Reloads, ReloadChecks(i) PROVE ReloadInv'
  BY <1>5 DEF ReloadChecks
<1>6. ASSUME NEW i \in Reloads, ReloadLoads(i) PROVE ReloadInv'
  BY <1>6 DEF ReloadLoads
<1>7. ASSUME NEW i \in Reloads, ReloadStores(i) PROVE ReloadInv'
  BY <1>7 DEF ReloadStores
<1>8. ASSUME NEW i \in Reloads, ReloadSignals(i) PROVE ReloadInv'
  BY <1>8 DEF ReloadSignals
<1>9. CASE ReaderReceives
  BY <1>9 DEF ReaderReceives
<1>10. CASE ReaderReads
  BY <1>10 DEF ReaderReads
<1>11. CASE ReaderApplied
  BY <1>11 DEF ReaderApplied
<1>12. CASE StopBegin
  BY <1>12 DEF StopBegin
<1>13. CASE StopReturn
  BY <1>13 DEF StopReturn
<1>14. CASE UNCHANGED vars
  BY <1>14 DEF vars
<1> QED
  BY <1>1, <1>2, <1>3, <1>4, <1>5, <1>6, <1>7, <1>8, <1>9, <1>10, <1>11,
     <1>12, <1>13, <1>14
     DEF Next, ReloadStep

\* ReloadInv is an invariant of manager.go and of the reader of its signal.
THEOREM ReloadInvariance == SafeSpec => []ReloadInv
BY InitReloadInv, NextReloadInv, PTL DEF SafeSpec

\* A reader that is behind always has a signal coming (lines 200-203).
THEOREM SignalsAreNotLost == SafeSpec => []NoLostSignal
BY ReloadInvariance, PTL DEF ReloadInv

\* A version that does not load is never served (lines 188-196).
THEOREM BrokenConfigsStayOut == SafeSpec => []OnlyLoadedConfigs
BY ReloadInvariance, PTL DEF ReloadInv

--------------------------------------------------------------------------------
(* The debounce *)

\* While nobody stops the manager, either the configuration is the file's, or a
\* reload that will read the file, or has read it, is on its way or due; and a reload
\* that is about to store an older version is followed by another one.  There is an
\* edit for each event, armed timer and reload.
CurrentInv ==
    /\ events \in Nat
    /\ started + events <= file
    /\ timer => started + events < file
    /\ stopping = "no" =>
         /\ \/ config = file \/ file \in Broken
            \/ events > 0 \/ timer
            \/ \E i \in Reloads : reload[i] \in {"check", "load"}
            \/ \E i \in Reloads : reload[i] = "store" /\ loaded[i] = file
         /\ \A i \in Reloads : reload[i] = "store" /\ loaded[i] # file => events > 0 \/ timer

\* It is kept when no reload starts before the one before it is over.
LEMMA NextCurrentInv ==
    ASSUME ~Overlap, ReloadInv, CurrentInv, [Next]_vars
    PROVE  CurrentInv'
<1> USE ConfigAssumption DEF ReloadInv, ReloadTypes, CurrentInv, Versions, reloadVars, readerVars
<1>1. CASE Edit
  BY <1>1 DEF Edit
<1>2. CASE WatchEvent
  BY <1>2 DEF WatchEvent
<1>3. CASE WatchReturn
  BY <1>3 DEF WatchReturn
<1>4. CASE TimerFires
  <2>1. /\ \A i \in Reloads : reload[i] \notin Busy
        /\ reload' = [reload EXCEPT ![started + 1] = "check"]
        /\ ~timer' /\ UNCHANGED <<file, events, loaded, config, stopping>>
    BY <1>4 DEF TimerFires
  <2>2. started + 1 \in Reloads
    BY <1>4 DEF TimerFires, Reloads
  <2>3. reload'[started + 1] = "check" BY <2>1, <2>2
  <2>4. \A i \in Reloads : reload'[i] # "store" BY <2>1 DEF Busy
  <2>5. started' = started + 1 /\ timer BY <1>4 DEF TimerFires
  <2> QED BY <2>1, <2>2, <2>3, <2>4, <2>5
<1>5. ASSUME NEW i \in Reloads, ReloadChecks(i) PROVE CurrentInv'
  BY <1>5 DEF ReloadChecks
<1>6. ASSUME NEW i \in Reloads, ReloadLoads(i) PROVE CurrentInv'
  <2>1. /\ loaded'[i] = file
        /\ reload'[i] = IF file \in Broken THEN "end" ELSE "store"
        /\ \A j \in Reloads \ {i} : reload'[j] = reload[j] /\ loaded'[j] = loaded[j]
        /\ UNCHANGED <<file, events, timer, started, config, stopping>>
    BY <1>6 DEF ReloadLoads
  <2>2. file \in Broken \/ (reload'[i] = "store" /\ loaded'[i] = file)
    BY <2>1
  <2>3. stopping = "no" => \A j \in Reloads :
          reload'[j] = "store" /\ loaded'[j] # file => events > 0 \/ timer
    BY <2>1
  <2>4. (started + events <= file)' /\ (timer => started + events < file)'
    BY <2>1
  <2> QED BY <2>1, <2>2, <2>3, <2>4
<1>7. ASSUME NEW i \in Reloads, ReloadStores(i) PROVE CurrentInv'
  <2>1. /\ reload[i] = "store" /\ reload'[i] = "signal" /\ config' = loaded[i]
        /\ \A j \in Reloads \ {i} : reload'[j] = reload[j]
        /\ UNCHANGED <<file, events, timer, started, loaded, stopping>>
    BY <1>7 DEF ReloadStores
  <2>2. stopping = "no" => config' = file \/ events > 0 \/ timer
    BY <2>1
  <2>3. stopping = "no" => \A j \in Reloads :
          reload'[j] = "store" /\ loaded[j] # file => events > 0 \/ timer
    BY <2>1
  <2>4. (started + events <= file)' /\ (timer => started + events < file)'
    BY <2>1
  <2> QED BY <2>1, <2>2, <2>3, <2>4
<1>8. ASSUME NEW i \in Reloads, ReloadSignals(i) PROVE CurrentInv'
  BY <1>8 DEF ReloadSignals
<1>9. CASE ReaderReceives \/ ReaderReads \/ ReaderApplied
  BY <1>9 DEF ReaderReceives, ReaderReads, ReaderApplied
<1>10. CASE StopBegin \/ StopReturn
  BY <1>10 DEF StopBegin, StopReturn
<1>11. CASE UNCHANGED vars
  BY <1>11 DEF vars
<1> QED
  BY <1>1, <1>2, <1>3, <1>4, <1>5, <1>6, <1>7, <1>8, <1>9, <1>10, <1>11
     DEF Next, ReloadStep

\* The debounce of watch() (manager.go:140-168) drops events, never the last edit:
\* with reloads that do not overlap, a quiet manager has the file's configuration.
THEOREM QuietIsCurrent == ~Overlap => (SafeSpec => []QuietMeansCurrent)
<1> SUFFICES ASSUME ~Overlap PROVE SafeSpec => []QuietMeansCurrent
  OBVIOUS
<1>1. Init => CurrentInv
  BY DEF Init, CurrentInv, Versions
<1>2. ReloadInv /\ CurrentInv /\ [Next]_vars => CurrentInv'
  BY NextCurrentInv
<1>3. CurrentInv => QuietMeansCurrent
  BY DEF CurrentInv, QuietMeansCurrent, Busy
<1> QED
  BY <1>1, <1>2, <1>3, ReloadInvariance, PTL DEF SafeSpec

--------------------------------------------------------------------------------
(* Stop *)

\* The timer ends with the goroutine that arms it, for which Stop waits.
StoppedInv ==
    /\ stopping = "returned" => ~watching
    /\ stopping \in {"no", "waiting", "returned"}
    /\ ~watching => ~timer /\ stopping # "no"

LEMMA NextStoppedInv == ASSUME StoppedInv, [Next]_vars PROVE StoppedInv'
BY DEF StoppedInv, Next, vars, reloadVars, readerVars, Edit, WatchEvent, WatchReturn,
       TimerFires, ReloadStep, ReloadChecks, ReloadLoads, ReloadStores, ReloadSignals,
       ReaderReceives, ReaderReads, ReaderApplied, StopBegin, StopReturn

\* After Stop no reload starts and none passes the check of done (manager.go:122-131,
\* 180-186), whether reloads overlap or not.
THEOREM StoppedManagerStartsNone == SafeSpec => NoReloadStartsAfterStop
<1>1. Init => StoppedInv
  BY DEF Init, StoppedInv
<1>2. ASSUME StoppedInv, ReloadInv, [Next]_vars, stopping = "returned"
      PROVE  /\ started' = started
             /\ \A i \in Reloads : reload[i] = "check" => reload'[i] # "load"
  <2>1. ASSUME NEW i \in Reloads, ReloadStep(i)
        PROVE  /\ started' = started
               /\ \A j \in Reloads : reload[j] = "check" => reload'[j] # "load"
    BY <1>2, <2>1 DEF ReloadInv, ReloadTypes, ReloadStep, ReloadChecks, ReloadLoads,
       ReloadStores, ReloadSignals
  <2>2. ~TimerFires
    BY <1>2 DEF StoppedInv, TimerFires
  <2>3. CASE UNCHANGED reloadVars
    BY <2>3 DEF reloadVars
  <2> QED
    BY <1>2, <2>1, <2>2, <2>3
       DEF Next, vars, Edit, WatchEvent, WatchReturn, ReaderReceives, ReaderReads,
           ReaderApplied, StopBegin, StopReturn
<1>3. StoppedInv /\ ReloadInv /\ [Next]_vars =>
        [stopping = "returned" =>
           /\ started' = started
           /\ \A i \in Reloads : reload[i] = "check" => reload'[i] # "load"]_vars
  BY <1>2
<1>4. StoppedInv /\ [Next]_vars => StoppedInv'
  BY NextStoppedInv
<1> QED
  BY <1>1, <1>3, <1>4, ReloadInvariance, PTL DEF SafeSpec, NoReloadStartsAfterStop
================================================================================
