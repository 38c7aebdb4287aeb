--------------------------- MODULE RouteManagerProofs ---------------------------
(***************************************************************************)
(* Proofs about RouteManager, for any configurations whose routes have     *)
(* distinct ports, any number of edits and of listeners.                   *)
(***************************************************************************)
EXTENDS RouteManager, FiniteSetTheorems, TLAPS

\* The part of RouteInv that is not about types.
BookInv ==
    /\ NothingBeforeStart
    /\ PortsAreDistinct /\ LiveIsListed /\ ListedIsMapped
    /\ StoppedIsShut /\ LiveIsMapped /\ ToStopIsListed /\ CurrentIsMapped
    /\ StoppedKeysAreDead /\ StartsAreFree

\* Two listeners with different ports have different keys (reload.go:20-22).
LEMMA KeysHavePorts ==
    ASSUME NEW r \in Routes, NEW s \in Routes, PortOf[r] # PortOf[s]
    PROVE  KeyOf[r] # KeyOf[s]
BY RouteAssumption

\* What TypeOK says of the listeners that have been made.
LEMMA MadeTypes ==
    ASSUME TypeOK
    PROVE  /\ made \in Nat /\ Made \subseteq Listeners
           /\ \A l \in Made : route[l] \in Routes /\ Key(l) \in Keys
           /\ routes \subseteq Made /\ config \subseteq Routes
BY RouteAssumption DEF TypeOK, Made, Listeners, Key, Keys

\* The goroutines of the listeners and Stop never make a listener live, so that
\* they keep the bookkeeping (lines 294-341, 486-537).
LEMMA ServersOnlyShut ==
    ASSUME BookInv, UNCHANGED <<listVars, watcherVars>>, mgr' = "new" => mgr = "new",
           \A l \in Made : Live(l)' => Live(l),
           \A l \in Made : state'[l] = "stopped" => server'[l] = "shut"
    PROVE  BookInv'
<1> USE DEF listVars, watcherVars, Made, Key
<1>1. NothingBeforeStart' /\ PortsAreDistinct' /\ LiveIsListed' /\ ListedIsMapped'
  BY DEF BookInv, NothingBeforeStart, PortsAreDistinct, LiveIsListed, ListedIsMapped
<1>2. StoppedIsShut' /\ LiveIsMapped' /\ ToStopIsListed' /\ StoppedKeysAreDead'
  BY DEF BookInv, StoppedIsShut, LiveIsMapped, ToStopIsListed, StoppedKeysAreDead
<1>3. CurrentIsMapped'
  BY DEF BookInv, CurrentIsMapped
<1>4. StartsAreFree'
  BY DEF BookInv, StartsAreFree
<1> QED
  BY <1>1, <1>2, <1>3, <1>4 DEF BookInv

LEMMA InitRouteInv == Init => RouteInv
<1> SUFFICES ASSUME Init PROVE RouteInv
  OBVIOUS
<1> USE RouteAssumption DEF Init, Made, Listeners
<1>1. TypeOK
  <2>1. /\ route \in [Listeners -> Routes \cup {NoRoute}]
        /\ \A l \in Listeners : route[l] = NoRoute
        /\ routeMap \in [Keys -> 0..made]
    OBVIOUS
  <2>2. /\ \A l \in Listeners : state[l] = "initial" /\ server[l] = "new"
        /\ \A l \in Listeners : runner[l] = "none" /\ starter[l] = "none"
    OBVIOUS
  <2>3. /\ state \in [Listeners -> {"initial", "starting", "running", "stopping",
                                   "stopped", "failed"}]
        /\ server \in [Listeners -> {"new", "listening", "draining", "shut", "failed"}]
        /\ runner \in [Listeners -> {"none", "spawned", "begun", "serving", "exited"}]
        /\ starter \in [Listeners -> {"none", "asleep", "decided", "done"}]
    OBVIOUS
  <2>4. Made = {} /\ made \in 0..MaxListeners
    OBVIOUS
  <2>5. /\ \A l \in Listeners : route[l] # NoRoute <=> l \in Made
        /\ \A l \in Listeners : runner[l] # "none" <=> l \in Made
        /\ \A l \in Listeners \ Made :
             state[l] = "initial" /\ server[l] = "new" /\ starter[l] = "none"
    BY <2>1, <2>2, <2>4
  <2>6. edits \in 0..MaxEdits /\ current \in 0..made /\ target \in 0..made
    OBVIOUS
  <2>7. /\ toStop \subseteq Keys /\ stopped \subseteq Keys /\ toStart \subseteq Routes
        /\ mgr = "new" /\ watcher = "none" /\ stopper = "none"
    OBVIOUS
  <2>8. config \in Configs /\ signal \in BOOLEAN
    <3>1. 0 \in 0..MaxEdits
      BY RouteAssumption
    <3>2. Versions[0] \subseteq Configs
      BY <3>1, RouteAssumption
    <3> QED
      BY <3>2
  <2>9. routes = {} /\ snapshot = {} /\ started = {} /\ closed = {} /\ broken = {}
    OBVIOUS
  <2> QED
    BY <2>1, <2>3, <2>4, <2>5, <2>6, <2>7, <2>8, <2>9 DEF TypeOK
<1>2. BookInv
  BY DEF BookInv, NothingBeforeStart, PortsAreDistinct, LiveIsListed, ListedIsMapped,
         StoppedIsShut, LiveIsMapped, ToStopIsListed, CurrentIsMapped,
         StoppedKeysAreDead, StartsAreFree
<1> QED
  BY <1>1, <1>2 DEF RouteInv, BookInv

\* Start makes one listener per route of the configuration (lines 228-263).
LEMMA StartRouteInv ==
    ASSUME RouteInv, Start
    PROVE  RouteInv'
<1> DEFINE n == Cardinality(config)
<1>1. config \in Configs /\ config \subseteq Routes
  BY RouteAssumption DEF RouteInv, TypeOK
<1>2. n \in Nat /\ n <= MaxListeners
  BY <1>1, RouteAssumption, FS_CardinalityType
<1>3. PICK f \in [1..n -> config] :
        /\ \A i, j \in 1..n : f[i] = f[j] => i = j
        /\ made' = n
        /\ route' = [l \in Listeners |-> IF l <= n THEN f[l] ELSE NoRoute]
        /\ runner' = [l \in Listeners |-> IF l <= n THEN "spawned" ELSE "none"]
        /\ routes' = 1..n
        /\ routeMap' = [k \in Keys |->
             IF \E i \in 1..n : KeyOf[f[i]] = k
             THEN CHOOSE i \in 1..n : KeyOf[f[i]] = k ELSE 0]
  BY DEF Start
<1>4. Made' = 1..n /\ Made' \subseteq Listeners
  BY <1>2, <1>3, RouteAssumption DEF Made, Listeners
<1>5. made = 0 /\ watcher = "none"
  BY DEF Start, RouteInv, NothingBeforeStart
<1>6. \A l \in Made' : route'[l] = f[l] /\ f[l] \in config /\ f[l] \in Routes
  BY <1>1, <1>3, <1>4
<1>7. \A i, j \in 1..n : KeyOf[f[i]] = KeyOf[f[j]] => i = j
  BY <1>1, <1>3, RouteAssumption
<1>8. \A i \in 1..n : KeyOf[f[i]] \in Keys /\ routeMap'[KeyOf[f[i]]] = i
  <2> SUFFICES ASSUME NEW i \in 1..n
               PROVE  KeyOf[f[i]] \in Keys /\ routeMap'[KeyOf[f[i]]] = i
    OBVIOUS
  <2>1. f[i] \in Routes
    BY <1>1, <1>3
  <2>2. KeyOf[f[i]] \in Keys
    BY <2>1 DEF Keys
  <2>3. (CHOOSE j \in 1..n : KeyOf[f[j]] = KeyOf[f[i]]) = i
    BY <1>7
  <2> QED
    BY <1>3, <2>2, <2>3
<1>9. routeMap' \in [Keys -> 0..n]
  <2>1. \A k \in Keys : routeMap'[k] \in 0..n
    <3> SUFFICES ASSUME NEW k \in Keys PROVE routeMap'[k] \in 0..n
      OBVIOUS
    <3>1. CASE \E i \in 1..n : KeyOf[f[i]] = k
      BY <3>1, <1>8, <1>2
    <3>2. CASE ~\E i \in 1..n : KeyOf[f[i]] = k
      BY <3>2, <1>3, <1>2
    <3> QED
      BY <3>1, <3>2
  <2> QED
    BY <2>1, <1>3
<1>10. TypeOK'
  <2>1. \A l \in Listeners : l \in Made' <=> l <= n
    BY <1>2, <1>4 DEF Listeners
  <2>2. /\ route' \in [Listeners -> Routes \cup {NoRoute}]
        /\ \A l \in Listeners : route'[l] # NoRoute <=> l \in Made'
    BY <1>3, <1>4, <1>6, <2>1, RouteAssumption
  <2>3. /\ runner' \in [Listeners -> {"none", "spawned", "begun", "serving", "exited"}]
        /\ \A l \in Listeners : runner'[l] # "none" <=> l \in Made'
    BY <1>3, <1>4, <2>1
  <2>4. \A l \in Listeners : state[l] = "initial" /\ server[l] = "new" /\ starter[l] = "none"
    BY <1>5 DEF RouteInv, TypeOK, Made
  <2>5. started \subseteq Made' /\ closed \subseteq Made' /\ broken \subseteq Made'
    BY <1>5 DEF RouteInv, TypeOK, Made
  <2>6. snapshot \subseteq Made' /\ target \in 0..made' /\ current \in 0..made'
    BY <1>2, <1>3, <1>5 DEF RouteInv, TypeOK, Made
  <2>7. stopper \in {"shutdown", "drain"} => target \in Made'
    BY <1>5 DEF RouteInv, TypeOK, Made
  <2>8. made' \in 0..MaxListeners /\ routes' \subseteq Made' /\ routeMap' \in [Keys -> 0..made']
    BY <1>2, <1>3, <1>4, <1>9, RouteAssumption
  <2> QED
    BY <2>2, <2>3, <2>4, <2>5, <2>6, <2>7, <2>8 DEF RouteInv, TypeOK, Start, configVars
<1>11. NothingBeforeStart' /\ LiveIsListed' /\ ListedIsMapped' /\ LiveIsMapped'
  <2>1. \A l \in Made' : l \in routes' /\ Key(l)' = KeyOf[f[l]] /\ routeMap'[Key(l)'] = l
    BY <1>3, <1>4, <1>6, <1>8 DEF Key
  <2>2. NothingBeforeStart'
    BY DEF Start, NothingBeforeStart
  <2>3. LiveIsListed' /\ LiveIsMapped'
    BY <2>1 DEF LiveIsListed, LiveIsMapped
  <2>4. \A l \in routes' : l <= routeMap'[Key(l)'] /\ KeyOf[route'[routeMap'[Key(l)']]] = Key(l)'
    <3> SUFFICES ASSUME NEW l \in routes'
                 PROVE  l <= routeMap'[Key(l)'] /\ KeyOf[route'[routeMap'[Key(l)']]] = Key(l)'
      OBVIOUS
    <3>1. l \in Made' /\ l <= l
      BY <1>2, <1>3, <1>4
    <3>2. routeMap'[Key(l)'] = l
      BY <2>1, <3>1
    <3>3. KeyOf[route'[l]] = Key(l)'
      BY DEF Key
    <3> QED
      BY <3>1, <3>2, <3>3
  <2>5. ListedIsMapped'
    BY <2>4 DEF ListedIsMapped, Key
  <2> QED
    BY <2>2, <2>3, <2>5
<1>12. PortsAreDistinct'
  BY <1>1, <1>3, <1>4, <1>6, RouteAssumption DEF PortsAreDistinct
<1>13. StoppedIsShut'
  <2>1. \A l \in Listeners : state[l] = "initial"
    BY <1>5, RouteAssumption DEF RouteInv, TypeOK, Made
  <2> QED
    BY <2>1, <1>4 DEF StoppedIsShut, Start
<1>14. ToStopIsListed' /\ CurrentIsMapped' /\ StoppedKeysAreDead' /\ StartsAreFree'
  BY DEF Start, ToStopIsListed, CurrentIsMapped, StoppedKeysAreDead, StartsAreFree
<1> QED
  BY <1>10, <1>11, <1>12, <1>13, <1>14 DEF RouteInv

\* The goroutines of a listener keep the types (lines 486-537).
LEMMA RunListenerTypeOK ==
    ASSUME RouteInv, NEW l \in Listeners, RunListener(l)
    PROVE  TypeOK'
<1>1. TypeOK
  BY DEF RouteInv
<1> USE <1>1, RouteAssumption
        DEF TypeOK, Made, Listeners, configVars, listenerVars, listVars, watcherVars, stopVars
<1>2. CASE RunBegin(l)
  BY <1>2 DEF RunBegin
<1>3. CASE RunListen(l)
  BY <1>3 DEF RunListen
<1>4. CASE RunFail(l)
  BY <1>4 DEF RunFail
<1>5. CASE RunReturn(l)
  BY <1>5 DEF RunReturn
<1>6. CASE StarterRead(l)
  BY <1>6 DEF StarterRead
<1>7. CASE StarterSet(l)
  BY <1>7 DEF StarterSet
<1> QED
  BY <1>2, <1>3, <1>4, <1>5, <1>6, <1>7 DEF RunListener

\* The reload watcher keeps the types (lines 539-775).
LEMMA WatcherTypeOK ==
    ASSUME RouteInv, Watcher
    PROVE  TypeOK'
<1>1. TypeOK /\ CurrentIsMapped
  BY DEF RouteInv
<1>2. routes \subseteq Made /\ config \subseteq Routes /\ OldKeys \subseteq Keys
  BY <1>1, MadeTypes DEF OldKeys
<1> USE RouteAssumption
        DEF Made, Listeners, configVars, listenerVars, listVars, watcherVars, stopVars
<1>3. CASE WatcherExit
  BY <1>1, <1>3 DEF WatcherExit, TypeOK
<1>4. CASE ReceiveSignal
  BY <1>1, <1>4 DEF ReceiveSignal, TypeOK
<1>5. CASE DetectChanges
  <2>1. toStop' \subseteq Keys /\ toStart' \subseteq Routes /\ stopped' \subseteq Keys
    BY <1>2, <1>5 DEF DetectChanges, Removed, Added, Modified, Keys
  <2> QED
    BY <1>1, <1>5, <2>1 DEF DetectChanges, TypeOK
<1>6. ASSUME NEW k \in Keys, StopRoute(k) PROVE TypeOK'
  <2>1. routeMap[k] \in 0..made /\ \A l \in Listeners \ Made : l # routeMap[k]
    BY <1>1 DEF TypeOK
  <2>2. /\ state' \in [Listeners -> {"initial", "starting", "running", "stopping",
                                    "stopped", "failed"}]
        /\ \A l \in Listeners \ Made : state'[l] = state[l]
    BY <1>1, <1>6, <2>1 DEF StopRoute, TypeOK
  <2> QED
    BY <1>1, <1>6, <2>1, <2>2 DEF StopRoute, TypeOK
<1>7. CASE StopRouteShutdown
  BY <1>1, <1>7 DEF StopRouteShutdown, ShutServer, TypeOK, CurrentIsMapped
<1>8. CASE StopRouteReturn
  <2>1. current \in Made /\ Key(current) \in Keys
    BY <1>1, <1>8, MadeTypes DEF StopRouteReturn, CurrentIsMapped
  <2> QED
    BY <1>1, <1>8, <2>1 DEF StopRouteReturn, TypeOK
<1>9. CASE StopRouteFail
  BY <1>1, <1>9 DEF StopRouteFail, TypeOK, CurrentIsMapped
<1>10. CASE Cleanup
  <2>1. routeMap \in [Keys -> 0..made] /\ 0 \in 0..made
    BY <1>1 DEF TypeOK
  <2>2. routeMap' \in [Keys -> 0..made]
    BY <1>10, <2>1 DEF Cleanup
  <2>3. routes' \subseteq Made
    BY <1>2, <1>10 DEF Cleanup
  <2> QED
    BY <1>1, <1>10, <2>2, <2>3 DEF Cleanup, TypeOK
<1>11. ASSUME NEW r \in Routes, StartRoute(r) PROVE TypeOK'
  <2>1. made' = made + 1 /\ made + 1 \in Listeners /\ made \in Nat
    BY <1>1, <1>11 DEF StartRoute, TypeOK
  <2>2. Made' = Made \cup {made + 1} /\ made + 1 \notin Made
    BY <2>1
  <2>3. /\ route' \in [Listeners -> Routes \cup {NoRoute}]
        /\ \A l \in Listeners : route'[l] # NoRoute <=> l \in Made'
    BY <1>1, <1>11, <2>1, <2>2 DEF StartRoute, TypeOK
  <2>4. /\ runner' \in [Listeners -> {"none", "spawned", "begun", "serving", "exited"}]
        /\ \A l \in Listeners : runner'[l] # "none" <=> l \in Made'
    BY <1>1, <1>11, <2>1, <2>2 DEF StartRoute, TypeOK
  <2>5. routes' \subseteq Made' /\ routeMap' \in [Keys -> 0..made']
    <3>1. routes' \subseteq routes \cup {made + 1}
      BY <1>11 DEF StartRoute
    <3>2. routeMap \in [Keys -> 0..made'] /\ made + 1 \in 0..made'
      BY <1>1, <2>1 DEF TypeOK
    <3>3. routeMap' = [routeMap EXCEPT ![KeyOf[r]] = made + 1]
      BY <1>11 DEF StartRoute
    <3> QED
      BY <1>2, <2>2, <3>1, <3>2, <3>3
  <2>6. /\ started' \subseteq Made' /\ closed' \subseteq Made' /\ broken' \subseteq Made'
        /\ snapshot' \subseteq Made' /\ target' \in 0..made' /\ current' \in 0..made'
        /\ stopper' \in {"shutdown", "drain"} => target' \in Made'
    BY <1>1, <1>11, <2>1, <2>2 DEF StartRoute, TypeOK
  <2>7. \A l \in Listeners \ Made' :
           state'[l] = "initial" /\ server'[l] = "new" /\ starter'[l] = "none"
    BY <1>1, <1>11, <2>2 DEF StartRoute, TypeOK
  <2>8. toStart' \subseteq Routes /\ made' \in 0..MaxListeners
    BY <1>1, <1>11, <2>1 DEF StartRoute, TypeOK
  <2> QED
    BY <1>1, <1>11, <2>3, <2>4, <2>5, <2>6, <2>7, <2>8 DEF StartRoute, TypeOK
<1>12. CASE StartRouteReturn
  BY <1>1, <1>12 DEF StartRouteReturn, TypeOK
<1>13. CASE ReloadEnd
  BY <1>1, <1>13 DEF ReloadEnd, TypeOK
<1> QED
  BY <1>3, <1>4, <1>5, <1>6, <1>7, <1>8, <1>9, <1>10, <1>11, <1>12, <1>13 DEF Watcher

\* Edits and Stop keep the types (lines 266-341).
LEMMA StopTypeOK ==
    ASSUME RouteInv, (\E c \in Configs : Edit(c)) \/ StopBegin \/ Stopper
    PROVE  TypeOK'
<1>1. TypeOK
  BY DEF RouteInv
<1> USE <1>1, RouteAssumption
        DEF TypeOK, Made, Listeners, configVars, listenerVars, listVars, watcherVars, stopVars
<1>2. ASSUME NEW c \in Configs, Edit(c) PROVE TypeOK'
  BY <1>2 DEF Edit
<1>3. CASE StopBegin
  BY <1>3 DEF StopBegin
<1>4. CASE StopNext
  <2>1. PICK l \in snapshot : /\ target' = l
                              /\ snapshot' = snapshot \ {l}
                              /\ state' = [state EXCEPT ![l] = "stopping"]
    BY <1>4 DEF StopNext
  <2>2. l \in Made
    OBVIOUS
  <2> QED
    BY <1>4, <2>1, <2>2 DEF StopNext
<1>5. CASE StopShutdown
  <2>1. target \in Made
    BY <1>5 DEF StopShutdown
  <2>2. /\ server' \in [Listeners -> {"new", "listening", "draining", "shut", "failed"}]
        /\ \A l \in Listeners \ Made : server'[l] = server[l]
    BY <1>5, <2>1 DEF StopShutdown, ShutServer
  <2> QED
    BY <1>5, <2>1, <2>2 DEF StopShutdown
<1>6. CASE StopDrained
  <2>1. target \in Made
    BY <1>6 DEF StopDrained
  <2>2. /\ server' \in [Listeners -> {"new", "listening", "draining", "shut", "failed"}]
        /\ state' \in [Listeners -> {"initial", "starting", "running", "stopping",
                                    "stopped", "failed"}]
        /\ \A l \in Listeners \ Made : server'[l] = server[l] /\ state'[l] = state[l]
    BY <1>6, <2>1 DEF StopDrained
  <2> QED
    BY <1>6, <2>1, <2>2 DEF StopDrained
<1>7. CASE StopJoinWatcher
  BY <1>7 DEF StopJoinWatcher
<1>8. CASE StopReturn
  BY <1>8 DEF StopReturn
<1> QED
  BY <1>2, <1>3, <1>4, <1>5, <1>6, <1>7, <1>8 DEF Stopper

\* Stop and the goroutines of the listeners keep the bookkeeping.
LEMMA OthersBookInv ==
    ASSUME RouteInv,
           \/ \E c \in Configs : Edit(c)
           \/ StopBegin \/ Stopper
           \/ \E l \in Listeners : RunListener(l)
           \/ UNCHANGED vars
    PROVE  BookInv'
<1>1. TypeOK /\ BookInv /\ StoppedIsShut
  BY DEF RouteInv, BookInv
<1>2. Made \subseteq Listeners
  BY <1>1, MadeTypes
<1>3. UNCHANGED <<listVars, watcherVars>> /\ (mgr' = "new" => mgr = "new")
  BY DEF Edit, StopBegin, Stopper, StopNext, StopShutdown, StopDrained, StopJoinWatcher,
         StopReturn, RunListener, RunBegin, RunListen, RunFail, RunReturn, StarterRead,
         StarterSet, listVars, watcherVars, stopVars, vars
<1>4. /\ \A l \in Made : Live(l)' => Live(l)
      /\ \A l \in Made : state'[l] = "stopped" => server'[l] = "shut"
  <2>1. state \in [Listeners -> {"initial", "starting", "running", "stopping",
                                "stopped", "failed"}]
        /\ server \in [Listeners -> {"new", "listening", "draining", "shut", "failed"}]
    BY <1>1 DEF TypeOK
  <2> USE <1>1, <1>2, <2>1 DEF Live, StoppedIsShut
  <2>2. CASE UNCHANGED <<state, server>>
    BY <2>2
  <2>3. ASSUME NEW l \in Listeners, RunListener(l)
        PROVE  \A j \in Made : (Live(j)' => Live(j))
                              /\ (state'[j] = "stopped" => server'[j] = "shut")
    <3>1. CASE RunBegin(l)
      BY <3>1 DEF RunBegin
    <3>2. CASE RunListen(l)
      BY <3>2 DEF RunListen
    <3>3. CASE RunFail(l)
      BY <3>3 DEF RunFail
    <3>4. CASE RunReturn(l) \/ StarterRead(l)
      BY <3>4 DEF RunReturn, StarterRead
    <3>5. CASE StarterSet(l)
      BY <3>5 DEF StarterSet
    <3> QED
      BY <2>3, <3>1, <3>2, <3>3, <3>4, <3>5 DEF RunListener
  <2>4. CASE StopNext
    BY <2>4 DEF StopNext
  <2>5. CASE StopShutdown
    BY <2>5 DEF StopShutdown, ShutServer
  <2>6. CASE StopDrained
    BY <2>6 DEF StopDrained
  <2>7. CASE (\E c \in Configs : Edit(c)) \/ StopBegin \/ StopJoinWatcher \/ StopReturn \/ UNCHANGED vars
    BY <2>7, <2>2 DEF Edit, StopBegin, StopJoinWatcher, StopReturn, listenerVars, vars
  <2> QED
    BY <2>3, <2>4, <2>5, <2>6, <2>7 DEF Stopper
<1> QED
  BY <1>1, <1>3, <1>4, ServersOnlyShut

\* detectChanges finds every listener that is in the way (reload.go:32-70).
LEMMA DetectChangesBookInv ==
    ASSUME RouteInv, DetectChanges
    PROVE  BookInv'
<1> USE DEF RouteInv, DetectChanges, Made, Key, Live, listVars, listenerVars
<1>1. NothingBeforeStart' /\ PortsAreDistinct' /\ LiveIsListed' /\ ListedIsMapped'
      /\ StoppedIsShut' /\ LiveIsMapped'
  BY DEF stopVars, NothingBeforeStart, PortsAreDistinct, LiveIsListed, ListedIsMapped,
         StoppedIsShut, LiveIsMapped
<1>2. toStop' \subseteq OldKeys
  BY DEF Removed, Modified
<1>3. ToStopIsListed' /\ CurrentIsMapped' /\ StoppedKeysAreDead'
  BY <1>2 DEF OldKeys, ToStopIsListed, CurrentIsMapped, StoppedKeysAreDead
<1>4. config \in Configs /\ config \subseteq Routes /\ toStart' \subseteq config
  BY RouteAssumption DEF TypeOK, Added, Modified
<1>5. \A r, s \in toStart' : PortOf[r] = PortOf[s] => r = s
  BY <1>4, RouteAssumption
<1>6. ASSUME NEW r \in toStart', NEW l \in Made, Live(l), PortOf[route[l]] = PortOf[r]
      PROVE  Key(l) \in toStop'
  <2>1. l \in routes /\ Key(l) \in OldKeys
    BY <1>6 DEF LiveIsListed, OldKeys
  <2>2. CASE Key(l) \in Removed
    BY <2>2
  <2>3. CASE Key(l) \notin Removed
    <3>1. PICK s \in config : KeyOf[s] = KeyOf[route[l]]
      BY <2>1, <2>3 DEF Removed
    <3>2. route[l] \in Routes /\ s \in Routes
      BY <1>4, <1>6, MadeTypes
    <3>3. s = r
      BY <1>4, <1>6, <3>1, <3>2, RouteAssumption
    <3>4. r \in Modified
      BY <2>1, <3>1, <3>3 DEF Added
    <3> QED
      BY <3>1, <3>3, <3>4
  <2> QED
    BY <2>2, <2>3
<1>7. StartsAreFree'
  BY <1>5, <1>6 DEF StartsAreFree
<1> QED
  BY <1>1, <1>3, <1>7 DEF BookInv

\* stopRoute finds the live listener of its key (lines 539-555).
LEMMA StopRouteBookInv ==
    ASSUME RouteInv, NEW k \in Keys, StopRoute(k)
    PROVE  BookInv'
<1>1. /\ made \in Nat /\ Made \subseteq Listeners /\ routes \subseteq Made
      /\ routeMap[k] \in 0..made
  BY MadeTypes DEF RouteInv, TypeOK
<1>2. PICK j \in routes : Key(j) = k
  BY DEF RouteInv, StopRoute, ToStopIsListed
<1>3. routeMap[k] \in Made /\ Key(routeMap[k]) = k
  BY <1>1, <1>2 DEF RouteInv, ListedIsMapped, Made
<1> USE DEF RouteInv, StopRoute, Made, Key, Live, listVars
<1>4. NothingBeforeStart' /\ PortsAreDistinct' /\ LiveIsListed' /\ ListedIsMapped'
      /\ LiveIsMapped'
  BY DEF stopVars, NothingBeforeStart, PortsAreDistinct, LiveIsListed, ListedIsMapped, LiveIsMapped
<1>5. StoppedIsShut'
  BY <1>1 DEF StoppedIsShut, TypeOK
<1>6. ToStopIsListed' /\ CurrentIsMapped' /\ StoppedKeysAreDead'
  BY <1>3 DEF ToStopIsListed, CurrentIsMapped, StoppedKeysAreDead
<1>7. StartsAreFree'
  BY DEF StartsAreFree, LiveIsMapped
<1> QED
  BY <1>4, <1>5, <1>6, <1>7 DEF BookInv

\* Shutdown lets go of the port at once (line 560).
LEMMA StopRouteShutdownBookInv ==
    ASSUME RouteInv, StopRouteShutdown
    PROVE  BookInv'
<1>1. Made \subseteq Listeners
  BY MadeTypes DEF RouteInv
<1>2. /\ current \in Made /\ current' = current
      /\ server'[current] \notin {"new", "listening"}
      /\ \A l \in Made : l # current => server'[l] = server[l]
  BY <1>1 DEF RouteInv, TypeOK, StopRouteShutdown, ShutServer, CurrentIsMapped
<1>3. \A l \in Made : Live(l)' => Live(l) /\ l # current
  BY <1>2 DEF Live
<1>4. \A l \in Made : server[l] = "shut" => server'[l] = "shut"
  BY <1>1 DEF RouteInv, TypeOK, StopRouteShutdown, ShutServer
<1> USE DEF RouteInv, StopRouteShutdown, Made, Key, listVars
<1>5. NothingBeforeStart' /\ PortsAreDistinct' /\ LiveIsListed' /\ ListedIsMapped'
      /\ LiveIsMapped'
  BY <1>3 DEF stopVars, NothingBeforeStart, PortsAreDistinct, LiveIsListed, ListedIsMapped, LiveIsMapped
<1>6. StoppedIsShut'
  BY <1>4 DEF StoppedIsShut
<1>7. ToStopIsListed' /\ CurrentIsMapped'
  BY <1>2 DEF ToStopIsListed, CurrentIsMapped, Live
<1>8. StoppedKeysAreDead' /\ StartsAreFree'
  BY <1>3 DEF StoppedKeysAreDead, StartsAreFree
<1> QED
  BY <1>5, <1>6, <1>7, <1>8 DEF BookInv

\* The end of stopRoute: when it has succeeded no listener of the key is live,
\* and when it has failed the key stays (lines 560-586).
LEMMA StopRouteEndBookInv ==
    ASSUME RouteInv, StopRouteReturn \/ StopRouteFail
    PROVE  BookInv'
<1>1. Made \subseteq Listeners
  BY MadeTypes DEF RouteInv
<1>2. current \in Made /\ ~Live(current) /\ routeMap[Key(current)] = current
  BY DEF RouteInv, StopRouteReturn, StopRouteFail, CurrentIsMapped
<1>3. \A l \in Made : Live(l)' => Live(l) /\ l # current
  BY <1>1, <1>2 DEF RouteInv, TypeOK, StopRouteReturn, StopRouteFail, Live
<1>4. \A l \in Made : state'[l] = "stopped" => server'[l] = "shut"
  BY <1>1, <1>2 DEF RouteInv, TypeOK, StopRouteReturn, StopRouteFail, StoppedIsShut
<1>5. stopped' \subseteq stopped \cup {Key(current)}
  BY DEF StopRouteReturn, StopRouteFail
<1> USE DEF RouteInv, StopRouteReturn, StopRouteFail, Made, Key, listVars
<1>6. NothingBeforeStart' /\ PortsAreDistinct' /\ LiveIsListed' /\ ListedIsMapped'
      /\ LiveIsMapped'
  BY <1>3 DEF stopVars, NothingBeforeStart, PortsAreDistinct, LiveIsListed, ListedIsMapped, LiveIsMapped
<1>7. StoppedIsShut'
  BY <1>4 DEF StoppedIsShut
<1>8. ToStopIsListed' /\ CurrentIsMapped'
  BY DEF ToStopIsListed, CurrentIsMapped
<1>9. StoppedKeysAreDead'
  BY <1>2, <1>3, <1>5 DEF StoppedKeysAreDead, LiveIsMapped
<1>10. StartsAreFree'
  BY <1>3 DEF StartsAreFree
<1> QED
  BY <1>6, <1>7, <1>8, <1>9, <1>10 DEF BookInv

\* cleanupStoppedRoutes drops dead listeners only (lines 642-660).
LEMMA CleanupBookInv ==
    ASSUME RouteInv, Cleanup
    PROVE  BookInv'
<1>1. \A l \in Made : Key(l) \in Keys /\ (Live(l) => Key(l) \notin stopped)
  BY MadeTypes DEF RouteInv, Cleanup, StoppedKeysAreDead
<1>2. routes \subseteq Made
  BY MadeTypes DEF RouteInv
<1> USE DEF RouteInv, Cleanup, Made, Key, Live, listenerVars
<1>3. NothingBeforeStart' /\ PortsAreDistinct' /\ StoppedIsShut'
  BY DEF stopVars, NothingBeforeStart, PortsAreDistinct, StoppedIsShut
<1>4. LiveIsListed' /\ LiveIsMapped'
  BY <1>1 DEF LiveIsListed, LiveIsMapped
<1>5. ListedIsMapped'
  BY <1>1, <1>2 DEF ListedIsMapped
<1>6. ToStopIsListed' /\ CurrentIsMapped' /\ StoppedKeysAreDead'
  BY DEF ToStopIsListed, CurrentIsMapped, StoppedKeysAreDead
<1>7. StartsAreFree'
  BY DEF StartsAreFree
<1> QED
  BY <1>3, <1>4, <1>5, <1>6, <1>7 DEF BookInv

\* startRoute finds its port free of smaug's own listeners (lines 591-613).
LEMMA StartRouteBookInv ==
    ASSUME RouteInv, NEW r \in Routes, StartRoute(r)
    PROVE  BookInv'
<1>1. /\ made \in Nat /\ Made \subseteq Listeners /\ made + 1 \in Listeners
      /\ \A l \in Made : route[l] \in Routes /\ Key(l) \in Keys
      /\ routes \subseteq Made /\ toStart \subseteq Routes /\ KeyOf[r] \in Keys
  <2>1. TypeOK /\ made < MaxListeners
    BY DEF RouteInv, StartRoute
  <2>2. made \in Nat /\ made + 1 \in Listeners
    BY <2>1, MadeTypes, RouteAssumption DEF Listeners
  <2>3. toStart \subseteq Routes /\ KeyOf[r] \in Keys
    BY <2>1 DEF TypeOK, Keys
  <2> QED
    BY <2>1, <2>2, <2>3, MadeTypes
<1>2. Made' = Made \cup {made + 1} /\ made + 1 \notin Made
  BY <1>1 DEF StartRoute, Made
<1>3. /\ \A l \in Made : route'[l] = route[l]
      /\ route'[made + 1] = r
  BY <1>1, <1>2 DEF RouteInv, TypeOK, StartRoute
<1>4. \A l \in Made : Live(l)' = Live(l) /\ Key(l)' = Key(l)
  BY <1>3 DEF StartRoute, Live, Key
<1>5. \A l \in Made : Live(l) => PortOf[route[l]] # PortOf[r] /\ Key(l) # KeyOf[r]
  BY <1>1, KeysHavePorts DEF RouteInv, StartRoute, StartsAreFree, Key
<1>6. /\ \A k \in Keys : k # KeyOf[r] => routeMap'[k] = routeMap[k]
      /\ routeMap'[KeyOf[r]] = made + 1
  BY <1>1 DEF RouteInv, TypeOK, StartRoute
<1>7. /\ routes' \subseteq routes \cup {made + 1} /\ made + 1 \in routes'
      /\ \A l \in routes : Live(l) => l \in routes'
  BY <1>1 DEF RouteInv, StartRoute, StoppedIsShut, Live
<1>8. NothingBeforeStart'
  BY DEF RouteInv, StartRoute, NothingBeforeStart, stopVars
<1>9. PortsAreDistinct'
  BY <1>2, <1>3, <1>4, <1>5 DEF RouteInv, PortsAreDistinct
<1>10. LiveIsListed'
  BY <1>2, <1>4, <1>7 DEF RouteInv, LiveIsListed
<1>11. LiveIsMapped'
  BY <1>1, <1>2, <1>3, <1>4, <1>5, <1>6 DEF RouteInv, LiveIsMapped, Key
<1>12. ListedIsMapped'
  <2> SUFFICES ASSUME NEW l \in routes'
               PROVE  l <= routeMap'[Key(l)'] /\ KeyOf[route'[routeMap'[Key(l)']]] = Key(l)'
    BY DEF ListedIsMapped, Key
  <2>1. CASE l = made + 1
    BY <2>1, <1>1, <1>3, <1>6 DEF Key
  <2>2. CASE l # made + 1 /\ Key(l) = KeyOf[r]
    <3>1. l \in Made
      BY <2>2, <1>1, <1>7
    <3>3. l <= made + 1
      <4>1. l \in 1..made /\ made \in Nat
        BY <3>1, <1>1 DEF Made
      <4> QED
        BY <4>1
    <3>2. Key(l)' = KeyOf[r] /\ routeMap'[KeyOf[r]] = made + 1
      BY <2>2, <3>1, <1>4, <1>6
    <3> QED
      BY <3>3, <3>2, <1>3
  <2>3. CASE l # made + 1 /\ Key(l) # KeyOf[r]
    <3>1. l \in routes /\ l \in Made /\ Key(l)' = Key(l) /\ Key(l) \in Keys
      BY <2>3, <1>1, <1>4, <1>7
    <3>2. routeMap'[Key(l)] = routeMap[Key(l)] /\ l <= routeMap[Key(l)]
      BY <2>3, <3>1, <1>6 DEF RouteInv, ListedIsMapped
    <3>3. routeMap[Key(l)] \in Made
      BY <3>1, <3>2, <1>1 DEF RouteInv, TypeOK, Made
    <3>4. KeyOf[route[routeMap[Key(l)]]] = Key(l)
      BY <3>1 DEF RouteInv, ListedIsMapped, Key
    <3> QED
      BY <3>1, <3>2, <3>3, <3>4, <1>3
  <2> QED
    BY <2>1, <2>2, <2>3
<1>13. StoppedIsShut'
  BY <1>1, <1>2 DEF RouteInv, TypeOK, StartRoute, StoppedIsShut
<1>14. ToStopIsListed' /\ CurrentIsMapped' /\ StoppedKeysAreDead'
  BY DEF StartRoute, ToStopIsListed, CurrentIsMapped, StoppedKeysAreDead
<1>15. StartsAreFree'
  BY <1>1, <1>2, <1>3, <1>4 DEF RouteInv, StartRoute, StartsAreFree
<1> QED
  BY <1>8, <1>9, <1>10, <1>11, <1>12, <1>13, <1>14, <1>15 DEF BookInv

\* The other steps of the watcher only move it on (lines 615-640, 715-729).
LEMMA WatcherMovesBookInv ==
    ASSUME RouteInv, WatcherExit \/ ReceiveSignal \/ StartRouteReturn \/ ReloadEnd
    PROVE  BookInv'
<1> USE DEF RouteInv, WatcherExit, ReceiveSignal, StartRouteReturn, ReloadEnd, Made, Key,
            Live, listVars, listenerVars, stopVars
<1>1. NothingBeforeStart' /\ PortsAreDistinct' /\ LiveIsListed' /\ ListedIsMapped'
  BY DEF NothingBeforeStart, PortsAreDistinct, LiveIsListed, ListedIsMapped
<1>2. StoppedIsShut' /\ LiveIsMapped' /\ ToStopIsListed' /\ CurrentIsMapped'
      /\ StoppedKeysAreDead'
  BY DEF StoppedIsShut, LiveIsMapped, ToStopIsListed, CurrentIsMapped, StoppedKeysAreDead
<1>3. StartsAreFree'
  BY DEF StartsAreFree
<1> QED
  BY <1>1, <1>2, <1>3 DEF BookInv

LEMMA NextRouteInv ==
    ASSUME RouteInv, [Next]_vars
    PROVE  RouteInv'
<1>1. CASE Start
  BY <1>1, StartRouteInv
<1>2. CASE Watcher
  <2>1. TypeOK'
    BY <1>2, WatcherTypeOK
  <2>2. BookInv'
    BY <1>2, DetectChangesBookInv, StopRouteBookInv, StopRouteShutdownBookInv,
       StopRouteEndBookInv, CleanupBookInv, StartRouteBookInv, WatcherMovesBookInv
       DEF Watcher
  <2> QED
    BY <2>1, <2>2 DEF RouteInv, BookInv
<1>3. CASE (\E c \in Configs : Edit(c)) \/ StopBegin \/ Stopper
  <2>1. TypeOK' /\ BookInv'
    BY <1>3, StopTypeOK, OthersBookInv
  <2> QED
    BY <2>1 DEF RouteInv, BookInv
<1>4. ASSUME NEW l \in Listeners, RunListener(l) PROVE RouteInv'
  <2>1. TypeOK' /\ BookInv'
    BY <1>4, RunListenerTypeOK, OthersBookInv
  <2> QED
    BY <2>1 DEF RouteInv, BookInv
<1>5. CASE UNCHANGED vars
  <2>1. BookInv'
    BY <1>5, OthersBookInv
  <2>2. TypeOK'
    BY <1>5 DEF RouteInv, TypeOK, vars, configVars, listenerVars, listVars, watcherVars,
                stopVars, Made
  <2> QED
    BY <2>1, <2>2 DEF RouteInv, BookInv
<1> QED
  BY <1>1, <1>2, <1>3, <1>4, <1>5 DEF Next

\* The bookkeeping of route_manager.go, whatever is edited, fails or is stopped.
THEOREM RouteInvariance == SafeSpec => []RouteInv
BY InitRouteInv, NextRouteInv, PTL DEF SafeSpec

\* The states of the listeners and the places of the goroutines are as declared.
THEOREM RouteTypeCorrect == SafeSpec => []TypeOK
BY RouteInvariance, PTL DEF RouteInv

\* No two listeners of smaug compete for a port (lines 662-711).
THEOREM ListenersNeverCompete == SafeSpec => []PortsAreDistinct
BY RouteInvariance, PTL DEF RouteInv

\* No listener that is up is lost from the list (lines 591-660).
THEOREM NoListenerIsLost == SafeSpec => []LiveIsListed
BY RouteInvariance, PTL DEF RouteInv

\* stopRoute always finds the listener of its key (lines 539-547).
THEOREM StopFindsItsListener == SafeSpec => []ListedIsMapped
BY RouteInvariance, PTL DEF RouteInv

--------------------------------------------------------------------------------
(* The listeners follow the configuration, on top of the bookkeeping above *)

LEMMA InitFollowInv == Init => FollowInv
<1> SUFFICES ASSUME Init PROVE FollowInv
  OBVIOUS
<1> QED
  BY DEF Init, FollowInv, StopperWaits, MappedIsListed, MappedServes, StoppedIsUnderway,
         RoutesFollowConfig

\* A step that leaves the lists and the watcher alone, and of which a listener
\* comes out live or broken if it has been before.
LEMMA ServersMayBreak ==
    ASSUME FollowInv, TypeOK, UNCHANGED <<listVars, watcherVars>>,
           mgr' = "running" => mgr = "running", StopperWaits',
           signal' \/ UNCHANGED <<signal, config>>,
           mgr' = "running" => \A l \in Made :
               /\ Live(l)' => Live(l)
               /\ Live(l) \/ l \in broken => Live(l)' \/ l \in broken'
               /\ state'[l] = "stopped" => state[l] = "stopped"
    PROVE  FollowInv'
<1>1. routes \subseteq Made /\ \A k \in Keys : routeMap[k] # 0 => routeMap[k] \in Made
  BY MadeTypes DEF TypeOK, Made
<1> USE <1>1 DEF FollowInv, listVars, watcherVars, Made, Key, Underway, Stopping
<1>2. MappedIsListed'
  BY DEF MappedIsListed
<1>3. MappedServes'
  <2> SUFFICES ASSUME mgr' = "running", NEW k \in Keys, routeMap'[k] # 0
               PROVE  Live(routeMap[k])' \/ routeMap[k] \in broken' \/ k \in Underway
    BY DEF MappedServes, Live
  <2> QED
    BY DEF MappedServes, Live
<1>4. StoppedIsUnderway'
  BY DEF StoppedIsUnderway
<1>5. RoutesFollowConfig'
  <2> SUFFICES ASSUME mgr' = "running", ~signal', watcher \notin {"none", "diff", "exited"}
               PROVE  RoutesFollowConfig'
    BY DEF RoutesFollowConfig
  <2>1. mgr = "running" /\ ~signal /\ config' = config
    OBVIOUS
  <2> QED
    BY <2>1 DEF RoutesFollowConfig
<1> QED
  BY <1>2, <1>3, <1>4, <1>5

\* Edits, Stop and the goroutines of the listeners.
LEMMA OthersFollowInv ==
    ASSUME FollowInv, TypeOK,
           \/ \E c \in Configs : Edit(c)
           \/ StopBegin \/ Stopper
           \/ \E l \in Listeners : RunListener(l)
           \/ UNCHANGED vars
    PROVE  FollowInv'
<1> USE DEF configVars, listenerVars, listVars, watcherVars, stopVars, vars
<1>1. UNCHANGED <<listVars, watcherVars>> /\ (mgr' = "running" => mgr = "running")
      /\ (signal' \/ UNCHANGED <<signal, config>>)
  BY DEF Edit, StopBegin, Stopper, StopNext, StopShutdown, StopDrained, StopJoinWatcher,
         StopReturn, RunListener, RunBegin, RunListen, RunFail, RunReturn, StarterRead,
         StarterSet
<1>2. StopperWaits'
  BY DEF FollowInv, StopperWaits, Edit, StopBegin, Stopper, StopNext, StopShutdown,
         StopDrained, StopJoinWatcher, StopReturn, RunListener, RunBegin, RunListen,
         RunFail, RunReturn, StarterRead, StarterSet
<1>3. ASSUME mgr' = "running", NEW j \in Made
      PROVE  /\ Live(j)' => Live(j)
             /\ Live(j) \/ j \in broken => Live(j)' \/ j \in broken'
             /\ state'[j] = "stopped" => state[j] = "stopped"
  <2> USE DEF Live
  <2>1. CASE (\E c \in Configs : Edit(c)) \/ UNCHANGED vars
    BY <2>1 DEF Edit
  <2>2. CASE StopBegin \/ Stopper
    BY <2>2, <1>3 DEF FollowInv, StopperWaits, StopBegin, Stopper, StopNext, StopShutdown,
                 StopDrained, StopJoinWatcher, StopReturn
  <2>3. ASSUME NEW l \in Listeners, RunListener(l)
        PROVE  /\ Live(j)' => Live(j)
               /\ Live(j) \/ j \in broken => Live(j)' \/ j \in broken'
               /\ state'[j] = "stopped" => state[j] = "stopped"
    <3> USE DEF TypeOK
    <3>1. CASE RunBegin(l)
      BY <3>1 DEF RunBegin
    <3>2. CASE RunListen(l)
      BY <3>2 DEF RunListen
    <3>3. CASE RunFail(l)
      BY <3>3 DEF RunFail
    <3>4. CASE RunReturn(l) \/ StarterRead(l)
      BY <3>4 DEF RunReturn, StarterRead
    <3>5. CASE StarterSet(l)
      BY <3>5 DEF StarterSet
    <3> QED
      BY <2>3, <3>1, <3>2, <3>3, <3>4, <3>5 DEF RunListener
  <2> QED
    BY <2>1, <2>2, <2>3
<1> QED
  BY <1>1, <1>2, <1>3, ServersMayBreak

\* Start serves the configuration it has read (lines 228-263).
LEMMA StartFollowInv ==
    ASSUME RouteInv, RouteInv', FollowInv, Start
    PROVE  FollowInv'
<1>1. config \in Configs
  BY DEF RouteInv, TypeOK
<1>2. PICK f \in [1..Cardinality(config) -> config] :
        /\ \A i, j \in 1..Cardinality(config) : f[i] = f[j] => i = j
        /\ made' = Cardinality(config)
        /\ route' = [l \in Listeners |-> IF l <= Cardinality(config) THEN f[l] ELSE NoRoute]
        /\ routes' = 1..Cardinality(config)
        /\ routeMap' = [k \in Keys |->
             IF \E i \in 1..Cardinality(config) : KeyOf[f[i]] = k
             THEN CHOOSE i \in 1..Cardinality(config) : KeyOf[f[i]] = k ELSE 0]
  BY DEF Start
<1> DEFINE n == Cardinality(config)
<1>3. n \in Nat /\ n <= MaxListeners /\ IsFiniteSet(config)
  BY <1>1, RouteAssumption, FS_CardinalityType
<1>4. \A l \in 1..n : l \in Listeners /\ l \in Made' /\ route'[l] = f[l] /\ f[l] \in config
  BY <1>2, <1>3, RouteAssumption DEF Listeners, Made
<1>5. made = 0 /\ made' = n /\ Made' = 1..n /\ routes' = 1..n
  BY <1>2 DEF Start, RouteInv, NothingBeforeStart, Made
<1>6. \A l \in Listeners : server[l] = "new" /\ state[l] = "initial"
  BY <1>3, <1>5, RouteAssumption DEF RouteInv, TypeOK, Made
<1>7. \A k \in Keys : routeMap'[k] # 0 =>
         routeMap'[k] \in 1..n /\ KeyOf[f[routeMap'[k]]] = k
  BY <1>2
<1>8. StopperWaits' /\ stopper' = stopper /\ server' = server /\ state' = state
      /\ config' = config /\ watcher' = "select"
  BY DEF Start, FollowInv, StopperWaits, configVars
<1>9. MappedIsListed'
  BY <1>4, <1>5, <1>7 DEF MappedIsListed, Key
<1>10. MappedServes'
  BY <1>4, <1>6, <1>7, <1>8 DEF MappedServes, Live
<1>11. StoppedIsUnderway'
  BY <1>4, <1>5, <1>6, <1>8 DEF StoppedIsUnderway
<1>12. \A r \in config : \E i \in 1..n : f[i] = r
  <2>1. f \in Injection(1..n, config)
    BY <1>2 DEF Injection, IsInjective
  <2>2. Cardinality(1..n) = n
    BY <1>3, FS_Interval
  <2>3. f \in Surjection(1..n, config)
    BY <1>3, <2>1, <2>2, FS_Injection
  <2> QED
    BY <2>3 DEF Surjection
<1>13. RoutesFollowConfig'
  <2>1. \A l \in Made' : route'[l] \in config
    BY <1>4, <1>5
  <2>2. \A r \in config : \E l \in routes' : route'[l] = r /\ server'[l] \in {"new", "listening"}
    BY <1>4, <1>5, <1>6, <1>8, <1>12
  <2> QED
    BY <1>8, <2>1, <2>2 DEF RoutesFollowConfig, Live, Stopping
<1> QED
  BY <1>8, <1>9, <1>10, <1>11, <1>13 DEF FollowInv

\* The other steps of the watcher that leave the listeners alone (lines 715-729).
LEMMA WatcherMovesFollowInv ==
    ASSUME FollowInv, WatcherExit \/ ReceiveSignal \/ StartRouteReturn \/ ReloadEnd
    PROVE  FollowInv'
<1> USE DEF FollowInv, WatcherExit, ReceiveSignal, StartRouteReturn, ReloadEnd, listVars,
            listenerVars, stopVars, Key, Live, Underway, Stopping, Made, configVars
<1>1. StopperWaits' /\ MappedIsListed'
  BY DEF StopperWaits, MappedIsListed
<1>2. MappedServes' /\ StoppedIsUnderway'
  BY DEF MappedServes, StoppedIsUnderway
<1>3. RoutesFollowConfig'
  BY DEF RoutesFollowConfig
<1> QED
  BY <1>1, <1>2, <1>3

\* The comparison finds what is missing and what is in the way (lines 737-775).
LEMMA DetectChangesFollowInv ==
    ASSUME RouteInv, FollowInv, DetectChanges
    PROVE  FollowInv'
<1> USE DEF FollowInv, DetectChanges, listVars, listenerVars, stopVars, configVars, Key, Live, Made
<1>1. StopperWaits' /\ MappedIsListed'
  BY DEF StopperWaits, MappedIsListed
<1>2. MappedServes' /\ StoppedIsUnderway'
  BY DEF MappedServes, StoppedIsUnderway, Underway, Stopping
<1>3. ASSUME mgr = "running", NEW l \in routes, routeMap[Key(l)] = l
      PROVE  OldRoute(Key(l)) = route[l]
  <2>1. \A j \in routes : Key(j) = Key(l) => j <= l
    BY <1>3 DEF RouteInv, ListedIsMapped
  <2>2. routes \subseteq Nat
    BY MadeTypes DEF RouteInv, TypeOK
  <2>3. (CHOOSE i \in routes : Key(i) = Key(l) /\ \A j \in routes : Key(j) = Key(l) => j <= i) = l
    <3>1. \A i \in routes :
             Key(i) = Key(l) /\ (\A j \in routes : Key(j) = Key(l) => j <= i) <=> i = l
      BY <2>1, <2>2
    <3> QED
      BY <3>1
  <2> QED
    BY <2>3 DEF OldRoute
<1>4. ASSUME mgr = "running", NEW l \in Made, Live(l)
      PROVE  route[l] \in config \/ Key(l) \in toStop'
  <2>1. l \in routes /\ routeMap[Key(l)] = l /\ Key(l) \in OldKeys
    BY <1>4 DEF RouteInv, LiveIsListed, LiveIsMapped, OldKeys
  <2>2. OldRoute(Key(l)) = route[l]
    BY <1>3, <1>4, <2>1
  <2> QED
    BY <2>1, <2>2 DEF Removed, Modified
<1>5. ASSUME mgr = "running", NEW r \in config, r \notin toStart'
      PROVE  /\ \E l \in routes : route[l] = r /\ (Live(l) \/ l \in broken)
             /\ KeyOf[r] \notin toStop'
  <2>1. KeyOf[r] \in OldKeys /\ OldRoute(KeyOf[r]) = r
    BY <1>5 DEF Added, Modified
  <2>2. PICK j \in routes : Key(j) = KeyOf[r]
    BY <2>1 DEF OldKeys
  <2>3. KeyOf[r] \in Keys /\ j \in Made /\ j <= routeMap[KeyOf[r]] /\ j > 0
    BY <1>5, <2>2, MadeTypes DEF RouteInv, ListedIsMapped, Keys
  <2>4. routeMap[KeyOf[r]] \in routes /\ Key(routeMap[KeyOf[r]]) = KeyOf[r]
    BY <1>5, <2>3 DEF MappedIsListed, RouteInv, TypeOK
  <2>5. route[routeMap[KeyOf[r]]] = r
    BY <1>3, <1>5, <2>1, <2>4
  <2>6. Live(routeMap[KeyOf[r]]) \/ routeMap[KeyOf[r]] \in broken
    BY <1>5, <2>3 DEF MappedServes, Underway, Stopping, RouteInv, TypeOK
  <2>7. KeyOf[r] \notin toStop'
    <3>1. config \in Configs /\ config \subseteq Routes
      BY RouteAssumption DEF RouteInv, TypeOK
    <3>2. \A s \in config : KeyOf[s] = KeyOf[r] => s = r
      BY <1>5, <3>1, RouteAssumption
    <3> QED
      BY <1>5, <2>1, <3>2 DEF Removed, Modified
  <2> QED
    BY <2>4, <2>5, <2>6, <2>7
<1>6. toStart' \subseteq config /\ (watcher' = "select" => toStart' = {} /\ toStop' = {})
  BY DEF Added, Modified
<1>7. RoutesFollowConfig'
  BY <1>4, <1>5, <1>6 DEF RoutesFollowConfig, Underway, Stopping
<1> QED
  BY <1>1, <1>2, <1>7

\* stopRoute: what it stops is not in the configuration, or to be started again
\* (lines 539-555).
LEMMA StopRouteFollowInv ==
    ASSUME RouteInv, FollowInv, NEW k \in Keys, StopRoute(k)
    PROVE  FollowInv'
<1>1. routeMap[k] \in Made /\ Key(routeMap[k]) = k /\ routes \subseteq Made
  <2>1. PICK j \in routes : Key(j) = k
    BY DEF RouteInv, StopRoute, ToStopIsListed
  <2> QED
    BY <2>1, MadeTypes DEF RouteInv, TypeOK, ListedIsMapped, Made
<1> USE DEF FollowInv, StopRoute, listVars, stopVars, configVars, Key, Live, Made
<1>2. Underway' = stopped \cup {k}
  BY <1>1 DEF Underway, Stopping
<1>3. StopperWaits' /\ MappedIsListed'
  BY DEF StopperWaits, MappedIsListed
<1>4. MappedServes'
  BY <1>2 DEF MappedServes, Underway, Stopping
<1>5. StoppedIsUnderway'
  BY DEF StoppedIsUnderway, RouteInv, TypeOK, Stopping
<1>6. RoutesFollowConfig'
  BY <1>1, <1>2 DEF RoutesFollowConfig, Underway, Stopping, RouteInv, LiveIsMapped
<1> QED
  BY <1>3, <1>4, <1>5, <1>6

LEMMA StopRouteShutdownFollowInv ==
    ASSUME RouteInv, FollowInv, StopRouteShutdown
    PROVE  FollowInv'
<1>1. /\ current \in Made /\ current' = current
      /\ server'[current] \notin {"new", "listening"}
      /\ \A l \in Made : l # current => server'[l] = server[l]
      /\ routes \subseteq Made /\ routeMap[Key(current)] = current
  BY MadeTypes DEF RouteInv, TypeOK, StopRouteShutdown, ShutServer, CurrentIsMapped
<1> USE DEF FollowInv, StopRouteShutdown, listVars, stopVars, configVars, Key, Live, Made
<1>2. Underway' = Underway /\ Key(current) \in Underway
  BY <1>1 DEF Underway, Stopping
<1>3. StopperWaits' /\ MappedIsListed' /\ StoppedIsUnderway'
  BY <1>1 DEF StopperWaits, MappedIsListed, StoppedIsUnderway, Stopping
<1>4. MappedServes'
  <2> SUFFICES ASSUME mgr = "running", NEW k \in Keys, routeMap[k] # 0
               PROVE  Live(routeMap[k])' \/ routeMap[k] \in broken \/ k \in Underway
    BY <1>2 DEF MappedServes
  <2>1. routeMap[k] \in Made /\ Key(routeMap[k]) = k
    BY <1>1 DEF MappedIsListed
  <2> QED
    BY <1>1, <1>2, <2>1 DEF MappedServes
<1>5. RoutesFollowConfig'
  <2> SUFFICES ASSUME mgr = "running", ~signal
               PROVE  RoutesFollowConfig'
    BY DEF RoutesFollowConfig
  <2>1. toStart \subseteq config
    BY DEF RoutesFollowConfig
  <2>2. \A l \in Made : Live(l)' => route[l] \in config \/ Key(l) \in toStop
    BY <1>1 DEF RoutesFollowConfig, Stopping
  <2>3. ASSUME NEW r \in config, r \notin toStart
        PROVE  /\ \E l \in routes : route[l] = r /\ (Live(l)' \/ l \in broken)
               /\ KeyOf[r] \notin toStop \cup Underway
    <3>1. PICK l \in routes : route[l] = r /\ (Live(l) \/ l \in broken)
      BY <2>3 DEF RoutesFollowConfig
    <3>2. KeyOf[r] \notin toStop \cup Underway
      BY <2>3 DEF RoutesFollowConfig, Stopping
    <3> QED
      BY <1>1, <1>2, <3>1, <3>2
  <2> QED
    BY <1>2, <2>1, <2>2, <2>3 DEF RoutesFollowConfig, Stopping
<1> QED
  BY <1>3, <1>4, <1>5

\* The end of stopRoute: the key is to be dropped, or its listener has failed
\* (lines 560-586).
LEMMA StopRouteEndFollowInv ==
    ASSUME RouteInv, FollowInv, StopRouteReturn \/ StopRouteFail
    PROVE  FollowInv'
<1>1. /\ current \in Made /\ current' = current /\ ~Live(current)
      /\ \A l \in Made : Live(l)' = Live(l)
      /\ routes \subseteq Made /\ routeMap[Key(current)] = current
  BY MadeTypes DEF RouteInv, TypeOK, StopRouteReturn, StopRouteFail, CurrentIsMapped, Live
<1> USE DEF FollowInv, listVars, stopVars, configVars, Key, Made
<1>2. /\ Underway = stopped \cup {Key(current)}
      /\ Underway' = stopped'
      /\ Key(current) \in stopped' \/ current \in broken'
      /\ stopped' \subseteq stopped \cup {Key(current)} /\ stopped \subseteq stopped'
      /\ broken \subseteq broken'
  BY DEF StopRouteReturn, StopRouteFail, Underway, Stopping
<1>3. UNCHANGED <<listVars, stopVars, configVars, toStop, toStart>> /\ watcher' = "stop"
      /\ watcher = "drain"
  BY DEF StopRouteReturn, StopRouteFail
<1>4. StopperWaits' /\ MappedIsListed'
  BY <1>3 DEF StopperWaits, MappedIsListed
<1>5. StoppedIsUnderway'
  <2>1. \A l \in Made : state'[l] = "stopped" => state[l] = "stopped" \/ Key(l) \in stopped'
    <3>1. CASE StopRouteReturn
      BY <3>1, <1>1 DEF RouteInv, TypeOK, StopRouteReturn
    <3>2. CASE StopRouteFail
      BY <3>2 DEF StopRouteFail
    <3> QED
      BY <3>1, <3>2
  <2> QED
    BY <1>1, <1>2, <1>3, <2>1 DEF StoppedIsUnderway, Stopping
<1>6. MappedServes'
  <2> SUFFICES ASSUME mgr = "running", NEW k \in Keys, routeMap[k] # 0
               PROVE  Live(routeMap[k])' \/ routeMap[k] \in broken' \/ k \in stopped'
    BY <1>2, <1>3 DEF MappedServes, Live
  <2>1. routeMap[k] \in Made
    BY <1>1 DEF MappedIsListed
  <2>2. CASE k = Key(current)
    BY <1>1, <1>2, <2>2
  <2>3. CASE k # Key(current)
    <3>1. Live(routeMap[k]) \/ routeMap[k] \in broken \/ k \in stopped
      BY <1>2, <2>3 DEF MappedServes
    <3> QED
      BY <1>1, <1>2, <1>3, <2>1, <3>1 DEF Live
  <2> QED
    BY <2>2, <2>3
<1>7. RoutesFollowConfig'
  <2> SUFFICES ASSUME mgr = "running", ~signal
               PROVE  RoutesFollowConfig'
    BY <1>3 DEF RoutesFollowConfig
  <2>1. toStart \subseteq config
    BY <1>3 DEF RoutesFollowConfig
  <2>2. \A l \in Made : Live(l)' => route[l] \in config \/ Key(l) \in toStop
    BY <1>1, <1>3 DEF RoutesFollowConfig, Stopping
  <2>3. ASSUME NEW r \in config, r \notin toStart
        PROVE  /\ \E l \in routes : route[l] = r /\ (Live(l)' \/ l \in broken')
               /\ KeyOf[r] \notin toStop \cup stopped'
    <3>1. PICK l \in routes : route[l] = r /\ (Live(l) \/ l \in broken)
      BY <1>3, <2>3 DEF RoutesFollowConfig
    <3>2. KeyOf[r] \notin toStop \cup Underway
      BY <1>3, <2>3 DEF RoutesFollowConfig, Stopping
    <3> QED
      BY <1>1, <1>2, <3>1, <3>2
  <2> QED
    BY <1>2, <1>3, <2>1, <2>2, <2>3 DEF RoutesFollowConfig, Stopping, Live
<1> QED
  BY <1>4, <1>5, <1>6, <1>7

\* cleanupStoppedRoutes drops no listener that serves (lines 642-660).
LEMMA CleanupFollowInv ==
    ASSUME RouteInv, FollowInv, Cleanup
    PROVE  FollowInv'
<1>1. Underway = stopped /\ Underway' = {} /\ routes \subseteq Made
      /\ \A l \in Made : Key(l) \in Keys
  BY MadeTypes DEF RouteInv, Cleanup, Underway, Stopping
<1> USE DEF FollowInv, Cleanup, stopVars, configVars, listenerVars, Key, Live, Made
<1>2. StopperWaits'
  BY DEF StopperWaits
<1>3. MappedIsListed'
  BY DEF MappedIsListed
<1>4. MappedServes'
  BY <1>1 DEF MappedServes
<1>5. StoppedIsUnderway'
  BY <1>1 DEF StoppedIsUnderway
<1>6. RoutesFollowConfig'
  BY <1>1 DEF RoutesFollowConfig, Stopping
<1> QED
  BY <1>2, <1>3, <1>4, <1>5, <1>6

\* startRoute: a route is served, and no other is dropped (lines 591-613).
LEMMA StartRouteFollowInv ==
    ASSUME RouteInv, FollowInv, NEW r \in Routes, StartRoute(r)
    PROVE  FollowInv'
<1>1. /\ made \in Nat /\ Made \subseteq Listeners /\ made + 1 \in Listeners
      /\ \A l \in Made : route[l] \in Routes /\ Key(l) \in Keys
      /\ routes \subseteq Made /\ KeyOf[r] \in Keys
  <2>1. TypeOK /\ made < MaxListeners
    BY DEF RouteInv, StartRoute
  <2>2. made \in Nat /\ made + 1 \in Listeners
    BY <2>1, MadeTypes, RouteAssumption DEF Listeners
  <2> QED
    BY <2>1, <2>2, MadeTypes DEF Keys
<1>2. /\ Made' = Made \cup {made + 1} /\ made + 1 \notin Made
      /\ \A l \in Made : route'[l] = route[l] /\ Live(l)' = Live(l)
      /\ route'[made + 1] = r
      /\ server'[made + 1] = "new" /\ state'[made + 1] = "initial"
  BY <1>1 DEF StartRoute, Made, RouteInv, TypeOK, Live
<1>3. mgr = "running" => routes' = routes \cup {made + 1}
  BY DEF FollowInv, StartRoute, StoppedIsUnderway, Stopping
<1>4. /\ \A k \in Keys : k # KeyOf[r] => routeMap'[k] = routeMap[k]
      /\ routeMap'[KeyOf[r]] = made + 1
  BY <1>1 DEF RouteInv, TypeOK, StartRoute
<1>5. Underway = {} /\ Underway' = {} /\ mgr' = mgr /\ stopper' = stopper
      /\ watcher = "start" /\ watcher' = "await" /\ UNCHANGED <<configVars, broken, state>>
  BY DEF StartRoute, Underway, Stopping, stopVars
<1>6. StopperWaits'
  BY <1>5 DEF FollowInv, StopperWaits
<1>7. MappedIsListed'
  BY <1>1, <1>2, <1>3, <1>4, <1>5 DEF FollowInv, MappedIsListed, Key
<1>8. MappedServes'
  BY <1>1, <1>2, <1>3, <1>4, <1>5 DEF FollowInv, MappedServes, MappedIsListed, Live
<1>9. StoppedIsUnderway'
  BY <1>2, <1>3, <1>5 DEF FollowInv, StoppedIsUnderway, Stopping
<1>10. RoutesFollowConfig'
  <2> SUFFICES ASSUME mgr = "running", ~signal
               PROVE  RoutesFollowConfig'
    BY <1>5 DEF RoutesFollowConfig, configVars
  <2>1. toStart \subseteq config /\ r \in toStart /\ toStart' = toStart \ {r} /\ config' = config
    BY <1>5 DEF FollowInv, RoutesFollowConfig, StartRoute, configVars
  <2>2. \A l \in Made' : Live(l)' => route'[l] \in config
    BY <1>2, <1>5, <2>1 DEF FollowInv, RoutesFollowConfig, Stopping
  <2>3. ASSUME NEW s \in config, s \notin toStart'
        PROVE  \E l \in routes' : route'[l] = s /\ (server'[l] \in {"new", "listening"} \/ l \in broken)
    <3>1. CASE s = r
      BY <3>1, <1>2, <1>3
    <3>2. CASE s # r
      <4>1. PICK l \in routes : route[l] = s /\ (Live(l) \/ l \in broken)
        BY <2>1, <2>3, <3>2, <1>5 DEF FollowInv, RoutesFollowConfig
      <4> QED
        BY <4>1, <1>1, <1>2, <1>3 DEF Live
    <3> QED
      BY <3>1, <3>2
  <2> QED
    BY <1>5, <2>1, <2>2, <2>3 DEF RoutesFollowConfig, Stopping, Live
<1> QED
  BY <1>6, <1>7, <1>8, <1>9, <1>10 DEF FollowInv

LEMMA NextFollowInv ==
    ASSUME RouteInv, RouteInv', FollowInv, [Next]_vars
    PROVE  FollowInv'
<1>1. CASE Start
  BY <1>1, StartFollowInv
<1>2. CASE Watcher
  BY <1>2, DetectChangesFollowInv, StopRouteFollowInv, StopRouteShutdownFollowInv,
     StopRouteEndFollowInv, CleanupFollowInv, StartRouteFollowInv, WatcherMovesFollowInv
     DEF Watcher
<1>3. CASE ~Start /\ ~Watcher
  <2>1. TypeOK
    BY DEF RouteInv
  <2> QED
    BY <1>3, <2>1, OthersFollowInv DEF Next
<1> QED
  BY <1>1, <1>2, <1>3

\* What the reload watcher leaves behind in each of its places (lines 539-775).
THEOREM FollowInvariance == SafeSpec => []FollowInv
<1>1. RouteInv /\ RouteInv' /\ FollowInv /\ [Next]_vars => FollowInv'
  BY NextFollowInv
<1> QED
  BY <1>1, RouteInvariance, InitFollowInv, PTL DEF SafeSpec

\* A quiet manager serves its configuration and nothing else (lines 735-775).
THEOREM QuietManagerServesConfig == SafeSpec => []QuietServesConfig
<1>1. FollowInv => QuietServesConfig
  BY DEF FollowInv, RoutesFollowConfig, QuietServesConfig, Stopping
<1> QED
  BY <1>1, FollowInvariance, PTL

--------------------------------------------------------------------------------
(* Stop without a reload beside it *)

\* No reload is running once Stop has been called.
StopsAlone == mgr = "stopped" => watcher \in {"select", "exited"}

\* What is still up is still to be shut.
StopInv ==
    /\ mgr = "stopped" => \A l \in Made :
         Live(l) => l \in snapshot \/ (stopper = "shutdown" /\ l = target)
    /\ stopper \in {"wait", "clean", "timeout"} => snapshot = {}

\* The steps of Stop: it takes all that are up and leaves none out.
LEMMA StopperStopInv ==
    ASSUME RouteInv, StopperWaits, StopInv, StopBegin \/ Stopper
    PROVE  StopInv'
<1> USE DEF StopInv, listVars, listenerVars
<1>1. made' = made /\ Made' = Made
  BY DEF StopBegin, Stopper, StopNext, StopShutdown, StopDrained, StopJoinWatcher,
         StopReturn, Made
<1>2. server \in [Listeners -> {"new", "listening", "draining", "shut", "failed"}]
  BY DEF RouteInv, TypeOK
<1>3. Made \subseteq Listeners
  BY MadeTypes DEF RouteInv
<1>4. CASE StopBegin
  <2>1. \A l \in Made : Live(l) => l \in routes
    BY DEF RouteInv, LiveIsListed
  <2>2. stopper = "none"
    BY <1>4 DEF StopBegin, StopperWaits, RouteInv, TypeOK
  <2> QED
    BY <1>1, <1>4, <2>1, <2>2 DEF StopBegin, Live
<1>5. CASE StopNext
  BY <1>1, <1>5 DEF StopNext, Live
<1>6. CASE StopShutdown
  BY <1>1, <1>2, <1>3, <1>6 DEF StopShutdown, ShutServer, Live
<1>7. CASE StopDrained
  BY <1>1, <1>2, <1>3, <1>7 DEF StopDrained, Live
<1>8. CASE StopJoinWatcher \/ StopReturn
  BY <1>1, <1>8 DEF StopJoinWatcher, StopReturn, Live
<1> QED
  BY <1>4, <1>5, <1>6, <1>7, <1>8 DEF Stopper

\* Nobody else lists or starts a listener meanwhile.
LEMMA OthersStopInv ==
    ASSUME RouteInv, StopperWaits, StopInv, StopsAlone, StopsAlone',
           [Next]_vars, ~StopBegin, ~Stopper
    PROVE  StopInv'
<1> USE DEF StopInv, StopsAlone, listVars, listenerVars, stopVars
<1>1. CASE Start
  BY <1>1 DEF Start, StopperWaits
<1>2. CASE Watcher
  <2>1. CASE mgr # "stopped"
    <3>1. UNCHANGED stopVars
      BY <1>2 DEF Watcher, WatcherExit, ReceiveSignal, DetectChanges, StopRoute,
        StopRouteShutdown, StopRouteReturn, StopRouteFail, Cleanup, StartRoute,
        StartRouteReturn, ReloadEnd
    <3> QED
      BY <2>1, <3>1
  <2>2. CASE mgr = "stopped"
    <3>1. WatcherExit
      BY <1>2, <2>2 DEF Watcher, ReceiveSignal, DetectChanges, StopRoute,
        StopRouteShutdown, StopRouteReturn, StopRouteFail, Cleanup, StartRoute,
        StartRouteReturn, ReloadEnd
    <3> QED
      BY <3>1 DEF WatcherExit, Live, Made
  <2> QED
    BY <2>1, <2>2
<1>3. ASSUME NEW i \in Listeners, RunListener(i) PROVE StopInv'
  <2>1. UNCHANGED <<listVars, stopVars>>
    BY <1>3 DEF RunListener, RunBegin, RunListen, RunFail, RunReturn, StarterRead,
      StarterSet
  <2>2. \A l \in Listeners : Live(l)' => Live(l)
    BY <1>3 DEF RunListener, RunBegin, RunListen, RunFail, RunReturn, StarterRead,
      StarterSet, Live, RouteInv, TypeOK
  <2>3. Made' = Made /\ Made \subseteq Listeners
    BY <2>1, MadeTypes DEF RouteInv, Made
  <2> QED
    BY <2>1, <2>2, <2>3
<1>4. ASSUME NEW c \in Configs, Edit(c) PROVE StopInv'
  BY <1>4 DEF Edit, Live, Made
<1>5. CASE UNCHANGED vars
  BY <1>5 DEF vars, Live, Made
<1> QED
  BY <1>1, <1>2, <1>3, <1>4, <1>5 DEF Next

\* A Stop that no reload is running beside leaves no server listening (lines
\* 265-292), whatever was edited and reloaded before it and however the listeners'
\* goroutines stand: the reload that the run of Stop finds is the only cause.
THEOREM LonelyStopStopsAll == SafeSpec /\ []StopsAlone => []StopStopsAllListeners
<1>1. Init => StopInv
  BY DEF Init, StopInv
<1>2. ASSUME RouteInv, FollowInv, StopInv, StopsAlone, StopsAlone', [Next]_vars
      PROVE  StopInv'
  BY <1>2, StopperStopInv, OthersStopInv DEF FollowInv
<1>3. StopInv /\ FollowInv => StopStopsAllListeners
  BY DEF StopInv, FollowInv, StopperWaits, StopStopsAllListeners, Live
<1> QED
  BY <1>1, <1>2, <1>3, RouteInvariance, FollowInvariance, PTL DEF SafeSpec
================================================================================
