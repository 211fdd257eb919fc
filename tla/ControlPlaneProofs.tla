-------------------------- MODULE ControlPlaneProofs --------------------------
(***************************************************************************)
(* Proofs about components of the control plane that share no variable: the *)
(* function metadata (FunctionMeta), the health of the bus proxies         *)
(* (NodeHealth), both sides of the kernel RPC: the callbacks of the client *)
(* and the pooled answers of the server (StreamConnection), the sandbox    *)
(* router: the owner of an answer and the route cache (SandboxRoutes), the *)
(* time wheel (TimeWheel), the tables of the instance watch                *)
(* (InstanceManager) and the calls of the data system (DataSystemClient).  *)
(***************************************************************************)
EXTENDS FunctionMeta, NodeHealth, StreamConnection, SandboxRoutes, TimeWheel, InstanceManager,
        DataSystemClient, SequenceTheorems, FiniteSetTheorems, WellFoundedInduction, TLAPS

------------------------------------------------------------------------------
(* FunctionMeta                                                               *)

\* The remembered answer of the single flight is "not found".
NotFoundRemembered == sf # None /\ items[sf].from = "none"

\* A call that has not begun has no result yet, so a new flight does not
\* begin with an answer; and while "not found" is remembered, either the
\* function is not in etcd or an event that will remove the answer is on its
\* way or being handled.
MetaInv ==
    /\ DOMAIN items = Loads /\ DOMAIN loads = Loads /\ sf \in Loads \cup {None}
    /\ DOMAIN stored = Sources \cup {"silent"} /\ DOMAIN events = Sources /\ DOMAIN handling = Sources
    /\ \A s \in Sources : events[s] \in Seq(1..MaxVersions \cup {None})
    /\ \A l \in Loads : loads[l].pc = "new" => items[l] = Pending
    /\ NotFoundRemembered =>
           stored["meta"] = None \/ events["meta"] # <<>> \/ handling["meta"].pc # "idle"

LEMMA MetaInvInit == MetaInit => MetaInv
<1> SUFFICES ASSUME MetaInit PROVE MetaInv OBVIOUS
<1> QED BY DEF MetaInit, MetaInv, NotFoundRemembered, Sources

\* Nothing but the flights and the events of the meta etcd bears on the invariant.
LEMMA MetaUnmoved ==
    ASSUME MetaInv, UNCHANGED <<stored, events, handling, sf, items, loads>>
    PROVE  MetaInv'
BY DEF MetaInv, NotFoundRemembered

LEMMA WriteKeeps ==
    ASSUME MetaInv, NEW s \in Sources \cup {"silent"}, NEW v \in 1..MaxVersions \cup {None}, Write(s, v)
    PROVE  MetaInv'
<1>1. stored' = [stored EXCEPT ![s] = v] /\ UNCHANGED <<handling, sf, items, loads>>
  BY DEF Write, loadVars
<1>2. CASE s \in Sources
  <2>1. events' = [events EXCEPT ![s] = Append(@, v)] BY <1>2 DEF Write
  <2>2. Append(events[s], v) \in Seq(1..MaxVersions \cup {None}) /\ Append(events[s], v) # <<>>
    BY <1>2 DEF MetaInv
  <2>3. DOMAIN events' = Sources /\ \A t \in Sources : events'[t] = IF t = s THEN Append(events[s], v) ELSE events[t]
    BY <2>1 DEF MetaInv
  <2>4. "meta" \in Sources BY DEF Sources
  <2> QED BY <1>1, <2>2, <2>3, <2>4 DEF MetaInv, NotFoundRemembered
<1>3. CASE s \notin Sources
  <2>1. events' = events BY <1>3 DEF Write
  <2>2. s # "meta" BY <1>3 DEF Sources
  <2> QED BY <1>1, <2>1, <2>2 DEF MetaInv, NotFoundRemembered
<1> QED BY <1>2, <1>3

\* The goroutine of a source: what it takes it handles, and at the end it removes the answer.
LEMMA SourceKeeps ==
    ASSUME MetaInv, NEW s \in Sources, Handle(s) \/ ProcessUpdate(s) \/ ProcessDelete(s) \/ RemoveItem(s)
    PROVE  MetaInv'
<1>m. "meta" \in Sources BY DEF Sources
<1>1. CASE Handle(s)
  <2>1. events' = [events EXCEPT ![s] = Tail(@)] /\ UNCHANGED <<stored, sf, items, loads>>
    BY <1>1 DEF Handle, etcdData, loadVars
  <2>2. events[s] # <<>> BY <1>1 DEF Handle
  <2>3. Tail(events[s]) \in Seq(1..MaxVersions \cup {None}) BY <2>2 DEF MetaInv
  <2>4. DOMAIN handling' = Sources BY <1>1 DEF Handle, MetaInv
  <2>5. s = "meta" => handling'["meta"].pc # "idle"
    BY <1>1, <1>m DEF Handle, Skips, MetaInv
  <2>6. s # "meta" => handling'["meta"] = handling["meta"] /\ events'["meta"] = events["meta"]
    BY <1>1, <1>m, <2>1 DEF Handle, MetaInv
  <2>7. DOMAIN events' = Sources /\ \A t \in Sources : events'[t] \in Seq(1..MaxVersions \cup {None})
    BY <2>1, <2>3 DEF MetaInv
  <2> QED BY <2>1, <2>4, <2>5, <2>6, <2>7 DEF MetaInv, NotFoundRemembered
<1>2. CASE ProcessUpdate(s) \/ ProcessDelete(s)
  <2>1. handling' = [handling EXCEPT ![s].pc = "remove"] /\ UNCHANGED <<stored, events, sf, items, loads>>
    BY <1>2 DEF ProcessUpdate, ProcessDelete, etcdData, loadVars
  <2>2. handling[s].pc # "idle" BY <1>2 DEF ProcessUpdate, ProcessDelete
  <2>3. DOMAIN handling' = Sources /\ (handling["meta"].pc # "idle" => handling'["meta"].pc # "idle")
    BY <2>1, <1>m DEF MetaInv
  <2> QED BY <2>1, <2>3 DEF MetaInv, NotFoundRemembered
<1>3. CASE RemoveItem(s)
  <2>1. sf' = None /\ UNCHANGED <<stored, events, items, loads>> BY <1>3 DEF RemoveItem, etcdData, loadVars
  <2>2. DOMAIN handling' = Sources BY <1>3 DEF RemoveItem, MetaInv
  <2> QED BY <2>1, <2>2 DEF MetaInv, NotFoundRemembered
<1> QED BY <1>1, <1>2, <1>3

\* A request: a flight ends with "not found" only when etcd just said so.
LEMMA LoadKeeps ==
    ASSUME MetaInv, NEW l \in Loads,
           \/ LoadKnown(l) \/ Do(l) \/ Waits(l) \/ StoreFetched(l) \/ FetchFails(l)
           \/ Fetch(l, "silent", "meta") \/ Fetch(l, "meta", None)
           \/ \E p \in {0, 1} : LoadFuncSpecWithPath(l, p)
    PROVE  MetaInv'
<1>1. CASE LoadKnown(l) \/ Waits(l) \/ \E p \in {0, 1} : LoadFuncSpecWithPath(l, p)
  <2>1. UNCHANGED <<stored, events, handling, sf, items>>
    BY <1>1 DEF LoadKnown, Waits, LoadFuncSpecWithPath, etcdData
  <2>2. DOMAIN loads' = Loads /\ \A k \in Loads : loads'[k].pc = "new" => loads[k].pc = "new"
    BY <1>1 DEF LoadKnown, Waits, LoadFuncSpecWithPath, Returns, Goes, MetaInv
  <2> QED BY <2>1, <2>2 DEF MetaInv, NotFoundRemembered
<1>2. CASE Do(l)
  <2>1. loads[l].pc = "new" /\ UNCHANGED <<stored, events, handling, items>> BY <1>2 DEF Do, etcdData
  <2>2. DOMAIN loads' = Loads /\ \A k \in Loads : loads'[k].pc = "new" => loads[k].pc = "new"
    BY <1>2 DEF Do, Goes, MetaInv
  <2>3. sf' = sf \/ sf' = l BY <1>2 DEF Do
  <2>4. items[l].from # "none" BY <2>1 DEF MetaInv, Pending
  <2> QED BY <2>1, <2>2, <2>3, <2>4 DEF MetaInv, NotFoundRemembered
<1>3. ASSUME NEW spec, EndFlight(l, spec), UNCHANGED <<stored, events, handling, sf>>,
             spec.from = "none" => stored["meta"] = None
      PROVE  MetaInv'
  <2>1. items' = [items EXCEPT ![l] = spec] /\ loads' = [loads EXCEPT ![l] = [pc |-> "done", arg |-> spec]]
    BY <1>3 DEF EndFlight, Returns, Goes
  <2>2. \A k \in Loads : items'[k] = IF k = l THEN spec ELSE items[k]
    BY <2>1 DEF MetaInv
  <2>3. \A k \in Loads : loads'[k].pc = "new" => k # l /\ loads[k].pc = "new"
    BY <2>1 DEF MetaInv
  <2>4. DOMAIN items' = Loads /\ DOMAIN loads' = Loads BY <2>1 DEF MetaInv
  <2> QED BY <1>3, <2>2, <2>3, <2>4 DEF MetaInv, NotFoundRemembered
<1>4. CASE StoreFetched(l)
  <2>1. FuncSpec("meta", loads[l].arg).from # "none" BY DEF FuncSpec
  <2> QED BY <1>3, <1>4, <2>1 DEF StoreFetched, etcdData
<1>5. CASE FetchFails(l)
  <2>1. [NotFound EXCEPT !.from = "error"].from # "none" BY DEF NotFound
  <2> QED BY <1>3, <1>5, <2>1 DEF FetchFails, etcdData
<1>6. ASSUME NEW pc, NEW arg, Goes(l, pc, arg), pc # "new", UNCHANGED <<stored, events, handling, sf, items>>
      PROVE  MetaInv'
  <2>1. DOMAIN loads' = Loads /\ \A k \in Loads : loads'[k].pc = "new" => loads[k].pc = "new"
    BY <1>6 DEF Goes, MetaInv
  <2> QED BY <1>6, <2>1 DEF MetaInv, NotFoundRemembered
<1>7. CASE Fetch(l, "silent", "meta")
  <2>0. UNCHANGED <<stored, events, handling, sf>> BY <1>7 DEF Fetch, etcdData
  <2>1. CASE stored["silent"] # None
    <3>1. Goes(l, "store", stored["silent"]) /\ UNCHANGED items BY <1>7, <2>1 DEF Fetch
    <3> QED BY <3>1, <2>0, <1>6
  <2>2. CASE stored["silent"] = None /\ "meta" # None
    <3>1. Goes(l, "meta", None) /\ UNCHANGED items BY <1>7, <2>2 DEF Fetch
    <3> QED BY <3>1, <2>0, <1>6
  <2>3. CASE stored["silent"] = None /\ "meta" = None
    <3> QED BY <2>3, SourcesAssumption DEF Sources
  <2> QED BY <2>1, <2>2, <2>3
<1>8. CASE Fetch(l, "meta", None)
  <2>0. UNCHANGED <<stored, events, handling, sf>> BY <1>8 DEF Fetch, etcdData
  <2>1. CASE stored["meta"] # None
    <3>1. Goes(l, "store", stored["meta"]) /\ UNCHANGED items BY <1>8, <2>1 DEF Fetch
    <3> QED BY <3>1, <2>0, <1>6
  <2>2. CASE stored["meta"] = None
    <3>1. EndFlight(l, NotFound) BY <1>8, <2>2 DEF Fetch
    <3> QED BY <3>1, <2>0, <2>2, <1>3
  <2> QED BY <2>1, <2>2
<1> QED BY <1>1, <1>2, <1>4, <1>5, <1>7, <1>8

LEMMA MetaInvStep == MetaInv /\ [MetaNext]_metaVars => MetaInv'
<1> SUFFICES ASSUME MetaInv, [MetaNext]_metaVars PROVE MetaInv' OBVIOUS
<1>1. ASSUME NEW v \in 1..MaxVersions \cup {None}, ResourceChanges(v) PROVE MetaInv'
  BY <1>1, MetaUnmoved DEF ResourceChanges, loadVars
<1>2. ASSUME NEW ok \in BOOLEAN, ProcessCrEvent(ok) PROVE MetaInv'
  <2>1. UNCHANGED <<stored, events, handling, items, loads>> /\ (sf' = sf \/ sf' = None)
    BY <1>2 DEF ProcessCrEvent, etcdData, loadVars
  <2> QED BY <2>1 DEF MetaInv, NotFoundRemembered
<1>3. CASE ItemExpires
  <2>1. UNCHANGED <<stored, events, handling, items, loads>> /\ sf' = None
    BY <1>3 DEF ItemExpires, etcdData, loadVars
  <2> QED BY <2>1 DEF MetaInv, NotFoundRemembered
<1>4. CASE UNCHANGED metaVars
  BY <1>4, MetaUnmoved DEF metaVars, etcdData, loadVars
<1> QED BY <1>1, <1>2, <1>3, <1>4, WriteKeeps, SourceKeeps, LoadKeeps DEF MetaNext

\* A function in the meta etcd whose last event was handled is found by the next request, for every
\* number of requests, versions and pending events (functionmeta/metadata.go).
THEOREM KnownFunctionLoadsCorrect == MetaSpec => []KnownFunctionLoads
<1>1. MetaInv => KnownFunctionLoads
  BY DEF MetaInv, KnownFunctionLoads, NotFoundRemembered, NotHandling
<1> QED BY <1>1, MetaInvInit, MetaInvStep, PTL DEF MetaSpec

------------------------------------------------------------------------------
(* NodeHealth                                                                 *)

Monitor == [open : BOOLEAN, count : Nat, healthy : BOOLEAN, ip : ProxyIPs]
Beat == [node : ProxyNodes, mon : Nat, pc : {"sent", "setHealthy", "setUnhealthy", "callHealthy", "callUnhealthy"}]
Proxy == [ip : ProxyIPs, conf : Nat]

HealthType ==
    /\ heartbeatConf \in Nat
    /\ DOMAIN busProxies = ProxyNodes /\ \A n \in ProxyNodes : busProxies[n] # None => busProxies[n] \in Proxy
    /\ nodeIPToNodeID \in [ProxyIPs -> ProxyNodes \cup {None}]
    /\ monitors \in [ProxyNodes -> Seq(Monitor)]
    /\ DOMAIN beats = Beats /\ \A b \in Beats : beats[b] # None => beats[b] \in Beat

\* A listed proxy has a monitor; a monitor says healthy, or a heartbeat is about to make it say so,
\* only when a heartbeat of that very monitor was answered.
HealthInv ==
    /\ HealthType
    /\ \A n \in ProxyNodes : busProxies[n] # None => Len(monitors[n]) > 0
    /\ \A n \in ProxyNodes : \A k \in DOMAIN monitors[n] : monitors[n][k].healthy => <<n, k>> \in succeeded
    /\ \A b \in Beats : beats[b] # None =>
           /\ beats[b].mon \in DOMAIN monitors[beats[b].node]
           /\ beats[b].pc = "setHealthy" => <<beats[b].node, beats[b].mon>> \in succeeded

\* A heartbeat writes to one monitor of one node.
LEMMA OneMonitor ==
    ASSUME monitors \in [ProxyNodes -> Seq(Monitor)], NEW n \in ProxyNodes, NEW k \in DOMAIN monitors[n], NEW m \in Monitor,
           monitors' = [monitors EXCEPT ![n] = [monitors[n] EXCEPT ![k] = m]]
    PROVE  /\ monitors' \in [ProxyNodes -> Seq(Monitor)]
           /\ \A p \in ProxyNodes : /\ Len(monitors'[p]) = Len(monitors[p]) /\ DOMAIN monitors'[p] = DOMAIN monitors[p]
                                    /\ \A j \in DOMAIN monitors[p] :
                                           monitors'[p][j] = IF p = n /\ j = k THEN m ELSE monitors[p][j]
<1> DEFINE ms == [monitors[n] EXCEPT ![k] = m]
<1>1. monitors[n] \in Seq(Monitor) OBVIOUS
<1>2. ms \in Seq(Monitor) /\ Len(ms) = Len(monitors[n]) /\ DOMAIN ms = DOMAIN monitors[n] BY <1>1
<1>3. \A j \in DOMAIN monitors[n] : ms[j] = IF j = k THEN m ELSE monitors[n][j] OBVIOUS
<1> HIDE DEF ms
<1>4. \A p \in ProxyNodes : monitors'[p] = IF p = n THEN ms ELSE monitors[p] BY DEF ms
<1>5. DOMAIN monitors' = ProxyNodes OBVIOUS
<1>6. monitors' = [p \in ProxyNodes |-> IF p = n THEN ms ELSE monitors[p]] BY DEF ms
<1> QED BY <1>2, <1>3, <1>4, <1>6

\* A monitor is started, and the one before it stopped: the others keep their places.
LEMMA StoppedMonitor ==
    ASSUME NEW ms \in Seq(Monitor), Len(ms) > 0
    PROVE  /\ StopMonitor(ms) \in Seq(Monitor) /\ Len(StopMonitor(ms)) = Len(ms)
           /\ \A k \in 1..Len(ms) : StopMonitor(ms)[k].healthy = ms[k].healthy
<1> DEFINE m == [ms[Len(ms)] EXCEPT !.open = FALSE]
<1>1. ms[Len(ms)] \in Monitor OBVIOUS
<1>2. m \in Monitor /\ m.healthy = ms[Len(ms)].healthy BY <1>1 DEF Monitor
<1>3. StopMonitor(ms) = [ms EXCEPT ![Len(ms)] = m] BY DEF StopMonitor
<1> HIDE DEF m
<1> QED BY <1>2, <1>3

LEMMA StartedMonitor ==
    ASSUME NEW ms \in Seq(Monitor), NEW ip \in ProxyIPs
    PROVE  /\ Append(ms, NewMonitor(ip)) \in Seq(Monitor) /\ Len(Append(ms, NewMonitor(ip))) = Len(ms) + 1
           /\ \A k \in 1..Len(ms) : Append(ms, NewMonitor(ip))[k] = ms[k]
           /\ ~Append(ms, NewMonitor(ip))[Len(ms) + 1].healthy
<1>1. NewMonitor(ip) \in Monitor /\ ~NewMonitor(ip).healthy BY DEF NewMonitor, Monitor
<1> QED BY <1>1

\* The monitors of the nodes only grow, and what is new is unhealthy.
MonitorsGrow ==
    /\ monitors' \in [ProxyNodes -> Seq(Monitor)]
    /\ \A n \in ProxyNodes :
           /\ Len(monitors'[n]) >= Len(monitors[n])
           /\ \A k \in 1..Len(monitors'[n]) :
                  monitors'[n][k].healthy => k <= Len(monitors[n]) /\ monitors[n][k].healthy

LEMMA GrowKeeps ==
    ASSUME HealthInv, MonitorsGrow, UNCHANGED <<beats, succeeded>>,
           HealthType', \A n \in ProxyNodes : busProxies'[n] # None => Len(monitors'[n]) > 0
    PROVE  HealthInv'
<1>1. \A n \in ProxyNodes : monitors[n] \in Seq(Monitor) /\ monitors'[n] \in Seq(Monitor)
  BY DEF MonitorsGrow, HealthInv, HealthType
<1>2. \A n \in ProxyNodes : DOMAIN monitors[n] = 1..Len(monitors[n]) /\ DOMAIN monitors'[n] = 1..Len(monitors'[n])
                            /\ Len(monitors[n]) \in Nat /\ Len(monitors'[n]) \in Nat
  BY <1>1
<1>3. \A n \in ProxyNodes : \A k \in DOMAIN monitors'[n] : monitors'[n][k].healthy => <<n, k>> \in succeeded'
  BY <1>2 DEF MonitorsGrow, HealthInv
<1>4. \A b \in Beats : beats[b] # None => beats[b].node \in ProxyNodes BY DEF HealthInv, HealthType, Beat
<1>5. \A n \in ProxyNodes : DOMAIN monitors[n] \subseteq DOMAIN monitors'[n] BY <1>2 DEF MonitorsGrow
<1>6. \A b \in Beats : beats'[b] # None =>
           /\ beats'[b].mon \in DOMAIN monitors'[beats'[b].node]
           /\ beats'[b].pc = "setHealthy" => <<beats'[b].node, beats'[b].mon>> \in succeeded'
  BY <1>4, <1>5 DEF HealthInv
<1> QED BY <1>3, <1>6 DEF HealthInv

LEMMA AddKeeps == ASSUME HealthInv, NEW n \in ProxyNodes, NEW ip \in ProxyIPs, AddProxy(n, ip) PROVE HealthInv'
<1>0. monitors[n] \in Seq(Monitor) BY DEF HealthInv, HealthType
<1>1. monitors' = [p \in ProxyNodes |-> IF p = n THEN Append(monitors[n], NewMonitor(ip)) ELSE monitors[p]]
  BY DEF AddProxy, HealthInv, HealthType
<1>2. MonitorsGrow
  <2>1. monitors' \in [ProxyNodes -> Seq(Monitor)] BY <1>0, <1>1, StartedMonitor DEF HealthInv, HealthType
  <2>2. ASSUME NEW p \in ProxyNodes
        PROVE  /\ Len(monitors'[p]) >= Len(monitors[p])
               /\ \A k \in 1..Len(monitors'[p]) :
                      monitors'[p][k].healthy => k <= Len(monitors[p]) /\ monitors[p][k].healthy
    <3>1. CASE p # n
      <4>1. monitors'[p] = monitors[p] /\ Len(monitors[p]) \in Nat BY <1>1, <3>1 DEF HealthInv, HealthType
      <4> QED BY <4>1
    <3>2. CASE p = n
      <4>1. monitors'[p] = Append(monitors[n], NewMonitor(ip)) /\ Len(monitors[n]) \in Nat BY <1>0, <1>1, <3>2
      <4> QED BY <1>0, <3>2, <4>1, StartedMonitor
    <3> QED BY <3>1, <3>2
  <2> QED BY <2>1, <2>2 DEF MonitorsGrow
<1>3. busProxies' = [busProxies EXCEPT ![n] = [ip |-> ip, conf |-> heartbeatConf]]
      /\ nodeIPToNodeID' = [nodeIPToNodeID EXCEPT ![ip] = n] /\ UNCHANGED <<beats, succeeded, heartbeatConf>>
  BY DEF AddProxy
<1>4. HealthType'
  <2>1. [ip |-> ip, conf |-> heartbeatConf] \in Proxy BY DEF Proxy, HealthInv, HealthType
  <2>2. DOMAIN busProxies' = ProxyNodes /\ \A p \in ProxyNodes : busProxies'[p] # None => busProxies'[p] \in Proxy
    BY <1>3, <2>1 DEF HealthInv, HealthType
  <2>3. nodeIPToNodeID' \in [ProxyIPs -> ProxyNodes \cup {None}] BY <1>3 DEF HealthInv, HealthType
  <2> QED BY <1>2, <1>3, <2>2, <2>3 DEF HealthInv, HealthType, MonitorsGrow
<1>5. \A p \in ProxyNodes : busProxies'[p] # None => Len(monitors'[p]) > 0
  <2> SUFFICES ASSUME NEW p \in ProxyNodes, busProxies'[p] # None PROVE Len(monitors'[p]) > 0 OBVIOUS
  <2>1. CASE p # n
    <3>1. busProxies[p] # None /\ monitors'[p] = monitors[p] BY <1>1, <1>3, <2>1 DEF HealthInv, HealthType
    <3> QED BY <3>1 DEF HealthInv
  <2>2. CASE p = n
    <3>1. Len(monitors'[p]) = Len(monitors[n]) + 1 /\ Len(monitors[n]) \in Nat BY <1>0, <1>1, <2>2, StartedMonitor
    <3> QED BY <3>1
  <2> QED BY <2>1, <2>2
<1> QED BY <1>2, <1>3, <1>4, <1>5, GrowKeeps

LEMMA DeleteKeeps == ASSUME HealthInv, NEW n \in ProxyNodes, DeleteProxy(n) PROVE HealthInv'
<1>0. monitors[n] \in Seq(Monitor) /\ Len(monitors[n]) > 0 /\ busProxies[n].ip \in ProxyIPs
  BY DEF DeleteProxy, HealthInv, HealthType, Proxy
<1>1. monitors' = [p \in ProxyNodes |-> IF p = n THEN StopMonitor(monitors[n]) ELSE monitors[p]]
  BY DEF DeleteProxy, HealthInv, HealthType
<1>2. MonitorsGrow
  <2>1. monitors' \in [ProxyNodes -> Seq(Monitor)] BY <1>0, <1>1, StoppedMonitor DEF HealthInv, HealthType
  <2>2. ASSUME NEW p \in ProxyNodes
        PROVE  /\ Len(monitors'[p]) >= Len(monitors[p])
               /\ \A k \in 1..Len(monitors'[p]) :
                      monitors'[p][k].healthy => k <= Len(monitors[p]) /\ monitors[p][k].healthy
    <3>1. CASE p # n
      <4>1. monitors'[p] = monitors[p] /\ Len(monitors[p]) \in Nat BY <1>1, <3>1 DEF HealthInv, HealthType
      <4> QED BY <4>1
    <3>2. CASE p = n
      <4>1. monitors'[p] = StopMonitor(monitors[n]) /\ Len(monitors[n]) \in Nat BY <1>0, <1>1, <3>2
      <4> QED BY <1>0, <3>2, <4>1, StoppedMonitor
    <3> QED BY <3>1, <3>2
  <2> QED BY <2>1, <2>2 DEF MonitorsGrow
<1>3. busProxies' = [busProxies EXCEPT ![n] = None]
      /\ nodeIPToNodeID' = [nodeIPToNodeID EXCEPT ![busProxies[n].ip] = None] /\ UNCHANGED <<beats, succeeded, heartbeatConf>>
  BY DEF DeleteProxy
<1>4. HealthType'
  <2>1. DOMAIN busProxies' = ProxyNodes /\ \A p \in ProxyNodes : busProxies'[p] # None => busProxies'[p] \in Proxy
    BY <1>3 DEF HealthInv, HealthType
  <2>2. nodeIPToNodeID' \in [ProxyIPs -> ProxyNodes \cup {None}] BY <1>0, <1>3 DEF HealthInv, HealthType
  <2> QED BY <1>2, <1>3, <2>1, <2>2 DEF HealthInv, HealthType, MonitorsGrow
<1>5. \A p \in ProxyNodes : busProxies'[p] # None => Len(monitors'[p]) > 0
  <2> SUFFICES ASSUME NEW p \in ProxyNodes, busProxies'[p] # None PROVE Len(monitors'[p]) > 0 OBVIOUS
  <2>1. p # n BY <1>3 DEF HealthInv, HealthType
  <2>2. busProxies[p] # None /\ monitors'[p] = monitors[p] BY <1>1, <1>3, <2>1 DEF HealthInv, HealthType
  <2> QED BY <2>2 DEF HealthInv
<1> QED BY <1>2, <1>3, <1>4, <1>5, GrowKeeps

\* A restarted monitor: the old one stops, the new one is unhealthy.
LEMMA RestartedMonitor ==
    ASSUME NEW ms \in Seq(Monitor), Len(ms) > 0, NEW ip \in ProxyIPs
    PROVE  /\ RestartMonitor(ms, ip) \in Seq(Monitor) /\ Len(RestartMonitor(ms, ip)) = Len(ms) + 1
           /\ \A k \in 1..(Len(ms) + 1) : RestartMonitor(ms, ip)[k].healthy => k <= Len(ms) /\ ms[k].healthy
<1> DEFINE stopped == StopMonitor(ms)
<1>1. stopped \in Seq(Monitor) /\ Len(stopped) = Len(ms) /\ \A k \in 1..Len(ms) : stopped[k].healthy = ms[k].healthy
  BY StoppedMonitor
<1>2. RestartMonitor(ms, ip) = Append(stopped, NewMonitor(ip)) BY DEF RestartMonitor
<1> HIDE DEF stopped
<1>3. /\ Append(stopped, NewMonitor(ip)) \in Seq(Monitor) /\ Len(Append(stopped, NewMonitor(ip))) = Len(stopped) + 1
      /\ \A k \in 1..Len(stopped) : Append(stopped, NewMonitor(ip))[k] = stopped[k]
      /\ ~Append(stopped, NewMonitor(ip))[Len(stopped) + 1].healthy
  BY <1>1, StartedMonitor
<1>4. Len(ms) \in Nat OBVIOUS
<1>5. ASSUME NEW k \in 1..(Len(ms) + 1), RestartMonitor(ms, ip)[k].healthy PROVE k <= Len(ms) /\ ms[k].healthy
  <2>1. k # Len(ms) + 1 BY <1>1, <1>2, <1>3, <1>5
  <2>2. k \in 1..Len(ms) BY <1>4, <2>1
  <2>3. stopped[k].healthy BY <1>1, <1>2, <1>3, <1>5, <2>2
  <2> QED BY <1>1, <2>2, <2>3, <1>4
<1> QED BY <1>1, <1>2, <1>3, <1>5

LEMMA UpdateConfigKeeps == ASSUME HealthInv, UpdateProxiesConfig PROVE HealthInv'
<1>1. \A n \in Outdated : n \in ProxyNodes /\ busProxies[n] \in Proxy /\ busProxies[n].ip \in ProxyIPs /\ Len(monitors[n]) > 0
  BY DEF Outdated, HealthInv, HealthType, Proxy
<1>2. /\ monitors' = [n \in ProxyNodes |-> IF n \in Outdated THEN RestartMonitor(monitors[n], busProxies[n].ip) ELSE monitors[n]]
      /\ busProxies' = [n \in ProxyNodes |-> IF n \in Outdated THEN [busProxies[n] EXCEPT !.conf = heartbeatConf] ELSE busProxies[n]]
      /\ UNCHANGED <<nodeIPToNodeID, beats, heartbeatConf, succeeded>>
  BY DEF UpdateProxiesConfig
<1>3. ASSUME NEW n \in ProxyNodes
      PROVE  /\ monitors'[n] \in Seq(Monitor) /\ Len(monitors'[n]) >= Len(monitors[n]) /\ Len(monitors[n]) \in Nat
             /\ \A k \in 1..Len(monitors'[n]) :
                    monitors'[n][k].healthy => k <= Len(monitors[n]) /\ monitors[n][k].healthy
  <2>1. monitors[n] \in Seq(Monitor) BY DEF HealthInv, HealthType
  <2>2. CASE n \notin Outdated
    <3>1. monitors'[n] = monitors[n] BY <1>2, <2>2
    <3> QED BY <2>1, <3>1
  <2>3. CASE n \in Outdated
    <3>1. monitors'[n] = RestartMonitor(monitors[n], busProxies[n].ip) BY <1>2, <2>3
    <3>2. Len(monitors[n]) > 0 /\ busProxies[n].ip \in ProxyIPs BY <1>1, <2>3
    <3>3. /\ monitors'[n] \in Seq(Monitor) /\ Len(monitors'[n]) = Len(monitors[n]) + 1
          /\ \A k \in 1..(Len(monitors[n]) + 1) : monitors'[n][k].healthy => k <= Len(monitors[n]) /\ monitors[n][k].healthy
      BY <2>1, <3>1, <3>2, RestartedMonitor
    <3> QED BY <2>1, <3>3
  <2> QED BY <2>2, <2>3
<1>4. MonitorsGrow
  <2>1. monitors' \in [ProxyNodes -> Seq(Monitor)] BY <1>2, <1>3
  <2> QED BY <2>1, <1>3 DEF MonitorsGrow
<1>5. ASSUME NEW n \in ProxyNodes, busProxies'[n] # None PROVE busProxies[n] # None /\ busProxies'[n] \in Proxy
  <2>1. CASE n \in Outdated
    <3>1. busProxies'[n] = [busProxies[n] EXCEPT !.conf = heartbeatConf] BY <1>2, <2>1
    <3> QED BY <1>1, <2>1, <3>1 DEF Proxy, Outdated, HealthInv, HealthType
  <2>2. CASE n \notin Outdated  BY <1>2, <1>5, <2>2 DEF HealthInv, HealthType
  <2> QED BY <2>1, <2>2
<1>6. HealthType' BY <1>2, <1>4, <1>5 DEF HealthInv, HealthType, MonitorsGrow
<1>7. \A n \in ProxyNodes : busProxies'[n] # None => Len(monitors'[n]) > 0
  <2> SUFFICES ASSUME NEW n \in ProxyNodes, busProxies'[n] # None PROVE Len(monitors'[n]) > 0 OBVIOUS
  <2>1. Len(monitors[n]) > 0 BY <1>5 DEF HealthInv
  <2>2. Len(monitors'[n]) \in Nat BY <1>3
  <2> QED BY <1>3, <2>1, <2>2
<1> QED BY <1>2, <1>4, <1>6, <1>7, GrowKeeps

\* One monitor is written by a heartbeat of its own, which goes on as beat.
LEMMA BeatWrites ==
    ASSUME HealthInv, NEW b \in Beats, beats[b] # None, NEW m \in Monitor, NEW beat,
           monitors' = [monitors EXCEPT ![beats[b].node] = [monitors[beats[b].node] EXCEPT ![beats[b].mon] = m]],
           beats' = [beats EXCEPT ![b] = beat],
           succeeded \subseteq succeeded',
           UNCHANGED <<busProxies, nodeIPToNodeID, heartbeatConf>>,
           m.healthy => <<beats[b].node, beats[b].mon>> \in succeeded',
           beat # None => /\ beat \in Beat /\ beat.node = beats[b].node /\ beat.mon = beats[b].mon
                          /\ beat.pc = "setHealthy" => <<beats[b].node, beats[b].mon>> \in succeeded'
    PROVE  HealthInv'
<1> DEFINE n == beats[b].node
           k == beats[b].mon
<1>1. n \in ProxyNodes /\ k \in DOMAIN monitors[n] BY DEF HealthInv, HealthType, Beat
<1>2. monitors \in [ProxyNodes -> Seq(Monitor)] BY DEF HealthInv, HealthType
<1>3. monitors' = [monitors EXCEPT ![n] = [monitors[n] EXCEPT ![k] = m]] OBVIOUS
<1>4. (m.healthy => <<n, k>> \in succeeded') /\ (beat # None => beat.node = n /\ beat.mon = k)
      /\ (beat # None /\ beat.pc = "setHealthy" => <<n, k>> \in succeeded')
  OBVIOUS
<1> HIDE DEF n, k
<1>5. /\ monitors' \in [ProxyNodes -> Seq(Monitor)]
      /\ \A p \in ProxyNodes : /\ Len(monitors'[p]) = Len(monitors[p]) /\ DOMAIN monitors'[p] = DOMAIN monitors[p]
                               /\ \A j \in DOMAIN monitors[p] : monitors'[p][j] = IF p = n /\ j = k THEN m ELSE monitors[p][j]
  <2>1. m \in Monitor OBVIOUS
  <2> QED BY ONLY <1>1, <1>2, <1>3, <2>1, OneMonitor, Zenon
<1>6. DOMAIN beats' = Beats /\ \A c \in Beats : beats'[c] = IF c = b THEN beat ELSE beats[c] BY DEF HealthInv, HealthType
<1>7. HealthType'
  <2>1. \A c \in Beats : beats'[c] # None => beats'[c] \in Beat BY <1>6 DEF HealthInv, HealthType
  <2> QED BY <1>5, <1>6, <2>1 DEF HealthInv, HealthType
<1>8. \A p \in ProxyNodes : busProxies'[p] # None => Len(monitors'[p]) > 0 BY <1>5 DEF HealthInv
<1>9. ASSUME NEW p \in ProxyNodes, NEW j \in DOMAIN monitors'[p], monitors'[p][j].healthy PROVE <<p, j>> \in succeeded'
  <2>1. j \in DOMAIN monitors[p] BY <1>5
  <2>2. CASE p = n /\ j = k  BY <1>4, <1>5, <1>9, <2>1, <2>2
  <2>3. CASE ~(p = n /\ j = k)
    <3>1. monitors[p][j].healthy BY <1>5, <1>9, <2>1, <2>3
    <3>2. <<p, j>> \in succeeded BY <2>1, <3>1 DEF HealthInv
    <3> QED BY <3>2
  <2> QED BY <2>2, <2>3
<1>10. ASSUME NEW c \in Beats, beats'[c] # None
       PROVE  /\ beats'[c].mon \in DOMAIN monitors'[beats'[c].node]
              /\ beats'[c].pc = "setHealthy" => <<beats'[c].node, beats'[c].mon>> \in succeeded'
  <2>1. CASE c = b
    <3>1. beats'[c] = beat /\ beat # None BY <1>6, <1>10, <2>1
    <3> QED BY <1>1, <1>4, <1>5, <3>1
  <2>2. CASE c # b
    <3>1. beats'[c] = beats[c] /\ beats[c] # None BY <1>6, <1>10, <2>2
    <3>2. beats[c].node \in ProxyNodes BY <3>1 DEF HealthInv, HealthType, Beat
    <3>3. /\ beats[c].mon \in DOMAIN monitors[beats[c].node]
          /\ beats[c].pc = "setHealthy" => <<beats[c].node, beats[c].mon>> \in succeeded
      BY <3>1 DEF HealthInv
    <3> QED BY <1>5, <3>1, <3>2, <3>3
  <2> QED BY <2>1, <2>2
<1> QED BY <1>7, <1>8, <1>9, <1>10 DEF HealthInv

\* doHeartBeat, after the call and after the status was stored.
LEMMA BeatKeeps ==
    ASSUME HealthInv, NEW b \in Beats, BeatFails(b) \/ BeatSucceeds(b) \/ StoreStatus(b) PROVE HealthInv'
<1> DEFINE n == beats[b].node
           k == beats[b].mon
           old == monitors[n][k]
<1>1. beats[b] # None /\ beats[b] \in Beat
  BY DEF BeatFails, BeatSucceeds, StoreStatus, HealthInv, HealthType
<1>2. n \in ProxyNodes /\ k \in DOMAIN monitors[n] /\ monitors[n] \in Seq(Monitor) /\ old \in Monitor
  <2>1. n \in ProxyNodes BY <1>1 DEF Beat
  <2>2. k \in DOMAIN monitors[n] BY <1>1 DEF HealthInv
  <2>3. monitors[n] \in Seq(Monitor) BY <2>1 DEF HealthInv, HealthType
  <2> HIDE DEF n, k
  <2>4. monitors[n][k] \in Monitor BY <2>2, <2>3
  <2> QED BY <2>1, <2>2, <2>3, <2>4
<1>3. old.healthy => <<n, k>> \in succeeded BY <1>2 DEF HealthInv
<1>4. DOMAIN monitors = ProxyNodes BY DEF HealthInv, HealthType
<1>5. CASE BeatFails(b)
  <2>0. PICK count : count = IF old.count < BeatThreshold THEN old.count + 1 ELSE old.count OBVIOUS
  <2>1. PICK m : m = [old EXCEPT !.count = count] OBVIOUS
  <2>2. m \in Monitor /\ m.healthy = old.healthy
    <3>1. old.count \in Nat BY <1>2 DEF Monitor
    <3>2. count \in Nat BY <2>0, <3>1
    <3> QED BY <1>2, <2>1, <3>2 DEF Monitor
  <2>3. monitors' = [monitors EXCEPT ![n] = [monitors[n] EXCEPT ![k] = m]] BY <1>5, <2>0, <2>1 DEF BeatFails
  <2>4. PICK beat : /\ beats' = [beats EXCEPT ![b] = beat]
                    /\ beat = None \/ beat = [beats[b] EXCEPT !.pc = "setUnhealthy"]
    BY <1>5 DEF BeatFails
  <2>5. beat # None => beat \in Beat /\ beat.node = n /\ beat.mon = k /\ beat.pc # "setHealthy"
    BY <1>1, <2>4 DEF Beat
  <2>6. UNCHANGED <<busProxies, nodeIPToNodeID, heartbeatConf, succeeded>> BY <1>5 DEF BeatFails
  <2> QED BY <1>1, <1>3, <2>2, <2>3, <2>4, <2>5, <2>6, BeatWrites
<1>6. CASE BeatSucceeds(b)
  <2>1. PICK m : m = [old EXCEPT !.count = 0] OBVIOUS
  <2>2. m \in Monitor /\ m.healthy = old.healthy BY <1>2, <2>1 DEF Monitor
  <2>3. monitors' = [monitors EXCEPT ![n] = [monitors[n] EXCEPT ![k] = m]] BY <1>6, <2>1 DEF BeatSucceeds
  <2>4. PICK beat : /\ beats' = [beats EXCEPT ![b] = beat]
                    /\ beat = None \/ beat = [beats[b] EXCEPT !.pc = "setHealthy"]
    BY <1>6 DEF BeatSucceeds
  <2>5. beat # None => beat \in Beat /\ beat.node = n /\ beat.mon = k
    BY <1>1, <2>4 DEF Beat
  <2>6. UNCHANGED <<busProxies, nodeIPToNodeID, heartbeatConf>> /\ succeeded' = succeeded \cup {<<n, k>>}
    BY <1>6 DEF BeatSucceeds
  <2> QED BY <1>1, <1>3, <2>2, <2>3, <2>4, <2>5, <2>6, BeatWrites
<1>7. CASE StoreStatus(b)
  <2>0. PICK up : up = (beats[b].pc = "setHealthy") OBVIOUS
  <2>1. PICK m : m = [old EXCEPT !.healthy = up] OBVIOUS
  <2>2. m \in Monitor /\ m.healthy = up BY <1>2, <2>0, <2>1 DEF Monitor
  <2>3. monitors' = [monitors EXCEPT ![n] = [monitors[n] EXCEPT ![k] = m]] BY <1>7, <2>0, <2>1 DEF StoreStatus
  <2>4. PICK beat : beat = [beats[b] EXCEPT !.pc = IF up THEN "callHealthy" ELSE "callUnhealthy"] OBVIOUS
  <2>5. beats' = [beats EXCEPT ![b] = beat] BY <1>7, <2>0, <2>4 DEF StoreStatus
  <2>6. beat \in Beat /\ beat.node = n /\ beat.mon = k /\ beat.pc # "setHealthy" BY <1>1, <2>4 DEF Beat
  <2>7. up => <<n, k>> \in succeeded BY <1>1, <2>0 DEF HealthInv
  <2>8. UNCHANGED <<busProxies, nodeIPToNodeID, heartbeatConf, succeeded>> BY <1>7 DEF StoreStatus
  <2> QED BY <1>1, <2>2, <2>3, <2>5, <2>6, <2>7, <2>8, BeatWrites
<1> QED BY <1>5, <1>6, <1>7

\* A heartbeat begins or is over: the monitors stay.
LEMMA BeatBeginsEnds ==
    ASSUME HealthInv, NEW b \in Beats,
           StatusCallback(b) \/ \E n \in ProxyNodes : \E k \in DOMAIN monitors[n] : BeatTick(b, n, k)
    PROVE  HealthInv'
<1>1. UNCHANGED <<busProxies, nodeIPToNodeID, monitors, heartbeatConf, succeeded>> BY DEF StatusCallback, BeatTick
<1>2. PICK beat : /\ beats' = [beats EXCEPT ![b] = beat]
                  /\ beat = None \/ \E n \in ProxyNodes : \E k \in DOMAIN monitors[n] : beat = [node |-> n, mon |-> k, pc |-> "sent"]
  BY DEF StatusCallback, BeatTick
<1>3. beat # None => beat \in Beat /\ beat.mon \in DOMAIN monitors[beat.node] /\ beat.pc # "setHealthy"
  BY <1>2 DEF Beat, HealthInv, HealthType
<1>4. DOMAIN beats' = Beats /\ \A c \in Beats : beats'[c] = IF c = b THEN beat ELSE beats[c] BY <1>2 DEF HealthInv, HealthType
<1>5. HealthType' BY <1>1, <1>3, <1>4 DEF HealthInv, HealthType
<1> QED BY <1>1, <1>3, <1>4, <1>5 DEF HealthInv

LEMMA HealthInvStep == HealthInv /\ [HealthNext]_healthVars => HealthInv'
<1> SUFFICES ASSUME HealthInv, [HealthNext]_healthVars PROVE HealthInv' OBVIOUS
<1>1. ASSUME UNCHANGED <<busProxies, nodeIPToNodeID, monitors, beats, heartbeatConf, succeeded>> PROVE HealthInv'
  BY <1>1 DEF HealthInv, HealthType
<1>2. CASE ChangeHeartbeatConf
  BY <1>2 DEF ChangeHeartbeatConf, HealthInv, HealthType
<1>3. ASSUME NEW contact \in BOOLEAN, NEW authorized \in BOOLEAN, CheckHealth(contact, authorized) PROVE HealthInv'
  BY <1>1, <1>3 DEF CheckHealth
<1>4. CASE RangeBegins \/ RangeEnds  BY <1>1, <1>4 DEF RangeBegins, RangeEnds
<1>5. ASSUME NEW n \in ProxyNodes, NEW reply \in {"200", "500", "other"}, AskProxy(n, reply) PROVE HealthInv'
  BY <1>1, <1>5 DEF AskProxy
<1>6. CASE UNCHANGED healthVars  BY <1>1, <1>6 DEF healthVars
<1> QED BY <1>2, <1>3, <1>4, <1>5, <1>6, AddKeeps, DeleteKeeps, UpdateConfigKeeps, BeatKeeps, BeatBeginsEnds DEF HealthNext

\* For every number of nodes, addresses, heartbeats in flight and restarts: a proxy is reported
\* healthy only on the word of the monitor that runs for it now (functiontask/bus_proxy.go).
THEOREM HealthIsOwnCorrect == HealthSpec => []HealthIsOwn
<1>1. HealthInit => HealthInv
  BY DEF HealthInit, HealthInv, HealthType
<1>2. HealthInv => HealthIsOwn
  <2> SUFFICES ASSUME HealthInv, NEW ip \in ProxyIPs, IsBusProxyHealthy(ip)
               PROVE  <<nodeIPToNodeID[ip], CurrentMonitor(nodeIPToNodeID[ip])>> \in succeeded
    BY DEF HealthIsOwn
  <2> DEFINE n == nodeIPToNodeID[ip]
  <2>1. n \in ProxyNodes /\ busProxies[n] # None /\ monitors[n][Len(monitors[n])].healthy
    BY DEF IsBusProxyHealthy, HealthInv, HealthType, CurrentMonitor
  <2>2. monitors[n] \in Seq(Monitor) /\ Len(monitors[n]) > 0 BY <2>1 DEF HealthInv, HealthType
  <2>3. Len(monitors[n]) \in DOMAIN monitors[n] BY <2>2
  <2> QED BY <2>1, <2>3 DEF HealthInv, CurrentMonitor
<1> QED BY <1>1, <1>2, HealthInvStep, PTL DEF HealthSpec

------------------------------------------------------------------------------
(* StreamConnection: the client                                               *)

\* A callback that is recorded is that of a call for this request, has not been called, and its
\* call is beyond the step that records it: it is not recorded again.
CallbackInv ==
    /\ called \in [RpcCalls -> Nat] /\ DOMAIN cbRecord = RequestIds
    /\ DOMAIN calls = RpcCalls /\ \A c \in RpcCalls : "pc" \in DOMAIN calls[c]
    /\ \A r \in RequestIds : cbRecord[r] # None =>
           /\ cbRecord[r] \in RpcCalls /\ RequestOf[cbRecord[r]] = r
           /\ called[cbRecord[r]] = 0 /\ calls[cbRecord[r]].pc \notin {"idle", "filled"}
    /\ \A c \in RpcCalls : called[c] <= 1 /\ (called[c] = 1 => calls[c].pc \notin {"idle", "filled"})

\* A call goes on, and no record but its own may go.
LEMMA CallGoesOn ==
    ASSUME CallbackInv, NEW c \in RpcCalls, UNCHANGED called,
           DOMAIN calls' = RpcCalls, "pc" \in DOMAIN calls'[c],
           \A d \in RpcCalls \ {c} : calls'[d] = calls[d],
           calls'[c].pc \in {"idle", "filled"} => calls[c].pc \in {"idle", "filled"},
           cbRecord' = cbRecord \/ cbRecord' = [cbRecord EXCEPT ![RequestOf[c]] = None]
    PROVE  CallbackInv'
<1>1. DOMAIN cbRecord' = RequestIds /\ \A r \in RequestIds : cbRecord'[r] # None => cbRecord'[r] = cbRecord[r]
  BY DEF CallbackInv
<1>2. \A d \in RpcCalls : calls[d].pc \notin {"idle", "filled"} => calls'[d].pc \notin {"idle", "filled"} OBVIOUS
<1>3. \A r \in RequestIds : cbRecord'[r] # None =>
           /\ cbRecord'[r] \in RpcCalls /\ RequestOf[cbRecord'[r]] = r
           /\ called'[cbRecord'[r]] = 0 /\ calls'[cbRecord'[r]].pc \notin {"idle", "filled"}
  BY <1>1, <1>2 DEF CallbackInv
<1>4. \A d \in RpcCalls : "pc" \in DOMAIN calls'[d] BY DEF CallbackInv
<1> QED BY <1>1, <1>2, <1>3, <1>4 DEF CallbackInv

LEMMA ReturnGoesOn ==
    ASSUME CallbackInv, NEW c \in RpcCalls, NEW res, Return(c, res), UNCHANGED called,
           cbRecord' = cbRecord \/ cbRecord' = [cbRecord EXCEPT ![RequestOf[c]] = None]
    PROVE  CallbackInv'
<1>1. calls' = [calls EXCEPT ![c] = [pc |-> "done", obj |-> None, res |-> res]] BY DEF Return
<1>2. DOMAIN calls' = RpcCalls /\ calls'[c] = [pc |-> "done", obj |-> None, res |-> res]
      /\ \A d \in RpcCalls \ {c} : calls'[d] = calls[d]
  BY <1>1 DEF CallbackInv
<1>3. "pc" \in DOMAIN calls'[c] /\ calls'[c].pc = "done" BY <1>2
<1> QED BY <1>2, <1>3, CallGoesOn

LEMMA CallKeeps ==
    ASSUME CallbackInv, NEW c \in RpcCalls,
           \/ \E o \in Objects : Acquire(c, o)
           \/ Record(c) \/ Enqueue(c) \/ SendTimeout(c) \/ GetAck(c)
    PROVE  CallbackInv'
<1>1. ASSUME NEW o \in Objects, Acquire(c, o) PROVE CallbackInv'
  <2>1. calls[c].pc = "idle" /\ calls' = [calls EXCEPT ![c] = [pc |-> "filled", obj |-> o, res |-> None]]
        /\ UNCHANGED <<called, cbRecord>>
    BY <1>1 DEF Acquire, recordVars
  <2>2. DOMAIN calls' = RpcCalls /\ calls'[c] = [pc |-> "filled", obj |-> o, res |-> None]
        /\ \A d \in RpcCalls \ {c} : calls'[d] = calls[d]
    BY <2>1 DEF CallbackInv
  <2>3. "pc" \in DOMAIN calls'[c] BY <2>2
  <2> QED BY <2>1, <2>2, <2>3, CallGoesOn
<1>2. CASE Record(c)
  <2>1. calls[c].pc = "filled" BY <1>2 DEF Record
  <2>2. CASE ~healthy
    <3>1. Return(c, "broken") /\ UNCHANGED <<called, cbRecord>> BY <1>2, <2>2 DEF Record, recordVars
    <3> QED BY <3>1, ReturnGoesOn
  <2>3. CASE healthy /\ cbRecord[RequestOf[c]] # None
    <3>1. Return(c, "exists") /\ UNCHANGED <<called, cbRecord>> BY <1>2, <2>3 DEF Record
    <3> QED BY <3>1, ReturnGoesOn
  <2>4. CASE healthy /\ cbRecord[RequestOf[c]] = None
    <3>1. /\ cbRecord' = [cbRecord EXCEPT ![RequestOf[c]] = c]
          /\ calls' = [calls EXCEPT ![c].pc = "recorded"] /\ UNCHANGED called
      BY <1>2, <2>4 DEF Record
    <3>2. called[c] = 0
      <4>1. called[c] \in Nat /\ called[c] <= 1 /\ called[c] # 1 BY <2>1 DEF CallbackInv
      <4> QED BY <4>1
    <3>3. DOMAIN calls' = RpcCalls /\ "pc" \in DOMAIN calls'[c] /\ calls'[c].pc = "recorded"
          /\ \A d \in RpcCalls \ {c} : calls'[d] = calls[d]
      BY <3>1 DEF CallbackInv
    <3>4. RequestOf[c] \in RequestIds BY DEF RequestIds
    <3>5. DOMAIN cbRecord' = RequestIds
          /\ \A r \in RequestIds : cbRecord'[r] = IF r = RequestOf[c] THEN c ELSE cbRecord[r]
      BY <3>1, <3>4 DEF CallbackInv
    <3>6. \A d \in RpcCalls : "pc" \in DOMAIN calls'[d]
                              /\ (calls[d].pc \notin {"idle", "filled"} => calls'[d].pc \notin {"idle", "filled"})
      BY <3>3 DEF CallbackInv
    <3>7. \A r \in RequestIds : cbRecord'[r] # None =>
             /\ cbRecord'[r] \in RpcCalls /\ RequestOf[cbRecord'[r]] = r
             /\ called'[cbRecord'[r]] = 0 /\ calls'[cbRecord'[r]].pc \notin {"idle", "filled"}
      BY <3>1, <3>2, <3>3, <3>5, <3>6 DEF CallbackInv
    <3> QED BY <3>1, <3>3, <3>5, <3>6, <3>7 DEF CallbackInv
  <2> QED BY <2>2, <2>3, <2>4
<1>3. CASE Enqueue(c)
  <2>1. UNCHANGED called BY <1>3 DEF Enqueue
  <2>2. CASE Len(chans["req"]) < ChannelSize
    <3>1. calls' = [calls EXCEPT ![c].pc = "waiting"] /\ UNCHANGED cbRecord BY <1>3, <2>2 DEF Enqueue
    <3>2. DOMAIN calls' = RpcCalls /\ "pc" \in DOMAIN calls'[c] /\ calls'[c].pc = "waiting"
          /\ \A d \in RpcCalls \ {c} : calls'[d] = calls[d]
      BY <3>1 DEF CallbackInv
    <3> QED BY <2>1, <3>1, <3>2, CallGoesOn
  <2>3. CASE ~(Len(chans["req"]) < ChannelSize)
    <3>1. Return(c, "blocked") /\ cbRecord' = [cbRecord EXCEPT ![RequestOf[c]] = None] BY <1>3, <2>3 DEF Enqueue
    <3> QED BY <2>1, <3>1, ReturnGoesOn
  <2> QED BY <2>2, <2>3
<1>4. CASE SendTimeout(c)
  <2>1. Return(c, "timeout") /\ cbRecord' = [cbRecord EXCEPT ![RequestOf[c]] = None] /\ UNCHANGED called
    BY <1>4 DEF SendTimeout
  <2> QED BY <2>1, ReturnGoesOn
<1>5. CASE GetAck(c)
  <2>1. Return(c, Head(ackCh[c])) /\ UNCHANGED <<called, cbRecord>> BY <1>5 DEF GetAck
  <2> QED BY <2>1, ReturnGoesOn
<1> QED BY <1>1, <1>2, <1>3, <1>4, <1>5

\* A notification takes the record away before it calls.
LEMMA NotifyKeeps == ASSUME CallbackInv, NEW m \in [kind : {"notify"}, id : RequestIds], RecvNotify(m) PROVE CallbackInv'
<1> DEFINE c == cbRecord[m.id]
<1>1. m.id \in RequestIds /\ UNCHANGED calls BY DEF RecvNotify, Received, callVars
<1>2. CASE c = None
  <2>1. UNCHANGED <<cbRecord, called>> BY <1>2 DEF RecvNotify
  <2> QED BY <1>1, <2>1 DEF CallbackInv
<1>3. CASE c # None
  <2>1. cbRecord' = [cbRecord EXCEPT ![m.id] = None] /\ called' = [called EXCEPT ![c] = @ + 1]
    BY <1>3 DEF RecvNotify, TakeCallback
  <2>2. c \in RpcCalls /\ RequestOf[c] = m.id /\ called[c] = 0 /\ calls[c].pc \notin {"idle", "filled"}
    BY <1>1, <1>3 DEF CallbackInv
  <2> HIDE DEF c
  <2>3. called' \in [RpcCalls -> Nat] /\ \A d \in RpcCalls : called'[d] = IF d = c THEN 1 ELSE called[d]
    BY <2>1, <2>2 DEF CallbackInv
  <2>4. DOMAIN cbRecord' = RequestIds /\ \A r \in RequestIds : cbRecord'[r] # None => r # m.id /\ cbRecord'[r] = cbRecord[r]
    BY <1>1, <2>1 DEF CallbackInv
  <2>5. \A r \in RequestIds : cbRecord'[r] # None =>
           /\ cbRecord'[r] \in RpcCalls /\ RequestOf[cbRecord'[r]] = r
           /\ called'[cbRecord'[r]] = 0 /\ calls'[cbRecord'[r]].pc \notin {"idle", "filled"}
    BY <1>1, <2>2, <2>3, <2>4 DEF CallbackInv
  <2> QED BY <1>1, <2>2, <2>3, <2>4, <2>5 DEF CallbackInv
<1> QED BY <1>2, <1>3

LEMMA CallbackInvStep == CallbackInv /\ [RpcNext]_rpcVars => CallbackInv'
<1> SUFFICES ASSUME CallbackInv, [RpcNext]_rpcVars PROVE CallbackInv' OBVIOUS
<1>1. ASSUME UNCHANGED <<calls, cbRecord, called>> PROVE CallbackInv' BY <1>1 DEF CallbackInv
<1>2. ASSUME NEW l \in {"req", "rsp"}, Take(l) \/ SendMessage(l) \/ SendFailed(l) PROVE CallbackInv'
  BY <1>1, <1>2 DEF Take, SendMessage, SendFailed, callVars, recordVars
<1>3. ASSUME NEW l, WaitForStreamFix(l) PROVE CallbackInv' BY <1>1, <1>3 DEF WaitForStreamFix, callVars, recordVars
<1>4. ASSUME NEW m \in [kind : {"rsp"}, id : RpcCalls], RecvResponse(m) PROVE CallbackInv'
  BY <1>1, <1>4 DEF RecvResponse, Received, callVars
<1>5. CASE RecvFailed \/ StartRepair \/ Repair \/ ReconnectStream
  BY <1>1, <1>5 DEF RecvFailed, StartRepair, Repair, ReconnectStream, callVars, recordVars
<1>6. ASSUME NEW i, KernelAnswers(i) \/ KernelNotifies(i) PROVE CallbackInv'
  BY <1>1, <1>6 DEF KernelAnswers, KernelNotifies, callVars, recordVars
<1>7. ASSUME NEW h, Break(h) PROVE CallbackInv' BY <1>1, <1>7 DEF Break, callVars, recordVars
<1>8. CASE UNCHANGED rpcVars BY <1>1, <1>8 DEF rpcVars
<1> QED BY <1>2, <1>3, <1>4, <1>5, <1>6, <1>7, <1>8, CallKeeps, NotifyKeeps DEF RpcNext

LEMMA CallbackOnceHolds == RpcSpec => []CallbackOnce
<1>1. RpcInit => CallbackInv BY DEF RpcInit, CallbackInv
<1>2. CallbackInv => CallbackOnce BY DEF CallbackInv, CallbackOnce
<1> QED BY <1>1, <1>2, CallbackInvStep, PTL DEF RpcSpec

------------------------------------------------------------------------------
(* StreamConnection: the server                                               *)

WorkState == [pc : {"none", "running", "filled", "waiting", "done"}, obj : ResponseObjects \cup {None}]
Response == [mid : ServerRequests \cup {None}, result : {Computed(r) : r \in ServerRequests} \cup {None}]

\* A response object is with one worker at a time and not in the pool meanwhile; from the end of the
\* handler on it holds that worker's answer.
OwnedResponses ==
    /\ work \in [ServerRequests -> WorkState] /\ rsp \in [ResponseObjects -> Response]
    /\ \A r \in ServerRequests :
           /\ work[r].obj # None => work[r].pc \in {"running", "filled", "waiting"} /\ work[r].obj \notin rspPool
           /\ work[r].pc = "running" /\ work[r].obj # None => rsp[work[r].obj].mid = r
           /\ work[r].pc \in {"filled", "waiting"} =>
                  work[r].obj # None /\ rsp[work[r].obj] = [mid |-> r, result |-> Computed(r)]
    /\ \A r, q \in ServerRequests : work[r].obj # None /\ work[r].obj = work[q].obj => r = q

\* The object is that of a worker who waits for it to be sent, and was not told yet.
OnItsWay(o) == \E r \in ServerRequests : work[r].pc = "waiting" /\ work[r].obj = o /\ r \notin rspAcks

\* As long as no Send gave up, what is queued or held by the send loop is on its way, and there
\* only once: the worker who is told that its object was sent may give it back.
QueuedOnce ==
    /\ sendCh \in Seq(ResponseObjects) /\ sending \in ResponseObjects \cup {None}
    /\ \A r \in rspAcks : r \in ServerRequests /\ work[r].pc \in {"waiting", "done"}
    /\ \A i \in 1..Len(sendCh) : OnItsWay(sendCh[i]) /\ sendCh[i] # sending
    /\ sending # None => OnItsWay(sending)
    /\ \A i, j \in 1..Len(sendCh) : sendCh[i] = sendCh[j] => i = j

SrvInv == OwnedResponses /\ (late = {} => QueuedOnce) /\ AnswerIsComputed

\* A step of one worker leaves the others, and their objects, alone.
LEMMA OwnerMoves ==
    ASSUME OwnedResponses, NEW r \in ServerRequests, NEW w \in WorkState, work' = [work EXCEPT ![r] = w],
           rsp' \in [ResponseObjects -> Response],
           \A q \in ServerRequests \ {r} : work[q].obj # None =>
               rsp'[work[q].obj] = rsp[work[q].obj] /\ work[q].obj \notin rspPool' /\ work[q].obj # w.obj,
           w.obj # None => w.pc \in {"running", "filled", "waiting"} /\ w.obj \notin rspPool',
           w.pc = "running" /\ w.obj # None => rsp'[w.obj].mid = r,
           w.pc \in {"filled", "waiting"} => w.obj # None /\ rsp'[w.obj] = [mid |-> r, result |-> Computed(r)]
    PROVE  OwnedResponses'
<1>1. work' \in [ServerRequests -> WorkState] /\ \A q \in ServerRequests : work'[q] = IF q = r THEN w ELSE work[q]
  BY DEF OwnedResponses
<1>2. \A q \in ServerRequests :
           /\ work'[q].obj # None => work'[q].pc \in {"running", "filled", "waiting"} /\ work'[q].obj \notin rspPool'
           /\ work'[q].pc = "running" /\ work'[q].obj # None => rsp'[work'[q].obj].mid = q
           /\ work'[q].pc \in {"filled", "waiting"} =>
                  work'[q].obj # None /\ rsp'[work'[q].obj] = [mid |-> q, result |-> Computed(q)]
  <2> SUFFICES ASSUME NEW q \in ServerRequests
               PROVE  /\ work'[q].obj # None => work'[q].pc \in {"running", "filled", "waiting"} /\ work'[q].obj \notin rspPool'
                      /\ work'[q].pc = "running" /\ work'[q].obj # None => rsp'[work'[q].obj].mid = q
                      /\ work'[q].pc \in {"filled", "waiting"} =>
                             work'[q].obj # None /\ rsp'[work'[q].obj] = [mid |-> q, result |-> Computed(q)]
    OBVIOUS
  <2>1. CASE q = r BY <1>1, <2>1
  <2>2. CASE q # r BY <1>1, <2>2 DEF OwnedResponses
  <2> QED BY <2>1, <2>2
<1>3. \A p, q \in ServerRequests : work'[p].obj # None /\ work'[p].obj = work'[q].obj => p = q
  BY <1>1 DEF OwnedResponses
<1> QED BY <1>1, <1>2, <1>3 DEF OwnedResponses

\* A response object that is given back is nobody's.
LEMMA ReleaseKeepsOwned ==
    ASSUME OwnedResponses, NEW r \in ServerRequests, work[r].pc \in {"filled", "waiting"}, ReleaseResponse(r)
    PROVE  OwnedResponses'
<1>1. PICK o \in ResponseObjects : o = work[r].obj /\ o # None BY NoneAssumption DEF OwnedResponses, WorkState
<1>2. PICK w : w = [pc |-> "done", obj |-> None] OBVIOUS
<1>3. w \in WorkState /\ w.pc = "done" /\ w.obj = None BY <1>2 DEF WorkState
<1>4. NoResponse \in Response BY DEF NoResponse, Response
<1>5. rsp' = [rsp EXCEPT ![o] = NoResponse] /\ rspPool' = rspPool \cup {o} /\ work' = [work EXCEPT ![r] = w]
  BY <1>1, <1>2 DEF ReleaseResponse
<1>6. rsp' \in [ResponseObjects -> Response] /\ \A p \in ResponseObjects : p # o => rsp'[p] = rsp[p]
  BY <1>4, <1>5 DEF OwnedResponses
<1>7. \A q \in ServerRequests \ {r} : work[q].obj # None =>
          work[q].obj \in ResponseObjects /\ work[q].obj # o /\ work[q].obj \notin rspPool
  BY <1>1 DEF OwnedResponses, WorkState
<1>8. \A q \in ServerRequests \ {r} : work[q].obj # None =>
               rsp'[work[q].obj] = rsp[work[q].obj] /\ work[q].obj \notin rspPool' /\ work[q].obj # w.obj
  BY <1>3, <1>5, <1>6, <1>7
<1> QED BY <1>3, <1>5, <1>6, <1>8, OwnerMoves

LEMMA OwnedStep == ASSUME OwnedResponses, [SrvNext]_srvVars PROVE OwnedResponses'
<1>0. ASSUME UNCHANGED <<work, rspPool, rsp>> PROVE OwnedResponses' BY <1>0 DEF OwnedResponses
<1>1. ASSUME NEW r \in ServerRequests, HandleMessage(r) PROVE OwnedResponses'
  <2>1. PICK w : w = [work[r] EXCEPT !.pc = "running"] OBVIOUS
  <2>2. work[r] \in WorkState /\ work[r].pc = "none" BY <1>1 DEF HandleMessage, OwnedResponses
  <2>3. work[r].obj = None BY <2>2 DEF OwnedResponses
  <2>4. w \in WorkState /\ w.pc = "running" /\ w.obj = None BY <2>1, <2>2, <2>3 DEF WorkState
  <2>5. work' = [work EXCEPT ![r] = w] /\ UNCHANGED <<rsp, rspPool>> BY <1>1, <2>1 DEF HandleMessage
  <2>6. rsp' \in [ResponseObjects -> Response] BY <2>5 DEF OwnedResponses
  <2>7. \A q \in ServerRequests \ {r} : work[q].obj # None =>
               rsp'[work[q].obj] = rsp[work[q].obj] /\ work[q].obj \notin rspPool' /\ work[q].obj # w.obj
    BY <2>4, <2>5 DEF OwnedResponses
  <2> QED BY <2>4, <2>5, <2>6, <2>7, OwnerMoves
<1>2. ASSUME NEW r \in ServerRequests, NEW o \in ResponseObjects, AcquireResponse(r, o) PROVE OwnedResponses'
  <2>1. PICK w : w = [work[r] EXCEPT !.obj = o] OBVIOUS
  <2>2. work[r] \in WorkState /\ work[r].pc = "running" /\ o # None /\ o \in rspPool
    BY <1>2, NoneAssumption DEF AcquireResponse, OwnedResponses
  <2>3. w \in WorkState /\ w.pc = "running" /\ w.obj = o BY <2>1, <2>2 DEF WorkState
  <2>4. PICK a : a = [mid |-> r, result |-> None] OBVIOUS
  <2>5. a \in Response /\ a.mid = r BY <2>4 DEF Response
  <2>6. work' = [work EXCEPT ![r] = w] /\ rspPool' = rspPool \ {o} /\ rsp' = [rsp EXCEPT ![o] = a]
    BY <1>2, <2>1, <2>4 DEF AcquireResponse
  <2>7. rsp' \in [ResponseObjects -> Response] /\ rsp'[o] = a /\ \A p \in ResponseObjects : p # o => rsp'[p] = rsp[p]
    BY <2>5, <2>6 DEF OwnedResponses
  <2>8. \A q \in ServerRequests \ {r} : work[q].obj # None =>
            work[q].obj \in ResponseObjects /\ work[q].obj # o /\ work[q].obj \notin rspPool
    BY <2>2 DEF OwnedResponses, WorkState
  <2>9. \A q \in ServerRequests \ {r} : work[q].obj # None =>
               rsp'[work[q].obj] = rsp[work[q].obj] /\ work[q].obj \notin rspPool' /\ work[q].obj # w.obj
    BY <2>3, <2>6, <2>7, <2>8
  <2>10. /\ w.obj # None => w.pc \in {"running", "filled", "waiting"} /\ w.obj \notin rspPool'
         /\ w.pc = "running" /\ w.obj # None => rsp'[w.obj].mid = r
         /\ w.pc \in {"filled", "waiting"} => w.obj # None /\ rsp'[w.obj] = [mid |-> r, result |-> Computed(r)]
    BY <2>3, <2>5, <2>6, <2>7
  <2>11. w \in WorkState /\ work' = [work EXCEPT ![r] = w] /\ rsp' \in [ResponseObjects -> Response] BY <2>3, <2>6, <2>7
  <2> QED BY ONLY OwnedResponses, r \in ServerRequests, <2>9, <2>10, <2>11, OwnerMoves, Zenon
<1>3. ASSUME NEW r \in ServerRequests, RunHandler(r) PROVE OwnedResponses'
  <2>1. PICK w : w = [work[r] EXCEPT !.pc = "filled"] OBVIOUS
  <2>2. work[r] \in WorkState /\ work[r].pc = "running" /\ work[r].obj # None BY <1>3 DEF RunHandler, OwnedResponses
  <2>3. PICK o \in ResponseObjects : o = work[r].obj /\ o # None BY <2>2 DEF WorkState
  <2>4. w \in WorkState /\ w.pc = "filled" /\ w.obj = o BY <2>1, <2>2, <2>3 DEF WorkState
  <2>5. PICK a : a = [rsp[o] EXCEPT !.result = Computed(r)] OBVIOUS
  <2>6. rsp[o] \in Response /\ rsp[o].mid = r /\ o \notin rspPool BY <2>2, <2>3 DEF OwnedResponses
  <2>7. a \in Response /\ a = [mid |-> r, result |-> Computed(r)] BY <2>5, <2>6 DEF Response
  <2>8. work' = [work EXCEPT ![r] = w] /\ rspPool' = rspPool /\ rsp' = [rsp EXCEPT ![o] = a]
    BY <1>3, <2>1, <2>3, <2>5 DEF RunHandler
  <2>9. rsp' \in [ResponseObjects -> Response] /\ rsp'[o] = a /\ \A p \in ResponseObjects : p # o => rsp'[p] = rsp[p]
    BY <2>7, <2>8 DEF OwnedResponses
  <2>10. \A q \in ServerRequests \ {r} : work[q].obj # None =>
            work[q].obj \in ResponseObjects /\ work[q].obj # o /\ work[q].obj \notin rspPool
    BY <2>3 DEF OwnedResponses, WorkState
  <2>11. \A q \in ServerRequests \ {r} : work[q].obj # None =>
               rsp'[work[q].obj] = rsp[work[q].obj] /\ work[q].obj \notin rspPool' /\ work[q].obj # w.obj
    BY <2>4, <2>8, <2>9, <2>10
  <2>12. /\ w.obj # None => w.pc \in {"running", "filled", "waiting"} /\ w.obj \notin rspPool'
         /\ w.pc = "running" /\ w.obj # None => rsp'[w.obj].mid = r
         /\ w.pc \in {"filled", "waiting"} => w.obj # None /\ rsp'[w.obj] = [mid |-> r, result |-> Computed(r)]
    BY <2>3, <2>4, <2>6, <2>7, <2>8, <2>9
  <2>13. w \in WorkState /\ work' = [work EXCEPT ![r] = w] /\ rsp' \in [ResponseObjects -> Response] BY <2>4, <2>8, <2>9
  <2> QED BY ONLY OwnedResponses, r \in ServerRequests, <2>11, <2>12, <2>13, OwnerMoves, Zenon
<1>4. ASSUME NEW r \in ServerRequests, QueueResponse(r) PROVE OwnedResponses'
  <2>1. CASE connClosed
    <3>1. work[r].pc = "filled" /\ ReleaseResponse(r) BY <1>4, <2>1 DEF QueueResponse
    <3> QED BY <3>1, ReleaseKeepsOwned
  <2>2. CASE ~connClosed
    <3>1. PICK w : w = [work[r] EXCEPT !.pc = "waiting"] OBVIOUS
    <3>2. work[r] \in WorkState /\ work[r].pc = "filled" BY <1>4 DEF QueueResponse, OwnedResponses
    <3>3. w \in WorkState /\ w.pc = "waiting" /\ w.obj = work[r].obj BY <3>1, <3>2 DEF WorkState
    <3>4. work' = [work EXCEPT ![r] = w] /\ UNCHANGED <<rsp, rspPool>> BY <1>4, <2>2, <3>1 DEF QueueResponse
    <3>5. w.obj # None /\ rsp'[w.obj] = [mid |-> r, result |-> Computed(r)] /\ w.obj \notin rspPool'
      BY <3>2, <3>3, <3>4 DEF OwnedResponses
    <3>6. rsp' \in [ResponseObjects -> Response] BY <3>4 DEF OwnedResponses
    <3>7. \A q \in ServerRequests \ {r} : work[q].obj # None =>
               rsp'[work[q].obj] = rsp[work[q].obj] /\ work[q].obj \notin rspPool' /\ work[q].obj # w.obj
      BY <3>3, <3>4 DEF OwnedResponses
    <3> QED BY <3>3, <3>4, <3>5, <3>6, <3>7, OwnerMoves
  <2> QED BY <2>1, <2>2
<1>5. ASSUME NEW r \in ServerRequests, SendEnds(r) PROVE OwnedResponses'
  BY <1>5, ReleaseKeepsOwned DEF SendEnds
<1>6. CASE TakeResponse \/ SendResponse \/ ClientLeaves \/ CloseConnection \/ Stop \/ Stopped \/ UNCHANGED srvVars
  BY <1>0, <1>6 DEF TakeResponse, SendResponse, ClientLeaves, CloseConnection, Stop, Stopped, srvVars
<1> QED BY <1>1, <1>2, <1>3, <1>4, <1>5, <1>6 DEF SrvNext

\* The same after a step.
StillOnItsWay(o) == \E r \in ServerRequests : work'[r].pc = "waiting" /\ work'[r].obj = o /\ r \notin rspAcks'

\* Workers whose objects are on their way stay; the others may move on.
LEMMA QueueUnmoved ==
    ASSUME QueuedOnce, UNCHANGED <<sendCh, sending, rspAcks>>,
           \A q \in ServerRequests :
               /\ work[q].pc = "waiting" /\ q \notin rspAcks => work'[q].pc = "waiting" /\ work'[q].obj = work[q].obj
               /\ work[q].pc \in {"waiting", "done"} => work'[q].pc \in {"waiting", "done"}
    PROVE  QueuedOnce'
<1>1. \A o : OnItsWay(o) => StillOnItsWay(o) BY DEF OnItsWay, StillOnItsWay
<1> QED BY <1>1 DEF QueuedOnce, OnItsWay, StillOnItsWay

LEMMA WorkerKeepsQueue ==
    ASSUME OwnedResponses, QueuedOnce, NEW r \in ServerRequests, late' = {},
           \/ HandleMessage(r) \/ RunHandler(r) \/ QueueResponse(r) \/ SendEnds(r)
           \/ \E o \in ResponseObjects : AcquireResponse(r, o)
    PROVE  QueuedOnce'
<1>1. DOMAIN work = ServerRequests /\ \A q \in ServerRequests : "pc" \in DOMAIN work[q] /\ "obj" \in DOMAIN work[q]
  BY DEF OwnedResponses, WorkState
<1>2. CASE HandleMessage(r) \/ RunHandler(r) \/ \E o \in ResponseObjects : AcquireResponse(r, o)
  <2>1. UNCHANGED <<sendCh, sending, rspAcks>> BY <1>2 DEF HandleMessage, RunHandler, AcquireResponse
  <2>2. work[r].pc \notin {"waiting", "done"} /\ \A q \in ServerRequests \ {r} : work'[q] = work[q]
    BY <1>1, <1>2 DEF HandleMessage, RunHandler, AcquireResponse
  <2> QED BY <2>1, <2>2, QueueUnmoved
<1>3. ASSUME ReleaseResponse(r), UNCHANGED <<sendCh, sending, rspAcks>>, work[r].pc = "waiting" => r \in rspAcks
      PROVE  QueuedOnce'
  <2>1. work'[r].pc = "done" /\ \A q \in ServerRequests \ {r} : work'[q] = work[q]
    BY <1>1, <1>3 DEF ReleaseResponse
  <2> QED BY <1>3, <2>1, QueueUnmoved
<1>4. CASE SendEnds(r)
  <2>1. r \in rspAcks BY <1>4 DEF SendEnds
  <2> QED BY <1>3, <1>4, <2>1 DEF SendEnds
<1>5. CASE QueueResponse(r) /\ connClosed
  BY <1>3, <1>5 DEF QueueResponse
<1>6. CASE QueueResponse(r) /\ ~connClosed
  <2>1. work[r].pc = "filled" /\ UNCHANGED <<sending, rspAcks>> BY <1>6 DEF QueueResponse
  <2>2. PICK o \in ResponseObjects : o = work[r].obj /\ o # None BY <2>1 DEF OwnedResponses, WorkState
  <2>3. r \notin rspAcks BY <2>1 DEF QueuedOnce
  <2>4. sendCh' = Append(sendCh, o) /\ work' = [work EXCEPT ![r].pc = "waiting"] BY <1>6, <2>2 DEF QueueResponse
  <2>5. work'[r].pc = "waiting" /\ work'[r].obj = o /\ \A q \in ServerRequests \ {r} : work'[q] = work[q]
    BY <1>1, <2>2, <2>4
  <2>6. \A p : OnItsWay(p) => StillOnItsWay(p) /\ p # o
    <3> SUFFICES ASSUME NEW p, OnItsWay(p) PROVE StillOnItsWay(p) /\ p # o OBVIOUS
    <3>1. PICK q \in ServerRequests : work[q].pc = "waiting" /\ work[q].obj = p /\ q \notin rspAcks BY DEF OnItsWay, StillOnItsWay
    <3>2. q # r BY <2>1, <3>1
    <3>3. p # o BY <2>2, <3>1, <3>2 DEF OwnedResponses
    <3> QED BY <2>1, <2>5, <3>1, <3>2, <3>3 DEF OnItsWay, StillOnItsWay
  <2>7. StillOnItsWay(o) BY <2>1, <2>3, <2>5 DEF OnItsWay, StillOnItsWay
  <2>8. sendCh \in Seq(ResponseObjects) BY DEF QueuedOnce
  <2>9. sendCh' \in Seq(ResponseObjects) /\ Len(sendCh') = Len(sendCh) + 1 /\ Len(sendCh) \in Nat
        /\ \A i \in 1..Len(sendCh') : sendCh'[i] = IF i <= Len(sendCh) THEN sendCh[i] ELSE o
    BY <2>4, <2>8
  <2>10. \A i \in 1..Len(sendCh) : StillOnItsWay(sendCh[i]) /\ sendCh[i] # sending /\ sendCh[i] # o
    BY <2>6 DEF QueuedOnce
  <2>11. sending # None => StillOnItsWay(sending) /\ sending # o
    BY <2>6 DEF QueuedOnce
  <2>12. \A q \in rspAcks' : q \in ServerRequests /\ work'[q].pc \in {"waiting", "done"}
    BY <2>1, <2>5 DEF QueuedOnce
  <2>13. \A i \in 1..Len(sendCh') : StillOnItsWay(sendCh'[i]) /\ sendCh'[i] # sending'
    <3> SUFFICES ASSUME NEW i \in 1..Len(sendCh') PROVE StillOnItsWay(sendCh'[i]) /\ sendCh'[i] # sending' OBVIOUS
    <3>1. CASE i <= Len(sendCh)
      <4>1. i \in 1..Len(sendCh) /\ sendCh'[i] = sendCh[i] BY <2>9, <3>1
      <4>2. StillOnItsWay(sendCh[i]) /\ sendCh[i] # sending BY <2>10, <4>1
      <4> QED BY <2>1, <4>1, <4>2 DEF OnItsWay, StillOnItsWay
    <3>2. CASE ~(i <= Len(sendCh))
      <4>1. sendCh'[i] = o BY <2>9, <3>2
      <4> QED BY <2>1, <2>2, <2>7, <2>11, <4>1 DEF OnItsWay, StillOnItsWay
    <3> QED BY <3>1, <3>2
  <2>14. \A i, j \in 1..Len(sendCh') : sendCh'[i] = sendCh'[j] => i = j
    <3> SUFFICES ASSUME NEW i \in 1..Len(sendCh'), NEW j \in 1..Len(sendCh'), sendCh'[i] = sendCh'[j] PROVE i = j OBVIOUS
    <3>1. CASE i <= Len(sendCh) /\ j <= Len(sendCh) BY <2>9, <3>1 DEF QueuedOnce
    <3>2. CASE ~(i <= Len(sendCh)) /\ ~(j <= Len(sendCh)) BY <2>9, <3>2
    <3>3. CASE i <= Len(sendCh) /\ ~(j <= Len(sendCh)) BY <2>9, <2>10, <3>3
    <3>4. CASE ~(i <= Len(sendCh)) /\ j <= Len(sendCh) BY <2>9, <2>10, <3>4
    <3> QED BY <3>1, <3>2, <3>3, <3>4
  <2>15. sending' # None => StillOnItsWay(sending') BY <2>1, <2>11 DEF OnItsWay, StillOnItsWay
  <2>16. sending' \in ResponseObjects \cup {None} BY <2>1 DEF QueuedOnce
  <2> QED BY <2>9, <2>12, <2>13, <2>14, <2>15, <2>16 DEF QueuedOnce, OnItsWay, StillOnItsWay
<1> QED BY <1>2, <1>4, <1>5, <1>6

\* The send loop takes the first object; it was in the queue once.
LEMMA TakeKeepsQueue == ASSUME QueuedOnce, TakeResponse PROVE QueuedOnce'
<1>1. UNCHANGED <<work, rspAcks>> /\ sending' = Head(sendCh) /\ sendCh' = Tail(sendCh) /\ sendCh # <<>> BY DEF TakeResponse
<1>2. sendCh \in Seq(ResponseObjects) BY DEF QueuedOnce
<1>3. /\ 1 \in 1..Len(sendCh) /\ sending' = sendCh[1] /\ sendCh' \in Seq(ResponseObjects) /\ sending' \in ResponseObjects
      /\ Len(sendCh') = Len(sendCh) - 1 /\ Len(sendCh) \in Nat
      /\ \A i \in 1..Len(sendCh') : sendCh'[i] = sendCh[i + 1]
  BY <1>1, <1>2
<1>4. \A i \in 1..Len(sendCh') : i + 1 \in 1..Len(sendCh) /\ i + 1 # 1 BY <1>3
<1>5. \A o : OnItsWay(o) => StillOnItsWay(o) BY <1>1 DEF OnItsWay, StillOnItsWay
<1>6. StillOnItsWay(sending')
  <2>1. OnItsWay(sendCh[1]) BY <1>3 DEF QueuedOnce
  <2> QED BY <1>1, <1>3, <2>1 DEF OnItsWay, StillOnItsWay
<1>7. \A i \in 1..Len(sendCh') : StillOnItsWay(sendCh'[i]) /\ sendCh'[i] # sending'
  <2> SUFFICES ASSUME NEW i \in 1..Len(sendCh') PROVE StillOnItsWay(sendCh'[i]) /\ sendCh'[i] # sending' OBVIOUS
  <2>1. OnItsWay(sendCh[i + 1]) /\ sendCh[i + 1] # sendCh[1] BY <1>3, <1>4 DEF QueuedOnce
  <2> QED BY <1>1, <1>3, <2>1 DEF OnItsWay, StillOnItsWay
<1>8. \A i, j \in 1..Len(sendCh') : sendCh'[i] = sendCh'[j] => i = j
  <2> SUFFICES ASSUME NEW i \in 1..Len(sendCh'), NEW j \in 1..Len(sendCh'), sendCh'[i] = sendCh'[j] PROVE i = j OBVIOUS
  <2>1. i + 1 = j + 1 BY <1>3, <1>4 DEF QueuedOnce
  <2> QED BY <1>3, <2>1
<1>9. \A q \in rspAcks' : q \in ServerRequests /\ work'[q].pc \in {"waiting", "done"} BY <1>1 DEF QueuedOnce
<1> QED BY <1>3, <1>6, <1>7, <1>8, <1>9 DEF QueuedOnce, OnItsWay, StillOnItsWay

\* The send loop sends: the object holds its owner's answer, and only that owner is told.
LEMMA SendKeeps ==
    ASSUME OwnedResponses, QueuedOnce, AnswerIsComputed, late = {}, SendResponse
    PROVE  QueuedOnce' /\ AnswerIsComputed'
<1>1. sending # None /\ sending' = None /\ UNCHANGED <<work, rsp, sendCh, late>> BY DEF SendResponse
<1>2. PICK r \in ServerRequests : work[r].pc = "waiting" /\ work[r].obj = sending /\ r \notin rspAcks
  BY <1>1 DEF QueuedOnce, OnItsWay, StillOnItsWay
<1>3. rsp[sending] = [mid |-> r, result |-> Computed(r)] BY <1>2 DEF OwnedResponses
<1>4. rsp[sending].mid = r /\ rsp[sending].result = Computed(r) /\ r # None BY <1>3, NoneAssumption
<1>5. rspAcks' = rspAcks \cup {r} BY <1>4 DEF SendResponse
<1>6. answers' = answers \/ answers' = answers \cup {rsp[sending]} BY DEF SendResponse
<1>7. \A a \in answers' : a \in answers \/ a = rsp[sending] BY <1>6
<1>8. AnswerIsComputed' BY <1>4, <1>7 DEF AnswerIsComputed
<1>9. \A i \in 1..Len(sendCh) : StillOnItsWay(sendCh[i]) /\ sendCh[i] # None
  <2> SUFFICES ASSUME NEW i \in 1..Len(sendCh) PROVE StillOnItsWay(sendCh[i]) /\ sendCh[i] # None OBVIOUS
  <2>1. PICK q \in ServerRequests : work[q].pc = "waiting" /\ work[q].obj = sendCh[i] /\ q \notin rspAcks
    BY DEF QueuedOnce, OnItsWay, StillOnItsWay
  <2>2. sendCh[i] # sending BY DEF QueuedOnce
  <2>3. q # r BY <1>2, <2>1, <2>2
  <2>4. sendCh[i] # None BY <2>1 DEF OwnedResponses
  <2> QED BY <1>1, <1>5, <2>1, <2>3, <2>4 DEF OnItsWay, StillOnItsWay
<1>10. \A i \in 1..Len(sendCh') : StillOnItsWay(sendCh'[i]) /\ sendCh'[i] # sending'
  BY <1>1, <1>9 DEF OnItsWay, StillOnItsWay
<1>11. \A q \in rspAcks' : q \in ServerRequests /\ work'[q].pc \in {"waiting", "done"} BY <1>1, <1>2, <1>5 DEF QueuedOnce
<1>12. QueuedOnce' BY <1>1, <1>10, <1>11 DEF QueuedOnce, OnItsWay, StillOnItsWay
<1> QED BY <1>8, <1>12

LEMMA SrvInvStep == SrvInv /\ [SrvNext]_srvVars => SrvInv'
<1> SUFFICES ASSUME SrvInv, [SrvNext]_srvVars PROVE SrvInv' OBVIOUS
<1>1. OwnedResponses' BY OwnedStep DEF SrvInv
<1>2. late \subseteq late'
  BY DEF SrvNext, srvVars, HandleMessage, RunHandler, QueueResponse, SendEnds, AcquireResponse, TakeResponse, SendResponse,
         ClientLeaves, CloseConnection, Stop, Stopped
<1>3. SUFFICES ASSUME late' = {} PROVE QueuedOnce' /\ AnswerIsComputed'
  BY <1>1 DEF SrvInv, AnswerIsComputed
<1>4. late = {} /\ OwnedResponses /\ QueuedOnce /\ AnswerIsComputed BY <1>2, <1>3 DEF SrvInv
<1>5. ASSUME NEW r \in ServerRequests,
             \/ HandleMessage(r) \/ RunHandler(r) \/ QueueResponse(r) \/ SendEnds(r)
             \/ \E o \in ResponseObjects : AcquireResponse(r, o)
      PROVE  QueuedOnce' /\ AnswerIsComputed'
  <2>1. UNCHANGED answers BY <1>5 DEF HandleMessage, RunHandler, QueueResponse, SendEnds, AcquireResponse
  <2>2. QueuedOnce' BY <1>3, <1>4, <1>5, WorkerKeepsQueue
  <2> QED BY <1>4, <2>1, <2>2 DEF AnswerIsComputed
<1>6. CASE TakeResponse
  <2>1. UNCHANGED answers BY <1>6 DEF TakeResponse
  <2> QED BY <1>4, <1>6, <2>1, TakeKeepsQueue DEF AnswerIsComputed
<1>7. CASE SendResponse BY <1>4, <1>7, SendKeeps
<1>8. CASE ClientLeaves \/ CloseConnection \/ Stop \/ Stopped \/ UNCHANGED srvVars
  <2>1. UNCHANGED <<work, sendCh, sending, rspAcks, answers>> BY <1>8 DEF ClientLeaves, CloseConnection, Stop, Stopped, srvVars
  <2>2. QueuedOnce' BY <1>4, <2>1, QueueUnmoved
  <2> QED BY <1>4, <2>1, <2>2 DEF AnswerIsComputed
<1> QED BY <1>5, <1>6, <1>7, <1>8 DEF SrvNext

\* For every number of requests, objects, workers and streams, and whatever breaks: a callback is
\* called at most once, and unless a Send gave up every answer is the handler's for its message ID,
\* though both sides take their messages from pools (kernelrpc).
THEOREM RpcAnsweredOnceCorrect == RpcSpec /\ SrvSpec => []RpcAnsweredOnce
<1>1. SrvInit => SrvInv
  <2> SUFFICES ASSUME SrvInit PROVE SrvInv OBVIOUS
  <2>1. NoResponse \in Response /\ [pc |-> "none", obj |-> None] \in WorkState BY DEF NoResponse, Response, WorkState
  <2>2. OwnedResponses BY <2>1 DEF SrvInit, OwnedResponses
  <2>3. QueuedOnce BY DEF SrvInit, QueuedOnce
  <2>4. AnswerIsComputed BY DEF SrvInit, AnswerIsComputed
  <2> QED BY <2>2, <2>3, <2>4 DEF SrvInv
<1>2. SrvInv => AnswerIsComputed BY DEF SrvInv
<1>3. SrvSpec => []AnswerIsComputed BY <1>1, <1>2, SrvInvStep, PTL DEF SrvSpec
<1>4. CallbackOnce /\ AnswerIsComputed => RpcAnsweredOnce BY DEF RpcAnsweredOnce
<1> QED BY <1>3, <1>4, CallbackOnceHolds, PTL

------------------------------------------------------------------------------
(* SandboxRoutes: whom an answer is about                                     *)

\* A cached route names the tenant of its own generation, and a request on the control port that was
\* proxied, or answered about a generation, came from the tenant of that generation.
OwnerInv ==
    /\ \A p \in DOMAIN routes : routes[p].tenant = Tenant[routes[p].gen]
    /\ DOMAIN req = Clients /\ \A c \in Clients : DOMAIN req[c] = DOMAIN Idle
    /\ \A c \in Clients : req[c].phase = "proxied" =>
           req[c].about = req[c].target.gen /\ (IsControlPort(req[c].ask.port) => req[c].ask.tenant = Tenant[req[c].about])
    /\ OwnerOnly

\* What is said of one request.
Owned(r) ==
    /\ DOMAIN r = DOMAIN Idle
    /\ r.phase = "proxied" => r.about = r.target.gen /\ (IsControlPort(r.ask.port) => r.ask.tenant = Tenant[r.about])
    /\ \/ r.phase \notin {"proxied", "done"} \/ r.about = None \/ ~IsControlPort(r.ask.port) \/ r.answer = "paused"
       \/ r.ask.tenant = Tenant[r.about]

LEMMA OwnerInvOwned ==
    OwnerInv <=> /\ \A p \in DOMAIN routes : routes[p].tenant = Tenant[routes[p].gen]
                 /\ DOMAIN req = Clients /\ \A c \in Clients : Owned(req[c])
BY DEF OwnerInv, Owned, OwnerOnly

\* A request goes on to an answer that the owner may see, or to a phase of which nothing is said.
LEMMA RequestMoves ==
    ASSUME OwnerInv, NEW c \in Clients, NEW r, Owned(r), req' = [req EXCEPT ![c] = r], UNCHANGED routes
    PROVE  OwnerInv'
<1>1. DOMAIN req' = Clients /\ \A d \in Clients : req'[d] = IF d = c THEN r ELSE req[d] BY DEF OwnerInv
<1>2. \A d \in Clients : Owned(req'[d]) BY <1>1, OwnerInvOwned
<1> QED BY <1>1, <1>2 DEF OwnerInv, Owned, OwnerOnly

LEMMA AnswerOwned ==
    ASSUME NEW r, DOMAIN r = DOMAIN Idle, NEW code, NEW g,
           g = None \/ code = "paused" \/ (IsControlPort(r.ask.port) => r.ask.tenant = Tenant[g])
    PROVE  Owned(Answer(r, code, g))
<1>1. DOMAIN Idle = {"phase", "ask", "target", "answer", "about"} BY DEF Idle
<1>2. PICK a : a = Answer(r, code, g) OBVIOUS
<1>3. DOMAIN a = DOMAIN Idle /\ a.phase = "done" /\ a.answer = code /\ a.about = g /\ a.ask = r.ask
  BY <1>1, <1>2 DEF Answer
<1> QED BY <1>2, <1>3 DEF Owned

LEMMA FailureOwned == ASSUME NEW r, DOMAIN r = DOMAIN Idle, NEW info PROVE Owned(FailureAnswer(r, info))
BY AnswerOwned DEF FailureAnswer, Authorized

LEMMA DispatchOwned ==
    ASSUME NEW r, DOMAIN r = DOMAIN Idle, NEW t, t.tenant = Tenant[t.gen]
    PROVE  Owned(Dispatch(r, t))
<1>1. CASE AuthorizationRequired(r.ask) /\ ~Authorized(r.ask.tenant, t.tenant)
  <2>1. Dispatch(r, t) = Answer(r, "forbidden", None) BY <1>1 DEF Dispatch
  <2> QED BY <2>1, AnswerOwned
<1>2. CASE ~(AuthorizationRequired(r.ask) /\ ~Authorized(r.ask.tenant, t.tenant))
  <2>1. DOMAIN Idle = {"phase", "ask", "target", "answer", "about"} BY DEF Idle
  <2>2. PICK a : a = [r EXCEPT !.phase = "proxied", !.target = t, !.about = t.gen] OBVIOUS
  <2>3. DOMAIN a = DOMAIN Idle /\ a.phase = "proxied" /\ a.target = t /\ a.about = t.gen /\ a.ask = r.ask BY <2>1, <2>2
  <2>4. IsControlPort(r.ask.port) => r.ask.tenant = Tenant[t.gen]
    BY <1>2 DEF AuthorizationRequired, AuthRequired, Authorized
  <2>5. Dispatch(r, t) = a BY <1>2, <2>2 DEF Dispatch
  <2> QED BY <2>3, <2>4, <2>5 DEF Owned
<1> QED BY <1>1, <1>2

\* The routes of a record carry its owner.
LEMMA RoutesOwned ==
    ASSUME NEW info
    PROVE  \A p \in DOMAIN RoutesOf(info) : RoutesOf(info)[p].tenant = Tenant[RoutesOf(info)[p].gen]
BY DEF RoutesOf, ComputeRoutes, NoRoutes

LEMMA StoresOwned ==
    ASSUME OwnerInv, NEW key, NEW info, NEW r, PutLocked(key, info, r) \/ DeleteLocked(key, info, r)
    PROVE  \A p \in DOMAIN routes' : routes'[p].tenant = Tenant[routes'[p].gen]
<1>1. CASE PutLocked(key, info, r)
  <2>1. routes' = routes \/ routes' = RoutesOf(info) BY <1>1 DEF PutLocked, storeVars
  <2> QED BY <2>1, RoutesOwned DEF OwnerInv
<1>2. CASE DeleteLocked(key, info, r)
  <2>1. routes' = routes \/ routes' = NoRoutes BY <1>2 DEF DeleteLocked, storeVars
  <2>2. DOMAIN NoRoutes = {} BY DEF NoRoutes
  <2> QED BY <2>1, <2>2 DEF OwnerInv
<1> QED BY <1>1, <1>2

\* The read is over: the requests that wait for it are told, and nothing else is said of them.
LEMMA CloseOwned ==
    ASSUME OwnerInv, NEW err \in BOOLEAN, CloseCall(err),
           \A p \in DOMAIN routes' : routes'[p].tenant = Tenant[routes'[p].gen]
    PROVE  OwnerInv'
<1>1. DOMAIN Idle = {"phase", "ask", "target", "answer", "about"} BY DEF Idle
<1>2. DOMAIN req' = Clients BY DEF CloseCall
<1>3. ASSUME NEW c \in Clients PROVE Owned(req'[c])
  <2>1. CASE req[c].phase = "waiting"
    <3>1. PICK r : r = [req[c] EXCEPT !.phase = IF err THEN "failed" ELSE "read"] OBVIOUS
    <3>2. DOMAIN req[c] = DOMAIN Idle BY DEF OwnerInv
    <3>3. DOMAIN r = DOMAIN Idle /\ r.phase \in {"failed", "read"} BY <1>1, <3>1, <3>2
    <3>4. req'[c] = r BY <2>1, <3>1 DEF CloseCall
    <3> QED BY <3>3, <3>4 DEF Owned
  <2>2. CASE req[c].phase # "waiting"
    <3>1. req'[c] = req[c] BY <2>2 DEF CloseCall
    <3> QED BY <3>1, OwnerInvOwned
  <2> QED BY <2>1, <2>2
<1> QED BY <1>2, <1>3 DEF OwnerInv, Owned, OwnerOnly

LEMMA RequestStepOwned ==
    ASSUME OwnerInv, NEW c \in Clients, ServeHTTP(c) \/ DoChan(c) \/ ResolveReturns(c) \/ ProxyReturns(c) \/ NextRequest(c)
    PROVE  OwnerInv'
<1>0. UNCHANGED routes BY DEF ServeHTTP, DoChan, ResolveReturns, ProxyReturns, NextRequest, storeVars
<1>1. DOMAIN req[c] = DOMAIN Idle /\ DOMAIN Idle = {"phase", "ask", "target", "answer", "about"} BY DEF OwnerInv, Idle
<1>2. CASE ServeHTTP(c)
  <2>1. PICK ask \in Asks :
            LET r == [req[c] EXCEPT !.ask = ask]
            IN  req' = [req EXCEPT ![c] =
                   IF AuthRequired(ask) /\ ask.tenant = None THEN Answer(r, "unauthorized", None)
                   ELSE IF CachedTarget(ask.port) THEN Dispatch(r, routes[ask.port])
                   ELSE [r EXCEPT !.phase = "reading"]]
    BY <1>2 DEF ServeHTTP
  <2>2. PICK r : r = [req[c] EXCEPT !.ask = ask] OBVIOUS
  <2>3. DOMAIN r = DOMAIN Idle BY <1>1, <2>2
  <2>4. PICK new : new = IF AuthRequired(ask) /\ ask.tenant = None THEN Answer(r, "unauthorized", None)
                         ELSE IF CachedTarget(ask.port) THEN Dispatch(r, routes[ask.port])
                         ELSE [r EXCEPT !.phase = "reading"]
    OBVIOUS
  <2>5. req' = [req EXCEPT ![c] = new] BY <2>1, <2>2, <2>4
  <2>6. Owned(Answer(r, "unauthorized", None)) BY <2>3, AnswerOwned
  <2>7. CachedTarget(ask.port) => Owned(Dispatch(r, routes[ask.port]))
    BY <2>3, DispatchOwned DEF CachedTarget, OwnerInv
  <2>8. PICK rd : rd = [r EXCEPT !.phase = "reading"] OBVIOUS
  <2>9. DOMAIN rd = DOMAIN Idle /\ rd.phase = "reading" BY <1>1, <2>3, <2>8
  <2>10. Owned(rd) BY <2>9 DEF Owned
  <2>11. Owned(new) BY <2>4, <2>6, <2>7, <2>8, <2>10
  <2> QED BY <1>0, <2>5, <2>11, RequestMoves
<1>3. CASE DoChan(c)
  <2>1. PICK ph : ph = IF call # None /\ call.phase = "closed" THEN IF call.err THEN "failed" ELSE "read" ELSE "waiting" OBVIOUS
  <2>2. PICK r : r = [req[c] EXCEPT !.phase = ph] OBVIOUS
  <2>3. req' = [req EXCEPT ![c] = r] BY <1>3, <2>1, <2>2 DEF DoChan
  <2>4. DOMAIN r = DOMAIN Idle /\ r.phase \in {"failed", "read", "waiting"} BY <1>1, <2>1, <2>2
  <2>5. Owned(r) BY <2>4 DEF Owned
  <2> QED BY <1>0, <2>3, <2>5, RequestMoves
<1>4. CASE ResolveReturns(c)
  <2>1. Owned(Answer(req[c], "unavailable", None)) BY <1>1, AnswerOwned
  <2>2. Owned(ResultLocked(req[c]))
    <3>1. Owned(Answer(req[c], "not_found", None)) BY <1>1, AnswerOwned
    <3>2. Owned(FailureAnswer(req[c], obs.info)) BY <1>1, FailureOwned
    <3>3. Owned(Answer(req[c], "paused", obs.info.gen)) BY <1>1, AnswerOwned
    <3>4. req[c].ask.port \in DOMAIN routes => Owned(Dispatch(req[c], routes[req[c].ask.port]))
      BY <1>1, DispatchOwned DEF OwnerInv
    <3> QED BY <3>1, <3>2, <3>3, <3>4 DEF ResultLocked
  <2>3. PICK r : Owned(r) /\ req' = [req EXCEPT ![c] = r] BY <1>4, <2>1, <2>2 DEF ResolveReturns
  <2> QED BY <1>0, <2>3, RequestMoves
<1>5. CASE ProxyReturns(c)
  <2>1. req[c].phase = "proxied" BY <1>5 DEF ProxyReturns
  <2>2. Owned(Answer(req[c], "served", req[c].target.gen)) BY <1>1, <2>1, AnswerOwned DEF OwnerInv
  <2>3. Owned(FailureAnswer(req[c], obs.info)) BY <1>1, FailureOwned
  <2>4. Owned(Answer(req[c], "bad_gateway", None)) BY <1>1, AnswerOwned
  <2>5. PICK r : Owned(r) /\ req' = [req EXCEPT ![c] = r]
    <3>1. \/ req' = [req EXCEPT ![c] = Answer(req[c], "served", req[c].target.gen)]
          \/ req' = [req EXCEPT ![c] = FailureAnswer(req[c], obs.info)]
          \/ req' = [req EXCEPT ![c] = Answer(req[c], "bad_gateway", None)]
      BY <1>5 DEF ProxyReturns
    <3> QED BY <2>2, <2>3, <2>4, <3>1
  <2> QED BY <1>0, <2>5, RequestMoves
<1>6. CASE NextRequest(c)
  <2>1. Owned(Idle) BY DEF Owned, Idle
  <2> QED BY <1>0, <1>6, <2>1, RequestMoves DEF NextRequest
<1> QED BY <1>2, <1>3, <1>4, <1>5, <1>6

LEMMA OwnerInvStep == OwnerInv /\ [RoutesNext]_routingVars => OwnerInv'
<1> SUFFICES ASSUME OwnerInv, [RoutesNext]_routingVars PROVE OwnerInv' OBVIOUS
<1>1. ASSUME UNCHANGED req, \A p \in DOMAIN routes' : routes'[p].tenant = Tenant[routes'[p].gen] PROVE OwnerInv'
  BY <1>1 DEF OwnerInv, OwnerOnly
<1>2. ASSUME UNCHANGED <<req, routes>> PROVE OwnerInv' BY <1>2 DEF OwnerInv, OwnerOnly
<1>3. CASE KernelWrite \/ KernelDelete \/ KernelCreate \/ OtherWrite
  BY <1>2, <1>3 DEF KernelWrite, KernelDelete, KernelCreate, OtherWrite
<1>4. CASE ReadInstance \/ ForgetCall \/ LifecycleCall \/ KernelExecutes \/ LifecycleFails \/ LifecycleReturns \/ UNCHANGED routingVars
  BY <1>2, <1>4 DEF ReadInstance, ForgetCall, LifecycleCall, KernelExecutes, LifecycleFails, LifecycleReturns, storeVars, routingVars
<1>5. CASE ApplyEvent
  <2>1. UNCHANGED req BY <1>5 DEF ApplyEvent
  <2>2. \A p \in DOMAIN routes' : routes'[p].tenant = Tenant[routes'[p].gen] BY <1>5, StoresOwned DEF ApplyEvent
  <2> QED BY <1>1, <2>1, <2>2
<1>6. CASE RemoveObservation
  <2>1. UNCHANGED req /\ routes' = NoRoutes /\ DOMAIN NoRoutes = {} BY <1>6 DEF RemoveObservation, NoRoutes
  <2> QED BY <1>1, <2>1
<1>7. CASE Recheck
  <2>1. UNCHANGED routes BY <1>7 DEF Recheck, storeVars
  <2>2. CloseCall(FALSE) \/ UNCHANGED req BY <1>7 DEF Recheck
  <2> QED BY <1>2, <2>1, <2>2, CloseOwned DEF OwnerInv
<1>8. CASE ReadFails
  <2>1. UNCHANGED routes /\ CloseCall(TRUE) BY <1>8 DEF ReadFails, storeVars
  <2> QED BY <2>1, CloseOwned DEF OwnerInv
<1>9. CASE RefreshInstance
  <2>1. CloseCall(FALSE) BY <1>9 DEF RefreshInstance
  <2>2. \/ UNCHANGED routes \/ routes' = NoRoutes
        \/ PutLocked(ReadKey(call.result.info), call.result.info, call.result.rev)
        \/ DeleteLocked(obs.key, obs.info, call.result.rev)
    BY <1>9 DEF RefreshInstance, storeVars
  <2>3. DOMAIN NoRoutes = {} BY DEF NoRoutes
  <2>4. \A p \in DOMAIN routes' : routes'[p].tenant = Tenant[routes'[p].gen] BY <2>2, <2>3, StoresOwned DEF OwnerInv
  <2> QED BY <2>1, <2>4, CloseOwned
<1> QED BY <1>3, <1>4, <1>5, <1>6, <1>7, <1>8, <1>9, RequestStepOwned DEF RoutesNext

\* For every number of generations, tenants, requests and revisions: what the control port of a sandbox
\* serves, and the details of its failure, reach only the tenant of the generation they are about,
\* whenever the identity is taken over (sandboxrouter/proxy).
THEOREM OwnerOnlyCorrect == RoutesSpec => []OwnerOnly
<1>1. RoutesInit => OwnerInv
  <2> SUFFICES ASSUME RoutesInit PROVE OwnerInv OBVIOUS
  <2>1. \A c \in Clients : req[c] = Idle BY DEF RoutesInit
  <2>2. Idle.phase = "idle" BY DEF Idle
  <2>3. DOMAIN routes = {} BY DEF RoutesInit, NoRoutes
  <2> QED BY <2>1, <2>2, <2>3 DEF RoutesInit, OwnerInv, OwnerOnly
<1>2. OwnerInv => OwnerOnly BY DEF OwnerInv
<1> QED BY <1>1, <1>2, OwnerInvStep, PTL DEF RoutesSpec

------------------------------------------------------------------------------
(* SandboxRoutes: the route cache                                             *)

\* The log of the identity. Puts are of ever newer records, one a revision; a generation is deleted
\* once, after its last put and no later than the first put of the next generation.
RouteEvents == [rev : Nat, kind : {"put", "del"}, info : Infos]
PutAt(l, i) == i \in DOMAIN l /\ l[i].kind = "put"
DelAt(l, i) == i \in DOMAIN l /\ l[i].kind = "del"
GenAt(l, i) == l[i].info.gen

\* The generation was deleted at a revision up to r.
Gone(l, g, r) == \E d \in DOMAIN l : DelAt(l, d) /\ GenAt(l, d) = g /\ l[d].rev <= r

\* The put in force at revision r.
LatestPut(l, i, r) == PutAt(l, i) /\ l[i].rev <= r /\ \A j \in DOMAIN l : PutAt(l, j) /\ l[j].rev <= r => j <= i

LogSound(l, n) ==
    /\ n \in Nat /\ l \in Seq(RouteEvents) /\ \A i \in DOMAIN l : l[i].rev <= n
    /\ \A i, j \in DOMAIN l : i < j => l[i].rev <= l[j].rev
    /\ \A i, j \in DOMAIN l : PutAt(l, i) /\ PutAt(l, j) /\ i < j => l[i].rev < l[j].rev /\ Newer(l[j].info, l[i].info)
    /\ \A j \in DOMAIN l : DelAt(l, j) => \E k \in DOMAIN l : PutAt(l, k) /\ l[k].info = l[j].info
    /\ \A i, j \in DOMAIN l : PutAt(l, i) /\ DelAt(l, j) /\ GenAt(l, i) = GenAt(l, j) => i < j /\ l[i].rev < l[j].rev
    /\ \A i, j \in DOMAIN l : PutAt(l, i) /\ PutAt(l, j) /\ GenAt(l, i) < GenAt(l, j) => Gone(l, GenAt(l, i), l[j].rev)
    /\ \A i, j \in DOMAIN l : DelAt(l, i) /\ DelAt(l, j) /\ GenAt(l, i) = GenAt(l, j) => i = j

\* What the route key holds at revision r.
RouteIs(l, r, info) ==
    \/ info = None /\ \A i \in DOMAIN l : PutAt(l, i) /\ l[i].rev <= r => Gone(l, GenAt(l, i), r)
    \/ \E i \in DOMAIN l : LatestPut(l, i, r) /\ info = l[i].info /\ ~Gone(l, GenAt(l, i), r)

\* A set of indices has a greatest one.
LEMMA GreatestIndex ==
    ASSUME NEW n \in Nat, NEW S, S \subseteq 1..n, S # {}
    PROVE  \E x \in S : \A y \in S : y <= x
<1> DEFINE T == {n - x : x \in S}
<1>0. \A x \in S : x \in Nat /\ n - x \in Nat OBVIOUS
<1>1. T \subseteq Nat /\ T # {} BY <1>0
<1>2. PICK m \in T : \A k \in T : ~(<<k, m>> \in OpToRel(<, Nat))
  BY <1>1, NatLessThanWellFounded, WFMin, Zenon
<1>3. \A k \in T : ~(k < m) BY <1>1, <1>2 DEF OpToRel
<1>4. PICK x \in S : m = n - x BY <1>2
<1>5. \A y \in S : ~(n - y < n - x) BY <1>3, <1>4
<1>6. ASSUME NEW y \in S PROVE y <= x
  <2>1. ~(n - y < n - x) /\ x \in Int /\ y \in Int BY <1>0, <1>5, <1>6
  <2> QED BY ONLY <2>1, n \in Nat
<1> QED BY <1>6, Zenon

LEMMA MaxIsGreatest ==
    ASSUME NEW n \in Nat, NEW S, S \subseteq 1..n, S # {}
    PROVE  Max(S) \in S /\ \A y \in S : y <= Max(S)
<1>1. PICK x \in S : \A y \in S : y <= x BY GreatestIndex
<1>2. x \in S /\ \A y \in S : x >= y BY <1>1
<1>3. Max(S) \in S /\ \A y \in S : Max(S) >= y BY <1>2 DEF Max
<1> QED BY <1>3

LEMMA LogTypes ==
    ASSUME NEW l, NEW n, LogSound(l, n)
    PROVE  /\ DOMAIN l = 1..Len(l) /\ Len(l) \in Nat
           /\ \A i \in DOMAIN l : /\ l[i] \in RouteEvents /\ l[i].rev \in Nat /\ l[i].info \in Infos /\ GenAt(l, i) \in Gens
                                  /\ GenAt(l, i) \in Nat /\ l[i].info.ver \in Nat
<1>1. l \in Seq(RouteEvents) BY DEF LogSound
<1>2. DOMAIN l = 1..Len(l) /\ Len(l) \in Nat /\ \A i \in DOMAIN l : l[i] \in RouteEvents BY <1>1
<1> QED BY <1>2, GensAssumption DEF RouteEvents, Infos, GenAt

\* A newer put is of the same generation or of a later one.
LEMMA LaterPuts ==
    ASSUME NEW l, NEW n, LogSound(l, n), NEW i \in DOMAIN l, NEW j \in DOMAIN l, PutAt(l, i), PutAt(l, j), i <= j
    PROVE  GenAt(l, i) <= GenAt(l, j) /\ ~Newer(l[i].info, l[j].info)
<1>1. i \in Nat /\ j \in Nat BY LogTypes
<1>2. CASE i = j BY <1>2, LogTypes DEF Newer, GenAt
<1>3. CASE i < j
  <2>1. Newer(l[j].info, l[i].info) BY <1>3 DEF LogSound
  <2> QED BY <2>1, LogTypes DEF Newer, GenAt
<1> QED BY <1>1, <1>2, <1>3

\* RouteAt computes what the route key holds.
LEMMA RouteAtIs == ASSUME LogSound(log, rev), NEW r \in Nat PROVE RouteIs(log, r, RouteAt(r))
<1> DEFINE puts == {i \in DOMAIN log : log[i].rev <= r /\ log[i].kind = "put"}
           last == Max(puts)
<1>1. puts \subseteq 1..Len(log) /\ Len(log) \in Nat BY LogTypes
<1>2. CASE puts = {}
  <2>1. RouteAt(r) = None BY <1>2 DEF RouteAt
  <2> QED BY <1>2, <2>1 DEF RouteIs, PutAt
<1>3. CASE puts # {}
  <2>1. last \in puts /\ \A y \in puts : y <= last BY <1>1, <1>3, MaxIsGreatest
  <2>2. LatestPut(log, last, r) BY <2>1 DEF LatestPut, PutAt
  <2>3. CASE Gone(log, GenAt(log, last), r)
    <3>1. RouteAt(r) = None BY <2>3 DEF RouteAt, Gone, DelAt, GenAt
    <3>2. ASSUME NEW i \in DOMAIN log, PutAt(log, i), log[i].rev <= r PROVE Gone(log, GenAt(log, i), r)
      <4> HIDE DEF last
      <4>1. i <= last /\ last \in DOMAIN log /\ PutAt(log, last) /\ log[last].rev <= r BY <2>2, <3>2 DEF LatestPut, PutAt
      <4>2. GenAt(log, i) <= GenAt(log, last) BY <3>2, <4>1, LaterPuts
      <4>3. CASE GenAt(log, i) = GenAt(log, last) BY <2>3, <4>3
      <4>4. CASE GenAt(log, i) # GenAt(log, last)
        <5>1. GenAt(log, i) < GenAt(log, last) BY <4>1, <4>2, <4>4, LogTypes
        <5>2. Gone(log, GenAt(log, i), log[last].rev) BY <3>2, <4>1, <5>1 DEF LogSound
        <5>3. PICK d \in DOMAIN log : DelAt(log, d) /\ GenAt(log, d) = GenAt(log, i) /\ log[d].rev <= log[last].rev
          BY <5>2 DEF Gone
        <5>4. log[d].rev <= r BY <4>1, <5>3, LogTypes
        <5> QED BY <5>3, <5>4 DEF Gone
      <4> QED BY <4>3, <4>4
    <3> QED BY <3>1, <3>2 DEF RouteIs
  <2>4. CASE ~Gone(log, GenAt(log, last), r)
    <3>1. RouteAt(r) = log[last].info BY <1>3, <2>4 DEF RouteAt, Gone, DelAt, GenAt
    <3> QED BY <2>2, <2>4, <3>1 DEF RouteIs, LatestPut, PutAt
  <2> QED BY <2>3, <2>4
<1> QED BY <1>2, <1>3

\* The log one revision later: at most one put and one deletion more. The put is newer than the puts
\* before it and of a generation without a deletion, and the earlier generations are gone with it; the
\* deletion is of a put and the first of its generation.
Extends(l, n, m) ==
    /\ m \in Seq(RouteEvents) /\ DOMAIN l \subseteq DOMAIN m /\ \A i \in DOMAIN l : m[i] = l[i]
    /\ \A i \in DOMAIN m \ DOMAIN l : m[i].rev = n + 1

NewPutSound(l, n, m, i) ==
    /\ \A k \in DOMAIN l : PutAt(l, k) => /\ Newer(m[i].info, l[k].info)
                                          /\ GenAt(l, k) # GenAt(m, i) => Gone(m, GenAt(l, k), n + 1)
    /\ \A d \in DOMAIN m : DelAt(m, d) => GenAt(m, d) # GenAt(m, i)

NewDelSound(l, n, m, j) ==
    /\ \E k \in DOMAIN l : PutAt(l, k) /\ l[k].info = m[j].info
    /\ ~Gone(l, GenAt(m, j), n)

LEMMA ExtendedIndices ==
    ASSUME NEW l, NEW n, LogSound(l, n), NEW m, Extends(l, n, m)
    PROVE  /\ DOMAIN m = 1..Len(m) /\ Len(m) \in Nat /\ Len(l) <= Len(m) /\ n \in Nat
           /\ \A i \in DOMAIN m : m[i] \in RouteEvents /\ m[i].rev \in Nat /\ m[i].rev <= n + 1 /\ m[i].info \in Infos /\ GenAt(m, i) \in Nat
           /\ \A i \in DOMAIN m \ DOMAIN l : i > Len(l) /\ \A k \in DOMAIN l : k < i
<1>1. m \in Seq(RouteEvents) /\ DOMAIN l \subseteq DOMAIN m BY DEF Extends
<1>2. DOMAIN m = 1..Len(m) /\ Len(m) \in Nat /\ \A i \in DOMAIN m : m[i] \in RouteEvents BY <1>1
<1>3. DOMAIN l = 1..Len(l) /\ Len(l) \in Nat /\ n \in Nat BY LogTypes DEF LogSound
<1>4. Len(l) <= Len(m)
  <2>1. CASE Len(l) = 0 BY <1>2, <2>1
  <2>2. CASE Len(l) # 0
    <3>1. Len(l) \in DOMAIN m BY <1>1, <1>3, <2>2
    <3> QED BY <1>2, <3>1
  <2> QED BY <2>1, <2>2
<1>5. \A i \in DOMAIN m : m[i].rev \in Nat /\ m[i].info \in Infos /\ GenAt(m, i) \in Nat
  BY <1>2, GensAssumption DEF RouteEvents, Infos, GenAt
<1>6. ASSUME NEW i \in DOMAIN m PROVE m[i].rev <= n + 1
  <2>1. CASE i \in DOMAIN l
    <3>1. m[i] = l[i] /\ l[i].rev <= n BY <2>1 DEF Extends, LogSound
    <3> QED BY <1>3, <1>5, <3>1
  <2>2. CASE i \notin DOMAIN l
    <3>1. m[i].rev = n + 1 BY <2>2 DEF Extends
    <3> QED BY <1>3, <3>1
  <2> QED BY <2>1, <2>2
<1>7. \A i \in DOMAIN m \ DOMAIN l : i > Len(l) /\ \A k \in DOMAIN l : k < i BY <1>2, <1>3
<1> QED BY <1>2, <1>3, <1>4, <1>5, <1>6, <1>7

\* What the log said of a revision up to n, it still says.
LEMMA HistoryStays ==
    ASSUME NEW l, NEW n, LogSound(l, n), NEW m, Extends(l, n, m), NEW r \in Nat, r <= n
    PROVE  /\ \A i \in DOMAIN l : (PutAt(m, i) <=> PutAt(l, i)) /\ (DelAt(m, i) <=> DelAt(l, i)) /\ GenAt(m, i) = GenAt(l, i)
           /\ \A g : Gone(m, g, r) <=> Gone(l, g, r)
           /\ \A i \in DOMAIN l : LatestPut(m, i, r) <=> LatestPut(l, i, r)
           /\ \A i \in DOMAIN m : LatestPut(m, i, r) => i \in DOMAIN l
           /\ \A info : RouteIs(l, r, info) => RouteIs(m, r, info)
<1>1. DOMAIN l \subseteq DOMAIN m /\ (\A i \in DOMAIN l : m[i] = l[i]) BY DEF Extends
<1>2. \A i \in DOMAIN m : m[i].rev <= r => i \in DOMAIN l
  <2> SUFFICES ASSUME NEW i \in DOMAIN m, i \notin DOMAIN l, m[i].rev <= r PROVE FALSE OBVIOUS
  <2>1. m[i].rev = n + 1 /\ n \in Nat BY DEF Extends, LogSound
  <2> QED BY <2>1
<1>3. \A i \in DOMAIN l : (PutAt(m, i) <=> PutAt(l, i)) /\ (DelAt(m, i) <=> DelAt(l, i)) /\ GenAt(m, i) = GenAt(l, i)
  BY <1>1 DEF PutAt, DelAt, GenAt
<1>4. \A g : Gone(m, g, r) <=> Gone(l, g, r) BY <1>1, <1>2, <1>3 DEF Gone
<1>5. \A i \in DOMAIN l : LatestPut(m, i, r) <=> LatestPut(l, i, r) BY <1>1, <1>2, <1>3 DEF LatestPut
<1>6. \A i \in DOMAIN m : LatestPut(m, i, r) => i \in DOMAIN l BY <1>2 DEF LatestPut
<1>7. ASSUME NEW info, RouteIs(l, r, info) PROVE RouteIs(m, r, info)
  <2>1. CASE info = None /\ \A i \in DOMAIN l : PutAt(l, i) /\ l[i].rev <= r => Gone(l, GenAt(l, i), r)
    BY <1>1, <1>2, <1>3, <1>4, <2>1 DEF RouteIs
  <2>2. CASE \E i \in DOMAIN l : LatestPut(l, i, r) /\ info = l[i].info /\ ~Gone(l, GenAt(l, i), r)
    BY <1>1, <1>3, <1>4, <1>5, <2>2 DEF RouteIs
  <2> QED BY <1>7, <2>1, <2>2 DEF RouteIs
<1> QED BY <1>3, <1>4, <1>5, <1>6, <1>7

\* A generation that is gone stays gone.
LEMMA GoneStays ==
    ASSUME NEW l, NEW n, LogSound(l, n), NEW m, Extends(l, n, m), NEW g, NEW r, Gone(l, g, r)
    PROVE  Gone(m, g, r)
BY DEF Extends, Gone, DelAt, GenAt

LEMMA LogExtends ==
    ASSUME NEW l, NEW n, LogSound(l, n), NEW m, Extends(l, n, m),
           \A i, j \in DOMAIN m \ DOMAIN l : m[i].kind = m[j].kind => i = j,
           \A i \in DOMAIN m \ DOMAIN l : PutAt(m, i) => NewPutSound(l, n, m, i),
           \A j \in DOMAIN m \ DOMAIN l : DelAt(m, j) => NewDelSound(l, n, m, j)
    PROVE  LogSound(m, n + 1)
<1>1. n \in Nat /\ n + 1 \in Nat BY DEF LogSound
<1>2. m \in Seq(RouteEvents) /\ \A i \in DOMAIN m : m[i].rev <= n + 1 BY ExtendedIndices DEF Extends
<1>3. DOMAIN l \subseteq DOMAIN m /\ \A i \in DOMAIN l : m[i] = l[i] BY DEF Extends
<1>4. \A i \in DOMAIN l : (PutAt(m, i) <=> PutAt(l, i)) /\ (DelAt(m, i) <=> DelAt(l, i)) /\ GenAt(m, i) = GenAt(l, i)
  BY <1>3 DEF PutAt, DelAt, GenAt
<1>5. \A i \in DOMAIN l : l[i].rev <= n /\ l[i].rev \in Nat /\ i \in Nat BY LogTypes DEF LogSound
<1>6. \A i \in DOMAIN m \ DOMAIN l : m[i].rev = n + 1 BY DEF Extends
<1>7. \A i \in DOMAIN m \ DOMAIN l : \A k \in DOMAIN l : k < i BY ExtendedIndices
<1>8. \A i \in DOMAIN m : i \in Nat BY ExtendedIndices
<1>9. ASSUME NEW i \in DOMAIN m, NEW j \in DOMAIN m, i < j
      PROVE  /\ m[i].rev <= m[j].rev
             /\ PutAt(m, i) /\ PutAt(m, j) => m[i].rev < m[j].rev /\ Newer(m[j].info, m[i].info)
  <2>1. CASE i \in DOMAIN l /\ j \in DOMAIN l
    <3>1. l[i].rev <= l[j].rev /\ (PutAt(l, i) /\ PutAt(l, j) => l[i].rev < l[j].rev /\ Newer(l[j].info, l[i].info))
      BY <1>9, <2>1 DEF LogSound
    <3> QED BY <1>3, <1>4, <2>1, <3>1
  <2>2. CASE i \in DOMAIN l /\ j \notin DOMAIN l
    <3>1. m[i].rev <= n /\ m[j].rev = n + 1 /\ m[i].rev \in Nat BY <1>3, <1>5, <1>6, <2>2
    <3>2. PutAt(m, i) /\ PutAt(m, j) => Newer(m[j].info, l[i].info) BY <1>4, <2>2 DEF NewPutSound
    <3> QED BY <1>1, <1>3, <2>2, <3>1, <3>2
  <2>3. CASE i \notin DOMAIN l
    <3>1. j \notin DOMAIN l BY <1>7, <1>8, <1>9, <2>3
    <3>2. m[i].rev = n + 1 /\ m[j].rev = n + 1 BY <1>6, <2>3, <3>1
    <3>3. ~(PutAt(m, i) /\ PutAt(m, j)) BY <1>8, <1>9, <2>3, <3>1 DEF PutAt
    <3> QED BY <1>1, <3>2, <3>3
  <2> QED BY <2>1, <2>2, <2>3
<1>10. ASSUME NEW j \in DOMAIN m, DelAt(m, j) PROVE \E k \in DOMAIN m : PutAt(m, k) /\ m[k].info = m[j].info
  <2>1. PICK k \in DOMAIN l : PutAt(l, k) /\ l[k].info = m[j].info
    <3>1. CASE j \in DOMAIN l BY <1>3, <1>4, <1>10, <3>1 DEF LogSound
    <3>2. CASE j \notin DOMAIN l BY <1>10, <3>2 DEF NewDelSound
    <3> QED BY <3>1, <3>2
  <2> QED BY <1>3, <1>4, <2>1
<1>11. ASSUME NEW i \in DOMAIN m, NEW j \in DOMAIN m, PutAt(m, i), DelAt(m, j), GenAt(m, i) = GenAt(m, j)
       PROVE  i < j /\ m[i].rev < m[j].rev
  <2>1. i \in DOMAIN l BY <1>11 DEF NewPutSound
  <2>2. CASE j \in DOMAIN l
    <3>1. i < j /\ l[i].rev < l[j].rev BY <1>4, <1>11, <2>1, <2>2 DEF LogSound
    <3> QED BY <1>3, <2>1, <2>2, <3>1
  <2>3. CASE j \notin DOMAIN l
    <3>1. m[i].rev <= n /\ m[i].rev \in Nat /\ m[j].rev = n + 1 BY <1>3, <1>5, <1>6, <2>1, <2>3
    <3> QED BY <1>1, <1>7, <2>1, <2>3, <3>1
  <2> QED BY <2>2, <2>3
<1>12. ASSUME NEW i \in DOMAIN m, NEW j \in DOMAIN m, PutAt(m, i), PutAt(m, j), GenAt(m, i) < GenAt(m, j)
       PROVE  Gone(m, GenAt(m, i), m[j].rev)
  <2>0. GenAt(m, i) \in Nat /\ GenAt(m, j) \in Nat BY ExtendedIndices
  <2>1. CASE i \in DOMAIN l /\ j \in DOMAIN l
    <3>1. GenAt(l, i) < GenAt(l, j) /\ PutAt(l, i) /\ PutAt(l, j) BY <1>4, <1>12, <2>1
    <3>2. Gone(l, GenAt(l, i), l[j].rev) BY <2>1, <3>1 DEF LogSound
    <3>3. Gone(m, GenAt(l, i), l[j].rev) BY <3>2, GoneStays
    <3> QED BY <1>3, <1>4, <2>1, <3>3
  <2>2. CASE i \in DOMAIN l /\ j \notin DOMAIN l
    <3>1. GenAt(l, i) # GenAt(m, j) BY <1>4, <1>12, <2>0, <2>2
    <3>2. Gone(m, GenAt(l, i), n + 1) BY <1>4, <1>12, <2>2, <3>1 DEF NewPutSound
    <3> QED BY <1>4, <1>6, <2>2, <3>2
  <2>3. CASE i \notin DOMAIN l /\ j \in DOMAIN l
    <3>1. Newer(m[i].info, l[j].info) BY <1>4, <1>12, <2>3 DEF NewPutSound
    <3>2. GenAt(m, i) >= GenAt(m, j) BY <1>3, <2>0, <2>3, <3>1 DEF Newer, GenAt
    <3> QED BY <1>12, <2>0, <3>2
  <2>4. CASE i \notin DOMAIN l /\ j \notin DOMAIN l
    <3>1. i = j BY <1>12, <2>4 DEF PutAt
    <3> QED BY <1>12, <2>0, <3>1
  <2> QED BY <2>1, <2>2, <2>3, <2>4
<1>13. ASSUME NEW i \in DOMAIN m, NEW j \in DOMAIN m, DelAt(m, i), DelAt(m, j), GenAt(m, i) = GenAt(m, j) PROVE i = j
  <2>1. ASSUME NEW a \in DOMAIN l, NEW b \in DOMAIN m \ DOMAIN l, DelAt(m, a), DelAt(m, b), GenAt(m, a) = GenAt(m, b) PROVE FALSE
    <3>1. ~Gone(l, GenAt(m, b), n) BY <2>1 DEF NewDelSound
    <3>2. DelAt(l, a) /\ GenAt(l, a) = GenAt(m, b) /\ l[a].rev <= n BY <1>4, <1>5, <2>1
    <3> QED BY <3>1, <3>2 DEF Gone
  <2>2. CASE i \in DOMAIN l /\ j \in DOMAIN l BY <1>4, <1>13, <2>2 DEF LogSound
  <2>3. CASE i \notin DOMAIN l /\ j \notin DOMAIN l BY <1>13, <2>3 DEF DelAt
  <2> QED BY <1>13, <2>1, <2>2, <2>3
<1> QED BY <1>1, <1>2, <1>9, <1>10, <1>11, <1>12, <1>13 DEF LogSound

\* The live record, when there is one, is that of the last put, whose generation is not gone.
LEMMA CurrentPut ==
    ASSUME LogSound(log, rev), Current # None
    PROVE  \E i \in DOMAIN log : /\ PutAt(log, i) /\ Current = log[i].info /\ Current \in Infos /\ ~Gone(log, Current.gen, rev)
                                 /\ \A k \in DOMAIN log : PutAt(log, k) => k <= i
<1>1. RouteIs(log, rev, Current) /\ rev \in Nat BY RouteAtIs DEF Current, LogSound
<1>2. PICK i \in DOMAIN log : LatestPut(log, i, rev) /\ Current = log[i].info /\ ~Gone(log, GenAt(log, i), rev)
  BY <1>1 DEF RouteIs
<1>3. \A k \in DOMAIN log : log[k].rev <= rev BY DEF LogSound
<1> QED BY <1>2, <1>3, LogTypes DEF LatestPut, GenAt

\* The generations before the live one are gone; without one, all are.
LEMMA EarlierGone ==
    ASSUME LogSound(log, rev), NEW k \in DOMAIN log, PutAt(log, k), Current # None => GenAt(log, k) # Current.gen
    PROVE  Gone(log, GenAt(log, k), rev)
<1>0. rev \in Nat /\ log[k].rev <= rev BY DEF LogSound
<1>1. CASE Current = None
  <2>1. RouteIs(log, rev, None) BY <1>0, <1>1, RouteAtIs DEF Current
  <2>2. \A i \in DOMAIN log : log[i].info # None BY LogTypes, RecordAssumption
  <2> QED BY <1>0, <2>1, <2>2 DEF RouteIs
<1>2. CASE Current # None
  <2>1. PICK i \in DOMAIN log : PutAt(log, i) /\ Current = log[i].info /\ k <= i BY <1>2, CurrentPut
  <2>2. GenAt(log, k) <= GenAt(log, i) BY <2>1, LaterPuts
  <2>3. GenAt(log, k) < GenAt(log, i) BY <1>2, <2>1, <2>2, LogTypes DEF GenAt
  <2>4. Gone(log, GenAt(log, k), log[i].rev) BY <2>1, <2>3 DEF LogSound
  <2>5. log[i].rev <= rev /\ log[i].rev \in Nat /\ \A d \in DOMAIN log : log[d].rev \in Nat BY LogTypes DEF LogSound
  <2> QED BY <1>0, <2>4, <2>5 DEF Gone
<1> QED BY <1>1, <1>2

LEMMA AppendExtends ==
    ASSUME LogSound(log, rev), NEW e \in RouteEvents, e.rev = rev + 1, NEW m, m = Append(log, e)
    PROVE  Extends(log, rev, m) /\ DOMAIN m \ DOMAIN log = {Len(log) + 1} /\ m[Len(log) + 1] = e /\ DOMAIN m = 1..(Len(log) + 1)
<1>1. log \in Seq(RouteEvents) /\ DOMAIN log = 1..Len(log) /\ Len(log) \in Nat BY LogTypes DEF LogSound
<1>2. m \in Seq(RouteEvents) /\ Len(m) = Len(log) + 1 /\ m[Len(log) + 1] = e /\ \A i \in 1..Len(log) : m[i] = log[i]
  BY <1>1
<1>3. DOMAIN m = 1..(Len(log) + 1) BY <1>2
<1>4. DOMAIN m \ DOMAIN log = {Len(log) + 1} BY <1>1, <1>3
<1> QED BY <1>1, <1>2, <1>3, <1>4 DEF Extends

\* Two events of one transaction.
TwoMore(a, b, m) == m = log \o <<a, b>>

LEMMA TwoExtend ==
    ASSUME LogSound(log, rev), NEW a \in RouteEvents, NEW b \in RouteEvents, a.rev = rev + 1, b.rev = rev + 1,
           NEW m, TwoMore(a, b, m)
    PROVE  /\ Extends(log, rev, m) /\ DOMAIN m \ DOMAIN log = {Len(log) + 1, Len(log) + 2}
           /\ m[Len(log) + 1] = a /\ m[Len(log) + 2] = b /\ DOMAIN m = 1..(Len(log) + 2)
<1>1. log \in Seq(RouteEvents) /\ DOMAIN log = 1..Len(log) /\ Len(log) \in Nat BY LogTypes DEF LogSound
<1>2. <<a, b>> \in Seq(RouteEvents) /\ Len(<<a, b>>) = 2 /\ <<a, b>>[1] = a /\ <<a, b>>[2] = b OBVIOUS
<1>3. m \in Seq(RouteEvents) /\ Len(m) = Len(log) + 2 BY <1>1, <1>2 DEF TwoMore
<1>4. m[Len(log) + 1] = a /\ m[Len(log) + 2] = b /\ \A i \in 1..Len(log) : m[i] = log[i] BY <1>1, <1>2, <1>3 DEF TwoMore
<1>5. DOMAIN m = 1..(Len(log) + 2) BY <1>3
<1>6. DOMAIN m \ DOMAIN log = {Len(log) + 1, Len(log) + 2} BY <1>1, <1>5
<1> QED BY <1>1, <1>3, <1>4, <1>5, <1>6 DEF Extends

LEMMA WriteStateSound ==
    ASSUME LogSound(log, rev), NEW st \in Statuses \union {"running", "paused"}, WriteState(st)
    PROVE  LogSound(log', rev') /\ Extends(log, rev, log') /\ rev' = rev + 1
<1>0. rev \in Nat /\ rev' = rev + 1 BY DEF WriteState, LogSound
<1>1. Current # None BY DEF WriteState
<1>2. PICK i \in DOMAIN log : /\ PutAt(log, i) /\ Current = log[i].info /\ Current \in Infos /\ ~Gone(log, Current.gen, rev)
                              /\ \A k \in DOMAIN log : PutAt(log, k) => k <= i
  BY <1>1, CurrentPut
<1>3. PICK new : new = Advance(Current, st) OBVIOUS
<1>4. new \in Infos /\ new.gen = Current.gen /\ new.ver = Current.ver + 1 /\ PutEvent(rev + 1, new) \in RouteEvents
  <2>1. Current.gen \in Gens /\ Current.ver \in Nat /\ Current.runtime \in Nat BY <1>2 DEF Infos
  <2>2. PICK rt \in Nat : new = Info(Current.gen, Current.ver + 1, st, rt) BY <1>3, <2>1 DEF Advance
  <2>3. Current.ver + 1 \in Nat /\ rev + 1 \in Nat BY <1>0, <2>1
  <2>4. PICK v \in Nat : v = Current.ver + 1 BY <2>3
  <2>5. PICK r \in Nat : r = rev + 1 BY <2>3
  <2>6. new = Info(Current.gen, v, st, rt) BY <2>2, <2>4
  <2>7. new \in Infos /\ new.gen = Current.gen /\ new.ver = v /\ PutEvent(r, new) \in RouteEvents
    BY <2>1, <2>6 DEF Info, Infos, PutEvent, RouteEvents
  <2> QED BY <2>4, <2>5, <2>7
<1>5. PICK e : e = PutEvent(rev + 1, new) OBVIOUS
<1>6. e \in RouteEvents /\ e.rev = rev + 1 /\ e.kind = "put" /\ e.info = new BY <1>4, <1>5 DEF PutEvent
<1>7. PICK m : m = log' OBVIOUS
<1>8. m = Append(log, e) BY <1>3, <1>5, <1>7 DEF WriteState
<1>9. Extends(log, rev, m) /\ DOMAIN m \ DOMAIN log = {Len(log) + 1} /\ m[Len(log) + 1] = e BY <1>6, <1>8, AppendExtends
<1>10. NewPutSound(log, rev, m, Len(log) + 1)
  <2>1. ASSUME NEW k \in DOMAIN log, PutAt(log, k)
        PROVE  Newer(new, log[k].info) /\ (GenAt(log, k) # new.gen => Gone(m, GenAt(log, k), rev + 1))
    <3>1. GenAt(log, k) <= GenAt(log, i) /\ ~Newer(log[k].info, log[i].info) BY <1>2, <2>1, LaterPuts
    <3>2. Newer(new, log[k].info) BY <1>2, <1>4, <3>1, LogTypes DEF Newer, GenAt
    <3>3. ASSUME GenAt(log, k) # new.gen PROVE Gone(m, GenAt(log, k), rev + 1)
      <4>1. Gone(log, GenAt(log, k), rev) BY <1>4, <2>1, <3>3, EarlierGone
      <4>2. Gone(m, GenAt(log, k), rev) BY <1>9, <4>1, GoneStays
      <4> QED BY <1>0, <1>9, <4>2, ExtendedIndices DEF Gone
    <3> QED BY <3>2, <3>3
  <2>2. ASSUME NEW d \in DOMAIN m, DelAt(m, d) PROVE GenAt(m, d) # new.gen
    <3>1. d \in DOMAIN log BY <1>6, <1>9, <2>2 DEF DelAt
    <3>2. DelAt(log, d) /\ GenAt(m, d) = GenAt(log, d) /\ log[d].rev <= rev BY <1>9, <2>2, <3>1 DEF DelAt, GenAt, Extends, LogSound
    <3> QED BY <1>2, <1>4, <3>1, <3>2 DEF Gone
  <2> QED BY <1>6, <1>9, <2>1, <2>2 DEF NewPutSound, GenAt
<1>11. ~DelAt(m, Len(log) + 1) BY <1>6, <1>9 DEF DelAt
<1>12. LogSound(m, rev + 1) BY <1>9, <1>10, <1>11, LogExtends
<1> QED BY <1>0, <1>7, <1>9, <1>12

LEMMA WriteDeleteSound ==
    ASSUME LogSound(log, rev), WriteDelete
    PROVE  LogSound(log', rev') /\ Extends(log, rev, log') /\ rev' = rev + 1
<1>0. rev \in Nat /\ rev' = rev + 1 BY DEF WriteDelete, LogSound
<1>1. Current # None BY DEF WriteDelete
<1>2. PICK i \in DOMAIN log : PutAt(log, i) /\ Current = log[i].info /\ Current \in Infos /\ ~Gone(log, Current.gen, rev)
  BY <1>1, CurrentPut
<1>3. PICK e : e = DelEvent(rev + 1, Current) OBVIOUS
<1>4. e \in RouteEvents /\ e.rev = rev + 1 /\ e.kind = "del" /\ e.info = Current BY <1>0, <1>2, <1>3 DEF DelEvent, RouteEvents
<1>5. PICK m : m = log' OBVIOUS
<1>6. m = Append(log, e) BY <1>3, <1>5 DEF WriteDelete
<1>7. Extends(log, rev, m) /\ DOMAIN m \ DOMAIN log = {Len(log) + 1} /\ m[Len(log) + 1] = e BY <1>4, <1>6, AppendExtends
<1>8. NewDelSound(log, rev, m, Len(log) + 1) BY <1>2, <1>4, <1>7 DEF NewDelSound, GenAt
<1>9. ~PutAt(m, Len(log) + 1) BY <1>4, <1>7 DEF PutAt
<1>10. LogSound(m, rev + 1) BY <1>7, <1>8, <1>9, LogExtends
<1> QED BY <1>0, <1>5, <1>7, <1>10

LEMMA OtherWriteSound ==
    ASSUME LogSound(log, rev) PROVE LogSound(log, rev + 1) /\ Extends(log, rev, log)
<1>1. Extends(log, rev, log) BY DEF Extends, LogSound
<1> QED BY <1>1, LogExtends

\* The first put of a new generation, at index i of the log that holds the deletion of the live one.
LEMMA CreateSound ==
    ASSUME LogSound(log, rev), NEW m, Extends(log, rev, m), NEW i \in DOMAIN m \ DOMAIN log,
           \A h \in UsedGens : h < GenAt(m, i), Current # None => Gone(m, Current.gen, rev + 1),
           \A d \in DOMAIN m \ DOMAIN log : DelAt(m, d) => GenAt(m, d) \in UsedGens
    PROVE  NewPutSound(log, rev, m, i)
<1>0. rev \in Nat BY DEF LogSound
<1>1. \A k \in DOMAIN log : GenAt(log, k) \in UsedGens BY DEF UsedGens, GenAt
<1>2. ASSUME NEW k \in DOMAIN log, PutAt(log, k)
      PROVE  Newer(m[i].info, log[k].info) /\ Gone(m, GenAt(log, k), rev + 1)
  <2>1. GenAt(log, k) < GenAt(m, i) /\ GenAt(log, k) \in Nat /\ GenAt(m, i) \in Nat BY <1>1, ExtendedIndices, LogTypes
  <2>2. Newer(m[i].info, log[k].info) BY <2>1 DEF Newer, GenAt
  <2>3. CASE Current # None /\ GenAt(log, k) = Current.gen BY <2>2, <2>3
  <2>4. CASE Current # None => GenAt(log, k) # Current.gen
    <3>1. Gone(log, GenAt(log, k), rev) BY <1>2, <2>4, EarlierGone
    <3>2. Gone(m, GenAt(log, k), rev) BY <3>1, GoneStays
    <3>3. \A d \in DOMAIN m : m[d].rev <= rev + 1 BY ExtendedIndices
    <3>4. Gone(m, GenAt(log, k), rev + 1) BY <3>2, <3>3 DEF Gone
    <3> QED BY <2>2, <3>4
  <2> QED BY <2>2, <2>3, <2>4
<1>3. ASSUME NEW d \in DOMAIN m, DelAt(m, d) PROVE GenAt(m, d) # GenAt(m, i)
  <2>1. GenAt(m, d) \in UsedGens
    <3>1. CASE d \in DOMAIN log
      <4>1. m[d] = log[d] BY <3>1 DEF Extends
      <4> QED BY <1>1, <3>1, <4>1 DEF GenAt
    <3>2. CASE d \notin DOMAIN log BY <1>3, <3>2
    <3> QED BY <3>1, <3>2
  <2>2. GenAt(m, d) \in Nat /\ GenAt(m, i) \in Nat BY ExtendedIndices
  <2> QED BY <2>1, <2>2
<1> QED BY <1>2, <1>3 DEF NewPutSound

LEMMA KernelCreateSound ==
    ASSUME LogSound(log, rev), KernelCreate
    PROVE  LogSound(log', rev') /\ Extends(log, rev, log') /\ rev' = rev + 1
<1>0. rev \in Nat BY DEF LogSound
<1>1. PICK g \in Gens \ UsedGens, st \in Statuses :
         /\ \A h \in UsedGens : h < g
         /\ rev' = rev + 1
         /\ LET put == PutEvent(rev + 1, Info(g, 1, st, 1))
                del == DelEvent(rev + 1, Current)
            IN  log' \in IF Current = None THEN {Append(log, put)}
                         ELSE {log \o <<put, del>>, log \o <<del, put>>}
  BY DEF KernelCreate
<1>2. PICK put : put = PutEvent(rev + 1, Info(g, 1, st, 1)) OBVIOUS
<1>3. put \in RouteEvents /\ put.rev = rev + 1 /\ put.kind = "put" /\ put.info.gen = g
  <2>1. PICK r \in Nat : r = rev + 1 BY <1>0
  <2>2. put \in RouteEvents /\ put.rev = r /\ put.kind = "put" /\ put.info.gen = g BY <1>2, <2>1 DEF PutEvent, Info, Infos, RouteEvents
  <2> QED BY <2>1, <2>2
<1>4. PICK del : del = DelEvent(rev + 1, Current) OBVIOUS
<1>5. PICK m : m = log' OBVIOUS
<1>6. DOMAIN log = 1..Len(log) /\ Len(log) \in Nat BY LogTypes
<1>7. CASE Current = None
  <2>1. m = Append(log, put) BY <1>1, <1>2, <1>5, <1>7
  <2>2. Extends(log, rev, m) /\ DOMAIN m \ DOMAIN log = {Len(log) + 1} /\ m[Len(log) + 1] = put BY <1>3, <2>1, AppendExtends
  <2>3. ~DelAt(m, Len(log) + 1) /\ GenAt(m, Len(log) + 1) = g BY <1>3, <2>2 DEF DelAt, GenAt
  <2>4. NewPutSound(log, rev, m, Len(log) + 1) BY <1>1, <1>7, <2>2, <2>3, CreateSound
  <2>5. LogSound(m, rev + 1) BY <2>2, <2>3, <2>4, LogExtends
  <2> QED BY <1>1, <1>5, <2>2, <2>5
<1>8. CASE Current # None
  <2>1. PICK i \in DOMAIN log : PutAt(log, i) /\ Current = log[i].info /\ Current \in Infos /\ ~Gone(log, Current.gen, rev)
    BY <1>8, CurrentPut
  <2>2. del \in RouteEvents /\ del.rev = rev + 1 /\ del.kind = "del" /\ del.info = Current BY <1>0, <1>4, <2>1 DEF DelEvent, RouteEvents
  <2>3. m \in {log \o <<put, del>>, log \o <<del, put>>} BY <1>1, <1>2, <1>4, <1>5, <1>8
  <2>4. PICK a, b : /\ {a, b} = {Len(log) + 1, Len(log) + 2} /\ a # b /\ Extends(log, rev, m)
                    /\ DOMAIN m \ DOMAIN log = {a, b} /\ m[a] = put /\ m[b] = del
    <3>1. CASE TwoMore(put, del, m)
      <4>1. /\ Extends(log, rev, m) /\ DOMAIN m \ DOMAIN log = {Len(log) + 1, Len(log) + 2}
            /\ m[Len(log) + 1] = put /\ m[Len(log) + 2] = del
        BY <1>3, <2>2, <3>1, TwoExtend
      <4>2. Len(log) + 1 # Len(log) + 2 BY <1>6
      <4> QED BY <4>1, <4>2
    <3>2. CASE TwoMore(del, put, m)
      <4>1. /\ Extends(log, rev, m) /\ DOMAIN m \ DOMAIN log = {Len(log) + 1, Len(log) + 2}
            /\ m[Len(log) + 1] = del /\ m[Len(log) + 2] = put
        BY <1>3, <2>2, <3>2, TwoExtend
      <4>2. Len(log) + 1 # Len(log) + 2 BY <1>6
      <4> QED BY <4>1, <4>2
    <3> QED BY <2>3, <3>1, <3>2 DEF TwoMore
  <2>5. a \in DOMAIN m \ DOMAIN log /\ b \in DOMAIN m \ DOMAIN log BY <2>4
  <2>6. PutAt(m, a) /\ DelAt(m, b) /\ ~DelAt(m, a) /\ ~PutAt(m, b) BY <1>3, <2>2, <2>4, <2>5 DEF PutAt, DelAt
  <2>7. GenAt(m, a) = g /\ GenAt(m, b) = Current.gen BY <1>3, <2>2, <2>4 DEF GenAt
  <2>8. Gone(m, Current.gen, rev + 1) BY <1>0, <2>2, <2>4, <2>5, <2>6, <2>7 DEF Gone
  <2>9. Current.gen \in UsedGens BY <2>1 DEF UsedGens
  <2>10. NewPutSound(log, rev, m, a) BY <1>1, <2>4, <2>5, <2>6, <2>7, <2>8, <2>9, CreateSound
  <2>11. NewDelSound(log, rev, m, b) BY <2>1, <2>2, <2>4, <2>7 DEF NewDelSound
  <2>12. \A x, y \in DOMAIN m \ DOMAIN log : m[x].kind = m[y].kind => x = y BY <1>3, <2>2, <2>4
  <2>13. LogSound(m, rev + 1) BY <2>4, <2>6, <2>10, <2>11, <2>12, LogExtends
  <2> QED BY <1>1, <1>5, <2>4, <2>13
<1> QED BY <1>7, <1>8

\* Without an observation nothing the watch has reported is alive, and no read answers from before it.
NothingSeen(l, p, f) ==
    \A i \in 1..p : l[i].rev <= f /\ (PutAt(l, i) => \E d \in 1..p : DelAt(l, d) /\ GenAt(l, d) = GenAt(l, i))

\* The observation o of a live generation: the put in force at its revision. A deletion the watch has
\* reported since is of its own generation, which is then paused and known by the route key.
SeenAlive(l, p, o) ==
    /\ ~Gone(l, o.info.gen, o.rev)
    /\ \A j \in 1..p : DelAt(l, j) /\ l[j].rev > o.rev => o.key = RouteKey /\ GenAt(l, j) = o.info.gen

\* The observation of a deletion: what the watch or the read could still report of before it is gone.
SeenDead(l, p, o) ==
    /\ \A j \in 1..p : l[j].rev <= o.rev
    /\ \A k \in DOMAIN l : PutAt(l, k) /\ (l[k].rev < o.rev \/ k <= p \/ GenAt(l, k) = o.info.gen) => Gone(l, GenAt(l, k), o.rev)

SeenPut(l, o, i) == PutAt(l, i) /\ l[i].info = o.info /\ l[i].rev <= o.rev /\ (~o.deleted => LatestPut(l, i, o.rev))

Seen(l, p, o) ==
    /\ \E i \in DOMAIN l : SeenPut(l, o, i)
    /\ o.key = InstKey(o.info.gen) \/ (o.key = RouteKey /\ o.info.status = "paused")
    /\ \A j \in 1..p : PutAt(l, j) => l[j].rev <= o.rev
    /\ ~o.deleted => SeenAlive(l, p, o)
    /\ o.deleted => SeenDead(l, p, o)

ObsSound(l, n, p, f, o) ==
    /\ p \in 0..Len(l) /\ f \in 0..n
    /\ o = None => NothingSeen(l, p, f)
    /\ o # None => o \in Observations /\ o.rev <= n /\ Seen(l, p, o)

LEMMA KeysDiffer ==
    /\ \A g : InstKey(g) # RouteKey
    /\ \A g, h : InstKey(g) = InstKey(h) => g = h
BY DEF InstKey, RouteKey

LEMMA ObsTypes ==
    ASSUME NEW o \in Observations
    PROVE  o.info \in Infos /\ o.rev \in Nat /\ o.deleted \in BOOLEAN /\ o.info.gen \in Gens /\ o.info.gen \in Nat /\ o.info.ver \in Nat /\ o # None
<1>1. o.info \in Infos /\ o.rev \in Nat /\ o.deleted \in BOOLEAN BY DEF Observations
<1> QED BY <1>1, GensAssumption, RecordAssumption DEF Infos

\* A generation is deleted once: one that is gone by r has no deletion after r.
LEMMA GoneOnce ==
    ASSUME NEW l, NEW n, LogSound(l, n), NEW j \in DOMAIN l, DelAt(l, j), NEW r, Gone(l, GenAt(l, j), r)
    PROVE  l[j].rev <= r
<1>1. PICK d \in DOMAIN l : DelAt(l, d) /\ GenAt(l, d) = GenAt(l, j) /\ l[d].rev <= r BY DEF Gone
<1>2. d = j BY <1>1 DEF LogSound
<1> QED BY <1>1, <1>2

LEMMA GoneLater ==
    ASSUME NEW l, NEW n, LogSound(l, n), NEW g, NEW q \in Nat, NEW r \in Nat, q <= r, Gone(l, g, q)
    PROVE  Gone(l, g, r)
<1>1. PICK d \in DOMAIN l : DelAt(l, d) /\ GenAt(l, d) = g /\ l[d].rev <= q BY DEF Gone
<1>2. l[d].rev \in Nat BY LogTypes
<1>3. l[d].rev <= r BY <1>1, <1>2
<1> QED BY <1>1, <1>3 DEF Gone

\* A write leaves what was observed sound.
LEMMA ObsStays ==
    ASSUME NEW l, NEW n, LogSound(l, n), NEW m, Extends(l, n, m), LogSound(m, n + 1), NEW p, NEW f, NEW o, ObsSound(l, n, p, f, o)
    PROVE  ObsSound(m, n + 1, p, f, o)
<1>1. n \in Nat /\ DOMAIN l = 1..Len(l) /\ Len(l) \in Nat /\ Len(l) <= Len(m) /\ Len(m) \in Nat BY ExtendedIndices, LogTypes
<1>2. p \in 0..Len(m) /\ f \in 0..(n + 1) /\ p \in Nat /\ 1..p \subseteq DOMAIN l BY <1>1 DEF ObsSound
<1>3. DOMAIN l \subseteq DOMAIN m /\ (\A i \in DOMAIN l : m[i] = l[i]) BY DEF Extends
<1>4. \A i \in DOMAIN l : (PutAt(m, i) <=> PutAt(l, i)) /\ (DelAt(m, i) <=> DelAt(l, i)) /\ GenAt(m, i) = GenAt(l, i)
  BY <1>3 DEF PutAt, DelAt, GenAt
<1>5. CASE o = None
  <2>1. NothingSeen(l, p, f) BY <1>5 DEF ObsSound
  <2>2. NothingSeen(m, p, f) BY <1>2, <1>3, <1>4, <2>1 DEF NothingSeen
  <2> QED BY <1>2, <1>5, <2>2 DEF ObsSound
<1>6. CASE o # None
  <2>1. o \in Observations /\ o.rev <= n /\ Seen(l, p, o) /\ o.rev \in Nat BY <1>6, ObsTypes DEF ObsSound
  <2>2. o.rev <= n + 1 BY <1>1, <2>1
  <2>3. \A g : Gone(m, g, o.rev) <=> Gone(l, g, o.rev) BY <2>1, HistoryStays
  <2>4. \A i \in DOMAIN l : LatestPut(m, i, o.rev) <=> LatestPut(l, i, o.rev) BY <2>1, HistoryStays
  <2>5. PICK i \in DOMAIN l : SeenPut(l, o, i) BY <2>1 DEF Seen
  <2>6. i \in DOMAIN m /\ SeenPut(m, o, i) BY <1>3, <1>4, <2>4, <2>5 DEF SeenPut
  <2>7. \A j \in 1..p : PutAt(m, j) => m[j].rev <= o.rev BY <1>2, <1>3, <1>4, <2>1 DEF Seen
  <2>8. ~o.deleted => SeenAlive(m, p, o) BY <1>2, <1>3, <1>4, <2>1, <2>3 DEF Seen, SeenAlive
  <2>9. ASSUME o.deleted PROVE SeenDead(m, p, o)
    <3>1. SeenDead(l, p, o) BY <2>1, <2>9 DEF Seen
    <3>2. \A j \in 1..p : m[j].rev <= o.rev BY <1>2, <1>3, <3>1 DEF SeenDead
    <3>3. ASSUME NEW k \in DOMAIN m, PutAt(m, k), m[k].rev < o.rev \/ k <= p \/ GenAt(m, k) = o.info.gen
          PROVE  Gone(m, GenAt(m, k), o.rev)
      <4>1. CASE k \in DOMAIN l
        <5>1. Gone(l, GenAt(l, k), o.rev) BY <1>3, <1>4, <3>1, <3>3, <4>1 DEF SeenDead
        <5> QED BY <1>4, <2>3, <4>1, <5>1
      <4>2. CASE k \notin DOMAIN l
        <5>1. m[k].rev = n + 1 /\ k > Len(l) /\ k \in Nat BY <4>2, ExtendedIndices DEF Extends
        <5>2. GenAt(m, k) = o.info.gen BY <1>1, <1>2, <2>1, <3>3, <5>1
        <5>3. GenAt(l, i) = o.info.gen /\ PutAt(l, i) BY <2>5 DEF SeenPut, GenAt
        <5>4. Gone(l, o.info.gen, o.rev) BY <3>1, <5>3 DEF SeenDead
        <5> QED BY <2>3, <5>2, <5>4
      <4> QED BY <4>1, <4>2
    <3> QED BY <3>2, <3>3 DEF SeenDead
  <2>10. Seen(m, p, o) BY <2>1, <2>6, <2>7, <2>8, <2>9 DEF Seen
  <2> QED BY <1>2, <1>6, <2>1, <2>2, <2>10 DEF ObsSound
<1> QED BY <1>5, <1>6

LiveObs(info, key, r) == [info |-> info, key |-> key, rev |-> r, deleted |-> FALSE]
DeadObs(info, key, r) == [info |-> info, key |-> key, rev |-> r, deleted |-> TRUE]

LEMMA ObservationFields ==
    ASSUME NEW info \in Infos, NEW key, key = RouteKey \/ \E g \in Gens : key = InstKey(g), NEW r \in Nat
    PROVE  /\ LiveObs(info, key, r) \in Observations /\ DeadObs(info, key, r) \in Observations
           /\ LiveObs(info, key, r).info = info /\ LiveObs(info, key, r).key = key
           /\ LiveObs(info, key, r).rev = r /\ ~LiveObs(info, key, r).deleted
           /\ DeadObs(info, key, r).info = info /\ DeadObs(info, key, r).key = key
           /\ DeadObs(info, key, r).rev = r /\ DeadObs(info, key, r).deleted
BY DEF LiveObs, DeadObs, Observations

\* The put in force at a revision, observed: no earlier put is left out and its generation is not gone.
LEMMA LatestIsSeen ==
    ASSUME NEW l, NEW n, LogSound(l, n), NEW i \in DOMAIN l, NEW r \in Nat, LatestPut(l, i, r), ~Gone(l, GenAt(l, i), r),
           NEW p, NEW key, key = InstKey(GenAt(l, i)) \/ (key = RouteKey /\ l[i].info.status = "paused"),
           \A j \in 1..p : PutAt(l, j) => l[j].rev <= r,
           \A j \in 1..p : DelAt(l, j) /\ l[j].rev > r => key = RouteKey /\ GenAt(l, j) = GenAt(l, i),
           NEW o, o = LiveObs(l[i].info, key, r)
    PROVE  o \in Observations /\ o.rev = r /\ ~o.deleted /\ o.info = l[i].info /\ Seen(l, p, o)
<1>1. l[i].info \in Infos /\ GenAt(l, i) \in Gens BY LogTypes
<1>2. o \in Observations /\ o.info = l[i].info /\ o.key = key /\ o.rev = r /\ ~o.deleted BY <1>1, ObservationFields
<1>3. GenAt(l, i) = o.info.gen BY <1>2 DEF GenAt
<1>4. PutAt(l, i) /\ l[i].rev <= r BY DEF LatestPut
<1>5. SeenPut(l, o, i) BY <1>2, <1>4 DEF SeenPut
<1>6. SeenAlive(l, p, o) BY <1>2, <1>3 DEF SeenAlive
<1> QED BY <1>2, <1>3, <1>5, <1>6 DEF Seen

\* applyEvent on a put that putLocked takes.
LEMMA PutSeen ==
    ASSUME NEW l, NEW n, LogSound(l, n), NEW i \in DOMAIN l, PutAt(l, i),
           NEW o, o = LiveObs(l[i].info, InstKey(GenAt(l, i)), l[i].rev)
    PROVE  o \in Observations /\ o.rev = l[i].rev /\ ~o.deleted /\ o.info = l[i].info /\ Seen(l, i, o)
<1>1. l[i].rev \in Nat /\ DOMAIN l = 1..Len(l) /\ Len(l) \in Nat /\ i \in Nat /\ \A j \in DOMAIN l : l[j].rev \in Nat BY LogTypes
<1>2. \A j \in DOMAIN l : PutAt(l, j) /\ l[j].rev <= l[i].rev => j <= i
  <2> SUFFICES ASSUME NEW j \in DOMAIN l, PutAt(l, j), l[j].rev <= l[i].rev, ~(j <= i) PROVE FALSE OBVIOUS
  <2>1. i < j BY <1>1
  <2>2. l[i].rev < l[j].rev BY <2>1 DEF LogSound
  <2> QED BY <1>1, <2>2
<1>3. LatestPut(l, i, l[i].rev) BY <1>1, <1>2 DEF LatestPut
<1>4. ~Gone(l, GenAt(l, i), l[i].rev)
  <2> SUFFICES ASSUME NEW d \in DOMAIN l, DelAt(l, d), GenAt(l, d) = GenAt(l, i), l[d].rev <= l[i].rev PROVE FALSE BY DEF Gone
  <2>1. l[i].rev < l[d].rev BY DEF LogSound
  <2> QED BY <1>1, <2>1
<1>5. \A j \in 1..i : l[j].rev <= l[i].rev /\ l[j].rev \in Nat
  <2> SUFFICES ASSUME NEW j \in 1..i PROVE l[j].rev <= l[i].rev /\ l[j].rev \in Nat OBVIOUS
  <2>1. j \in DOMAIN l /\ (j = i \/ j < i) BY <1>1
  <2> QED BY <1>1, <2>1 DEF LogSound
<1>6. \A j \in 1..i : ~(l[j].rev > l[i].rev) BY <1>1, <1>5
<1>7. PICK r \in Nat : r = l[i].rev BY <1>1
<1>8. PICK key : key = InstKey(GenAt(l, i)) OBVIOUS
<1>9. LatestPut(l, i, r) /\ ~Gone(l, GenAt(l, i), r) /\ o = LiveObs(l[i].info, key, r) BY <1>3, <1>4, <1>7, <1>8
<1>10. \A j \in 1..i : l[j].rev <= r /\ ~(l[j].rev > r) BY <1>5, <1>6, <1>7
<1>11. \A j \in 1..i : PutAt(l, j) => l[j].rev <= r BY <1>10
<1>12. \A j \in 1..i : DelAt(l, j) /\ l[j].rev > r => key = RouteKey /\ GenAt(l, j) = GenAt(l, i) BY <1>10
<1>13. o \in Observations /\ o.rev = r /\ ~o.deleted /\ o.info = l[i].info /\ Seen(l, i, o)
  BY <1>8, <1>9, <1>11, <1>12, LatestIsSeen
<1> QED BY <1>7, <1>13

\* applyEvent on a put that putLocked drops.
LEMMA PutStale ==
    ASSUME NEW l, NEW n, LogSound(l, n), NEW p \in Nat, p + 1 \in DOMAIN l, PutAt(l, p + 1), NEW o \in Observations, Seen(l, p, o),
           \/ l[p + 1].rev < o.rev
           \/ l[p + 1].rev = o.rev /\ (o.key = InstKey(GenAt(l, p + 1)) \/ ~o.deleted)
           \/ o.key = InstKey(GenAt(l, p + 1)) /\ l[p + 1].info.ver < o.info.ver
    PROVE  Seen(l, p + 1, o)
<1> DEFINE q == p + 1
<1>0. q \in Nat /\ 1..q = (1..p) \union {q} /\ q \in DOMAIN l OBVIOUS
<1>1. o.rev \in Nat /\ o.info.ver \in Nat /\ o.deleted \in BOOLEAN /\ o.info.gen \in Nat BY ObsTypes
<1>2. l[q].rev \in Nat /\ l[q].info.ver \in Nat /\ GenAt(l, q) \in Nat /\ DOMAIN l = 1..Len(l) BY <1>0, LogTypes
<1>3. o.key = InstKey(GenAt(l, q)) => o.info.gen = GenAt(l, q) BY KeysDiffer DEF Seen
<1>4. PICK i \in DOMAIN l : SeenPut(l, o, i) BY DEF Seen
<1>5. l[q].rev <= o.rev
  <2>1. CASE o.key = InstKey(GenAt(l, q)) /\ l[q].info.ver < o.info.ver
    <3>1. l[i].info = o.info /\ PutAt(l, i) /\ l[i].rev <= o.rev BY <1>4 DEF SeenPut
    <3>2. Newer(l[i].info, l[q].info) BY <1>1, <1>2, <1>3, <2>1, <3>1 DEF Newer, GenAt
    <3>3. ~(i <= q) BY <1>0, <3>1, <3>2, LaterPuts
    <3>4. q < i BY <1>0, <1>2, <3>3
    <3>5. l[q].rev <= l[i].rev /\ l[i].rev \in Nat BY <1>0, <3>4, LogTypes DEF LogSound
    <3> QED BY <1>1, <1>2, <3>1, <3>5
  <2> QED BY <1>1, <1>2, <2>1
<1>6. \A j \in 1..q : PutAt(l, j) => l[j].rev <= o.rev BY <1>0, <1>5 DEF Seen
<1>7. ASSUME ~o.deleted PROVE SeenAlive(l, q, o)
  <2>1. SeenAlive(l, p, o) BY <1>7 DEF Seen
  <2>2. ~DelAt(l, q) BY DEF PutAt, DelAt
  <2> QED BY <1>0, <2>1, <2>2 DEF SeenAlive
<1>8. ASSUME o.deleted PROVE SeenDead(l, q, o)
  <2>1. SeenDead(l, p, o) BY <1>8 DEF Seen
  <2>2. Gone(l, GenAt(l, q), o.rev)
    <3>1. l[q].rev < o.rev \/ GenAt(l, q) = o.info.gen BY <1>3, <1>8
    <3> QED BY <1>0, <2>1, <3>1 DEF SeenDead
  <2>3. \A j \in 1..q : l[j].rev <= o.rev BY <1>0, <1>5, <2>1 DEF SeenDead
  <2>4. ASSUME NEW k \in DOMAIN l, PutAt(l, k), l[k].rev < o.rev \/ k <= q \/ GenAt(l, k) = o.info.gen
        PROVE  Gone(l, GenAt(l, k), o.rev)
    <3>1. CASE k = q BY <2>2, <3>1
    <3>2. CASE k # q
      <4>1. k <= q => k <= p BY <1>2, <3>2
      <4> QED BY <2>1, <2>4, <4>1 DEF SeenDead
    <3> QED BY <3>1, <3>2
  <2> QED BY <2>3, <2>4 DEF SeenDead
<1> HIDE DEF q
<1>9. Seen(l, q, o) BY <1>4, <1>6, <1>7, <1>8 DEF Seen
<1> QED BY <1>9 DEF q

\* The put whose generation a deletion ends comes before it, and an observed live record is at least as new.
LEMMA DeletedPut ==
    ASSUME NEW l, NEW n, LogSound(l, n), NEW p \in Nat, p + 1 \in DOMAIN l, DelAt(l, p + 1)
    PROVE  \E k \in 1..p : k \in DOMAIN l /\ PutAt(l, k) /\ l[k].info = l[p + 1].info /\ GenAt(l, k) = GenAt(l, p + 1) /\ l[k].rev < l[p + 1].rev
<1>1. PICK k \in DOMAIN l : PutAt(l, k) /\ l[k].info = l[p + 1].info BY DEF LogSound
<1>2. GenAt(l, k) = GenAt(l, p + 1) BY <1>1 DEF GenAt
<1>3. k < p + 1 /\ l[k].rev < l[p + 1].rev BY <1>1, <1>2 DEF LogSound
<1>4. k \in 1..p BY <1>3, LogTypes
<1> QED BY <1>1, <1>2, <1>3, <1>4

LEMMA EarlierRevisions ==
    ASSUME NEW l, NEW n, LogSound(l, n), NEW q \in DOMAIN l
    PROVE  /\ \A j \in 1..q : j \in DOMAIN l /\ l[j].rev \in Nat /\ l[j].rev <= l[q].rev
           /\ \A k \in DOMAIN l : l[k].rev < l[q].rev => k <= q
<1>1. DOMAIN l = 1..Len(l) /\ Len(l) \in Nat /\ q \in Nat /\ \A j \in DOMAIN l : l[j].rev \in Nat BY LogTypes
<1>2. ASSUME NEW j \in 1..q PROVE j \in DOMAIN l /\ l[j].rev \in Nat /\ l[j].rev <= l[q].rev
  <2>1. j \in DOMAIN l /\ (j = q \/ j < q) BY <1>1
  <2> QED BY <1>1, <2>1 DEF LogSound
<1>3. ASSUME NEW k \in DOMAIN l, l[k].rev < l[q].rev, ~(k <= q) PROVE FALSE
  <2>1. q < k BY <1>1, <1>3
  <2>2. l[q].rev <= l[k].rev BY <2>1 DEF LogSound
  <2> QED BY <1>1, <1>3, <2>2
<1> QED BY <1>2, <1>3

\* applyEvent on a deletion that deleteLocked takes.
LEMMA DelSeen ==
    ASSUME NEW l, NEW n, LogSound(l, n), NEW p \in Nat, p + 1 \in DOMAIN l, DelAt(l, p + 1), NEW info \in Infos,
           info.gen = GenAt(l, p + 1), \E i \in DOMAIN l : PutAt(l, i) /\ l[i].info = info,
           \A k \in 1..p : PutAt(l, k) => Gone(l, GenAt(l, k), l[p + 1].rev),
           NEW o, o = DeadObs(info, InstKey(GenAt(l, p + 1)), l[p + 1].rev)
    PROVE  o \in Observations /\ o.rev = l[p + 1].rev /\ o.deleted /\ Seen(l, p + 1, o)
<1> DEFINE q == p + 1
<1>1. q \in DOMAIN l /\ l[q].rev \in Nat /\ GenAt(l, q) \in Gens /\ q \in Nat BY LogTypes
<1>2. o \in Observations /\ o.info = info /\ o.key = InstKey(GenAt(l, q)) /\ o.rev = l[q].rev /\ o.deleted
  BY <1>1 DEF DeadObs, Observations
<1>3. \A j \in 1..q : j \in DOMAIN l /\ l[j].rev <= o.rev BY <1>1, <1>2, EarlierRevisions
<1>4. Gone(l, info.gen, o.rev) BY <1>1, <1>2 DEF Gone
<1>5. ASSUME NEW k \in DOMAIN l, PutAt(l, k), l[k].rev < o.rev \/ k <= q \/ GenAt(l, k) = o.info.gen PROVE Gone(l, GenAt(l, k), o.rev)
  <2>1. CASE GenAt(l, k) = o.info.gen BY <1>2, <1>4, <2>1
  <2>2. CASE GenAt(l, k) # o.info.gen
    <3>1. k <= q BY <1>1, <1>2, <1>5, <2>2, EarlierRevisions
    <3>2. k # q BY <1>2, <2>2
    <3>3. k \in 1..p BY <3>1, <3>2, LogTypes
    <3> QED BY <1>2, <1>5, <3>3
  <2> QED BY <2>1, <2>2
<1>6. SeenDead(l, q, o) BY <1>3, <1>5 DEF SeenDead
<1>7. PICK i \in DOMAIN l : PutAt(l, i) /\ l[i].info = info OBVIOUS
<1>8. l[i].rev <= o.rev
  <2>1. GenAt(l, i) = GenAt(l, q) BY <1>7 DEF GenAt
  <2>2. l[i].rev < l[q].rev /\ l[i].rev \in Nat BY <1>1, <1>7, <2>1, LogTypes DEF LogSound
  <2> QED BY <1>1, <1>2, <2>2
<1>9. SeenPut(l, o, i) BY <1>2, <1>7, <1>8 DEF SeenPut
<1> HIDE DEF q
<1>10. Seen(l, q, o) BY <1>2, <1>3, <1>6, <1>7, <1>9 DEF Seen, q
<1> QED BY <1>2, <1>10 DEF q

\* What deleteLocked needs of the puts the watch has reported: the earlier generations are gone.
LEMMA ReportedGone ==
    ASSUME NEW l, NEW n, LogSound(l, n), NEW p \in Nat, p + 1 \in DOMAIN l, DelAt(l, p + 1), NEW o \in Observations, Seen(l, p, o),
           o.info.gen = GenAt(l, p + 1), o.rev < l[p + 1].rev, NEW k \in 1..p, PutAt(l, k)
    PROVE  Gone(l, GenAt(l, k), l[p + 1].rev)
<1> DEFINE q == p + 1
<1>1. q \in DOMAIN l /\ l[q].rev \in Nat /\ o.rev \in Nat /\ o.deleted \in BOOLEAN BY LogTypes, ObsTypes
<1>2. k \in DOMAIN l /\ l[k].rev \in Nat /\ l[k].rev <= o.rev BY LogTypes DEF PutAt, Seen
<1>3. CASE o.deleted
  <2>1. Gone(l, GenAt(l, k), o.rev) BY <1>2, <1>3 DEF Seen, SeenDead
  <2> QED BY <1>1, <2>1, GoneLater
<1>4. CASE ~o.deleted
  <2>1. PICK i \in DOMAIN l : SeenPut(l, o, i) BY DEF Seen
  <2>2. LatestPut(l, i, o.rev) /\ PutAt(l, i) /\ l[i].rev <= o.rev /\ l[i].rev \in Nat /\ GenAt(l, i) = GenAt(l, q)
    BY <1>4, <2>1, LogTypes DEF SeenPut, GenAt
  <2>3. k <= i BY <1>2, <2>2 DEF LatestPut
  <2>4. GenAt(l, k) <= GenAt(l, i) /\ GenAt(l, k) \in Nat /\ GenAt(l, i) \in Nat BY <1>2, <2>2, <2>3, LaterPuts, LogTypes
  <2>5. CASE GenAt(l, k) = GenAt(l, i) BY <1>1, <2>2, <2>5 DEF Gone
  <2>6. CASE GenAt(l, k) < GenAt(l, i)
    <3>1. Gone(l, GenAt(l, k), l[i].rev) BY <1>2, <2>2, <2>6 DEF LogSound
    <3>2. l[i].rev <= l[q].rev BY <1>1, <2>2
    <3> QED BY <1>1, <2>2, <3>1, <3>2, GoneLater
  <2> QED BY <2>4, <2>5, <2>6
<1> QED BY <1>1, <1>3, <1>4

\* applyEvent on a deletion that deleteLocked drops.
LEMMA DelStale ==
    ASSUME NEW l, NEW n, LogSound(l, n), NEW p \in Nat, p + 1 \in DOMAIN l, DelAt(l, p + 1), NEW o \in Observations, Seen(l, p, o),
           o.key # InstKey(GenAt(l, p + 1)) \/ l[p + 1].rev <= o.rev
    PROVE  Seen(l, p + 1, o)
<1> DEFINE q == p + 1
<1>0. q \in DOMAIN l /\ l[q].rev \in Nat /\ o.rev \in Nat /\ o.deleted \in BOOLEAN /\ GenAt(l, q) \in Nat BY LogTypes, ObsTypes
<1>1. q \in Nat /\ 1..q = (1..p) \union {q} OBVIOUS
<1>2. ~PutAt(l, q) BY DEF PutAt, DelAt
<1>3. PICK k \in 1..p : k \in DOMAIN l /\ PutAt(l, k) /\ GenAt(l, k) = GenAt(l, q) /\ l[k].rev < l[q].rev BY DeletedPut
<1>4. l[k].rev <= o.rev BY <1>3 DEF Seen
<1>5. PICK i \in DOMAIN l : SeenPut(l, o, i) BY DEF Seen
<1>6. \A j \in 1..q : PutAt(l, j) => l[j].rev <= o.rev BY <1>1, <1>2 DEF Seen
<1>7. ASSUME ~o.deleted PROVE SeenAlive(l, q, o)
  <2>1. SeenAlive(l, p, o) BY <1>7 DEF Seen
  <2>2. ASSUME l[q].rev > o.rev PROVE o.key = RouteKey /\ GenAt(l, q) = o.info.gen
    <3>1. LatestPut(l, i, o.rev) /\ PutAt(l, i) /\ l[i].rev <= o.rev /\ l[i].rev \in Nat /\ GenAt(l, i) = o.info.gen
      BY <1>5, <1>7, LogTypes DEF SeenPut, GenAt
    <3>2. k <= i BY <1>3, <1>4, <3>1 DEF LatestPut
    <3>3. GenAt(l, k) <= GenAt(l, i) /\ GenAt(l, k) \in Nat /\ GenAt(l, i) \in Nat BY <1>3, <3>1, <3>2, LaterPuts, LogTypes
    <3>4. ~(GenAt(l, k) < GenAt(l, i))
      <4> SUFFICES ASSUME GenAt(l, k) < GenAt(l, i) PROVE FALSE OBVIOUS
      <4>1. Gone(l, GenAt(l, k), l[i].rev) BY <1>3, <3>1 DEF LogSound
      <4>2. Gone(l, GenAt(l, q), l[i].rev) BY <1>3, <4>1
      <4>3. l[q].rev <= l[i].rev BY <1>0, <4>2, GoneOnce
      <4> QED BY <1>0, <2>2, <3>1, <4>3
    <3>5. GenAt(l, q) = o.info.gen BY <1>3, <3>1, <3>3, <3>4
    <3>6. o.key # InstKey(o.info.gen) BY <1>0, <2>2, <3>5
    <3> QED BY <3>5, <3>6 DEF Seen
  <2> QED BY <1>1, <2>1, <2>2 DEF SeenAlive
<1>8. ASSUME o.deleted PROVE SeenDead(l, q, o)
  <2>1. SeenDead(l, p, o) BY <1>8 DEF Seen
  <2>2. k <= p BY <1>3
  <2>3. Gone(l, GenAt(l, q), o.rev) BY <1>3, <2>1, <2>2 DEF SeenDead
  <2>4. l[q].rev <= o.rev BY <1>0, <2>3, GoneOnce
  <2>5. \A x \in DOMAIN l : PutAt(l, x) /\ x <= q => x <= p BY <1>1, <1>2, LogTypes
  <2>6. \A j \in 1..q : l[j].rev <= o.rev BY <1>1, <2>1, <2>4 DEF SeenDead
  <2> HIDE DEF q
  <2> QED BY <2>1, <2>5, <2>6 DEF SeenDead
<1> HIDE DEF q
<1>9. Seen(l, q, o) BY <1>5, <1>6, <1>7, <1>8 DEF Seen
<1> QED BY <1>9 DEF q

\* refreshInstance puts the record it read at revision r, when the observation is no newer.
LEMMA ReadPutSeen ==
    ASSUME NEW l, NEW n, LogSound(l, n), NEW p, NEW f, NEW o, ObsSound(l, n, p, f, o), NEW r \in Nat, f <= r,
           NEW i \in DOMAIN l, LatestPut(l, i, r), ~Gone(l, GenAt(l, i), r),
           NEW key, key = ReadKey(l[i].info),
           o # None => o.rev <= r /\ (r = o.rev => o.deleted),
           NEW new, new = LiveObs(l[i].info, key, r)
    PROVE  new \in Observations /\ new.rev = r /\ ~new.deleted /\ new.info = l[i].info /\ Seen(l, p, new)
<1>1. p \in Nat /\ f \in Nat /\ 1..p \subseteq DOMAIN l /\ n \in Nat /\ Len(l) \in Nat BY LogTypes DEF ObsSound, LogSound
<1>2. \A j \in DOMAIN l : l[j].rev \in Nat BY LogTypes
<1>3. key = InstKey(GenAt(l, i)) \/ (key = RouteKey /\ l[i].info.status = "paused") BY DEF ReadKey, GenAt
<1>4. ASSUME NEW j \in 1..p, PutAt(l, j) PROVE l[j].rev <= r
  <2>1. CASE o = None
    <3>1. l[j].rev <= f BY <2>1 DEF ObsSound, NothingSeen
    <3> QED BY <1>1, <1>2, <3>1
  <2>2. CASE o # None
    <3>1. l[j].rev <= o.rev /\ o.rev \in Nat BY <1>4, <2>2, ObsTypes DEF ObsSound, Seen
    <3> QED BY <1>1, <1>2, <2>2, <3>1
  <2> QED BY <2>1, <2>2
<1>5. ASSUME NEW j \in 1..p, DelAt(l, j), l[j].rev > r PROVE key = RouteKey /\ GenAt(l, j) = GenAt(l, i)
  <2>0. j \in DOMAIN l /\ l[j].rev \in Nat BY <1>1, <1>2
  <2>1. o # None
    <3> SUFFICES ASSUME o = None PROVE FALSE OBVIOUS
    <3>1. l[j].rev <= f BY DEF ObsSound, NothingSeen
    <3> QED BY <1>1, <1>5, <2>0, <3>1
  <2>2. o \in Observations /\ Seen(l, p, o) /\ o.rev \in Nat /\ o.deleted \in BOOLEAN /\ o.rev <= r BY <2>1, ObsTypes DEF ObsSound
  <2>3. ~o.deleted
    <3> SUFFICES ASSUME o.deleted PROVE FALSE OBVIOUS
    <3>1. l[j].rev <= o.rev BY <2>2 DEF Seen, SeenDead
    <3> QED BY <1>5, <2>0, <2>2, <3>1
  <2>4. l[j].rev > o.rev BY <1>5, <2>0, <2>2
  <2>5. o.key = RouteKey /\ GenAt(l, j) = o.info.gen BY <1>5, <2>2, <2>3, <2>4 DEF Seen, SeenAlive
  <2>6. o.info.status = "paused" BY <2>2, <2>5, KeysDiffer DEF Seen
  <2>7. PICK x \in DOMAIN l : SeenPut(l, o, x) BY <2>2 DEF Seen
  <2>8. LatestPut(l, x, o.rev) /\ PutAt(l, x) /\ l[x].rev <= o.rev /\ l[x].info = o.info /\ GenAt(l, x) = GenAt(l, j) /\ l[x].rev <= r
    BY <1>2, <2>2, <2>3, <2>5, <2>7 DEF SeenPut, GenAt
  <2>9. x <= i /\ PutAt(l, i) /\ l[i].rev <= r BY <2>8 DEF LatestPut
  <2>10. GenAt(l, x) <= GenAt(l, i) /\ GenAt(l, x) \in Nat /\ GenAt(l, i) \in Nat BY <2>8, <2>9, LaterPuts, LogTypes
  <2>11. ~(GenAt(l, x) < GenAt(l, i))
    <3> SUFFICES ASSUME GenAt(l, x) < GenAt(l, i) PROVE FALSE OBVIOUS
    <3>1. Gone(l, GenAt(l, x), l[i].rev) BY <2>8, <2>9 DEF LogSound
    <3>2. Gone(l, GenAt(l, j), l[i].rev) BY <2>8, <3>1
    <3>3. l[j].rev <= l[i].rev BY <1>5, <2>0, <3>2, GoneOnce
    <3> QED BY <1>2, <1>5, <2>0, <2>9, <3>3
  <2>12. GenAt(l, j) = GenAt(l, i) BY <2>8, <2>10, <2>11
  <2>13. i < j BY <1>5, <2>0, <2>9, <2>12 DEF LogSound
  <2>14. i \in 1..p BY <1>1, <2>13, LogTypes
  <2>15. l[i].rev <= o.rev BY <2>2, <2>9, <2>14 DEF Seen
  <2>16. i <= x BY <2>8, <2>9, <2>15 DEF LatestPut
  <2>17. i = x BY <2>9, <2>16, LogTypes
  <2>18. key = RouteKey BY <2>6, <2>8, <2>17 DEF ReadKey
  <2> QED BY <2>12, <2>18
<1>6. \A j \in 1..p : PutAt(l, j) => l[j].rev <= r BY <1>4
<1>7. \A j \in 1..p : DelAt(l, j) /\ l[j].rev > r => key = RouteKey /\ GenAt(l, j) = GenAt(l, i) BY <1>5
<1> QED BY <1>3, <1>6, <1>7, LatestIsSeen

\* refreshInstance deletes: at revision r, after the observation, the read found no record.
LEMMA ReadDelSeen ==
    ASSUME NEW l, NEW n, LogSound(l, n), NEW p \in Nat, 1..p \subseteq DOMAIN l, NEW o \in Observations, Seen(l, p, o), NEW r \in Nat,
           RouteIs(l, r, None), o.rev < r, NEW new, new = DeadObs(o.info, o.key, r)
    PROVE  new \in Observations /\ new.rev = r /\ new.deleted /\ Seen(l, p, new)
<1>1. o.rev \in Nat /\ o.deleted \in BOOLEAN BY ObsTypes
<1>2. new \in Observations /\ new.info = o.info /\ new.key = o.key /\ new.rev = r /\ new.deleted BY DEF DeadObs, Observations
<1>3. \A j \in DOMAIN l : l[j].rev \in Nat /\ l[j].info # None BY LogTypes, RecordAssumption
<1>4. \A k \in DOMAIN l : PutAt(l, k) /\ l[k].rev <= r => Gone(l, GenAt(l, k), r) BY <1>3 DEF RouteIs
<1>5. PICK i \in DOMAIN l : SeenPut(l, o, i) BY DEF Seen
<1>6. PutAt(l, i) /\ l[i].info = o.info /\ GenAt(l, i) = o.info.gen /\ l[i].rev <= r BY <1>1, <1>3, <1>5 DEF SeenPut, GenAt
<1>7. Gone(l, o.info.gen, r) BY <1>4, <1>6
<1>8. ASSUME NEW j \in 1..p PROVE l[j].rev <= r
  <2>1. j \in DOMAIN l /\ l[j].rev \in Nat BY <1>3
  <2>2. CASE l[j].rev <= o.rev BY <1>1, <2>1, <2>2
  <2>3. CASE ~(l[j].rev <= o.rev)
    <3>1. ~o.deleted BY <1>1, <2>3 DEF Seen, SeenDead
    <3>2. ~PutAt(l, j) BY <2>3 DEF Seen
    <3>3. DelAt(l, j)
      <4>1. l[j] \in RouteEvents BY <2>1, LogTypes
      <4>2. l[j].kind \in {"put", "del"} BY <4>1 DEF RouteEvents
      <4> QED BY <2>1, <3>2, <4>2 DEF PutAt, DelAt
    <3>4. l[j].rev > o.rev BY <1>1, <2>1, <2>3
    <3>5. GenAt(l, j) = o.info.gen BY <3>1, <3>3, <3>4 DEF Seen, SeenAlive
    <3> QED BY <1>7, <2>1, <3>3, <3>5, GoneOnce
  <2> QED BY <2>2, <2>3
<1>9. ASSUME NEW k \in DOMAIN l, PutAt(l, k), l[k].rev < r \/ k <= p \/ GenAt(l, k) = o.info.gen PROVE Gone(l, GenAt(l, k), r)
  <2>1. CASE GenAt(l, k) = o.info.gen BY <1>7, <2>1
  <2>2. CASE GenAt(l, k) # o.info.gen
    <3>1. k <= p => k \in 1..p BY LogTypes
    <3>2. l[k].rev <= r BY <1>3, <1>8, <1>9, <2>2, <3>1
    <3> QED BY <1>4, <1>9, <3>2
  <2> QED BY <2>1, <2>2
<1>10. SeenDead(l, p, new) BY <1>2, <1>8, <1>9 DEF SeenDead
<1>11. SeenPut(l, new, i) BY <1>2, <1>6 DEF SeenPut
<1> QED BY <1>2, <1>8, <1>10, <1>11 DEF Seen

\* Once the watch has passed a deletion, its record may go.
LEMMA RemovedSeen ==
    ASSUME NEW l, NEW n, LogSound(l, n), NEW p, p = Len(l), NEW o \in Observations, o.deleted, Seen(l, p, o)
    PROVE  NothingSeen(l, p, o.rev)
<1>1. DOMAIN l = 1..p BY LogTypes
<1>2. SeenDead(l, p, o) BY DEF Seen
<1>3. ASSUME NEW i \in 1..p, PutAt(l, i) PROVE \E d \in 1..p : DelAt(l, d) /\ GenAt(l, d) = GenAt(l, i)
  <2>1. i <= p /\ i \in DOMAIN l BY <1>1, LogTypes
  <2>2. Gone(l, GenAt(l, i), o.rev) BY <1>2, <1>3, <2>1 DEF SeenDead
  <2> QED BY <1>1, <2>2 DEF Gone
<1> QED BY <1>2, <1>3 DEF NothingSeen, SeenDead

RoutesAre(o, rt) ==
    /\ o = None => rt = NoRoutes
    /\ o # None /\ o.deleted => rt = NoRoutes
    /\ o # None /\ ~o.deleted => rt = RoutesOf(o.info)

\* The read in flight answered with what the route key held at a revision no older than the floor.
CallFields == {"phase", "port", "snap", "result", "err"}
CallSound(l, n, f, c) ==
    c # None => /\ DOMAIN c = CallFields
                /\ c.phase = "answered" => c.result.rev \in f..n /\ RouteIs(l, c.result.rev, c.result.info)

RouteInv ==
    /\ LogSound(log, rev)
    /\ ObsSound(log, rev, pos, floor, obs)
    /\ RoutesAre(obs, routes)
    /\ CallSound(log, rev, floor, call)

LEMMA WriteKeepsRoutes ==
    ASSUME RouteInv, LogSound(log', rev'), Extends(log, rev, log'), rev' = rev + 1, UNCHANGED <<pos, floor, obs, routes, call>>
    PROVE  RouteInv'
<1>0. rev \in Nat /\ LogSound(log, rev) BY DEF RouteInv, LogSound
<1>1. PICK m : m = log' OBVIOUS
<1>2. Extends(log, rev, m) /\ LogSound(m, rev + 1) BY <1>1
<1>3. ObsSound(m, rev + 1, pos, floor, obs) BY <1>0, <1>2, ObsStays DEF RouteInv
<1>4. CallSound(m, rev + 1, floor, call)
  <2> SUFFICES ASSUME call # None, call.phase = "answered"
               PROVE  call.result.rev \in floor..(rev + 1) /\ RouteIs(m, call.result.rev, call.result.info)
    BY DEF RouteInv, CallSound
  <2>1. call.result.rev \in floor..rev /\ RouteIs(log, call.result.rev, call.result.info) BY DEF RouteInv, CallSound
  <2>2. floor \in Nat /\ call.result.rev \in Nat /\ call.result.rev <= rev BY <1>0, <2>1 DEF RouteInv, ObsSound
  <2>3. RouteIs(m, call.result.rev, call.result.info) BY <1>0, <1>2, <2>1, <2>2, HistoryStays
  <2> QED BY <1>0, <2>1, <2>2, <2>3
<1> QED BY <1>1, <1>2, <1>3, <1>4 DEF RouteInv

\* A step of the stores for an event or a read: the log stays, the call may close.
CallMoves(c, d) == d = None \/ d = c \/ (d # None /\ DOMAIN d = CallFields /\ d.phase # "answered")

LEMMA StoresKeepCall ==
    ASSUME RouteInv, UNCHANGED <<rev, log, floor>>, CallMoves(call, call') PROVE CallSound(log', rev', floor', call')
BY DEF RouteInv, CallSound, CallMoves

LEMMA CloseMoves == ASSUME RouteInv, call # None, NEW err, CloseCall(err) PROVE CallMoves(call, call')
<1>1. DOMAIN call = CallFields BY DEF RouteInv, CallSound
<1>2. call' = [call EXCEPT !.phase = "closed", !.snap = None, !.result = None, !.err = err] BY DEF CloseCall
<1>3. PICK c : c = call' OBVIOUS
<1>4. DOMAIN c = CallFields /\ c.phase = "closed" BY <1>1, <1>2, <1>3 DEF CallFields
<1> QED BY <1>3, <1>4 DEF CallMoves

LEMMA PutLockedIs ==
    ASSUME NEW key, NEW info, NEW r, PutLocked(key, info, r)
    PROVE  \/ StalePut(key, info, r) /\ UNCHANGED <<obs, routes>>
           \/ ~StalePut(key, info, r) /\ obs' = LiveObs(info, key, r) /\ routes' = RoutesOf(info)
BY DEF PutLocked, storeVars, LiveObs

LEMMA DeleteLockedIs ==
    ASSUME NEW key, NEW prev, NEW r, DeleteLocked(key, prev, r)
    PROVE  \/ StaleDelete(key, r) /\ UNCHANGED <<obs, routes>>
           \/ /\ ~StaleDelete(key, r) /\ routes' = NoRoutes
              /\ obs' = DeadObs(IF obs = None THEN prev ELSE obs.info, key, r)
BY DEF DeleteLocked, storeVars, DeadObs

LEMMA ApplyEventSound == ASSUME RouteInv, ApplyEvent PROVE RouteInv'
<1>1. LogSound(log, rev) /\ ObsSound(log, rev, pos, floor, obs) /\ RoutesAre(obs, routes) BY DEF RouteInv
<1>2. pos < Len(log) /\ pos' = pos + 1 /\ UNCHANGED <<rev, log, floor, call>> BY DEF ApplyEvent
<1>3. pos \in Nat /\ Len(log) \in Nat /\ DOMAIN log = 1..Len(log) /\ floor \in 0..rev /\ rev \in Nat BY <1>1, LogTypes DEF ObsSound, LogSound
<1>4. PICK q : q = pos + 1 OBVIOUS
<1>5. q \in Nat /\ q \in DOMAIN log /\ q \in 0..Len(log) BY <1>2, <1>3, <1>4
<1>6. log[q] \in RouteEvents /\ log[q].rev \in Nat /\ log[q].rev <= rev /\ log[q].info \in Infos /\ GenAt(log, q) \in Gens
  BY <1>1, <1>5, LogTypes DEF LogSound
<1>7. CallSound(log', rev', floor', call') BY <1>2, StoresKeepCall DEF CallMoves
<1>8. obs # None => obs \in Observations /\ Seen(log, pos, obs) /\ obs.rev <= rev BY <1>1 DEF ObsSound
<1>9. ASSUME obs' # None, obs' \in Observations, obs'.rev <= rev, Seen(log, q, obs'), RoutesAre(obs', routes') PROVE RouteInv'
  <2>1. ObsSound(log, rev, q, floor, obs') BY <1>3, <1>5, <1>9 DEF ObsSound
  <2>2. ObsSound(log', rev', pos', floor', obs') BY <1>2, <1>4, <2>1
  <2>3. LogSound(log', rev') BY <1>1, <1>2
  <2> QED BY <1>7, <1>9, <2>2, <2>3 DEF RouteInv
<1>10. PICK key : key = InstKey(GenAt(log, q)) OBVIOUS
<1>11. CASE log[q].kind = "put"
  <2>1. PutLocked(key, log[q].info, log[q].rev) BY <1>4, <1>10, <1>11 DEF ApplyEvent, GenAt
  <2>2. PutAt(log, q) BY <1>5, <1>11 DEF PutAt
  <2>3. CASE StalePut(key, log[q].info, log[q].rev) /\ UNCHANGED <<obs, routes>>
    <3>1. obs # None BY <2>3 DEF StalePut
    <3>2. Seen(log, q, obs) BY <1>1, <1>3, <1>4, <1>5, <1>8, <1>10, <2>2, <2>3, <3>1, PutStale DEF StalePut
    <3> QED BY <1>1, <1>8, <1>9, <2>3, <3>1, <3>2
  <2>4. CASE obs' = LiveObs(log[q].info, key, log[q].rev) /\ routes' = RoutesOf(log[q].info)
    <3>1. PICK o : o = obs' OBVIOUS
    <3>2. o \in Observations /\ o.rev = log[q].rev /\ ~o.deleted /\ o.info = log[q].info /\ Seen(log, q, o)
      BY <1>1, <1>5, <1>10, <2>2, <2>4, <3>1, PutSeen
    <3>3. o # None BY <3>2, ObsTypes
    <3>4. RoutesAre(o, routes') BY <2>4, <3>2, <3>3 DEF RoutesAre
    <3> QED BY <1>6, <1>9, <3>1, <3>2, <3>3, <3>4
  <2> QED BY <2>1, <2>3, <2>4, PutLockedIs
<1>12. CASE log[q].kind = "del"
  <2>1. DeleteLocked(key, log[q].info, log[q].rev) BY <1>4, <1>10, <1>12 DEF ApplyEvent, GenAt
  <2>2. DelAt(log, q) BY <1>5, <1>12 DEF DelAt
  <2>3. CASE StaleDelete(key, log[q].rev) /\ UNCHANGED <<obs, routes>>
    <3>1. obs # None BY <2>3 DEF StaleDelete
    <3>2. Seen(log, q, obs) BY <1>1, <1>3, <1>4, <1>5, <1>8, <1>10, <2>2, <2>3, <3>1, DelStale DEF StaleDelete
    <3> QED BY <1>1, <1>8, <1>9, <2>3, <3>1, <3>2
  <2>4. CASE ~StaleDelete(key, log[q].rev) /\ routes' = NoRoutes /\ obs' = DeadObs(IF obs = None THEN log[q].info ELSE obs.info, key, log[q].rev)
    <3>1. PICK info : info = IF obs = None THEN log[q].info ELSE obs.info OBVIOUS
    <3>2. PICK o : o = obs' OBVIOUS
    <3>3. /\ info \in Infos /\ info.gen = GenAt(log, q) /\ \E i \in DOMAIN log : PutAt(log, i) /\ log[i].info = info
          /\ \A k \in 1..pos : PutAt(log, k) => Gone(log, GenAt(log, k), log[q].rev)
      <4>1. CASE obs = None
        <5>1. info = log[q].info BY <3>1, <4>1
        <5>2. \E i \in DOMAIN log : PutAt(log, i) /\ log[i].info = info BY <1>1, <1>5, <2>2, <5>1 DEF LogSound
        <5>3. ASSUME NEW k \in 1..pos, PutAt(log, k) PROVE Gone(log, GenAt(log, k), log[q].rev)
          <6>1. PICK d \in 1..pos : DelAt(log, d) /\ GenAt(log, d) = GenAt(log, k) BY <1>1, <4>1, <5>3 DEF ObsSound, NothingSeen
          <6>2. d \in 1..q BY <1>3, <1>4
          <6>3. d \in DOMAIN log /\ log[d].rev <= log[q].rev BY <1>1, <1>5, <6>2, EarlierRevisions
          <6> QED BY <6>1, <6>3 DEF Gone
        <5> QED BY <1>6, <5>1, <5>2, <5>3 DEF GenAt
      <4>2. CASE obs # None
        <5>1. info = obs.info /\ obs.key = key /\ ~(log[q].rev <= obs.rev) BY <2>4, <3>1, <4>2 DEF StaleDelete
        <5>2. obs \in Observations /\ Seen(log, pos, obs) /\ obs.rev \in Nat /\ obs.info \in Infos BY <1>8, <4>2, ObsTypes
        <5>3. obs.rev < log[q].rev BY <1>6, <5>1, <5>2
        <5>4. obs.info.gen = GenAt(log, q) BY <1>10, <5>1, <5>2, KeysDiffer DEF Seen
        <5>5. \E i \in DOMAIN log : PutAt(log, i) /\ log[i].info = info BY <5>1, <5>2 DEF Seen, SeenPut
        <5>6. \A k \in 1..pos : PutAt(log, k) => Gone(log, GenAt(log, k), log[q].rev)
          BY <1>1, <1>3, <1>4, <1>5, <2>2, <5>2, <5>3, <5>4, ReportedGone
        <5> QED BY <5>1, <5>2, <5>4, <5>5, <5>6
      <4> QED BY <4>1, <4>2
    <3>4. o = DeadObs(info, key, log[q].rev) BY <2>4, <3>1, <3>2
    <3>5. o \in Observations /\ o.rev = log[q].rev /\ o.deleted /\ Seen(log, q, o)
      BY <1>1, <1>3, <1>4, <1>5, <1>10, <2>2, <3>3, <3>4, DelSeen
    <3>6. o # None BY <3>5, ObsTypes
    <3>7. RoutesAre(o, routes') BY <2>4, <3>5, <3>6 DEF RoutesAre
    <3> QED BY <1>6, <1>9, <3>2, <3>5, <3>6, <3>7
  <2> QED BY <2>1, <2>3, <2>4, DeleteLockedIs
<1>13. log[q].kind \in {"put", "del"} BY <1>6 DEF RouteEvents
<1> QED BY <1>11, <1>12, <1>13

LEMMA RefreshSound == ASSUME RouteInv, RefreshInstance PROVE RouteInv'
<1>1. LogSound(log, rev) /\ ObsSound(log, rev, pos, floor, obs) /\ RoutesAre(obs, routes) BY DEF RouteInv
<1>2. call # None /\ call.phase = "answered" /\ UNCHANGED <<rev, log, pos, floor>> /\ CloseCall(FALSE) BY DEF RefreshInstance
<1>3. CallSound(log', rev', floor', call') BY <1>2, CloseMoves, StoresKeepCall
<1>4. pos \in Nat /\ 1..pos \subseteq DOMAIN log /\ floor \in Nat /\ rev \in Nat BY <1>1, LogTypes DEF ObsSound, LogSound
<1>5. PICK r : r = call.result.rev OBVIOUS
<1>6. PICK info : info = call.result.info OBVIOUS
<1>7. r \in floor..rev /\ RouteIs(log, r, info) BY <1>2, <1>5, <1>6 DEF RouteInv, CallSound
<1>8. r \in Nat /\ floor <= r /\ r <= rev BY <1>4, <1>7
<1>9. obs # None => obs \in Observations /\ Seen(log, pos, obs) /\ obs.rev <= rev /\ obs.rev \in Nat BY <1>1, ObsTypes DEF ObsSound
<1>10. ASSUME ObsSound(log, rev, pos, floor, obs'), RoutesAre(obs', routes') PROVE RouteInv'
  BY <1>1, <1>2, <1>3, <1>10 DEF RouteInv
<1>11. ASSUME obs' # None, obs' \in Observations, obs'.rev <= rev, Seen(log, pos, obs'), RoutesAre(obs', routes') PROVE RouteInv'
  <2>1. ObsSound(log, rev, pos, floor, obs') BY <1>1, <1>11 DEF ObsSound
  <2> QED BY <1>10, <1>11, <2>1
<1>12. CASE UNCHANGED <<obs, routes>> BY <1>1, <1>10, <1>12
<1>13. CASE info # None /\ PutLocked(ReadKey(info), info, r)
  <2>1. PICK key : key = ReadKey(info) OBVIOUS
  <2>2. PutLocked(key, info, r) BY <1>13, <2>1
  <2>3. CASE ~StalePut(key, info, r) /\ obs' = LiveObs(info, key, r) /\ routes' = RoutesOf(info)
    <3>1. PICK i \in DOMAIN log : LatestPut(log, i, r) /\ info = log[i].info /\ ~Gone(log, GenAt(log, i), r) BY <1>7, <1>13 DEF RouteIs
    <3>2. obs # None => obs.rev <= r /\ (r = obs.rev => obs.deleted) BY <1>8, <1>9, <2>3 DEF StalePut
    <3>3. PICK o : o = obs' OBVIOUS
    <3>4. key = ReadKey(log[i].info) /\ o = LiveObs(log[i].info, key, r) BY <2>1, <2>3, <3>1, <3>3
    <3>5. o \in Observations /\ o.rev = r /\ ~o.deleted /\ o.info = log[i].info /\ Seen(log, pos, o)
      BY <1>1, <1>8, <3>1, <3>2, <3>4, ReadPutSeen
    <3>6. o # None BY <3>5, ObsTypes
    <3>7. RoutesAre(o, routes') BY <2>3, <3>1, <3>5, <3>6 DEF RoutesAre
    <3> QED BY <1>8, <1>11, <3>3, <3>5, <3>6, <3>7
  <2> QED BY <1>12, <2>2, <2>3, PutLockedIs
<1>14. CASE info = None /\ obs # None /\ DeleteLocked(obs.key, obs.info, r)
  <2>1. CASE ~StaleDelete(obs.key, r) /\ routes' = NoRoutes /\ obs' = DeadObs(IF obs = None THEN obs.info ELSE obs.info, obs.key, r)
    <3>1. PICK o : o = obs' OBVIOUS
    <3>2. o = DeadObs(obs.info, obs.key, r) BY <2>1, <3>1
    <3>3. obs.rev < r BY <1>8, <1>9, <1>14, <2>1 DEF StaleDelete
    <3>4. RouteIs(log, r, None) BY <1>7, <1>14
    <3>5. o \in Observations /\ o.rev = r /\ o.deleted /\ Seen(log, pos, o)
      BY <1>1, <1>4, <1>8, <1>9, <1>14, <3>2, <3>3, <3>4, ReadDelSeen
    <3>6. o # None BY <3>5, ObsTypes
    <3>7. RoutesAre(o, routes') BY <2>1, <3>5, <3>6 DEF RoutesAre
    <3> QED BY <1>8, <1>11, <3>1, <3>5, <3>6, <3>7
  <2> QED BY <1>12, <1>14, <2>1, DeleteLockedIs
<1>15. CASE obs = None /\ UNCHANGED obs /\ routes' = NoRoutes
  <2>1. RoutesAre(obs', routes') BY <1>15 DEF RoutesAre
  <2> QED BY <1>1, <1>10, <1>15, <2>1
<1>16. \/ UNCHANGED <<obs, routes>>
       \/ info # None /\ PutLocked(ReadKey(info), info, r)
       \/ info = None /\ obs # None /\ DeleteLocked(obs.key, obs.info, r)
       \/ obs = None /\ UNCHANGED obs /\ routes' = NoRoutes
  BY <1>5, <1>6 DEF RefreshInstance, storeVars
<1> QED BY <1>12, <1>13, <1>14, <1>15, <1>16

LEMMA RemoveSound == ASSUME RouteInv, RemoveObservation PROVE RouteInv'
<1>1. LogSound(log, rev) /\ ObsSound(log, rev, pos, floor, obs) BY DEF RouteInv
<1>2. /\ obs # None /\ obs.deleted /\ call = None /\ pos = Len(log) /\ floor' = obs.rev /\ obs' = None /\ routes' = NoRoutes
      /\ UNCHANGED <<rev, log, pos, call>>
  BY DEF RemoveObservation
<1>3. obs \in Observations /\ obs.rev <= rev /\ Seen(log, pos, obs) /\ obs.rev \in Nat BY <1>1, <1>2, ObsTypes DEF ObsSound
<1>4. NothingSeen(log, pos, obs.rev) BY <1>1, <1>2, <1>3, RemovedSeen
<1>5. obs.rev \in 0..rev BY <1>1, <1>3 DEF LogSound
<1>6. ObsSound(log, rev, pos, obs.rev, None) BY <1>1, <1>4, <1>5 DEF ObsSound
<1>7. RoutesAre(None, NoRoutes) BY DEF RoutesAre
<1>8. CallSound(log, rev, obs.rev, None) BY DEF CallSound
<1> QED BY <1>1, <1>2, <1>6, <1>7, <1>8 DEF RouteInv

\* The steps that leave the log and the stores alone.
LEMMA CallStepSound ==
    ASSUME RouteInv, UNCHANGED <<rev, log, pos, floor, obs, routes>>, CallSound(log, rev, floor, call') PROVE RouteInv'
BY DEF RouteInv

LEMMA CallMovesSound ==
    ASSUME RouteInv, UNCHANGED <<rev, log, pos, floor, obs, routes>>, CallMoves(call, call') PROVE RouteInv'
<1>1. CallSound(log', rev', floor', call') BY StoresKeepCall
<1> QED BY <1>1 DEF RouteInv

LEMMA ReadSound == ASSUME RouteInv, ReadInstance PROVE RouteInv'
<1>1. LogSound(log, rev) /\ rev \in Nat /\ floor \in Nat BY DEF RouteInv, LogSound, ObsSound
<1>2. call # None /\ UNCHANGED <<rev, log, pos, floor, obs, routes>> BY DEF ReadInstance, storeVars
<1>3. PICK r \in floor..rev : call' = [call EXCEPT !.phase = "answered", !.result = [rev |-> r, info |-> RouteAt(r)]] BY DEF ReadInstance
<1>4. PICK info : info = RouteAt(r) OBVIOUS
<1>5. r \in Nat /\ RouteIs(log, r, info) BY <1>1, <1>4, RouteAtIs
<1>6. PICK c : c = call' OBVIOUS
<1>7. DOMAIN call = CallFields BY <1>2 DEF RouteInv, CallSound
<1>8. DOMAIN c = CallFields /\ c.result = [rev |-> r, info |-> info] BY <1>3, <1>4, <1>6, <1>7 DEF CallFields
<1>9. c.result.rev = r /\ c.result.info = info BY <1>8
<1>10. CallSound(log, rev, floor, c) BY <1>5, <1>8, <1>9 DEF CallSound
<1> QED BY <1>2, <1>6, <1>10, CallStepSound

LEMMA RouteInvStep == RouteInv /\ [RoutesNext]_routingVars => RouteInv'
<1> SUFFICES ASSUME RouteInv, [RoutesNext]_routingVars PROVE RouteInv' OBVIOUS
<1>0. LogSound(log, rev) BY DEF RouteInv
<1>1. ASSUME UNCHANGED <<rev, log, pos, floor, obs, routes, call>> PROVE RouteInv' BY <1>1, CallMovesSound DEF CallMoves
<1>2. ASSUME UNCHANGED <<pos, floor, obs, routes, call>>, LogSound(log', rev'), Extends(log, rev, log'), rev' = rev + 1 PROVE RouteInv'
  BY <1>2, WriteKeepsRoutes
<1>3. CASE KernelWrite
  <2>1. PICK st \in Statuses : WriteState(st) BY <1>3 DEF KernelWrite
  <2>2. LogSound(log', rev') /\ Extends(log, rev, log') /\ rev' = rev + 1 BY <1>0, <2>1, WriteStateSound
  <2> QED BY <1>2, <1>3, <2>2 DEF KernelWrite
<1>4. CASE KernelDelete
  <2>1. LogSound(log', rev') /\ Extends(log, rev, log') /\ rev' = rev + 1 BY <1>0, <1>4, WriteDeleteSound DEF KernelDelete
  <2> QED BY <1>2, <1>4, <2>1 DEF KernelDelete
<1>5. CASE KernelCreate
  <2>1. LogSound(log', rev') /\ Extends(log, rev, log') /\ rev' = rev + 1 BY <1>0, <1>5, KernelCreateSound
  <2> QED BY <1>2, <1>5, <2>1 DEF KernelCreate
<1>6. CASE OtherWrite
  <2>1. rev' = rev + 1 /\ log' = log BY <1>6 DEF OtherWrite
  <2>2. LogSound(log', rev') /\ Extends(log, rev, log') BY <1>0, <2>1, OtherWriteSound
  <2> QED BY <1>2, <1>6, <2>1, <2>2 DEF OtherWrite
<1>7. CASE ApplyEvent BY <1>7, ApplyEventSound
<1>8. CASE RemoveObservation BY <1>8, RemoveSound
<1>9. CASE Recheck
  <2>1. call # None /\ UNCHANGED <<rev, log, pos, floor, obs, routes>> BY <1>9 DEF Recheck, storeVars
  <2>2. CASE CloseCall(FALSE) BY <2>1, <2>2, CloseMoves, CallMovesSound
  <2>3. CASE call' = [call EXCEPT !.phase = "snapshot", !.snap = obs]
    <3>1. DOMAIN call = CallFields BY <2>1 DEF RouteInv, CallSound
    <3>2. PICK c : c = call' OBVIOUS
    <3>3. DOMAIN c = CallFields /\ c.phase = "snapshot" BY <2>3, <3>1, <3>2 DEF CallFields
    <3>4. CallMoves(call, call') BY <3>2, <3>3 DEF CallMoves
    <3> QED BY <2>1, <3>4, CallMovesSound
  <2> QED BY <1>9, <2>2, <2>3 DEF Recheck
<1>10. CASE ReadInstance BY <1>10, ReadSound
<1>11. CASE ReadFails
  <2>1. call # None /\ CloseCall(TRUE) /\ UNCHANGED <<rev, log, pos, floor, obs, routes>> BY <1>11 DEF ReadFails, storeVars
  <2> QED BY <2>1, CloseMoves, CallMovesSound
<1>12. CASE RefreshInstance BY <1>12, RefreshSound
<1>13. CASE ForgetCall
  <2>1. call' = None /\ UNCHANGED <<rev, log, pos, floor, obs, routes>> BY <1>13 DEF ForgetCall, storeVars
  <2> QED BY <2>1, CallMovesSound DEF CallMoves
<1>14. ASSUME NEW c \in Clients, DoChan(c) PROVE RouteInv'
  <2>1. UNCHANGED <<rev, log, pos, floor, obs, routes>> BY <1>14 DEF DoChan, storeVars
  <2>2. PICK new : new = [phase |-> "recheck", port |-> req[c].ask.port, snap |-> None, result |-> None, err |-> FALSE] OBVIOUS
  <2>3. call' = new \/ call' = call BY <1>14, <2>2 DEF DoChan
  <2>4. DOMAIN new = CallFields /\ new.phase = "recheck" BY <2>2 DEF CallFields
  <2>5. CallMoves(call, call') BY <2>3, <2>4 DEF CallMoves
  <2> QED BY <2>1, <2>5, CallMovesSound
<1>15. ASSUME NEW c \in Clients, ServeHTTP(c) \/ ResolveReturns(c) \/ ProxyReturns(c) \/ NextRequest(c) PROVE RouteInv'
  BY <1>1, <1>15 DEF ServeHTTP, ResolveReturns, ProxyReturns, NextRequest, storeVars
<1>16. CASE LifecycleCall \/ LifecycleFails \/ LifecycleReturns \/ UNCHANGED routingVars
  BY <1>1, <1>16 DEF LifecycleCall, LifecycleFails, LifecycleReturns, storeVars, routingVars
<1>17. CASE KernelExecutes
  <2>1. UNCHANGED <<pos, floor, obs, routes, call>> BY <1>17 DEF KernelExecutes, storeVars
  <2>2. WriteState("paused") \/ WriteState("running") \/ WriteDelete \/ UNCHANGED <<rev, log>> BY <1>17 DEF KernelExecutes, etcdVars
  <2>3. CASE WriteState("paused") BY <1>0, <1>2, <2>1, <2>3, WriteStateSound
  <2>4. CASE WriteState("running") BY <1>0, <1>2, <2>1, <2>4, WriteStateSound
  <2>5. CASE WriteDelete BY <1>0, <1>2, <2>1, <2>5, WriteDeleteSound
  <2> QED BY <1>1, <2>1, <2>2, <2>3, <2>4, <2>5
<1> QED BY <1>3, <1>4, <1>5, <1>6, <1>7, <1>8, <1>9, <1>10, <1>11, <1>12, <1>13, <1>14, <1>15, <1>16, <1>17 DEF RoutesNext

LEMMA RoutesKnow ==
    ASSUME NEW info, NEW x \in DOMAIN RoutesOf(info)
    PROVE  info.status = "running" /\ RoutesOf(info)[x].gen = info.gen /\ RoutesOf(info)[x].ver = info.ver
<1>1. DOMAIN NoRoutes = {} BY DEF NoRoutes
<1>2. info.status = "running" /\ RoutesOf(info) = ComputeRoutes(info) BY <1>1 DEF RoutesOf
<1>3. x \in DOMAIN ComputeRoutes(info) BY <1>2
<1>4. ComputeRoutes(info)[x].gen = info.gen /\ ComputeRoutes(info)[x].ver = info.ver BY <1>3 DEF ComputeRoutes
<1> QED BY <1>2, <1>4

LEMMA PublishedHolds == RouteInv => PublishedIsCurrent
<1> SUFFICES ASSUME RouteInv, NEW x \in DOMAIN routes, NEW j \in 1..pos
             PROVE  /\ log[j].kind = "put" => ~Newer(log[j].info, routes[x])
                    /\ log[j].kind = "del" => log[j].info.gen # routes[x].gen
  BY DEF PublishedIsCurrent
<1>1. LogSound(log, rev) /\ ObsSound(log, rev, pos, floor, obs) /\ RoutesAre(obs, routes) BY DEF RouteInv
<1>2. j \in DOMAIN log /\ log[j].rev \in Nat BY <1>1, LogTypes DEF ObsSound
<1>3. DOMAIN NoRoutes = {} BY DEF NoRoutes
<1>4. obs # None BY <1>1, <1>3 DEF RoutesAre
<1>5. obs \in Observations /\ Seen(log, pos, obs) /\ obs.rev \in Nat /\ obs.deleted \in BOOLEAN BY <1>1, <1>4, ObsTypes DEF ObsSound
<1>6. ~obs.deleted BY <1>1, <1>3, <1>4, <1>5 DEF RoutesAre
<1>7. routes = RoutesOf(obs.info) BY <1>1, <1>4, <1>6 DEF RoutesAre
<1>8. obs.info.status = "running" /\ routes[x].gen = obs.info.gen /\ routes[x].ver = obs.info.ver BY <1>7, RoutesKnow
<1>9. PICK i \in DOMAIN log : SeenPut(log, obs, i) BY <1>5 DEF Seen
<1>10. PutAt(log, i) /\ log[i].info = obs.info /\ LatestPut(log, i, obs.rev) BY <1>6, <1>9 DEF SeenPut
<1>11. ASSUME log[j].kind = "put" PROVE ~Newer(log[j].info, routes[x])
  <2>1. PutAt(log, j) /\ log[j].rev <= obs.rev BY <1>2, <1>5, <1>11 DEF PutAt, Seen
  <2>2. j <= i BY <1>2, <1>10, <2>1 DEF LatestPut
  <2>3. ~Newer(log[j].info, log[i].info) BY <1>1, <1>2, <1>10, <2>1, <2>2, LaterPuts
  <2> QED BY <1>8, <1>10, <2>3 DEF Newer
<1>12. ASSUME log[j].kind = "del", log[j].info.gen = routes[x].gen PROVE FALSE
  <2>1. DelAt(log, j) /\ GenAt(log, j) = obs.info.gen BY <1>2, <1>8, <1>12 DEF DelAt, GenAt
  <2>2. SeenAlive(log, pos, obs) BY <1>5, <1>6 DEF Seen
  <2>3. ~(log[j].rev <= obs.rev) BY <1>2, <2>1, <2>2 DEF SeenAlive, Gone
  <2>4. obs.key = RouteKey BY <1>2, <1>5, <2>1, <2>2, <2>3 DEF SeenAlive
  <2>5. obs.info.status = "paused" BY <1>5, <2>4, KeysDiffer DEF Seen
  <2> QED BY <1>8, <2>5
<1> QED BY <1>11, <1>12

LEMMA ConvergeHolds == RouteInv => RoutesConverge
<1> SUFFICES ASSUME RouteInv, pos = Len(log) PROVE routes = IF Current = None THEN NoRoutes ELSE RoutesOf(Current)
  BY DEF RoutesConverge
<1>1. LogSound(log, rev) /\ ObsSound(log, rev, pos, floor, obs) /\ RoutesAre(obs, routes) BY DEF RouteInv
<1>2. DOMAIN log = 1..pos /\ pos \in Nat /\ rev \in Nat /\ \A k \in DOMAIN log : log[k].rev \in Nat /\ log[k].rev <= rev /\ k <= pos
  <2>1. DOMAIN log = 1..pos /\ pos \in Nat /\ \A k \in DOMAIN log : log[k].rev \in Nat BY <1>1, LogTypes
  <2>2. rev \in Nat /\ \A k \in DOMAIN log : log[k].rev <= rev BY <1>1 DEF LogSound
  <2>3. \A k \in DOMAIN log : k <= pos BY <2>1
  <2> QED BY <2>1, <2>2, <2>3
<1>3. ASSUME Current # None PROVE obs # None /\ ~obs.deleted /\ obs.info = Current
  <2>1. PICK i \in DOMAIN log : /\ PutAt(log, i) /\ Current = log[i].info /\ ~Gone(log, Current.gen, rev)
                                /\ \A k \in DOMAIN log : PutAt(log, k) => k <= i
    BY <1>1, <1>3, CurrentPut
  <2>2. GenAt(log, i) = Current.gen BY <2>1 DEF GenAt
  <2>3. obs # None
    <3> SUFFICES ASSUME obs = None PROVE FALSE OBVIOUS
    <3>1. PICK d \in 1..pos : DelAt(log, d) /\ GenAt(log, d) = GenAt(log, i) BY <1>1, <1>2, <2>1 DEF ObsSound, NothingSeen
    <3> QED BY <1>2, <2>1, <2>2, <3>1 DEF Gone
  <2>4. obs \in Observations /\ Seen(log, pos, obs) /\ obs.rev \in Nat /\ obs.deleted \in BOOLEAN /\ obs.rev <= rev BY <1>1, <2>3, ObsTypes DEF ObsSound
  <2>5. ~obs.deleted
    <3> SUFFICES ASSUME obs.deleted PROVE FALSE OBVIOUS
    <3>1. Gone(log, GenAt(log, i), obs.rev) BY <1>2, <2>1, <2>4 DEF Seen, SeenDead
    <3>2. Gone(log, GenAt(log, i), rev) BY <1>1, <1>2, <2>4, <3>1, GoneLater
    <3> QED BY <2>1, <2>2, <3>2
  <2>6. PICK x \in DOMAIN log : SeenPut(log, obs, x) BY <2>4 DEF Seen
  <2>7. PutAt(log, x) /\ log[x].info = obs.info /\ LatestPut(log, x, obs.rev) BY <2>5, <2>6 DEF SeenPut
  <2>8. log[i].rev <= obs.rev BY <1>2, <2>1, <2>4 DEF Seen
  <2>9. i <= x /\ x <= i BY <2>1, <2>7, <2>8 DEF LatestPut
  <2>10. i = x BY <1>2, <2>9
  <2> QED BY <2>1, <2>3, <2>5, <2>7, <2>10
<1>4. CASE Current # None BY <1>1, <1>3, <1>4 DEF RoutesAre
<1>5. CASE Current = None
  <2>1. CASE obs = None BY <1>1, <1>5, <2>1 DEF RoutesAre
  <2>2. CASE obs # None /\ obs.deleted BY <1>1, <1>5, <2>2 DEF RoutesAre
  <2>3. CASE obs # None /\ ~obs.deleted
    <3>1. obs \in Observations /\ Seen(log, pos, obs) /\ obs.rev \in Nat BY <1>1, <2>3, ObsTypes DEF ObsSound
    <3>2. PICK x \in DOMAIN log : SeenPut(log, obs, x) BY <3>1 DEF Seen
    <3>3. PutAt(log, x) /\ log[x].info = obs.info /\ GenAt(log, x) = obs.info.gen BY <3>2 DEF SeenPut, GenAt
    <3>4. Gone(log, GenAt(log, x), rev) BY <1>1, <1>5, <3>3, EarlierGone
    <3>5. PICK d \in DOMAIN log : DelAt(log, d) /\ GenAt(log, d) = obs.info.gen BY <3>3, <3>4 DEF Gone
    <3>6. SeenAlive(log, pos, obs) BY <2>3, <3>1 DEF Seen
    <3>7. ~(log[d].rev <= obs.rev) BY <3>5, <3>6 DEF SeenAlive, Gone
    <3>8. log[d].rev > obs.rev /\ d \in 1..pos BY <1>2, <3>1, <3>7
    <3>9. obs.key = RouteKey BY <3>5, <3>6, <3>8 DEF SeenAlive
    <3>10. obs.info.status = "paused" BY <3>1, <3>9, KeysDiffer DEF Seen
    <3>11. RoutesOf(obs.info) = NoRoutes BY <3>10 DEF RoutesOf
    <3> QED BY <1>1, <1>5, <2>3, <3>11 DEF RoutesAre
  <2> QED BY <2>1, <2>2, <2>3
<1> QED BY <1>4, <1>5

\* For every number of generations, revisions and requests, and whatever order the watch's events and the
\* answers of old snapshots arrive in: a published route is never of a generation or a version the watch
\* has seen replaced, a drained watch leaves exactly the routes of the record etcd holds, and what they
\* serve stays with the owner (resolver.applyEvent, refreshInstance, putLocked, deleteLocked, pruneLocked).
THEOREM RoutesSoundCorrect == RoutesSpec => []RoutesSound
<1>1. RoutesInit => RouteInv
  <2> SUFFICES ASSUME RoutesInit PROVE RouteInv OBVIOUS
  <2>1. rev = 0 /\ log = <<>> /\ pos = 0 /\ floor = 0 /\ obs = None /\ routes = NoRoutes /\ call = None BY DEF RoutesInit
  <2>2. log \in Seq(RouteEvents) /\ DOMAIN log = {} /\ Len(log) = 0 /\ 1..pos = {} BY <2>1
  <2>3. LogSound(log, rev) BY <2>1, <2>2 DEF LogSound
  <2>4. ObsSound(log, rev, pos, floor, obs) BY <2>1, <2>2 DEF ObsSound, NothingSeen
  <2>5. RoutesAre(obs, routes) /\ CallSound(log, rev, floor, call) BY <2>1 DEF RoutesAre, CallSound
  <2> QED BY <2>3, <2>4, <2>5 DEF RouteInv
<1>2. RoutesSpec => []RouteInv BY <1>1, RouteInvStep, PTL DEF RoutesSpec
<1>3. RouteInv => PublishedIsCurrent /\ RoutesConverge BY PublishedHolds, ConvergeHolds
<1>4. RoutesSpec => [](PublishedIsCurrent /\ RoutesConverge) BY <1>2, <1>3, PTL
<1>5. PublishedIsCurrent /\ RoutesConverge /\ OwnerOnly => RoutesSound BY DEF RoutesSound
<1> QED BY <1>4, <1>5, OwnerOnlyCorrect, PTL

------------------------------------------------------------------------------
(* TimeWheel: the first fire of a task                                        *)

TriggerSound(g) ==
    /\ DOMAIN g = {"index", "circle", "count", "times", "interval"}
    /\ g.index \in Nat /\ g.index < SlotNum /\ g.circle \in Nat /\ g.count \in Nat /\ g.interval \in Nat

\* The turns of the wheel a trigger that has not fired has counted since the turn it was put in.
Turns(g, cur) == IF g.index > cur THEN g.count ELSE g.count - 1

\* An unfired trigger of the given age: the wheel has turned as far as its age says.
OnWay(g, age, cur) ==
    /\ g.count <= g.circle
    /\ age + (g.circle * SlotNum + g.index) - (g.interval + 1) = Turns(g, cur) * SlotNum + cur

WheelInv ==
    /\ curSlot \in Nat /\ curSlot < SlotNum /\ ticks \in Nat
    /\ DOMAIN trigger = WheelTasks /\ DOMAIN adding = WheelTasks /\ DOMAIN raced = WheelTasks
    /\ born \in [WheelTasks -> Nat] /\ fires \in [WheelTasks -> Seq(Nat)]
    /\ \A t \in WheelTasks : adding[t] # None =>
           TriggerSound(adding[t]) /\ (~raced[t] => OnWay(adding[t], ticks - born[t], curSlot))
    /\ \A t \in WheelTasks : trigger[t] # None =>
           /\ TriggerSound(trigger[t])
           /\ ~raced[t] /\ fires[t] = <<>> => OnWay(trigger[t], ticks - born[t], curSlot)
           /\ ~raced[t] /\ fires[t] # <<>> => fires[t][1] - born[t] = trigger[t].interval + 1

LEMMA MulStep == ASSUME NEW a \in Int, NEW s \in Nat PROVE (a + 1) * s = a * s + s /\ (a - 1) * s = a * s - s /\ a * s \in Int
OBVIOUS

LEMMA MulMonotone == ASSUME NEW a \in Int, NEW b \in Int, NEW s \in Nat, a <= b PROVE a * s <= b * s
<1>1. PICK d \in Nat : b = a + d
  <2>1. b - a \in Nat /\ b = a + (b - a) OBVIOUS
  <2> QED BY <2>1
<1>2. d * s \in Nat OBVIOUS
<1>3. (a + d) * s = a * s + d * s OBVIOUS
<1>4. a * s \in Int OBVIOUS
<1> QED BY <1>1, <1>2, <1>3, <1>4

LEMMA DivMod == ASSUME NEW a \in Nat, NEW s \in Nat, s > 0 PROVE a % s \in Nat /\ a % s < s /\ a \div s \in Nat /\ a = s * (a \div s) + (a % s)
<1>1. a % s \in 0..(s - 1) OBVIOUS
<1>2. a = s * (a \div s) + (a % s) OBVIOUS
<1>3. a \div s >= 0 OBVIOUS
<1>4. a \div s \in Int OBVIOUS
<1> QED BY <1>1, <1>2, <1>3, <1>4

LEMMA OneOn ==
    ASSUME NEW a \in Int, NEW p \in Int, NEW x \in Int, NEW i \in Int, NEW q \in Int, NEW c \in Int, a + (p + x) - (i + 1) = q + c
    PROVE  (a + 1) + (p + x) - (i + 1) = q + (c + 1)
OBVIOUS

LEMMA NextSlot ==
    ASSUME NEW cur \in Nat, cur < SlotNum
    PROVE  (cur + 1 < SlotNum /\ (cur + 1) % SlotNum = cur + 1) \/ (cur + 1 = SlotNum /\ (cur + 1) % SlotNum = 0)
BY SlotNumAssumption

LEMMA PlacedOnWay ==
    ASSUME NEW i \in Nat, NEW n, NEW cur \in Nat, cur < SlotNum, NEW g, g = Placed(i, n, cur)
    PROVE  TriggerSound(g) /\ g.interval = i /\ OnWay(g, 0, cur)
<1>0. SlotNum \in Nat /\ SlotNum > 0 BY SlotNumAssumption
<1>1. PICK a \in Nat : a = i + cur + 1 OBVIOUS
<1>2. PICK x \in Nat : x = a % SlotNum BY <1>0, DivMod
<1>3. PICK c \in Nat : c = a \div SlotNum BY <1>0, DivMod
<1>4. a = c * SlotNum + x /\ x < SlotNum
  <2>1. a = SlotNum * c + x /\ x < SlotNum BY <1>0, <1>2, <1>3, DivMod
  <2>2. SlotNum * c = c * SlotNum BY <1>0
  <2> QED BY <2>1, <2>2
<1>5. PICK k : k = IF x > cur THEN 0 ELSE 1 OBVIOUS
<1>6. g = [index |-> x, circle |-> c, count |-> k, times |-> n, interval |-> i] BY <1>1, <1>2, <1>3, <1>5 DEF Placed, FirstCount
<1>7. TriggerSound(g) /\ g.interval = i /\ g.index = x /\ g.circle = c /\ g.count = k BY <1>4, <1>5, <1>6 DEF TriggerSound
<1>8. k <= c
  <2>1. CASE x > cur BY <1>5, <2>1
  <2>2. CASE ~(x > cur)
    <3>1. c # 0
      <4> SUFFICES ASSUME c = 0 PROVE FALSE OBVIOUS
      <4>1. c * SlotNum = 0 BY SlotNumAssumption
      <4> QED BY <1>1, <1>4, <2>2, <4>1
    <3> QED BY <1>5, <2>2, <3>1
  <2> QED BY <2>1, <2>2
<1>9. Turns(g, cur) = 0 BY <1>5, <1>7 DEF Turns
<1>10. c * SlotNum \in Int /\ 0 * SlotNum = 0 BY SlotNumAssumption, MulStep
<1> QED BY <1>1, <1>4, <1>7, <1>8, <1>9, <1>10 DEF OnWay

LEMMA OnWayIsEarly ==
    ASSUME NEW g, TriggerSound(g), NEW age \in Int, NEW cur \in Nat, cur < SlotNum, OnWay(g, age, cur)
    PROVE  age <= g.interval
<1>1. g.index \in Nat /\ g.index < SlotNum /\ g.circle \in Nat /\ g.count \in Nat /\ g.interval \in Nat BY DEF TriggerSound
<1>2. PICK s \in Nat : s = SlotNum BY SlotNumAssumption
<1>3. PICK t \in Int : t = Turns(g, cur) BY <1>1 DEF Turns
<1>4. g.count <= g.circle /\ age + (g.circle * s + g.index) - (g.interval + 1) = t * s + cur BY <1>2, <1>3 DEF OnWay
<1>5. g.circle * s \in Int /\ t * s \in Int /\ (t + 1) * s = t * s + s BY <1>1, MulStep
<1>6. CASE g.index > cur
  <2>1. t = g.count BY <1>3, <1>6 DEF Turns
  <2>2. t * s <= g.circle * s BY <1>1, <1>4, <2>1, MulMonotone
  <2> QED BY <1>1, <1>4, <1>5, <1>6, <2>2
<1>7. CASE ~(g.index > cur)
  <2>1. t + 1 = g.count BY <1>1, <1>3, <1>7 DEF Turns
  <2>2. (t + 1) * s <= g.circle * s BY <1>1, <1>4, <2>1, MulMonotone
  <2> QED BY <1>1, <1>2, <1>4, <1>5, <2>2
<1> QED BY <1>6, <1>7

\* A tick moves a trigger that is not in the slot along; in the slot it counts one turn more, or it is
\* the tick after its interval.
LEMMA TickOnWay ==
    ASSUME NEW g, TriggerSound(g), NEW age \in Int, NEW cur \in Nat, cur < SlotNum, OnWay(g, age, cur),
           NEW nxt, nxt = (cur + 1) % SlotNum, NEW h, h = [g EXCEPT !.count = @ + 1]
    PROVE  /\ g.index # nxt => OnWay(g, age + 1, nxt)
           /\ g.index = nxt /\ g.count # g.circle => TriggerSound(h) /\ OnWay(h, age + 1, nxt)
           /\ g.index = nxt /\ g.count = g.circle => age = g.interval
<1>1. g.index \in Nat /\ g.index < SlotNum /\ g.circle \in Nat /\ g.count \in Nat /\ g.interval \in Nat BY DEF TriggerSound
<1>2. PICK s \in Nat : s = SlotNum BY SlotNumAssumption
<1>3. PICK t \in Int : t = Turns(g, cur) BY <1>1 DEF Turns
<1>4. PICK P \in Int : P = g.circle * s
  <2>1. g.circle * s \in Int BY <1>1, MulStep
  <2> QED BY <2>1
<1>5. PICK Q \in Int : Q = t * s /\ (t + 1) * s = Q + s BY <1>1, MulStep
<1>0. g.count <= g.circle /\ age + (P + g.index) - (g.interval + 1) = Q + cur BY <1>2, <1>3, <1>4, <1>5 DEF OnWay
<1>a. (age + 1) + (P + g.index) - (g.interval + 1) = Q + (cur + 1) BY ONLY <1>0, <1>1, <1>4, <1>5, age \in Int, cur \in Nat, OneOn
<1>6. (cur + 1 < s /\ nxt = cur + 1) \/ (cur + 1 = s /\ nxt = 0) BY <1>2, NextSlot
<1>7. g.index = nxt => (nxt = 0 => t = g.count - 1) /\ (nxt = cur + 1 => t = g.count) BY <1>1, <1>2, <1>3, <1>6 DEF Turns
<1>8. ASSUME g.index # nxt PROVE OnWay(g, age + 1, nxt)
  <2>1. CASE nxt = cur + 1
    <3>1. Turns(g, nxt) = t BY <1>1, <1>3, <1>8, <2>1 DEF Turns
    <3>2. (age + 1) + (P + g.index) - (g.interval + 1) = Q + nxt BY <1>a, <2>1, Zenon
    <3> QED BY <1>0, <1>2, <1>4, <1>5, <3>1, <3>2 DEF OnWay
  <2>2. CASE nxt = 0 /\ cur + 1 = s
    <3>1. Turns(g, nxt) = t + 1 BY <1>1, <1>2, <1>3, <1>8, <2>2 DEF Turns
    <3>2. (age + 1) + (P + g.index) - (g.interval + 1) = (Q + s) + nxt BY <1>0, <1>1, <2>2
    <3> QED BY <1>0, <1>2, <1>4, <1>5, <3>1, <3>2 DEF OnWay
  <2> QED BY <1>6, <2>1, <2>2
<1>9. ASSUME g.index = nxt, g.count # g.circle PROVE TriggerSound(h) /\ OnWay(h, age + 1, nxt)
  <2>1. DOMAIN h = DOMAIN g /\ h.index = g.index /\ h.circle = g.circle /\ h.count = g.count + 1 /\ h.interval = g.interval
    BY DEF TriggerSound
  <2>2. TriggerSound(h) BY <1>1, <2>1 DEF TriggerSound
  <2>3. Turns(h, nxt) = g.count /\ h.count <= h.circle BY <1>0, <1>1, <1>6, <1>9, <2>1 DEF Turns
  <2>4. PICK R \in Int : R = g.count * s /\ (age + 1) + (P + g.index) - (g.interval + 1) = R + nxt
    <3>1. CASE nxt = 0 /\ cur + 1 = s
      <4>1. g.count = t + 1 BY <1>1, <1>7, <1>9, <3>1
      <4>2. g.count * s = Q + s BY <1>5, <4>1
      <4>3. (age + 1) + (P + g.index) - (g.interval + 1) = (Q + s) + nxt BY <1>0, <1>1, <3>1
      <4> QED BY <4>2, <4>3
    <3>2. CASE nxt = cur + 1
      <4>1. g.count = t BY <1>1, <1>7, <1>9, <3>2
      <4>2. g.count * s = Q BY <1>5, <4>1
      <4>3. (age + 1) + (P + g.index) - (g.interval + 1) = Q + nxt BY <1>a, <3>2, Zenon
      <4> QED BY <4>2, <4>3
    <3> QED BY <1>6, <3>1, <3>2
  <2>5. (age + 1) + (h.circle * SlotNum + h.index) - (h.interval + 1) = Turns(h, nxt) * SlotNum + nxt BY <1>2, <1>4, <2>1, <2>3, <2>4
  <2> QED BY <2>2, <2>3, <2>5 DEF OnWay
<1>10. ASSUME g.index = nxt, g.count = g.circle PROVE age = g.interval
  <2>1. CASE nxt = 0 /\ cur + 1 = s
    <3>1. g.circle = t + 1 BY <1>1, <1>7, <1>10, <2>1
    <3>2. P = Q + s BY <1>4, <1>5, <3>1
    <3> QED BY <1>0, <1>1, <1>10, <2>1, <3>2
  <2>2. CASE nxt = cur + 1
    <3>1. g.circle = t BY <1>1, <1>7, <1>10, <2>2
    <3>2. P = Q BY <1>4, <1>5, <3>1
    <3> QED BY <1>0, <1>1, <1>10, <2>2, <3>2
  <2> QED BY <1>6, <2>1, <2>2
<1> QED BY <1>8, <1>9, <1>10

\* A tick, for one task.
LEMMA TickSound ==
    ASSUME WheelInv, RunTick, NEW t \in WheelTasks
    PROVE  /\ fires'[t] \in Seq(Nat)
           /\ adding'[t] # None => TriggerSound(adding'[t]) /\ raced'[t]
           /\ trigger'[t] # None =>
                /\ TriggerSound(trigger'[t])
                /\ ~raced'[t] /\ fires'[t] = <<>> => OnWay(trigger'[t], ticks' - born'[t], curSlot')
                /\ ~raced'[t] /\ fires'[t] # <<>> => fires'[t][1] - born'[t] = trigger'[t].interval + 1
<1>1. curSlot \in Nat /\ curSlot < SlotNum /\ ticks \in Nat /\ born[t] \in Nat /\ fires[t] \in Seq(Nat) BY DEF WheelInv
<1>2. ticks' = ticks + 1 /\ curSlot' = (curSlot + 1) % SlotNum /\ adding' = adding /\ born' = born BY DEF RunTick
<1>3. raced'[t] <=> (raced[t] \/ adding[t] # None) BY DEF RunTick
<1>4. PICK g : g = trigger[t] OBVIOUS
<1>5. trigger'[t] = IF g # None /\ g.index = curSlot' THEN Passed(g) ELSE g BY <1>4 DEF RunTick
<1>6. fires'[t] = IF g # None /\ g.index = curSlot' /\ Fires(g) THEN Append(fires[t], ticks + 1) ELSE fires[t] BY <1>4 DEF RunTick
<1>7. fires'[t] \in Seq(Nat)
  <2>1. ticks + 1 \in Nat BY <1>1
  <2>2. Append(fires[t], ticks + 1) \in Seq(Nat) BY <1>1, <2>1
  <2> QED BY <1>1, <1>6, <2>2
<1>8. adding'[t] # None => TriggerSound(adding'[t]) /\ raced'[t] BY <1>2, <1>3 DEF WheelInv
<1>9. ASSUME trigger'[t] # None
      PROVE  /\ TriggerSound(trigger'[t])
             /\ ~raced'[t] /\ fires'[t] = <<>> => OnWay(trigger'[t], ticks' - born'[t], curSlot')
             /\ ~raced'[t] /\ fires'[t] # <<>> => fires'[t][1] - born'[t] = trigger'[t].interval + 1
  <2>1. g # None BY <1>5, <1>9
  <2>2. /\ TriggerSound(g)
        /\ ~raced[t] /\ fires[t] = <<>> => OnWay(g, ticks - born[t], curSlot)
        /\ ~raced[t] /\ fires[t] # <<>> => fires[t][1] - born[t] = g.interval + 1
    BY <1>4, <2>1 DEF WheelInv
  <2>3. PICK age \in Int : age = ticks - born[t] BY <1>1
  <2>4. ticks' - born'[t] = age + 1 BY <1>1, <1>2, <2>3
  <2>5. PICK nxt : nxt = curSlot' OBVIOUS
  <2>6. nxt = (curSlot + 1) % SlotNum BY <1>2, <2>5
  <2>7. PICK h : h = [g EXCEPT !.count = @ + 1] OBVIOUS
  <2>8. OnWay(g, age, curSlot) =>
           /\ g.index # nxt => OnWay(g, age + 1, nxt)
           /\ g.index = nxt /\ g.count # g.circle => OnWay(h, age + 1, nxt)
           /\ g.index = nxt /\ g.count = g.circle => age = g.interval
    BY <1>1, <2>2, <2>6, <2>7, TickOnWay
  <2>9. DOMAIN g = {"index", "circle", "count", "times", "interval"} /\ g.count \in Nat /\ g.interval \in Nat BY <2>2 DEF TriggerSound
  <2>10. TriggerSound(h) /\ h.interval = g.interval BY <2>2, <2>7 DEF TriggerSound
  <2>11. CASE g.index # nxt
    <3>1. trigger'[t] = g /\ fires'[t] = fires[t] BY <1>5, <1>6, <2>5, <2>11
    <3> QED BY <1>2, <1>3, <2>2, <2>3, <2>4, <2>5, <2>8, <2>11, <3>1
  <2>12. CASE g.index = nxt /\ g.count # g.circle
    <3>1. trigger'[t] = h /\ fires'[t] = fires[t] BY <1>5, <1>6, <2>1, <2>5, <2>7, <2>12 DEF Passed, Fires
    <3> QED BY <1>2, <1>3, <2>2, <2>3, <2>4, <2>5, <2>8, <2>10, <2>12, <3>1
  <2>13. CASE g.index = nxt /\ g.count = g.circle
    <3>1. trigger'[t] = Passed(g) /\ fires'[t] = Append(fires[t], ticks + 1) BY <1>5, <1>6, <2>1, <2>5, <2>13 DEF Fires
    <3>2. PICK tm : tm = IF g.times > 0 THEN g.times - 1 ELSE g.times OBVIOUS
    <3>3. PICK k : k = [g EXCEPT !.count = 1, !.times = tm] OBVIOUS
    <3>4. trigger'[t] = k BY <1>9, <2>13, <3>1, <3>2, <3>3 DEF Passed, Fires
    <3>5. DOMAIN k = DOMAIN g /\ k.index = g.index /\ k.circle = g.circle /\ k.count = 1 /\ k.interval = g.interval BY <2>9, <3>3
    <3>6. TriggerSound(k) BY <2>2, <3>5 DEF TriggerSound
    <3>7. fires'[t] # <<>> /\ (fires[t] = <<>> => fires'[t][1] = ticks + 1) /\ (fires[t] # <<>> => fires'[t][1] = fires[t][1])
      BY <1>1, <3>1
    <3>8. CASE ~raced[t] /\ fires[t] = <<>>
      <4>1. age = g.interval BY <2>2, <2>3, <2>8, <2>13, <3>8
      <4>2. fires'[t][1] - born'[t] = g.interval + 1 BY <1>1, <1>2, <2>3, <3>7, <3>8, <4>1
      <4> QED BY <3>4, <3>5, <3>6, <3>7, <4>2
    <3>9. CASE ~(~raced[t] /\ fires[t] = <<>>)
      BY <1>2, <1>3, <2>2, <3>4, <3>5, <3>6, <3>7, <3>9
    <3> QED BY <3>8, <3>9
  <2> QED BY <2>11, <2>12, <2>13
<1> QED BY <1>7, <1>8, <1>9

LEMMA WheelInvStep == WheelInv /\ [WheelNext]_wheelVars => WheelInv'
<1> SUFFICES ASSUME WheelInv, [WheelNext]_wheelVars PROVE WheelInv' OBVIOUS
<1>1. CASE RunTick
  <2>1. curSlot' \in Nat /\ curSlot' < SlotNum /\ ticks' \in Nat
    <3>1. curSlot \in Nat /\ curSlot < SlotNum /\ ticks \in Nat /\ ticks' = ticks + 1 /\ curSlot' = (curSlot + 1) % SlotNum
      BY <1>1 DEF WheelInv, RunTick
    <3> QED BY <3>1, NextSlot, SlotNumAssumption
  <2>2. DOMAIN trigger' = WheelTasks /\ DOMAIN adding' = WheelTasks /\ DOMAIN raced' = WheelTasks /\ born' = born /\ DOMAIN fires' = WheelTasks
    BY <1>1 DEF WheelInv, RunTick
  <2>3. born' \in [WheelTasks -> Nat] BY <2>2 DEF WheelInv
  <2>4. fires' \in [WheelTasks -> Seq(Nat)]
    <3>1. \A t \in WheelTasks : fires'[t] \in Seq(Nat) BY <1>1, TickSound
    <3>2. fires' = [t \in WheelTasks |-> fires'[t]] BY <1>1 DEF RunTick
    <3> QED BY <3>1, <3>2
  <2> QED BY <1>1, <2>1, <2>2, <2>3, <2>4, TickSound DEF WheelInv
<1>2. CASE WaitReady \/ StopWheel \/ UNCHANGED wheelVars BY <1>2 DEF WaitReady, StopWheel, wheelVars, WheelInv
<1>3. ASSUME NEW t \in WheelTasks, StoreTrigger(t) PROVE WheelInv'
  <2>1. /\ adding[t] # None /\ trigger' = [trigger EXCEPT ![t] = adding[t]] /\ adding' = [adding EXCEPT ![t] = None]
        /\ fires' = [fires EXCEPT ![t] = <<>>] /\ UNCHANGED <<curSlot, ticks, born, raced>>
    BY <1>3 DEF StoreTrigger
  <2>2. fires' \in [WheelTasks -> Seq(Nat)] BY <2>1 DEF WheelInv
  <2>3. \A u \in WheelTasks : u # t => trigger'[u] = trigger[u] /\ adding'[u] = adding[u] /\ fires'[u] = fires[u] BY <2>1 DEF WheelInv
  <2>4. trigger'[t] = adding[t] /\ adding'[t] = None /\ fires'[t] = <<>> BY <2>1 DEF WheelInv
  <2>5. DOMAIN trigger' = WheelTasks /\ DOMAIN adding' = WheelTasks BY <2>1 DEF WheelInv
  <2> QED BY <2>1, <2>2, <2>3, <2>4, <2>5 DEF WheelInv
<1>4. ASSUME NEW t \in WheelTasks, DelTask(t) PROVE WheelInv'
  <2>1. trigger' = [trigger EXCEPT ![t] = None] /\ UNCHANGED <<curSlot, adding, ticks, born, fires, raced>> BY <1>4 DEF DelTask
  <2>2. DOMAIN trigger' = WheelTasks /\ trigger'[t] = None /\ \A u \in WheelTasks : u # t => trigger'[u] = trigger[u] BY <2>1 DEF WheelInv
  <2> QED BY <2>1, <2>2 DEF WheelInv
<1>5. ASSUME NEW t \in WheelTasks, NEW i \in Intervals, NEW n \in Times, AddTask(t, i, n) \/ UpdateTask(t, i, n) PROVE WheelInv'
  <2>1. PICK g : g = Placed(i, n, curSlot) OBVIOUS
  <2>2. /\ adding' = [adding EXCEPT ![t] = g] /\ born' = [born EXCEPT ![t] = ticks] /\ raced' = [raced EXCEPT ![t] = FALSE]
        /\ UNCHANGED <<curSlot, ticks, fires>>
    BY <1>5, <2>1 DEF AddTask, UpdateTask
  <2>3. DOMAIN trigger' = WheelTasks /\ trigger'[t] = None /\ \A u \in WheelTasks : u # t => trigger'[u] = trigger[u]
    BY <1>5 DEF AddTask, UpdateTask, WheelInv
  <2>4. curSlot \in Nat /\ curSlot < SlotNum /\ ticks \in Nat /\ i \in Nat BY IntervalsAssumption DEF WheelInv
  <2>5. TriggerSound(g) /\ OnWay(g, 0, curSlot) BY <2>1, <2>4, PlacedOnWay
  <2>6. adding'[t] = g /\ born'[t] = ticks /\ ticks - ticks = 0 BY <2>2, <2>4 DEF WheelInv
  <2>7. \A u \in WheelTasks : u # t => adding'[u] = adding[u] /\ born'[u] = born[u] /\ raced'[u] = raced[u] BY <2>2 DEF WheelInv
  <2>8. DOMAIN adding' = WheelTasks /\ DOMAIN raced' = WheelTasks /\ born' \in [WheelTasks -> Nat] BY <2>2, <2>4 DEF WheelInv
  <2>9. OnWay(adding'[t], ticks' - born'[t], curSlot') BY <2>2, <2>5, <2>6
  <2> QED BY <2>2, <2>3, <2>4, <2>5, <2>6, <2>7, <2>8, <2>9 DEF WheelInv
<1> QED BY <1>1, <1>2, <1>3, <1>4, <1>5 DEF WheelNext

\* For every wheel, every interval and every schedule: a task that was put in between two ticks is ready
\* for the first time on the tick after its interval, wherever the wheel stood when it was placed and
\* whether or not its slot was ahead (timewheel: AddTask, UpdateTask, checkAndFireTrigger).
THEOREM FirstFireOnTimeCorrect == WheelSpec => []FirstFireOnTime
<1>1. WheelInit => WheelInv
  <2> SUFFICES ASSUME WheelInit PROVE WheelInv OBVIOUS
  <2>1. curSlot = 0 /\ ticks = 0 /\ 0 < SlotNum BY SlotNumAssumption DEF WheelInit
  <2>2. fires \in [WheelTasks -> Seq(Nat)] /\ born \in [WheelTasks -> Nat] BY DEF WheelInit
  <2> QED BY <2>1, <2>2 DEF WheelInit, WheelInv
<1>2. WheelInv => FirstFireOnTime
  <2> SUFFICES ASSUME WheelInv, NEW t \in WheelTasks, trigger[t] # None, ~raced[t]
               PROVE  IF fires[t] = <<>> THEN ticks - born[t] <= trigger[t].interval ELSE fires[t][1] - born[t] = trigger[t].interval + 1
    BY DEF FirstFireOnTime
  <2>1. CASE fires[t] = <<>>
    <3>1. TriggerSound(trigger[t]) /\ OnWay(trigger[t], ticks - born[t], curSlot) BY <2>1 DEF WheelInv
    <3>2. ticks - born[t] \in Int /\ curSlot \in Nat /\ curSlot < SlotNum BY DEF WheelInv
    <3>3. ticks - born[t] <= trigger[t].interval BY <3>1, <3>2, OnWayIsEarly
    <3> QED BY <2>1, <3>3
  <2>2. CASE fires[t] # <<>> BY <2>2 DEF WheelInv
  <2> QED BY <2>1, <2>2
<1> QED BY <1>1, <1>2, WheelInvStep, PTL DEF WheelSpec
------------------------------------------------------------------------------
\* InstanceManager: the tables of the instance watch

\* The instance i can be reached: its queue is in the map of the function.
Found(c, qo, qa, i) == c # 0 /\ qo[c][i[1]] # 0 /\ i \in qa[qo[c][i[1]]]

Works == [pc : {"idle", "map", "queue", "change", "drop queue", "drop map"}, op : {"none", "add", "del"},
          ins : Instances \cup {None}, m : Nat, q : Nat]

TablesType ==
    /\ current \in Nat /\ queuesOf \in Seq([ResKeys -> Nat]) /\ queueAt \in Seq(SUBSET Instances)
    /\ current <= Len(queuesOf)
    /\ handlers \in [Handlers -> Works]
    /\ status \in [Instances -> {"running", "gone"}]
    /\ enabled \in BOOLEAN /\ channel \in Seq({"update", "delete"} \X Instances)
    /\ seen \in [Instances -> {"nothing", "update", "delete"}]

\* No queue serves two resource keys, and an instance is in the queue of its own.
QueuesSound(c, qo, qa) ==
    c # 0 => /\ \A k \in ResKeys : qo[c][k] <= Len(qa)
             /\ \A k, l \in ResKeys : qo[c][k] = qo[c][l] /\ qo[c][k] # 0 => k = l
             /\ \A k \in ResKeys : qo[c][k] # 0 => \A i \in qa[qo[c][k]] : i[1] = k

\* What the handler w of the watch has still to do, and that every other instance is right.
WorkSound(w, st, c, qo, qa) ==
    /\ w.pc # "idle" => w.ins \in Instances /\ w.op \in {"add", "del"} /\ (st[w.ins] = "running" <=> w.op = "add")
    /\ w.pc \in {"queue", "change", "drop queue", "drop map"} => w.m = c /\ c # 0
    /\ w.pc \in {"change", "drop queue"} => w.q = qo[c][w.ins[1]] /\ w.q # 0
    /\ w.pc \in {"drop queue", "drop map"} => w.op = "del" /\ ~Found(c, qo, qa, w.ins)
    /\ \A i \in Instances : (w.pc = "idle" \/ i # w.ins) => (Found(c, qo, qa, i) <=> st[i] = "running")

\* The last word of an instance, on its way or delivered, is true of it.
LastWordTrue(en, ch, sn, c, qo, qa) ==
    /\ ~en => ch = <<>> /\ \A i \in Instances : sn[i] = "nothing"
    /\ \A i \in Instances : (\A j \in 1 .. Len(ch) : ch[j][2] # i) =>
           (sn[i] = "update" => Found(c, qo, qa, i)) /\ (sn[i] = "delete" => ~Found(c, qo, qa, i))
    /\ \A j \in 1 .. Len(ch) : (\A l \in 1 .. Len(ch) : j < l => ch[l][2] # ch[j][2]) =>
           (ch[j][1] = "update" => Found(c, qo, qa, ch[j][2])) /\ (ch[j][1] = "delete" => ~Found(c, qo, qa, ch[j][2]))

AlarmSound == /\ schedulers \in [known : SUBSET Schedulers, synced : BOOLEAN, alarm : BOOLEAN]
              /\ schedulers.synced => (schedulers.alarm <=> schedulers.known = {})
              /\ ~schedulers.synced => ~schedulers.alarm

OneWatch == \E h : Handlers = {h}

TablesInv ==
    /\ TablesType
    /\ QueuesSound(current, queuesOf, queueAt)
    /\ \A h \in Handlers : WorkSound(handlers[h], status, current, queuesOf, queueAt)
    /\ LastWordTrue(enabled, channel, seen, current, queuesOf, queueAt)
    /\ AlarmSound

\* Nothing but the tables matters to what is reached.
LEMMA FoundIsReachable ==
    ASSUME TablesType, QueuesSound(current, queuesOf, queueAt)
    PROVE  \A i \in Instances : i \in Reachable <=> Found(current, queuesOf, queueAt, i)
<1> SUFFICES ASSUME NEW i \in Instances PROVE i \in Reachable <=> Found(current, queuesOf, queueAt, i) OBVIOUS
<1>1. i[1] \in ResKeys BY InstancesAssumption
<1>2. CASE current = 0 BY <1>2 DEF Reachable, Found
<1>3. CASE current # 0
  <2>1. current \in DOMAIN queuesOf /\ \A k \in ResKeys : queuesOf[current][k] \in Nat BY <1>3 DEF TablesType
  <2>2. i \in Reachable <=> \E k \in ResKeys : i \in InQueue(queuesOf[current][k]) BY <1>3 DEF Reachable
  <2>3. ASSUME NEW k \in ResKeys, i \in InQueue(queuesOf[current][k]) PROVE Found(current, queuesOf, queueAt, i)
    <3>1. queuesOf[current][k] # 0 /\ i \in queueAt[queuesOf[current][k]] BY <2>3 DEF InQueue
    <3>2. i[1] = k BY <3>1, <1>3 DEF QueuesSound
    <3> QED BY <3>1, <3>2, <1>3 DEF Found
  <2>4. ASSUME Found(current, queuesOf, queueAt, i) PROVE i \in InQueue(queuesOf[current][i[1]])
        BY <2>4 DEF Found, InQueue
  <2> QED BY <2>2, <2>3, <2>4, <1>1
<1> QED BY <1>2, <1>3

LEMMA ReachableAre ==
    ASSUME TablesType, QueuesSound(current, queuesOf, queueAt)
    PROVE  Reachable \subseteq Instances
<1> SUFFICES ASSUME NEW i \in Reachable PROVE i \in Instances OBVIOUS
<1>1. current # 0 BY DEF Reachable
<1>2. PICK k \in ResKeys : i \in InQueue(queuesOf[current][k]) BY <1>1 DEF Reachable
<1>3. current \in 1 .. Len(queuesOf) BY <1>1 DEF TablesType
<1>5. queuesOf[current] \in [ResKeys -> Nat] BY <1>3 DEF TablesType
<1>6. queuesOf[current][k] \in Nat /\ queuesOf[current][k] <= Len(queueAt) BY <1>1, <1>5 DEF QueuesSound
<1>4. queuesOf[current][k] \in 1 .. Len(queueAt) /\ i \in queueAt[queuesOf[current][k]]
      BY <1>1, <1>2, <1>6 DEF InQueue, TablesType
<1> QED BY <1>4 DEF TablesType

LEMMA TablesInit == ManagerInit => TablesInv
<1> SUFFICES ASSUME ManagerInit PROVE TablesInv OBVIOUS
<1>6. NoWork \in Works BY DEF Works, NoWork
<1>7. handlers \in [Handlers -> Works] BY <1>6 DEF ManagerInit
<1>8. seen \in [Instances -> {"nothing", "update", "delete"}] /\ status \in [Instances -> {"running", "gone"}]
      BY DEF ManagerInit
<1>9. queuesOf \in Seq([ResKeys -> Nat]) /\ Len(queuesOf) = 0 BY DEF ManagerInit
<1>10. queueAt \in Seq(SUBSET Instances) BY DEF ManagerInit
<1>11. channel \in Seq({"update", "delete"} \X Instances) BY DEF ManagerInit
<1>12. current = 0 /\ enabled \in BOOLEAN BY DEF ManagerInit
<1>1. TablesType BY <1>7, <1>8, <1>9, <1>10, <1>11, <1>12 DEF TablesType
<1>2. QueuesSound(current, queuesOf, queueAt) BY DEF ManagerInit, QueuesSound
<1>3. ASSUME NEW h \in Handlers PROVE WorkSound(handlers[h], status, current, queuesOf, queueAt)
      BY DEF ManagerInit, WorkSound, Found, NoWork
<1>4. LastWordTrue(enabled, channel, seen, current, queuesOf, queueAt)
  <2>1. \A i \in Instances : seen[i] = "nothing" BY DEF ManagerInit
  <2>2. channel = <<>> /\ 1 .. Len(channel) = {} BY DEF ManagerInit
  <2> QED BY <2>1, <2>2 DEF LastWordTrue
<1>5. AlarmSound BY DEF ManagerInit, AlarmSound
<1> QED BY <1>1, <1>2, <1>3, <1>4, <1>5 DEF TablesInv

\* Tables that reach the same instances: the last words stay true.
LEMMA LastWordStays ==
    ASSUME NEW en, NEW ch, NEW sn, NEW c, NEW qo, NEW qa, NEW c2, NEW qo2, NEW qa2,
           LastWordTrue(en, ch, sn, c, qo, qa), ch \in Seq({"update", "delete"} \X Instances),
           \A i \in Instances : Found(c2, qo2, qa2, i) <=> Found(c, qo, qa, i)
    PROVE  LastWordTrue(en, ch, sn, c2, qo2, qa2)
<1>1. \A j \in 1 .. Len(ch) : ch[j][2] \in Instances OBVIOUS
<1> QED BY <1>1 DEF LastWordTrue

LEMMA TableEventKeeps == ASSUME TablesInv, OneWatch, NEW h \in Handlers, NEW ins \in Instances,
                           NEW o \in {"add", "del"}, Event(h, ins, o)
                    PROVE  TablesInv'
<1>1. Handlers = {h} BY DEF OneWatch
<1>2. UNCHANGED <<current, queuesOf, queueAt, enabled, channel, seen, schedulers>>
      BY DEF Event, mapVars, subjectVars, otherVars
<1>3. PICK w \in Works : w = [NoWork EXCEPT !.pc = "map", !.op = o, !.ins = ins] BY DEF Works, NoWork
<1>4. w.pc = "map" /\ w.op = o /\ w.ins = ins BY <1>3 DEF NoWork
<1>5. handlers[h].pc = "idle" /\ handlers[h] \in Works /\ handlers' = [handlers EXCEPT ![h] = w]
      BY <1>3 DEF Event, HandlerStep, Go, TablesInv, TablesType
<1>6. handlers'[h] = w /\ handlers' \in [Handlers -> Works] BY <1>5 DEF TablesInv, TablesType
<1>7. PICK v \in {"running", "gone"} : (v = "running" <=> o = "add") /\ status' = [status EXCEPT ![ins] = v]
      BY DEF Event
<1>8. status' \in [Instances -> {"running", "gone"}] /\ status'[ins] = v
      /\ \A i \in Instances : i # ins => status'[i] = status[i] BY <1>7 DEF TablesInv, TablesType
<1>9. TablesType' BY <1>2, <1>6, <1>8 DEF TablesInv, TablesType
<1>10. \A i \in Instances : Found(current, queuesOf, queueAt, i) <=> status[i] = "running"
       BY <1>5 DEF TablesInv, WorkSound
<1>11. WorkSound(w, status', current, queuesOf, queueAt) BY <1>4, <1>7, <1>8, <1>10 DEF WorkSound
<1> QED BY <1>1, <1>2, <1>6, <1>9, <1>11 DEF TablesInv, AlarmSound

\* A step of the handler that changes no table: what is left to do is all that is to be shown.
LEMMA TableMapKeeps == ASSUME TablesInv, OneWatch, NEW h \in Handlers, LookUpMap(h) PROVE TablesInv'
<1>1. Handlers = {h} BY DEF OneWatch
<1>2. UNCHANGED <<queueAt, status, enabled, channel, seen, schedulers>>
      BY DEF LookUpMap, subjectVars, otherVars
<1>3. PICK w \in Works : w = handlers[h] BY DEF TablesInv, TablesType
<1>4. w.pc = "map" /\ w.ins \in Instances /\ w.op \in {"add", "del"} /\ (status[w.ins] = "running" <=> w.op = "add")
      /\ \A i \in Instances : i # w.ins => (Found(current, queuesOf, queueAt, i) <=> status[i] = "running")
      BY <1>3 DEF LookUpMap, HandlerStep, TablesInv, WorkSound
<1>5. /\ current' \in Nat /\ current' <= Len(queuesOf') /\ queuesOf' \in Seq([ResKeys -> Nat])
      /\ QueuesSound(current', queuesOf', queueAt)
      /\ \A i \in Instances : Found(current', queuesOf', queueAt, i) <=> Found(current, queuesOf, queueAt, i)
      /\ w.op = "add" => current' # 0
  <2>1. CASE w.op = "add" /\ current = 0
    <3>1. PICK f \in [ResKeys -> Nat] : f = [k \in ResKeys |-> 0] OBVIOUS
    <3>2. queuesOf' = Append(queuesOf, f) /\ current' = Len(queuesOf) + 1 BY <2>1, <1>3, <3>1 DEF LookUpMap
    <3>3. queuesOf' \in Seq([ResKeys -> Nat]) /\ Len(queuesOf') = Len(queuesOf) + 1 /\ queuesOf'[current'] = f
          /\ current' \in Nat /\ current' # 0
          BY <3>2 DEF TablesInv, TablesType
    <3>4. \A k \in ResKeys : queuesOf'[current'][k] = 0 BY <3>1, <3>3
    <3>5. QueuesSound(current', queuesOf', queueAt) BY <3>4 DEF QueuesSound, TablesInv, TablesType
    <3>6. ASSUME NEW i \in Instances PROVE ~Found(current', queuesOf', queueAt, i) /\ ~Found(current, queuesOf, queueAt, i)
          BY <3>4, <2>1, InstancesAssumption DEF Found
    <3> QED BY <3>2, <3>3, <3>5, <3>6
  <2>2. CASE ~(w.op = "add" /\ current = 0)
        BY <2>2, <1>3, <1>4 DEF LookUpMap, TablesInv, TablesType
  <2> QED BY <2>1, <2>2
<1>6. CASE current' = 0
  <2>1. handlers' = [handlers EXCEPT ![h] = NoWork] BY <1>6 DEF LookUpMap, Go
  <2>2. NoWork \in Works /\ NoWork.pc = "idle" BY DEF Works, NoWork
  <2>3. handlers' \in [Handlers -> Works] /\ handlers'[h] = NoWork BY <2>1, <2>2 DEF TablesInv, TablesType
  <2>4. ~Found(current', queuesOf', queueAt, w.ins) /\ status[w.ins] # "running" BY <1>4, <1>5, <1>6 DEF Found
  <2>5. WorkSound(NoWork, status, current', queuesOf', queueAt) BY <1>4, <1>5, <2>2, <2>4 DEF WorkSound
  <2>6. TablesType' BY <1>2, <1>5, <2>3 DEF TablesInv, TablesType
  <2>7. LastWordTrue(enabled, channel, seen, current', queuesOf', queueAt)
        BY ONLY LastWordStays, <1>5, TablesInv DEF TablesInv, TablesType
  <2> QED BY <1>1, <1>2, <1>5, <2>3, <2>5, <2>6, <2>7 DEF TablesInv, AlarmSound
<1>7. CASE current' # 0
  <2>1. PICK x \in Works : x = [w EXCEPT !.pc = "queue", !.m = current'] BY <1>5 DEF Works
  <2>2. x.pc = "queue" /\ x.m = current' /\ x.ins = w.ins /\ x.op = w.op BY <2>1 DEF Works
  <2>3. handlers' = [handlers EXCEPT ![h] = x] BY <1>7, <1>3, <2>1 DEF LookUpMap, Go
  <2>4. handlers' \in [Handlers -> Works] /\ handlers'[h] = x BY <2>3 DEF TablesInv, TablesType
  <2>5. WorkSound(x, status, current', queuesOf', queueAt) BY <1>4, <1>5, <1>7, <2>2 DEF WorkSound
  <2>6. TablesType' BY <1>2, <1>5, <2>4 DEF TablesInv, TablesType
  <2>7. LastWordTrue(enabled, channel, seen, current', queuesOf', queueAt)
        BY ONLY LastWordStays, <1>5, TablesInv DEF TablesInv, TablesType
  <2> QED BY <1>1, <1>2, <1>5, <2>4, <2>5, <2>6, <2>7 DEF TablesInv, AlarmSound
<1> QED BY <1>6, <1>7

\* An empty queue joins the map of the function, or leaves it: the same instances are reached.
Rewires(qo, c, k, q, qo2) ==
    /\ qo \in Seq([ResKeys -> Nat]) /\ c \in 1 .. Len(qo) /\ k \in ResKeys /\ q \in Nat
    /\ qo2 = [qo EXCEPT ![c][k] = q]
Rewired(qo, c, k, q, qo2) ==
    /\ qo2 \in Seq([ResKeys -> Nat]) /\ Len(qo2) = Len(qo) /\ qo2[c] \in [ResKeys -> Nat]
    /\ qo2[c][k] = q /\ \A l \in ResKeys : l # k => qo2[c][l] = qo[c][l]

LEMMA RewiresSo == ASSUME NEW qo, NEW c, NEW k, NEW q, NEW qo2, Rewires(qo, c, k, q, qo2)
                   PROVE  Rewired(qo, c, k, q, qo2)
<1>0. qo \in Seq([ResKeys -> Nat]) /\ c \in 1 .. Len(qo) /\ k \in ResKeys /\ q \in Nat BY DEF Rewires
<1>1. PICK f \in [ResKeys -> Nat] : f = qo[c] BY <1>0
<1>2. PICK g \in [ResKeys -> Nat] : g = [f EXCEPT ![k] = q] BY <1>0
<1>3. qo2 = [qo EXCEPT ![c] = g] BY <1>1, <1>2 DEF Rewires
<1>4. [qo EXCEPT ![c] = g] \in Seq([ResKeys -> Nat]) /\ Len([qo EXCEPT ![c] = g]) = Len(qo) BY <1>0
<1>5. g[k] = q /\ \A l \in ResKeys : l # k => g[l] = f[l] BY <1>0, <1>2
<1>6. [qo EXCEPT ![c] = g][c] = g BY <1>0
<1> QED BY <1>1, <1>3, <1>4, <1>5, <1>6 DEF Rewired

\* What stays when an empty queue comes or goes.
SameReach(c, qo, qa, qo2, qa2) ==
    /\ qo2 \in Seq([ResKeys -> Nat]) /\ Len(qo2) = Len(qo) /\ qa2 \in Seq(SUBSET Instances)
    /\ QueuesSound(c, qo2, qa2)
    /\ \A i \in Instances : Found(c, qo2, qa2, i) <=> Found(c, qo, qa, i)
Tables(c, qo, qa) ==
    /\ qo \in Seq([ResKeys -> Nat]) /\ qa \in Seq(SUBSET Instances) /\ c \in 1 .. Len(qo)
    /\ QueuesSound(c, qo, qa)
AddsQueue(c, k, qo, qa, qo2, qa2) ==
    Tables(c, qo, qa) /\ Rewires(qo, c, k, Len(qa) + 1, qo2) /\ qo[c][k] = 0 /\ qa2 = Append(qa, {})
DropsQueue(c, k, qo, qa, qo2) == Tables(c, qo, qa) /\ Rewires(qo, c, k, 0, qo2) /\ qa[qo[c][k]] = {}

LEMMA NewQueueTables ==
    ASSUME NEW qo, NEW qa, NEW c, NEW k, NEW qo2, NEW qa2, AddsQueue(c, k, qo, qa, qo2, qa2)
    PROVE  SameReach(c, qo, qa, qo2, qa2)
<1>14. qo \in Seq([ResKeys -> Nat]) /\ qa \in Seq(SUBSET Instances) /\ c \in 1 .. Len(qo) /\ QueuesSound(c, qo, qa)
       /\ k \in ResKeys /\ qo[c][k] = 0 /\ qa2 = Append(qa, {}) BY DEF AddsQueue, Tables, Rewires
<1>1. PICK f \in [ResKeys -> Nat] : f = qo[c] BY <1>14
<1>11. qa \in Seq(SUBSET Instances) BY <1>14
<1>12. Len(qa) \in Nat BY ONLY <1>11
<1>0. PICK L \in Nat : L = Len(qa) BY ONLY <1>12
<1>10. L + 1 \in Nat OBVIOUS
<1>3. qo2 \in Seq([ResKeys -> Nat]) /\ Len(qo2) = Len(qo) /\ qo2[c] \in [ResKeys -> Nat] /\ qo2[c][k] = L + 1
      /\ \A l \in ResKeys : l # k => qo2[c][l] = qo[c][l]
      BY <1>0, RewiresSo DEF AddsQueue, Rewired
<1>2. PICK g \in [ResKeys -> Nat] : g = qo2[c] BY <1>3
<1>4. qo2 \in Seq([ResKeys -> Nat]) /\ Len(qo2) = Len(qo) /\ qo2[c] = g BY <1>2, <1>3
<1>5. g[k] = L + 1 /\ \A l \in ResKeys : l # k => g[l] = f[l] BY <1>1, <1>2, <1>3
<1>6. qa2 \in Seq(SUBSET Instances) /\ Len(qa2) = L + 1 /\ qa2[L + 1] = {}
      /\ \A j \in 1 .. L : qa2[j] = qa[j] BY <1>0, <1>14
<1>7. /\ \A l \in ResKeys : f[l] \in Nat /\ f[l] <= L
      /\ \A l, m \in ResKeys : f[l] = f[m] /\ f[l] # 0 => l = m
      /\ \A l \in ResKeys : f[l] # 0 => \A i \in qa[f[l]] : i[1] = l BY <1>0, <1>1, <1>14 DEF QueuesSound
<1>13. L \in Nat /\ k \in ResKeys BY <1>0, <1>14
<1>8. QueuesSound(c, qo2, qa2)
  <2>4. ASSUME NEW l \in ResKeys PROVE g[l] \in Nat /\ g[l] <= L + 1 /\ (g[l] = L + 1 <=> l = k)
    <3>1. CASE l = k BY <3>1, <1>5, <1>13
    <3>2. CASE l # k
      <4>1. g[l] = f[l] /\ f[l] \in Nat /\ f[l] <= L BY <3>2, <1>5, <1>7
      <4> QED BY ONLY <4>1, <1>13, <3>2
    <3> QED BY <3>1, <3>2
  <2>1. \A l \in ResKeys : g[l] <= Len(qa2) BY <2>4, <1>6, <1>13
  <2>2. ASSUME NEW l \in ResKeys, NEW m \in ResKeys, g[l] = g[m], g[l] # 0 PROVE l = m
    <3>1. CASE g[l] = L + 1 BY <2>2, <2>4, <3>1
    <3>2. CASE g[l] # L + 1
      <4>1. l # k /\ m # k BY <2>2, <2>4, <3>2
      <4> QED BY <4>1, <2>2, <1>5, <1>7
    <3> QED BY <3>1, <3>2
  <2>3. ASSUME NEW l \in ResKeys, g[l] # 0, NEW i \in qa2[g[l]] PROVE i[1] = l
    <3>1. CASE l = k BY <3>1, <2>3, <1>5, <1>6
    <3>2. CASE l # k
      <4>1. g[l] = f[l] /\ f[l] \in Nat /\ f[l] <= L /\ f[l] # 0 BY <2>3, <3>2, <1>5, <1>7
      <4>2. f[l] \in 1 .. L BY ONLY <4>1, <1>13
      <4> QED BY <4>1, <4>2, <2>3, <1>6, <1>7
    <3> QED BY <3>1, <3>2
  <2> QED BY <2>1, <2>2, <2>3, <1>4 DEF QueuesSound
<1>9. ASSUME NEW i \in Instances PROVE Found(c, qo2, qa2, i) <=> Found(c, qo, qa, i)
  <2>1. i[1] \in ResKeys BY InstancesAssumption
  <2>2. CASE i[1] = k BY <2>2, <1>14, <1>1, <1>4, <1>5, <1>6 DEF Found
  <2>3. CASE i[1] # k BY <2>1, <2>3, <1>1, <1>4, <1>5, <1>6, <1>7 DEF Found
  <2> QED BY <2>2, <2>3
<1> QED BY <1>4, <1>6, <1>8, <1>9 DEF SameReach

LEMMA DropQueueTables ==
    ASSUME NEW qo, NEW qa, NEW c, NEW k, NEW qo2, DropsQueue(c, k, qo, qa, qo2)
    PROVE  SameReach(c, qo, qa, qo2, qa)
<1>14. qo \in Seq([ResKeys -> Nat]) /\ qa \in Seq(SUBSET Instances) /\ c \in 1 .. Len(qo) /\ QueuesSound(c, qo, qa)
       /\ k \in ResKeys /\ qa[qo[c][k]] = {} BY DEF DropsQueue, Tables, Rewires
<1>1. PICK f \in [ResKeys -> Nat] : f = qo[c] BY <1>14
<1>3. qo2 \in Seq([ResKeys -> Nat]) /\ Len(qo2) = Len(qo) /\ qo2[c] \in [ResKeys -> Nat] /\ qo2[c][k] = 0
      /\ \A l \in ResKeys : l # k => qo2[c][l] = qo[c][l] BY RewiresSo DEF DropsQueue, Rewired
<1>2. PICK g \in [ResKeys -> Nat] : g = qo2[c] BY <1>3
<1>4. qo2 \in Seq([ResKeys -> Nat]) /\ Len(qo2) = Len(qo) /\ qo2[c] = g BY <1>2, <1>3
<1>5. g[k] = 0 /\ \A l \in ResKeys : l # k => g[l] = f[l] BY <1>1, <1>2, <1>3
<1>7. /\ \A l \in ResKeys : f[l] <= Len(qa)
      /\ \A l, m \in ResKeys : f[l] = f[m] /\ f[l] # 0 => l = m
      /\ \A l \in ResKeys : f[l] # 0 => \A i \in qa[f[l]] : i[1] = l BY <1>1, <1>14 DEF QueuesSound
<1>8. QueuesSound(c, qo2, qa)
  <2>0. Len(qa) \in Nat /\ k \in ResKeys BY <1>14
  <2>1. \A l \in ResKeys : g[l] <= Len(qa) BY ONLY <2>0, <1>5, <1>7
  <2>2. \A l, m \in ResKeys : g[l] = g[m] /\ g[l] # 0 => l = m BY ONLY <1>5, <1>7
  <2>3. \A l \in ResKeys : g[l] # 0 => \A i \in qa[g[l]] : i[1] = l BY ONLY <1>5, <1>7
  <2> QED BY <2>1, <2>2, <2>3, <1>4 DEF QueuesSound
<1>9. ASSUME NEW i \in Instances PROVE Found(c, qo2, qa, i) <=> Found(c, qo, qa, i)
      BY InstancesAssumption, <1>1, <1>4, <1>5, <1>14 DEF Found
<1> QED BY <1>4, <1>8, <1>9, <1>14 DEF SameReach

\* The queue of a key changes: so do the instances of that key, and no other.
ChangesQueue(c, k, S, qo, qa, qa2) ==
    /\ Tables(c, qo, qa) /\ k \in ResKeys /\ qo[c][k] # 0
    /\ S \subseteq Instances /\ (\A i \in S : i[1] = k) /\ qa2 = [qa EXCEPT ![qo[c][k]] = S]
QueueChanged(c, k, S, qo, qa, qa2) ==
    /\ qa2 \in Seq(SUBSET Instances) /\ QueuesSound(c, qo, qa2)
    /\ \A i \in Instances : i[1] = k => (Found(c, qo, qa2, i) <=> i \in S)
    /\ \A i \in Instances : i[1] # k => (Found(c, qo, qa2, i) <=> Found(c, qo, qa, i))

LEMMA ChangeQueueTables ==
    ASSUME NEW qo, NEW qa, NEW c, NEW k, NEW S, NEW qa2, ChangesQueue(c, k, S, qo, qa, qa2)
    PROVE  QueueChanged(c, k, S, qo, qa, qa2)
<1>14. qo \in Seq([ResKeys -> Nat]) /\ qa \in Seq(SUBSET Instances) /\ c \in 1 .. Len(qo) /\ QueuesSound(c, qo, qa)
       /\ k \in ResKeys /\ qo[c][k] # 0 /\ S \in SUBSET Instances /\ (\A i \in S : i[1] = k)
       /\ qa2 = [qa EXCEPT ![qo[c][k]] = S] BY DEF ChangesQueue, Tables
<1>1. PICK f \in [ResKeys -> Nat] : f = qo[c] BY <1>14
<1>7. /\ \A l \in ResKeys : f[l] \in Nat /\ f[l] <= Len(qa)
      /\ \A l, m \in ResKeys : f[l] = f[m] /\ f[l] # 0 => l = m
      /\ \A l \in ResKeys : f[l] # 0 => \A i \in qa[f[l]] : i[1] = l BY <1>1, <1>14 DEF QueuesSound
<1>2. f[k] \in 1 .. Len(qa) BY <1>1, <1>7, <1>14
<1>3. qa2 \in Seq(SUBSET Instances) /\ Len(qa2) = Len(qa) /\ qa2[f[k]] = S
      /\ \A j \in 1 .. Len(qa) : j # f[k] => qa2[j] = qa[j] BY <1>1, <1>2, <1>14
<1>4. \A l \in ResKeys : l # k /\ f[l] # 0 => qa2[f[l]] = qa[f[l]] BY <1>3, <1>7, <1>14
<1>8. QueuesSound(c, qo, qa2) BY <1>1, <1>3, <1>4, <1>7, <1>14 DEF QueuesSound
<1>9. ASSUME NEW i \in Instances, i[1] = k PROVE Found(c, qo, qa2, i) <=> i \in S
      BY <1>9, <1>1, <1>3, <1>14 DEF Found
<1>10. ASSUME NEW i \in Instances, i[1] # k PROVE Found(c, qo, qa2, i) <=> Found(c, qo, qa, i)
      BY <1>10, InstancesAssumption, <1>1, <1>4, <1>14 DEF Found
<1> QED BY <1>3, <1>8, <1>9, <1>10 DEF QueueChanged

LEMMA TableQueueKeeps == ASSUME TablesInv, OneWatch, NEW h \in Handlers, LookUpQueue(h) PROVE TablesInv'
<1>1. Handlers = {h} BY DEF OneWatch
<1>2. UNCHANGED <<current, status, enabled, channel, seen, schedulers>>
      BY DEF LookUpQueue, subjectVars, otherVars
<1>3. PICK w \in Works : w = handlers[h] BY DEF TablesInv, TablesType
<1>4. w.pc = "queue" /\ w.ins \in Instances /\ w.op \in {"add", "del"} /\ (status[w.ins] = "running" <=> w.op = "add")
      /\ w.m = current /\ current # 0
      /\ \A i \in Instances : i # w.ins => (Found(current, queuesOf, queueAt, i) <=> status[i] = "running")
      BY <1>3 DEF LookUpQueue, HandlerStep, TablesInv, WorkSound
<1> DEFINE k == w.ins[1]
<1>5. k \in ResKeys /\ current \in 1 .. Len(queuesOf) BY <1>4, InstancesAssumption DEF TablesInv, TablesType
<1>6. /\ queuesOf' \in Seq([ResKeys -> Nat]) /\ Len(queuesOf') = Len(queuesOf) /\ queueAt' \in Seq(SUBSET Instances)
      /\ QueuesSound(current, queuesOf', queueAt')
      /\ \A i \in Instances : Found(current, queuesOf', queueAt', i) <=> Found(current, queuesOf, queueAt, i)
      /\ w.op = "add" => queuesOf'[current][k] # 0
  <2>1. CASE w.op = "add" /\ queuesOf[current][k] = 0
    <3>1. queueAt' = Append(queueAt, {}) /\ queuesOf' = [queuesOf EXCEPT ![current][k] = Len(queueAt) + 1]
          BY <2>1, <1>3, <1>4 DEF LookUpQueue
    <3>2. queuesOf \in Seq([ResKeys -> Nat]) /\ queueAt \in Seq(SUBSET Instances)
          /\ QueuesSound(current, queuesOf, queueAt) BY DEF TablesInv, TablesType
    <3>3. Len(queueAt) \in Nat BY <3>2
    <3>4. Len(queueAt) + 1 \in Nat /\ Len(queueAt) + 1 # 0 BY <3>3
    <3>5. Rewires(queuesOf, current, k, Len(queueAt) + 1, queuesOf') BY ONLY <1>5, <3>1, <3>2, <3>4, Zenon DEF Rewires
    <3>6. AddsQueue(current, k, queuesOf, queueAt, queuesOf', queueAt')
          BY ONLY <1>5, <2>1, <3>1, <3>2, <3>5, Zenon DEF AddsQueue, Tables
    <3>7. SameReach(current, queuesOf, queueAt, queuesOf', queueAt') BY ONLY <3>6, NewQueueTables, Zenon
    <3>8. Rewired(queuesOf, current, k, Len(queueAt) + 1, queuesOf') BY ONLY <3>5, RewiresSo, Zenon
    <3>9. queuesOf'[current][k] # 0 BY ONLY <3>4, <3>8, Zenon DEF Rewired
    <3> QED BY ONLY <3>7, <3>9, Zenon DEF SameReach
  <2>2. CASE ~(w.op = "add" /\ queuesOf[current][k] = 0)
        BY <2>2, <1>3, <1>4 DEF LookUpQueue, TablesInv, TablesType
  <2> QED BY <2>1, <2>2
<1>7. LastWordTrue(enabled, channel, seen, current, queuesOf', queueAt')
      BY ONLY LastWordStays, <1>6, TablesInv DEF TablesInv, TablesType
<1>8. queuesOf'[current][k] \in Nat BY <1>5, <1>6
<1>9. CASE queuesOf'[current][k] = 0
  <2>1. PICK x \in Works : x = [w EXCEPT !.pc = "drop map"] BY <1>5 DEF Works
  <2>2. x.pc = "drop map" /\ x.m = current /\ x.ins = w.ins /\ x.op = w.op BY <2>1, <1>4 DEF Works
  <2>3. handlers' = [handlers EXCEPT ![h] = x] BY <1>9, <1>3, <1>4, <2>1 DEF LookUpQueue, Go
  <2>4. handlers' \in [Handlers -> Works] /\ handlers'[h] = x BY <2>3 DEF TablesInv, TablesType
  <2>5. ~Found(current, queuesOf', queueAt', x.ins) BY <1>9, <2>2 DEF Found
  <2>6. x.op = "del" BY <2>2, <1>4, <1>6, <1>9
  <2>7. WorkSound(x, status, current, queuesOf', queueAt') BY <1>4, <1>6, <2>2, <2>5, <2>6 DEF WorkSound
  <2>8. TablesType' BY <1>2, <1>6, <2>4 DEF TablesInv, TablesType
  <2> QED BY <1>1, <1>2, <1>6, <1>7, <2>4, <2>7, <2>8 DEF TablesInv, AlarmSound
<1>10. CASE queuesOf'[current][k] # 0
  <2>0. PICK n \in Nat : n = queuesOf'[current][k] BY <1>8
  <2>1. PICK x \in Works : x = [w EXCEPT !.pc = "change", !.q = n] BY <1>5 DEF Works
  <2>2. x.pc = "change" /\ x.m = current /\ x.ins = w.ins /\ x.op = w.op /\ x.q = n BY <2>1, <1>4 DEF Works
  <2>3. handlers' = [handlers EXCEPT ![h] = x] BY <1>10, <1>3, <1>4, <2>0, <2>1 DEF LookUpQueue, Go
  <2>4. handlers' \in [Handlers -> Works] /\ handlers'[h] = x BY <2>3 DEF TablesInv, TablesType
  <2>7. WorkSound(x, status, current, queuesOf', queueAt') BY <1>4, <1>6, <1>10, <2>0, <2>2 DEF WorkSound
  <2>8. TablesType' BY <1>2, <1>6, <2>4 DEF TablesInv, TablesType
  <2> QED BY <1>1, <1>2, <1>6, <1>7, <2>4, <2>7, <2>8 DEF TablesInv, AlarmSound
<1> QED BY <1>9, <1>10

\* The queue takes or loses one instance: nothing changes for the others, and the observer is told.
LEMMA ChangeKeeps ==
    ASSUME TablesInv, NEW w \in Works, w.pc = "change", WorkSound(w, status, current, queuesOf, queueAt),
           NEW S, NEW qa2, qa2 = [queueAt EXCEPT ![w.q] = S],
           S \subseteq Instances, \A i \in S : i[1] = w.ins[1], \A i \in Instances : i # w.ins => (i \in S <=> i \in queueAt[w.q])
    PROVE  /\ qa2 \in Seq(SUBSET Instances) /\ QueuesSound(current, queuesOf, qa2)
           /\ \A i \in Instances : i # w.ins => (Found(current, queuesOf, qa2, i) <=> Found(current, queuesOf, queueAt, i))
           /\ Found(current, queuesOf, qa2, w.ins) <=> w.ins \in S
<1>1. w.ins \in Instances /\ w.ins[1] \in ResKeys /\ w.m = current /\ current # 0
      /\ w.q = queuesOf[current][w.ins[1]] /\ w.q # 0
      BY InstancesAssumption DEF WorkSound
<1>2. Tables(current, queuesOf, queueAt) BY <1>1 DEF TablesInv, TablesType, Tables
<1>3. ChangesQueue(current, w.ins[1], S, queuesOf, queueAt, qa2) BY <1>1, <1>2 DEF ChangesQueue
<1>4. QueueChanged(current, w.ins[1], S, queuesOf, queueAt, qa2) BY <1>3, ChangeQueueTables, Zenon
<1>5. ASSUME NEW i \in Instances, i # w.ins
      PROVE  Found(current, queuesOf, qa2, i) <=> Found(current, queuesOf, queueAt, i)
  <2>1. CASE i[1] # w.ins[1] BY <2>1, <1>4 DEF QueueChanged
  <2>2. CASE i[1] = w.ins[1]
    <3>1. Found(current, queuesOf, qa2, i) <=> i \in S BY <2>2, <1>4 DEF QueueChanged
    <3>2. Found(current, queuesOf, queueAt, i) <=> i \in queueAt[w.q] BY <2>2, <1>1 DEF Found
    <3> QED BY <3>1, <3>2, <1>5
  <2> QED BY <2>1, <2>2
<1> QED BY <1>1, <1>4, <1>5 DEF QueueChanged

\* An event is published for the instance that changed: the last words are true of the new tables.
LEMMA LastWordTold ==
    ASSUME NEW en, en, NEW ch \in Seq({"update", "delete"} \X Instances), NEW sn, NEW c, NEW qo, NEW qa, NEW qa2,
           LastWordTrue(en, ch, sn, c, qo, qa), NEW ins \in Instances, NEW type \in {"update", "delete"},
           \A i \in Instances : i # ins => (Found(c, qo, qa2, i) <=> Found(c, qo, qa, i)),
           Found(c, qo, qa2, ins) <=> type = "update"
    PROVE  LastWordTrue(en, Append(ch, <<type, ins>>), sn, c, qo, qa2)
<1>0. PICK e \in {"update", "delete"} \X Instances : e = <<type, ins>> OBVIOUS
<1>7. e \in {"update", "delete"} \X Instances /\ ch \in Seq({"update", "delete"} \X Instances) OBVIOUS
<1>8. Append(ch, e) \in Seq({"update", "delete"} \X Instances) BY ONLY <1>7
<1>1. PICK x \in Seq({"update", "delete"} \X Instances) : x = Append(ch, e) BY ONLY <1>8
<1>2. PICK n \in Nat : n = Len(ch) OBVIOUS
<1>3. Len(x) = n + 1 /\ x[n + 1][1] = type /\ x[n + 1][2] = ins /\ \A j \in 1 .. n : x[j] = ch[j] BY <1>0, <1>1, <1>2
<1>4. \A j \in 1 .. n : ch[j][2] \in Instances BY <1>2
<1>5. ASSUME NEW i \in Instances, \A j \in 1 .. Len(x) : x[j][2] # i
      PROVE  (sn[i] = "update" => Found(c, qo, qa2, i)) /\ (sn[i] = "delete" => ~Found(c, qo, qa2, i))
  <2>1. i # ins BY <1>3, <1>5
  <2>2. \A j \in 1 .. n : ch[j][2] # i BY <1>3, <1>5
  <2> QED BY <2>1, <2>2, <1>2 DEF LastWordTrue
<1>6. ASSUME NEW j \in 1 .. Len(x), \A l \in 1 .. Len(x) : j < l => x[l][2] # x[j][2]
      PROVE  (x[j][1] = "update" => Found(c, qo, qa2, x[j][2])) /\ (x[j][1] = "delete" => ~Found(c, qo, qa2, x[j][2]))
  <2>1. CASE j = n + 1 BY <2>1, <1>3
  <2>2. CASE j # n + 1
    <3>1. j \in 1 .. n /\ j < n + 1 /\ n + 1 \in 1 .. Len(x) BY <2>2, <1>3
    <3>2. x[j] = ch[j] /\ ch[j][2] # ins /\ ch[j][2] \in Instances BY <3>1, <1>3, <1>4, <1>6
    <3>3. \A l \in 1 .. n : j < l => ch[l][2] # ch[j][2] BY <3>1, <3>2, <1>3, <1>6
    <3>4. (ch[j][1] = "update" => Found(c, qo, qa, ch[j][2])) /\ (ch[j][1] = "delete" => ~Found(c, qo, qa, ch[j][2]))
          BY <3>1, <3>3, <1>2 DEF LastWordTrue
    <3> QED BY <3>2, <3>4
  <2> QED BY <2>1, <2>2
<1> QED BY <1>0, <1>1, <1>5, <1>6 DEF LastWordTrue

LEMMA TableAddKeeps == ASSUME TablesInv, OneWatch, NEW h \in Handlers, AddInstance(h) PROVE TablesInv'
<1>1. Handlers = {h} BY DEF OneWatch
<1>2. UNCHANGED <<current, queuesOf, status, enabled, seen, schedulers>> BY DEF AddInstance, otherVars
<1>3. PICK w \in Works : w = handlers[h] BY DEF TablesInv, TablesType
<1>4. w.pc = "change" /\ w.op = "add" BY <1>3 DEF AddInstance, HandlerStep
<1>5. WorkSound(w, status, current, queuesOf, queueAt) BY <1>3 DEF TablesInv
<1>6. w.ins \in Instances /\ status[w.ins] = "running" /\ w.ins[1] \in ResKeys /\ current # 0
      /\ w.q = queuesOf[current][w.ins[1]] /\ w.q # 0
      /\ \A i \in Instances : i # w.ins => (Found(current, queuesOf, queueAt, i) <=> status[i] = "running")
      BY <1>4, <1>5, InstancesAssumption DEF WorkSound
<1>7. w.q \in 1 .. Len(queueAt) /\ \A i \in queueAt[w.q] : i[1] = w.ins[1]
  <2>1. w.q <= Len(queueAt) /\ \A i \in queueAt[w.q] : i[1] = w.ins[1] BY <1>6 DEF TablesInv, QueuesSound
  <2>2. w.q \in Nat BY DEF Works
  <2>3. queueAt \in Seq(SUBSET Instances) BY DEF TablesInv, TablesType
  <2>4. Len(queueAt) \in Nat BY ONLY <2>3
  <2> QED BY <2>1, <2>2, <2>4, <1>6
<1>17. queueAt \in Seq(SUBSET Instances) BY DEF TablesInv, TablesType
<1>18. queueAt[w.q] \subseteq Instances BY ONLY <1>7, <1>17
<1>8. PICK S \in SUBSET Instances : S = queueAt[w.q] \cup {w.ins} BY <1>6, <1>18
<1>9. queueAt' = [queueAt EXCEPT ![w.q] = S] BY <1>3, <1>8 DEF AddInstance
<1>10. (\A i \in S : i[1] = w.ins[1]) /\ (\A i \in Instances : i # w.ins => (i \in S <=> i \in queueAt[w.q]))
       /\ w.ins \in S BY <1>7, <1>8
<1>11. /\ queueAt' \in Seq(SUBSET Instances) /\ QueuesSound(current, queuesOf, queueAt')
       /\ \A i \in Instances : i # w.ins => (Found(current, queuesOf, queueAt', i) <=> Found(current, queuesOf, queueAt, i))
       /\ Found(current, queuesOf, queueAt', w.ins)
  <2>1. S \subseteq Instances OBVIOUS
  <2> QED BY ONLY TablesInv, w \in Works, <1>4, <1>5, <1>9, <1>10, <2>1, ChangeKeeps, Zenon
<1>12. NoWork \in Works /\ NoWork.pc = "idle" BY DEF Works, NoWork
<1>13. handlers' \in [Handlers -> Works] /\ handlers'[h] = NoWork BY <1>12 DEF AddInstance, Go, TablesInv, TablesType
<1>14. WorkSound(NoWork, status, current, queuesOf, queueAt') BY <1>6, <1>11, <1>12 DEF WorkSound
<1>15. channel' \in Seq({"update", "delete"} \X Instances) /\ LastWordTrue(enabled, channel', seen, current, queuesOf, queueAt')
  <2>1. CASE enabled
    <3>1. channel' = Append(channel, <<"update", w.ins>>) BY <2>1, <1>3 DEF AddInstance, Publish
    <3>2. PICK e \in {"update", "delete"} \X Instances : e = <<"update", w.ins>> BY <1>6
    <3>3. channel' \in Seq({"update", "delete"} \X Instances) BY <3>1, <3>2 DEF TablesInv, TablesType
    <3>4. channel \in Seq({"update", "delete"} \X Instances) /\ LastWordTrue(enabled, channel, seen, current, queuesOf, queueAt)
          BY DEF TablesInv, TablesType
    <3>5. PICK y \in {"update", "delete"} : y = "update" OBVIOUS
    <3>6. LastWordTrue(enabled, Append(channel, <<y, w.ins>>), seen, current, queuesOf, queueAt')
          BY ONLY <2>1, <3>4, <3>5, <1>6, <1>11, LastWordTold, Zenon
    <3> QED BY <3>1, <3>3, <3>5, <3>6
  <2>2. CASE ~enabled
    <3>1. channel' = channel BY <2>2 DEF AddInstance, Publish
    <3>2. channel = <<>> /\ 1 .. Len(channel) = {} /\ \A i \in Instances : seen[i] = "nothing"
          BY <2>2 DEF TablesInv, LastWordTrue
    <3> QED BY <3>1, <3>2, <2>2 DEF LastWordTrue, TablesInv, TablesType
  <2> QED BY <2>1, <2>2
<1>16. TablesType' BY <1>2, <1>11, <1>13, <1>15 DEF TablesInv, TablesType
<1> QED BY <1>1, <1>2, <1>11, <1>13, <1>14, <1>15, <1>16 DEF TablesInv, AlarmSound

LEMMA TableDelKeeps == ASSUME TablesInv, OneWatch, NEW h \in Handlers, DelInstance(h) PROVE TablesInv'
<1>1. Handlers = {h} BY DEF OneWatch
<1>2. UNCHANGED <<current, queuesOf, status, enabled, seen, schedulers>> BY DEF DelInstance, otherVars
<1>3. PICK w \in Works : w = handlers[h] BY DEF TablesInv, TablesType
<1>4. w.pc = "change" /\ w.op = "del" BY <1>3 DEF DelInstance, HandlerStep
<1>5. WorkSound(w, status, current, queuesOf, queueAt) BY <1>3 DEF TablesInv
<1>6. w.ins \in Instances /\ status[w.ins] # "running" /\ w.ins[1] \in ResKeys /\ current # 0 /\ w.m = current
      /\ w.q = queuesOf[current][w.ins[1]] /\ w.q # 0
      /\ \A i \in Instances : i # w.ins => (Found(current, queuesOf, queueAt, i) <=> status[i] = "running")
      BY <1>4, <1>5, InstancesAssumption DEF WorkSound
<1>7. w.q \in 1 .. Len(queueAt) /\ \A i \in queueAt[w.q] : i[1] = w.ins[1]
  <2>1. w.q <= Len(queueAt) /\ \A i \in queueAt[w.q] : i[1] = w.ins[1] BY <1>6 DEF TablesInv, QueuesSound
  <2>2. w.q \in Nat BY DEF Works
  <2>3. queueAt \in Seq(SUBSET Instances) BY DEF TablesInv, TablesType
  <2>4. Len(queueAt) \in Nat BY ONLY <2>3
  <2> QED BY <2>1, <2>2, <2>4, <1>6
<1>17. queueAt \in Seq(SUBSET Instances) BY DEF TablesInv, TablesType
<1>18. queueAt[w.q] \subseteq Instances BY ONLY <1>7, <1>17
<1>8. PICK S \in SUBSET Instances : S = queueAt[w.q] \ {w.ins} BY <1>6, <1>18
<1>9. queueAt' = [queueAt EXCEPT ![w.q] = S] BY <1>3, <1>8 DEF DelInstance
<1>10. (\A i \in S : i[1] = w.ins[1]) /\ (\A i \in Instances : i # w.ins => (i \in S <=> i \in queueAt[w.q]))
       /\ w.ins \notin S BY <1>7, <1>8
<1>11. /\ queueAt' \in Seq(SUBSET Instances) /\ QueuesSound(current, queuesOf, queueAt')
       /\ \A i \in Instances : i # w.ins => (Found(current, queuesOf, queueAt', i) <=> Found(current, queuesOf, queueAt, i))
       /\ ~Found(current, queuesOf, queueAt', w.ins)
  <2>1. S \subseteq Instances OBVIOUS
  <2> QED BY ONLY TablesInv, w \in Works, <1>4, <1>5, <1>9, <1>10, <2>1, ChangeKeeps, Zenon
<1>12. PICK x \in Works : x = [w EXCEPT !.pc = "drop queue"] BY DEF Works
<1>13. x.pc = "drop queue" /\ x.op = "del" /\ x.ins = w.ins /\ x.m = w.m /\ x.q = w.q BY <1>4, <1>12 DEF Works
<1>19. handlers' = [handlers EXCEPT ![h] = x] BY <1>3, <1>12 DEF DelInstance, Go
<1>20. handlers' \in [Handlers -> Works] /\ handlers'[h] = x BY <1>19 DEF TablesInv, TablesType
<1>14. WorkSound(x, status, current, queuesOf, queueAt') BY <1>6, <1>11, <1>13 DEF WorkSound
<1>15. channel' \in Seq({"update", "delete"} \X Instances) /\ LastWordTrue(enabled, channel', seen, current, queuesOf, queueAt')
  <2>4. channel \in Seq({"update", "delete"} \X Instances) /\ LastWordTrue(enabled, channel, seen, current, queuesOf, queueAt)
        BY DEF TablesInv, TablesType
  <2>1. CASE enabled /\ w.ins \in queueAt[w.q]
    <3>1. channel' = Append(channel, <<"delete", w.ins>>) BY <2>1, <1>3 DEF DelInstance, Publish
    <3>2. PICK e \in {"update", "delete"} \X Instances : e = <<"delete", w.ins>> BY <1>6
    <3>3. channel' \in Seq({"update", "delete"} \X Instances) BY <3>1, <3>2, <2>4
    <3>5. PICK y \in {"update", "delete"} : y = "delete" OBVIOUS
    <3>7. y # "update" BY <3>5
    <3>6. LastWordTrue(enabled, Append(channel, <<y, w.ins>>), seen, current, queuesOf, queueAt')
          BY ONLY <2>1, <2>4, y \in {"update", "delete"}, <3>7, <1>6, <1>11, LastWordTold, Zenon
    <3> QED BY <3>1, <3>3, <3>5, <3>6
  <2>2. CASE w.ins \notin queueAt[w.q]
    <3>1. channel' = channel BY <2>2, <1>3 DEF DelInstance
    <3>2. ~Found(current, queuesOf, queueAt, w.ins) BY <2>2, <1>6 DEF Found
    <3>3. \A i \in Instances : Found(current, queuesOf, queueAt', i) <=> Found(current, queuesOf, queueAt, i)
          BY <3>2, <1>11
    <3>4. LastWordTrue(enabled, channel, seen, current, queuesOf, queueAt')
          BY ONLY <3>3, <2>4, LastWordStays
    <3> QED BY <3>1, <3>4, <2>4
  <2>3. CASE ~enabled
    <3>1. channel' = channel BY <2>3 DEF DelInstance, Publish
    <3>2. channel = <<>> /\ 1 .. Len(channel) = {} /\ \A i \in Instances : seen[i] = "nothing"
          BY <2>3 DEF TablesInv, LastWordTrue
    <3> QED BY <3>1, <3>2, <2>3, <2>4 DEF LastWordTrue
  <2> QED BY <2>1, <2>2, <2>3
<1>16. TablesType' BY <1>2, <1>11, <1>20, <1>15 DEF TablesInv, TablesType
<1> QED BY <1>1, <1>2, <1>11, <1>20, <1>14, <1>15, <1>16 DEF TablesInv, AlarmSound

LEMMA DropQueueKeeps == ASSUME TablesInv, OneWatch, NEW h \in Handlers, DropQueue(h) PROVE TablesInv'
<1>1. Handlers = {h} BY DEF OneWatch
<1>2. UNCHANGED <<current, queueAt, status, enabled, channel, seen, schedulers>> BY DEF DropQueue, subjectVars, otherVars
<1>3. PICK w \in Works : w = handlers[h] BY DEF TablesInv, TablesType
<1>4. w.pc = "drop queue" BY <1>3 DEF DropQueue, HandlerStep
<1>5. WorkSound(w, status, current, queuesOf, queueAt) BY <1>3 DEF TablesInv
<1>6. w.ins \in Instances /\ w.ins[1] \in ResKeys /\ current # 0 /\ w.m = current /\ w.op = "del"
      /\ status[w.ins] # "running" /\ ~Found(current, queuesOf, queueAt, w.ins) /\ w.q = queuesOf[current][w.ins[1]]
      /\ \A i \in Instances : i # w.ins => (Found(current, queuesOf, queueAt, i) <=> status[i] = "running")
      BY <1>4, <1>5, InstancesAssumption DEF WorkSound
<1>7. queuesOf \in Seq([ResKeys -> Nat]) /\ queueAt \in Seq(SUBSET Instances) /\ current \in 1 .. Len(queuesOf)
      /\ QueuesSound(current, queuesOf, queueAt) BY <1>6 DEF TablesInv, TablesType
<1>8. /\ queuesOf' \in Seq([ResKeys -> Nat]) /\ Len(queuesOf') = Len(queuesOf)
      /\ QueuesSound(current, queuesOf', queueAt)
      /\ \A i \in Instances : Found(current, queuesOf', queueAt, i) <=> Found(current, queuesOf, queueAt, i)
  <2>1. CASE queueAt[w.q] = {}
    <3>1. queuesOf' = [queuesOf EXCEPT ![current][w.ins[1]] = 0] BY <2>1, <1>3, <1>6 DEF DropQueue
    <3>2. queueAt[queuesOf[current][w.ins[1]]] = {} /\ 0 \in Nat BY <2>1, <1>6
    <3>3. DropsQueue(current, w.ins[1], queuesOf, queueAt, queuesOf')
          BY ONLY <1>6, <1>7, <3>1, <3>2, Zenon DEF DropsQueue, Tables, Rewires
    <3>4. SameReach(current, queuesOf, queueAt, queuesOf', queueAt) BY ONLY <3>3, DropQueueTables, Zenon
    <3> QED BY ONLY <3>4, Zenon DEF SameReach
  <2>2. CASE queueAt[w.q] # {} BY <2>2, <1>3, <1>7 DEF DropQueue
  <2> QED BY <2>1, <2>2
<1>12. PICK x \in Works : x = [w EXCEPT !.pc = "drop map"] BY DEF Works
<1>13. x.pc = "drop map" /\ x.op = "del" /\ x.ins = w.ins /\ x.m = w.m BY <1>6, <1>12 DEF Works
<1>19. handlers' = [handlers EXCEPT ![h] = x] BY <1>3, <1>12 DEF DropQueue, Go
<1>20. handlers' \in [Handlers -> Works] /\ handlers'[h] = x BY <1>19 DEF TablesInv, TablesType
<1>14. WorkSound(x, status, current, queuesOf', queueAt) BY <1>6, <1>8, <1>13 DEF WorkSound
<1>15. LastWordTrue(enabled, channel, seen, current, queuesOf', queueAt)
       BY ONLY LastWordStays, <1>8, TablesInv DEF TablesInv, TablesType
<1>16. TablesType' BY <1>2, <1>8, <1>20 DEF TablesInv, TablesType
<1> QED BY <1>1, <1>2, <1>8, <1>20, <1>14, <1>15, <1>16 DEF TablesInv, AlarmSound

LEMMA DropMapKeeps == ASSUME TablesInv, OneWatch, NEW h \in Handlers, DropMap(h) PROVE TablesInv'
<1>1. Handlers = {h} BY DEF OneWatch
<1>2. UNCHANGED <<queuesOf, queueAt, status, enabled, channel, seen, schedulers>> BY DEF DropMap, subjectVars, otherVars
<1>3. PICK w \in Works : w = handlers[h] BY DEF TablesInv, TablesType
<1>4. w.pc = "drop map" BY <1>3 DEF DropMap, HandlerStep
<1>5. WorkSound(w, status, current, queuesOf, queueAt) BY <1>3 DEF TablesInv
<1>6. w.ins \in Instances /\ w.m = current /\ w.op = "del"
      /\ status[w.ins] # "running" /\ ~Found(current, queuesOf, queueAt, w.ins)
      /\ \A i \in Instances : i # w.ins => (Found(current, queuesOf, queueAt, i) <=> status[i] = "running")
      BY <1>4, <1>5 DEF WorkSound
<1>8. /\ current' \in Nat /\ current' <= Len(queuesOf) /\ QueuesSound(current', queuesOf, queueAt)
      /\ \A i \in Instances : Found(current', queuesOf, queueAt, i) <=> Found(current, queuesOf, queueAt, i)
  <2>1. CASE \A k \in ResKeys : queuesOf[current][k] = 0
    <3>1. current' = 0 BY <2>1, <1>3, <1>6 DEF DropMap
    <3>2. QueuesSound(current', queuesOf, queueAt) BY <3>1 DEF QueuesSound
    <3>3. ASSUME NEW i \in Instances PROVE ~Found(current', queuesOf, queueAt, i) /\ ~Found(current, queuesOf, queueAt, i)
          BY <3>1, <2>1, InstancesAssumption DEF Found
    <3>4. Len(queuesOf) \in Nat BY DEF TablesInv, TablesType
    <3> QED BY <3>1, <3>2, <3>3, <3>4
  <2>2. CASE ~\A k \in ResKeys : queuesOf[current][k] = 0
    <3>1. current' = current BY <2>2, <1>3, <1>6 DEF DropMap
    <3> QED BY <3>1 DEF TablesInv, TablesType
  <2> QED BY <2>1, <2>2
<1>12. NoWork \in Works /\ NoWork.pc = "idle" BY DEF Works, NoWork
<1>13. handlers' \in [Handlers -> Works] /\ handlers'[h] = NoWork BY <1>12 DEF DropMap, Go, TablesInv, TablesType
<1>14. WorkSound(NoWork, status, current', queuesOf, queueAt) BY <1>6, <1>8, <1>12 DEF WorkSound
<1>15. LastWordTrue(enabled, channel, seen, current', queuesOf, queueAt)
       BY ONLY LastWordStays, <1>8, TablesInv DEF TablesInv, TablesType
<1>16. TablesType' BY <1>2, <1>8, <1>13 DEF TablesInv, TablesType
<1> QED BY <1>1, <1>2, <1>8, <1>13, <1>14, <1>15, <1>16 DEF TablesInv, AlarmSound

LEMMA TailIn == ASSUME NEW E, NEW s \in Seq(E), s # <<>> PROVE Tail(s) \in Seq(E) OBVIOUS

LEMMA TableNotifyKeeps == ASSUME TablesInv, NotifyObservers PROVE TablesInv'
<1>1. UNCHANGED <<current, queuesOf, queueAt, handlers, status, enabled, schedulers>>
      BY DEF NotifyObservers, mapVars, otherVars
<1>2. channel \in Seq({"update", "delete"} \X Instances) /\ channel # <<>>
      /\ seen \in [Instances -> {"nothing", "update", "delete"}] BY DEF TablesInv, TablesType, NotifyObservers
<1>3. PICK n \in Nat : n = Len(channel) BY ONLY <1>2
<1>4. n > 0 /\ channel[1] \in {"update", "delete"} \X Instances /\ Head(channel) = channel[1] BY ONLY <1>2, <1>3
<1>5. PICK i1 \in Instances, t1 \in {"update", "delete"} : channel[1][2] = i1 /\ channel[1][1] = t1 BY ONLY <1>4
<1>6. PICK x \in Seq({"update", "delete"} \X Instances) : x = Tail(channel) BY ONLY <1>2, TailIn, Zenon
<1>7. Len(x) = n - 1 /\ \A j \in 1 .. n - 1 : x[j] = channel[j + 1] BY ONLY <1>2, <1>3, <1>6
<1>8. channel' = x /\ seen' = [seen EXCEPT ![i1] = t1] BY <1>4, <1>5, <1>6 DEF NotifyObservers
<1>9. seen' \in [Instances -> {"nothing", "update", "delete"}] /\ seen'[i1] = t1
      /\ \A i \in Instances : i # i1 => seen'[i] = seen[i] BY <1>2, <1>8
<1>10. LastWordTrue(enabled, channel, seen, current, queuesOf, queueAt) BY DEF TablesInv
<1>11. enabled BY <1>2, <1>10 DEF LastWordTrue
<1>12. \A j \in 1 .. n : channel[j][2] \in Instances BY ONLY <1>2, <1>3
<1>13. ASSUME NEW i \in Instances, \A j \in 1 .. Len(x) : x[j][2] # i
       PROVE  (seen'[i] = "update" => Found(current, queuesOf, queueAt, i))
              /\ (seen'[i] = "delete" => ~Found(current, queuesOf, queueAt, i))
  <2>1. \A l \in 2 .. n : channel[l][2] # i
    <3> SUFFICES ASSUME NEW l \in 2 .. n PROVE channel[l][2] # i OBVIOUS
    <3>1. l - 1 \in 1 .. n - 1 /\ (l - 1) + 1 = l BY ONLY l \in 2 .. n, n \in Nat
    <3>2. x[l - 1] = channel[l] BY <3>1, <1>7
    <3> QED BY <3>1, <3>2, <1>7, <1>13
  <2>2. CASE i = i1
    <3>1. 1 \in 1 .. Len(channel) /\ \A l \in 1 .. Len(channel) : 1 < l => channel[l][2] # channel[1][2]
          BY <2>1, <2>2, <1>3, <1>4, <1>5
    <3>2. (channel[1][1] = "update" => Found(current, queuesOf, queueAt, channel[1][2]))
          /\ (channel[1][1] = "delete" => ~Found(current, queuesOf, queueAt, channel[1][2]))
          BY <3>1, <1>10 DEF LastWordTrue
    <3> QED BY <3>2, <2>2, <1>5, <1>9
  <2>3. CASE i # i1
    <3>1. \A l \in 1 .. Len(channel) : channel[l][2] # i BY <2>1, <2>3, <1>3, <1>5
    <3>2. seen'[i] = seen[i] BY <2>3, <1>9
    <3> QED BY <3>1, <3>2, <1>10 DEF LastWordTrue
  <2> QED BY <2>2, <2>3
<1>14. ASSUME NEW j \in 1 .. Len(x), \A l \in 1 .. Len(x) : j < l => x[l][2] # x[j][2]
       PROVE  (x[j][1] = "update" => Found(current, queuesOf, queueAt, x[j][2]))
              /\ (x[j][1] = "delete" => ~Found(current, queuesOf, queueAt, x[j][2]))
  <2>1. j \in 1 .. n - 1 /\ j + 1 \in 1 .. n /\ x[j] = channel[j + 1] BY <1>7
  <2>2. ASSUME NEW l \in 1 .. n, j + 1 < l PROVE channel[l][2] # channel[j + 1][2]
    <3>1. l - 1 \in 1 .. n - 1 /\ (l - 1) + 1 = l /\ j < l - 1
          BY ONLY <2>1, <2>2, l \in 1 .. n, n \in Nat
    <3>2. x[l - 1] = channel[l] BY <3>1, <1>7
    <3> QED BY <3>1, <3>2, <2>1, <1>7, <1>14
  <2>3. (channel[j + 1][1] = "update" => Found(current, queuesOf, queueAt, channel[j + 1][2]))
        /\ (channel[j + 1][1] = "delete" => ~Found(current, queuesOf, queueAt, channel[j + 1][2]))
        BY <2>1, <2>2, <1>3, <1>10 DEF LastWordTrue
  <2> QED BY <2>1, <2>3
<1>15. LastWordTrue(enabled, x, seen', current, queuesOf, queueAt) BY <1>11, <1>13, <1>14 DEF LastWordTrue
<1>16. TablesType' BY <1>1, <1>8, <1>9 DEF TablesInv, TablesType
<1> QED BY <1>1, <1>8, <1>15, <1>16 DEF TablesInv, AlarmSound

LEMMA TableLoopKeeps == ASSUME TablesInv, StartLoop PROVE TablesInv'
<1>1. UNCHANGED <<current, queuesOf, queueAt, handlers, status, channel, seen, schedulers>> /\ ~enabled /\ enabled'
      BY DEF StartLoop, mapVars, otherVars
<1>2. LastWordTrue(enabled', channel, seen, current, queuesOf, queueAt)
      BY <1>1 DEF TablesInv, LastWordTrue
<1>3. TablesType' BY <1>1 DEF TablesInv, TablesType, StartLoop
<1> QED BY <1>1, <1>2, <1>3 DEF TablesInv, AlarmSound

LEMMA SchedulersKeep == ASSUME TablesInv, SchedulerEvent PROVE TablesInv'
<1>1. UNCHANGED <<current, queuesOf, queueAt, handlers, status, enabled, channel, seen>>
      BY DEF SchedulerEvent, mapVars, subjectVars
<1>2. AlarmSound BY DEF TablesInv
<1>3. ASSUME SyncSchedulers PROVE AlarmSound'
  <2>1. PICK b \in BOOLEAN : b = (schedulers.alarm \/ schedulers.known = {}) OBVIOUS
  <2>2. schedulers' = [schedulers EXCEPT !.synced = TRUE, !.alarm = b] BY <1>3, <2>1 DEF SyncSchedulers
  <2>3. b <=> schedulers.known = {} BY <2>1, <1>2, <1>3 DEF SyncSchedulers, AlarmSound
  <2> QED BY <1>2, <2>2, <2>3 DEF AlarmSound
<1>4. ASSUME NEW s \in Schedulers, AddScheduler(s) PROVE AlarmSound'
  <2>1. CASE s \in schedulers.known BY <2>1, <1>2, <1>4 DEF AddScheduler, AlarmSound
  <2>2. CASE s \notin schedulers.known
    <3>1. PICK kn \in SUBSET Schedulers : kn = schedulers.known \cup {s} BY <1>2 DEF AlarmSound
    <3>2. kn # {} BY <3>1
    <3>3. schedulers.known = {} => Cardinality(kn) = 1
      <4>1. schedulers.known = {} => kn = {s} BY <3>1
      <4>2. Cardinality({s}) = 1 BY FS_Singleton
      <4> QED BY <4>1, <4>2
    <3>4. schedulers' = [schedulers EXCEPT !.known = kn,
              !.alarm = schedulers.alarm /\ ~(Cardinality(kn) = 1 /\ schedulers.synced)]
          BY <2>2, <1>4, <3>1 DEF AddScheduler
    <3>5. PICK b \in BOOLEAN : b = (schedulers.alarm /\ ~(Cardinality(kn) = 1 /\ schedulers.synced)) OBVIOUS
    <3>6. ~b BY <3>3, <3>5, <1>2 DEF AlarmSound
    <3>7. schedulers' = [schedulers EXCEPT !.known = kn, !.alarm = b] BY <3>4, <3>5
    <3> QED BY <1>2, <3>2, <3>6, <3>7 DEF AlarmSound
  <2> QED BY <2>1, <2>2
<1>5. ASSUME NEW s \in Schedulers, schedulers.synced, DelScheduler(s) PROVE AlarmSound'
  <2>1. CASE s \notin schedulers.known BY <2>1, <1>2, <1>5 DEF DelScheduler, AlarmSound
  <2>2. CASE s \in schedulers.known
    <3>1. PICK kn \in SUBSET Schedulers : kn = schedulers.known \ {s} BY <1>2 DEF AlarmSound
    <3>2. kn = {} <=> schedulers.known = {s} BY <3>1, <2>2
    <3>5. PICK b \in BOOLEAN : b = (schedulers.alarm \/ schedulers.known = {s}) OBVIOUS
    <3>6. b <=> kn = {} BY <3>2, <3>5, <1>2, <1>5, <2>2 DEF AlarmSound
    <3>7. schedulers' = [schedulers EXCEPT !.known = kn, !.alarm = b] BY <2>2, <1>5, <3>1, <3>5 DEF DelScheduler
    <3> QED BY <1>2, <1>5, <3>6, <3>7 DEF AlarmSound
  <2> QED BY <2>1, <2>2
<1>6. AlarmSound' BY <1>3, <1>4, <1>5 DEF SchedulerEvent
<1>7. TablesType' BY <1>1 DEF TablesInv, TablesType
<1> QED BY <1>1, <1>6, <1>7 DEF TablesInv

LEMMA TablesKept ==
    ASSUME TablesInv, UNCHANGED <<current, queuesOf, queueAt, handlers, status, enabled, channel, seen, schedulers>>
    PROVE  TablesInv'
BY DEF TablesInv, TablesType, AlarmSound

LEMMA TablesStep == ASSUME TablesInv, OneWatch, [ManagerNext]_managerVars PROVE TablesInv'
<1>1. CASE UNCHANGED managerVars BY <1>1, TablesKept DEF managerVars, mapVars, subjectVars
<1>2. ASSUME NEW r \in Readers, NEW k \in ResKeys, NEW without, StartRead(r, k, without) PROVE TablesInv'
      BY <1>2, TablesKept DEF StartRead, mapVars, subjectVars, otherVars
<1>3. ASSUME NEW r \in Readers, ReadQueue(r) \/ TakeInstance(r) \/ EndRead(r) PROVE TablesInv'
      BY <1>3, TablesKept DEF ReadQueue, TakeInstance, EndRead, mapVars, subjectVars, otherVars
<1>4. ASSUME ConfigNext PROVE TablesInv' BY <1>4, TablesKept DEF ConfigNext, ConfigEvent, mapVars, subjectVars
<1>5. CASE InstanceNext
      BY <1>2, <1>3, <1>5, TableNotifyKeeps, TableLoopKeeps, TableEventKeeps, TableMapKeeps, TableQueueKeeps, TableAddKeeps, TableDelKeeps,
         DropQueueKeeps, DropMapKeeps, Zenon DEF InstanceNext
<1> QED BY <1>1, <1>4, <1>5, SchedulersKeep DEF ManagerNext

LEMMA TablesGood == ASSUME TablesInv, OneWatch PROVE InstanceTablesTrue
<1>1. PICK h : Handlers = {h} BY DEF OneWatch
<1>2. \A i \in Instances : i \in Reachable <=> Found(current, queuesOf, queueAt, i)
      BY FoundIsReachable DEF TablesInv
<1>3. Reachable \subseteq Instances BY ReachableAre DEF TablesInv
<1>4. RunningAreReachable
  <2> SUFFICES ASSUME \A g \in Handlers : handlers[g].pc = "idle"
               PROVE  Reachable = {i \in Instances : status[i] = "running"} BY DEF RunningAreReachable
  <2>1. \A i \in Instances : Found(current, queuesOf, queueAt, i) <=> status[i] = "running"
        BY <1>1 DEF TablesInv, WorkSound
  <2> QED BY <1>2, <1>3, <2>1
<1>5. ObserverFollows
  <2> SUFFICES ASSUME channel = <<>>, NEW i \in Instances
               PROVE  (seen[i] = "update" => i \in Reachable) /\ (seen[i] = "delete" => i \notin Reachable)
      BY DEF ObserverFollows
  <2>1. 1 .. Len(channel) = {} OBVIOUS
  <2> QED BY <1>2, <2>1 DEF TablesInv, LastWordTrue
<1>6. AlarmIsTrue BY DEF TablesInv, AlarmSound, AlarmIsTrue
<1> QED BY <1>4, <1>5, <1>6 DEF InstanceTablesTrue

\* One watch feeds the tables, each under locks of three levels: between two of its events the
\* instances a request can reach are the running ones, an observer was last told what is true of
\* them, and the alarm is up exactly while there is no scheduler (instancemanager).
THEOREM InstanceTablesTrueCorrect == ASSUME OneWatch PROVE ManagerSpec => []InstanceTablesTrue
<1>1. ManagerInit => TablesInv BY TablesInit
<1>2. TablesInv /\ [ManagerNext]_managerVars => TablesInv' BY TablesStep
<1>3. TablesInv => InstanceTablesTrue BY TablesGood
<1> QED BY <1>1, <1>2, <1>3, PTL DEF ManagerSpec
------------------------------------------------------------------------------
\* DataSystemClient: the retries of an operation

OpRecs == [pc : {"pick", "client", "call", "drop", "ended"}, node : Nodes \cup {None}, bad : SUBSET Nodes,
           client : Nat \cup {None}, done : Nat, called : Seq(Nodes),
           res : Codes \cup {"dsClientNil", "noNode", None}]

\* The node of an attempt is not one of the bad ones, and the nodes that were called are all bad.
OpSound(c) ==
    /\ c.pc \in {"client", "call", "drop"} => c.node \in Nodes
    /\ c.pc # "ended" => c.node \notin c.bad /\ \A i \in DOMAIN c.called : c.called[i] \in c.bad
    /\ \A i, j \in DOMAIN c.called : i # j => c.called[i] # c.called[j]

OpsInv == dsOp \in [DsOps -> OpRecs] /\ \A o \in DsOps : OpSound(dsOp[o])

LEMMA NoneNoNode == ASSUME NEW c \in OpRecs PROVE None \notin c.bad
BY OpAssumption DEF OpRecs

LEMMA DistinctGrows ==
    ASSUME NEW s \in Seq(Nodes), NEW n \in Nodes, \A i \in DOMAIN s : s[i] # n,
           \A i, j \in DOMAIN s : i # j => s[i] # s[j]
    PROVE  /\ Append(s, n) \in Seq(Nodes)
           /\ \A i, j \in DOMAIN Append(s, n) : i # j => Append(s, n)[i] # Append(s, n)[j]
           /\ \A i \in DOMAIN Append(s, n) : Append(s, n)[i] = n \/ \E j \in DOMAIN s : Append(s, n)[i] = s[j]
OBVIOUS

\* The step of one operation.
LEMMA OpStep == ASSUME OpsInv, NEW o \in DsOps, NEW x \in OpRecs, OpSound(x), dsOp' = [dsOp EXCEPT ![o] = x]
                PROVE  OpsInv'
<1>1. dsOp' \in [DsOps -> OpRecs] BY DEF OpsInv
<1>2. \A p \in DsOps : OpSound(dsOp'[p]) BY DEF OpsInv
<1> QED BY <1>1, <1>2 DEF OpsInv

LEMMA AgainSound == ASSUME NEW c \in OpRecs, c.node \in Nodes, \A i \in DOMAIN c.called : c.called[i] \in c.bad \cup {c.node},
                           \A i, j \in DOMAIN c.called : i # j => c.called[i] # c.called[j]
                    PROVE  Again(c) \in OpRecs /\ OpSound(Again(c))
<1>1. PICK b \in SUBSET Nodes : b = c.bad \cup {c.node} BY DEF OpRecs
<1>2. PICK x \in OpRecs : x = [c EXCEPT !.pc = "pick", !.bad = b, !.node = None, !.client = None, !.done = 0]
      BY DEF OpRecs
<1>3. Again(c) = x BY <1>1, <1>2 DEF Again
<1>4. x.pc = "pick" /\ x.bad = b /\ x.node = None /\ x.called = c.called BY <1>2 DEF OpRecs
<1>5. None \notin b BY OpAssumption
<1>6. OpSound(x) BY <1>1, <1>4, <1>5 DEF OpSound
<1> QED BY <1>3, <1>6

LEMMA ChooseKeeps == ASSUME OpsInv, NEW o \in DsOps, NEW n \in Nodes, ChooseNode(o, n) PROVE OpsInv'
<1>1. PICK c \in OpRecs : c = dsOp[o] BY DEF OpsInv
<1>2. OpSound(c) /\ c.pc = "pick" BY <1>1 DEF OpsInv, ChooseNode
<1>3. n \notin c.bad
  <2>1. CASE n = c.node BY <2>1, <1>2 DEF OpSound
  <2>2. CASE n = lastUsed /\ lastUsed \notin c.bad \union {None} BY <2>2
  <2>3. CASE n \in Pick(c.bad) BY <2>3 DEF Pick
  <2> QED BY <2>1, <2>2, <2>3, <1>1 DEF ChooseNode
<1>4. PICK x \in OpRecs : x = [c EXCEPT !.pc = "client", !.node = n] BY DEF OpRecs
<1>5. x.pc = "client" /\ x.node = n /\ x.bad = c.bad /\ x.called = c.called BY <1>4 DEF OpRecs
<1>6. OpSound(x) BY <1>2, <1>3, <1>5 DEF OpSound
<1>7. dsOp' = [dsOp EXCEPT ![o] = x] BY <1>1, <1>4 DEF ChooseNode, OpsInv
<1> QED BY <1>6, <1>7, OpStep

LEMMA NoNodeKeeps == ASSUME OpsInv, NEW o \in DsOps, NoNode(o) PROVE OpsInv'
<1>1. PICK c \in OpRecs : c = dsOp[o] BY DEF OpsInv
<1>2. OpSound(c) BY <1>1 DEF OpsInv
<1>4. PICK x \in OpRecs : x = [c EXCEPT !.pc = "ended", !.res = "noNode"] BY DEF OpRecs
<1>5. x.pc = "ended" /\ x.called = c.called BY <1>4 DEF OpRecs
<1>6. OpSound(x) BY <1>2, <1>5 DEF OpSound
<1>7. dsOp' = [dsOp EXCEPT ![o] = x] BY <1>1, <1>4 DEF NoNode, OpsInv
<1> QED BY <1>6, <1>7, OpStep

LEMMA ClientKeeps == ASSUME OpsInv, NEW o \in DsOps, GetOrCreate(o), made \in Nat,
                            clients \in [Tenants -> [Nodes -> Nat \cup {None}]] PROVE OpsInv'
<1>1. PICK c \in OpRecs : c = dsOp[o] BY DEF OpsInv
<1>2. OpSound(c) /\ c.pc = "client" /\ c.node \in Nodes BY <1>1 DEF OpsInv, GetOrCreate, OpSound
<1>3. PICK k \in Nat \cup {None} : dsOp' = [dsOp EXCEPT ![o].pc = "call", ![o].client = k]
  <2>1. OpTenant[o] \in Tenants BY OpAssumption
  <2>2. clients[OpTenant[o]][c.node] \in Nat \cup {None} BY <2>1, <1>2
  <2>3. CASE clients[OpTenant[o]][c.node] # None BY <2>2, <2>3, <1>1 DEF GetOrCreate
  <2>4. CASE clients[OpTenant[o]][c.node] = None
    <3>1. made' = made + 1 /\ dsOp' = [dsOp EXCEPT ![o].pc = "call", ![o].client = made'] BY <2>4, <1>1 DEF GetOrCreate
    <3>2. PICK m \in Nat : m = made + 1 OBVIOUS
    <3> QED BY <3>1, <3>2
  <2> QED BY <2>3, <2>4
<1>4. PICK x \in OpRecs : x = [c EXCEPT !.pc = "call", !.client = k] BY DEF OpRecs
<1>5. x.pc = "call" /\ x.node = c.node /\ x.bad = c.bad /\ x.called = c.called BY <1>4 DEF OpRecs
<1>6. OpSound(x) BY <1>2, <1>5 DEF OpSound
<1>7. dsOp' = [dsOp EXCEPT ![o] = x] BY <1>1, <1>3, <1>4 DEF OpsInv
<1> QED BY <1>6, <1>7, OpStep

LEMMA InvalidateKeeps == ASSUME OpsInv, NEW o \in DsOps, Invalidate(o) PROVE OpsInv'
<1>1. PICK c \in OpRecs : c = dsOp[o] BY DEF OpsInv
<1>2. OpSound(c) /\ c.pc = "client" BY <1>1 DEF OpsInv, Invalidate
<1>4. PICK x \in OpRecs : x = [c EXCEPT !.pc = "drop"] BY DEF OpRecs
<1>5. x.pc = "drop" /\ x.node = c.node /\ x.bad = c.bad /\ x.called = c.called BY <1>4 DEF OpRecs
<1>6. OpSound(x) BY <1>2, <1>5 DEF OpSound
<1>7. dsOp' = [dsOp EXCEPT ![o] = x] BY <1>1, <1>4 DEF Invalidate, OpsInv
<1> QED BY <1>6, <1>7, OpStep

LEMMA DropKeeps == ASSUME OpsInv, NEW o \in DsOps, DropClient(o) PROVE OpsInv'
<1>1. PICK c \in OpRecs : c = dsOp[o] BY DEF OpsInv
<1>2. OpSound(c) /\ c.pc = "drop" BY <1>1 DEF OpsInv, DropClient
<1>3. Again(c) \in OpRecs /\ OpSound(Again(c)) BY <1>2, AgainSound DEF OpSound
<1>4. dsOp' = [dsOp EXCEPT ![o] = Again(c)] BY <1>1 DEF DropClient
<1> QED BY <1>3, <1>4, OpStep

LEMMA DsCallKeeps == ASSUME OpsInv, NEW o \in DsOps, NEW code \in Codes \union {"dsClientNil"}, Call(o, code) PROVE OpsInv'
<1>1. PICK c \in OpRecs : c = dsOp[o] BY DEF OpsInv
<1>2. OpSound(c) /\ c.pc = "call" /\ c.node \in Nodes /\ c.node \notin c.bad
      /\ (\A i \in DOMAIN c.called : c.called[i] \in c.bad) /\ (\A i, j \in DOMAIN c.called : i # j => c.called[i] # c.called[j])
      BY <1>1 DEF OpsInv, Call, Answered, OpSound
<1>11. c.called \in Seq(Nodes) BY DEF OpRecs
<1>12. Append(c.called, c.node) \in Seq(Nodes) BY ONLY <1>11, <1>2
<1>3. PICK s \in Seq(Nodes) : s = Append(c.called, c.node) BY ONLY <1>12
<1>4. (\A i, j \in DOMAIN s : i # j => s[i] # s[j]) /\ (\A i \in DOMAIN s : s[i] \in c.bad \cup {c.node})
  <2>1. c.called \in Seq(Nodes) /\ \A i \in DOMAIN c.called : c.called[i] # c.node BY <1>2 DEF OpRecs
  <2> QED BY ONLY <2>1, <1>2, <1>3, DistinctGrows
<1>5. PICK d \in OpRecs : d = [c EXCEPT !.called = s] BY DEF OpRecs
<1>6. d.called = s /\ d.node = c.node /\ d.bad = c.bad /\ d.pc = "call" BY <1>2, <1>5 DEF OpRecs
<1>7. dsOp' = [dsOp EXCEPT ![o] = Outcome(o, code)] BY DEF Call
<1>8. CASE code = "noKey" \/ shouldRetry(code)
  <2>3. NodeCalled(c) = d BY <1>3, <1>5 DEF NodeCalled
  <2>4. code # "ok" BY <1>8 DEF shouldRetry, RetryCodes
  <2>1. Outcome(o, code) = Again(d) BY <1>1, <1>8, <2>3, <2>4 DEF Outcome
  <2>2. Again(d) \in OpRecs /\ OpSound(Again(d)) BY <1>2, <1>4, <1>6, AgainSound
  <2> QED BY <1>7, <2>1, <2>2, OpStep
<1>9. CASE ~(code = "noKey" \/ shouldRetry(code)) /\ code = "ok" /\ c.done + 1 < Kinds[OpKind[o]].calls
  <2>1. PICK k \in Nat : k = c.done + 1 BY DEF OpRecs
  <2>2. PICK x \in OpRecs : x = [c EXCEPT !.done = k] BY DEF OpRecs
  <2>3. d.done = c.done BY <1>5 DEF OpRecs
  <2>4. Outcome(o, code) = x BY <1>9, <1>1, <1>3, <1>5, <2>1, <2>2, <2>3 DEF Outcome, NodeCalled
  <2>5. x.pc = "call" /\ x.node = c.node /\ x.bad = c.bad /\ x.called = c.called BY <1>2, <2>2 DEF OpRecs
  <2>6. OpSound(x) BY <1>2, <2>5 DEF OpSound
  <2> QED BY <1>7, <2>4, <2>6, OpStep
<1>10. CASE ~(code = "noKey" \/ shouldRetry(code)) /\ ~(code = "ok" /\ c.done + 1 < Kinds[OpKind[o]].calls)
  <2>1. PICK x \in OpRecs : x = [d EXCEPT !.pc = "ended", !.res = code] BY DEF OpRecs
  <2>3. d.done = c.done BY <1>5 DEF OpRecs
  <2>4. Outcome(o, code) = x BY <1>10, <1>1, <1>3, <1>5, <2>1, <2>3 DEF Outcome, NodeCalled
  <2>5. x.pc = "ended" /\ x.called = s BY <1>6, <2>1 DEF OpRecs
  <2>6. OpSound(x) BY <1>4, <2>5 DEF OpSound
  <2> QED BY <1>7, <2>4, <2>6, OpStep
<1> QED BY <1>8, <1>9, <1>10

\* Every client is in the map or destroyed.
Held(cl, m, d) ==
    /\ \A t \in Tenants, n \in Nodes : cl[t][n] # None => cl[t][n] \in 1 .. m /\ cl[t][n] \notin d
    /\ \A x \in 1 .. m : x \notin d => \E t \in Tenants, n \in Nodes : cl[t][n] = x
    /\ \A t, u \in Tenants : \A n, k \in Nodes : cl[t][n] # None /\ cl[t][n] = cl[u][k] => t = u /\ n = k

Maps == [Tenants -> [Nodes -> Nat \cup {None}]]

ClientsInv ==
    /\ made \in Nat /\ destroyed \subseteq 1 .. made /\ clients \in Maps /\ handler \in Nodes \cup {None}
    /\ Held(clients, made, destroyed)

\* One entry of the map is set.
SetsEntry(cl, t, n, v, c2) ==
    cl \in Maps /\ t \in Tenants /\ n \in Nodes /\ v \in Nat \cup {None} /\ c2 = [cl EXCEPT ![t][n] = v]
EntrySet(cl, t, n, v, c2) ==
    /\ c2 \in Maps /\ c2[t][n] = v
    /\ \A u \in Tenants, k \in Nodes : u # t \/ k # n => c2[u][k] = cl[u][k]

LEMMA SetsSo == ASSUME NEW cl, NEW t, NEW n, NEW v, NEW c2, SetsEntry(cl, t, n, v, c2) PROVE EntrySet(cl, t, n, v, c2)
<1>0. cl \in Maps /\ t \in Tenants /\ n \in Nodes /\ v \in Nat \cup {None} BY DEF SetsEntry
<1>1. PICK f \in [Nodes -> Nat \cup {None}] : f = cl[t] BY <1>0 DEF Maps
<1>2. PICK g \in [Nodes -> Nat \cup {None}] : g = [f EXCEPT ![n] = v] BY <1>0
<1>3. c2 = [cl EXCEPT ![t] = g] BY <1>1, <1>2 DEF SetsEntry
<1>4. c2 \in Maps /\ c2[t] = g /\ \A u \in Tenants : u # t => c2[u] = cl[u] BY <1>0, <1>3 DEF Maps
<1>5. g[n] = v /\ \A k \in Nodes : k # n => g[k] = f[k] BY <1>0, <1>2
<1> QED BY <1>0, <1>1, <1>4, <1>5 DEF EntrySet

LEMMA MadeHeld ==
    ASSUME NEW m \in Nat, NEW d \in SUBSET Nat, NEW cl \in Maps, Held(cl, m, d), NEW t \in Tenants, NEW n \in Nodes,
           cl[t][n] = None, NEW c2 \in Maps, c2[t][n] = m + 1, m + 1 \notin d,
           \A u \in Tenants, k \in Nodes : u # t \/ k # n => c2[u][k] = cl[u][k]
    PROVE  Held(c2, m + 1, d)
<1>0. None \notin Nat BY OpAssumption
<1>1. ASSUME NEW u \in Tenants, NEW k \in Nodes, c2[u][k] # None PROVE c2[u][k] \in 1 .. m + 1 /\ c2[u][k] \notin d
      BY <1>1 DEF Held
<1>2. ASSUME NEW x \in 1 .. m + 1, x \notin d PROVE \E u \in Tenants, k \in Nodes : c2[u][k] = x
  <2>1. CASE x = m + 1 BY <2>1
  <2>2. CASE x # m + 1
    <3>1. x \in 1 .. m BY <2>2
    <3>2. PICK u \in Tenants, k \in Nodes : cl[u][k] = x BY <3>1, <1>2 DEF Held
    <3>3. cl[u][k] # None BY <3>1, <3>2, <1>0
    <3> QED BY <3>2, <3>3
  <2> QED BY <2>1, <2>2
<1>3. ASSUME NEW u \in Tenants, NEW w \in Tenants, NEW j \in Nodes, NEW k \in Nodes, c2[u][j] # None, c2[u][j] = c2[w][k]
      PROVE  u = w /\ j = k
  <2>1. \A y \in Tenants, z \in Nodes : cl[y][z] # m + 1
    <3> SUFFICES ASSUME NEW y \in Tenants, NEW z \in Nodes, cl[y][z] = m + 1 PROVE FALSE OBVIOUS
    <3>1. cl[y][z] # None /\ m + 1 \in Nat BY <1>0
    <3>2. cl[y][z] \in 1 .. m BY <3>1 DEF Held
    <3> QED BY <3>2
  <2>2. CASE u = t /\ j = n BY <1>3, <2>1, <2>2
  <2>3. CASE w = t /\ k = n BY <1>3, <2>1, <2>3
  <2>4. CASE ~(u = t /\ j = n) /\ ~(w = t /\ k = n)
    <3>1. c2[u][j] = cl[u][j] /\ c2[w][k] = cl[w][k] BY <2>4
    <3> QED BY <3>1, <1>3 DEF Held
  <2> QED BY <2>2, <2>3, <2>4
<1> QED BY <1>1, <1>2, <1>3 DEF Held

\* Entries are cleared, and their clients destroyed.
Clears(C, cl, d, c2, d2) ==
    /\ \A u \in Tenants, k \in Nodes : c2[u][k] = IF <<u, k>> \in C THEN None ELSE cl[u][k]
    /\ \A x : x \in d2 <=> x \in d \/ (x # None /\ \E u \in Tenants, k \in Nodes : <<u, k>> \in C /\ cl[u][k] = x)

LEMMA ClearedHeld ==
    ASSUME NEW m \in Nat, NEW d, NEW cl, Held(cl, m, d), d \subseteq 1 .. m, NEW C, NEW c2, NEW d2, Clears(C, cl, d, c2, d2)
    PROVE  Held(c2, m, d2) /\ d2 \subseteq 1 .. m
<1>4. \A u \in Tenants, k \in Nodes : c2[u][k] = IF <<u, k>> \in C THEN None ELSE cl[u][k] BY DEF Clears
<1>5. \A x : x \in d2 <=> x \in d \/ (x # None /\ \E u \in Tenants, k \in Nodes : <<u, k>> \in C /\ cl[u][k] = x)
      BY DEF Clears
<1>6. d2 \subseteq 1 .. m
  <2> SUFFICES ASSUME NEW x \in d2, x \notin d PROVE x \in 1 .. m OBVIOUS
  <2>1. x # None /\ \E u \in Tenants, k \in Nodes : cl[u][k] = x BY <1>5
  <2> QED BY <2>1 DEF Held
<1>0. None \notin Nat BY OpAssumption
<1>1. ASSUME NEW u \in Tenants, NEW k \in Nodes, c2[u][k] # None PROVE c2[u][k] \in 1 .. m /\ c2[u][k] \notin d2
  <2>1. <<u, k>> \notin C /\ c2[u][k] = cl[u][k] BY <1>1, <1>4
  <2>2. cl[u][k] \in 1 .. m /\ cl[u][k] \notin d BY <1>1, <2>1 DEF Held
  <2>3. ASSUME NEW w \in Tenants, NEW j \in Nodes, <<w, j>> \in C, cl[w][j] = cl[u][k] PROVE FALSE
        BY <2>1, <2>3, <1>1 DEF Held
  <2> QED BY <2>1, <2>2, <2>3, <1>5
<1>2. ASSUME NEW x \in 1 .. m, x \notin d2 PROVE \E u \in Tenants, k \in Nodes : c2[u][k] = x
  <2>1. x # None BY <1>0
  <2>2. x \notin d BY <1>2, <1>5
  <2>3. PICK u \in Tenants, k \in Nodes : cl[u][k] = x BY <2>2 DEF Held
  <2>4. <<u, k>> \notin C BY <1>2, <2>1, <2>3, <1>5
  <2> QED BY <2>3, <2>4, <1>4
<1>3. ASSUME NEW u \in Tenants, NEW w \in Tenants, NEW j \in Nodes, NEW k \in Nodes, c2[u][j] # None, c2[u][j] = c2[w][k]
      PROVE  u = w /\ j = k
  <2>1. <<u, j>> \notin C /\ <<w, k>> \notin C BY <1>3, <1>4
  <2>2. c2[u][j] = cl[u][j] /\ c2[w][k] = cl[w][k] BY <2>1, <1>4
  <2>3. cl[u][j] # None /\ cl[u][j] = cl[w][k] BY <2>2, <1>3
  <2> QED BY ONLY <2>3, Held(cl, m, d), u \in Tenants, w \in Tenants, j \in Nodes, k \in Nodes DEF Held
<1> QED BY <1>1, <1>2, <1>3, <1>6 DEF Held

LEMMA CreateKeeps == ASSUME ClientsInv, OpsInv, NEW o \in DsOps, GetOrCreate(o) PROVE ClientsInv'
<1>1. destroyed' = destroyed /\ handler' = handler BY DEF GetOrCreate, eventVars
<1>2. PICK n \in Nodes : n = dsOp[o].node BY DEF OpsInv, OpSound, GetOrCreate
<1>3. PICK t \in Tenants : t = OpTenant[o] BY OpAssumption
<1>4. CASE clients[t][n] # None
  <2>1. clients' = clients /\ made' = made BY <1>2, <1>3, <1>4 DEF GetOrCreate
  <2> QED BY <1>1, <2>1 DEF ClientsInv
<1>5. CASE clients[t][n] = None
  <2>1. made' = made + 1 /\ clients' = [clients EXCEPT ![t][n] = made'] BY <1>2, <1>3, <1>5 DEF GetOrCreate
  <2>2. PICK v \in Nat : v = made + 1 BY DEF ClientsInv
  <2>3. clients' = [clients EXCEPT ![t][n] = v] BY <2>1, <2>2
  <2>4. clients \in Maps /\ made \in Nat /\ destroyed \in SUBSET Nat /\ Held(clients, made, destroyed) BY DEF ClientsInv
  <2>9. SetsEntry(clients, t, n, v, clients') BY <2>3, <2>4 DEF SetsEntry
  <2>10. EntrySet(clients, t, n, v, clients') BY ONLY <2>9, SetsSo, Zenon
  <2>5. clients' \in Maps /\ clients'[t][n] = v
        /\ \A u \in Tenants, k \in Nodes : u # t \/ k # n => clients'[u][k] = clients[u][k]
        BY ONLY <2>10, Zenon DEF EntrySet
  <2>6. made + 1 \notin destroyed BY DEF ClientsInv
  <2>7. clients'[t][n] = made + 1 BY <2>2, <2>5
  <2>8. Held(clients', made + 1, destroyed) BY ONLY <1>5, <2>4, <2>5, <2>6, <2>7, t \in Tenants, n \in Nodes, MadeHeld, Zenon
  <2> QED BY <1>1, <2>1, <2>5, <2>8 DEF ClientsInv
<1> QED BY <1>4, <1>5

LEMMA DropClientKeeps == ASSUME ClientsInv, OpsInv, NEW o \in DsOps, DropClient(o) PROVE ClientsInv'
<1>1. made' = made /\ handler' = handler BY DEF DropClient, eventVars
<1>2. PICK n \in Nodes : n = dsOp[o].node BY DEF OpsInv, OpSound, DropClient
<1>3. PICK t \in Tenants : t = OpTenant[o] BY OpAssumption
<1>4. destroyed' = destroyed \union ({clients[t][n]} \ {None}) /\ clients' = [clients EXCEPT ![t][n] = None]
      BY <1>2, <1>3 DEF DropClient, DeleteClient
<1>5. clients \in Maps /\ made \in Nat /\ destroyed \subseteq 1 .. made /\ Held(clients, made, destroyed) BY DEF ClientsInv
<1>6. clients' \in Maps /\ clients'[t][n] = None
      /\ \A u \in Tenants, k \in Nodes : u # t \/ k # n => clients'[u][k] = clients[u][k]
  <2>1. None \in Nat \cup {None} OBVIOUS
  <2>2. SetsEntry(clients, t, n, None, clients') BY <1>4, <1>5, <2>1, Zenon DEF SetsEntry
  <2>3. EntrySet(clients, t, n, None, clients') BY ONLY <2>2, SetsSo, Zenon
  <2> QED BY ONLY <2>3, Zenon DEF EntrySet
<1>7. PICK C : C = {<<t, n>>} OBVIOUS
<1>8. \A u \in Tenants, k \in Nodes : clients'[u][k] = IF <<u, k>> \in C THEN None ELSE clients[u][k] BY <1>6, <1>7
<1>9. \A x : x \in destroyed' <=> x \in destroyed
             \/ (x # None /\ \E u \in Tenants, k \in Nodes : <<u, k>> \in C /\ clients[u][k] = x) BY <1>4, <1>7
<1>11. Clears(C, clients, destroyed, clients', destroyed') BY ONLY <1>8, <1>9, Zenon DEF Clears
<1>10. Held(clients', made, destroyed') /\ destroyed' \subseteq 1 .. made BY ONLY <1>5, <1>11, ClearedHeld, Zenon
<1> QED BY <1>1, <1>5, <1>6, <1>10 DEF ClientsInv

LEMMA RemoveKeeps == ASSUME ClientsInv, RemoveClients PROVE ClientsInv'
<1>1. made' = made /\ handler' = None BY DEF RemoveClients
<1>2. PICK n \in Nodes : n = handler BY DEF ClientsInv, RemoveClients
<1>4. destroyed' = destroyed \union ({clients[t][n] : t \in Tenants} \ {None})
      /\ clients' = [t \in Tenants |-> [clients[t] EXCEPT ![n] = None]] BY <1>2 DEF RemoveClients
<1>5. clients \in Maps /\ made \in Nat /\ destroyed \subseteq 1 .. made /\ Held(clients, made, destroyed) BY DEF ClientsInv
<1>6. clients' \in Maps BY <1>4, <1>5 DEF Maps
<1>7. PICK C : C = Tenants \X {n} OBVIOUS
<1>8. \A u \in Tenants, k \in Nodes : clients'[u][k] = IF <<u, k>> \in C THEN None ELSE clients[u][k]
      BY <1>4, <1>5, <1>7 DEF Maps
<1>9. \A x : x \in destroyed' <=> x \in destroyed
             \/ (x # None /\ \E u \in Tenants, k \in Nodes : <<u, k>> \in C /\ clients[u][k] = x) BY <1>4, <1>7
<1>11. Clears(C, clients, destroyed, clients', destroyed') BY ONLY <1>8, <1>9, Zenon DEF Clears
<1>10. Held(clients', made, destroyed') /\ destroyed' \subseteq 1 .. made BY ONLY <1>5, <1>11, ClearedHeld, Zenon
<1> QED BY <1>1, <1>5, <1>6, <1>10 DEF ClientsInv

LEMMA DsStart == DsInit => OpsInv /\ ClientsInv
<1> SUFFICES ASSUME DsInit PROVE OpsInv /\ ClientsInv OBVIOUS
<1>1. ASSUME NEW o \in DsOps PROVE NewOp(o) \in OpRecs /\ OpSound(NewOp(o))
  <2>1. GivenNode[o] \in Nodes \cup {None} BY OpAssumption
  <2>6. <<>> \in Seq(Nodes) OBVIOUS
  <2>2. PICK s \in Seq(Nodes) : s = <<>> BY ONLY <2>6
  <2>3. PICK b \in SUBSET Nodes : b = {} OBVIOUS
  <2>4. NewOp(o) = [pc |-> "pick", node |-> GivenNode[o], bad |-> b, client |-> None, done |-> 0, called |-> s, res |-> None]
        BY <2>2, <2>3 DEF NewOp
  <2>5. NewOp(o) \in OpRecs BY <2>1, <2>4 DEF OpRecs
  <2> QED BY <2>2, <2>3, <2>4, <2>5 DEF OpSound
<1>2. OpsInv BY <1>1 DEF OpsInv, DsInit
<1>3. clients \in Maps /\ \A t \in Tenants, n \in Nodes : clients[t][n] = None BY DEF DsInit, Maps
<1>4. made = 0 /\ destroyed = {} /\ handler = None BY DEF DsInit
<1>5. Held(clients, made, destroyed) BY <1>3, <1>4 DEF Held
<1> QED BY <1>2, <1>3, <1>4, <1>5 DEF ClientsInv

LEMMA DsStepKeeps == ASSUME OpsInv, ClientsInv, [DsNext]_dsVars PROVE OpsInv' /\ ClientsInv'
<1>1. ASSUME UNCHANGED <<dsOp, clientVars, handler>> PROVE OpsInv' /\ ClientsInv'
      BY <1>1 DEF OpsInv, ClientsInv, clientVars
<1>2. ASSUME UNCHANGED <<clientVars, handler>> PROVE ClientsInv' BY <1>2 DEF ClientsInv, clientVars
<1>3. ASSUME UNCHANGED dsOp PROVE OpsInv' BY <1>3 DEF OpsInv
<1>4. CASE UNCHANGED dsVars BY <1>1, <1>4 DEF dsVars, clientVars
<1>5. ASSUME NEW n \in Nodes, AddNode(n) \/ HealthCheck(n) PROVE OpsInv' /\ ClientsInv'
      BY <1>1, <1>5 DEF AddNode, HealthCheck, eventVars
<1>6. ASSUME NEW n \in Nodes, NEW s, RemoveNode(n, s) PROVE OpsInv' /\ ClientsInv'
  <2>1. UNCHANGED <<dsOp, clients, made, destroyed>> /\ handler' = n BY <1>6 DEF RemoveNode, clientVars
  <2> QED BY <2>1, <1>3 DEF ClientsInv
<1>7. CASE RemoveClients BY <1>3, <1>7, RemoveKeeps DEF RemoveClients
<1>8. ASSUME NEW o \in DsOps, DsStep(o) PROVE OpsInv' /\ ClientsInv'
  <2>1. ASSUME NEW n \in Nodes, ChooseNode(o, n) PROVE OpsInv' /\ ClientsInv'
        BY <2>1, <1>2, ChooseKeeps DEF ChooseNode, eventVars
  <2>2. CASE NoNode(o) BY <2>2, <1>2, NoNodeKeeps DEF NoNode, eventVars
  <2>3. CASE GetOrCreate(o)
    <3>1. made \in Nat /\ clients \in [Tenants -> [Nodes -> Nat \cup {None}]] BY DEF ClientsInv, Maps
    <3> QED BY ONLY OpsInv, ClientsInv, o \in DsOps, <2>3, <3>1, ClientKeeps, CreateKeeps, Zenon
  <2>4. CASE Invalidate(o) BY <2>4, <1>2, InvalidateKeeps DEF Invalidate, eventVars
  <2>5. CASE DropClient(o) BY <2>5, DropKeeps, DropClientKeeps, Zenon
  <2>6. ASSUME NEW code \in Codes \union {"dsClientNil"}, Call(o, code) PROVE OpsInv' /\ ClientsInv'
        BY <2>6, <1>2, DsCallKeeps DEF Call, eventVars
  <2> QED BY <1>8, <2>1, <2>2, <2>3, <2>4, <2>5, <2>6, Zenon DEF DsStep
<1> QED BY <1>4, <1>5, <1>6, <1>7, <1>8, Zenon DEF DsNext, DsEvent

LEMMA ClientsGood == ClientsInv => ClientsSound
<1> SUFFICES ASSUME ClientsInv PROVE ClientsSound OBVIOUS
<1>1. Held(clients, made, destroyed) /\ None \notin Nat /\ made \in Nat BY OpAssumption DEF ClientsInv
<1>2. ASSUME NEW x PROVE x \in {clients[t][n] : t \in Tenants, n \in Nodes} \ {None} <=> x \in (1 .. made) \ destroyed
  <2>1. x \in {clients[t][n] : t \in Tenants, n \in Nodes} <=> \E t \in Tenants, n \in Nodes : x = clients[t][n] OBVIOUS
  <2>2. x \in 1 .. made => x # None BY <1>1
  <2> QED BY <1>1, <2>1, <2>2 DEF Held
<1>3. {clients[t][n] : t \in Tenants, n \in Nodes} \ {None} = (1 .. made) \ destroyed BY ONLY <1>2
<1>4. \A t, u \in Tenants : \A n, m \in Nodes : clients[t][n] # None /\ clients[t][n] = clients[u][m] => t = u /\ n = m
      BY ONLY <1>1 DEF Held
<1> QED BY ONLY <1>3, <1>4 DEF ClientsSound

LEMMA OpsGood == OpsInv => NoNodeTwice
BY DEF OpsInv, OpSound, NoNodeTwice

------------------------------------------------------------------------------
\* DataSystemClient: the tenant of a thread

Requested == {Request(name, m).api : name \in CallOps, m \in Messages}
Apis == Requested \cup {None}
CallerRecs == [pc : {"new", "lock", "tenant", "run", "open", "receive", "done"}, api : Apis]

\* A goroutine between LockOSThread and its call has one thread, with its own tenant once it is set.
PinSound(ca, pin, ten) ==
    /\ \A th, u \in Threads : pin[th] # None /\ pin[th] = pin[u] => th = u
    /\ \A g \in Callers : ca[g].pc \in {"tenant", "run"} => \E th \in Threads : pin[th] = g
    /\ \A g \in Callers, th \in Threads : ca[g].pc = "run" /\ pin[th] = g => ten[th] = CallTenant[g]

CallersInv ==
    /\ caller \in [Callers -> CallerRecs] /\ pinned \in [Threads -> Callers \cup {None}]
    /\ tenantOf \in [Threads -> {CallTenant[g] : g \in Callers} \cup {None}]
    /\ PinSound(caller, pinned, tenantOf)
    /\ CallUsesOwnTenant

LEMMA CallersInit == AccessInit => CallersInv
<1> SUFFICES ASSUME AccessInit PROVE CallersInv OBVIOUS
<1>1. \A g \in Callers : caller[g].pc = "new" BY DEF AccessInit
<1>5. None \in Apis BY DEF Apis
<1>2. caller \in [Callers -> CallerRecs] BY <1>5 DEF AccessInit, CallerRecs
<1>3. \A th \in Threads : pinned[th] = None BY DEF AccessInit
<1>4. PinSound(caller, pinned, tenantOf) BY <1>1, <1>3, CallerAssumption DEF PinSound
<1> QED BY <1>2, <1>4 DEF AccessInit, CallersInv, CallUsesOwnTenant

\* A caller moves outside of the section that needs a thread.
LEMMA CallerMoves ==
    ASSUME CallersInv, NEW g \in Callers, NEW pc \in {"new", "lock", "open", "receive", "done"}, NEW a \in Apis, NEW x,
           x = [caller[g] EXCEPT !.pc = pc, !.api = a], caller' = [caller EXCEPT ![g] = x], UNCHANGED <<pinned, tenantOf, ran>>
    PROVE  CallersInv'
<1>1. x \in CallerRecs /\ x.pc = pc BY DEF CallersInv, CallerRecs
<1>2. caller' \in [Callers -> CallerRecs] /\ caller'[g] = x /\ \A h \in Callers : h # g => caller'[h] = caller[h]
      BY <1>1 DEF CallersInv
<1>3. PinSound(caller', pinned, tenantOf) BY <1>1, <1>2 DEF CallersInv, PinSound
<1> QED BY <1>2, <1>3 DEF CallersInv, CallUsesOwnTenant

LEMMA ReceiveKeeps == ASSUME CallersInv, NEW g \in Callers, NEW name \in CallOps, NEW m \in Messages, Receive(g, name, m)
                      PROVE  CallersInv'
<1>1. PICK a \in Apis : a = Request(name, m).api BY DEF Apis, Requested
<1>2. PICK pc \in {"new", "lock", "open", "receive", "done"} : pc = IF Request(name, m).ok THEN "lock" ELSE "done" OBVIOUS
<1>3. caller' = [caller EXCEPT ![g] = [caller[g] EXCEPT !.pc = pc, !.api = a]] BY <1>1, <1>2 DEF Receive, CallersInv
<1> QED BY <1>3, CallerMoves DEF Receive

LEMMA SetPc == ASSUME CallersInv, NEW g \in Callers, NEW pc, caller' = [caller EXCEPT ![g].pc = pc]
               PROVE  \E a \in Apis : caller' = [caller EXCEPT ![g] = [caller[g] EXCEPT !.pc = pc, !.api = a]]
<1>1. PICK a \in Apis : a = caller[g].api BY DEF CallersInv, CallerRecs
<1>2. [caller[g] EXCEPT !.pc = pc, !.api = a] = [caller[g] EXCEPT !.pc = pc] BY <1>1 DEF CallersInv, CallerRecs
<1> QED BY <1>2 DEF CallersInv

LEMMA LockKeeps == ASSUME CallersInv, NEW g \in Callers, NEW th \in Threads, Lock(g, th) PROVE CallersInv'
<1>1. pinned' = [pinned EXCEPT ![th] = g] /\ UNCHANGED <<tenantOf, ran>> BY DEF Lock, LockOSThread
<1>2. (pinned[th] \in {None, g}) /\ (\A u \in Threads : pinned[u] = g => u = th) /\ caller[g].pc = "lock" BY DEF Lock, RunsOn
<1>3. pinned' \in [Threads -> Callers \cup {None}] /\ pinned'[th] = g /\ \A u \in Threads : u # th => pinned'[u] = pinned[u]
      BY <1>1 DEF CallersInv
<1>4. PICK x \in CallerRecs : x = [caller[g] EXCEPT !.pc = "tenant"] BY DEF CallersInv, CallerRecs
<1>5. x.pc = "tenant" BY <1>4 DEF CallersInv, CallerRecs
<1>6. caller' = [caller EXCEPT ![g] = x] BY <1>4 DEF Lock, CallersInv
<1>7. caller' \in [Callers -> CallerRecs] /\ caller'[g] = x /\ \A h \in Callers : h # g => caller'[h] = caller[h]
      BY <1>6 DEF CallersInv
<1>8. \A t, u \in Threads : pinned'[t] # None /\ pinned'[t] = pinned'[u] => t = u
      BY <1>2, <1>3 DEF CallersInv, PinSound
<1>9. ASSUME NEW h \in Callers, caller'[h].pc \in {"tenant", "run"} PROVE \E t \in Threads : pinned'[t] = h
  <2>1. CASE h = g BY <2>1, <1>3
  <2>2. CASE h # g
    <3>1. PICK t \in Threads : pinned[t] = h BY <2>2, <1>7, <1>9 DEF CallersInv, PinSound
    <3>2. t # th BY <3>1, <2>2, <1>2, CallerAssumption
    <3> QED BY <3>1, <3>2, <1>3
  <2> QED BY <2>1, <2>2
<1>10. ASSUME NEW h \in Callers, NEW t \in Threads, caller'[h].pc = "run", pinned'[t] = h PROVE tenantOf[t] = CallTenant[h]
  <2>1. h # g BY <1>5, <1>7, <1>10
  <2>2. t # th BY <2>1, <1>3, <1>10
  <2> QED BY <2>1, <2>2, <1>3, <1>7, <1>10 DEF CallersInv, PinSound
<1>11. PinSound(caller', pinned', tenantOf) BY <1>8, <1>9, <1>10 DEF PinSound
<1> QED BY <1>1, <1>3, <1>7, <1>11 DEF CallersInv, CallUsesOwnTenant

\* A goroutine leaves its thread.
LEMMA UnlockKeeps ==
    ASSUME CallersInv, NEW g \in Callers, NEW pc \in {"open", "done"}, caller' = [caller EXCEPT ![g].pc = pc],
           pinned' = Unlocked(g), tenantOf' = tenantOf, CallUsesOwnTenant'
    PROVE  CallersInv'
<1>3. pinned' \in [Threads -> Callers \cup {None}] /\ \A u \in Threads : pinned'[u] = IF pinned[u] = g THEN None ELSE pinned[u]
      BY DEF CallersInv, Unlocked
<1>4. PICK x \in CallerRecs : x = [caller[g] EXCEPT !.pc = pc] BY DEF CallersInv, CallerRecs
<1>5. x.pc = pc BY <1>4 DEF CallersInv, CallerRecs
<1>6. caller' = [caller EXCEPT ![g] = x] BY <1>4 DEF CallersInv
<1>7. caller' \in [Callers -> CallerRecs] /\ caller'[g] = x /\ \A h \in Callers : h # g => caller'[h] = caller[h]
      BY <1>6 DEF CallersInv
<1>8. PinSound(caller, pinned, tenantOf) BY DEF CallersInv
<1>9. \A t, u \in Threads : pinned'[t] # None /\ pinned'[t] = pinned'[u] => t = u BY <1>3, <1>8 DEF PinSound
<1>10. ASSUME NEW h \in Callers, caller'[h].pc \in {"tenant", "run"} PROVE \E t \in Threads : pinned'[t] = h
  <2>1. h # g BY <1>5, <1>7, <1>10
  <2> QED BY <2>1, <1>3, <1>7, <1>8, <1>10 DEF PinSound
<1>11. ASSUME NEW h \in Callers, NEW t \in Threads, caller'[h].pc = "run", pinned'[t] = h PROVE tenantOf[t] = CallTenant[h]
  <2>1. h # g BY <1>5, <1>7, <1>11
  <2>2. pinned[t] = h BY <1>3, <1>11, CallerAssumption
  <2> QED BY <2>1, <2>2, <1>7, <1>8, <1>11 DEF PinSound
<1>12. PinSound(caller', pinned', tenantOf) BY <1>9, <1>10, <1>11 DEF PinSound
<1> QED BY <1>3, <1>7, <1>12 DEF CallersInv

\* The thread a goroutine in its section runs on is its own.
LEMMA OwnThread == ASSUME CallersInv, NEW g \in Callers, NEW th \in Threads, caller[g].pc \in {"tenant", "run"}, RunsOn(g, th)
                   PROVE  pinned[th] = g
BY DEF CallersInv, PinSound, RunsOn

LEMMA TenantKeeps == ASSUME CallersInv, NEW g \in Callers, NEW th \in Threads, NEW ok \in BOOLEAN, SetTenantID(g, th, ok)
                     PROVE  CallersInv'
<1>1. ran' = ran /\ caller[g].pc = "tenant" BY DEF SetTenantID
<1>2. pinned[th] = g BY <1>1, OwnThread DEF SetTenantID
<1>3. CASE ~ok
  <2>1. caller' = [caller EXCEPT ![g].pc = "done"] /\ pinned' = Unlocked(g) /\ tenantOf' = tenantOf BY <1>3 DEF SetTenantID
  <2> QED BY <1>1, <2>1, UnlockKeeps DEF CallersInv, CallUsesOwnTenant
<1>4. CASE ok
  <2>1. caller' = [caller EXCEPT ![g].pc = "run"] /\ pinned' = pinned /\ tenantOf' = [tenantOf EXCEPT ![th] = CallTenant[g]]
        BY <1>4 DEF SetTenantID
  <2>2. PICK x \in CallerRecs : x = [caller[g] EXCEPT !.pc = "run"] BY DEF CallersInv, CallerRecs
  <2>3. x.pc = "run" BY <2>2 DEF CallersInv, CallerRecs
  <2>4. caller' = [caller EXCEPT ![g] = x] BY <2>1, <2>2 DEF CallersInv
  <2>5. caller' \in [Callers -> CallerRecs] /\ caller'[g] = x /\ \A h \in Callers : h # g => caller'[h] = caller[h]
        BY <2>4 DEF CallersInv
  <2>6. tenantOf' \in [Threads -> {CallTenant[h] : h \in Callers} \cup {None}] /\ tenantOf'[th] = CallTenant[g]
        /\ \A t \in Threads : t # th => tenantOf'[t] = tenantOf[t] BY <2>1 DEF CallersInv
  <2>7. PinSound(caller, pinned, tenantOf) BY DEF CallersInv
  <2>8. ASSUME NEW h \in Callers, caller'[h].pc \in {"tenant", "run"} PROVE \E t \in Threads : pinned[t] = h
        BY <1>2, <2>5, <2>7, <2>8 DEF PinSound
  <2>9. ASSUME NEW h \in Callers, NEW t \in Threads, caller'[h].pc = "run", pinned[t] = h PROVE tenantOf'[t] = CallTenant[h]
    <3>1. CASE t = th BY <3>1, <1>2, <2>6, <2>9
    <3>2. CASE t # th
      <4>1. h # g BY <1>2, <2>7, <2>9, <3>2, CallerAssumption DEF PinSound
      <4> QED BY <4>1, <3>2, <2>5, <2>6, <2>7, <2>9 DEF PinSound
    <3> QED BY <3>1, <3>2
  <2>10. PinSound(caller', pinned, tenantOf') BY <2>7, <2>8, <2>9 DEF PinSound
  <2> QED BY <1>1, <2>1, <2>5, <2>6, <2>10 DEF CallersInv, CallUsesOwnTenant
<1> QED BY <1>3, <1>4

LEMMA RunKeeps == ASSUME CallersInv, NEW g \in Callers, NEW th \in Threads, NEW ok \in BOOLEAN, RunLocal(g, th, ok)
                  PROVE  CallersInv'
<1>1. caller[g].pc = "run" /\ pinned' = Unlocked(g) /\ tenantOf' = tenantOf BY DEF RunLocal
<1>2. pinned[th] = g BY <1>1, OwnThread DEF RunLocal
<1>3. tenantOf[th] = CallTenant[g] BY <1>1, <1>2 DEF CallersInv, PinSound
<1>4. PICK r : r = [by |-> g, tenant |-> tenantOf[th], api |-> caller[g].api] OBVIOUS
<1>5. r.tenant = CallTenant[r.by] BY <1>3, <1>4
<1>6. ran' = ran \union {r} BY <1>4 DEF RunLocal
<1>7. CallUsesOwnTenant' BY <1>5, <1>6 DEF CallersInv, CallUsesOwnTenant
<1>8. PICK pc \in {"open", "done"} : caller' = [caller EXCEPT ![g].pc = pc] BY DEF RunLocal
<1> QED BY <1>1, <1>7, <1>8, UnlockKeeps

LEMMA StreamMovesKeep ==
    ASSUME CallersInv, NEW g \in Callers,
           (\E ok \in BOOLEAN : Opened(g, ok)) \/ StreamStops(g) \/ \E n \in 1 .. Len(Stream), f \in {"ok", "error", "closed"} : ReceiveBatch(g, n, f)
    PROVE  CallersInv'
<1>1. UNCHANGED <<pinned, tenantOf, ran>> BY DEF Opened, StreamStops, ReceiveBatch
<1>2. CASE caller' = caller BY <1>1, <1>2 DEF CallersInv, CallUsesOwnTenant
<1>3. CASE \E pc \in {"open", "receive", "done"} : caller' = [caller EXCEPT ![g].pc = pc]
  <2>1. PICK pc \in {"open", "receive", "done"} : caller' = [caller EXCEPT ![g].pc = pc] BY <1>3
  <2>2. PICK a \in Apis : caller' = [caller EXCEPT ![g] = [caller[g] EXCEPT !.pc = pc, !.api = a]] BY <2>1, SetPc
  <2> QED BY <1>1, <2>2, CallerMoves
<1>4. caller' = caller \/ \E pc \in {"open", "receive", "done"} : caller' = [caller EXCEPT ![g].pc = pc]
      BY DEF Opened, StreamStops, ReceiveBatch, CloseConsumer
<1> QED BY <1>2, <1>3, <1>4

------------------------------------------------------------------------------
\* DataSystemClient: the subscriber

Elements == {Stream[i] : i \in DOMAIN Stream}

\* The part of the stream up to position k was given to the subscriber, but for what was lost.
Given(fl, lost, k) ==
    /\ k \in 0 .. Len(Stream) /\ fl \in Seq(Elements) /\ lost \in Nat
    /\ lost = 0 => fl = SubSeq(Stream, 1, k)
    /\ Len(fl) + lost = k

StreamInv ==
    /\ consumer \in [received : Nat, acked : Nat, flushed : Seq(Elements), lost : Nat, closed : Nat]
    /\ consumer.closed = 0 =>
           /\ consumer.acked = consumer.received /\ \A i \in 1 .. consumer.acked : Stream[i] # "end"
           /\ Given(consumer.flushed, consumer.lost, consumer.acked)
    /\ StreamPrefix

LEMMA LeastIndex == ASSUME NEW T, T \subseteq Nat, T # {} PROVE \E m \in T : \A k \in T : m <= k
<1>1. PICK m \in T : \A k \in T : ~(<<k, m>> \in OpToRel(<, Nat)) BY NatLessThanWellFounded, WFMin, Zenon
<1>2. \A k \in T : ~(k < m) BY <1>1 DEF OpToRel
<1> QED BY <1>2

\* A piece of the stream, behind what was given before.
LEMMA PieceIs ==
    ASSUME NEW a \in Nat, NEW b \in Nat, a <= b, b <= Len(Stream)
    PROVE  /\ SubSeq(Stream, a + 1, b) \in Seq(Elements) /\ Len(SubSeq(Stream, a + 1, b)) = b - a
           /\ \A i \in 1 .. b - a : SubSeq(Stream, a + 1, b)[i] = Stream[a + i]
<1>1. Stream \in Seq(Elements) BY CallerAssumption DEF Elements
<1> QED BY <1>1

LEMMA PartIs ==
    ASSUME NEW s \in Seq(Elements), NEW k \in Nat, k <= Len(s)
    PROVE  SubSeq(s, 1, k) \in Seq(Elements) /\ Len(SubSeq(s, 1, k)) = k /\ \A i \in 1 .. k : SubSeq(s, 1, k)[i] = s[i]
OBVIOUS

LEMMA PiecesJoin ==
    ASSUME NEW a \in Nat, NEW b \in Nat, a <= b, b <= Len(Stream)
    PROVE  SubSeq(Stream, 1, a) \o SubSeq(Stream, a + 1, b) = SubSeq(Stream, 1, b)
<1>1. Stream \in Seq(Elements) /\ Len(Stream) \in Nat BY CallerAssumption DEF Elements
<1>11. a <= Len(Stream) BY <1>1
<1>2. PICK x \in Seq(Elements) : x = SubSeq(Stream, 1, a) BY ONLY <1>1, <1>11, a \in Nat, PartIs
<1>3. PICK y \in Seq(Elements) : y = SubSeq(Stream, a + 1, b) BY PieceIs
<1>4. PICK z \in Seq(Elements) : z = SubSeq(Stream, 1, b) BY ONLY <1>1, b \in Nat, b <= Len(Stream), PartIs
<1>5. Len(x) = a /\ \A i \in 1 .. a : x[i] = Stream[i] BY ONLY <1>1, <1>2, <1>11, a \in Nat, PartIs
<1>6. Len(y) = b - a /\ \A i \in 1 .. b - a : y[i] = Stream[a + i] BY <1>3, PieceIs
<1>7. Len(z) = b /\ \A i \in 1 .. b : z[i] = Stream[i] BY ONLY <1>1, <1>4, b \in Nat, b <= Len(Stream), PartIs
<1>12. x \in Seq(Elements) /\ y \in Seq(Elements) OBVIOUS
<1>13. /\ x \o y \in Seq(Elements) /\ Len(x \o y) = Len(x) + Len(y)
       /\ \A i \in 1 .. Len(x) + Len(y) : (x \o y)[i] = IF i <= Len(x) THEN x[i] ELSE y[i - Len(x)]
       BY ONLY <1>12, ConcatProperties
<1>8. x \o y \in Seq(Elements) /\ Len(x \o y) = b BY ONLY <1>5, <1>6, <1>13, a \in Nat, b \in Nat
<1>9. ASSUME NEW i \in 1 .. b PROVE (x \o y)[i] = z[i]
  <2>3. (x \o y)[i] = IF i <= a THEN x[i] ELSE y[i - a] BY ONLY <1>5, <1>6, <1>13, a \in Nat, b \in Nat, i \in 1 .. b
  <2>1. CASE i <= a BY ONLY <2>1, <2>3, <1>5, <1>7, a \in Nat, b \in Nat, i \in 1 .. b
  <2>2. CASE ~(i <= a)
    <3>1. i - a \in 1 .. b - a /\ a + (i - a) = i BY <2>2
    <3>2. (x \o y)[i] = y[i - a] BY <2>2, <2>3
    <3> QED BY <3>1, <3>2, <1>6, <1>7
  <2> QED BY <2>1, <2>2
<1>10. x \o y = z BY <1>7, <1>8, <1>9, SeqEqual
<1> QED BY <1>2, <1>3, <1>4, <1>10

\* The batch was flushed, or lost.
LEMMA FlushGives ==
    ASSUME NEW fl, NEW lost, NEW a \in Nat, NEW b \in Nat, a <= b, b <= Len(Stream), Given(fl, lost, a)
    PROVE  Given(fl \o SubSeq(Stream, a + 1, b), lost, b)
<1>1. PICK y \in Seq(Elements) : y = SubSeq(Stream, a + 1, b) BY PieceIs
<1>2. Len(y) = b - a BY <1>1, PieceIs
<1>3. fl \in Seq(Elements) /\ lost \in Nat /\ Len(fl) + lost = a BY DEF Given
<1>4. fl \o y \in Seq(Elements) /\ Len(fl \o y) = Len(fl) + (b - a) BY ONLY <1>2, <1>3, y \in Seq(Elements)
<1>5. Len(fl) \in Nat BY ONLY <1>3
<1>6. Len(fl \o y) + lost = b BY ONLY <1>3, <1>4, <1>5, a \in Nat, b \in Nat
<1>7. lost = 0 => fl \o y = SubSeq(Stream, 1, b) BY <1>1, PiecesJoin DEF Given
<1>8. b \in 0 .. Len(Stream) BY DEF Given
<1> QED BY <1>1, <1>3, <1>4, <1>6, <1>7, <1>8 DEF Given

LEMMA LossGives ==
    ASSUME NEW fl, NEW lost, NEW a \in Nat, NEW b \in Nat, a <= b, b <= Len(Stream), Given(fl, lost, a)
    PROVE  Given(fl, lost + (b - a), b)
<1>3. fl \in Seq(Elements) /\ lost \in Nat /\ Len(fl) + lost = a BY DEF Given
<1>5. Len(fl) \in Nat BY ONLY <1>3
<1>6. Len(fl) + (lost + (b - a)) = b /\ lost + (b - a) \in Nat /\ (lost + (b - a) = 0 => lost = 0 /\ b = a)
      BY ONLY <1>3, <1>5, a \in Nat, b \in Nat, a <= b
<1>7. lost + (b - a) = 0 => fl = SubSeq(Stream, 1, b) BY <1>6 DEF Given
<1>8. b \in 0 .. Len(Stream) BY DEF Given
<1> QED BY <1>3, <1>6, <1>7, <1>8 DEF Given

\* What is acknowledged of a batch and what of it goes on, by the first end element.
BatchSplit(p, a, n) ==
    \/ ~p.end /\ p.acked = n /\ p.data = SubSeq(Stream, a + 1, a + n) /\ \A i \in a + 1 .. a + n : Stream[i] # "end"
    \/ p.end /\ \E e \in 1 .. n : /\ p.acked = e /\ p.data = SubSeq(Stream, a + 1, a + (e - 1)) /\ Stream[a + e] = "end"
                                 /\ \A i \in a + 1 .. a + (e - 1) : Stream[i] # "end"

LEMMA BatchSplits ==
    ASSUME NEW a \in Nat, NEW n \in Nat, n > 0, a + n <= Len(Stream), NEW p, p = ProcessElements(SubSeq(Stream, a + 1, a + n))
    PROVE  BatchSplit(p, a, n)
<1>0. a + n \in Nat /\ a <= a + n OBVIOUS
<1>1. PICK b \in Seq(Elements) : b = SubSeq(Stream, a + 1, a + n) BY ONLY <1>0, a \in Nat, a + n <= Len(Stream), PieceIs
<1>2. Len(b) = n /\ \A i \in 1 .. n : b[i] = Stream[a + i]
  <2>1. a + n \in Nat /\ a <= a + n /\ (a + n) - a = n OBVIOUS
  <2> QED BY <1>1, <2>1, PieceIs
<1> DEFINE ends == {i \in DOMAIN b : b[i] = "end"}
<1>3. DOMAIN b = 1 .. n BY <1>2
<1>4. CASE ends = {}
  <2>1. p = [data |-> b, acked |-> Len(b), end |-> FALSE] BY <1>1, <1>4 DEF ProcessElements
  <2>2. ASSUME NEW i \in a + 1 .. a + n PROVE Stream[i] # "end"
    <3>1. i - a \in 1 .. n /\ a + (i - a) = i OBVIOUS
    <3> QED BY <3>1, <1>2, <1>3, <1>4
  <2> QED BY <1>1, <1>2, <2>1, <2>2 DEF BatchSplit
<1>5. CASE ends # {}
  <2>1. ends \subseteq Nat BY <1>3
  <2>2. \E i \in ends : \A j \in ends : i <= j BY <1>5, <2>1, LeastIndex
  <2>3. PICK e \in ends : e = CHOOSE i \in ends : \A j \in ends : i <= j BY <2>2
  <2>4. \A j \in ends : e <= j BY <2>2, <2>3
  <2>5. e \in 1 .. n /\ b[e] = "end" BY <1>3
  <2>6. p = [data |-> SubSeq(b, 1, e - 1), acked |-> e, end |-> TRUE] BY <1>1, <1>5, <2>3 DEF ProcessElements
  <2>7. Stream[a + e] = "end" BY <2>5, <1>2
  <2>8. ASSUME NEW i \in a + 1 .. a + (e - 1) PROVE Stream[i] # "end"
    <3>1. i - a \in 1 .. n /\ a + (i - a) = i /\ ~(e <= i - a) BY <2>5
    <3>2. i - a \notin ends BY <3>1, <2>4
    <3> QED BY <3>1, <3>2, <1>2, <1>3
  <2>9. SubSeq(b, 1, e - 1) = SubSeq(Stream, a + 1, a + (e - 1))
    <3>1. a + (e - 1) \in Nat /\ a <= a + (e - 1) /\ a + (e - 1) <= Len(Stream) /\ (a + (e - 1)) - a = e - 1 BY <2>5
    <3>7. e - 1 \in Nat /\ e - 1 <= Len(b) BY <2>5, <1>2
    <3>2. PICK x \in Seq(Elements) : x = SubSeq(b, 1, e - 1) BY ONLY <3>7, b \in Seq(Elements), PartIs
    <3>3. PICK y \in Seq(Elements) : y = SubSeq(Stream, a + 1, a + (e - 1)) BY <3>1, PieceIs
    <3>4. Len(x) = e - 1 /\ \A i \in 1 .. e - 1 : x[i] = Stream[a + i]
      <4>1. Len(x) = e - 1 /\ \A i \in 1 .. e - 1 : x[i] = b[i] BY ONLY <3>2, <3>7, b \in Seq(Elements), PartIs
      <4>2. \A i \in 1 .. e - 1 : i \in 1 .. n BY <2>5
      <4> QED BY <4>1, <4>2, <1>2
    <3>5. Len(y) = e - 1 /\ \A i \in 1 .. e - 1 : y[i] = Stream[a + i] BY <3>1, <3>3, PieceIs
    <3>6. x = y BY <3>4, <3>5, SeqEqual
    <3> QED BY <3>2, <3>3, <3>6
  <2> QED BY <2>5, <2>6, <2>7, <2>8, <2>9 DEF BatchSplit
<1> QED BY <1>4, <1>5

LEMMA BatchKeeps == ASSUME StreamInv, NEW g \in Callers, NEW n \in 1 .. Len(Stream), NEW f \in {"ok", "error", "closed"},
                           ReceiveBatch(g, n, f)
                    PROVE  StreamInv'
<1>1. PICK a \in Nat : a = consumer.received BY DEF StreamInv
<1>2. PICK lost \in Nat : lost = consumer.lost BY DEF StreamInv
<1>3. PICK fl \in Seq(Elements) : fl = consumer.flushed BY DEF StreamInv
<1>4. consumer.closed = 0 /\ n \in 1 .. Len(Stream) - a BY <1>1 DEF ReceiveBatch
<1>5. Len(Stream) \in Nat BY CallerAssumption
<1>6. n \in Nat /\ n > 0 /\ a + n <= Len(Stream) /\ a + n \in Nat /\ a <= a + n BY <1>4, <1>5
<1>7. consumer.acked = a /\ (\A i \in 1 .. a : Stream[i] # "end") /\ Given(fl, lost, a)
      BY <1>1, <1>2, <1>3, <1>4 DEF StreamInv
<1>8. PICK p : p = ProcessElements(SubSeq(Stream, a + 1, a + n)) OBVIOUS
<1>9. consumer \in [received : Nat, acked : Nat, flushed : Seq(Elements), lost : Nat, closed : Nat] BY DEF StreamInv
<1>10. PICK l2 : l2 = IF f = "ok" THEN lost ELSE lost + Len(p.data) OBVIOUS
<1>11. PICK f2 : f2 = IF f = "ok" THEN fl \o p.data ELSE fl OBVIOUS
<1>12. PICK c2 \in {0, 1} : c2 = IF f = "closed" \/ p.end THEN 1 ELSE 0 OBVIOUS
<1>13. PICK a2 : a2 = a + p.acked OBVIOUS
<1>14. consumer' = [received |-> a + n, acked |-> a2, flushed |-> f2, lost |-> l2, closed |-> c2]
  <2>1. PICK x : x = [consumer EXCEPT !.received = consumer.received + n, !.acked = @ + p.acked,
                                 !.flushed = IF f = "ok" THEN @ \o p.data ELSE @,
                                 !.lost = IF f = "ok" THEN @ ELSE @ + Len(p.data)] OBVIOUS
  <2>2. x = [received |-> a + n, acked |-> a2, flushed |-> f2, lost |-> l2, closed |-> 0]
        BY <2>1, <1>1, <1>2, <1>3, <1>4, <1>7, <1>9, <1>10, <1>11, <1>13
  <2>3. CASE f = "closed" \/ p.end
    <3>1. consumer' = [x EXCEPT !.closed = @ + 1] BY <2>1, <2>3, <1>1, <1>8 DEF ReceiveBatch
    <3> QED BY <3>1, <2>2, <2>3, <1>12
  <2>4. CASE ~(f = "closed" \/ p.end)
    <3>1. consumer' = x BY <2>1, <2>4, <1>1, <1>8 DEF ReceiveBatch
    <3> QED BY <3>1, <2>2, <2>4, <1>12
  <2> QED BY <2>3, <2>4
<1>15. consumer'.received = a + n /\ consumer'.acked = a2 /\ consumer'.flushed = f2 /\ consumer'.lost = l2 /\ consumer'.closed = c2
       BY ONLY <1>14
<1>16. ASSUME NEW k \in Nat, a <= k, k <= Len(Stream), p.data = SubSeq(Stream, a + 1, k) PROVE Given(f2, l2, k)
  <2>1. CASE f = "ok"
    <3>1. Given(fl \o SubSeq(Stream, a + 1, k), lost, k) BY ONLY <1>7, <1>16, a \in Nat, k \in Nat, FlushGives
    <3> QED BY <3>1, <2>1, <1>10, <1>11, <1>16
  <2>2. CASE f # "ok"
    <3>1. Given(fl, lost + (k - a), k) BY ONLY <1>7, <1>16, a \in Nat, k \in Nat, LossGives
    <3>2. Len(p.data) = k - a BY ONLY <1>16, a \in Nat, k \in Nat, PieceIs
    <3> QED BY <3>1, <3>2, <2>2, <1>10, <1>11
  <2> QED BY <2>1, <2>2
<1>17. CASE ~p.end /\ p.acked = n /\ p.data = SubSeq(Stream, a + 1, a + n) /\ \A i \in a + 1 .. a + n : Stream[i] # "end"
  <2>1. Given(f2, l2, a + n) BY ONLY <1>6, <1>16, <1>17
  <2>2. \A i \in 1 .. a + n : Stream[i] # "end" BY <1>7, <1>17
  <2>3. a2 = a + n /\ a2 \in Nat /\ f2 \in Seq(Elements) /\ l2 \in Nat BY <2>1, <1>6, <1>13, <1>17 DEF Given
  <2>4. StreamPrefix'
    <3>1. consumer'.acked > 0 => Stream[consumer'.acked] # "end" BY <1>15, <2>2, <2>3
    <3> QED BY <3>1, <1>15, <2>1, <2>2, <2>3 DEF StreamPrefix, Given
  <2>5. consumer' \in [received : Nat, acked : Nat, flushed : Seq(Elements), lost : Nat, closed : Nat]
        BY <1>6, <1>14, <2>3
  <2> QED BY <1>15, <2>1, <2>2, <2>3, <2>4, <2>5 DEF StreamInv
<1>18. ASSUME p.end, NEW e \in 1 .. n, p.acked = e, p.data = SubSeq(Stream, a + 1, a + (e - 1)), Stream[a + e] = "end",
              \A i \in a + 1 .. a + (e - 1) : Stream[i] # "end"
       PROVE  StreamInv'
  <2>0. a + (e - 1) \in Nat /\ a <= a + (e - 1) /\ a + (e - 1) <= Len(Stream) BY <1>5, <1>6
  <2>1. Given(f2, l2, a + (e - 1)) BY ONLY <2>0, <1>16, <1>18
  <2>2. \A i \in 1 .. a + (e - 1) : Stream[i] # "end" BY <1>7, <1>18
  <2>3. a2 = a + e /\ a2 \in Nat /\ a2 > 0 /\ a2 - 1 = a + (e - 1) BY <1>6, <1>13, <1>18
  <2>6. f2 \in Seq(Elements) /\ l2 \in Nat BY <2>1 DEF Given
  <2>4. StreamPrefix'
    <3>1. consumer'.acked > 0 /\ Stream[consumer'.acked] = "end" BY <1>15, <1>18, <2>3
    <3> QED BY <3>1, <1>15, <2>1, <2>2, <2>3 DEF StreamPrefix, Given
  <2>5. consumer' \in [received : Nat, acked : Nat, flushed : Seq(Elements), lost : Nat, closed : Nat]
        BY <1>6, <1>14, <2>3, <2>6
  <2>7. c2 = 1 BY <1>12, <1>18
  <2> QED BY <1>15, <2>4, <2>5, <2>7 DEF StreamInv
<1>19. BatchSplit(p, a, n) BY ONLY <1>6, <1>8, a \in Nat, BatchSplits
<1> QED BY ONLY <1>17, <1>18, <1>19 DEF BatchSplit

LEMMA StreamInit == AccessInit => StreamInv
<1> SUFFICES ASSUME AccessInit PROVE StreamInv OBVIOUS
<1>1. <<>> \in Seq(Elements) OBVIOUS
<1>2. PICK z \in Seq(Elements) : z = <<>> BY ONLY <1>1
<1>3. consumer = [received |-> 0, acked |-> 0, flushed |-> z, lost |-> 0, closed |-> 0] BY <1>2 DEF AccessInit
<1>4. consumer \in [received : Nat, acked : Nat, flushed : Seq(Elements), lost : Nat, closed : Nat] BY ONLY <1>3, z \in Seq(Elements)
<1>5. consumer.received = 0 /\ consumer.acked = 0 /\ consumer.flushed = <<>> /\ consumer.lost = 0 BY <1>2, <1>3
<1>6. SubSeq(Stream, 1, 0) = <<>> /\ Len(<<>>) = 0 /\ Len(Stream) \in Nat BY CallerAssumption, SubSeqEmpty
<1>7. Given(consumer.flushed, consumer.lost, consumer.acked) BY <1>1, <1>5, <1>6 DEF Given
<1>8. StreamPrefix BY <1>5, <1>6 DEF StreamPrefix
<1> QED BY <1>4, <1>5, <1>7, <1>8 DEF StreamInv

LEMMA CloseKeeps == ASSUME StreamInv, NEW g, NEW pc, CloseConsumer(g, pc) PROVE StreamInv'
<1>1. PICK c \in Nat : c = consumer.closed + 1 BY DEF StreamInv
<1>2. consumer' = [consumer EXCEPT !.closed = c] /\ c # 0 BY <1>1 DEF CloseConsumer, StreamInv
<1>3. consumer' \in [received : Nat, acked : Nat, flushed : Seq(Elements), lost : Nat, closed : Nat] BY <1>2 DEF StreamInv
<1>4. consumer'.closed = c /\ consumer'.acked = consumer.acked /\ consumer'.flushed = consumer.flushed /\ consumer'.lost = consumer.lost
      BY <1>2 DEF StreamInv
<1>5. StreamPrefix' BY <1>4 DEF StreamInv, StreamPrefix
<1> QED BY <1>2, <1>3, <1>4, <1>5 DEF StreamInv

LEMMA AccessKeeps == ASSUME CallersInv, StreamInv, [AccessNext]_accessVars PROVE CallersInv' /\ StreamInv'
<1>1. ASSUME UNCHANGED consumer PROVE StreamInv' BY <1>1 DEF StreamInv, StreamPrefix
<1>2. CASE UNCHANGED accessVars BY <1>1, <1>2 DEF accessVars, CallersInv, CallUsesOwnTenant
<1>3. ASSUME NEW g \in Callers, NEW name \in CallOps, NEW m \in Messages, Receive(g, name, m) PROVE CallersInv' /\ StreamInv'
      BY <1>1, <1>3, ReceiveKeeps DEF Receive
<1>4. ASSUME NEW g \in Callers, NEW th \in Threads, Lock(g, th) PROVE CallersInv' /\ StreamInv'
      BY <1>1, <1>4, LockKeeps DEF Lock
<1>5. ASSUME NEW g \in Callers, NEW th \in Threads, NEW ok \in BOOLEAN, SetTenantID(g, th, ok) PROVE CallersInv' /\ StreamInv'
      BY <1>1, <1>5, TenantKeeps DEF SetTenantID
<1>6. ASSUME NEW g \in Callers, NEW th \in Threads, NEW ok \in BOOLEAN, RunLocal(g, th, ok) PROVE CallersInv' /\ StreamInv'
      BY <1>1, <1>6, RunKeeps DEF RunLocal
<1>7. ASSUME NEW g \in Callers, NEW ok \in BOOLEAN, Opened(g, ok) PROVE CallersInv' /\ StreamInv'
  <2>1. CASE ok BY <1>1, <1>7, <2>1, StreamMovesKeep DEF Opened
  <2>2. CASE ~ok BY <1>7, <2>2, StreamMovesKeep, CloseKeeps DEF Opened
  <2> QED BY <2>1, <2>2
<1>8. ASSUME NEW g \in Callers, StreamStops(g) PROVE CallersInv' /\ StreamInv'
      BY <1>8, StreamMovesKeep, CloseKeeps DEF StreamStops
<1>9. ASSUME NEW g \in Callers, NEW n \in 1 .. Len(Stream), NEW f \in {"ok", "error", "closed"}, ReceiveBatch(g, n, f)
      PROVE CallersInv' /\ StreamInv'
      BY <1>9, StreamMovesKeep, BatchKeeps
<1> QED BY <1>2, <1>3, <1>4, <1>5, <1>6, <1>7, <1>8, <1>9, Zenon DEF AccessNext

\* However operations, retries, node events, threads and failed flushes interleave: no client of the
\* data system is leaked or handed out destroyed, no retry goes back to a node that failed, every
\* call runs under the tenant of its own request, and a subscriber was given exactly what was
\* acknowledged for it (datasystemclient, stream/subscriber.go).
THEOREM DataSystemCallsSoundCorrect == DsSpec /\ AccessSpec => []DataSystemCallsSound
<1>1. DsInit => OpsInv /\ ClientsInv BY DsStart
<1>2. OpsInv /\ ClientsInv /\ [DsNext]_dsVars => OpsInv' /\ ClientsInv' BY DsStepKeeps
<1>3. AccessInit => CallersInv /\ StreamInv BY CallersInit, StreamInit
<1>4. CallersInv /\ StreamInv /\ [AccessNext]_accessVars => CallersInv' /\ StreamInv' BY AccessKeeps
<1>5. OpsInv /\ ClientsInv /\ CallersInv /\ StreamInv => DataSystemCallsSound
      BY OpsGood, ClientsGood DEF DataSystemCallsSound, CallersInv, StreamInv
<1> QED BY <1>1, <1>2, <1>3, <1>4, <1>5, PTL DEF DsSpec, AccessSpec
==============================================================================
