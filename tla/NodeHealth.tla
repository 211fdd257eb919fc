----------------------------- MODULE NodeHealth -----------------------------
(***************************************************************************)
(* BusProxies (functiontask): the bus proxies known from etcd, the monitor   *)
(* of each, whose heartbeats run concurrently and report late, the balancer   *)
(* the healthy ones are in, and the cluster health check that asks them.      *)
(***************************************************************************)
EXTENDS GoValues, Integers, Sequences

CONSTANTS
    ProxyNodes,       \* etcd keys of bus proxies (nodeID)
    ProxyIPs,         \* nodeIP values
    Beats,            \* heartbeats in flight at most
    BeatThreshold,    \* HeartbeatTimeoutThreshold
    MaxMonitors       \* bound: monitors a node starts

VARIABLES
    busProxies,       \* list: [ProxyNodes -> [ip, conf] or None]
    nodeIPToNodeID,   \* [ProxyIPs -> nodeID or None]
    balanced,         \* IPs in loadBalance
    monitors,         \* [ProxyNodes -> Seq([open, count, healthy, ip])], the last is current
    beats,            \* [Beats -> [node, mon, pc] or None]
    heartbeatConf,    \* url and HeartbeatConfig in force, as a version
    healthCheck,      \* the call of CheckClusterHealth: [pc, left, err, asked], or None
    checkAnswer,      \* its last answer: [code, asked], or None
    succeeded         \* <<node, monitor>> of heartbeats answered 200 (history)

healthVars == <<busProxies, nodeIPToNodeID, balanced, monitors, beats, heartbeatConf, healthCheck,
                checkAnswer, succeeded>>

\* DoRange keeps the read lock while the check calls the proxies: writers wait.
RangeHolds == healthCheck # None /\ healthCheck.pc = "range"

\* newBusProxy and updateConfig start a monitor with a status of its own, unhealthy.
NewMonitor(ip) == [open |-> TRUE, count |-> 0, healthy |-> FALSE, ip |-> ip]

CurrentMonitor(n) == Len(monitors[n])
StopMonitor(ms) == [ms EXCEPT ![Len(ms)].open = FALSE]

\* Add ignores a node that is listed; two nodes of one IP share an entry of nodeIPToNodeID.
AddProxy(n, ip) ==
    /\ ~RangeHolds /\ busProxies[n] = None /\ CurrentMonitor(n) < MaxMonitors
    /\ busProxies' = [busProxies EXCEPT ![n] = [ip |-> ip, conf |-> heartbeatConf]]
    /\ nodeIPToNodeID' = [nodeIPToNodeID EXCEPT ![ip] = n]
    /\ monitors' = [monitors EXCEPT ![n] = Append(@, NewMonitor(ip))]
    /\ UNCHANGED <<balanced, beats, heartbeatConf, healthCheck, checkAnswer, succeeded>>

\* Delete stops the monitor, which takes the IP out of the balancer.
DeleteProxy(n) ==
    /\ ~RangeHolds /\ busProxies[n] # None
    /\ monitors' = [monitors EXCEPT ![n] = StopMonitor(@)]
    /\ balanced' = balanced \ {busProxies[n].ip}
    /\ nodeIPToNodeID' = [nodeIPToNodeID EXCEPT ![busProxies[n].ip] = None]
    /\ busProxies' = [busProxies EXCEPT ![n] = None]
    /\ UNCHANGED <<beats, heartbeatConf, healthCheck, checkAnswer, succeeded>>

\* The configuration file changes.
ChangeHeartbeatConf ==
    /\ heartbeatConf < MaxMonitors /\ heartbeatConf' = heartbeatConf + 1
    /\ UNCHANGED <<busProxies, nodeIPToNodeID, balanced, monitors, beats, healthCheck, checkAnswer, succeeded>>

\* Faulty variant: the new monitor goes on with the status of the old one.
RestartKeepingStatus(ms, ip) ==
    Append(StopMonitor(ms), [NewMonitor(ip) EXCEPT !.healthy = ms[Len(ms)].healthy])

\* updateConfig of a proxy whose url or configuration changed: the old monitor stops and a new
\* one starts.
RestartMonitor(ms, ip) == Append(StopMonitor(ms), NewMonitor(ip))

\* UpdateConfig of all proxies.
Outdated == {n \in ProxyNodes : busProxies[n] # None /\ busProxies[n].conf # heartbeatConf}
UpdateProxiesConfig ==
    /\ ~RangeHolds /\ Outdated # {} /\ \A n \in Outdated : CurrentMonitor(n) < MaxMonitors
    /\ monitors' = [n \in ProxyNodes |-> IF n \in Outdated THEN RestartMonitor(monitors[n], busProxies[n].ip) ELSE monitors[n]]
    /\ balanced' = balanced \ {busProxies[n].ip : n \in Outdated}
    /\ busProxies' = [n \in ProxyNodes |-> IF n \in Outdated THEN [busProxies[n] EXCEPT !.conf = heartbeatConf] ELSE busProxies[n]]
    /\ UNCHANGED <<nodeIPToNodeID, beats, heartbeatConf, healthCheck, checkAnswer, succeeded>>

------------------------------------------------------------------------------
\* Heartbeats

\* startMonitor: a tick of an open monitor starts a heartbeat, whatever became of the last one.
BeatTick(b, n, k) ==
    /\ beats[b] = None /\ monitors[n][k].open
    /\ beats' = [beats EXCEPT ![b] = [node |-> n, mon |-> k, pc |-> "sent"]]
    /\ UNCHANGED <<busProxies, nodeIPToNodeID, balanced, monitors, heartbeatConf, healthCheck, checkAnswer, succeeded>>

\* doHeartBeat: the call failed. The count goes up; at the threshold a healthy status is about
\* to be changed.
BeatFails(b) ==
    /\ beats[b] # None /\ beats[b].pc = "sent"
    /\ LET n == beats[b].node
           k == beats[b].mon
           count == monitors[n][k].count + 1
       IN  /\ monitors' = [monitors EXCEPT ![n][k].count = IF @ < BeatThreshold THEN @ + 1 ELSE @]
           /\ beats' = [beats EXCEPT ![b] = IF count >= BeatThreshold /\ monitors[n][k].healthy
                                            THEN [@ EXCEPT !.pc = "setUnhealthy"] ELSE None]
    /\ UNCHANGED <<busProxies, nodeIPToNodeID, balanced, heartbeatConf, healthCheck, checkAnswer, succeeded>>

\* doHeartBeat: the call was answered 200. The count is reset.
BeatSucceeds(b) ==
    /\ beats[b] # None /\ beats[b].pc = "sent"
    /\ LET n == beats[b].node
           k == beats[b].mon
       IN  /\ monitors' = [monitors EXCEPT ![n][k].count = 0]
           /\ succeeded' = succeeded \cup {<<n, k>>}
           /\ beats' = [beats EXCEPT ![b] = IF monitors[n][k].healthy THEN None ELSE [@ EXCEPT !.pc = "setHealthy"]]
    /\ UNCHANGED <<busProxies, nodeIPToNodeID, balanced, heartbeatConf, healthCheck, checkAnswer>>

\* The status is stored, and then the callback is called.
StoreStatus(b) ==
    /\ beats[b] # None /\ beats[b].pc \in {"setHealthy", "setUnhealthy"}
    /\ LET up == beats[b].pc = "setHealthy"
       IN  /\ monitors' = [monitors EXCEPT ![beats[b].node][beats[b].mon].healthy = up]
           /\ beats' = [beats EXCEPT ![b].pc = IF up THEN "callHealthy" ELSE "callUnhealthy"]
    /\ UNCHANGED <<busProxies, nodeIPToNodeID, balanced, heartbeatConf, healthCheck, checkAnswer, succeeded>>

\* lbAdd or lbDel of the monitor's IP.
StatusCallback(b) ==
    /\ beats[b] # None /\ beats[b].pc \in {"callHealthy", "callUnhealthy"}
    /\ LET ip == monitors[beats[b].node][beats[b].mon].ip
       IN  balanced' = IF beats[b].pc = "callHealthy" THEN balanced \cup {ip} ELSE balanced \ {ip}
    /\ beats' = [beats EXCEPT ![b] = None]
    /\ UNCHANGED <<busProxies, nodeIPToNodeID, monitors, heartbeatConf, healthCheck, checkAnswer, succeeded>>

\* IsBusProxyHealthy: by IP to the node, and to the status of its current monitor.
IsBusProxyHealthy(ip) ==
    LET n == nodeIPToNodeID[ip]
    IN  n # None /\ busProxies[n] # None /\ monitors[n][CurrentMonitor(n)].healthy

------------------------------------------------------------------------------
\* The cluster health check

\* CheckClusterHealth: without contact to etcd the answer is 500, without authentication 401,
\* without proxies 500; otherwise they are asked one by one.
CheckHealth(contact, authorized) ==
    /\ healthCheck = None
    /\ IF ~authorized \/ ~contact \/ \A n \in ProxyNodes : busProxies[n] = None
       THEN /\ checkAnswer' = [code |-> IF authorized THEN 500 ELSE 401, asked |-> FALSE]
            /\ UNCHANGED healthCheck
       ELSE /\ healthCheck' = [pc |-> "counted", left |-> {}, err |-> FALSE, asked |-> FALSE]
            /\ UNCHANGED checkAnswer
    /\ UNCHANGED <<busProxies, nodeIPToNodeID, balanced, monitors, beats, heartbeatConf, succeeded>>

\* DoRange begins after GetNum has let the lock go.
RangeBegins ==
    /\ healthCheck # None /\ healthCheck.pc = "counted"
    /\ healthCheck' = [healthCheck EXCEPT !.pc = "range", !.left = {n \in ProxyNodes : busProxies[n] # None}]
    /\ UNCHANGED <<busProxies, nodeIPToNodeID, balanced, monitors, beats, heartbeatConf, checkAnswer, succeeded>>

CheckEnds(err, asked) ==
    /\ checkAnswer' = [code |-> IF err THEN 500 ELSE 200, asked |-> asked] /\ healthCheck' = None

\* The function of sendClusterHealthCheckToTask: 200 and 500 end the range, a failed call or
\* another code goes on to the next proxy and is remembered as the error.
AskProxy(n, reply) ==
    /\ RangeHolds /\ n \in healthCheck.left
    /\ IF reply \in {"200", "500"} THEN CheckEnds(reply = "500", TRUE)
       ELSE /\ healthCheck' = [healthCheck EXCEPT !.left = @ \ {n}, !.err = TRUE]
            /\ UNCHANGED checkAnswer
    /\ UNCHANGED <<busProxies, nodeIPToNodeID, balanced, monitors, beats, heartbeatConf, succeeded>>

RangeEnds ==
    /\ RangeHolds /\ healthCheck.left = {} /\ CheckEnds(healthCheck.err, FALSE)
    /\ UNCHANGED <<busProxies, nodeIPToNodeID, balanced, monitors, beats, heartbeatConf, succeeded>>

------------------------------------------------------------------------------
HealthInit ==
    /\ busProxies = [n \in ProxyNodes |-> None] /\ nodeIPToNodeID = [ip \in ProxyIPs |-> None]
    /\ balanced = {} /\ monitors = [n \in ProxyNodes |-> <<>>] /\ beats = [b \in Beats |-> None]
    /\ heartbeatConf = 1 /\ healthCheck = None /\ checkAnswer = None /\ succeeded = {}

HealthNext ==
    \/ \E n \in ProxyNodes : DeleteProxy(n) \/ \E ip \in ProxyIPs : AddProxy(n, ip)
    \/ ChangeHeartbeatConf \/ UpdateProxiesConfig
    \/ \E b \in Beats : \/ BeatFails(b) \/ BeatSucceeds(b) \/ StoreStatus(b) \/ StatusCallback(b)
                        \/ \E n \in ProxyNodes : \E k \in DOMAIN monitors[n] : BeatTick(b, n, k)
    \/ \E contact, authorized \in BOOLEAN : CheckHealth(contact, authorized)
    \/ RangeBegins \/ RangeEnds
    \/ \E n \in ProxyNodes, reply \in {"200", "500", "other"} : AskProxy(n, reply)

HealthSpec == HealthInit /\ [][HealthNext]_healthVars

------------------------------------------------------------------------------
\* Properties

\* A proxy is reported healthy only if a heartbeat of the monitor that runs for it now, under
\* the configuration it was started with, was answered 200: a late heartbeat of a monitor that
\* was stopped by Delete or updateConfig cannot vouch for its successor.
HealthIsOwn ==
    \A ip \in ProxyIPs : IsBusProxyHealthy(ip) =>
        LET n == nodeIPToNodeID[ip] IN <<n, CurrentMonitor(n)>> \in succeeded

\* With no heartbeat in flight the balancer holds only IPs of proxies that are listed.
BalancedAreListed ==
    (\A b \in Beats : beats[b] = None) => \A ip \in balanced : \E n \in ProxyNodes : busProxies[n] # None /\ busProxies[n].ip = ip

\* A listed proxy is found by its IP.
ListedAreFound == \A n \in ProxyNodes : busProxies[n] # None => nodeIPToNodeID[busProxies[n].ip] # None

\* The cluster is reported healthy only when a proxy said so.
HealthyWasAsked == checkAnswer # None /\ checkAnswer.code = 200 => checkAnswer.asked
=============================================================================
