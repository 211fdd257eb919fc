-------------------------- MODULE RemoteClientLease --------------------------
(***************************************************************************)
(* The leases of remote clients: the frontend follows the faas-manager      *)
(* instances in etcd, keeps one of them to send lease requests to and the   *)
(* others in reserve, and writes a request it cannot deliver into etcd for  *)
(* a manager to find (remoteclientlease, api/lease, the watcher).           *)
(***************************************************************************)
EXTENDS GoValues, Integers

CONSTANTS
    Managers,          \* faas-manager instances
    LeaseCalls,        \* new, keep-alive and delete requests of remote clients
    MaxManagerEvents   \* bound: instance events

ASSUME ManagersAssumption == None \notin Managers \cup {"absent", "starting", "running"}

VARIABLES
    instances,      \* [Managers -> "absent", "starting" or "running"] in etcd
    info,           \* the manager in use, or None
    inUsedInfo,     \* [Managers -> the status kept in reserve, or None]
    leaseCall,      \* [LeaseCalls -> where the request is]
    written,        \* the requests put into etcd
    delivered,      \* [LeaseCalls -> the manager that served the request, or None]
    managerEvents

leaseVars == <<instances, info, inUsedInfo, leaseCall, written, delivered, managerEvents>>

ManagerEvent(m, status) ==
    /\ managerEvents < MaxManagerEvents
    /\ managerEvents' = managerEvents + 1
    /\ instances' = [instances EXCEPT ![m] = status]
    /\ UNCHANGED <<leaseCall, written, delivered>>

\* UpdateFaasManager: the first running manager is used, every other event goes to
\* the reserve, those of the manager in use as well.
UpdateFaasManager(m, status) ==
    /\ ManagerEvent(m, status)
    /\ IF info = None /\ status = "running" THEN info' = m /\ inUsedInfo' = inUsedInfo
       ELSE info' = info /\ inUsedInfo' = [inUsedInfo EXCEPT ![m] = status]

InReserve(m) == {k \in Managers \ {m} : inUsedInfo[k] = "running"}

\* Faulty variant: the reserve is not looked at.
OnlyForget(m) ==
    /\ info' = IF info = m THEN None ELSE info
    /\ inUsedInfo' = [inUsedInfo EXCEPT ![m] = None]

\* The walk over the reserve, in any order: it removes the deleted manager when it
\* meets it, and ends at a running one if a manager is needed.
Replace(m) ==
    \/ /\ info \notin {None, m} \/ InReserve(m) = {}
       /\ info' = IF info = m THEN None ELSE info
       /\ inUsedInfo' = [inUsedInfo EXCEPT ![m] = None]
    \/ /\ info \in {None, m}
       /\ \E k \in InReserve(m), met \in BOOLEAN :
              /\ info' = k
              /\ inUsedInfo' = [inUsedInfo EXCEPT ![k] = None, ![m] = IF met THEN None ELSE @]

DeleteFaasManager(m) ==
    /\ instances[m] # "absent"
    /\ ManagerEvent(m, "absent")
    /\ Replace(m)

------------------------------------------------------------------------------
\* A lease request

Ends(c, pc) == leaseCall' = [leaseCall EXCEPT ![c] = [pc |-> pc, target |-> None]]

\* The handlers refuse a request without a client ID; leaseBypass answers at once.
AnswerEarly(c, pc) ==
    /\ leaseCall[c].pc = "new"
    /\ Ends(c, pc)
    /\ UNCHANGED <<instances, info, inUsedInfo, written, delivered, managerEvents>>

\* The manager in use is read under the lock and called after it.
PickManager(c) ==
    /\ leaseCall[c].pc = "new" /\ info # None
    /\ leaseCall' = [leaseCall EXCEPT ![c] = [pc |-> "invoke", target |-> info]]
    /\ UNCHANGED <<instances, info, inUsedInfo, written, delivered, managerEvents>>

\* setEventToEtcd
WriteEvent(c, ok) ==
    /\ written' = IF ok THEN written \union {c} ELSE written
    /\ Ends(c, IF ok THEN "ok" ELSE "error")

NoManager(c, ok) ==
    /\ leaseCall[c].pc = "new" /\ info = None
    /\ WriteEvent(c, ok)
    /\ UNCHANGED <<instances, info, inUsedInfo, delivered, managerEvents>>

\* The manager answers: it served the request, or says why not.
ManagerAnswers(c, ok) ==
    /\ leaseCall[c].pc = "invoke" /\ instances[leaseCall[c].target] = "running"
    /\ delivered' = [delivered EXCEPT ![c] = IF ok THEN leaseCall[c].target ELSE None]
    /\ Ends(c, IF ok THEN "ok" ELSE "error")
    /\ UNCHANGED <<instances, info, inUsedInfo, written, managerEvents>>

\* The request cannot be delivered: it is written to etcd.
ManagerLost(c, ok) ==
    /\ leaseCall[c].pc = "invoke"
    /\ WriteEvent(c, ok)
    /\ UNCHANGED <<instances, info, inUsedInfo, delivered, managerEvents>>

------------------------------------------------------------------------------
LeaseInit ==
    /\ instances = [m \in Managers |-> "absent"]
    /\ info = None /\ inUsedInfo = [m \in Managers |-> None]
    /\ leaseCall = [c \in LeaseCalls |-> [pc |-> "new", target |-> None]]
    /\ written = {} /\ delivered = [c \in LeaseCalls |-> None]
    /\ managerEvents = 0

LeaseNext ==
    \/ \E m \in Managers : DeleteFaasManager(m) \/ \E s \in {"starting", "running"} : UpdateFaasManager(m, s)
    \/ \E c \in LeaseCalls :
           \/ \E pc \in {"refused", "bypassed"} : AnswerEarly(c, pc)
           \/ PickManager(c)
           \/ \E ok \in BOOLEAN : NoManager(c, ok) \/ ManagerAnswers(c, ok) \/ ManagerLost(c, ok)

LeaseSpec == LeaseInit /\ [][LeaseNext]_leaseVars

------------------------------------------------------------------------------
\* Properties

\* As long as a manager runs, the frontend has one to call: no order of starts, status
\* changes and deletions, and no order of the walk over the reserve, leaves it without
\* (remoteclientlease/leaseproxy.go DeleteFaasManager).
RunningManagerUsed == (\E m \in Managers : instances[m] = "running") => info # None

\* The manager in use exists. The walk may end before it meets the entry the deleted
\* manager has in the reserve, which is used when the next one is deleted.
ManagerInUseExists == info # None => instances[info] # "absent"
=============================================================================
