--------------------------- MODULE SchedulerProxy ---------------------------
(***************************************************************************)
(* The schedulers the frontend knows of, and how an acquire picks one.     *)
(*                                                                         *)
(* EventManagerInfo (schedulerproxy/schedulereventhandler.go) receives the *)
(* etcd events of the scheduler keys of one ring, one at a time: an        *)
(* instance key holds the scheduler's instance ID, and a lease key per     *)
(* lease shows it is alive.  It keeps both and adds the scheduler to       *)
(* ProxyManager (proxy.go) or removes it.  ProxyManager has a map and a    *)
(* hash ring, changed by two separate operations, which the acquires of    *)
(* lease pools (acquireHandler, leaseadaptor/lease_manager.go) read        *)
(* concurrently: they look a name up in the ring, then the node in the     *)
(* map, call it, and on failure choose again among the rest.               *)
(*                                                                         *)
(* The hash is abstracted to any member of the ring.  The table of tenant- *)
(* exclusive schedulers is written and never read, and is left out; what   *)
(* stays of exclusivity is that such a scheduler is not put on the ring.   *)
(***************************************************************************)
EXTENDS Naturals, FiniteSets, FiniteSetsExt

CONSTANTS
    Schedulers,    \* instance names
    LeaseIds,      \* lease keys of a scheduler
    Acquires,      \* concurrent calls of acquireHandler
    MaxRetries,    \* attempts util.Retry makes (10)
    MaxID,         \* bound: instance IDs handed out to restarted schedulers
    MaxTime        \* bound: lease renewals

ASSUME RetryAssumption == MaxRetries \in Nat \ {0}
ASSUME BoundAssumption == MaxID \in Nat /\ MaxTime \in Nat

VARIABLES
    keyType,        \* configured SchedulerKeyPrefixType
    leaseIds,       \* time each lease key was last put; 0 when absent
    schedulerInfos, \* the instance key of each scheduler, or NoInfo
    faasSchedulers, \* ProxyManager's map: SchedulerNodeInfo or NoNode
    ring,           \* members of ProxyManager.loadBalance
    handling,       \* the ring operation the event in progress still has to do
    lastID,         \* instance IDs handed out
    now,            \* clock of lease renewals
    pc,             \* where each acquire stands
    picked,         \* name it took from a hash ring
    node,           \* SchedulerNodeInfo it calls
    unavailable,    \* its unavailableSchedulerNodeInfos
    tries           \* attempts it has made

eventVars == <<keyType, leaseIds, schedulerInfos, lastID, now>>
proxyVars == <<faasSchedulers, ring, handling>>
acquireVars == <<pc, picked, node, unavailable, tries>>
vars == <<eventVars, proxyVars, acquireVars>>

NoInfo == [id |-> 0, exclusive |-> FALSE]
Infos == [id : 1..MaxID, exclusive : BOOLEAN]
NoNode == [id |-> 0, updateTime |-> 0, renewed |-> 0]
Nodes == [id : 1..MaxID, updateTime : 0..MaxTime, renewed : 0..MaxTime]
Idle == [op |-> "none", s |-> CHOOSE s \in Schedulers : TRUE]

Leases(s) == {l \in LeaseIds : leaseIds[s][l] > 0}
Times(s) == {leaseIds[s][l] : l \in Leases(s)}

Init ==
    /\ keyType \in {"module", "function"}
    /\ leaseIds = [s \in Schedulers |-> [l \in LeaseIds |-> 0]]
    /\ schedulerInfos = [s \in Schedulers |-> NoInfo]
    /\ faasSchedulers = [s \in Schedulers |-> NoNode]
    /\ ring = {} /\ handling = Idle
    /\ lastID = 0 /\ now = 0
    /\ pc = [a \in Acquires |-> "idle"]
    /\ picked \in [Acquires -> {Idle.s}]
    /\ node = [a \in Acquires |-> NoNode]
    /\ unavailable = [a \in Acquires |-> {}]
    /\ tries = [a \in Acquires |-> 0]

-----------------------------------------------------------------------------
(* Events *)

\* The least of the zero time and the times of the leases: the loop starts
\* from the zero value and replaces it only by something earlier.
UpdateTime(s) == Min({0} \union Times(s))

\* ProxyManager.Add, up to the map, with the event's effect on the tables: the
\* ring follows in a step of its own.  renewed is not in the code: it records
\* the lease renewal this node stands for.
AddOrSkip(s) ==
    LET needUpdate == /\ schedulerInfos'[s] # NoInfo
                      /\ keyType = "module" => Leases(s)' # {} IN
    IF needUpdate
      THEN /\ faasSchedulers' = [faasSchedulers EXCEPT ![s] =
                [id |-> schedulerInfos'[s].id, updateTime |-> UpdateTime(s)',
                 renewed |-> Max({0} \union Times(s)')]]
           /\ handling' = IF schedulerInfos'[s].exclusive
                            THEN Idle ELSE [op |-> "add", s |-> s]
      ELSE UNCHANGED <<faasSchedulers, handling>>

\* ProcessUpdate of a lease key.
PutLease(s, l) ==
    /\ handling = Idle /\ now < MaxTime
    /\ now' = now + 1
    /\ leaseIds' = [leaseIds EXCEPT ![s][l] = now']
    /\ UNCHANGED schedulerInfos
    /\ AddOrSkip(s)
    /\ UNCHANGED <<keyType, lastID, ring, acquireVars>>

\* getSchedulerInstanceInfo: what an instance key may hold, the same instance
\* again or a restarted one with a new instance ID.
SchedulerInstanceInfo(s) ==
    {info \in Infos : info.id \in {lastID + 1, schedulerInfos[s].id}}

\* ProcessUpdate of an instance key.  One that does not parse is ignored.
PutInfo(s) ==
    /\ handling = Idle
    /\ \E info \in SchedulerInstanceInfo(s) :
         /\ schedulerInfos' = [schedulerInfos EXCEPT ![s] = info]
         /\ lastID' = Max({lastID, info.id})
    /\ UNCHANGED leaseIds
    /\ AddOrSkip(s)
    /\ UNCHANGED <<keyType, now, ring, acquireVars>>

\* Faulty variant: only the instance key counts.
RemoveOnInfoOnly(s, isLeaseKey) ==
    IF ~isLeaseKey /\ faasSchedulers[s] # NoNode
      THEN /\ faasSchedulers' = [faasSchedulers EXCEPT ![s] = NoNode]
           /\ handling' = [op |-> "remove", s |-> s]
      ELSE UNCHANGED <<faasSchedulers, handling>>

\* ProcessDelete removes a scheduler when needRemove and it is known: Remove
\* deletes it from the map first and from the ring next.
RemoveOrSkip(s, isLeaseKey) ==
    LET existLease == Leases(s)' # {}
        existInfo  == schedulerInfos'[s] # NoInfo
        needRemove == IF keyType = "module"
                        THEN existLease # existInfo
                        ELSE ~existInfo /\ ~isLeaseKey IN
    IF /\ needRemove
       /\ schedulerInfos[s] # NoInfo
       /\ faasSchedulers[s] # NoNode
      THEN /\ faasSchedulers' = [faasSchedulers EXCEPT ![s] = NoNode]
           /\ handling' = [op |-> "remove", s |-> s]
      ELSE UNCHANGED <<faasSchedulers, handling>>

DeleteLease(s, l) ==
    /\ handling = Idle
    /\ leaseIds' = [leaseIds EXCEPT ![s][l] = 0]
    /\ UNCHANGED schedulerInfos
    /\ RemoveOrSkip(s, TRUE)
    /\ UNCHANGED <<keyType, lastID, now, ring, acquireVars>>

DeleteInfo(s) ==
    /\ handling = Idle
    /\ schedulerInfos' = [schedulerInfos EXCEPT ![s] = NoInfo]
    /\ UNCHANGED leaseIds
    /\ RemoveOrSkip(s, FALSE)
    /\ UNCHANGED <<keyType, lastID, now, ring, acquireVars>>

\* Faulty variant: Remove leaves the ring alone.
ChangeRingAddOnly ==
    /\ handling # Idle /\ handling' = Idle
    /\ ring' = IF handling.op = "add" THEN ring \union {handling.s} ELSE ring
    /\ UNCHANGED <<eventVars, faasSchedulers, acquireVars>>

\* SimpleCHGeneric: all the virtual nodes of a name come and go under one lock,
\* and a name that is there already, or not there, changes nothing.
RingAdd(name) == ring \union {name}
RingRemove(name) == ring \ {name}

\* loadBalance.Add or loadBalance.Remove, the last thing an event does.
ChangeRing ==
    /\ handling # Idle
    /\ ring' = IF handling.op = "add" THEN RingAdd(handling.s)
                                      ELSE RingRemove(handling.s)
    /\ handling' = Idle
    /\ UNCHANGED <<eventVars, faasSchedulers, acquireVars>>

-----------------------------------------------------------------------------
(* acquireHandler *)

StartAcquire(a) ==
    /\ pc[a] = "idle"
    /\ pc' = [pc EXCEPT ![a] = "choose"]
    /\ UNCHANGED <<eventVars, proxyVars, picked, node, unavailable, tries>>

\* A node the retry variant may choose although these have failed before.
Eligible(n, failed) ==
    \A u \in failed : ~(n.id = u.id /\ n.updateTime <= u.updateTime)

\* Faulty variant: the unavailable nodes are not skipped.
CandidatesAll(a) == {s \in Schedulers : faasSchedulers[s] # NoNode}

\* The first attempt asks the ring; a later one hashes over every scheduler of
\* the map that is still eligible.
Candidates(a) ==
    IF unavailable[a] = {}
      THEN ring
      ELSE {s \in Schedulers : /\ faasSchedulers[s] # NoNode
                               /\ Eligible(faasSchedulers[s], unavailable[a])}

Choose(a) ==
    /\ pc[a] = "choose"
    /\ \/ \E s \in Candidates(a) :
            /\ picked' = [picked EXCEPT ![a] = s]
            /\ pc' = [pc EXCEPT ![a] = "picked"]
       \/ /\ Candidates(a) = {}
          /\ pc' = [pc EXCEPT ![a] = "allUnavailable"]
          /\ UNCHANGED picked
    /\ UNCHANGED <<eventVars, proxyVars, node, unavailable, tries>>

\* instanceNameToSchedulerNodeInfo: the scheduler may have left the map since;
\* then hashRetry is cleared and the acquire gives up.
Load(a) ==
    LET n == faasSchedulers[picked[a]] IN
    /\ pc[a] = "picked"
    /\ \/ /\ n # NoNode
          /\ node' = [node EXCEPT ![a] = n]
          /\ pc' = [pc EXCEPT ![a] = "calling"]
       \/ /\ n = NoNode
          /\ pc' = [pc EXCEPT ![a] = "notFound"]
          /\ UNCHANGED node
    /\ UNCHANGED <<eventVars, proxyVars, picked, unavailable, tries>>

\* Faulty variants: the attempts are not limited, or not counted.
RetryUnlimited(a) ==
    /\ tries' = [tries EXCEPT ![a] = @ + 1]
    /\ pc' = [pc EXCEPT ![a] = "choose"]
RetryUncounted(a) == pc' = [pc EXCEPT ![a] = "choose"] /\ UNCHANGED tries

\* util.Retry after an attempt that returned an error.
Retry(a) ==
    /\ tries' = [tries EXCEPT ![a] = @ + 1]
    /\ pc' = [pc EXCEPT ![a] =
                IF tries[a] + 1 < MaxRetries THEN "choose" ELSE "failed"]

\* doAcquireInvoke got an answer: a lease, or an error code that is not
\* retried.  ErrFinalized is one of them: the node is put on the list, but the
\* attempt returns no error, so Retry stops.
Answered(a) ==
    /\ pc[a] = "calling"
    /\ \E result \in {"granted", "refused"} : pc' = [pc EXCEPT ![a] = result]
    /\ UNCHANGED <<eventVars, proxyVars, picked, node, unavailable, tries>>

\* doAcquireInvoke failed: the node is not asked again by this acquire.
CallFails(a) ==
    /\ pc[a] = "calling"
    /\ unavailable' = [unavailable EXCEPT ![a] = @ \union {node[a]}]
    /\ Retry(a)
    /\ UNCHANGED <<eventVars, proxyVars, picked, node>>

\* GetSchedulerByInstanceId finds some scheduler (its id, and IsExist).
OwnerFound == \E s \in Schedulers : faasSchedulers[s] # NoNode

\* The scheduler names another owner, which acquireWithSameSchedulerIdRetry
\* looks up by instance ID and calls three times at most.
Redirected(a) ==
    /\ pc[a] = "calling"
    /\ \/ /\ Retry(a)
       \/ /\ OwnerFound
          /\ \E result \in {"granted", "refused"} :
               pc' = [pc EXCEPT ![a] = result]
          /\ UNCHANGED tries
    /\ UNCHANGED <<eventVars, proxyVars, picked, node, unavailable>>

-----------------------------------------------------------------------------
Acquire(a) ==
    \/ Choose(a) \/ Load(a) \/ Answered(a) \/ CallFails(a) \/ Redirected(a)

Next ==
    \/ \E s \in Schedulers :
         \/ PutInfo(s) \/ DeleteInfo(s)
         \/ \E l \in LeaseIds : PutLease(s, l) \/ DeleteLease(s, l)
    \/ ChangeRing
    \/ \E a \in Acquires : StartAcquire(a) \/ Acquire(a)

Spec == Init /\ [][Next]_vars

(* The goroutine of an acquire is scheduled, and its HTTP calls return or    *)
(* time out.  Nothing is assumed of the events.                              *)
FairSpec == Spec /\ \A a \in Acquires : WF_vars(Acquire(a))

-----------------------------------------------------------------------------
(* Properties *)

(* Every variable stays within its declared range. *)
TypeOK ==
    /\ keyType \in {"module", "function"}
    /\ leaseIds \in [Schedulers -> [LeaseIds -> 0..MaxTime]]
    /\ schedulerInfos \in [Schedulers -> Infos \union {NoInfo}]
    /\ faasSchedulers \in [Schedulers -> Nodes \union {NoNode}]
    /\ ring \subseteq Schedulers
    /\ handling \in [op : {"add", "remove"}, s : Schedulers] \union {Idle}
    /\ lastID \in 0..MaxID /\ now \in 0..MaxTime
    /\ pc \in [Acquires -> {"idle", "choose", "picked", "calling", "granted",
                            "refused", "failed", "allUnavailable",
                            "notFound"}]
    /\ picked \in [Acquires -> Schedulers]
    /\ node \in [Acquires -> Nodes \union {NoNode}]
    /\ unavailable \in [Acquires -> SUBSET Nodes]
    /\ tries \in [Acquires -> 0..MaxRetries]

(* Whatever order the instance and lease keys of a scheduler come and go in, *)
(* it is in the proxy's map exactly when it should be - alive and described  *)
(* for module keys, described for function keys - and with the instance ID   *)
(* of its last description, so acquires never call a predecessor.            *)
ProxyFollowsEvents ==
    \A s \in Schedulers :
        LET known == /\ schedulerInfos[s] # NoInfo
                     /\ keyType = "module" => Leases(s) # {} IN
        faasSchedulers[s].id = IF known THEN schedulerInfos[s].id ELSE 0

(* The ring and the map agree, but for the scheduler whose removal or        *)
(* addition is half done: a name on the ring has a node, and a shared        *)
(* scheduler of the map is on the ring.                                      *)
RingFollowsMap ==
    \A s \in Schedulers :
        /\ s \in ring /\ faasSchedulers[s] = NoNode =>
             handling = [op |-> "remove", s |-> s]
        /\ s \notin ring /\ faasSchedulers[s] # NoNode
             /\ ~schedulerInfos[s].exclusive =>
                  handling = [op |-> "add", s |-> s]

(* An acquire never calls the same incarnation of a scheduler again after it *)
(* failed to answer, although the node is loaded again, by name, after it    *)
(* was chosen.                                                               *)
NoSecondCall ==
    [][\A a \in Acquires :
         pc[a] = "picked" /\ pc'[a] = "calling" =>
             Eligible(node'[a], unavailable[a])]_vars

(* An acquire comes to an end, whatever the schedulers do.                   *)
AcquireEnds ==
    \A a \in Acquires :
        pc[a] = "choose" ~>
            pc[a] \in {"granted", "refused", "failed", "allUnavailable",
                       "notFound"}

(* A scheduler that renewed its lease after it failed an acquire may be      *)
(* chosen again by that acquire: its node is newer than the failed one.      *)
RenewedIsEligible ==
    \A a \in Acquires, s \in Schedulers :
        faasSchedulers[s] # NoNode
          /\ (\A u \in unavailable[a] :
                u.id = faasSchedulers[s].id =>
                    u.renewed < faasSchedulers[s].renewed)
        => Eligible(faasSchedulers[s], unavailable[a])
=============================================================================
