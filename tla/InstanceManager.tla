--------------------------- MODULE InstanceManager ---------------------------
(***************************************************************************)
(* The instances of a function (instancemanager), fed by the instance watch: *)
(* a map of queues by resource key, each with a lock of its own, published   *)
(* to the observers of a Subject; the scheduler instances, with the alarm    *)
(* that says there is none; the status of applications; the instance         *)
(* configurations (instanceconfigmanager), published in the same way.        *)
(***************************************************************************)
EXTENDS GoValues, Integers, Sequences, FiniteSets

CONSTANTS
    ResKeys,       \* resource keys of the function
    Instances,     \* instances: pairs of a resource key and an id
    Schedulers,    \* scheduler instances
    Labels,        \* labels of instance configurations
    Handlers,      \* goroutines of the instance watch: one, or an old and a new run
    Readers,       \* requests that look for an instance
    EventChan,     \* capacity of a subject's channel
    MaxQueues,     \* bound: queues made
    MaxMaps        \* bound: maps of queues made

ASSUME InstancesAssumption == \A i \in Instances : i[1] \in ResKeys

VARIABLES
    current,       \* the map of the function key in instancesMap, 0 when there is none
    queuesOf,      \* the maps made: a sequence of [ResKeys -> queue or 0]
    queueAt,       \* the queues made: a sequence of sets of instances
    handlers,      \* [Handlers -> what the handler is doing]
    readers,       \* [Readers -> what the reader is doing]
    status,        \* what the watch has told of each instance
    enabled,       \* the subject's loop was started
    channel,       \* events on their way to the observer
    seen,          \* [Instances -> the last event the observer was given, or None]
    schedulers,    \* [known, synced, alarm]
    configs,       \* labels of the function's configurations
    configEvents   \* deletions published for a configuration that was there, or not

mapVars == <<current, queuesOf, queueAt>>
subjectVars == <<enabled, channel, seen>>
managerVars == <<mapVars, handlers, readers, status, subjectVars, schedulers, configs, configEvents>>
otherVars == <<schedulers, configs, configEvents>>

NoWork == [pc |-> "idle", op |-> "none", ins |-> None, m |-> 0, q |-> 0]
NoRead == [pc |-> "idle", key |-> None, without |-> {}, m |-> 0, q |-> 0, throughout |-> {}, answer |-> None]

InQueue(q) == IF q = 0 THEN {} ELSE queueAt[q]
Reachable == IF current = 0 THEN {} ELSE UNION {InQueue(queuesOf[current][k]) : k \in ResKeys}

\* PublishEvent: nothing before the loop was started; a full channel holds the publisher.
CanPublish == ~enabled \/ Len(channel) < EventChan
Publish(type, ins) ==
    IF enabled THEN channel' = Append(channel, <<type, ins>>) ELSE UNCHANGED channel

------------------------------------------------------------------------------
\* The instance watch

HandlerStep(h, pc) == handlers[h].pc = pc
Go(h, r) == handlers' = [handlers EXCEPT ![h] = r]

\* ProcessInstanceUpdate, ProcessInstanceDelete: a running instance is added, any other
\* one deleted.
Event(h, ins, op) ==
    /\ HandlerStep(h, "idle")
    /\ status' = [status EXCEPT ![ins] = IF op = "add" THEN "running" ELSE "gone"]
    /\ Go(h, [NoWork EXCEPT !.pc = "map", !.op = op, !.ins = ins])
    /\ UNCHANGED <<mapVars, readers, subjectVars, otherVars>>

\* FunctionInstancesMap.addInstance and delInstance: the map, under the lock of the manager.
LookUpMap(h) ==
    /\ HandlerStep(h, "map")
    /\ IF handlers[h].op = "add" /\ current = 0
       THEN /\ Len(queuesOf) < MaxMaps
            /\ queuesOf' = Append(queuesOf, [k \in ResKeys |-> 0])
            /\ current' = Len(queuesOf) + 1
       ELSE UNCHANGED <<queuesOf, current>>
    /\ Go(h, IF current' = 0 THEN NoWork ELSE [handlers[h] EXCEPT !.pc = "queue", !.m = current'])
    /\ UNCHANGED <<queueAt, readers, status, subjectVars, otherVars>>

\* functionInstanceMap.addInstance and delInstance: the queue, under the lock of the map.
LookUpQueue(h) ==
    /\ HandlerStep(h, "queue")
    /\ LET m == handlers[h].m
           k == handlers[h].ins[1]
       IN  /\ IF handlers[h].op = "add" /\ queuesOf[m][k] = 0
              THEN /\ Len(queueAt) < MaxQueues
                   /\ queueAt' = Append(queueAt, {})
                   /\ queuesOf' = [queuesOf EXCEPT ![m][k] = Len(queueAt) + 1]
              ELSE UNCHANGED <<queueAt, queuesOf>>
           /\ Go(h, IF queuesOf'[m][k] = 0 THEN [handlers[h] EXCEPT !.pc = "drop map"]
                    ELSE [handlers[h] EXCEPT !.pc = "change", !.q = queuesOf'[m][k]])
    /\ UNCHANGED <<current, readers, status, subjectVars, otherVars>>

\* functionInstanceQueue.addInstance
AddInstance(h) ==
    /\ HandlerStep(h, "change") /\ handlers[h].op = "add" /\ CanPublish
    /\ queueAt' = [queueAt EXCEPT ![handlers[h].q] = @ \cup {handlers[h].ins}]
    /\ Publish("update", handlers[h].ins)
    /\ Go(h, NoWork)
    /\ UNCHANGED <<current, queuesOf, readers, status, enabled, seen, otherVars>>

\* functionInstanceQueue.delInstance
DelInstance(h) ==
    /\ HandlerStep(h, "change") /\ handlers[h].op = "del"
    /\ IF handlers[h].ins \in queueAt[handlers[h].q]
       THEN CanPublish /\ Publish("delete", handlers[h].ins)
       ELSE UNCHANGED channel
    /\ queueAt' = [queueAt EXCEPT ![handlers[h].q] = @ \ {handlers[h].ins}]
    /\ Go(h, [handlers[h] EXCEPT !.pc = "drop queue"])
    /\ readers' = [r \in Readers |-> [readers[r] EXCEPT !.throughout = @ \ {handlers[h].ins}]]
    /\ UNCHANGED <<current, queuesOf, status, enabled, seen, otherVars>>

\* functionInstanceMap.delInstance: an empty queue leaves the map.
DropQueue(h) ==
    /\ HandlerStep(h, "drop queue")
    /\ IF queueAt[handlers[h].q] = {}
       THEN queuesOf' = [queuesOf EXCEPT ![handlers[h].m][handlers[h].ins[1]] = 0]
       ELSE UNCHANGED queuesOf
    /\ Go(h, [handlers[h] EXCEPT !.pc = "drop map"])
    /\ UNCHANGED <<current, queueAt, readers, status, subjectVars, otherVars>>

\* Faulty variant: the map goes with any of its queues.
DropMapOfQueue(h) ==
    /\ HandlerStep(h, "drop map")
    /\ current' = IF queuesOf[handlers[h].m][handlers[h].ins[1]] = 0 THEN 0 ELSE current
    /\ Go(h, NoWork)
    /\ UNCHANGED <<queuesOf, queueAt, readers, status, subjectVars, otherVars>>

\* FunctionInstancesMap.delInstance: a map without queues leaves the manager.
DropMap(h) ==
    /\ HandlerStep(h, "drop map")
    /\ current' = IF \A k \in ResKeys : queuesOf[handlers[h].m][k] = 0 THEN 0 ELSE current
    /\ Go(h, NoWork)
    /\ UNCHANGED <<queuesOf, queueAt, readers, status, subjectVars, otherVars>>

------------------------------------------------------------------------------
\* A request looks for an instance

\* GetRandomInstanceWithoutUnexpectedInstance: the map, the queue and the instance are each
\* read under the lock of their own level.
Read(r, new) == readers' = [readers EXCEPT ![r] = new]
StartRead(r, k, without) ==
    /\ readers[r].pc = "idle"
    /\ Read(r, [NoRead EXCEPT !.pc = IF current = 0 THEN "done" ELSE "map", !.key = k, !.without = without,
                              !.m = current,
                              !.throughout = {i \in Reachable : i[1] = k /\ i \notin without}])
    /\ UNCHANGED <<mapVars, handlers, status, subjectVars, otherVars>>
ReadQueue(r) ==
    /\ readers[r].pc = "map"
    /\ LET q == queuesOf[readers[r].m][readers[r].key]
       IN  Read(r, [readers[r] EXCEPT !.pc = IF q = 0 THEN "done" ELSE "queue", !.q = q])
    /\ UNCHANGED <<mapVars, handlers, status, subjectVars, otherVars>>
TakeInstance(r) ==
    /\ readers[r].pc = "queue"
    /\ LET left == queueAt[readers[r].q] \ readers[r].without
           now == [readers[r] EXCEPT !.pc = "done"]
       IN  IF left = {} THEN Read(r, now) ELSE \E i \in left : Read(r, [now EXCEPT !.answer = i])
    /\ UNCHANGED <<mapVars, handlers, status, subjectVars, otherVars>>
EndRead(r) ==
    /\ readers[r].pc = "done"
    /\ Read(r, NoRead)
    /\ UNCHANGED <<mapVars, handlers, status, subjectVars, otherVars>>

------------------------------------------------------------------------------
\* The subject

\* StartLoop: a second call does nothing.
StartLoop ==
    /\ ~enabled /\ enabled' = TRUE
    /\ UNCHANGED <<mapVars, handlers, readers, status, channel, seen, otherVars>>

\* The loop gives each event to the observers (notifyUpdateEvent, notifyDeleteEvent).
NotifyObservers ==
    /\ channel # <<>>
    /\ seen' = [seen EXCEPT ![Head(channel)[2]] = Head(channel)[1]]
    /\ channel' = Tail(channel)
    /\ UNCHANGED <<mapVars, handlers, readers, status, enabled, otherVars>>

------------------------------------------------------------------------------
\* The scheduler instances and their alarm, each event in one step of the only watch

\* FaaSSchedulerInstanceManager.sync, after the first list.
SyncSchedulers ==
    /\ ~schedulers.synced
    /\ schedulers' = [schedulers EXCEPT !.synced = TRUE, !.alarm = @ \/ schedulers.known = {}]

\* addInstance: the first one clears the alarm, once the list was read.
AddScheduler(s) ==
    /\ schedulers' = IF s \in schedulers.known THEN schedulers
                     ELSE LET known == schedulers.known \cup {s}
                          IN  [schedulers EXCEPT !.known = known,
                                   !.alarm = @ /\ ~(Cardinality(known) = 1 /\ schedulers.synced)]

\* Faulty variant: the last one goes without an alarm.
DelSilently(s) == schedulers' = [schedulers EXCEPT !.known = @ \ {s}]

\* delInstance: the last one raises the alarm. Nothing is deleted before the first list.
DelScheduler(s) ==
    schedulers' = IF s \notin schedulers.known THEN schedulers
                  ELSE [schedulers EXCEPT !.known = @ \ {s}, !.alarm = @ \/ schedulers.known = {s}]

SchedulerEvent ==
    /\ \/ SyncSchedulers
       \/ \E s \in Schedulers : AddScheduler(s) \/ (schedulers.synced /\ DelScheduler(s))
    /\ UNCHANGED <<mapVars, handlers, readers, status, subjectVars, configs, configEvents>>

------------------------------------------------------------------------------
\* Instance configurations

\* instanceconfigmanager.ProcessUpdate and ProcessDelete: a deletion is published even when
\* the label is unknown, with no configuration, as long as the function has one.
ConfigEvent(l, op) ==
    /\ configs' = IF op = "put" THEN configs \cup {l} ELSE configs \ {l}
    /\ configEvents' = IF op = "delete" /\ configs # {} /\ enabled
                       THEN configEvents \cup {IF l \in configs THEN "config" ELSE "nil"} ELSE configEvents
    /\ UNCHANGED <<mapVars, handlers, readers, status, subjectVars, schedulers>>

------------------------------------------------------------------------------
ManagerInit ==
    /\ current = 0 /\ queuesOf = <<>> /\ queueAt = <<>>
    /\ handlers = [h \in Handlers |-> NoWork]
    /\ readers = [r \in Readers |-> NoRead]
    /\ status = [i \in Instances |-> "gone"]
    /\ enabled = FALSE /\ channel = <<>> /\ seen = [i \in Instances |-> "nothing"]
    /\ schedulers = [known |-> {}, synced |-> FALSE, alarm |-> FALSE]
    /\ configs = {} /\ configEvents = {}

InstanceNext ==
    \/ StartLoop \/ NotifyObservers
    \/ \E h \in Handlers :
           \/ \E ins \in Instances, op \in {"add", "del"} : Event(h, ins, op)
           \/ LookUpMap(h) \/ LookUpQueue(h) \/ AddInstance(h) \/ DelInstance(h) \/ DropQueue(h) \/ DropMap(h)
    \/ \E r \in Readers :
           \/ \E k \in ResKeys : \E without \in {{}} \cup {{i} : i \in {j \in Instances : j[1] = k}} : StartRead(r, k, without)
           \/ ReadQueue(r) \/ TakeInstance(r) \/ EndRead(r)

ConfigNext == \E l \in Labels, op \in {"put", "delete"} : ConfigEvent(l, op)

ManagerNext == InstanceNext \/ SchedulerEvent \/ ConfigNext

ManagerSpec == ManagerInit /\ [][ManagerNext]_managerVars

------------------------------------------------------------------------------
\* Properties

\* Between two events every running instance the watch told of can be found, and no other.
RunningAreReachable ==
    (\A h \in Handlers : handlers[h].pc = "idle") => Reachable = {i \in Instances : status[i] = "running"}

\* A request finds an instance when an acceptable one was there all the time it looked,
\* although it takes three locks one after the other.
PresentIsFound ==
    \A r \in Readers : (readers[r].pc = "done" /\ readers[r].throughout # {}) => readers[r].answer # None

\* Once its channel is empty the observer has last heard of an instance what is true of it.
ObserverFollows ==
    (channel = <<>> /\ \A h \in Handlers : handlers[h].pc = "idle") =>
        \A i \in Instances : /\ seen[i] = "update" => i \in Reachable
                             /\ seen[i] = "delete" => i \notin Reachable

\* Once the first list was read the alarm is up exactly while there is no scheduler.
AlarmIsTrue == schedulers.synced => (schedulers.alarm <=> schedulers.known = {})

\* The tables filled by the instance watch say what the watch said: the instances a request can
\* reach, what the observers were told, the alarm for a missing scheduler (instancemanager).
InstanceTablesTrue == RunningAreReachable /\ ObserverFollows /\ AlarmIsTrue

\* The observer of deleted configurations is given a configuration.
DeletionsHaveConfig == "nil" \notin configEvents
=============================================================================
