---------------------------- MODULE PendingQueue ----------------------------
(***************************************************************************)
(* The queue of invocations that wait for an instance of one function      *)
(* (pkg/frontend/wisecloud/queue.go).                                      *)
(*                                                                         *)
(* QueueManager keeps, for the function, an inner map from resource        *)
(* specification to reqQueue.  An invocation that finds no instance        *)
(* (chooseInstance, function_invoke_for_kernel.go) adds a PendingRequest   *)
(* to the queue of its specification and then blocks on its ResultChan,    *)
(* with no timeout of its own: whoever takes the request off a queue must  *)
(* answer it.  The map is guarded by m.RWMutex, which AddPendingRequest    *)
(* releases and takes again up to twice; each queue by its own mutex.      *)
(* One step of the model is one stretch of code under one hold of m.       *)
(*                                                                         *)
(* Inner maps and queues are Go heap objects reached by reference, and a   *)
(* goroutine may keep a reference to one that is no longer mapped: they    *)
(* are numbered in order of creation, and 0 is "no such entry".            *)
(***************************************************************************)
EXTENDS Naturals, Sequences, Functions

CONSTANTS
    Requests,     \* the invocations that wait for an instance
    ResSpecs,     \* resource specifications of the function
    InvokeLabel,  \* the label of each specification
    Limit,        \* length at which addPendingRequest complains (100)
    MaxMaps,      \* bound: inner maps created
    MaxQueues,    \* bound: queues created
    MaxUpdates    \* bound: instance updates received

ASSUME LabelAssumption == DOMAIN InvokeLabel = ResSpecs
ASSUME BoundAssumption ==
    {Limit, MaxMaps, MaxQueues, MaxUpdates} \subseteq Nat

\* A choice of labels: every specification carries one of its own.
OwnLabels == [s \in ResSpecs |-> s]

VARIABLES
    queuesMap,    \* the function's inner map in QueueManager.queuesMap
    mapCount,     \* inner maps created so far
    queues,       \* contents of every inner map
    queueCount,   \* queues created so far
    content,      \* FifoQueue of every reqQueue
    running,      \* reqQueue.running; stopCh is closed iff FALSE once created
    loop,         \* timeoutLoop goroutine: "none", "run" or "ended"
    coldStarts,   \* ColdStart goroutines of a queue that have not returned
    emptyCalls,   \* go ProcessQueueEmpty(_, resSpec) not yet run
    destroyCalls, \* queues with a destroy() still to run
    deleting,     \* inner map ProcessFunctionDelete is about to walk, or 0
    update,       \* ProcessInstanceUpdate between RUnlock and Lock
    updates,      \* instance updates received so far
    pc,           \* where AddPendingRequest stands, per request
    reqRes,       \* resSpec of a request
    reqMap,       \* its local variable queues
    reqQ,         \* its local variable queue
    expired,      \* requests older than their ScheduleTimeout
    answers       \* PendingResponses sent to a request

mapVars == <<queuesMap, mapCount, queues>>
queueVars == <<queueCount, running, loop>>
asyncVars == <<coldStarts, emptyCalls, destroyCalls, deleting>>
updateVars == <<update, updates>>
callVars == <<pc, reqRes, reqMap, reqQ>>
vars == <<mapVars, queueVars, asyncVars, updateVars, callVars,
          content, expired, answers>>

Maps == 1..MaxMaps
Queues == 1..MaxQueues
NoUpdate == [m |-> 0, s |-> 0, q |-> 0]
Updates == [m : Maps, s : ResSpecs, q : Queues]

-----------------------------------------------------------------------------
Init ==
    /\ queuesMap = 0 /\ mapCount = 0
    /\ queues = [m \in Maps |-> [s \in ResSpecs |-> 0]]
    /\ queueCount = 0
    /\ content = [q \in Queues |-> <<>>]
    /\ running = [q \in Queues |-> FALSE]
    /\ loop = [q \in Queues |-> "none"]
    /\ coldStarts = [q \in Queues |-> 0]
    /\ emptyCalls = [s \in ResSpecs |-> 0]
    /\ destroyCalls = {} /\ deleting = 0
    /\ update = NoUpdate /\ updates = 0
    /\ pc = [r \in Requests |-> "idle"]
    /\ reqRes \in [Requests -> ResSpecs]
    /\ reqMap = [r \in Requests |-> 0]
    /\ reqQ = [r \in Requests |-> 0]
    /\ expired = {}
    /\ answers = [r \in Requests |-> 0]

\* The requests of a sequence each receive one more answer.
Answer(seq) ==
    answers' = [r \in Requests |->
                  IF r \in Range(seq) THEN answers[r] + 1 ELSE answers[r]]

\* destroy(): running is cleared and stopCh closed; later calls do nothing.
Destroyed(qs) == [q \in Queues |-> running[q] /\ q \notin qs]

\* delete(queues, resSpec), and queuesMap loses the function when that was
\* the last entry - whichever inner map queuesMap holds by now.
Unmap(m, ss) ==
    LET left == [s \in ResSpecs |-> IF s \in ss THEN 0 ELSE queues[m][s]] IN
    /\ queues' = [queues EXCEPT ![m] = left]
    /\ queuesMap' = IF Range(left) = {0} THEN 0 ELSE queuesMap
    /\ UNCHANGED mapCount

-----------------------------------------------------------------------------
(* AddPendingRequest *)

\* addPendingRequest, under the queue's mutex: at the limit the request is
\* answered, and it is pushed all the same; the first one starts a cold start.
Push(r, q) ==
    /\ answers' = [answers EXCEPT ![r] =
                     IF Len(content[q]) >= Limit THEN @ + 1 ELSE @]
    /\ content' = [content EXCEPT ![q] = Append(@, r)]
    /\ coldStarts' = [coldStarts EXCEPT ![q] =
                        IF content[q] = <<>> THEN @ + 1 ELSE @]
    /\ pc' = [pc EXCEPT ![r] = "waiting"]
    /\ UNCHANGED <<mapVars, queueVars, emptyCalls, destroyCalls, deleting,
                   updateVars, reqRes, expired>>

\* The function's metadata or instance configuration is not loaded.
RejectRequest(r) ==
    /\ pc[r] = "idle"
    /\ Answer(<<r>>)
    /\ pc' = [pc EXCEPT ![r] = "waiting"]
    /\ UNCHANGED <<mapVars, queueVars, asyncVars, updateVars, reqRes, reqMap,
                   reqQ, content, expired>>

\* queues[resSpec] under the read lock already held: push, or release it.
LookUpQueue(r, m) ==
    LET q == queues[m][reqRes[r]] IN
    /\ reqMap' = [reqMap EXCEPT ![r] = m]
    /\ \/ /\ q # 0
          /\ reqQ' = [reqQ EXCEPT ![r] = q]
          /\ Push(r, q)
       \/ /\ q = 0
          /\ pc' = [pc EXCEPT ![r] = "noQueue"]
          /\ UNCHANGED <<mapVars, queueVars, asyncVars, updateVars, reqRes,
                         reqQ, content, expired, answers>>

AddPendingRequest(r) ==
    /\ pc[r] = "idle"
    /\ \/ queuesMap # 0 /\ LookUpQueue(r, queuesMap)
       \/ /\ queuesMap = 0
          /\ pc' = [pc EXCEPT ![r] = "noMap"]
          /\ UNCHANGED <<mapVars, queueVars, asyncVars, updateVars, reqRes,
                         reqMap, reqQ, content, expired, answers>>

\* Under the write lock: look again, and create the inner map if it is
\* still missing.
CreateMap(r) ==
    /\ pc[r] = "noMap"
    /\ IF queuesMap # 0
         THEN UNCHANGED mapVars
         ELSE /\ mapCount < MaxMaps
              /\ mapCount' = mapCount + 1
              /\ queuesMap' = mapCount'
              /\ UNCHANGED queues
    /\ reqMap' = [reqMap EXCEPT ![r] = queuesMap']
    /\ pc' = [pc EXCEPT ![r] = "gotMap"]
    /\ UNCHANGED <<queueVars, asyncVars, updateVars, reqRes, reqQ, content,
                   expired, answers>>

\* The read lock again: the inner map may have left queuesMap meanwhile.
ReadMap(r) == pc[r] = "gotMap" /\ LookUpQueue(r, reqMap[r])

\* Under the write lock: look again, and newQueue if it is still missing.
CreateQueue(r) ==
    LET m == reqMap[r]
        s == reqRes[r] IN
    /\ pc[r] = "noQueue"
    /\ IF queues[m][s] # 0
         THEN UNCHANGED <<queues, queueVars>>
         ELSE /\ queueCount < MaxQueues
              /\ queueCount' = queueCount + 1
              /\ queues' = [queues EXCEPT ![m][s] = queueCount']
              /\ running' = [running EXCEPT ![queueCount'] = TRUE]
              /\ loop' = [loop EXCEPT ![queueCount'] = "run"]
    /\ reqQ' = [reqQ EXCEPT ![r] = queues'[m][s]]
    /\ pc' = [pc EXCEPT ![r] = "gotQueue"]
    /\ UNCHANGED <<queuesMap, mapCount, asyncVars, updateVars, reqRes, reqMap,
                   content, expired, answers>>

\* The read lock again: the queue may have been destroyed meanwhile.
AddToQueue(r) ==
    /\ pc[r] = "gotQueue"
    /\ Push(r, reqQ[r])
    /\ UNCHANGED <<reqMap, reqQ>>

\* chooseInstance receives from ResultChan.
Receive(r) ==
    /\ pc[r] = "waiting" /\ answers[r] > 0
    /\ pc' = [pc EXCEPT ![r] = "done"]
    /\ UNCHANGED <<mapVars, queueVars, asyncVars, updateVars, reqRes, reqMap,
                   reqQ, content, expired, answers>>

-----------------------------------------------------------------------------
(* Taking requests off a queue *)

\* handleInstanceUpdate hands instances to the first n requests, until
\* GetRandomInstance finds none, and an empty queue asks for its own removal.
HandleInstanceUpdate(q, s, n) ==
    LET rest == SubSeq(content[q], n + 1, Len(content[q])) IN
    /\ Answer(SubSeq(content[q], 1, n))
    /\ content' = [content EXCEPT ![q] = rest]
    /\ emptyCalls' = [emptyCalls EXCEPT ![s] =
                        IF rest = <<>> THEN @ + 1 ELSE @]

\* ProcessInstanceUpdate: when Len() is then 0 the locks are exchanged; the timeout
\* loop can empty the queue before Len() is read.
ProcessInstanceUpdate(s) ==
    LET q == queues[queuesMap][s] IN
    /\ update = NoUpdate /\ updates < MaxUpdates
    /\ queuesMap # 0 /\ q # 0
    /\ updates' = updates + 1
    /\ \E n \in 0..Len(content[q]) :
         /\ HandleInstanceUpdate(q, s, n)
         /\ \/ update' = [m |-> queuesMap, s |-> s, q |-> q]
            \/ n < Len(content[q]) /\ update' = update
    /\ UNCHANGED <<mapVars, queueVars, coldStarts, destroyCalls, deleting,
                   callVars, expired>>

\* Under the write lock: a queue that is still empty is destroyed, and its key
\* deleted from the inner map that was read before.
RemoveEmptyQueue ==
    /\ update # NoUpdate
    /\ IF content[update.q] = <<>>
         THEN /\ running' = Destroyed({update.q})
              /\ Unmap(update.m, {update.s})
         ELSE UNCHANGED <<mapVars, running>>
    /\ update' = NoUpdate
    /\ UNCHANGED <<queueCount, loop, asyncVars, updates, callVars, content,
                   expired, answers>>

\* The goroutine started by handleInstanceUpdate and clearQueueWithError: it
\* looks the queue up by its key, not by the queue that asked.
ProcessQueueEmpty(s) ==
    LET q == queues[queuesMap][s] IN
    /\ emptyCalls[s] > 0
    /\ emptyCalls' = [emptyCalls EXCEPT ![s] = @ - 1]
    /\ IF queuesMap # 0 /\ q # 0 /\ content[q] = <<>>
         THEN /\ destroyCalls' = destroyCalls \union {q}
              /\ Unmap(queuesMap, {s})
         ELSE UNCHANGED <<mapVars, destroyCalls>>
    /\ UNCHANGED <<queueVars, coldStarts, deleting, updateVars, callVars,
                   content, expired, answers>>

\* Faulty variant: requests are answered and stay queued.
ClearKeepsQueue(q, s) ==
    /\ Answer(content[q])
    /\ emptyCalls' = [emptyCalls EXCEPT ![s] = @ + 1]
    /\ UNCHANGED content

\* clearQueueWithError of queue q, whose specification is s.
ClearQueueWithError(q, s) ==
    /\ Answer(content[q])
    /\ content' = [content EXCEPT ![q] = <<>>]
    /\ emptyCalls' = [emptyCalls EXCEPT ![s] = @ + 1]

\* The specification a queue was created for: some request names the queue.
ResSpecOf(q) == reqRes[CHOOSE r \in Requests : reqQ[r] = q]

\* ColdStart returns nil, or an error that answers whoever is queued by then.
ColdStartReturns(q) ==
    /\ coldStarts[q] > 0
    /\ coldStarts' = [coldStarts EXCEPT ![q] = @ - 1]
    /\ \/ UNCHANGED <<content, emptyCalls, answers>>
       \/ ClearQueueWithError(q, ResSpecOf(q))
    /\ UNCHANGED <<mapVars, queueVars, destroyCalls, deleting, updateVars,
                   callVars, expired>>

\* A request grows older than its ScheduleTimeout.  Its age is first looked at
\* when it is queued, and last when it is answered.
Expire(r) ==
    /\ pc[r] = "waiting" /\ answers[r] = 0 /\ r \notin expired
    /\ expired' = expired \union {r}
    /\ UNCHANGED <<mapVars, queueVars, asyncVars, updateVars, callVars,
                   content, answers>>

\* The longest prefix of requests that have all expired has n of them.
ExpiredPrefix(seq, n) ==
    /\ \A i \in 1..n : seq[i] \in expired
    /\ n < Len(seq) => seq[n + 1] \notin expired

\* timeoutLoop, case ticker: checkQueueTimeout answers from the front and stops
\* at the first request still within its timeout.
CheckQueueTimeout(q) ==
    /\ loop[q] = "run"
    /\ \E n \in 1..Len(content[q]) :
         /\ ExpiredPrefix(content[q], n)
         /\ Answer(SubSeq(content[q], 1, n))
         /\ content' = [content EXCEPT ![q] = SubSeq(@, n + 1, Len(@))]
    /\ UNCHANGED <<mapVars, queueVars, asyncVars, updateVars, callVars,
                   expired>>

\* Faulty variant: the loop returns without clearing the queue.
StopLoopOnly(q) ==
    /\ loop[q] = "run" /\ ~running[q]
    /\ loop' = [loop EXCEPT ![q] = "ended"]
    /\ UNCHANGED <<mapVars, queueCount, running, asyncVars, updateVars, callVars,
                   content, expired, answers>>

\* timeoutLoop, case stopCh: what is queued is answered, and the loop ends.
StopLoop(q) ==
    /\ loop[q] = "run" /\ ~running[q]
    /\ ClearQueueWithError(q, ResSpecOf(q))
    /\ loop' = [loop EXCEPT ![q] = "ended"]
    /\ UNCHANGED <<mapVars, queueCount, running, coldStarts, destroyCalls,
                   deleting, updateVars, callVars, expired>>

-----------------------------------------------------------------------------
(* Deleting queues *)

\* The function leaves queuesMap; its inner map keeps its entries and is
\* walked after the lock is released.
ProcessFunctionDelete ==
    /\ queuesMap # 0 /\ deleting = 0
    /\ deleting' = queuesMap
    /\ queuesMap' = 0
    /\ UNCHANGED <<mapCount, queues, queueVars, coldStarts, emptyCalls,
                   destroyCalls, updateVars, callVars, content, expired,
                   answers>>

DestroyDeleted ==
    /\ deleting # 0
    /\ deleting' = 0
    /\ destroyCalls' = destroyCalls \union (Range(queues[deleting]) \ {0})
    /\ UNCHANGED <<mapVars, queueVars, coldStarts, emptyCalls, updateVars,
                   callVars, content, expired, answers>>

\* The queues of one label leave the inner map, and are destroyed after the
\* lock is released.
ProcessInsConfigDelete(label) ==
    LET ss == {s \in ResSpecs : InvokeLabel[s] = label} IN
    /\ queuesMap # 0
    /\ Unmap(queuesMap, ss)
    /\ destroyCalls' =
         destroyCalls \union ({queues[queuesMap][s] : s \in ss} \ {0})
    /\ UNCHANGED <<queueVars, coldStarts, emptyCalls, deleting, updateVars,
                   callVars, content, expired, answers>>

\* A destroy() that was left to run outside the manager's lock.
Destroy(q) ==
    /\ q \in destroyCalls
    /\ destroyCalls' = destroyCalls \ {q}
    /\ running' = Destroyed({q})
    /\ UNCHANGED <<mapVars, queueCount, loop, coldStarts, emptyCalls, deleting,
                   updateVars, callVars, content, expired, answers>>

-----------------------------------------------------------------------------
Caller(r) ==
    \/ AddPendingRequest(r) \/ RejectRequest(r)
    \/ CreateMap(r) \/ ReadMap(r) \/ CreateQueue(r) \/ AddToQueue(r)
    \/ Receive(r)

Next ==
    \/ \E r \in Requests : Caller(r) \/ Expire(r)
    \/ \E s \in ResSpecs : ProcessInstanceUpdate(s) \/ ProcessQueueEmpty(s)
    \/ \E q \in Queues : \/ ColdStartReturns(q) \/ CheckQueueTimeout(q)
                         \/ StopLoop(q) \/ Destroy(q)
    \/ \E label \in Range(InvokeLabel) : ProcessInsConfigDelete(label)
    \/ RemoveEmptyQueue \/ ProcessFunctionDelete \/ DestroyDeleted

Spec == Init /\ [][Next]_vars

(***************************************************************************)
(* Every started goroutine is scheduled, time passes, the ticker fires     *)
(* again and again, and a closed stopCh stays ready.  Nothing is assumed   *)
(* of the events that deliver instances or delete functions, nor that a    *)
(* cold start ever returns.                                                *)
(***************************************************************************)
FairSpec ==
    /\ Spec
    /\ \A r \in Requests : WF_vars(Caller(r)) /\ WF_vars(Expire(r))
    /\ \A s \in ResSpecs : WF_vars(ProcessQueueEmpty(s))
    /\ \A q \in Queues : /\ WF_vars(CheckQueueTimeout(q))
                         /\ WF_vars(StopLoop(q))
                         /\ WF_vars(Destroy(q))
    /\ WF_vars(RemoveEmptyQueue) /\ WF_vars(DestroyDeleted)

-----------------------------------------------------------------------------
(* Properties *)

(* Every variable stays within its declared range. *)
TypeOK ==
    /\ mapCount \in 0..MaxMaps /\ queuesMap \in 0..mapCount
    /\ queues \in [Maps -> [ResSpecs -> 0..queueCount]]
    /\ queueCount \in 0..MaxQueues
    /\ content \in [Queues -> Seq(Requests)]
    /\ running \in [Queues -> BOOLEAN]
    /\ loop \in [Queues -> {"none", "run", "ended"}]
    /\ coldStarts \in [Queues -> Nat]
    /\ emptyCalls \in [ResSpecs -> Nat]
    /\ destroyCalls \subseteq Queues
    /\ deleting \in 0..mapCount
    /\ update \in Updates \union {NoUpdate} /\ updates \in 0..MaxUpdates
    /\ pc \in [Requests -> {"idle", "noMap", "gotMap", "noQueue", "gotQueue",
                            "waiting", "done"}]
    /\ reqRes \in [Requests -> ResSpecs]
    /\ reqMap \in [Requests -> 0..mapCount]
    /\ reqQ \in [Requests -> 0..queueCount]
    /\ expired \subseteq Requests
    /\ answers \in [Requests -> Nat]

(* A queue reachable through queuesMap runs its timeout loop and no          *)
(* destroy() is on its way to it: each of the five ways a queue is torn      *)
(* down unmaps it in the same hold of the lock (or earlier), so an           *)
(* AddPendingRequest that keeps the read lock from look-up to push never     *)
(* adds to a dying queue.                                                    *)
MappedQueueRuns ==
    queuesMap # 0 =>
        \A s \in ResSpecs :
            LET q == queues[queuesMap][s] IN
            q # 0 => running[q] /\ loop[q] = "run" /\ q \notin destroyCalls

\* Places of r in the queues.
Places(r) == UNION {{<<q, i>> : i \in {j \in 1..Len(content[q]) : content[q][j] = r}} :
                      q \in Queues}

(* While queues stay below the limit a request that waits is in exactly one  *)
(* place of one queue until it is answered, and in none afterwards: instance *)
(* updates, time-outs, failed cold starts and stops racing on one queue      *)
(* neither lose a request nor answer it twice (a second answer could block   *)
(* the sender, who holds the queue's mutex, on the one-slot ResultChan).     *)
AnsweredOnce ==
    \A r \in Requests :
        /\ answers[r] <= 1
        /\ IF pc[r] = "waiting" /\ answers[r] = 0
             THEN \E p \in Places(r) : Places(r) = {p}
             ELSE Places(r) = {}

(* A request in a queue whose timeout loop runs is answered in the end, even *)
(* if no instance ever comes up: by its timeout, or by the stop of the       *)
(* queue.                                                                    *)
LoopAnswers ==
    \A r \in Requests, q \in Queues :
        (r \in Range(content[q]) /\ loop[q] = "run") ~> answers[r] > 0

(* The queue never holds more requests than its limit ("queue has too many   *)
(* requests").                                                               *)
QueueBounded == \A q \in Queues : Len(content[q]) <= Limit

(* Every request that was added is answered in the end.                      *)
EveryRequestAnswered ==
    \A r \in Requests : pc[r] = "waiting" ~> answers[r] > 0
=============================================================================
