-------------------------- MODULE PendingQueueProofs --------------------------
(***************************************************************************)
(* Proofs about PendingQueue, for any requests, specifications, labels and  *)
(* bounds: the types, that a mapped queue runs, and that as long as no      *)
(* queue outgrows its limit a request is queued and answered once.          *)
(***************************************************************************)
EXTENDS PendingQueue, FiniteSetTheorems, TLAPS

\* The local variables of AddPendingRequest are set where they are used.
CallInv ==
    \A r \in Requests :
        /\ pc[r] \in {"gotMap", "noQueue"} => reqMap[r] # 0
        /\ pc[r] = "gotQueue" => reqQ[r] # 0

TypeInv == TypeOK /\ CallInv

-----------------------------------------------------------------------------
(* Types *)

\* The counters and their bounds are numbers.
LEMMA CountsNat ==
    ASSUME TypeInv
    PROVE  /\ mapCount \in Nat /\ queueCount \in Nat /\ updates \in Nat
           /\ MaxMaps \in Nat /\ MaxQueues \in Nat /\ MaxUpdates \in Nat
BY BoundAssumption DEF TypeInv, TypeOK

\* What is not 0 is a map or a queue.
LEMMA Shape ==
    ASSUME TypeInv
    PROVE  /\ 1..mapCount \subseteq Maps
           /\ queuesMap # 0 => queuesMap \in 1..mapCount
           /\ deleting # 0 => deleting \in 1..mapCount
           /\ \A r \in Requests : reqMap[r] # 0 => reqMap[r] \in 1..mapCount
           /\ \A r \in Requests : reqQ[r] # 0 => reqQ[r] \in Queues
           /\ \A m \in Maps, s \in ResSpecs :
                /\ queues[m][s] \in 0..queueCount
                /\ queues[m][s] # 0 => queues[m][s] \in Queues
<1>0. /\ mapCount \in Nat /\ queueCount \in Nat
      /\ MaxMaps \in Nat /\ MaxQueues \in Nat
  BY CountsNat
<1>1. 1..mapCount \subseteq Maps /\ 1..queueCount \subseteq Queues
  <2>1. mapCount <= MaxMaps /\ queueCount <= MaxQueues BY <1>0 DEF TypeInv, TypeOK
  <2> QED BY <1>0, <2>1 DEF Maps, Queues
<1>2. \A r \in Requests : reqMap[r] \in 0..mapCount /\ reqQ[r] \in 0..queueCount
  BY DEF TypeInv, TypeOK
<1>3. \A m \in Maps, s \in ResSpecs : queues[m][s] \in 0..queueCount
  BY DEF TypeInv, TypeOK
<1>4. queuesMap \in 0..mapCount /\ deleting \in 0..mapCount
  BY DEF TypeInv, TypeOK
<1> QED BY <1>0, <1>1, <1>2, <1>3, <1>4

\* Answering a sequence changes answers by 0 or 1.
LEMMA AnswerType ==
    ASSUME answers \in [Requests -> Nat], NEW seq, Answer(seq)
    PROVE  answers' \in [Requests -> Nat]
BY DEF Answer

\* What is left of a queue after its first n requests.
LEMMA RestType ==
    ASSUME NEW seq \in Seq(Requests), NEW n \in 0..Len(seq)
    PROVE  /\ SubSeq(seq, n + 1, Len(seq)) \in Seq(Requests)
           /\ Len(SubSeq(seq, n + 1, Len(seq))) = Len(seq) - n
           /\ \A i \in 1..(Len(seq) - n) : SubSeq(seq, n + 1, Len(seq))[i] = seq[i + n]
OBVIOUS

LEMMA UnmapType ==
    ASSUME TypeOK, NEW m \in Maps, NEW ss, Unmap(m, ss)
    PROVE  /\ queues' \in [Maps -> [ResSpecs -> 0..queueCount]]
           /\ queuesMap' \in {0, queuesMap} /\ mapCount' = mapCount
BY DEF TypeOK, Unmap

\* Push leaves the types of what it changes.
LEMMA PushType ==
    ASSUME TypeInv, NEW r \in Requests, NEW q \in Queues, Push(r, q)
    PROVE  /\ answers' \in [Requests -> Nat]
           /\ content' \in [Queues -> Seq(Requests)]
           /\ coldStarts' \in [Queues -> Nat]
           /\ pc' \in [Requests -> {"idle", "noMap", "gotMap", "noQueue", "gotQueue",
                            "waiting", "done"}]
           /\ pc' = [pc EXCEPT ![r] = "waiting"]
           /\ UNCHANGED <<mapVars, queueVars, emptyCalls, destroyCalls, deleting,
                   updateVars, reqRes, expired>>
<1>1. content[q] \in Seq(Requests) /\ Append(content[q], r) \in Seq(Requests)
  BY DEF TypeInv, TypeOK
<1> QED BY <1>1 DEF TypeInv, TypeOK, Push

LEMMA LookUpType ==
    ASSUME TypeInv, NEW r \in Requests, NEW m \in 1..mapCount, LookUpQueue(r, m)
    PROVE  TypeInv'
<1>0. /\ m \in Maps /\ queues[m][reqRes[r]] \in 0..queueCount
      /\ m \in 0..mapCount /\ m # 0 /\ queueCount \in Nat
      /\ queues[m][reqRes[r]] # 0 => queues[m][reqRes[r]] \in Queues
  <2>1. reqRes[r] \in ResSpecs BY DEF TypeInv, TypeOK
  <2> QED BY <2>1, Shape, CountsNat
<1>1. CASE queues[m][reqRes[r]] # 0
  <2>1. queues[m][reqRes[r]] \in Queues BY <1>0, <1>1
  <2>2. /\ Push(r, queues[m][reqRes[r]])
        /\ reqQ' = [reqQ EXCEPT ![r] = queues[m][reqRes[r]]]
        /\ reqMap' = [reqMap EXCEPT ![r] = m]
    BY <1>1 DEF LookUpQueue
  <2> QED BY <1>0, <2>1, <2>2, PushType
          DEF TypeInv, TypeOK, CallInv, mapVars, queueVars, updateVars
<1>2. CASE queues[m][reqRes[r]] = 0
  BY <1>0, <1>2 DEF LookUpQueue, TypeInv, TypeOK, CallInv, mapVars, queueVars, updateVars, asyncVars
<1> QED BY <1>1, <1>2

LEMMA CreateType ==
    ASSUME TypeInv, NEW r \in Requests, CreateMap(r) \/ CreateQueue(r)
    PROVE  TypeInv'
<1>1. CASE CreateMap(r)
  <2>1. mapCount \in Nat /\ MaxMaps \in Nat BY CountsNat
  <2>2. CASE queuesMap # 0
    BY <1>1, <2>1, <2>2 DEF CreateMap, TypeInv, TypeOK, CallInv, mapVars, queueVars, updateVars, asyncVars
  <2>3. CASE queuesMap = 0
    <3>1. /\ mapCount' = mapCount + 1 /\ mapCount' \in 0..MaxMaps /\ queuesMap' = mapCount + 1
          /\ reqMap' = [reqMap EXCEPT ![r] = mapCount + 1] /\ 0..mapCount \subseteq 0..mapCount'
      BY <1>1, <2>1, <2>3 DEF CreateMap
    <3>2. reqMap' \in [Requests -> 0..mapCount'] /\ queuesMap' \in 0..mapCount'
      BY <2>1, <3>1 DEF TypeInv, TypeOK
    <3>3. deleting' \in 0..mapCount' BY <1>1, <3>1 DEF CreateMap, TypeInv, TypeOK, asyncVars
    <3>4. TypeOK'
      BY <1>1, <2>3, <3>1, <3>2, <3>3 DEF CreateMap, TypeInv, TypeOK, queueVars, updateVars, asyncVars
    <3>5. CallInv'
      BY <1>1, <2>1, <3>1 DEF CreateMap, TypeInv, TypeOK, CallInv
    <3> QED BY <3>4, <3>5 DEF TypeInv
  <2> QED BY <2>2, <2>3
<1>2. CASE CreateQueue(r)
  <2>0. reqMap[r] # 0 BY <1>2 DEF CreateQueue, TypeInv, CallInv
  <2>1. reqMap[r] \in Maps /\ queueCount \in Nat /\ MaxQueues \in Nat
    BY <2>0, Shape, CountsNat
  <2>2. CASE queues[reqMap[r]][reqRes[r]] # 0
    BY <1>2, <2>1, <2>2 DEF CreateQueue, TypeInv, TypeOK, CallInv, mapVars, queueVars, updateVars, asyncVars
  <2>3. CASE queues[reqMap[r]][reqRes[r]] = 0
    <3>1. /\ queueCount' = queueCount + 1 /\ queueCount' \in Queues
          /\ queues' = [queues EXCEPT ![reqMap[r]][reqRes[r]] = queueCount']
          /\ running' = [running EXCEPT ![queueCount'] = TRUE]
          /\ loop' = [loop EXCEPT ![queueCount'] = "run"]
      BY <1>2, <2>1, <2>3 DEF CreateQueue, Queues
    <3>2. /\ queues' \in [Maps -> [ResSpecs -> 0..queueCount']]
          /\ queues'[reqMap[r]][reqRes[r]] = queueCount'
          /\ 0..queueCount \subseteq 0..queueCount'
      <4>1. 0..queueCount \subseteq 0..queueCount' /\ queueCount' \in 0..queueCount'
        BY <2>1, <3>1
      <4>2. reqRes[r] \in ResSpecs BY DEF TypeInv, TypeOK
      <4>3. queues \in [Maps -> [ResSpecs -> 0..queueCount']]
        BY <4>1 DEF TypeInv, TypeOK
      <4> QED BY <2>1, <3>1, <4>1, <4>2, <4>3
    <3>3. /\ reqQ' = [reqQ EXCEPT ![r] = queueCount']
          /\ pc' = [pc EXCEPT ![r] = "gotQueue"]
          /\ UNCHANGED <<queuesMap, mapCount, asyncVars, updateVars, reqRes, reqMap,
                   content, expired, answers>>
      BY <1>2, <3>2 DEF CreateQueue
    <3>4. queueCount' \in 0..MaxQueues /\ queueCount' # 0 BY <2>1, <3>1 DEF Queues
    <3>5. reqQ' \in [Requests -> 0..queueCount']
      BY <2>1, <3>1, <3>2, <3>3 DEF TypeInv, TypeOK
    <3>6. TypeOK'
      BY <3>1, <3>2, <3>3, <3>4, <3>5 DEF TypeInv, TypeOK, updateVars, asyncVars
    <3>7. CallInv' BY <3>3, <3>4 DEF TypeInv, TypeOK, CallInv
    <3> QED BY <3>6, <3>7 DEF TypeInv
  <2> QED BY <2>2, <2>3
<1> QED BY <1>1, <1>2

\* Every step of the specification keeps the types.
LEMMA TypeStep == TypeInv /\ [Next]_vars => TypeInv'
<1> SUFFICES ASSUME TypeInv, [Next]_vars PROVE TypeInv' OBVIOUS
<1> USE DEF mapVars, queueVars, updateVars, asyncVars, callVars
<1>0. /\ queuesMap # 0 => queuesMap \in Maps /\ queuesMap \in 1..mapCount
      /\ \A r \in Requests : reqMap[r] # 0 => reqMap[r] \in 1..mapCount
      /\ \A m \in Maps, s \in ResSpecs : queues[m][s] # 0 => queues[m][s] \in Queues
  BY Shape
<1>1. ASSUME NEW r \in Requests, AddPendingRequest(r) PROVE TypeInv'
  <2>1. CASE queuesMap # 0 BY <1>0, <1>1, <2>1, LookUpType DEF AddPendingRequest
  <2>2. CASE queuesMap = 0 BY <1>1, <2>2 DEF AddPendingRequest, TypeInv, TypeOK, CallInv
  <2> QED BY <2>1, <2>2
<1>2. ASSUME NEW r \in Requests, RejectRequest(r) PROVE TypeInv'
  BY <1>2, AnswerType DEF RejectRequest, TypeInv, TypeOK, CallInv
<1>3. ASSUME NEW r \in Requests, CreateMap(r) \/ CreateQueue(r) PROVE TypeInv'
  BY <1>3, CreateType
<1>4. ASSUME NEW r \in Requests, ReadMap(r) PROVE TypeInv'
  <2>1. reqMap[r] \in 1..mapCount BY <1>0, <1>4 DEF ReadMap, TypeInv, CallInv
  <2> QED BY <1>4, <2>1, LookUpType DEF ReadMap
<1>5. ASSUME NEW r \in Requests, AddToQueue(r) PROVE TypeInv'
  <2>1. reqQ[r] \in Queues /\ Push(r, reqQ[r]) /\ UNCHANGED <<reqMap, reqQ>>
    <3>1. reqQ[r] # 0 BY <1>5 DEF AddToQueue, TypeInv, CallInv
    <3> QED BY <1>5, <3>1, Shape DEF AddToQueue
  <2> QED BY <2>1, PushType DEF TypeInv, TypeOK, CallInv
<1>6. ASSUME NEW r \in Requests, Receive(r) \/ Expire(r) PROVE TypeInv'
  BY <1>6 DEF Receive, Expire, TypeInv, TypeOK, CallInv
<1>7. ASSUME NEW s \in ResSpecs, ProcessInstanceUpdate(s) PROVE TypeInv'
  <2>1. PICK q \in Queues : q = queues[queuesMap][s] BY <1>0, <1>7 DEF ProcessInstanceUpdate
  <2>2. content[q] \in Seq(Requests) BY DEF TypeInv, TypeOK
  <2>3. PICK n \in 0..Len(content[q]) :
          /\ HandleInstanceUpdate(q, s, n)
          /\ \/ update' = [m |-> queuesMap, s |-> s, q |-> q]
             \/ update' = update
    BY <1>7, <2>1 DEF ProcessInstanceUpdate
  <2>4. SubSeq(content[q], n + 1, Len(content[q])) \in Seq(Requests) BY <2>2, RestType
  <2>5. /\ answers' \in [Requests -> Nat] /\ content' \in [Queues -> Seq(Requests)]
        /\ emptyCalls' \in [ResSpecs -> Nat]
    BY <2>3, <2>4, AnswerType DEF HandleInstanceUpdate, TypeInv, TypeOK
  <2>6. update' \in Updates \cup {NoUpdate} /\ updates' \in 0..MaxUpdates
    <3>1. updates \in Nat /\ MaxUpdates \in Nat BY CountsNat
    <3> QED BY <1>0, <1>7, <2>3, <3>1 DEF ProcessInstanceUpdate, TypeInv, TypeOK, Updates
  <2> QED BY <1>7, <2>5, <2>6 DEF ProcessInstanceUpdate, TypeInv, TypeOK, CallInv
<1>8. ASSUME RemoveEmptyQueue PROVE TypeInv'
  <2>1. update.m \in Maps BY <1>8 DEF RemoveEmptyQueue, TypeInv, TypeOK, Updates
  <2>2. /\ queues' \in [Maps -> [ResSpecs -> 0..queueCount]]
        /\ queuesMap' \in 0..mapCount /\ mapCount' = mapCount
        /\ running' \in [Queues -> BOOLEAN]
    <3>1. CASE content[update.q] = <<>>
      <4>1. Unmap(update.m, {update.s}) /\ running' = Destroyed({update.q})
        BY <1>8, <3>1 DEF RemoveEmptyQueue
      <4>2. TypeOK BY DEF TypeInv
      <4>3. 0 \in 0..mapCount BY CountsNat
      <4>4. running' \in [Queues -> BOOLEAN] BY <4>1, <4>2 DEF Destroyed, TypeOK
      <4> QED BY <2>1, <4>1, <4>2, <4>3, <4>4, UnmapType DEF TypeOK
    <3>2. CASE content[update.q] # <<>>
      BY <1>8, <3>2 DEF RemoveEmptyQueue, TypeInv, TypeOK
    <3> QED BY <3>1, <3>2
  <2> QED BY <1>8, <2>2 DEF RemoveEmptyQueue, TypeInv, TypeOK, CallInv
<1>9. ASSUME NEW s \in ResSpecs, ProcessQueueEmpty(s) PROVE TypeInv'
  <2>1. /\ queues' \in [Maps -> [ResSpecs -> 0..queueCount]]
        /\ queuesMap' \in 0..mapCount /\ mapCount' = mapCount
        /\ destroyCalls' \subseteq Queues
    <3>1. CASE /\ queuesMap # 0 /\ queues[queuesMap][s] # 0
               /\ content[queues[queuesMap][s]] = <<>>
      <4>1. /\ Unmap(queuesMap, {s}) /\ queuesMap \in Maps /\ TypeOK
            /\ destroyCalls' = destroyCalls \cup {queues[queuesMap][s]}
            /\ queues[queuesMap][s] \in Queues
        BY <1>0, <1>9, <3>1 DEF ProcessQueueEmpty, TypeInv
      <4>2. 0 \in 0..mapCount BY CountsNat
      <4> QED BY <4>1, <4>2, UnmapType DEF TypeOK
    <3>2. CASE ~ (/\ queuesMap # 0 /\ queues[queuesMap][s] # 0
                  /\ content[queues[queuesMap][s]] = <<>>)
      BY <1>9, <3>2 DEF ProcessQueueEmpty, TypeInv, TypeOK
    <3> QED BY <3>1, <3>2
  <2>2. emptyCalls' \in [ResSpecs -> Nat] BY <1>9 DEF ProcessQueueEmpty, TypeInv, TypeOK
  <2> QED BY <1>9, <2>1, <2>2 DEF ProcessQueueEmpty, TypeInv, TypeOK, CallInv
<1>10. ASSUME NEW q \in Queues, ColdStartReturns(q) \/ StopLoop(q) PROVE TypeInv'
  <2>1. \/ UNCHANGED <<content, emptyCalls, answers>>
        \/ ClearQueueWithError(q, ResSpecOf(q))
    BY <1>10 DEF ColdStartReturns, StopLoop
  <2>2. /\ content' \in [Queues -> Seq(Requests)] /\ answers' \in [Requests -> Nat]
        /\ emptyCalls' \in [ResSpecs -> Nat]
    <3>1. CASE ClearQueueWithError(q, ResSpecOf(q))
      <4>1. content' \in [Queues -> Seq(Requests)]
        BY <3>1 DEF ClearQueueWithError, TypeInv, TypeOK
      <4>2. answers' \in [Requests -> Nat]
        BY <3>1, AnswerType DEF ClearQueueWithError, TypeInv, TypeOK
      <4>3. PICK x : emptyCalls' = [emptyCalls EXCEPT ![x] = @ + 1]
        BY <3>1 DEF ClearQueueWithError
      <4>4. emptyCalls' \in [ResSpecs -> Nat]
        <5>1. emptyCalls \in [ResSpecs -> Nat] BY DEF TypeInv, TypeOK
        <5>2. CASE x \in ResSpecs BY <4>3, <5>1, <5>2
        <5>3. CASE x \notin ResSpecs
          <6>1. emptyCalls' = emptyCalls BY <4>3, <5>1, <5>3
          <6> QED BY <5>1, <6>1
        <5> QED BY <5>2, <5>3
      <4> QED BY <4>1, <4>2, <4>4
    <3>2. CASE UNCHANGED <<content, emptyCalls, answers>> BY <3>2 DEF TypeInv, TypeOK
    <3> QED BY <2>1, <3>1, <3>2
  <2>3. CASE ColdStartReturns(q)
    <3>1. coldStarts' \in [Queues -> Nat] BY <2>3 DEF ColdStartReturns, TypeInv, TypeOK
    <3> QED BY <2>2, <2>3, <3>1 DEF ColdStartReturns, TypeInv, TypeOK, CallInv
  <2>4. CASE StopLoop(q) BY <2>2, <2>4 DEF StopLoop, TypeInv, TypeOK, CallInv
  <2> QED BY <1>10, <2>3, <2>4
<1>11. ASSUME NEW q \in Queues, CheckQueueTimeout(q) PROVE TypeInv'
  <2>1. PICK n \in 1..Len(content[q]) :
          /\ Answer(SubSeq(content[q], 1, n))
          /\ content' = [content EXCEPT ![q] = SubSeq(@, n + 1, Len(@))]
    BY <1>11 DEF CheckQueueTimeout
  <2>2. content[q] \in Seq(Requests) /\ n \in 0..Len(content[q]) BY DEF TypeInv, TypeOK
  <2>3. content' \in [Queues -> Seq(Requests)] /\ answers' \in [Requests -> Nat]
    BY <2>1, <2>2, RestType, AnswerType DEF TypeInv, TypeOK
  <2> QED BY <1>11, <2>3 DEF CheckQueueTimeout, TypeInv, TypeOK, CallInv
<1>12. ASSUME NEW q \in Queues, Destroy(q) PROVE TypeInv'
  BY <1>12 DEF Destroy, Destroyed, TypeInv, TypeOK, CallInv
<1>13. ASSUME NEW label \in Range(InvokeLabel), ProcessInsConfigDelete(label) PROVE TypeInv'
  <2>1. /\ queues' \in [Maps -> [ResSpecs -> 0..queueCount]]
        /\ queuesMap' \in 0..mapCount /\ mapCount' = mapCount
    BY <1>0, <1>13, UnmapType DEF ProcessInsConfigDelete, TypeInv, TypeOK
  <2>2. destroyCalls' \subseteq Queues
    BY <1>0, <1>13 DEF ProcessInsConfigDelete, TypeInv, TypeOK
  <2> QED BY <1>13, <2>1, <2>2 DEF ProcessInsConfigDelete, TypeInv, TypeOK, CallInv
<1>14. ASSUME ProcessFunctionDelete PROVE TypeInv'
  BY <1>14 DEF ProcessFunctionDelete, TypeInv, TypeOK, CallInv
<1>15. ASSUME DestroyDeleted PROVE TypeInv'
  <2>1. deleting \in Maps /\ Range(queues[deleting]) \ {0} \subseteq Queues
    <3>1. deleting \in Maps BY <1>15, Shape DEF DestroyDeleted
    <3>2. DOMAIN queues[deleting] = ResSpecs BY <3>1 DEF TypeInv, TypeOK
    <3> QED BY <1>0, <3>1, <3>2 DEF Range
  <2> QED BY <1>15, <2>1 DEF DestroyDeleted, TypeInv, TypeOK, CallInv
<1>16. CASE UNCHANGED vars BY <1>16 DEF vars, TypeInv, TypeOK, CallInv
<1> QED BY <1>1, <1>2, <1>3, <1>4, <1>5, <1>6, <1>7, <1>8, <1>9, <1>10, <1>11, <1>12,
           <1>13, <1>14, <1>15, <1>16 DEF Next, Caller

-----------------------------------------------------------------------------
(* What a step does to the queues and to the answers *)

\* The first n requests leave queue q, each with an answer.
Taken(q, n) ==
    /\ n \in 0..Len(content[q])
    /\ \A p \in Queues \ {q} : content'[p] = content[p]
    /\ Len(content'[q]) = Len(content[q]) - n
    /\ \A i \in 1..(Len(content[q]) - n) : content'[q][i] = content[q][i + n]
    /\ \A r \in Requests :
         answers'[r] = IF \E i \in 1..n : content[q][i] = r THEN answers[r] + 1
                                                            ELSE answers[r]
    /\ pc' = pc

\* A request enters queue q; it is answered when it finds the queue at its limit.
Pushed(r, q) ==
    /\ pc[r] \notin {"waiting", "done"}
    /\ pc' = [pc EXCEPT ![r] = "waiting"]
    /\ content' = [content EXCEPT ![q] = Append(@, r)]
    /\ \A x \in Requests \ {r} : answers'[x] = answers[x]
    /\ answers'[r] = IF Len(content[q]) >= Limit THEN answers[r] + 1 ELSE answers[r]

\* A request is answered without being queued.
Rejected(r) ==
    /\ pc[r] = "idle"
    /\ pc' = [pc EXCEPT ![r] = "waiting"]
    /\ content' = content
    /\ \A x \in Requests \ {r} : answers'[x] = answers[x]
    /\ answers'[r] = answers[r] + 1

\* Nothing enters or leaves a queue, and nothing is answered.
Quiet ==
    /\ content' = content
    /\ answers' = answers
    /\ \A r \in Requests :
         \/ pc'[r] = pc[r]
         \/ pc[r] \notin {"waiting", "done"} /\ pc'[r] \notin {"waiting", "done"}
         \/ pc[r] = "waiting" /\ answers[r] > 0 /\ pc'[r] = "done"

LEMMA ClearTakes ==
    ASSUME TypeInv, NEW q \in Queues, NEW s, ClearQueueWithError(q, s), pc' = pc
    PROVE  Taken(q, Len(content[q]))
<1>1. content[q] \in Seq(Requests) BY DEF TypeInv, TypeOK
<1>2. content \in [Queues -> Seq(Requests)] BY DEF TypeInv, TypeOK
<1>3. content' = [content EXCEPT ![q] = <<>>] BY DEF ClearQueueWithError
<1>4. \A r \in Requests :
         answers'[r] = IF \E i \in 1..Len(content[q]) : content[q][i] = r
                         THEN answers[r] + 1 ELSE answers[r]
  BY <1>1 DEF ClearQueueWithError, Answer, Range
<1>5. content'[q] = <<>> /\ \A p \in Queues \ {q} : content'[p] = content[p]
  BY <1>2, <1>3
<1>6. Len(content[q]) \in Nat /\ Len(content'[q]) = 0 BY <1>1, <1>5
<1> QED BY <1>4, <1>5, <1>6 DEF Taken

LEMMA PrefixTakes ==
    ASSUME TypeInv, NEW q \in Queues, NEW n \in 0..Len(content[q]), pc' = pc,
           Answer(SubSeq(content[q], 1, n)),
           content' = [content EXCEPT ![q] = SubSeq(content[q], n + 1, Len(content[q]))]
    PROVE  Taken(q, n)
<1>1. content[q] \in Seq(Requests) /\ Len(content[q]) \in Nat BY DEF TypeInv, TypeOK
<1>2. content \in [Queues -> Seq(Requests)] BY DEF TypeInv, TypeOK
<1>3. /\ content'[q] = SubSeq(content[q], n + 1, Len(content[q]))
      /\ \A p \in Queues \ {q} : content'[p] = content[p]
  BY <1>2
<1>4. /\ Len(content'[q]) = Len(content[q]) - n
      /\ \A i \in 1..(Len(content[q]) - n) : content'[q][i] = content[q][i + n]
  BY <1>1, <1>3, RestType
<1>5. \A r : r \in Range(SubSeq(content[q], 1, n)) <=> \E i \in 1..n : content[q][i] = r
  <2>1. /\ DOMAIN SubSeq(content[q], 1, n) = 1..n
        /\ \A i \in 1..n : SubSeq(content[q], 1, n)[i] = content[q][i]
    BY <1>1
  <2> QED BY <2>1 DEF Range
<1>6. \A r \in Requests :
         answers'[r] = IF \E i \in 1..n : content[q][i] = r THEN answers[r] + 1
                                                            ELSE answers[r]
  BY <1>5 DEF Answer
<1> QED BY <1>3, <1>4, <1>6 DEF Taken

LEMMA PushPushes ==
    ASSUME TypeInv, NEW r \in Requests, NEW q \in Queues, Push(r, q),
           pc[r] \notin {"waiting", "done"}
    PROVE  Pushed(r, q)
BY DEF Push, Pushed, TypeInv, TypeOK

\* A look-up pushes the request, or only moves it on.
LEMMA LookUpEffect ==
    ASSUME TypeInv, NEW r \in Requests, NEW m \in 1..mapCount, LookUpQueue(r, m),
           pc[r] \notin {"waiting", "done"}
    PROVE  Quiet \/ \E q \in Queues : Pushed(r, q)
<1>1. m \in Maps /\ reqRes[r] \in ResSpecs BY Shape DEF TypeInv, TypeOK
<1>2. CASE queues[m][reqRes[r]] # 0
  <2>1. queues[m][reqRes[r]] \in Queues /\ Push(r, queues[m][reqRes[r]])
    BY <1>1, <1>2, Shape DEF LookUpQueue
  <2> QED BY <2>1, PushPushes
<1>3. CASE queues[m][reqRes[r]] = 0
  BY <1>3 DEF LookUpQueue, Quiet, TypeInv, TypeOK
<1> QED BY <1>2, <1>3

\* Every step is one of the four.
LEMMA Effects ==
    ASSUME TypeInv, [Next]_vars
    PROVE  \/ \E q \in Queues, n \in Nat : Taken(q, n)
           \/ \E r \in Requests, q \in Queues : Pushed(r, q)
           \/ \E r \in Requests : Rejected(r)
           \/ Quiet
<1> DEFINE Goal == \/ \E q \in Queues, n \in Nat : Taken(q, n)
                   \/ \E r \in Requests, q \in Queues : Pushed(r, q)
                   \/ \E r \in Requests : Rejected(r)
                   \/ Quiet
<1>0. \A q \in Queues : Len(content[q]) \in Nat BY DEF TypeInv, TypeOK
<1>1. ASSUME NEW r \in Requests, AddPendingRequest(r) PROVE Goal
  <2>1. CASE queuesMap # 0
    <3>1. queuesMap \in 1..mapCount /\ LookUpQueue(r, queuesMap) /\ pc[r] = "idle"
      BY <1>1, <2>1, Shape DEF AddPendingRequest
    <3> QED BY <3>1, LookUpEffect
  <2>2. CASE queuesMap = 0
    BY <1>1, <2>2 DEF AddPendingRequest, Quiet, TypeInv, TypeOK
  <2> QED BY <2>1, <2>2
<1>2. ASSUME NEW r \in Requests, RejectRequest(r) PROVE Goal
  <2>1. Range(<<r>>) = {r} BY DEF Range
  <2>2. Rejected(r) BY <1>2, <2>1 DEF RejectRequest, Rejected, Answer, TypeInv, TypeOK
  <2> QED BY <2>2
<1>3. ASSUME NEW r \in Requests, CreateMap(r) \/ CreateQueue(r) \/ Receive(r) PROVE Goal
  <2>1. Quiet BY <1>3 DEF CreateMap, CreateQueue, Receive, Quiet, TypeInv, TypeOK
  <2> QED BY <2>1
<1>4. ASSUME NEW r \in Requests, ReadMap(r) PROVE Goal
  <2>1. reqMap[r] # 0 BY <1>4 DEF ReadMap, TypeInv, CallInv
  <2>2. reqMap[r] \in 1..mapCount /\ LookUpQueue(r, reqMap[r]) /\ pc[r] = "gotMap"
    BY <1>4, <2>1, Shape DEF ReadMap
  <2> QED BY <2>2, LookUpEffect
<1>5. ASSUME NEW r \in Requests, AddToQueue(r) PROVE Goal
  <2>1. reqQ[r] # 0 BY <1>5 DEF AddToQueue, TypeInv, CallInv
  <2>2. reqQ[r] \in Queues /\ Push(r, reqQ[r]) /\ pc[r] = "gotQueue"
    BY <1>5, <2>1, Shape DEF AddToQueue
  <2> QED BY <2>2, PushPushes
<1>6. ASSUME NEW s \in ResSpecs, ProcessInstanceUpdate(s) PROVE Goal
  <2>1. queuesMap \in Maps /\ queues[queuesMap][s] \in Queues
    BY <1>6, Shape DEF ProcessInstanceUpdate
  <2>2. PICK q \in Queues : q = queues[queuesMap][s] BY <2>1
  <2>3. PICK n \in 0..Len(content[q]) : HandleInstanceUpdate(q, s, n)
    BY <1>6, <2>2 DEF ProcessInstanceUpdate
  <2>4. pc' = pc BY <1>6 DEF ProcessInstanceUpdate, callVars
  <2>5. Taken(q, n) BY <2>3, <2>4, PrefixTakes DEF HandleInstanceUpdate
  <2> QED BY <1>0, <2>5
<1>7. ASSUME NEW q \in Queues, CheckQueueTimeout(q) PROVE Goal
  <2>1. PICK n \in 1..Len(content[q]) :
          /\ Answer(SubSeq(content[q], 1, n))
          /\ content' = [content EXCEPT ![q] = SubSeq(content[q], n + 1, Len(content[q]))]
    BY <1>7 DEF CheckQueueTimeout
  <2>2. pc' = pc /\ n \in 0..Len(content[q]) BY <1>7, <1>0 DEF CheckQueueTimeout, callVars
  <2>3. Taken(q, n) BY <2>1, <2>2, PrefixTakes
  <2> QED BY <1>0, <2>3
<1>8. ASSUME NEW q \in Queues, ColdStartReturns(q) \/ StopLoop(q) PROVE Goal
  <2>1. pc' = pc BY <1>8 DEF ColdStartReturns, StopLoop, callVars
  <2>2. CASE ClearQueueWithError(q, ResSpecOf(q))
    <3>1. Taken(q, Len(content[q])) BY <2>1, <2>2, ClearTakes
    <3> QED BY <1>0, <3>1
  <2>3. CASE UNCHANGED <<content, emptyCalls, answers>>
    <3>1. Quiet BY <2>1, <2>3 DEF Quiet
    <3> QED BY <3>1
  <2> QED BY <1>8, <2>2, <2>3 DEF ColdStartReturns, StopLoop
<1>9. ASSUME \/ \E r \in Requests : Expire(r)
             \/ \E s \in ResSpecs : ProcessQueueEmpty(s)
             \/ \E q \in Queues : Destroy(q)
             \/ \E label \in Range(InvokeLabel) : ProcessInsConfigDelete(label)
             \/ RemoveEmptyQueue \/ ProcessFunctionDelete \/ DestroyDeleted
             \/ UNCHANGED vars
      PROVE Goal
  <2>1. pc' = pc /\ content' = content /\ answers' = answers
    BY <1>9 DEF Expire, ProcessQueueEmpty, Destroy, ProcessInsConfigDelete,
                RemoveEmptyQueue, ProcessFunctionDelete, DestroyDeleted, vars, callVars
  <2>2. Quiet BY <2>1 DEF Quiet
  <2> QED BY <2>2
<1>10. Goal BY <1>1, <1>2, <1>3, <1>4, <1>5, <1>6, <1>7, <1>8, <1>9 DEF Next, Caller
<1> QED BY <1>10

-----------------------------------------------------------------------------
(* Requests are queued and answered once *)

\* No request is at two places, and what is queued has been added.
PlaceInv ==
    /\ \A q \in Queues, p \in Queues : \A i \in 1..Len(content[q]), j \in 1..Len(content[p]) :
         content[q][i] = content[p][j] => q = p /\ i = j
    /\ \A q \in Queues : \A i \in 1..Len(content[q]) :
         pc[content[q][i]] \in {"waiting", "done"}

\* A queued request waits for its answer, one that waits is queued, and no
\* request has two answers.
AnswerInv ==
    /\ \A q \in Queues : \A i \in 1..Len(content[q]) :
         /\ pc[content[q][i]] = "waiting"
         /\ answers[content[q][i]] = 0
    /\ \A r \in Requests :
         /\ pc[r] = "waiting" /\ answers[r] = 0 =>
              \E q \in Queues : \E i \in 1..Len(content[q]) : content[q][i] = r
         /\ pc[r] \notin {"waiting", "done"} => answers[r] = 0
         /\ answers[r] <= 1

\* The shape of a queue after a push.
LEMMA PushedShape ==
    ASSUME TypeInv, NEW r \in Requests, NEW q \in Queues, Pushed(r, q)
    PROVE  /\ \A p \in Queues \ {q} : content'[p] = content[p]
           /\ Len(content'[q]) = Len(content[q]) + 1
           /\ \A i \in 1..Len(content[q]) : content'[q][i] = content[q][i]
           /\ content'[q][Len(content[q]) + 1] = r
           /\ Len(content[q]) \in Nat
<1>1. content \in [Queues -> Seq(Requests)] /\ content[q] \in Seq(Requests)
  BY DEF TypeInv, TypeOK
<1>2. content' = [content EXCEPT ![q] = Append(content[q], r)] BY DEF Pushed
<1>3. content'[q] = Append(content[q], r) BY <1>1, <1>2
<1> QED BY <1>1, <1>2, <1>3

LEMMA PlaceStep ==
    ASSUME TypeInv, PlaceInv, [Next]_vars
    PROVE  PlaceInv'
<1>0. /\ \A q \in Queues : Len(content[q]) \in Nat
      /\ \A q \in Queues : \A i \in 1..Len(content[q]) : content[q][i] \in Requests
      /\ DOMAIN pc = Requests
  BY DEF TypeInv, TypeOK
<1>1. ASSUME NEW q \in Queues, NEW n \in Nat, Taken(q, n) PROVE PlaceInv'
  <2>1. /\ n \in 0..Len(content[q]) /\ pc' = pc
        /\ \A p \in Queues \ {q} : content'[p] = content[p]
        /\ Len(content'[q]) = Len(content[q]) - n
        /\ \A i \in 1..(Len(content[q]) - n) : content'[q][i] = content[q][i + n]
    BY <1>1 DEF Taken
  <2> DEFINE From(p, i) == IF p = q THEN i + n ELSE i
  <2>2. \A p \in Queues : \A i \in 1..Len(content'[p]) :
          From(p, i) \in 1..Len(content[p]) /\ content'[p][i] = content[p][From(p, i)]
    BY <1>0, <2>1
  <2>3. \A p1 \in Queues, p2 \in Queues :
          \A i \in 1..Len(content'[p1]), j \in 1..Len(content'[p2]) :
            content'[p1][i] = content'[p2][j] => p1 = p2 /\ i = j
    <3> SUFFICES ASSUME NEW p1 \in Queues, NEW p2 \in Queues,
                        NEW i \in 1..Len(content'[p1]), NEW j \in 1..Len(content'[p2]),
                        content'[p1][i] = content'[p2][j]
                 PROVE  p1 = p2 /\ i = j
      OBVIOUS
    <3>1. PICK k \in 1..Len(content[p1]) : k = From(p1, i) /\ content'[p1][i] = content[p1][k]
      BY <2>2
    <3>2. PICK l \in 1..Len(content[p2]) : l = From(p2, j) /\ content'[p2][j] = content[p2][l]
      BY <2>2
    <3>3. content[p1][k] = content[p2][l] BY <3>1, <3>2
    <3>4. p1 = p2 /\ k = l BY <3>3 DEF PlaceInv
    <3> QED BY <2>1, <3>1, <3>2, <3>4
  <2>4. \A p \in Queues : \A i \in 1..Len(content'[p]) :
          pc'[content'[p][i]] \in {"waiting", "done"}
    BY <2>1, <2>2 DEF PlaceInv
  <2> QED BY <2>3, <2>4 DEF PlaceInv
<1>2. ASSUME NEW r \in Requests, NEW q \in Queues, Pushed(r, q) PROVE PlaceInv'
  <2>1. /\ pc' = [pc EXCEPT ![r] = "waiting"] /\ pc[r] \notin {"waiting", "done"}
    BY <1>2 DEF Pushed
  <2>2. \A p \in Queues : \A i \in 1..Len(content[p]) : content[p][i] # r
    BY <2>1 DEF PlaceInv
  <2>3. \A p \in Queues : \A i \in 1..Len(content'[p]) :
          \/ i \in 1..Len(content[p]) /\ content'[p][i] = content[p][i]
          \/ p = q /\ i = Len(content[q]) + 1 /\ content'[p][i] = r
    BY <1>0, <1>2, PushedShape
  <2>4. \A p1 \in Queues, p2 \in Queues :
          \A i \in 1..Len(content'[p1]), j \in 1..Len(content'[p2]) :
            content'[p1][i] = content'[p2][j] => p1 = p2 /\ i = j
    BY <2>2, <2>3 DEF PlaceInv
  <2>5. \A p \in Queues : \A i \in 1..Len(content'[p]) :
          pc'[content'[p][i]] \in {"waiting", "done"}
    BY <1>0, <2>1, <2>3 DEF PlaceInv
  <2> QED BY <2>4, <2>5 DEF PlaceInv
<1>3. ASSUME NEW r \in Requests, Rejected(r) PROVE PlaceInv'
  BY <1>0, <1>3 DEF Rejected, PlaceInv
<1>4. CASE Quiet
  BY <1>0, <1>4 DEF Quiet, PlaceInv
<1> QED BY <1>1, <1>2, <1>3, <1>4, Effects

\* Only a push at the limit answers a request that stays queued.
LEMMA AnswerStep ==
    ASSUME TypeInv, PlaceInv, AnswerInv, QueueBounded', [Next]_vars
    PROVE  AnswerInv'
<1>0. /\ \A q \in Queues : Len(content[q]) \in Nat
      /\ \A q \in Queues : \A i \in 1..Len(content[q]) : content[q][i] \in Requests
      /\ DOMAIN pc = Requests /\ Limit \in Nat
      /\ \A r \in Requests : answers[r] \in Nat
  BY BoundAssumption DEF TypeInv, TypeOK
<1>1. ASSUME NEW q \in Queues, NEW n \in Nat, Taken(q, n) PROVE AnswerInv'
  <2>1. /\ n \in 0..Len(content[q]) /\ pc' = pc
        /\ \A p \in Queues \ {q} : content'[p] = content[p]
        /\ Len(content'[q]) = Len(content[q]) - n
        /\ \A i \in 1..(Len(content[q]) - n) : content'[q][i] = content[q][i + n]
        /\ \A r \in Requests :
             answers'[r] = IF \E i \in 1..n : content[q][i] = r THEN answers[r] + 1
                                                                ELSE answers[r]
    BY <1>1 DEF Taken
  <2> DEFINE From(p, i) == IF p = q THEN i + n ELSE i
  <2>2. \A p \in Queues : \A i \in 1..Len(content'[p]) :
          /\ From(p, i) \in 1..Len(content[p]) /\ content'[p][i] = content[p][From(p, i)]
          /\ p = q => From(p, i) \notin 1..n
    BY <1>0, <2>1
  <2>3. \A p \in Queues : \A i \in 1..Len(content'[p]) :
          /\ pc'[content'[p][i]] = "waiting"
          /\ answers'[content'[p][i]] = 0
    <3>1. SUFFICES ASSUME NEW p \in Queues, NEW i \in 1..Len(content'[p])
                   PROVE  /\ pc'[content'[p][i]] = "waiting"
                          /\ answers'[content'[p][i]] = 0
      OBVIOUS
    <3>2. PICK k \in 1..Len(content[p]) : content'[p][i] = content[p][k] /\ (p = q => k \notin 1..n)
      BY <2>2
    <3>3. \A j \in 1..n : content[q][j] # content[p][k]
      <4>1. \A j \in 1..n : j \in 1..Len(content[q]) BY <1>0, <2>1
      <4> QED BY <3>2, <4>1 DEF PlaceInv
    <3>4. content[p][k] \in Requests BY <1>0
    <3>5. answers'[content[p][k]] = answers[content[p][k]] BY <2>1, <3>3, <3>4
    <3> QED BY <2>1, <3>2, <3>5 DEF AnswerInv
  <2>4. \A r \in Requests :
          pc'[r] = "waiting" /\ answers'[r] = 0 =>
            \E p \in Queues : \E i \in 1..Len(content'[p]) : content'[p][i] = r
    <3>1. SUFFICES ASSUME NEW r \in Requests, pc'[r] = "waiting", answers'[r] = 0
                   PROVE  \E p \in Queues : \E i \in 1..Len(content'[p]) : content'[p][i] = r
      OBVIOUS
    <3>2. answers[r] = 0 /\ \A i \in 1..n : content[q][i] # r
      BY <1>0, <2>1, <3>1
    <3>3. PICK p \in Queues : \E i \in 1..Len(content[p]) : content[p][i] = r
      BY <2>1, <3>1, <3>2 DEF AnswerInv
    <3>4. PICK i \in 1..Len(content[p]) : content[p][i] = r BY <3>3
    <3>5. CASE p = q
      <4>1. i \notin 1..n BY <3>2, <3>4, <3>5
      <4>2. /\ i - n \in 1..(Len(content[q]) - n) /\ (i - n) + n = i
            /\ i - n \in 1..Len(content'[q])
        BY <1>0, <2>1, <3>5, <4>1
      <4>3. content'[q][i - n] = r BY <2>1, <3>4, <3>5, <4>2
      <4> QED BY <4>2, <4>3
    <3>6. CASE p # q BY <2>1, <3>4, <3>6
    <3> QED BY <3>5, <3>6
  <2>5. \A r \in Requests :
          /\ pc'[r] \notin {"waiting", "done"} => answers'[r] = 0
          /\ answers'[r] <= 1
    <3>1. \A i \in 1..n : i \in 1..Len(content[q]) BY <1>0, <2>1
    <3> QED BY <1>0, <2>1, <3>1 DEF AnswerInv
  <2> QED BY <2>3, <2>4, <2>5 DEF AnswerInv
<1>2. ASSUME NEW r \in Requests, NEW q \in Queues, Pushed(r, q) PROVE AnswerInv'
  <2>1. /\ pc' = [pc EXCEPT ![r] = "waiting"] /\ pc[r] \notin {"waiting", "done"}
        /\ \A x \in Requests \ {r} : answers'[x] = answers[x]
    BY <1>2 DEF Pushed
  <2>2. /\ \A p \in Queues \ {q} : content'[p] = content[p]
        /\ Len(content'[q]) = Len(content[q]) + 1
        /\ \A i \in 1..Len(content[q]) : content'[q][i] = content[q][i]
        /\ content'[q][Len(content[q]) + 1] = r
    BY <1>2, PushedShape
  <2>3. Len(content'[q]) <= Limit BY DEF QueueBounded
  <2>4. answers'[r] = answers[r] /\ answers[r] = 0
    BY <1>0, <1>2, <2>1, <2>2, <2>3 DEF Pushed, AnswerInv
  <2>5. \A p \in Queues : \A i \in 1..Len(content'[p]) :
          \/ i \in 1..Len(content[p]) /\ content'[p][i] = content[p][i]
          \/ p = q /\ i = Len(content[q]) + 1 /\ content'[p][i] = r
    BY <1>0, <2>2
  <2>6. \A p \in Queues : \A i \in 1..Len(content'[p]) :
          /\ pc'[content'[p][i]] = "waiting"
          /\ answers'[content'[p][i]] = 0
    BY <1>0, <2>1, <2>4, <2>5 DEF AnswerInv
  <2>7. \A x \in Requests :
          pc'[x] = "waiting" /\ answers'[x] = 0 =>
            \E p \in Queues : \E i \in 1..Len(content'[p]) : content'[p][i] = x
    <3>1. \E p \in Queues : \E i \in 1..Len(content'[p]) : content'[p][i] = r
      BY <1>0, <2>2
    <3>2. \A p \in Queues : \A i \in 1..Len(content[p]) :
            i \in 1..Len(content'[p]) /\ content'[p][i] = content[p][i]
      BY <1>0, <2>2
    <3>3. \A x \in Requests \ {r} : pc'[x] = pc[x] /\ answers'[x] = answers[x]
      BY <1>0, <2>1
    <3> QED BY <3>1, <3>2, <3>3 DEF AnswerInv
  <2> QED BY <1>0, <2>1, <2>4, <2>6, <2>7 DEF AnswerInv
<1>3. ASSUME NEW r \in Requests, Rejected(r) PROVE AnswerInv'
  <2>1. \A q \in Queues : \A i \in 1..Len(content[q]) : content[q][i] # r
    BY <1>3 DEF Rejected, AnswerInv
  <2> QED BY <1>0, <1>3, <2>1 DEF Rejected, AnswerInv
<1>4. CASE Quiet
  BY <1>0, <1>4 DEF Quiet, AnswerInv
<1> QED BY <1>1, <1>2, <1>3, <1>4, Effects

LEMMA InitInv == Init => TypeInv /\ PlaceInv /\ AnswerInv
<1> SUFFICES ASSUME Init PROVE TypeInv /\ PlaceInv /\ AnswerInv OBVIOUS
<1>1. TypeInv
  <2>1. \A x \in {MaxMaps, MaxQueues, MaxUpdates} : 0 \in 0..x BY BoundAssumption
  <2>2. TypeOK BY <2>1 DEF Init, TypeOK
  <2>3. CallInv BY DEF Init, CallInv
  <2> QED BY <2>2, <2>3 DEF TypeInv
<1>2. \A q \in Queues : Len(content[q]) = 0 BY DEF Init
<1>3. PlaceInv BY <1>2 DEF PlaceInv
<1>4. AnswerInv BY <1>2 DEF AnswerInv, Init
<1> QED BY <1>1, <1>3, <1>4

\* AnsweredOnce is what the two invariants say of one request.
LEMMA AnsweredFromInv ==
    ASSUME TypeInv, PlaceInv, AnswerInv
    PROVE  AnsweredOnce
<1> SUFFICES ASSUME NEW r \in Requests
             PROVE  /\ answers[r] <= 1
                    /\ IF pc[r] = "waiting" /\ answers[r] = 0
                         THEN \E p \in Places(r) : Places(r) = {p}
                         ELSE Places(r) = {}
  BY DEF AnsweredOnce
<1>1. answers[r] <= 1 BY DEF AnswerInv
<1>2. \A x : x \in Places(r) <=>
         \E q \in Queues : \E i \in 1..Len(content[q]) : content[q][i] = r /\ x = <<q, i>>
  BY DEF Places
<1>3. CASE pc[r] = "waiting" /\ answers[r] = 0
  <2>1. PICK q \in Queues : \E i \in 1..Len(content[q]) : content[q][i] = r
    BY <1>3 DEF AnswerInv
  <2>2. PICK i \in 1..Len(content[q]) : content[q][i] = r BY <2>1
  <2>3. \A p \in Queues : \A j \in 1..Len(content[p]) : content[p][j] = r => p = q /\ j = i
    BY <2>2 DEF PlaceInv
  <2>4. <<q, i>> \in Places(r) BY <1>2, <2>2
  <2>5. \A x \in Places(r) : x = <<q, i>> BY <1>2, <2>3
  <2>6. Places(r) = {<<q, i>>} BY <2>4, <2>5
  <2> QED BY <1>1, <1>3, <2>4, <2>6
<1>4. CASE ~(pc[r] = "waiting" /\ answers[r] = 0)
  <2>1. \A q \in Queues : \A i \in 1..Len(content[q]) : content[q][i] # r
    BY <1>4 DEF AnswerInv
  <2>2. Places(r) = {} BY <1>2, <2>1
  <2> QED BY <1>1, <1>4, <2>2
<1> QED BY <1>3, <1>4

(* Every variable stays within its range, whatever the bounds.               *)
THEOREM TypeCorrect == Spec => []TypeOK
<1>1. Init => TypeInv BY InitInv
<1>2. TypeInv => TypeOK BY DEF TypeInv
<1> QED BY <1>1, <1>2, TypeStep, PTL DEF Spec

(* As long as no queue outgrows its limit, a request that waits is at one    *)
(* place of one queue until it is answered and at none afterwards, and no    *)
(* request is answered twice.                                                *)
THEOREM AnsweredOnceCorrect == Spec /\ []QueueBounded => []AnsweredOnce
<1> DEFINE Inv == TypeInv /\ PlaceInv /\ AnswerInv
<1>1. Init => Inv BY InitInv
<1>2. Inv /\ QueueBounded' /\ [Next]_vars => Inv'
  BY TypeStep, PlaceStep, AnswerStep
<1>3. Inv => AnsweredOnce BY AnsweredFromInv
<1> HIDE DEF Inv
<1> QED BY <1>1, <1>2, <1>3, PTL DEF Spec

\* The requests of a queue are distinct: it is no longer than there are requests.
LEMMA BoundedByRequests ==
    ASSUME IsFiniteSet(Requests), Cardinality(Requests) <= Limit, TypeInv, PlaceInv
    PROVE  QueueBounded
<1> SUFFICES ASSUME NEW q \in Queues PROVE Len(content[q]) <= Limit BY DEF QueueBounded
<1>1. content[q] \in Seq(Requests) /\ Len(content[q]) \in Nat BY DEF TypeInv, TypeOK
<1>2. content[q] \in [1..Len(content[q]) -> Requests] BY <1>1
<1>3. \A i, j \in 1..Len(content[q]) : content[q][i] = content[q][j] => i = j
  BY DEF PlaceInv
<1>4. content[q] \in Injection(1..Len(content[q]), Requests)
  BY <1>2, <1>3 DEF Injection, IsInjective
<1>5. Cardinality(1..Len(content[q])) <= Cardinality(Requests)
  BY <1>4, FS_Injection, Zenon
<1>6. Cardinality(1..Len(content[q])) = Len(content[q])
  BY <1>1, FS_Interval
<1>7. Cardinality(Requests) \in Nat /\ Limit \in Nat
  BY FS_CardinalityType, BoundAssumption
<1> QED BY <1>1, <1>5, <1>6, <1>7

(* With no more requests than the limit - the instance the run checks - no   *)
(* queue can outgrow it, and every request is queued and answered once.      *)
THEOREM FewRequestsAnsweredOnce ==
    ASSUME IsFiniteSet(Requests), Cardinality(Requests) <= Limit
    PROVE  Spec => []AnsweredOnce
<1> DEFINE Places1 == TypeInv /\ PlaceInv
<1>1. Init => Places1 BY InitInv
<1>2. Places1 /\ [Next]_vars => Places1' BY TypeStep, PlaceStep
<1>3. Places1 => QueueBounded BY BoundedByRequests
<1> HIDE DEF Places1
<1>4. Spec => []QueueBounded BY <1>1, <1>2, <1>3, PTL DEF Spec
<1> QED BY <1>4, AnsweredOnceCorrect, PTL

-----------------------------------------------------------------------------
(* Mapped queues run *)

\* A queue is an entry of one inner map only, and a map to come is empty.
EntryInv ==
    /\ \A m1, m2 \in Maps, s1, s2 \in ResSpecs :
         queues[m1][s1] # 0 /\ queues[m1][s1] = queues[m2][s2] => m1 = m2 /\ s1 = s2
    /\ \A m \in Maps, s \in ResSpecs : m > mapCount => queues[m][s] = 0

\* The queue an update is about to remove is an entry of the map it was found
\* in or of none; a function that is being deleted has left queuesMap.
RemovalInv ==
    /\ update # NoUpdate =>
         /\ update.q <= queueCount
         /\ \A m \in Maps, s \in ResSpecs :
              queues[m][s] = update.q => m = update.m /\ s = update.s
    /\ \A q \in destroyCalls : q <= queueCount
    /\ deleting # 0 => deleting # queuesMap

RunInv == \A q \in Queues : running[q] => loop[q] = "run"

MapInv == EntryInv /\ RemovalInv /\ RunInv /\ MappedQueueRuns

\* Unmap clears entries of one map, and queuesMap may become empty.
LEMMA UnmapEffect ==
    ASSUME TypeInv, NEW m \in Maps, NEW ss, Unmap(m, ss)
    PROVE  /\ \A k \in Maps, s \in ResSpecs :
                queues'[k][s] = IF k = m /\ s \in ss THEN 0 ELSE queues[k][s]
           /\ queuesMap' \in {0, queuesMap}
           /\ mapCount' = mapCount
BY DEF Unmap, TypeInv, TypeOK

\* Clearing entries keeps what is said of entries.
LEMMA EntriesShrink ==
    ASSUME EntryInv, mapCount' = mapCount,
           \A m \in Maps, s \in ResSpecs : queues'[m][s] \in {0, queues[m][s]}
    PROVE  EntryInv'
<1>1. \A m1, m2 \in Maps, s1, s2 \in ResSpecs :
        queues'[m1][s1] # 0 /\ queues'[m1][s1] = queues'[m2][s2] => m1 = m2 /\ s1 = s2
  BY DEF EntryInv
<1>2. \A m \in Maps, s \in ResSpecs : m > mapCount' => queues'[m][s] = 0
  BY DEF EntryInv
<1> QED BY <1>1, <1>2 DEF EntryInv

\* CreateMap adds an empty map.
LEMMA CreateMapKeeps ==
    ASSUME TypeInv, MapInv, NEW r \in Requests, CreateMap(r)
    PROVE  MapInv'
<1>0. /\ UNCHANGED <<queueVars, asyncVars, updateVars, queues>>
      /\ mapCount \in Nat
  BY CountsNat DEF CreateMap, mapVars
<1>1. CASE queuesMap # 0
  <2>1. queuesMap' = queuesMap /\ mapCount' = mapCount BY <1>1 DEF CreateMap, mapVars
  <2> QED BY <1>0, <2>1 DEF MapInv, EntryInv, RemovalInv, RunInv, MappedQueueRuns,
                            queueVars, asyncVars, updateVars
<1>2. CASE queuesMap = 0
  <2>1. queuesMap' = mapCount + 1 /\ mapCount' = mapCount + 1 /\ mapCount + 1 \in Maps
    BY <1>0, <1>2, CountsNat DEF CreateMap, Maps
  <2>2. \A s \in ResSpecs : queues'[queuesMap'][s] = 0
    BY <1>0, <2>1 DEF MapInv, EntryInv
  <2>3. deleting' # 0 => deleting' # queuesMap'
    BY <1>0, <2>1, Shape DEF asyncVars
  <2>4. EntryInv' BY <1>0, <2>1 DEF MapInv, EntryInv, Maps
  <2>5. RemovalInv' BY <1>0, <2>3 DEF MapInv, RemovalInv, queueVars, asyncVars, updateVars
  <2>6. RunInv' /\ MappedQueueRuns'
    BY <1>0, <2>2 DEF MapInv, RunInv, MappedQueueRuns, queueVars
  <2> QED BY <2>4, <2>5, <2>6 DEF MapInv
<1> QED BY <1>1, <1>2

\* CreateQueue adds a fresh queue that runs.
LEMMA CreateQueueKeeps ==
    ASSUME TypeInv, MapInv, NEW r \in Requests, CreateQueue(r)
    PROVE  MapInv'
<1> DEFINE k == reqMap[r]
           t == reqRes[r]
<1>0. /\ UNCHANGED <<queuesMap, mapCount, asyncVars, updateVars>>
      /\ queueCount \in Nat /\ mapCount \in Nat
      /\ k # 0 /\ t \in ResSpecs
  BY CountsNat DEF CreateQueue, TypeInv, TypeOK, CallInv
<1>1. k \in 1..mapCount /\ k \in Maps BY <1>0, Shape
<1>2. CASE queues[k][t] # 0
  <2>1. UNCHANGED <<queues, queueVars>> BY <1>2 DEF CreateQueue
  <2> QED BY <1>0, <2>1 DEF MapInv, EntryInv, RemovalInv, RunInv, MappedQueueRuns,
                            queueVars, asyncVars, updateVars
<1>3. CASE queues[k][t] = 0
  <2> DEFINE n == queueCount + 1
  <2>1. /\ queueCount' = n /\ n \in Queues
        /\ queues' = [queues EXCEPT ![k][t] = n]
        /\ running' = [running EXCEPT ![n] = TRUE]
        /\ loop' = [loop EXCEPT ![n] = "run"]
    BY <1>0, <1>3, CountsNat DEF CreateQueue, Queues
  <2>2. \A m \in Maps, s \in ResSpecs :
          queues'[m][s] = IF m = k /\ s = t THEN n ELSE queues[m][s]
    BY <1>0, <1>1, <2>1 DEF TypeInv, TypeOK
  <2>3. \A m \in Maps, s \in ResSpecs : queues[m][s] # n /\ queues[m][s] <= queueCount
    BY <1>0, Shape
  <2>4. EntryInv'
    <3>1. \A m1, m2 \in Maps, s1, s2 \in ResSpecs :
            queues'[m1][s1] # 0 /\ queues'[m1][s1] = queues'[m2][s2] => m1 = m2 /\ s1 = s2
      BY <2>2, <2>3 DEF MapInv, EntryInv
    <3>2. \A m \in Maps, s \in ResSpecs : m > mapCount' => queues'[m][s] = 0
      BY <1>0, <1>1, <2>2 DEF MapInv, EntryInv
    <3> QED BY <3>1, <3>2 DEF EntryInv
  <2>5. RemovalInv'
    <3>1. CASE update = NoUpdate
      <4>1. \A q \in destroyCalls : q <= n
        BY <1>0 DEF MapInv, RemovalInv, TypeInv, TypeOK, Queues
      <4> QED BY <1>0, <2>1, <3>1, <4>1 DEF MapInv, RemovalInv, asyncVars, updateVars
    <3>2. CASE update # NoUpdate
      <4>1. /\ update.q <= n /\ update.q # n
            /\ \A m \in Maps, s \in ResSpecs :
                 queues'[m][s] = update.q => m = update.m /\ s = update.s
        <5>1. update.q \in Nat BY <3>2 DEF TypeInv, TypeOK, Updates, Queues
        <5> QED BY <1>0, <2>2, <3>2, <5>1 DEF MapInv, RemovalInv
      <4>2. \A q \in destroyCalls : q <= n
        BY <1>0 DEF MapInv, RemovalInv, TypeInv, TypeOK, Queues
      <4> QED BY <1>0, <2>1, <4>1, <4>2 DEF MapInv, RemovalInv, asyncVars, updateVars
    <3> QED BY <3>1, <3>2
  <2>6. RunInv' BY <2>1 DEF MapInv, RunInv, TypeInv, TypeOK
  <2>7. MappedQueueRuns'
    <3> SUFFICES ASSUME queuesMap' # 0, NEW s \in ResSpecs, queues'[queuesMap'][s] # 0
                 PROVE  /\ running'[queues'[queuesMap'][s]]
                        /\ loop'[queues'[queuesMap'][s]] = "run"
                        /\ queues'[queuesMap'][s] \notin destroyCalls'
      BY DEF MappedQueueRuns
    <3>1. queuesMap \in Maps /\ queuesMap' = queuesMap /\ destroyCalls' = destroyCalls
      BY <1>0, Shape DEF asyncVars
    <3>2. CASE queues'[queuesMap][s] = n
      <4>1. n \notin destroyCalls BY <1>0 DEF MapInv, RemovalInv
      <4> QED BY <2>1, <3>1, <3>2, <4>1 DEF TypeInv, TypeOK
    <3>3. CASE queues'[queuesMap][s] # n
      <4>1. queues'[queuesMap][s] = queues[queuesMap][s] /\ queues[queuesMap][s] \in Queues
        BY <2>2, <3>1, <3>3, Shape
      <4>2. running[queues[queuesMap][s]] /\ loop[queues[queuesMap][s]] = "run"
            /\ queues[queuesMap][s] \notin destroyCalls
        BY <3>1, <4>1 DEF MapInv, MappedQueueRuns
      <4> QED BY <2>1, <3>1, <3>3, <4>1, <4>2 DEF TypeInv, TypeOK
    <3> QED BY <3>2, <3>3
  <2> QED BY <2>4, <2>5, <2>6, <2>7 DEF MapInv
<1> QED BY <1>2, <1>3

\* Steps that leave maps and queues alone and start no removal.
LEMMA OtherKeeps ==
    ASSUME TypeInv, MapInv,
           UNCHANGED <<mapVars, queueCount, running, destroyCalls, deleting>>,
           update' = update,
           \/ loop' = loop
           \/ \E q \in Queues : ~running[q] /\ loop' = [loop EXCEPT ![q] = "ended"]
    PROVE  MapInv'
<1>1. EntryInv' /\ RemovalInv' BY DEF MapInv, EntryInv, RemovalInv, mapVars
<1>2. \A q \in Queues : running[q] => loop'[q] = "run"
  BY DEF MapInv, RunInv, TypeInv, TypeOK
<1>3. RunInv' BY <1>2 DEF RunInv
<1>4. MappedQueueRuns'
  <2> SUFFICES ASSUME queuesMap # 0, NEW s \in ResSpecs, queues[queuesMap][s] # 0
               PROVE  /\ running[queues[queuesMap][s]]
                      /\ loop'[queues[queuesMap][s]] = "run"
                      /\ queues[queuesMap][s] \notin destroyCalls
    BY DEF MappedQueueRuns, mapVars
  <2>1. queues[queuesMap][s] \in Queues BY Shape
  <2> QED BY <1>2, <2>1 DEF MapInv, MappedQueueRuns
<1> QED BY <1>1, <1>3, <1>4 DEF MapInv

\* A removal under the manager's lock unmaps the queues it will destroy.
LEMMA UnmapKeeps ==
    ASSUME TypeInv, MapInv, NEW ss, queuesMap # 0, Unmap(queuesMap, ss),
           NEW gone, destroyCalls' = destroyCalls \cup gone,
           \A q \in gone : q # 0 /\ \E s \in ResSpecs \cap ss : q = queues[queuesMap][s],
           UNCHANGED <<queueVars, deleting, updateVars>>
    PROVE  MapInv'
<1>0. queuesMap \in Maps BY Shape
<1>1. /\ \A k \in Maps, s \in ResSpecs :
           queues'[k][s] = IF k = queuesMap /\ s \in ss THEN 0 ELSE queues[k][s]
      /\ queuesMap' \in {0, queuesMap}
      /\ mapCount' = mapCount
  BY <1>0, UnmapEffect
<1>2. EntryInv' BY <1>1, EntriesShrink DEF MapInv
<1>3. RemovalInv'
  <2>1. \A q \in gone : q <= queueCount
    BY <1>0, Shape, CountsNat
  <2>2. update # NoUpdate => update.q \in Queues BY DEF TypeInv, TypeOK, Updates
  <2>3. \A m \in Maps, s \in ResSpecs : update # NoUpdate /\ queues'[m][s] = update.q =>
          m = update.m /\ s = update.s
    BY <1>1, <2>2 DEF MapInv, RemovalInv, Queues
  <2> QED BY <1>1, <2>1, <2>3 DEF MapInv, RemovalInv, queueVars, updateVars
<1>4. RunInv' BY DEF MapInv, RunInv, queueVars
<1>5. MappedQueueRuns'
  <2> SUFFICES ASSUME queuesMap' # 0, NEW s \in ResSpecs, queues'[queuesMap'][s] # 0
               PROVE  /\ running'[queues'[queuesMap'][s]]
                      /\ loop'[queues'[queuesMap'][s]] = "run"
                      /\ queues'[queuesMap'][s] \notin destroyCalls'
    BY DEF MappedQueueRuns
  <2>1. /\ queuesMap' = queuesMap /\ s \notin ss
        /\ queues'[queuesMap'][s] = queues[queuesMap][s]
    BY <1>0, <1>1
  <2>2. queues[queuesMap][s] \notin gone
    BY <1>0, <2>1 DEF MapInv, EntryInv
  <2> QED BY <1>0, <2>1, <2>2 DEF MapInv, MappedQueueRuns, queueVars
<1> QED BY <1>2, <1>3, <1>4, <1>5 DEF MapInv

LEMMA RemoveKeeps ==
    ASSUME TypeInv, MapInv, RemoveEmptyQueue
    PROVE  MapInv'
<1>0. /\ update # NoUpdate /\ update' = NoUpdate /\ update.m \in Maps
      /\ UNCHANGED <<queueCount, loop, asyncVars>>
  BY DEF RemoveEmptyQueue, TypeInv, TypeOK, Updates
<1>1. CASE content[update.q] = <<>>
  <2>1. running' = Destroyed({update.q}) /\ Unmap(update.m, {update.s})
    BY <1>1 DEF RemoveEmptyQueue
  <2>2. /\ \A k \in Maps, s \in ResSpecs :
             queues'[k][s] = IF k = update.m /\ s \in {update.s} THEN 0 ELSE queues[k][s]
        /\ queuesMap' \in {0, queuesMap} /\ mapCount' = mapCount
    BY <1>0, <2>1, UnmapEffect
  <2>3. EntryInv' BY <2>2, EntriesShrink DEF MapInv
  <2>4. RemovalInv' BY <1>0, <2>2 DEF MapInv, RemovalInv, asyncVars
  <2>5. RunInv' BY <1>0, <2>1 DEF MapInv, RunInv, Destroyed
  <2>6. MappedQueueRuns'
    <3> SUFFICES ASSUME queuesMap' # 0, NEW s \in ResSpecs, queues'[queuesMap'][s] # 0
                 PROVE  /\ running'[queues'[queuesMap'][s]]
                        /\ loop'[queues'[queuesMap'][s]] = "run"
                        /\ queues'[queuesMap'][s] \notin destroyCalls'
      BY DEF MappedQueueRuns
    <3>1. queuesMap' = queuesMap /\ queuesMap \in Maps BY <2>2, Shape
    <3>2. /\ queues'[queuesMap'][s] = queues[queuesMap][s]
          /\ ~(queuesMap = update.m /\ s = update.s)
      BY <2>2, <3>1
    <3>3. queues[queuesMap][s] # update.q
      BY <1>0, <3>1, <3>2 DEF MapInv, RemovalInv
    <3>4. queues[queuesMap][s] \in Queues BY <3>1, <3>2, Shape
    <3>5. running'[queues[queuesMap][s]] = running[queues[queuesMap][s]]
      BY <2>1, <3>3, <3>4 DEF Destroyed, TypeInv, TypeOK
    <3> QED BY <1>0, <3>1, <3>2, <3>5 DEF MapInv, MappedQueueRuns, asyncVars
  <2> QED BY <2>3, <2>4, <2>5, <2>6 DEF MapInv
<1>2. CASE content[update.q] # <<>>
  <2>1. UNCHANGED <<mapVars, running>> BY <1>2 DEF RemoveEmptyQueue
  <2> QED BY <1>0, <2>1 DEF MapInv, EntryInv, RemovalInv, RunInv, MappedQueueRuns,
                            mapVars, asyncVars
<1> QED BY <1>1, <1>2

\* Every step keeps mapped queues running.
LEMMA MapStep ==
    ASSUME TypeInv, MapInv, [Next]_vars
    PROVE  MapInv'
<1>1. ASSUME NEW r \in Requests, CreateMap(r) \/ CreateQueue(r) PROVE MapInv'
  BY <1>1, CreateMapKeeps, CreateQueueKeeps
<1>2. ASSUME NEW r \in Requests,
             AddPendingRequest(r) \/ RejectRequest(r) \/ ReadMap(r) \/ AddToQueue(r)
               \/ Receive(r) \/ Expire(r)
      PROVE MapInv'
  <2>1. /\ UNCHANGED <<mapVars, queueCount, running, destroyCalls, deleting, loop>>
        /\ update' = update
    BY <1>2 DEF AddPendingRequest, RejectRequest, ReadMap, AddToQueue, Receive, Expire,
                LookUpQueue, Push, asyncVars, queueVars, updateVars
  <2> QED BY <2>1, OtherKeeps
<1>3. ASSUME NEW q \in Queues, ColdStartReturns(q) \/ CheckQueueTimeout(q) \/ StopLoop(q)
      PROVE MapInv'
  <2>1. /\ UNCHANGED <<mapVars, queueCount, running, destroyCalls, deleting>>
        /\ update' = update
        /\ loop' = loop \/ (~running[q] /\ loop' = [loop EXCEPT ![q] = "ended"])
    BY <1>3 DEF ColdStartReturns, CheckQueueTimeout, StopLoop, asyncVars, queueVars, updateVars
  <2> QED BY <2>1, OtherKeeps
<1>4. ASSUME NEW s \in ResSpecs, ProcessInstanceUpdate(s) PROVE MapInv'
  <2>1. /\ queuesMap \in Maps /\ queues[queuesMap][s] # 0
        /\ UNCHANGED <<mapVars, queueVars, destroyCalls, deleting>>
        /\ \/ update' = [m |-> queuesMap, s |-> s, q |-> queues[queuesMap][s]]
           \/ update' = update
    BY <1>4, Shape DEF ProcessInstanceUpdate
  <2>2. EntryInv' /\ RunInv' /\ MappedQueueRuns'
    BY <2>1 DEF MapInv, EntryInv, RunInv, MappedQueueRuns, mapVars, queueVars
  <2>3. RemovalInv'
    <3>1. CASE update' = update
      BY <2>1, <3>1 DEF MapInv, RemovalInv, mapVars, queueVars
    <3>2. CASE update' = [m |-> queuesMap, s |-> s, q |-> queues[queuesMap][s]]
      <4>1. queues[queuesMap][s] <= queueCount BY <2>1, Shape, CountsNat
      <4>2. \A m \in Maps, t \in ResSpecs :
              queues[m][t] = queues[queuesMap][s] => m = queuesMap /\ t = s
        BY <2>1 DEF MapInv, EntryInv
      <4>3. update'.q = queues[queuesMap][s] /\ update'.m = queuesMap /\ update'.s = s
        BY <3>2
      <4> QED BY <2>1, <4>1, <4>2, <4>3 DEF MapInv, RemovalInv, mapVars, queueVars
    <3> QED BY <2>1, <3>1, <3>2
  <2> QED BY <2>2, <2>3 DEF MapInv
<1>5. ASSUME RemoveEmptyQueue PROVE MapInv' BY <1>5, RemoveKeeps
<1>6. ASSUME NEW s \in ResSpecs, ProcessQueueEmpty(s) PROVE MapInv'
  <2>0. UNCHANGED <<queueVars, deleting, updateVars>> BY <1>6 DEF ProcessQueueEmpty
  <2>1. CASE /\ queuesMap # 0 /\ queues[queuesMap][s] # 0
             /\ content[queues[queuesMap][s]] = <<>>
    <3> DEFINE ss == {s}
               gone == {queues[queuesMap][s]}
    <3>1. /\ queuesMap # 0 /\ Unmap(queuesMap, ss) /\ destroyCalls' = destroyCalls \cup gone
      BY <1>6, <2>1 DEF ProcessQueueEmpty
    <3>2. \A q \in gone : q # 0 /\ \E t \in ResSpecs \cap ss : q = queues[queuesMap][t]
      BY <2>1
    <3> HIDE DEF ss, gone
    <3> QED BY <2>0, <3>1, <3>2, UnmapKeeps
  <2>2. CASE ~ (/\ queuesMap # 0 /\ queues[queuesMap][s] # 0
                /\ content[queues[queuesMap][s]] = <<>>)
    <3>1. UNCHANGED <<mapVars, destroyCalls>> BY <1>6, <2>2 DEF ProcessQueueEmpty
    <3> QED BY <2>0, <3>1, OtherKeeps DEF queueVars, updateVars
  <2> QED BY <2>1, <2>2
<1>7. ASSUME NEW label \in Range(InvokeLabel), ProcessInsConfigDelete(label) PROVE MapInv'
  <2> DEFINE ss == {s \in ResSpecs : InvokeLabel[s] = label}
             gone == {queues[queuesMap][s] : s \in ss} \ {0}
  <2>1. /\ queuesMap # 0 /\ Unmap(queuesMap, ss) /\ destroyCalls' = destroyCalls \cup gone
        /\ UNCHANGED <<queueVars, deleting, updateVars>>
    BY <1>7 DEF ProcessInsConfigDelete
  <2>2. \A q \in gone : q # 0 /\ \E s \in ResSpecs \cap ss : q = queues[queuesMap][s]
    OBVIOUS
  <2> HIDE DEF ss, gone
  <2> QED BY <2>1, <2>2, UnmapKeeps
<1>8. ASSUME ProcessFunctionDelete PROVE MapInv'
  <2>1. /\ queuesMap' = 0 /\ deleting' = queuesMap /\ queuesMap # 0
        /\ UNCHANGED <<mapCount, queues, queueVars, destroyCalls, updateVars>>
    BY <1>8 DEF ProcessFunctionDelete
  <2> QED BY <2>1 DEF MapInv, EntryInv, RemovalInv, RunInv, MappedQueueRuns, queueVars, updateVars
<1>9. ASSUME DestroyDeleted PROVE MapInv'
  <2> DEFINE gone == Range(queues[deleting]) \ {0}
  <2>1. /\ deleting # 0 /\ deleting' = 0 /\ destroyCalls' = destroyCalls \cup gone
        /\ UNCHANGED <<mapVars, queueVars, updateVars>>
    BY <1>9 DEF DestroyDeleted
  <2>2. deleting \in Maps /\ deleting # queuesMap
    BY <2>1, Shape DEF MapInv, RemovalInv
  <2>3. DOMAIN queues[deleting] = ResSpecs BY <2>2 DEF TypeInv, TypeOK
  <2>4. \A q \in gone : q # 0 /\ \E s \in ResSpecs : q = queues[deleting][s]
    BY <2>3 DEF Range
  <2> HIDE DEF gone
  <2>5. \A q \in gone : q <= queueCount BY <2>2, <2>4, Shape, CountsNat
  <2>6. queuesMap # 0 => \A s \in ResSpecs : queues[queuesMap][s] \notin gone
    BY <2>2, <2>4, Shape DEF MapInv, EntryInv
  <2>7. EntryInv' /\ RunInv'
    BY <2>1 DEF MapInv, EntryInv, RunInv, mapVars, queueVars
  <2>8. RemovalInv' BY <2>1, <2>5 DEF MapInv, RemovalInv, mapVars, queueVars, updateVars
  <2>9. MappedQueueRuns' BY <2>1, <2>6 DEF MapInv, MappedQueueRuns, mapVars, queueVars
  <2> QED BY <2>7, <2>8, <2>9 DEF MapInv
<1>10. ASSUME NEW q \in Queues, Destroy(q) PROVE MapInv'
  <2>1. /\ q \in destroyCalls /\ destroyCalls' = destroyCalls \ {q}
        /\ running' = Destroyed({q})
        /\ UNCHANGED <<mapVars, queueCount, loop, deleting, updateVars>>
    BY <1>10 DEF Destroy
  <2>2. EntryInv' /\ RemovalInv'
    BY <2>1 DEF MapInv, EntryInv, RemovalInv, mapVars, updateVars
  <2>3. RunInv' BY <2>1 DEF MapInv, RunInv, Destroyed
  <2>4. MappedQueueRuns'
    <3> SUFFICES ASSUME queuesMap # 0, NEW s \in ResSpecs, queues[queuesMap][s] # 0
                 PROVE  /\ running'[queues[queuesMap][s]]
                        /\ loop[queues[queuesMap][s]] = "run"
                        /\ queues[queuesMap][s] \notin destroyCalls'
      BY <2>1 DEF MappedQueueRuns, mapVars
    <3>1. queues[queuesMap][s] \in Queues BY Shape
    <3>2. queues[queuesMap][s] # q BY <2>1 DEF MapInv, MappedQueueRuns
    <3>3. running'[queues[queuesMap][s]] = running[queues[queuesMap][s]]
      BY <2>1, <3>1, <3>2 DEF Destroyed, TypeInv, TypeOK
    <3> QED BY <2>1, <3>3 DEF MapInv, MappedQueueRuns
  <2> QED BY <2>2, <2>3, <2>4 DEF MapInv
<1>11. CASE UNCHANGED vars
  BY <1>11, OtherKeeps DEF vars, mapVars, queueVars, asyncVars, updateVars
<1> QED BY <1>1, <1>2, <1>3, <1>4, <1>5, <1>6, <1>7, <1>8, <1>9, <1>10, <1>11 DEF Next, Caller

(* A queue reachable through queuesMap runs its timeout loop and no          *)
(* destroy() is on its way to it: the look-up and push under one hold of the *)
(* read lock in AddPendingRequest never adds to a dying queue.               *)
THEOREM MappedQueueRunsCorrect == Spec => []MappedQueueRuns
<1> DEFINE Inv == TypeInv /\ MapInv
<1>1. Init => Inv
  <2>1. Init => MapInv
    BY DEF Init, MapInv, EntryInv, RemovalInv, RunInv, MappedQueueRuns
  <2> QED BY <2>1, InitInv
<1>2. Inv /\ [Next]_vars => Inv' BY TypeStep, MapStep
<1>3. Inv => MappedQueueRuns BY DEF MapInv
<1> HIDE DEF Inv
<1> QED BY <1>1, <1>2, <1>3, PTL DEF Spec
=============================================================================
