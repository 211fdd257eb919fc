------------------------- MODULE SchedulerProxyProofs -------------------------
(***************************************************************************)
(* Proofs about SchedulerProxy, for any schedulers, leases, acquires and    *)
(* bounds: the map of the proxy follows the keys in etcd, the ring follows  *)
(* the map, and an acquire never calls an incarnation again that failed.    *)
(***************************************************************************)
EXTENDS SchedulerProxy, TLAPS

\* A node as the proofs see it: its updateTime never leaves zero.
IsNode(n) == n.id \in Nat /\ n.updateTime = 0

\* What the proofs need of the types.
TypeInv ==
    /\ leaseIds \in [Schedulers -> [LeaseIds -> Nat]]
    /\ schedulerInfos \in [Schedulers -> [id : Nat, exclusive : BOOLEAN]]
    /\ faasSchedulers = [s \in Schedulers |-> faasSchedulers[s]]
    /\ \A s \in Schedulers : IsNode(faasSchedulers[s])
    /\ ring \subseteq Schedulers
    /\ lastID \in Nat /\ now \in Nat
    /\ pc \in [Acquires -> {"idle", "choose", "picked", "calling", "granted", "refused",
                            "failed", "allUnavailable", "notFound"}]
    /\ picked = [a \in Acquires |-> picked[a]]
    /\ \A a \in Acquires : pc[a] = "picked" => picked[a] \in Schedulers
    /\ node = [a \in Acquires |-> node[a]]
    /\ unavailable = [a \in Acquires |-> unavailable[a]]
    /\ \A a \in Acquires : IsNode(node[a]) /\ \A u \in unavailable[a] : IsNode(u)
    /\ handling = Idle \/ handling \in [op : {"add", "remove"}, s : Schedulers]

\* An instance ID was handed out before it is seen; 0 stands for no instance.
IdInv ==
    /\ \A s \in Schedulers :
         /\ schedulerInfos[s].id <= lastID
         /\ schedulerInfos[s].id = 0 <=> schedulerInfos[s] = NoInfo
         /\ faasSchedulers[s].id = 0 <=> faasSchedulers[s] = NoNode
    /\ \A a \in Acquires : \A u \in unavailable[a] : u.id # 0 /\ u.id <= lastID
    /\ \A a \in Acquires :
         node[a].id <= lastID /\ (pc[a] = "calling" => node[a].id # 0)

\* The scheduler an acquire picked after failures is none of those that failed,
\* nor is any incarnation of it that may be loaded later.
PickInv ==
    \A a \in Acquires : pc[a] = "picked" =>
        \A u \in unavailable[a] : schedulerInfos[picked[a]].id # u.id

Inv == TypeInv /\ IdInv /\ ProxyFollowsEvents /\ PickInv

-----------------------------------------------------------------------------
\* The loop of ProcessUpdate starts from zero and never finds an earlier time.
LEMMA MinZero ==
    ASSUME NEW T \in SUBSET Nat
    PROVE  Min({0} \union T) = 0
<1>1. \E x \in {0} \union T : \A y \in {0} \union T : x <= y OBVIOUS
<1>2. /\ Min({0} \union T) \in {0} \union T
      /\ \A y \in {0} \union T : Min({0} \union T) <= y
  BY <1>1 DEF Min
<1> DEFINE S == {0} \union T
           m == Min(S)
<1>3. S \subseteq Nat /\ 0 \in S OBVIOUS
<1>4. m \in S /\ \A y \in S : m <= y BY <1>2
<1> HIDE DEF m, S
<1>5. m = 0 BY <1>3, <1>4
<1> QED BY <1>5 DEF m, S

LEMMA MaxTwo ==
    ASSUME NEW i \in Nat, NEW j \in Nat
    PROVE  Max({i, j}) \in Nat /\ Max({i, j}) >= i /\ Max({i, j}) >= j /\ Max({i, j}) \in {i, j}
<1>1. \E x \in {i, j} : \A y \in {i, j} : x >= y OBVIOUS
<1>2. Max({i, j}) \in {i, j} /\ \A y \in {i, j} : Max({i, j}) >= y
  BY <1>1 DEF Max
<1> QED BY <1>2

LEMMA InitOK == Init => Inv /\ RingFollowsMap
<1> SUFFICES ASSUME Init PROVE Inv /\ RingFollowsMap OBVIOUS
<1>1. TypeInv BY DEF Init, TypeInv, IsNode, NoInfo, NoNode
<1>2. IdInv BY DEF Init, IdInv, NoInfo, NoNode
<1>3. ProxyFollowsEvents BY DEF Init, ProxyFollowsEvents, NoInfo, NoNode
<1>4. PickInv /\ RingFollowsMap BY DEF Init, PickInv, RingFollowsMap
<1> QED BY <1>1, <1>2, <1>3, <1>4 DEF Inv

-----------------------------------------------------------------------------
(* The events *)

\* The scheduler should be in the map.
Known(s) == schedulerInfos[s] # NoInfo /\ (keyType = "module" => Leases(s) # {})

\* An event of scheduler s leaves the tables of the others alone, and hands out
\* no instance ID but a fresh one.
EventOf(s) ==
    /\ leaseIds' \in [Schedulers -> [LeaseIds -> Nat]]
    /\ schedulerInfos' \in [Schedulers -> [id : Nat, exclusive : BOOLEAN]]
    /\ \A x \in Schedulers \ {s} :
         schedulerInfos'[x] = schedulerInfos[x] /\ leaseIds'[x] = leaseIds[x]
    /\ schedulerInfos'[s].id \in {0, schedulerInfos[s].id, lastID'}
    /\ schedulerInfos'[s].id = 0 <=> schedulerInfos'[s] = NoInfo
    /\ schedulerInfos'[s].id = lastID' \/ schedulerInfos'[s].id <= lastID
    /\ lastID' \in Nat /\ lastID' >= lastID /\ now' \in Nat
    /\ schedulerInfos'[s].id \notin {0, schedulerInfos[s].id} => lastID' > lastID
    /\ UNCHANGED <<keyType, ring, acquireVars>>

\* The node of s after the event is the one of its description, or none.
MapFollows(s) ==
    /\ faasSchedulers' = [x \in Schedulers |-> faasSchedulers'[x]]
    /\ \A x \in Schedulers \ {s} : faasSchedulers'[x] = faasSchedulers[x]
    /\ IsNode(faasSchedulers'[s])
    /\ faasSchedulers'[s].id = IF Known(s)' THEN schedulerInfos'[s].id ELSE 0
    /\ faasSchedulers'[s].id = 0 <=> faasSchedulers'[s] = NoNode

LEMMA AddFollows ==
    ASSUME Inv, NEW s \in Schedulers, AddOrSkip(s), EventOf(s), Known(s) => Known(s)'
    PROVE  MapFollows(s)
<1>0. keyType' = keyType BY DEF EventOf
<1>1. CASE Known(s)'
  <2>1. PICK x : faasSchedulers' = [faasSchedulers EXCEPT ![s] =
                  [id |-> schedulerInfos'[s].id, updateTime |-> UpdateTime(s)', renewed |-> x]]
    BY <1>0, <1>1 DEF AddOrSkip, Known
  <2>2. UpdateTime(s)' = 0
    <3>1. leaseIds' \in [Schedulers -> [LeaseIds -> Nat]] BY DEF EventOf
    <3>2. Times(s)' \in SUBSET Nat BY <3>1 DEF Times, Leases
    <3>3. Min({0} \union Times(s)') = 0 BY <3>2, MinZero
    <3> QED BY <3>3 DEF UpdateTime
  <2>3. schedulerInfos'[s].id \in Nat /\ schedulerInfos'[s].id # 0
    BY <1>1 DEF EventOf, Known
  <2>4. faasSchedulers = [y \in Schedulers |-> faasSchedulers[y]] BY DEF Inv, TypeInv
  <2> QED BY <1>1, <2>1, <2>2, <2>3, <2>4 DEF MapFollows, IsNode, NoNode
<1>2. CASE ~Known(s)'
  <2>1. faasSchedulers' = faasSchedulers BY <1>0, <1>2 DEF AddOrSkip, Known
  <2>2. faasSchedulers[s].id = 0 BY <1>2 DEF Inv, ProxyFollowsEvents, Known
  <2> QED BY <1>2, <2>1, <2>2 DEF MapFollows, Inv, TypeInv, IdInv
<1> QED BY <1>1, <1>2

LEMMA RemoveFollows ==
    ASSUME Inv, NEW s \in Schedulers, NEW isLeaseKey \in BOOLEAN, RemoveOrSkip(s, isLeaseKey),
           EventOf(s), Known(s)' => Known(s) /\ schedulerInfos'[s] = schedulerInfos[s],
           IF isLeaseKey THEN schedulerInfos'[s] = schedulerInfos[s]
                         ELSE schedulerInfos'[s] = NoInfo /\ Leases(s)' = Leases(s)
    PROVE  MapFollows(s)
<1>0. keyType' = keyType BY DEF EventOf
<1>1. faasSchedulers = [y \in Schedulers |-> faasSchedulers[y]]
      /\ (faasSchedulers[s] # NoNode <=> Known(s))
  BY DEF Inv, TypeInv, IdInv, ProxyFollowsEvents, Known
<1>2. CASE Known(s) /\ ~Known(s)'
  <2>1. faasSchedulers' = [faasSchedulers EXCEPT ![s] = NoNode]
    BY <1>0, <1>1, <1>2 DEF RemoveOrSkip, Known
  <2> QED BY <1>1, <1>2, <2>1 DEF MapFollows, IsNode, NoNode
<1>3. CASE ~Known(s)
  <2>1. faasSchedulers' = faasSchedulers BY <1>1, <1>3 DEF RemoveOrSkip
  <2> QED BY <1>1, <1>3, <2>1 DEF MapFollows, Inv, TypeInv, IdInv, NoNode
<1>4. CASE Known(s)'
  <2>1. faasSchedulers' = faasSchedulers
    BY <1>0, <1>4 DEF RemoveOrSkip, Known
  <2> QED BY <1>1, <1>4, <2>1 DEF MapFollows, Inv, TypeInv, IdInv, ProxyFollowsEvents, Known
<1> QED BY <1>2, <1>3, <1>4

\* An event keeps the invariant.
LEMMA EventKeeps ==
    ASSUME Inv, NEW s \in Schedulers, EventOf(s), MapFollows(s),
           handling' = handling \/ handling' = Idle \/ handling' \in [op : {"add", "remove"}, s : {s}]
    PROVE  Inv'
<1>0. UNCHANGED acquireVars /\ UNCHANGED keyType /\ ring' = ring BY DEF EventOf
<1>1. TypeInv' BY <1>0 DEF EventOf, MapFollows, Inv, TypeInv, acquireVars
<1>2. IdInv'
  <2>1. \A x \in Schedulers :
         /\ schedulerInfos'[x].id <= lastID'
         /\ schedulerInfos'[x].id = 0 <=> schedulerInfos'[x] = NoInfo
         /\ faasSchedulers'[x].id = 0 <=> faasSchedulers'[x] = NoNode
    <3>1. \A x \in Schedulers \ {s} : schedulerInfos[x].id \in Nat
      BY DEF Inv, TypeInv
    <3>2. lastID \in Nat /\ lastID' \in Nat /\ lastID' >= lastID /\ schedulerInfos'[s].id \in Nat
      BY DEF Inv, TypeInv, EventOf
    <3>3. \A x \in Schedulers \ {s} : schedulerInfos[x].id <= lastID'
      BY <3>1, <3>2 DEF Inv, IdInv
    <3>4. schedulerInfos'[s].id <= lastID' BY <3>2 DEF EventOf
    <3> QED BY <3>3, <3>4 DEF EventOf, MapFollows, Inv, IdInv
  <2>2. \A a \in Acquires :
          /\ node'[a].id <= lastID' /\ (pc'[a] = "calling" => node'[a].id # 0)
          /\ \A u \in unavailable'[a] : u.id # 0 /\ u.id <= lastID'
    BY <1>0 DEF EventOf, Inv, IdInv, TypeInv, IsNode, acquireVars
  <2> QED BY <2>1, <2>2 DEF IdInv
<1>3. ProxyFollowsEvents'
  <2>1. \A x \in Schedulers \ {s} : Known(x)' <=> Known(x)
    BY <1>0 DEF EventOf, Known, Leases
  <2>2. \A x \in Schedulers :
          faasSchedulers'[x].id = IF Known(x)' THEN schedulerInfos'[x].id ELSE 0
    BY <2>1 DEF MapFollows, EventOf, Inv, ProxyFollowsEvents, Known
  <2> QED BY <2>2 DEF ProxyFollowsEvents, Known
<1>4. PickInv'
  <2> SUFFICES ASSUME NEW a \in Acquires, pc[a] = "picked", NEW u \in unavailable[a]
               PROVE  schedulerInfos'[picked[a]].id # u.id
    BY <1>0 DEF PickInv, acquireVars
  <2>1. /\ picked[a] \in Schedulers /\ schedulerInfos[picked[a]].id # u.id
        /\ u.id \in Nat /\ u.id # 0 /\ u.id <= lastID /\ lastID \in Nat
    BY DEF Inv, PickInv, TypeInv, IsNode, IdInv
  <2> QED BY <2>1 DEF EventOf
<1> QED BY <1>1, <1>2, <1>3, <1>4 DEF Inv

\* Each event is one of its scheduler, and the map follows it.
LEMMA PutEvent ==
    ASSUME Inv, NEW s \in Schedulers,
           PutInfo(s) \/ \E l \in LeaseIds : PutLease(s, l)
    PROVE  EventOf(s) /\ AddOrSkip(s) /\ (Known(s) => Known(s)') /\ MapFollows(s)
<1>1. ASSUME NEW l \in LeaseIds, PutLease(s, l)
      PROVE  EventOf(s) /\ AddOrSkip(s) /\ (Known(s) => Known(s)')
  <2>1. /\ now' = now + 1 /\ leaseIds' = [leaseIds EXCEPT ![s][l] = now + 1]
        /\ schedulerInfos' = schedulerInfos /\ lastID' = lastID
        /\ UNCHANGED <<keyType, ring, acquireVars>> /\ AddOrSkip(s)
    BY <1>1 DEF PutLease
  <2>2. EventOf(s) BY <2>1 DEF EventOf, Inv, TypeInv, IdInv
  <2>3. l \in Leases(s)' BY <2>1 DEF Leases, Inv, TypeInv
  <2> QED BY <2>1, <2>2, <2>3 DEF Known
<1>2. ASSUME PutInfo(s)
      PROVE  EventOf(s) /\ AddOrSkip(s) /\ (Known(s) => Known(s)')
  <2>1. PICK info \in SchedulerInstanceInfo(s) :
          /\ schedulerInfos' = [schedulerInfos EXCEPT ![s] = info]
          /\ lastID' = Max({lastID, info.id})
    BY <1>2 DEF PutInfo
  <2>2. /\ leaseIds' = leaseIds /\ now' = now /\ AddOrSkip(s)
        /\ UNCHANGED <<keyType, ring, acquireVars>>
    BY <1>2 DEF PutInfo
  <2>3. /\ info \in [id : Nat, exclusive : BOOLEAN] /\ info.id # 0 /\ info # NoInfo
        /\ info.id \in {lastID + 1, schedulerInfos[s].id}
    BY <2>1, BoundAssumption DEF SchedulerInstanceInfo, Infos, NoInfo
  <2>4. /\ lastID \in Nat /\ schedulerInfos[s].id \in Nat /\ schedulerInfos[s].id <= lastID
    BY DEF Inv, TypeInv, IdInv
  <2>5. lastID' \in Nat /\ lastID' >= lastID /\ lastID' >= info.id /\ lastID' \in {lastID, info.id}
    BY <2>1, <2>3, <2>4, MaxTwo
  <2>6. schedulerInfos'[s] = info /\ \A x \in Schedulers \ {s} : schedulerInfos'[x] = schedulerInfos[x]
    BY <2>1 DEF Inv, TypeInv
  <2>7. schedulerInfos' \in [Schedulers -> [id : Nat, exclusive : BOOLEAN]]
    BY <2>1, <2>3 DEF Inv, TypeInv
  <2>8. EventOf(s)
    BY <2>2, <2>3, <2>4, <2>5, <2>6, <2>7 DEF EventOf, Inv, TypeInv
  <2>9. Leases(s)' = Leases(s) BY <2>2 DEF Leases
  <2> QED BY <2>2, <2>3, <2>6, <2>8, <2>9 DEF Known
<1> QED BY <1>1, <1>2, AddFollows

LEMMA DeleteEvent ==
    ASSUME Inv, NEW s \in Schedulers,
           DeleteInfo(s) \/ \E l \in LeaseIds : DeleteLease(s, l)
    PROVE  /\ EventOf(s) /\ MapFollows(s)
           /\ RemoveOrSkip(s, TRUE) \/ RemoveOrSkip(s, FALSE)
           /\ Known(s)' => Known(s) /\ schedulerInfos'[s] = schedulerInfos[s]
<1>1. ASSUME NEW l \in LeaseIds, DeleteLease(s, l)
      PROVE  /\ EventOf(s) /\ RemoveOrSkip(s, TRUE) /\ schedulerInfos'[s] = schedulerInfos[s]
             /\ Known(s)' => Known(s)
  <2>1. /\ leaseIds' = [leaseIds EXCEPT ![s][l] = 0]
        /\ schedulerInfos' = schedulerInfos /\ lastID' = lastID /\ now' = now
        /\ UNCHANGED <<keyType, ring, acquireVars>> /\ RemoveOrSkip(s, TRUE)
    BY <1>1 DEF DeleteLease
  <2>2. EventOf(s) BY <2>1 DEF EventOf, Inv, TypeInv, IdInv
  <2>3. Leases(s)' \subseteq Leases(s) BY <2>1 DEF Leases, Inv, TypeInv
  <2> QED BY <2>1, <2>2, <2>3 DEF Known
<1>2. ASSUME DeleteInfo(s)
      PROVE  /\ EventOf(s) /\ RemoveOrSkip(s, FALSE) /\ schedulerInfos'[s] = NoInfo
             /\ Leases(s)' = Leases(s) /\ ~Known(s)'
  <2>1. /\ leaseIds' = leaseIds /\ now' = now /\ lastID' = lastID
        /\ schedulerInfos' = [schedulerInfos EXCEPT ![s] = NoInfo]
        /\ UNCHANGED <<keyType, ring, acquireVars>> /\ RemoveOrSkip(s, FALSE)
    BY <1>2 DEF DeleteInfo
  <2>2. schedulerInfos'[s] = NoInfo /\ NoInfo \in [id : Nat, exclusive : BOOLEAN] /\ NoInfo.id = 0
    BY <2>1 DEF Inv, TypeInv, NoInfo
  <2>3. EventOf(s) BY <2>1, <2>2 DEF EventOf, Inv, TypeInv, IdInv
  <2> QED BY <2>1, <2>2, <2>3 DEF Known, Leases
<1>3. CASE \E l \in LeaseIds : DeleteLease(s, l)
  BY <1>1, <1>3, RemoveFollows
<1>4. CASE DeleteInfo(s)
  BY <1>2, <1>4, RemoveFollows
<1> QED BY <1>3, <1>4

-----------------------------------------------------------------------------
(* The acquires *)

LEMMA AcquireKeeps ==
    ASSUME Inv, NEW a \in Acquires, StartAcquire(a) \/ Acquire(a)
    PROVE  Inv'
<1>0. UNCHANGED <<eventVars, proxyVars>>
  BY DEF StartAcquire, Acquire, Choose, Load, Answered, CallFails, Redirected
<1>1. ProxyFollowsEvents' BY <1>0 DEF Inv, ProxyFollowsEvents, Leases, eventVars, proxyVars
<1>2. CASE \/ StartAcquire(a) \/ Answered(a) \/ Redirected(a)
  <2>1. /\ UNCHANGED <<picked, node, unavailable>>
        /\ \E x \in {"choose", "granted", "refused", "failed"} : pc' = [pc EXCEPT ![a] = x]
    BY <1>2 DEF StartAcquire, Answered, Redirected, Retry
  <2> QED BY <1>0, <1>1, <2>1 DEF Inv, TypeInv, IdInv, PickInv, eventVars, proxyVars
<1>3. CASE Choose(a)
  <2>0. UNCHANGED <<node, unavailable>> BY <1>3 DEF Choose
  <2>1. CASE \E x \in Candidates(a) : /\ picked' = [picked EXCEPT ![a] = x]
                                      /\ pc' = [pc EXCEPT ![a] = "picked"]
    <3>1. PICK x \in Candidates(a) : /\ picked' = [picked EXCEPT ![a] = x]
                                     /\ pc' = [pc EXCEPT ![a] = "picked"]
      BY <2>1
    <3>2. x \in Schedulers BY DEF Candidates, Inv, TypeInv
    <3>3. \A u \in unavailable[a] : schedulerInfos[x].id # u.id
      <4> SUFFICES ASSUME NEW u \in unavailable[a] PROVE schedulerInfos[x].id # u.id OBVIOUS
      <4>1. faasSchedulers[x] # NoNode /\ Eligible(faasSchedulers[x], unavailable[a])
        BY DEF Candidates
      <4>2. faasSchedulers[x].updateTime = 0 /\ u.updateTime = 0
        BY <3>2 DEF Inv, TypeInv, IsNode
      <4>3. faasSchedulers[x].id # u.id BY <4>1, <4>2 DEF Eligible
      <4>4. faasSchedulers[x].id = schedulerInfos[x].id
        BY <3>2, <4>1 DEF Inv, IdInv, ProxyFollowsEvents
      <4> QED BY <4>3, <4>4
    <3>4. TypeInv' BY <1>0, <2>0, <3>1, <3>2 DEF Inv, TypeInv, eventVars, proxyVars
    <3>5. IdInv' BY <1>0, <2>0, <3>1 DEF Inv, TypeInv, IdInv, eventVars, proxyVars
    <3>6. PickInv' BY <1>0, <2>0, <3>1, <3>3 DEF Inv, TypeInv, PickInv, eventVars
    <3> QED BY <1>1, <3>4, <3>5, <3>6 DEF Inv
  <2>2. CASE UNCHANGED picked /\ pc' = [pc EXCEPT ![a] = "allUnavailable"]
    BY <1>0, <1>1, <2>0, <2>2 DEF Inv, TypeInv, IdInv, PickInv, eventVars, proxyVars
  <2> QED BY <1>3, <2>1, <2>2 DEF Choose
<1>4. CASE Load(a)
  <2>0. UNCHANGED <<picked, unavailable>> /\ pc[a] = "picked" BY <1>4 DEF Load
  <2>1. picked[a] \in Schedulers BY <2>0 DEF Inv, TypeInv
  <2>2. CASE /\ faasSchedulers[picked[a]] # NoNode
             /\ node' = [node EXCEPT ![a] = faasSchedulers[picked[a]]]
             /\ pc' = [pc EXCEPT ![a] = "calling"]
    <3>1. /\ IsNode(faasSchedulers[picked[a]]) /\ faasSchedulers[picked[a]].id # 0
          /\ faasSchedulers[picked[a]].id <= lastID
      BY <2>1, <2>2 DEF Inv, TypeInv, IdInv, ProxyFollowsEvents
    <3>2. TypeInv' BY <1>0, <2>0, <2>2, <3>1 DEF Inv, TypeInv, eventVars, proxyVars
    <3>3. IdInv' BY <1>0, <2>0, <2>2, <3>1 DEF Inv, TypeInv, IdInv, eventVars, proxyVars
    <3>4. PickInv' BY <1>0, <2>0, <2>2 DEF Inv, TypeInv, PickInv, eventVars
    <3> QED BY <1>1, <3>2, <3>3, <3>4 DEF Inv
  <2>3. CASE UNCHANGED node /\ pc' = [pc EXCEPT ![a] = "notFound"]
    BY <1>0, <1>1, <2>0, <2>3 DEF Inv, TypeInv, IdInv, PickInv, eventVars, proxyVars
  <2> QED BY <1>4, <2>2, <2>3 DEF Load
<1>5. CASE CallFails(a)
  <2>1. /\ UNCHANGED <<picked, node>> /\ pc[a] = "calling"
        /\ unavailable' = [unavailable EXCEPT ![a] = @ \union {node[a]}]
        /\ \E x \in {"choose", "failed"} : pc' = [pc EXCEPT ![a] = x]
    BY <1>5 DEF CallFails, Retry
  <2>2. IsNode(node[a]) /\ node[a].id # 0 /\ node[a].id <= lastID
    BY <2>1 DEF Inv, TypeInv, IdInv
  <2>3. TypeInv' BY <1>0, <2>1, <2>2 DEF Inv, TypeInv, eventVars, proxyVars
  <2>4. IdInv' BY <1>0, <2>1, <2>2 DEF Inv, TypeInv, IdInv, eventVars, proxyVars
  <2>5. PickInv' BY <1>0, <2>1 DEF Inv, TypeInv, PickInv, eventVars
  <2> QED BY <1>1, <2>3, <2>4, <2>5 DEF Inv
<1> QED BY <1>2, <1>3, <1>4, <1>5 DEF Acquire

LEMMA RingKeeps ==
    ASSUME Inv, ChangeRing \/ UNCHANGED vars
    PROVE  Inv'
<1>1. CASE ChangeRing
  <2>1. /\ UNCHANGED <<eventVars, faasSchedulers, acquireVars>> /\ handling' = Idle
        /\ ring' \subseteq Schedulers
    BY <1>1 DEF ChangeRing, RingAdd, RingRemove, Inv, TypeInv
  <2> QED BY <2>1 DEF Inv, TypeInv, IdInv, ProxyFollowsEvents, PickInv, Leases, eventVars, acquireVars
<1>2. CASE UNCHANGED vars
  BY <1>2 DEF Inv, TypeInv, IdInv, ProxyFollowsEvents, PickInv, Leases, vars, eventVars,
              acquireVars, proxyVars
<1> QED BY <1>1, <1>2

LEMMA InvStep ==
    ASSUME Inv, [Next]_vars
    PROVE  Inv'
<1>1. ASSUME NEW s \in Schedulers, PutInfo(s) \/ \E l \in LeaseIds : PutLease(s, l) PROVE Inv'
  <2>1. \/ handling' = handling \/ handling' = Idle
        \/ handling' \in [op : {"add", "remove"}, s : {s}]
    <3>1. AddOrSkip(s) BY <1>1, PutEvent
    <3>2. \/ handling' = handling \/ handling' = Idle
          \/ handling' = [op |-> "add", s |-> s]
      BY <3>1 DEF AddOrSkip
    <3> QED BY <3>2
  <2> QED BY <1>1, <2>1, PutEvent, EventKeeps
<1>2. ASSUME NEW s \in Schedulers, DeleteInfo(s) \/ \E l \in LeaseIds : DeleteLease(s, l)
      PROVE Inv'
  <2>1. \/ handling' = handling
        \/ handling' \in [op : {"add", "remove"}, s : {s}]
    BY <1>2, DeleteEvent DEF RemoveOrSkip
  <2> QED BY <1>2, <2>1, DeleteEvent, EventKeeps
<1> QED BY <1>1, <1>2, AcquireKeeps, RingKeeps DEF Next

-----------------------------------------------------------------------------
(* The ring follows the map *)

\* The map has changed when the ring has still to.
HandInv ==
    /\ handling.op = "add" => faasSchedulers[handling.s] # NoNode
    /\ handling.op = "remove" => faasSchedulers[handling.s] = NoNode

LEMMA RingStep ==
    ASSUME Inv, HandInv, RingFollowsMap, [Next]_vars
    PROVE  HandInv' /\ RingFollowsMap'
<1>0. Idle.op = "none" BY DEF Idle
<1>1. ASSUME NEW s \in Schedulers, handling = Idle, EventOf(s), MapFollows(s),
             \/ /\ handling' = [op |-> "add", s |-> s] /\ faasSchedulers'[s] # NoNode
             \/ /\ handling' = [op |-> "remove", s |-> s] /\ faasSchedulers'[s] = NoNode
             \/ /\ handling' = Idle
                /\ \/ faasSchedulers'[s] # NoNode /\ schedulerInfos'[s].exclusive
                   \/ faasSchedulers'[s] = NoNode /\ faasSchedulers[s] = NoNode
                   \/ /\ faasSchedulers'[s] = faasSchedulers[s]
                      /\ schedulerInfos'[s] = schedulerInfos[s]
      PROVE  HandInv' /\ RingFollowsMap'
  <2>1. HandInv' BY <1>0, <1>1 DEF HandInv
  <2>2. \A x \in Schedulers :
          /\ x \in ring => faasSchedulers[x] # NoNode
          /\ faasSchedulers[x] # NoNode /\ ~schedulerInfos[x].exclusive => x \in ring
    BY <1>0, <1>1 DEF RingFollowsMap
  <2>3. \A x \in Schedulers \ {s} :
          faasSchedulers'[x] = faasSchedulers[x] /\ schedulerInfos'[x] = schedulerInfos[x]
    BY <1>1 DEF EventOf, MapFollows
  <2>4. ring' = ring BY <1>1 DEF EventOf
  <2> QED BY <1>1, <2>1, <2>2, <2>3, <2>4 DEF RingFollowsMap
<1>2. ASSUME NEW s \in Schedulers, PutInfo(s) \/ \E l \in LeaseIds : PutLease(s, l)
      PROVE  HandInv' /\ RingFollowsMap'
  <2>1. /\ EventOf(s) /\ MapFollows(s) /\ AddOrSkip(s) /\ (Known(s) => Known(s)')
    BY <1>2, PutEvent
  <2>2. handling = Idle BY <1>2 DEF PutInfo, PutLease
  <2>3. CASE Known(s)'
    <3>1. faasSchedulers'[s] # NoNode
      BY <2>1, <2>3 DEF MapFollows, EventOf, Known
    <3>2. handling' = IF schedulerInfos'[s].exclusive THEN Idle ELSE [op |-> "add", s |-> s]
      BY <2>1, <2>3 DEF AddOrSkip, Known, EventOf
    <3> QED BY <1>1, <2>1, <2>2, <3>1, <3>2
  <2>4. CASE ~Known(s)'
    <3>1. handling' = handling /\ faasSchedulers' = faasSchedulers
      BY <2>1, <2>4 DEF AddOrSkip, Known, EventOf
    <3>2. faasSchedulers'[s] = NoNode BY <2>1, <2>4 DEF MapFollows
    <3> QED BY <1>1, <2>1, <2>2, <3>1, <3>2
  <2> QED BY <2>3, <2>4
<1>3. ASSUME NEW s \in Schedulers, DeleteInfo(s) \/ \E l \in LeaseIds : DeleteLease(s, l)
      PROVE  HandInv' /\ RingFollowsMap'
  <2>1. /\ EventOf(s) /\ MapFollows(s)
        /\ RemoveOrSkip(s, TRUE) \/ RemoveOrSkip(s, FALSE)
        /\ Known(s)' => Known(s) /\ schedulerInfos'[s] = schedulerInfos[s]
    BY <1>3, DeleteEvent
  <2>2. handling = Idle BY <1>3 DEF DeleteInfo, DeleteLease
  <2>3. \/ handling' = [op |-> "remove", s |-> s]
           /\ faasSchedulers' = [faasSchedulers EXCEPT ![s] = NoNode]
        \/ handling' = handling /\ faasSchedulers' = faasSchedulers
    BY <2>1 DEF RemoveOrSkip
  <2>4. CASE handling' = [op |-> "remove", s |-> s]
             /\ faasSchedulers' = [faasSchedulers EXCEPT ![s] = NoNode]
    <3>1. faasSchedulers'[s] = NoNode BY <2>4 DEF Inv, TypeInv
    <3> QED BY <1>1, <2>1, <2>2, <2>4, <3>1
  <2>5. CASE handling' = handling /\ faasSchedulers' = faasSchedulers
    <3>1. CASE Known(s)' BY <1>1, <2>1, <2>2, <2>5, <3>1
    <3>2. CASE ~Known(s)'
      <4>1. faasSchedulers'[s] = NoNode BY <2>1, <3>2 DEF MapFollows
      <4> QED BY <1>1, <2>1, <2>2, <2>5, <4>1
    <3> QED BY <3>1, <3>2
  <2> QED BY <2>3, <2>4, <2>5
<1>4. CASE ChangeRing
  <2>1. /\ handling \in [op : {"add", "remove"}, s : Schedulers] /\ handling' = Idle
        /\ faasSchedulers' = faasSchedulers /\ schedulerInfos' = schedulerInfos
        /\ ring' = IF handling.op = "add" THEN ring \union {handling.s} ELSE ring \ {handling.s}
    BY <1>4 DEF ChangeRing, RingAdd, RingRemove, Inv, TypeInv, eventVars
  <2>2. \A x \in Schedulers : x # handling.s =>
          /\ x \in ring => faasSchedulers[x] # NoNode
          /\ faasSchedulers[x] # NoNode /\ ~schedulerInfos[x].exclusive => x \in ring
    BY <2>1 DEF RingFollowsMap
  <2>3. HandInv' BY <1>0, <2>1 DEF HandInv
  <2> QED BY <2>1, <2>2, <2>3 DEF RingFollowsMap, HandInv
<1>5. CASE (\E a \in Acquires : StartAcquire(a) \/ Acquire(a)) \/ UNCHANGED vars
  <2>1. UNCHANGED <<eventVars, proxyVars>>
    BY <1>5 DEF vars, StartAcquire, Acquire, Choose, Load, Answered, CallFails, Redirected
  <2> QED BY <2>1 DEF HandInv, RingFollowsMap, eventVars, proxyVars
<1> QED BY <1>2, <1>3, <1>4, <1>5 DEF Next

-----------------------------------------------------------------------------
(* Whatever order the keys of a scheduler come and go in, it is in the map   *)
(* exactly when it should be, with the instance ID of its last description.  *)
THEOREM ProxyFollowsEventsCorrect == Spec => []ProxyFollowsEvents
<1>1. Init => Inv BY InitOK
<1>2. Inv /\ [Next]_vars => Inv' BY InvStep
<1>3. Inv => ProxyFollowsEvents BY DEF Inv
<1> QED BY <1>1, <1>2, <1>3, PTL DEF Spec

(* The ring and the map agree, but for the scheduler whose removal or        *)
(* addition is half done.                                                    *)
THEOREM RingFollowsMapCorrect == Spec => []RingFollowsMap
<1> DEFINE All == Inv /\ HandInv /\ RingFollowsMap
<1>1. Init => All
  <2>1. Init => HandInv BY DEF Init, HandInv, Idle
  <2> QED BY <2>1, InitOK
<1>2. All /\ [Next]_vars => All' BY InvStep, RingStep
<1>3. All => RingFollowsMap OBVIOUS
<1> HIDE DEF All
<1> QED BY <1>1, <1>2, <1>3, PTL DEF Spec

(* An acquire never calls an incarnation of a scheduler again that failed to *)
(* answer it: the node it loads by name after its choice is the one chosen   *)
(* or a younger one.                                                         *)
THEOREM NoSecondCallCorrect == Spec => NoSecondCall
<1>1. Init => Inv BY InitOK
<1>2. Inv /\ [Next]_vars => Inv' BY InvStep
<1>3. Inv /\ [Next]_vars =>
        [\A a \in Acquires : pc[a] = "picked" /\ pc'[a] = "calling" =>
             Eligible(node'[a], unavailable[a])]_vars
  <2> SUFFICES ASSUME Inv, Next, NEW a \in Acquires, pc[a] = "picked", pc'[a] = "calling"
               PROVE  Eligible(node'[a], unavailable[a])
    OBVIOUS
  <2>1. Load(a)
    <3>1. \A b \in Acquires \ {a} : ~(StartAcquire(b) \/ Acquire(b))
      BY DEF StartAcquire, Acquire, Choose, Load, Answered, CallFails, Redirected, Retry, Inv, TypeInv
    <3>2. ~(StartAcquire(a) \/ Choose(a) \/ Answered(a) \/ CallFails(a) \/ Redirected(a))
      BY DEF StartAcquire, Choose, Answered, CallFails, Redirected
    <3>3. /\ ~ChangeRing
          /\ \A s \in Schedulers :
               /\ ~PutInfo(s) /\ ~DeleteInfo(s)
               /\ \A l \in LeaseIds : ~PutLease(s, l) /\ ~DeleteLease(s, l)
      BY DEF ChangeRing, PutInfo, DeleteInfo, PutLease, DeleteLease, acquireVars
    <3> QED BY <3>1, <3>2, <3>3 DEF Next, Acquire
  <2>2. picked[a] \in Schedulers BY DEF Inv, TypeInv
  <2>3. faasSchedulers[picked[a]] # NoNode /\ node'[a] = faasSchedulers[picked[a]]
    BY <2>1 DEF Load, Inv, TypeInv
  <2>4. faasSchedulers[picked[a]].id = schedulerInfos[picked[a]].id
    BY <2>2, <2>3 DEF Inv, IdInv, ProxyFollowsEvents
  <2> QED BY <2>3, <2>4 DEF Eligible, Inv, PickInv
<1> QED BY <1>1, <1>2, <1>3, PTL DEF Spec, NoSecondCall
=============================================================================
