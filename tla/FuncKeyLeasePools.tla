------------------------- MODULE FuncKeyLeasePools -------------------------
(***************************************************************************)
(* The leases of one function in one ring's Manager (lease_manager.go):    *)
(* the FuncKeyLeasePools object with its pools, its registries             *)
(* globalLeaseList and leaseIdToLeasePool, its background loop (clear      *)
(* empty pools, batch retain), the retain calls in flight, and             *)
(* ClearFuncLeasePools, after which a new object ("generation") replaces   *)
(* the old one while old requests still work on it.                        *)
(*                                                                         *)
(* The inside of a pool is LeasePool's subject; here a lease of a pool is  *)
(* in use, idle or gone.  A step is one critical section of the function   *)
(* lock (or of the manager lock).  A batch is modelled as one retain call  *)
(* per lease: which leases share a call only depends on the scheduler.     *)
(***************************************************************************)
EXTENDS Naturals, FiniteSets

CONSTANTS
  Requests, Leases,
  Keys,         \* pool keys of the function, apart from their ring name
  MaxGens,      \* bound on FuncKeyLeasePools objects created
  MaxPools,     \* bound on LeasePool objects created
  Sessions      \* the keys whose option carries an InstanceSession

ASSUME BoundsAssumption == MaxGens \in Nat /\ MaxPools \in Nat /\ Sessions \subseteq Keys

None  == 0
Gens  == 1..MaxGens
Pools == 1..MaxPools

VARIABLES
  cur,          \* Manager.globalFuncKeyLeasePools[funcKey], or None
  genCount,     \* FuncKeyLeasePools objects created so far
  poolCount,    \* LeasePool objects created so far
  stopped,      \* FuncKeyLeasePools.stopCh is closed, per generation
  leasePools,   \* FuncKeyLeasePools.leasePools: [gen][key] -> pool or None
  globalLeaseList,     \* per generation: set of registered leases
  leaseIdToLeasePool,  \* per generation: lease -> pool or None
  loopPc,       \* FuncKeyLeasePools.loop, per generation
  snapshots,    \* what the running doBatchRetain collected
  exitLeases,
  retainCalls,  \* batchRetain calls in flight: gen, lease, ring of the PoolKey
  poolGen, poolKey,    \* LeasePool: where it was created
  poolStopped,  \* LeasePool.stopCh is closed
  pendingNum,   \* LeasePool.pendingNum
  leaseState,   \* "none", "inUse", "idle" (both in leaseMap), "gone" (exited)
  leasePool,    \* the pool whose leaseMap holds it
  reusable,     \* LeaseInterval > 0
  ring,         \* acquireOption.RingName, the last part of the PoolKey
  reacquire,    \* InstanceLease.reacquire
  blue,         \* the gray ratio sends the session to the blue ring
  pc, flps, pool, lease, key   \* per request

mgrVars   == <<cur, genCount>>
regVars   == <<globalLeaseList, leaseIdToLeasePool>>
retVars   == <<loopPc, snapshots, exitLeases, retainCalls>>
poolVars  == <<poolCount, leasePools, poolGen, poolKey, poolStopped, pendingNum>>
leaseVars == <<leaseState, leasePool, reusable, ring, reacquire>>
reqVars   == <<pc, flps, pool, lease, key>>
vars == <<mgrVars, stopped, regVars, retVars, poolVars, leaseVars, blue, reqVars>>

Green == "green"
Blue  == "blue"
NoL   == "nolease"   \* a request without a lease
ASSUME LeaseAssumption == NoL \notin Leases
AnyKey == CHOOSE k \in Keys : TRUE   \* placeholder before assignment

Init ==
  /\ cur = None /\ genCount = 0 /\ poolCount = 0
  /\ stopped = [g \in Gens |-> FALSE]
  /\ leasePools = [g \in Gens |-> [k \in Keys |-> None]]
  /\ globalLeaseList = [g \in Gens |-> {}]
  /\ leaseIdToLeasePool = [g \in Gens |-> [l \in Leases |-> None]]
  /\ loopPc = [g \in Gens |-> "none"]
  /\ snapshots = [g \in Gens |-> {}] /\ exitLeases = [g \in Gens |-> {}]
  /\ retainCalls = {}
  /\ poolGen = [p \in Pools |-> None] /\ poolKey = [p \in Pools |-> AnyKey]
  /\ poolStopped = [p \in Pools |-> FALSE]
  /\ pendingNum = [p \in Pools |-> 0]
  /\ leaseState = [l \in Leases |-> "none"] /\ leasePool = [l \in Leases |-> None]
  /\ reusable = [l \in Leases |-> FALSE]
  /\ ring = [l \in Leases |-> Green] /\ reacquire = [l \in Leases |-> FALSE]
  /\ blue = FALSE
  /\ pc = [r \in Requests |-> "idle"] /\ flps = [r \in Requests |-> None]
  /\ pool = [r \in Requests |-> None] /\ lease = [r \in Requests |-> NoL]
  /\ key = [r \in Requests |-> AnyKey]

-----------------------------------------------------------------------------
(* LeasePool as seen from here                                              *)

Live(l) == leaseState[l] \in {"inUse", "idle"}
LeaseMap(p) == {l \in Leases : Live(l) /\ leasePool[l] = p}

\* LeasePool.empty and no pending request: the pool may be cleared.  A
\* request in acquireHandler is pending as well, so inFlightCount adds nothing.
Clearable(p) == LeaseMap(p) = {} /\ pendingNum[p] = 0

\* removeLease / destroy: the lease exits and leaves leaseMap and idle list.
Gone(L) == leaseState' = [l \in Leases |-> IF l \in L THEN "gone" ELSE leaseState[l]]

\* The PoolKey sent with a retain call names a pool of this Manager only while
\* the lease's ring name is the one the pool was created with.
PoolByKey(g, l, rg) ==
  IF rg = Green THEN leasePools[g][poolKey[leasePool[l]]] ELSE None

-----------------------------------------------------------------------------
(* Requests: AcquireInstance, acquireInstance, ReleaseInstanceAllocation    *)

Goto(r, at) == pc' = [pc EXCEPT ![r] = at]

\* AcquireInstance: the function's object, created with its loop if missing.
AcquireInstance(r, k) ==
  /\ pc[r] = "idle"
  /\ k \in Sessions => ~blue     \* else the blue Manager serves the request
  /\ key' = [key EXCEPT ![r] = k]
  /\ IF cur # None
     THEN flps' = [flps EXCEPT ![r] = cur] /\ UNCHANGED <<mgrVars, loopPc>>
     ELSE /\ genCount < MaxGens
          /\ genCount' = genCount + 1 /\ cur' = genCount + 1
          /\ loopPc' = [loopPc EXCEPT ![genCount + 1] = "wait"]
          /\ flps' = [flps EXCEPT ![r] = genCount + 1]
  /\ Goto(r, "lookup")
  /\ UNCHANGED <<stopped, regVars, snapshots, exitLeases, retainCalls, poolVars,
                 leaseVars, blue, pool, lease>>

\* makeAcquireOption fails: the object stays, the request ends.
OptionFails(r) ==
  /\ pc[r] = "lookup"
  /\ Goto(r, "idle")
  /\ UNCHANGED <<mgrVars, stopped, regVars, retVars, poolVars, leaseVars, blue,
                 flps, pool, lease, key>>

\* acquireInstance, pool found under the read lock: counted as pending.
FindPool(r) ==
  LET p == leasePools[flps[r]][key[r]] IN
  /\ pc[r] = "lookup" /\ p # None
  /\ pool' = [pool EXCEPT ![r] = p]
  /\ pendingNum' = [pendingNum EXCEPT ![p] = @ + 1]
  /\ Goto(r, "pending")
  /\ UNCHANGED <<mgrVars, stopped, regVars, retVars, poolCount, leasePools, poolGen,
                 poolKey, poolStopped, leaseVars, blue, flps, lease, key>>

\* Pool missing: the read lock is dropped and the pool created (unless someone
\* else did meanwhile) under the write lock, which is dropped again.
CreatePool(r) ==
  LET g == flps[r] IN
  /\ pc[r] = "create"
  /\ IF leasePools[g][key[r]] # None
     THEN /\ pool' = [pool EXCEPT ![r] = leasePools[g][key[r]]]
          /\ UNCHANGED poolVars
     ELSE /\ poolCount < MaxPools
          /\ poolCount' = poolCount + 1
          /\ pool' = [pool EXCEPT ![r] = poolCount + 1]
          /\ leasePools' = [leasePools EXCEPT ![g][key[r]] = poolCount + 1]
          /\ poolGen' = [poolGen EXCEPT ![poolCount + 1] = g]
          /\ poolKey' = [poolKey EXCEPT ![poolCount + 1] = key[r]]
          /\ UNCHANGED <<poolStopped, pendingNum>>
  /\ Goto(r, "created")
  /\ UNCHANGED <<mgrVars, stopped, regVars, retVars, leaseVars, blue, flps, lease, key>>

MissPool(r) ==
  /\ pc[r] = "lookup" /\ leasePools[flps[r]][key[r]] = None
  /\ Goto(r, "create")
  /\ UNCHANGED <<mgrVars, stopped, regVars, retVars, poolVars, leaseVars, blue,
                 flps, pool, lease, key>>

\* The read lock is taken again and the request counted on the pool it got,
\* without looking whether leasePools still has it.
EnterPool(r) ==
  /\ pc[r] = "created"
  /\ pendingNum' = [pendingNum EXCEPT ![pool[r]] = @ + 1]
  /\ Goto(r, "pending")
  /\ UNCHANGED <<mgrVars, stopped, regVars, retVars, poolCount, leasePools, poolGen,
                 poolKey, poolStopped, leaseVars, blue, flps, pool, lease, key>>

\* acquireInstanceLease: an idle lease of the pool, or a new one.
TakeIdle(r, l) ==
  /\ pc[r] = "pending"
  /\ leaseState[l] = "idle" /\ leasePool[l] = pool[r]
  /\ leaseState' = [leaseState EXCEPT ![l] = "inUse"]
  /\ lease' = [lease EXCEPT ![r] = l]
  /\ Goto(r, "taken")
  /\ UNCHANGED <<mgrVars, stopped, regVars, retVars, poolVars, leasePool, reusable,
                 ring, reacquire, blue, flps, pool, key>>

TakeNew(r, l, canReuse) ==
  /\ pc[r] = "pending"
  /\ leaseState[l] = "none"
  /\ leaseState' = [leaseState EXCEPT ![l] = "inUse"]
  /\ leasePool' = [leasePool EXCEPT ![l] = pool[r]]
  /\ reusable' = [reusable EXCEPT ![l] = canReuse]
  /\ lease' = [lease EXCEPT ![r] = l]
  /\ Goto(r, "taken")
  /\ UNCHANGED <<mgrVars, stopped, regVars, retVars, poolVars, ring, reacquire,
                 blue, flps, pool, key>>

\* Faulty variant: the error path decrements, and so does the deferred call.
AcquireFailsTwice(r) ==
  /\ pc[r] = "pending" /\ Goto(r, "idle")
  /\ pendingNum' = [pendingNum EXCEPT ![pool[r]] = @ - 2]
  /\ UNCHANGED <<mgrVars, stopped, regVars, retVars, poolCount, leasePools, poolGen,
                 poolKey, poolStopped, leaseVars, blue, flps, pool, lease, key>>

AcquireFails(r) ==
  /\ pc[r] = "pending"
  /\ pendingNum' = [pendingNum EXCEPT ![pool[r]] = @ - 1]
  /\ Goto(r, "idle")
  /\ UNCHANGED <<mgrVars, stopped, regVars, retVars, poolCount, leasePools, poolGen,
                 poolKey, poolStopped, leaseVars, blue, flps, pool, lease, key>>

\* Faulty variant: only globalLeaseList learns of the lease.
RegisterListOnly(r) ==
  /\ pc[r] = "taken" /\ Goto(r, "holding")
  /\ globalLeaseList' = [globalLeaseList EXCEPT ![flps[r]] = @ \cup {lease[r]}]
  /\ pendingNum' = [pendingNum EXCEPT ![pool[r]] = @ - 1]
  /\ UNCHANGED <<mgrVars, stopped, leaseIdToLeasePool, retVars, poolCount, leasePools,
                 poolGen, poolKey, poolStopped, leaseVars, blue, flps, pool, lease, key>>

\* The lease is registered under the write lock; the deferred
\* DecPendingReqNum follows.
Register(r) ==
  LET g == flps[r]  l == lease[r] IN
  /\ pc[r] = "taken"
  /\ globalLeaseList' = [globalLeaseList EXCEPT ![g] = @ \cup {l}]
  /\ leaseIdToLeasePool' = [leaseIdToLeasePool EXCEPT ![g][l] = pool[r]]
  /\ pendingNum' = [pendingNum EXCEPT ![pool[r]] = @ - 1]
  /\ Goto(r, "holding")
  /\ UNCHANGED <<mgrVars, stopped, retVars, poolCount, leasePools, poolGen, poolKey,
                 poolStopped, leaseVars, blue, flps, pool, lease, key>>

\* Faulty variant: it always returns early.
StartReleaseDropped(r) ==
  /\ pc[r] = "holding" /\ Goto(r, "idle")
  /\ lease' = [lease EXCEPT ![r] = NoL]
  /\ UNCHANGED <<mgrVars, stopped, regVars, retVars, poolVars, leaseVars, blue,
                 flps, pool, key>>

\* ReleaseInstanceAllocation reads the manager's map: it may find nothing, or
\* an object younger than the one the lease came from.
StartRelease(r) ==
  /\ pc[r] = "holding"
  /\ flps' = [flps EXCEPT ![r] = cur]
  /\ IF cur = None THEN Goto(r, "idle") /\ lease' = [lease EXCEPT ![r] = NoL]
                   ELSE Goto(r, "releasing") /\ UNCHANGED lease
  /\ UNCHANGED <<mgrVars, stopped, regVars, retVars, poolVars, leaseVars, blue,
                 pool, key>>

\* FuncKeyLeasePools.releaseInstanceLease, then LeasePool.releaseInstanceLease.
Release(r, abnormal) ==
  LET g == flps[r]  l == lease[r] IN
  /\ pc[r] = "releasing"
  /\ Goto(r, "idle") /\ lease' = [lease EXCEPT ![r] = NoL]
  /\ IF l \in globalLeaseList[g] /\ leaseIdToLeasePool[g][l] = None
     THEN globalLeaseList' = [globalLeaseList EXCEPT ![g] = @ \ {l}]
     ELSE UNCHANGED globalLeaseList
  /\ IF l \in globalLeaseList[g] /\ l \in LeaseMap(leaseIdToLeasePool[g][l])
     THEN leaseState' = [leaseState EXCEPT
                           ![l] = IF ~abnormal /\ reusable[l] THEN "idle" ELSE "gone"]
     ELSE UNCHANGED leaseState
  /\ UNCHANGED <<mgrVars, stopped, leaseIdToLeasePool, retVars, poolVars, leasePool,
                 reusable, ring, reacquire, blue, flps, pool, key>>

-----------------------------------------------------------------------------
(* Expiry loops, function deletion, gray ratio                              *)

\* handleLeaseExpiredLoop: an idle lease times out, or the pool was stopped,
\* whoever is using the lease.
LoopReleases(l) ==
  /\ Live(l) /\ reusable[l]
  /\ leaseState[l] = "idle" \/ poolStopped[leasePool[l]]
  /\ Gone({l})
  /\ UNCHANGED <<mgrVars, stopped, regVars, retVars, poolVars, leasePool, reusable,
                 ring, reacquire, blue, reqVars>>

PoolsOf(g) == {leasePools[g][k] : k \in Keys} \ {None}

\* SafeCloseChannel on each pool of the map
StopPools(P) == poolStopped' = [p \in Pools |-> poolStopped[p] \/ p \in P]

ClearFuncLeasePools ==
  /\ cur # None
  /\ stopped' = [stopped EXCEPT ![cur] = TRUE]
  /\ StopPools(PoolsOf(cur))
  /\ cur' = None
  /\ UNCHANGED <<genCount, regVars, retVars, poolCount, leasePools, poolGen, poolKey,
                 pendingNum, leaseVars, blue, reqVars>>

\* SetBlueRatio / ClearBlueRatio move the session across the ratio.
SetBlueRatio ==
  /\ Sessions # {}
  /\ blue' = ~blue
  /\ UNCHANGED <<mgrVars, stopped, regVars, retVars, poolVars, leaseVars, reqVars>>

-----------------------------------------------------------------------------
(* FuncKeyLeasePools.loop                                                   *)

\* The loop sees stopCh: it stops the pools it still has and ends.
EndLoop(g) ==
  /\ loopPc[g] = "wait" /\ stopped[g]
  /\ StopPools(PoolsOf(g))
  /\ loopPc' = [loopPc EXCEPT ![g] = "ended"]
  /\ UNCHANGED <<mgrVars, stopped, regVars, snapshots, exitLeases, retainCalls,
                 poolCount, leasePools, poolGen, poolKey, pendingNum, leaseVars,
                 blue, reqVars>>

\* Faulty variant: the cleared pools are not stopped.
ClearWithoutStop(g) ==
  /\ loopPc[g] = "wait" /\ loopPc' = [loopPc EXCEPT ![g] = "collect"]
  /\ leasePools' = [leasePools EXCEPT ![g] =
       [k \in Keys |-> IF @[k] # None /\ Clearable(@[k]) THEN None ELSE @[k]]]
  /\ UNCHANGED <<mgrVars, stopped, regVars, snapshots, exitLeases, retainCalls,
                 poolCount, poolGen, poolKey, poolStopped, pendingNum, leaseVars,
                 blue, reqVars>>

\* A tick starts with clearEmptyLeasePool.
ClearEmptyLeasePool(g) ==
  /\ loopPc[g] = "wait"
  /\ StopPools({p \in PoolsOf(g) : Clearable(p)})
  /\ leasePools' = [leasePools EXCEPT ![g] =
       [k \in Keys |-> IF @[k] # None /\ Clearable(@[k]) THEN None ELSE @[k]]]
  /\ loopPc' = [loopPc EXCEPT ![g] = "collect"]
  /\ UNCHANGED <<mgrVars, stopped, regVars, snapshots, exitLeases, retainCalls,
                 poolCount, poolGen, poolKey, pendingNum, leaseVars, blue, reqVars>>

\* Faulty variant: exited leases are not set apart.
ExitsOneShot(g) == {l \in globalLeaseList[g] : ~reusable[l]}

\* collectRetainSnapshots: exited and one-shot leases are set apart; a lease
\* of a session follows the gray ratio to its ring (setRingName).
Exits(g) == {l \in globalLeaseList[g] : ~reusable[l] \/ leaseState[l] = "gone"}

Switched(g) ==
  {l \in globalLeaseList[g] \ Exits(g) :
     /\ leaseIdToLeasePool[g][l] # None
     /\ poolKey[leaseIdToLeasePool[g][l]] \in Sessions
     /\ ring[l] # (IF blue THEN Blue ELSE Green)}

\* Faulty variant: the collection finds nothing.
CollectNothing(g) ==
  /\ loopPc[g] = "collect" /\ loopPc' = [loopPc EXCEPT ![g] = "send"]
  /\ UNCHANGED <<mgrVars, stopped, regVars, snapshots, exitLeases, retainCalls,
                 poolVars, leaseVars, blue, reqVars>>

CollectRetainSnapshots(g) ==
  /\ loopPc[g] = "collect"
  /\ exitLeases' = [exitLeases EXCEPT ![g] = Exits(g)]
  /\ snapshots' = [snapshots EXCEPT ![g] = globalLeaseList[g] \ Exits(g)]
  /\ ring' = [l \in Leases |-> IF l \notin Switched(g) THEN ring[l]
                               ELSE IF blue THEN Blue ELSE Green]
  /\ reacquire' = [l \in Leases |-> reacquire[l] \/ l \in Switched(g)]
  /\ loopPc' = [loopPc EXCEPT ![g] = "send"]
  /\ UNCHANGED <<mgrVars, stopped, regVars, retainCalls, poolVars, leaseState,
                 leasePool, reusable, blue, reqVars>>

\* assembleBatchRetainLeaseInfo: the PoolKey is computed from the lease's
\* option as it is now.
RetainCall(g, l) == [gen |-> g, lease |-> l, ring |-> ring[l]]

\* getSchedulerNodeInfo: the recorded scheduler, or the owner calculated anew;
\* a lease with neither is skipped.
WithScheduler(g, reachable) == snapshots[g] \cap reachable

\* assembleRetainBatches and processBatchLease: exited leases are forgotten, the
\* calls go out.
SendRetain(g, reachable) ==
  /\ loopPc[g] = "send"
  /\ globalLeaseList' = [globalLeaseList EXCEPT ![g] = @ \ exitLeases[g]]
  /\ leaseIdToLeasePool' = [leaseIdToLeasePool EXCEPT ![g] =
       [l \in Leases |-> IF l \in exitLeases[g] THEN None ELSE @[l]]]
  /\ Gone({l \in exitLeases[g] : Live(l) /\ leaseIdToLeasePool[g][l] = leasePool[l]})
  /\ retainCalls' = retainCalls \cup
       {RetainCall(g, l) : l \in WithScheduler(g, reachable)}
  /\ snapshots' = [snapshots EXCEPT ![g] = {}]
  /\ exitLeases' = [exitLeases EXCEPT ![g] = {}]
  /\ loopPc' = [loopPc EXCEPT ![g] = "wait"]
  /\ UNCHANGED <<mgrVars, stopped, poolVars, leasePool, reusable, ring, reacquire,
                 blue, reqVars>>

\* The goroutine of a call: the response is applied to the lease found through
\* the call's PoolKey, or to none.
Target(c) ==
  LET p == PoolByKey(c.gen, c.lease, c.ring)
  IN  IF p = None THEN {} ELSE {c.lease} \cap LeaseMap(p)

\* processSucceedRetainLeaseIdsBare
RetainSucceeds(c) ==
  /\ c \in retainCalls
  /\ retainCalls' = retainCalls \ {c}
  /\ reacquire' = [l \in Leases |-> reacquire[l] /\ l \notin Target(c)]
  /\ UNCHANGED <<mgrVars, stopped, regVars, loopPc, snapshots, exitLeases, poolVars,
                 leaseState, leasePool, reusable, ring, blue, reqVars>>

\* processErrBatchResponse, and the LeaseIDNotFound / AcquireNonOwner answers
RetainMissed(c) ==
  /\ c \in retainCalls
  /\ retainCalls' = retainCalls \ {c}
  /\ reacquire' = [l \in Leases |-> reacquire[l] \/ l \in Target(c)]
  /\ UNCHANGED <<mgrVars, stopped, regVars, loopPc, snapshots, exitLeases, poolVars,
                 leaseState, leasePool, reusable, ring, blue, reqVars>>

\* Faulty variant: the lease is unregistered and not destroyed.
RefusedNotDestroyed(c) ==
  /\ c \in retainCalls /\ retainCalls' = retainCalls \ {c}
  /\ globalLeaseList' = [globalLeaseList EXCEPT ![c.gen] = @ \ Target(c)]
  /\ UNCHANGED <<mgrVars, stopped, leaseIdToLeasePool, loopPc, snapshots, exitLeases,
                 poolVars, leaseVars, blue, reqVars>>

\* Any other error code: the lease is destroyed and unregistered.
RetainRefused(c) ==
  /\ c \in retainCalls
  /\ retainCalls' = retainCalls \ {c}
  /\ Gone(Target(c))
  /\ globalLeaseList' = [globalLeaseList EXCEPT ![c.gen] = @ \ Target(c)]
  /\ UNCHANGED <<mgrVars, stopped, leaseIdToLeasePool, loopPc, snapshots, exitLeases,
                 poolVars, leasePool, reusable, ring, reacquire, blue, reqVars>>

-----------------------------------------------------------------------------
RequestStep(r) ==
  \/ \E k \in Keys : AcquireInstance(r, k)
  \/ OptionFails(r) \/ FindPool(r) \/ MissPool(r)
  \/ CreatePool(r) \/ EnterPool(r) \/ AcquireFails(r) \/ Register(r)
  \/ StartRelease(r)
  \/ \E l \in Leases : TakeIdle(r, l) \/ \E b \in BOOLEAN : TakeNew(r, l, b)
  \/ \E abnormal \in BOOLEAN : Release(r, abnormal)

LoopStep(g) ==
  \/ EndLoop(g) \/ ClearEmptyLeasePool(g) \/ CollectRetainSnapshots(g)
  \/ \E reachable \in SUBSET Leases : SendRetain(g, reachable)

Next ==
  \/ \E r \in Requests : RequestStep(r)
  \/ \E l \in Leases : LoopReleases(l)
  \/ \E g \in Gens : LoopStep(g)
  \/ \E c \in retainCalls : RetainSucceeds(c) \/ RetainMissed(c) \/ RetainRefused(c)
  \/ ClearFuncLeasePools \/ SetBlueRatio

Spec == Init /\ [][Next]_vars

\* The loop goroutine and its ticker keep running; the owner of a lease is
\* reachable again and again.
Fairness ==
  \A g \in Gens : WF_vars(LoopStep(g)) /\ SF_vars(SendRetain(g, Leases))

FairSpec == Spec /\ Fairness
-----------------------------------------------------------------------------
(* Properties                                                               *)

\* Every variable stays within the range of the Go field it stands for.
TypeOK ==
  /\ cur \in 0..MaxGens /\ genCount \in 0..MaxGens /\ poolCount \in 0..MaxPools
  /\ stopped \in [Gens -> BOOLEAN]
  /\ leasePools \in [Gens -> [Keys -> 0..MaxPools]]
  /\ globalLeaseList \in [Gens -> SUBSET Leases]
  /\ leaseIdToLeasePool \in [Gens -> [Leases -> 0..MaxPools]]
  /\ loopPc \in [Gens -> {"none", "wait", "collect", "send", "ended"}]
  /\ snapshots \in [Gens -> SUBSET Leases] /\ exitLeases \in [Gens -> SUBSET Leases]
  /\ retainCalls \subseteq [gen : Gens, lease : Leases, ring : {Green, Blue}]
  /\ poolGen \in [Pools -> 0..MaxGens] /\ poolKey \in [Pools -> Keys]
  /\ poolStopped \in [Pools -> BOOLEAN] /\ pendingNum \in [Pools -> Nat]
  /\ leaseState \in [Leases -> {"none", "inUse", "idle", "gone"}]
  /\ leasePool \in [Leases -> 0..MaxPools]
  /\ reusable \in [Leases -> BOOLEAN] /\ reacquire \in [Leases -> BOOLEAN]
  /\ ring \in [Leases -> {Green, Blue}] /\ blue \in BOOLEAN
  /\ pc \in [Requests -> {"idle", "lookup", "create", "created", "pending", "taken",
                           "holding", "releasing"}]
  /\ flps \in [Requests -> 0..MaxGens] /\ pool \in [Requests -> 0..MaxPools]
  /\ lease \in [Requests -> Leases \cup {NoL}] /\ key \in [Requests -> Keys]

\* The two registries agree with the pools: a registered lease maps to the
\* pool that has it (releaseInstanceLease's "no pool" branch is never needed),
\* and a live lease a request holds is registered, so it is retained and its
\* release is found.
RegistrySound ==
  /\ \A g \in Gens : \A l \in globalLeaseList[g] :
       leaseIdToLeasePool[g][l] # None /\ leaseIdToLeasePool[g][l] = leasePool[l]
  /\ \A r \in Requests :
       pc[r] = "holding" /\ Live(lease[r]) =>
         lease[r] \in globalLeaseList[poolGen[leasePool[lease[r]]]]

\* A pool that is not stopped is the one leasePools has for its key: no two
\* pools of a key hand out leases side by side, and the loop, the retain
\* responses and ClearFuncLeasePools reach every pool that is open.
NoOrphanPool ==
  \A p \in 1..poolCount :
    ~poolStopped[p] => leasePools[poolGen[p]][poolKey[p]] = p

\* A lease in use belongs to a request, unless its pool was stopped or its
\* function cleared: nothing but a deletion can strand a lease.
NoStrandedLease ==
  \A l \in Leases :
    leaseState[l] = "inUse" =>
      \/ \E r \in Requests : lease[r] = l
      \/ poolStopped[leasePool[l]] \/ stopped[poolGen[leasePool[l]]]

\* A lease the scheduler refuses to retain is no longer handed out: it leaves
\* its pool, unless that pool is stopped already.
RefusedLeaseLeaves ==
  [][\A c \in retainCalls :
       RetainRefused(c) => \/ leaseState'[c.lease] \notin {"inUse", "idle"}
                           \/ poolStopped[leasePool[c.lease]]]_vars

\* A pool with a pending request is not cleared under it: it stays open until
\* the function is deleted (the test "pendingReqNum is not 0").
PendingPoolStaysOpen ==
  \A p \in 1..poolCount :
    pendingNum[p] > 0 => ~poolStopped[p] \/ stopped[poolGen[p]]

\* An exited lease is forgotten by globalLeaseList, until the function is
\* deleted.
ExitedLeaseIsForgotten ==
  \A g \in Gens, l \in Leases :
    (l \in globalLeaseList[g] /\ leaseState[l] = "gone")
      ~> (l \notin globalLeaseList[g] \/ stopped[g])

\* A reusable lease in use is retained at the scheduler again and again, until
\* its use ends or the function is deleted.
RetainedWhileInUse ==
  \A g \in Gens, l \in Leases :
    (l \in globalLeaseList[g] /\ leaseState[l] = "inUse" /\ reusable[l])
      ~> \/ \E c \in retainCalls : c.lease = l
         \/ leaseState[l] # "inUse" \/ stopped[g]
=============================================================================
