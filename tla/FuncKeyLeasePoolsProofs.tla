----------------------- MODULE FuncKeyLeasePoolsProofs -----------------------
(***************************************************************************)
(* Proofs about FuncKeyLeasePools, for any requests, leases, keys, sessions *)
(* and bounds: no open pool is orphaned, the registries agree with the      *)
(* pools, and only a deletion can strand a lease.                           *)
(***************************************************************************)
EXTENDS FuncKeyLeasePools, TLAPS

States == {"none", "inUse", "idle", "gone"}
Pcs == {"idle", "lookup", "create", "created", "pending", "taken", "holding", "releasing"}

\* What the proofs need of the types.
TypeInv ==
  /\ genCount \in 0..MaxGens /\ cur \in {None, genCount} /\ poolCount \in 0..MaxPools
  /\ stopped \in [Gens -> BOOLEAN]
  /\ leasePools \in [Gens -> [Keys -> 0..poolCount]]
  /\ globalLeaseList \in [Gens -> SUBSET Leases]
  /\ leaseIdToLeasePool \in [Gens -> [Leases -> Nat]]
  /\ snapshots \in [Gens -> SUBSET Leases] /\ exitLeases \in [Gens -> SUBSET Leases]
  /\ retainCalls \subseteq [gen : Gens, lease : Leases, ring : {Green, Blue}]
  /\ ring \in [Leases -> {Green, Blue}]
  /\ poolGen \in [Pools -> 0..genCount] /\ poolKey = [p \in Pools |-> poolKey[p]]
  /\ poolStopped \in [Pools -> BOOLEAN]
  /\ leaseState \in [Leases -> States] /\ leasePool \in [Leases -> 0..poolCount]
  /\ pc \in [Requests -> Pcs]
  /\ flps \in [Requests -> 0..genCount] /\ pool \in [Requests -> 0..poolCount]
  /\ lease \in [Requests -> Leases \cup {NoL}] /\ key = [r \in Requests |-> key[r]]

\* A request between its steps: the object, the pool and the lease it works on
\* belong together; what it releases comes from that object or an older one.
RequestInv ==
  \A r \in Requests :
    /\ pc[r] # "idle" => flps[r] # None
    /\ pc[r] \in {"lookup", "create"} => key[r] \in Keys
    /\ pc[r] \in {"idle", "lookup", "create", "created", "pending"} => lease[r] = NoL
    /\ pc[r] \in {"created", "pending", "taken", "holding"} =>
         pool[r] # None /\ poolGen[pool[r]] = flps[r]
    /\ pc[r] \in {"taken", "holding", "releasing"} =>
         lease[r] \in Leases /\ leaseState[lease[r]] # "none"
    /\ pc[r] \in {"taken", "holding"} => leasePool[lease[r]] = pool[r]
    /\ pc[r] = "releasing" => poolGen[leasePool[lease[r]]] <= flps[r]

\* A pool knows where it was created, and is entered nowhere else.
PoolInv ==
  /\ \A p \in 1..poolCount : poolGen[p] # None /\ poolKey[p] \in Keys
  /\ \A g \in Gens, k \in Keys :
       leasePools[g][k] # None => poolGen[leasePools[g][k]] = g /\ poolKey[leasePools[g][k]] = k
  /\ \A l \in Leases : leaseState[l] # "none" => leasePool[l] # None

\* Every generation but the one in the manager's map is stopped.
GenInv == \A g \in 1..genCount : g # cur => stopped[g]

\* Registered leases are of the pools of their generation, and a live lease
\* that a request has not given back is registered.
ListInv ==
  /\ \A g \in Gens : \A l \in globalLeaseList[g] :
       /\ leaseIdToLeasePool[g][l] = leasePool[l] /\ leaseState[l] # "none"
       /\ poolGen[leasePool[l]] = g
  /\ \A r \in Requests :
       pc[r] \in {"holding", "releasing"} /\ Live(lease[r]) =>
         lease[r] \in globalLeaseList[poolGen[leasePool[lease[r]]]]

Inv == TypeInv /\ RequestInv /\ PoolInv /\ GenInv /\ ListInv /\ NoOrphanPool /\ NoStrandedLease

-----------------------------------------------------------------------------
\* What is not None is an object or a pool that was created.
LEMMA Shape ==
  ASSUME TypeInv
  PROVE  /\ genCount \in Nat /\ poolCount \in Nat /\ MaxGens \in Nat /\ MaxPools \in Nat
         /\ 1..genCount \subseteq Gens /\ 1..poolCount \subseteq Pools
         /\ cur # None => cur \in 1..genCount /\ cur \in Gens
         /\ \A r \in Requests : flps[r] \in Nat /\ (flps[r] # None => flps[r] \in Gens)
         /\ \A r \in Requests : pool[r] \in Nat /\ (pool[r] # None => pool[r] \in Pools /\ pool[r] \in 1..poolCount)
         /\ \A l \in Leases : leasePool[l] \in Nat /\ (leasePool[l] # None => leasePool[l] \in Pools)
         /\ \A p \in Pools : poolGen[p] \in Nat /\ (poolGen[p] # None => poolGen[p] \in 1..genCount)
         /\ \A g \in Gens, k \in Keys :
              leasePools[g][k] \in Nat
                /\ (leasePools[g][k] # None => leasePools[g][k] \in Pools /\ leasePools[g][k] \in 1..poolCount)
<1>1. genCount \in Nat /\ poolCount \in Nat /\ MaxGens \in Nat /\ MaxPools \in Nat
  BY BoundsAssumption DEF TypeInv
<1>2. genCount <= MaxGens /\ poolCount <= MaxPools BY <1>1 DEF TypeInv
<1>3. 1..genCount \subseteq Gens /\ 1..poolCount \subseteq Pools
  BY <1>1, <1>2 DEF Gens, Pools
<1>4. \A r \in Requests : flps[r] \in 0..genCount /\ pool[r] \in 0..poolCount BY DEF TypeInv
<1>5. \A l \in Leases : leasePool[l] \in 0..poolCount BY DEF TypeInv
<1>6. \A p \in Pools : poolGen[p] \in 0..genCount BY DEF TypeInv
<1>7. \A g \in Gens, k \in Keys : leasePools[g][k] \in 0..poolCount BY DEF TypeInv
<1>8. cur \in {None, genCount} BY DEF TypeInv
<1> QED BY <1>1, <1>3, <1>4, <1>5, <1>6, <1>7, <1>8 DEF None

\* The pool and the object of a lease.
LEMMA LeaseOrigin ==
  ASSUME TypeInv, PoolInv, NEW l \in Leases, leaseState[l] # "none"
  PROVE  /\ leasePool[l] \in 1..poolCount /\ leasePool[l] \in Pools
         /\ poolGen[leasePool[l]] \in 1..genCount /\ poolGen[leasePool[l]] \in Gens
<1>1. leasePool[l] \in 0..poolCount /\ leasePool[l] # None /\ poolCount \in Nat
  BY Shape DEF PoolInv, TypeInv
<1>2. leasePool[l] \in 1..poolCount BY <1>1 DEF None
<1>3. leasePool[l] \in Pools BY <1>2, Shape
<1>4. poolGen[leasePool[l]] # None BY <1>2 DEF PoolInv
<1>5. poolGen[leasePool[l]] \in 1..genCount BY <1>3, <1>4, Shape
<1> QED BY <1>2, <1>3, <1>5, Shape

LEMMA InitInv == Init => Inv
<1> SUFFICES ASSUME Init PROVE Inv OBVIOUS
<1>1. MaxGens \in Nat /\ MaxPools \in Nat BY BoundsAssumption
<1>2. TypeInv BY <1>1 DEF Init, TypeInv, States, Pcs, None
<1>3. RequestInv /\ PoolInv /\ GenInv BY <1>1 DEF Init, RequestInv, PoolInv, GenInv, None
<1>4. ListInv BY DEF Init, ListInv
<1>5. NoOrphanPool /\ NoStrandedLease BY <1>1 DEF Init, NoOrphanPool, NoStrandedLease
<1> QED BY <1>2, <1>3, <1>4, <1>5 DEF Inv

\* Steps that only move a request on.
LEMMA MoveKeeps ==
  ASSUME Inv, NEW r \in Requests,
         OptionFails(r) \/ MissPool(r) \/ AcquireFails(r) \/ FindPool(r) \/ EnterPool(r)
  PROVE  Inv'
<1>1. UNCHANGED <<cur, genCount, poolCount, stopped, leasePools, globalLeaseList, leaseIdToLeasePool, snapshots, exitLeases, retainCalls, ring, poolGen, poolKey, poolStopped, leaseState, leasePool, flps, lease, key>>
  BY DEF OptionFails, MissPool, AcquireFails, FindPool, EnterPool, Goto, mgrVars, regVars, retVars, poolVars, leaseVars, reqVars
<1>2. /\ \/ pc[r] \in {"lookup", "pending"} /\ pc' = [pc EXCEPT ![r] = "idle"] /\ pool' = pool
         \/ pc[r] = "lookup" /\ pc' = [pc EXCEPT ![r] = "create"] /\ pool' = pool
         \/ pc[r] = "created" /\ pc' = [pc EXCEPT ![r] = "pending"] /\ pool' = pool
         \/ /\ pc[r] = "lookup" /\ leasePools[flps[r]][key[r]] # None
            /\ pc' = [pc EXCEPT ![r] = "pending"]
            /\ pool' = [pool EXCEPT ![r] = leasePools[flps[r]][key[r]]]
  BY DEF OptionFails, MissPool, AcquireFails, FindPool, EnterPool, Goto, mgrVars, regVars, retVars, poolVars, leaseVars, reqVars
<1>3. TypeInv /\ RequestInv /\ PoolInv /\ GenInv /\ ListInv /\ NoOrphanPool /\ NoStrandedLease
  BY DEF Inv
<1>4. pc[r] = "lookup" => flps[r] \in Gens /\ key[r] \in Keys
             /\ (leasePools[flps[r]][key[r]] # None =>
                   /\ leasePools[flps[r]][key[r]] \in 0..poolCount
                   /\ poolGen[leasePools[flps[r]][key[r]]] = flps[r])
  BY <1>3, Shape DEF RequestInv, PoolInv, TypeInv
<1>10. TypeInv'
  BY <1>1, <1>2, <1>3, <1>4 DEF TypeInv, States, Pcs, None
<1>11. RequestInv'
  BY <1>1, <1>2, <1>3, <1>4 DEF RequestInv, TypeInv, None
<1>12. PoolInv'
  BY <1>1, <1>2, <1>3, <1>4 DEF PoolInv, TypeInv, None
<1>13. GenInv'
  BY <1>1, <1>2, <1>3, <1>4 DEF GenInv, TypeInv, None
<1>14. ListInv'
  BY <1>1, <1>2, <1>3, <1>4 DEF ListInv, TypeInv, RequestInv, Live, None
<1>15. NoOrphanPool'
  BY <1>1, <1>2, <1>3, <1>4 DEF NoOrphanPool, TypeInv, None
<1>16. NoStrandedLease'
  BY <1>1, <1>2, <1>3, <1>4 DEF NoStrandedLease, TypeInv, None
<1> QED BY <1>10, <1>11, <1>12, <1>13, <1>14, <1>15, <1>16 DEF Inv

\* AcquireInstance finds the function's object or creates it.
LEMMA AcquireKeeps ==
  ASSUME Inv, NEW r \in Requests, NEW k \in Keys, AcquireInstance(r, k)
  PROVE  Inv'
<1>1. UNCHANGED <<poolCount, stopped, leasePools, globalLeaseList, leaseIdToLeasePool, snapshots, exitLeases, retainCalls, ring, poolGen, poolKey, poolStopped, leaseState, leasePool, pool, lease>>
  BY DEF AcquireInstance, Goto, mgrVars, regVars, retVars, poolVars, leaseVars, reqVars
<1>2. /\ pc[r] = "idle" /\ pc' = [pc EXCEPT ![r] = "lookup"] /\ key' = [key EXCEPT ![r] = k]
      /\ \/ /\ cur # None /\ flps' = [flps EXCEPT ![r] = cur] /\ cur' = cur /\ genCount' = genCount
         \/ /\ cur = None /\ genCount < MaxGens /\ genCount' = genCount + 1 /\ cur' = genCount + 1
            /\ flps' = [flps EXCEPT ![r] = genCount + 1]
  BY DEF AcquireInstance, Goto, mgrVars, regVars, retVars, poolVars, leaseVars, reqVars
<1>3. TypeInv /\ RequestInv /\ PoolInv /\ GenInv /\ ListInv /\ NoOrphanPool /\ NoStrandedLease
  BY DEF Inv
<1>4. /\ genCount \in Nat /\ poolCount \in Nat /\ cur \in {None, genCount}
      /\ 0..genCount \subseteq 0..(genCount + 1) /\ genCount + 1 \in 0..(genCount + 1)
      /\ cur \in 0..genCount
  BY <1>3, Shape DEF TypeInv, None
<1>10. TypeInv'
  <2>1. CASE cur # None
    BY <1>1, <1>2, <1>3, <1>4, <2>1 DEF TypeInv, Pcs, None
  <2>2. CASE cur = None
    <3>1. /\ genCount' = genCount + 1 /\ cur' = genCount + 1 /\ genCount' \in 0..MaxGens
          /\ flps' = [flps EXCEPT ![r] = genCount + 1]
      <4>1. MaxGens \in Nat BY <1>3, Shape
      <4> QED BY <1>2, <1>4, <2>2, <4>1
    <3>2. flps' \in [Requests -> 0..genCount'] /\ poolGen' \in [Pools -> 0..genCount']
      BY <1>1, <1>3, <1>4, <3>1 DEF TypeInv
    <3> QED BY <1>1, <1>2, <1>3, <3>1, <3>2 DEF TypeInv, Pcs
  <2> QED BY <2>1, <2>2
<1>11. RequestInv'
  BY <1>1, <1>2, <1>3, <1>4 DEF RequestInv, TypeInv, None
<1>12. PoolInv'
  BY <1>1, <1>2, <1>3, <1>4 DEF PoolInv, TypeInv, None
<1>13. GenInv'
  <2>1. CASE cur # None BY <1>1, <1>2, <1>3, <2>1 DEF GenInv
  <2>2. CASE cur = None
    <3>1. genCount' = genCount + 1 /\ cur' = genCount + 1 BY <1>2, <2>2
    <3>2. \A g \in 1..(genCount + 1) : g # genCount + 1 => g \in 1..genCount /\ g # None
      BY <1>4 DEF None
    <3> QED BY <1>1, <1>3, <2>2, <3>1, <3>2 DEF GenInv
  <2> QED BY <2>1, <2>2
<1>14. ListInv'
  BY <1>1, <1>2, <1>3, <1>4 DEF ListInv, TypeInv, RequestInv, Live, None
<1>15. NoOrphanPool'
  BY <1>1, <1>2, <1>3, <1>4 DEF NoOrphanPool, TypeInv, None
<1>16. NoStrandedLease'
  BY <1>1, <1>2, <1>3, <1>4 DEF NoStrandedLease, TypeInv, None
<1> QED BY <1>10, <1>11, <1>12, <1>13, <1>14, <1>15, <1>16 DEF Inv

\* CreatePool enters a pool of its own generation and key.
LEMMA CreatePoolKeeps ==
  ASSUME Inv, NEW r \in Requests, CreatePool(r), leasePools[flps[r]][key[r]] = None
  PROVE  Inv'
<1>1. UNCHANGED <<cur, genCount, stopped, globalLeaseList, leaseIdToLeasePool, snapshots, exitLeases, retainCalls, ring, poolStopped, leaseState, leasePool, flps, lease, key>>
  BY DEF CreatePool, Goto, mgrVars, regVars, retVars, poolVars, leaseVars, reqVars
<1>2. /\ pc[r] = "create" /\ pc' = [pc EXCEPT ![r] = "created"] /\ poolCount < MaxPools
      /\ poolCount' = poolCount + 1 /\ pool' = [pool EXCEPT ![r] = poolCount + 1]
      /\ leasePools' = [leasePools EXCEPT ![flps[r]][key[r]] = poolCount + 1]
      /\ poolGen' = [poolGen EXCEPT ![poolCount + 1] = flps[r]]
      /\ poolKey' = [poolKey EXCEPT ![poolCount + 1] = key[r]]
  BY DEF CreatePool, Goto, mgrVars, regVars, retVars, poolVars, leaseVars, reqVars
<1>3. TypeInv /\ RequestInv /\ PoolInv /\ GenInv /\ ListInv /\ NoOrphanPool /\ NoStrandedLease
  BY DEF Inv
<1>4. /\ genCount \in Nat /\ poolCount \in Nat /\ flps[r] \in Gens /\ flps[r] \in 0..genCount
      /\ key[r] \in Keys /\ flps[r] # None
      /\ 0..poolCount \subseteq 0..(poolCount + 1) /\ poolCount + 1 \in Pools
      /\ poolCount + 1 \in 0..MaxPools
      /\ poolCount + 1 \notin 0..poolCount
  <2>1. poolCount \in Nat /\ MaxPools \in Nat /\ genCount \in Nat BY <1>3, Shape
  <2>2. flps[r] # None /\ key[r] \in Keys BY <1>2, <1>3 DEF RequestInv
  <2>3. flps[r] \in Gens /\ flps[r] \in 0..genCount BY <1>3, <2>2, Shape DEF TypeInv
  <2> QED BY <1>2, <2>1, <2>2, <2>3 DEF Pools
<1>5. /\ \A g \in Gens, k \in Keys :
           leasePools'[g][k] = IF g = flps[r] /\ k = key[r] THEN poolCount + 1 ELSE leasePools[g][k]
      /\ leasePools' \in [Gens -> [Keys -> 0..(poolCount + 1)]]
  BY <1>2, <1>3, <1>4 DEF TypeInv
<1>6. /\ \A p \in Pools :
           /\ poolGen'[p] = IF p = poolCount + 1 THEN flps[r] ELSE poolGen[p]
           /\ poolKey'[p] = IF p = poolCount + 1 THEN key[r] ELSE poolKey[p]
      /\ poolGen' \in [Pools -> 0..genCount]
      /\ poolKey' = [p \in Pools |-> poolKey'[p]]
  BY <1>2, <1>3, <1>4 DEF TypeInv
<1>7. /\ \A q \in Requests : pool[q] \in 0..poolCount
      /\ \A l \in Leases : leasePool[l] \in 0..poolCount
      /\ \A g \in Gens, k \in Keys : leasePools[g][k] \in 0..poolCount
      /\ 1..poolCount \subseteq Pools /\ 1..(poolCount + 1) = 1..poolCount \cup {poolCount + 1}
  <2>1. 1..(poolCount + 1) = 1..poolCount \cup {poolCount + 1} BY <1>4
  <2> QED BY <1>3, <2>1, Shape DEF TypeInv
<1>8. \A p \in 0..poolCount : p # None => p \in Pools /\ p # poolCount + 1
  BY <1>4, <1>7 DEF None
<1>10. TypeInv'
  BY <1>1, <1>2, <1>3, <1>4, <1>5, <1>6, <1>7 DEF TypeInv, Pcs
<1>11. RequestInv'
  BY <1>1, <1>2, <1>3, <1>4, <1>6, <1>7, <1>8 DEF RequestInv, TypeInv, PoolInv, None
<1>12. PoolInv'
  BY <1>1, <1>2, <1>3, <1>4, <1>5, <1>6, <1>7, <1>8 DEF PoolInv, None
<1>13. GenInv'
  BY <1>1, <1>2, <1>3, <1>4 DEF GenInv, TypeInv, None
<1>14. ListInv'
  BY <1>1, <1>2, <1>3, <1>4, <1>6, <1>7, <1>8 DEF ListInv, TypeInv, RequestInv, PoolInv, Live, None
<1>15. NoOrphanPool'
  <2> SUFFICES ASSUME NEW p \in 1..(poolCount + 1), ~poolStopped[p]
               PROVE  leasePools'[poolGen'[p]][poolKey'[p]] = p
    BY <1>1, <1>2 DEF NoOrphanPool
  <2>1. CASE p = poolCount + 1 BY <1>4, <1>5, <1>6, <2>1
  <2>2. CASE p # poolCount + 1
    <3>1. p \in 1..poolCount /\ p \in Pools BY <1>7, <2>2
    <3>2. /\ leasePools[poolGen[p]][poolKey[p]] = p /\ poolGen[p] # None /\ poolKey[p] \in Keys
      BY <1>3, <3>1 DEF NoOrphanPool, PoolInv
    <3>3. poolGen[p] \in Gens BY <1>3, <3>1, <3>2, Shape
    <3>4. p # None BY <3>1, <1>4 DEF None
    <3> QED BY <1>5, <1>6, <2>2, <3>1, <3>2, <3>3, <3>4
  <2> QED BY <2>1, <2>2
<1>16. NoStrandedLease'
  BY <1>1, <1>2, <1>3, <1>4, <1>6, <1>7, <1>8 DEF NoStrandedLease, TypeInv, PoolInv, None
<1> QED BY <1>10, <1>11, <1>12, <1>13, <1>14, <1>15, <1>16 DEF Inv

\* CreatePool takes the pool someone else entered meanwhile.
LEMMA EnterFoundKeeps ==
  ASSUME Inv, NEW r \in Requests, CreatePool(r), leasePools[flps[r]][key[r]] # None
  PROVE  Inv'
<1>1. UNCHANGED <<cur, genCount, poolCount, stopped, leasePools, globalLeaseList, leaseIdToLeasePool, snapshots, exitLeases, retainCalls, ring, poolGen, poolKey, poolStopped, leaseState, leasePool, flps, lease, key>>
  BY DEF CreatePool, Goto, mgrVars, regVars, retVars, poolVars, leaseVars, reqVars
<1>2. /\ pc[r] = "create" /\ pc' = [pc EXCEPT ![r] = "created"]
      /\ pool' = [pool EXCEPT ![r] = leasePools[flps[r]][key[r]]]
  BY DEF CreatePool, Goto, mgrVars, regVars, retVars, poolVars, leaseVars, reqVars
<1>3. TypeInv /\ RequestInv /\ PoolInv /\ GenInv /\ ListInv /\ NoOrphanPool /\ NoStrandedLease
  BY DEF Inv
<1>4. /\ leasePools[flps[r]][key[r]] \in 0..poolCount /\ leasePools[flps[r]][key[r]] # None
      /\ poolGen[leasePools[flps[r]][key[r]]] = flps[r]
  BY <1>2, <1>3, Shape DEF RequestInv, PoolInv, TypeInv
<1>10. TypeInv'
  BY <1>1, <1>2, <1>3, <1>4 DEF TypeInv, States, Pcs, None
<1>11. RequestInv'
  BY <1>1, <1>2, <1>3, <1>4 DEF RequestInv, TypeInv, None
<1>12. PoolInv'
  BY <1>1, <1>2, <1>3, <1>4 DEF PoolInv, TypeInv, None
<1>13. GenInv'
  BY <1>1, <1>2, <1>3, <1>4 DEF GenInv, TypeInv, None
<1>14. ListInv'
  BY <1>1, <1>2, <1>3, <1>4 DEF ListInv, TypeInv, RequestInv, Live, None
<1>15. NoOrphanPool'
  BY <1>1, <1>2, <1>3, <1>4 DEF NoOrphanPool, TypeInv, None
<1>16. NoStrandedLease'
  BY <1>1, <1>2, <1>3, <1>4 DEF NoStrandedLease, TypeInv, None
<1> QED BY <1>10, <1>11, <1>12, <1>13, <1>14, <1>15, <1>16 DEF Inv

\* An idle lease of the pool or a new one is put to use.
LEMMA TakeKeeps ==
  ASSUME Inv, NEW r \in Requests, NEW l \in Leases,
         TakeIdle(r, l) \/ \E b \in BOOLEAN : TakeNew(r, l, b)
  PROVE  Inv'
<1>1. UNCHANGED <<cur, genCount, poolCount, stopped, leasePools, globalLeaseList, leaseIdToLeasePool, snapshots, exitLeases, retainCalls, ring, poolGen, poolKey, poolStopped, flps, pool, key>>
  BY DEF TakeIdle, TakeNew, Goto, mgrVars, regVars, retVars, poolVars, leaseVars, reqVars
<1>2. /\ pc[r] = "pending" /\ pc' = [pc EXCEPT ![r] = "taken"] /\ lease' = [lease EXCEPT ![r] = l]
      /\ leaseState' = [leaseState EXCEPT ![l] = "inUse"]
      /\ \/ leaseState[l] = "idle" /\ leasePool[l] = pool[r] /\ leasePool' = leasePool
         \/ leaseState[l] = "none" /\ leasePool' = [leasePool EXCEPT ![l] = pool[r]]
  BY DEF TakeIdle, TakeNew, Goto, mgrVars, regVars, retVars, poolVars, leaseVars, reqVars
<1>3. TypeInv /\ RequestInv /\ PoolInv /\ GenInv /\ ListInv /\ NoOrphanPool /\ NoStrandedLease
  BY DEF Inv
<1>4. pool[r] # None /\ pool[r] \in 0..poolCount BY <1>2, <1>3 DEF RequestInv, TypeInv
<1>5. /\ \A x \in Leases \ {l} : leaseState'[x] = leaseState[x] /\ leasePool'[x] = leasePool[x]
      /\ leaseState'[l] = "inUse" /\ leasePool'[l] = pool[r]
      /\ leaseState[l] = "none" \/ leasePool'[l] = leasePool[l]
      /\ leaseState[l] \in {"none", "idle"}
  BY <1>2, <1>3, <1>4 DEF TypeInv
<1>6. \A q \in Requests : /\ q # r => pc'[q] = pc[q] /\ lease'[q] = lease[q]
                          /\ pc'[q] \in {"holding", "releasing"} => q # r
  BY <1>2, <1>3 DEF TypeInv
<1>7. \A q \in Requests : pc[q] \in {"holding", "releasing"} => lease[q] \in Leases /\ leaseState[lease[q]] # "none"
  BY <1>3 DEF RequestInv
<1>8. \A g \in Gens : globalLeaseList[g] \subseteq Leases BY <1>3 DEF TypeInv
<1>10. TypeInv'
  BY <1>1, <1>2, <1>3, <1>4 DEF TypeInv, States, Pcs, None
<1>11. RequestInv'
  BY <1>1, <1>2, <1>3, <1>4 DEF RequestInv, TypeInv, None
<1>12. PoolInv'
  BY <1>1, <1>2, <1>3, <1>4 DEF PoolInv, TypeInv, None
<1>13. GenInv'
  BY <1>1, <1>2, <1>3, <1>4 DEF GenInv, TypeInv, None
<1>14. ListInv'
  <2>1. \A g \in Gens : \A x \in globalLeaseList[g] :
          /\ leaseIdToLeasePool[g][x] = leasePool'[x] /\ leaseState'[x] # "none"
          /\ poolGen[leasePool'[x]] = g
    BY <1>3, <1>5, <1>8 DEF ListInv
  <2>2. \A q \in Requests :
          pc'[q] \in {"holding", "releasing"} /\ leaseState'[lease'[q]] \in {"inUse", "idle"} =>
            lease'[q] \in globalLeaseList[poolGen[leasePool'[lease'[q]]]]
    BY <1>3, <1>5, <1>6, <1>7 DEF ListInv, Live
  <2> QED BY <1>1, <2>1, <2>2 DEF ListInv, Live
<1>15. NoOrphanPool'
  BY <1>1, <1>2, <1>3, <1>4 DEF NoOrphanPool, TypeInv, None
<1>16. NoStrandedLease'
  <2>1. lease'[r] = l BY <1>2, <1>3 DEF TypeInv
  <2>2. \A x \in Leases \ {l} : \A q \in Requests : lease[q] = x => lease'[q] = x
    BY <1>2, <1>3, <1>6, LeaseAssumption DEF RequestInv
  <2> QED BY <1>1, <1>3, <1>5, <2>1, <2>2 DEF NoStrandedLease
<1> QED BY <1>10, <1>11, <1>12, <1>13, <1>14, <1>15, <1>16 DEF Inv

\* The lease is entered in the registries of its generation.
LEMMA RegisterKeeps ==
  ASSUME Inv, NEW r \in Requests, Register(r)
  PROVE  Inv'
<1>1. UNCHANGED <<cur, genCount, poolCount, stopped, leasePools, snapshots, exitLeases, retainCalls, ring, poolGen, poolKey, poolStopped, leaseState, leasePool, flps, pool, lease, key>>
  BY DEF Register, Goto, mgrVars, regVars, retVars, poolVars, leaseVars, reqVars
<1>2. /\ pc[r] = "taken" /\ pc' = [pc EXCEPT ![r] = "holding"]
      /\ globalLeaseList' = [globalLeaseList EXCEPT ![flps[r]] = @ \cup {lease[r]}]
      /\ leaseIdToLeasePool' = [leaseIdToLeasePool EXCEPT ![flps[r]][lease[r]] = pool[r]]
  BY DEF Register, Goto, mgrVars, regVars, retVars, poolVars, leaseVars, reqVars
<1>3. TypeInv /\ RequestInv /\ PoolInv /\ GenInv /\ ListInv /\ NoOrphanPool /\ NoStrandedLease
  BY DEF Inv
<1>4. /\ flps[r] \in Gens /\ lease[r] \in Leases /\ pool[r] \in Nat
      /\ leasePool[lease[r]] = pool[r] /\ poolGen[pool[r]] = flps[r]
      /\ leaseState[lease[r]] # "none"
  BY <1>2, <1>3, Shape DEF RequestInv
<1>5. /\ \A g \in Gens : globalLeaseList'[g] = IF g = flps[r] THEN globalLeaseList[g] \cup {lease[r]}
                                                             ELSE globalLeaseList[g]
      /\ \A g \in Gens, l \in Leases : leaseIdToLeasePool'[g][l] =
           IF g = flps[r] /\ l = lease[r] THEN pool[r] ELSE leaseIdToLeasePool[g][l]
  BY <1>2, <1>3, <1>4 DEF TypeInv
<1>6. \A g \in Gens : globalLeaseList[g] \subseteq Leases BY <1>3 DEF TypeInv
<1>7. \A q \in Requests : pc[q] \in {"holding", "releasing"} /\ Live(lease[q]) =>
        poolGen[leasePool[lease[q]]] \in Gens
  <2>1. \A q \in Requests : pc[q] \in {"holding", "releasing"} =>
          lease[q] \in Leases /\ leaseState[lease[q]] # "none"
    BY <1>3 DEF RequestInv
  <2> QED BY <1>3, <2>1, LeaseOrigin
<1>10. TypeInv'
  BY <1>1, <1>2, <1>3, <1>4 DEF TypeInv, States, Pcs, None
<1>11. RequestInv'
  BY <1>1, <1>2, <1>3, <1>4 DEF RequestInv, TypeInv, None
<1>12. PoolInv'
  BY <1>1, <1>2, <1>3, <1>4 DEF PoolInv, TypeInv, None
<1>13. GenInv'
  BY <1>1, <1>2, <1>3, <1>4 DEF GenInv, TypeInv, None
<1>14. ListInv'
  <2>1. \A g \in Gens : \A l \in globalLeaseList'[g] :
          /\ leaseIdToLeasePool'[g][l] = leasePool[l] /\ leaseState[l] # "none"
          /\ poolGen[leasePool[l]] = g
    <3> SUFFICES ASSUME NEW g \in Gens, NEW l \in globalLeaseList'[g]
                 PROVE  /\ leaseIdToLeasePool'[g][l] = leasePool[l] /\ leaseState[l] # "none"
                        /\ poolGen[leasePool[l]] = g
      OBVIOUS
    <3>1. CASE g = flps[r] /\ l = lease[r] BY <1>4, <1>5, <3>1
    <3>2. CASE ~(g = flps[r] /\ l = lease[r])
      <4>1. l \in globalLeaseList[g] BY <1>5, <3>2
      <4>2. leaseIdToLeasePool'[g][l] = leaseIdToLeasePool[g][l] BY <1>5, <1>6, <3>2, <4>1
      <4> QED BY <1>3, <4>1, <4>2 DEF ListInv
    <3> QED BY <3>1, <3>2
  <2>2. \A q \in Requests :
          pc'[q] \in {"holding", "releasing"} /\ Live(lease[q]) =>
            lease[q] \in globalLeaseList'[poolGen[leasePool[lease[q]]]]
    BY <1>2, <1>3, <1>4, <1>5, <1>7 DEF ListInv, TypeInv
  <2> QED BY <1>1, <2>1, <2>2 DEF ListInv, Live
<1>15. NoOrphanPool'
  BY <1>1, <1>2, <1>3, <1>4 DEF NoOrphanPool, TypeInv, None
<1>16. NoStrandedLease'
  BY <1>1, <1>2, <1>3, <1>4 DEF NoStrandedLease, TypeInv, None
<1> QED BY <1>10, <1>11, <1>12, <1>13, <1>14, <1>15, <1>16 DEF Inv

\* What a request drops because the function is gone was stopped with it.
LEMMA StartReleaseKeeps ==
  ASSUME Inv, NEW r \in Requests, StartRelease(r)
  PROVE  Inv'
<1>1. UNCHANGED <<cur, genCount, poolCount, stopped, leasePools, globalLeaseList, leaseIdToLeasePool, snapshots, exitLeases, retainCalls, ring, poolGen, poolKey, poolStopped, leaseState, leasePool, pool, key>>
  BY DEF StartRelease, Goto, mgrVars, regVars, retVars, poolVars, leaseVars, reqVars
<1>2. /\ pc[r] = "holding" /\ flps' = [flps EXCEPT ![r] = cur]
      /\ \/ cur = None /\ pc' = [pc EXCEPT ![r] = "idle"] /\ lease' = [lease EXCEPT ![r] = NoL]
         \/ cur # None /\ pc' = [pc EXCEPT ![r] = "releasing"] /\ lease' = lease
  BY DEF StartRelease, Goto, mgrVars, regVars, retVars, poolVars, leaseVars, reqVars
<1>3. TypeInv /\ RequestInv /\ PoolInv /\ GenInv /\ ListInv /\ NoOrphanPool /\ NoStrandedLease
  BY DEF Inv
<1>4. /\ genCount \in Nat /\ cur \in {None, genCount} /\ cur \in 0..genCount
      /\ lease[r] \in Leases /\ leaseState[lease[r]] # "none"
  BY <1>2, <1>3, Shape DEF TypeInv, RequestInv, None
<1>5. poolGen[leasePool[lease[r]]] \in 1..genCount BY <1>3, <1>4, LeaseOrigin
<1>6. cur = None => stopped[poolGen[leasePool[lease[r]]]]
  BY <1>3, <1>4, <1>5 DEF GenInv, None
<1>10. TypeInv'
  BY <1>1, <1>2, <1>3, <1>4 DEF TypeInv, States, Pcs, None
<1>11. RequestInv'
  BY <1>1, <1>2, <1>3, <1>4, <1>5 DEF RequestInv, TypeInv, None
<1>12. PoolInv'
  BY <1>1, <1>2, <1>3, <1>4 DEF PoolInv, TypeInv, None
<1>13. GenInv'
  BY <1>1, <1>2, <1>3, <1>4 DEF GenInv, TypeInv, None
<1>14. ListInv'
  <2>1. \A q \in Requests : pc'[q] \in {"holding", "releasing"} =>
          pc[q] \in {"holding", "releasing"} /\ lease'[q] = lease[q]
    BY <1>2, <1>3 DEF TypeInv
  <2> QED BY <1>1, <1>3, <2>1 DEF ListInv, Live
<1>15. NoOrphanPool'
  BY <1>1, <1>2, <1>3, <1>4 DEF NoOrphanPool, TypeInv, None
<1>16. NoStrandedLease'
  BY <1>1, <1>2, <1>3, <1>4, <1>6 DEF NoStrandedLease, TypeInv
<1> QED BY <1>10, <1>11, <1>12, <1>13, <1>14, <1>15, <1>16 DEF Inv

\* A lease that is given back and stays in use belongs to a generation that is
\* stopped: a live lease of the object asked is registered there.
LEMMA ReleaseKeeps ==
  ASSUME Inv, NEW r \in Requests, NEW abnormal \in BOOLEAN, Release(r, abnormal)
  PROVE  Inv'
<1>3. TypeInv /\ RequestInv /\ PoolInv /\ GenInv /\ ListInv /\ NoOrphanPool /\ NoStrandedLease
  BY DEF Inv
<1> DEFINE g == flps[r]
           l == lease[r]
<1>4. /\ pc[r] = "releasing" /\ pc' = [pc EXCEPT ![r] = "idle"] /\ lease' = [lease EXCEPT ![r] = NoL]
      /\ UNCHANGED <<cur, genCount, poolCount, stopped, leasePools, leaseIdToLeasePool, snapshots,
                     exitLeases, retainCalls, ring, poolGen, poolKey, poolStopped, leasePool,
                     flps, pool, key>>
  BY DEF Release, Goto, mgrVars, retVars, poolVars
<1>5. /\ g \in Gens /\ g \in 0..genCount /\ l \in Leases /\ leaseState[l] # "none"
      /\ poolGen[leasePool[l]] <= g /\ genCount \in Nat
  BY <1>3, <1>4, Shape DEF RequestInv, TypeInv
<1>6. /\ leasePool[l] # None /\ poolGen[leasePool[l]] \in 1..genCount
  BY <1>3, <1>5, LeaseOrigin DEF PoolInv
<1>7. l \in globalLeaseList[g] => leaseIdToLeasePool[g][l] = leasePool[l]
  BY <1>3, <1>5 DEF ListInv
<1>8. globalLeaseList' = globalLeaseList
  BY <1>6, <1>7 DEF Release
<1>9. \/ leaseState' = leaseState /\ ~(l \in globalLeaseList[g] /\ Live(l))
      \/ \E x \in {"idle", "gone"} : leaseState' = [leaseState EXCEPT ![l] = x]
  <2>1. l \in LeaseMap(leasePool[l]) <=> Live(l) BY <1>5 DEF LeaseMap
  <2> QED BY <1>7, <2>1 DEF Release
<1>10. leaseState'[l] = "inUse" => stopped[poolGen[leasePool[l]]]
  <2> SUFFICES ASSUME leaseState'[l] = "inUse" PROVE stopped[poolGen[leasePool[l]]] OBVIOUS
  <2>1. Live(l) /\ l \notin globalLeaseList[g]
    BY <1>3, <1>5, <1>9 DEF Live, TypeInv
  <2>2. poolGen[leasePool[l]] # g
    BY <1>3, <1>4, <2>1 DEF ListInv
  <2>3. poolGen[leasePool[l]] # genCount BY <1>5, <1>6, <2>2
  <2>4. poolGen[leasePool[l]] # cur BY <1>3, <1>6, <2>3 DEF TypeInv, None
  <2> QED BY <1>3, <1>6, <2>4 DEF GenInv
<1>11. /\ leaseState' \in [Leases -> States]
       /\ \A x \in Leases \ {l} : leaseState'[x] = leaseState[x]
       /\ leaseState'[l] # "none"
       /\ leaseState'[l] = leaseState[l] \/ leaseState'[l] \in {"idle", "gone"}
       /\ leaseState'[l] \in {"inUse", "idle"} => Live(l) \/ leaseState'[l] = "idle"
  <2>1. leaseState \in [Leases -> States] BY <1>3 DEF TypeInv
  <2>2. CASE leaseState' = leaseState BY <1>5, <2>1, <2>2 DEF Live
  <2>3. CASE \E x \in {"idle", "gone"} : leaseState' = [leaseState EXCEPT ![l] = x]
    <3>1. PICK x \in {"idle", "gone"} : leaseState' = [leaseState EXCEPT ![l] = x] BY <2>3
    <3>2. x \in States BY <3>1 DEF States
    <3>3. leaseState'[l] = x BY <1>5, <2>1, <3>1
    <3> QED BY <1>5, <2>1, <3>1, <3>2, <3>3
  <2> QED BY <1>9, <2>2, <2>3
<1>12. TypeInv' BY <1>3, <1>4, <1>8, <1>11 DEF TypeInv, Pcs
<1>13. RequestInv' BY <1>3, <1>4, <1>5, <1>11 DEF RequestInv, TypeInv
<1>14. PoolInv' BY <1>3, <1>4, <1>6, <1>11 DEF PoolInv
<1>15. GenInv' /\ NoOrphanPool' BY <1>3, <1>4 DEF GenInv, NoOrphanPool
<1>16. ListInv'
  <2>1. \A h \in Gens : \A x \in globalLeaseList[h] :
          x \in Leases /\ leaseState'[x] # "none"
    BY <1>3, <1>11 DEF ListInv, TypeInv
  <2>2. ASSUME NEW q \in Requests, q # r, pc[q] \in {"holding", "releasing"},
               leaseState'[lease[q]] \in {"inUse", "idle"}
        PROVE  lease[q] \in globalLeaseList[poolGen[leasePool[lease[q]]]]
    <3>1. lease[q] \in Leases BY <1>3, <2>2 DEF RequestInv
    <3>2. CASE Live(lease[q]) BY <1>3, <2>2, <3>2 DEF ListInv
    <3>3. CASE ~Live(lease[q])
      <4>1. lease[q] = l /\ leaseState'[l] = "idle" BY <1>11, <2>2, <3>1, <3>3 DEF Live
      <4>2. leaseState[l] = "gone" BY <1>3, <1>5, <3>3, <4>1 DEF Live, TypeInv, States
      <4>3. ~(l \in LeaseMap(leaseIdToLeasePool[g][l])) BY <4>2 DEF LeaseMap, Live
      <4>4. leaseState' = leaseState BY <4>3 DEF Release
      <4> QED BY <4>1, <4>2, <4>4
    <3> QED BY <3>2, <3>3
  <2>3. \A q \in Requests : pc'[q] \in {"holding", "releasing"} =>
          q # r /\ pc[q] \in {"holding", "releasing"} /\ lease'[q] = lease[q]
    BY <1>3, <1>4 DEF TypeInv
  <2> QED BY <1>3, <1>4, <1>8, <2>1, <2>2, <2>3 DEF ListInv, Live
<1>17. NoStrandedLease'
  <2>1. \A q \in Requests, x \in Leases : lease[q] = x => lease'[q] = x \/ x = l
    BY <1>3, <1>4 DEF TypeInv
  <2> QED BY <1>3, <1>4, <1>10, <1>11, <2>1 DEF NoStrandedLease
<1> QED BY <1>12, <1>13, <1>14, <1>15, <1>16, <1>17 DEF Inv

\* Leases that exit take nothing with them but their registration.
LEMMA ExitsKeep ==
  ASSUME Inv, NEW L, L \subseteq Leases, Gone(L),
         \A x \in L : leaseState[x] # "none",
         globalLeaseList' \in [Gens -> SUBSET Leases],
         leaseIdToLeasePool' \in [Gens -> [Leases -> Nat]],
         \A g \in Gens : \A x \in globalLeaseList'[g] :
           x \in globalLeaseList[g] /\ leaseIdToLeasePool'[g][x] = leaseIdToLeasePool[g][x],
         \A g \in Gens : \A x \in globalLeaseList[g] :
           x \in globalLeaseList'[g] \/ x \in L \/ ~Live(x),
         snapshots' \in [Gens -> SUBSET Leases], exitLeases' \in [Gens -> SUBSET Leases],
         retainCalls' \subseteq [gen : Gens, lease : Leases, ring : {Green, Blue}],
         ring' \in [Leases -> {Green, Blue}],
         UNCHANGED <<cur, genCount, poolCount, stopped, leasePools, poolGen, poolKey,
                     poolStopped, leasePool, pc, flps, pool, lease, key>>
  PROVE  Inv'
<1>3. TypeInv /\ RequestInv /\ PoolInv /\ GenInv /\ ListInv /\ NoOrphanPool /\ NoStrandedLease
  BY DEF Inv
<1>4. /\ leaseState' \in [Leases -> States]
      /\ \A x \in Leases : /\ x \in L => leaseState'[x] = "gone" /\ leaseState[x] # "none"
                           /\ x \notin L => leaseState'[x] = leaseState[x]
  BY <1>3 DEF Gone, TypeInv, States
<1>5. TypeInv' BY <1>3, <1>4 DEF TypeInv
<1>6. RequestInv' BY <1>3, <1>4 DEF RequestInv
<1>7. PoolInv' BY <1>3, <1>4 DEF PoolInv
<1>8. GenInv' /\ NoOrphanPool' BY <1>3 DEF GenInv, NoOrphanPool
<1>9. ListInv'
  <2>1. \A g \in Gens : \A x \in globalLeaseList'[g] :
          /\ leaseIdToLeasePool'[g][x] = leasePool[x] /\ leaseState'[x] # "none"
          /\ poolGen[leasePool[x]] = g
    BY <1>3, <1>4 DEF ListInv, TypeInv
  <2>2. ASSUME NEW q \in Requests, pc[q] \in {"holding", "releasing"},
               leaseState'[lease[q]] \in {"inUse", "idle"}
        PROVE  lease[q] \in globalLeaseList'[poolGen[leasePool[lease[q]]]]
    <3>1. lease[q] \in Leases /\ leaseState[lease[q]] # "none" BY <1>3, <2>2 DEF RequestInv
    <3>2. lease[q] \notin L /\ Live(lease[q]) BY <1>4, <2>2, <3>1 DEF Live
    <3>3. poolGen[leasePool[lease[q]]] \in Gens BY <1>3, <3>1, LeaseOrigin
    <3>4. lease[q] \in globalLeaseList[poolGen[leasePool[lease[q]]]] BY <1>3, <2>2, <3>2 DEF ListInv
    <3> QED BY <3>2, <3>3, <3>4
  <2> QED BY <2>1, <2>2 DEF ListInv, Live
<1>10. NoStrandedLease' BY <1>3, <1>4 DEF NoStrandedLease
<1> QED BY <1>5, <1>6, <1>7, <1>8, <1>9, <1>10 DEF Inv

\* Closing pools and objects, and dropping closed pools from the map, orphans
\* and strands nothing.
LEMMA StopKeeps ==
  ASSUME Inv, cur' \in {cur, None}, cur' # cur => stopped'[cur],
         stopped' \in [Gens -> BOOLEAN], \A g \in Gens : stopped[g] => stopped'[g],
         poolStopped' \in [Pools -> BOOLEAN],
         \A p \in Pools : poolStopped[p] => poolStopped'[p],
         leasePools' \in [Gens -> [Keys -> 0..poolCount]],
         \A g \in Gens, k \in Keys :
           \/ leasePools'[g][k] = leasePools[g][k]
           \/ leasePools'[g][k] = None /\ poolStopped'[leasePools[g][k]],
         UNCHANGED <<genCount, poolCount, globalLeaseList, leaseIdToLeasePool, snapshots,
                     exitLeases, retainCalls, ring, poolGen, poolKey, leaseState, leasePool,
                     pc, flps, pool, lease, key>>
  PROVE  Inv'
<1>1. TypeInv /\ RequestInv /\ PoolInv /\ GenInv /\ ListInv /\ NoOrphanPool /\ NoStrandedLease
  BY DEF Inv
<1>2. TypeInv' BY <1>1 DEF TypeInv
<1>3. RequestInv' BY <1>1 DEF RequestInv
<1>4. PoolInv' BY <1>1 DEF PoolInv
<1>5. GenInv'
  <2>1. \A g \in 1..genCount : g \in Gens BY <1>1, Shape
  <2> QED BY <1>1, <2>1 DEF GenInv
<1>6. ListInv' BY <1>1 DEF ListInv, Live
<1>7. NoOrphanPool'
  <2> SUFFICES ASSUME NEW p \in 1..poolCount, ~poolStopped'[p]
               PROVE  leasePools'[poolGen[p]][poolKey[p]] = p
    BY DEF NoOrphanPool
  <2>1. p \in Pools /\ ~poolStopped[p] BY <1>1, Shape
  <2>2. leasePools[poolGen[p]][poolKey[p]] = p BY <1>1, <2>1 DEF NoOrphanPool
  <2>3. poolGen[p] # None /\ poolKey[p] \in Keys BY <1>1 DEF PoolInv
  <2>4. poolGen[p] \in Gens BY <1>1, <2>1, <2>3, Shape
  <2> QED BY <2>2, <2>3, <2>4
<1>8. NoStrandedLease'
  <2>1. \A x \in Leases : leaseState[x] = "inUse" =>
          leasePool[x] \in Pools /\ poolGen[leasePool[x]] \in Gens
    BY <1>1, LeaseOrigin
  <2> QED BY <1>1, <2>1 DEF NoStrandedLease
<1> QED BY <1>2, <1>3, <1>4, <1>5, <1>6, <1>7, <1>8 DEF Inv

\* The pools of an object are pools.
LEMMA StopsSome ==
  ASSUME TypeInv, NEW P, StopPools(P)
  PROVE  /\ poolStopped' \in [Pools -> BOOLEAN]
         /\ \A p \in Pools : poolStopped'[p] <=> poolStopped[p] \/ p \in P
BY DEF StopPools, TypeInv

LEMMA DeletionKeeps == ASSUME Inv, ClearFuncLeasePools PROVE Inv'
<1>1. TypeInv BY DEF Inv
<1> DEFINE P == PoolsOf(cur)
<1>2. /\ cur # None /\ cur' = None /\ stopped' = [stopped EXCEPT ![cur] = TRUE] /\ StopPools(P)
      /\ UNCHANGED <<genCount, poolCount, leasePools, globalLeaseList, leaseIdToLeasePool,
                     snapshots, exitLeases, retainCalls, ring, poolGen, poolKey, leaseState,
                     leasePool, pc, flps, pool, lease, key>>
  BY DEF ClearFuncLeasePools, regVars, retVars, leaseVars, reqVars
<1> HIDE DEF P
<1>3. cur \in Gens BY <1>1, <1>2, Shape
<1>4. /\ poolStopped' \in [Pools -> BOOLEAN]
      /\ \A p \in Pools : poolStopped[p] => poolStopped'[p]
  BY <1>1, <1>2, StopsSome
<1>5. /\ stopped' \in [Gens -> BOOLEAN] /\ stopped'[cur]
      /\ \A g \in Gens : stopped[g] => stopped'[g]
  BY <1>1, <1>2, <1>3 DEF TypeInv
<1>6. leasePools' \in [Gens -> [Keys -> 0..poolCount]] BY <1>1, <1>2 DEF TypeInv
<1> QED BY <1>2, <1>4, <1>5, <1>6, StopKeeps

LEMMA EndLoopKeeps == ASSUME Inv, NEW g \in Gens, EndLoop(g) PROVE Inv'
<1>1. TypeInv BY DEF Inv
<1> DEFINE P == PoolsOf(g)
<1>2. /\ StopPools(P)
      /\ UNCHANGED <<cur, stopped, genCount, poolCount, leasePools, globalLeaseList,
                     leaseIdToLeasePool, snapshots, exitLeases, retainCalls, ring, poolGen,
                     poolKey, leaseState, leasePool, pc, flps, pool, lease, key>>
  BY DEF EndLoop, mgrVars, regVars, leaseVars, reqVars
<1> HIDE DEF P
<1>3. /\ poolStopped' \in [Pools -> BOOLEAN]
      /\ \A p \in Pools : poolStopped[p] => poolStopped'[p]
  BY <1>1, <1>2, StopsSome
<1>4. stopped' \in [Gens -> BOOLEAN] /\ leasePools' \in [Gens -> [Keys -> 0..poolCount]]
  BY <1>1, <1>2 DEF TypeInv
<1> QED BY <1>2, <1>3, <1>4, StopKeeps

\* clearEmptyLeasePool closes what it drops.
LEMMA ClearEmptyKeeps == ASSUME Inv, NEW g \in Gens, ClearEmptyLeasePool(g) PROVE Inv'
<1>1. TypeInv BY DEF Inv
<1> DEFINE P == {p \in PoolsOf(g) : Clearable(p)}
<1>2. /\ StopPools(P)
      /\ leasePools' = [leasePools EXCEPT ![g] =
           [k \in Keys |-> IF @[k] # None /\ Clearable(@[k]) THEN None ELSE @[k]]]
      /\ UNCHANGED <<cur, stopped, genCount, poolCount, globalLeaseList, leaseIdToLeasePool,
                     snapshots, exitLeases, retainCalls, ring, poolGen, poolKey, leaseState,
                     leasePool, pc, flps, pool, lease, key>>
  BY DEF ClearEmptyLeasePool, mgrVars, regVars, leaseVars, reqVars
<1>3. /\ poolStopped' \in [Pools -> BOOLEAN]
      /\ \A p \in Pools : poolStopped'[p] <=> poolStopped[p] \/ p \in P
  <2> HIDE DEF P
  <2> QED BY <1>1, <1>2, StopsSome
<1>4. stopped' \in [Gens -> BOOLEAN] /\ leasePools \in [Gens -> [Keys -> 0..poolCount]]
  BY <1>1, <1>2 DEF TypeInv
<1>5. /\ \A h \in Gens, k \in Keys : h # g => leasePools'[h][k] = leasePools[h][k]
      /\ \A k \in Keys : \/ leasePools'[g][k] = leasePools[g][k]
                         \/ /\ leasePools'[g][k] = None /\ leasePools[g][k] # None
                            /\ Clearable(leasePools[g][k])
  BY <1>2, <1>4
<1>6. leasePools' \in [Gens -> [Keys -> 0..poolCount]]
  <2>1. None \in 0..poolCount BY <1>1, Shape DEF None
  <2> QED BY <1>2, <1>4, <2>1
<1>7. ASSUME NEW k \in Keys, leasePools[g][k] # None, Clearable(leasePools[g][k])
      PROVE  poolStopped'[leasePools[g][k]]
  <2>1. leasePools[g][k] \in PoolsOf(g) BY <1>7 DEF PoolsOf
  <2>2. leasePools[g][k] \in P BY <1>7, <2>1
  <2>3. leasePools[g][k] \in Pools BY <1>1, <1>7, Shape
  <2> QED BY <1>3, <2>2, <2>3
<1>8. \A h \in Gens, k \in Keys :
           \/ leasePools'[h][k] = leasePools[h][k]
           \/ leasePools'[h][k] = None /\ poolStopped'[leasePools[h][k]]
  BY <1>5, <1>7
<1>9. cur' \in {cur, None} /\ (cur' # cur => stopped'[cur]) BY <1>2
<1>10. \A h \in Gens : stopped[h] => stopped'[h] BY <1>2
<1>11. \A p \in Pools : poolStopped[p] => poolStopped'[p] BY <1>3
<1> HIDE DEF P
<1> QED BY <1>2, <1>3, <1>4, <1>6, <1>8, <1>9, <1>10, <1>11, StopKeeps

\* A step on which no lease exits and the registries stay.
LEMMA QuietKeeps ==
  ASSUME Inv, ring' \in [Leases -> {Green, Blue}],
         snapshots' \in [Gens -> SUBSET Leases], exitLeases' \in [Gens -> SUBSET Leases],
         retainCalls' \subseteq [gen : Gens, lease : Leases, ring : {Green, Blue}],
         UNCHANGED <<cur, genCount, poolCount, stopped, leasePools, globalLeaseList,
                     leaseIdToLeasePool, poolGen, poolKey, poolStopped, leaseState, leasePool,
                     pc, flps, pool, lease, key>>
  PROVE  Inv'
<1>1. TypeInv /\ RequestInv /\ PoolInv /\ GenInv /\ ListInv /\ NoOrphanPool /\ NoStrandedLease
  BY DEF Inv
<1>2. TypeInv' BY <1>1 DEF TypeInv
<1>3. RequestInv' /\ PoolInv' BY <1>1 DEF RequestInv, PoolInv
<1>4. GenInv' /\ ListInv' BY <1>1 DEF GenInv, ListInv, Live
<1>5. NoOrphanPool' /\ NoStrandedLease' BY <1>1 DEF NoOrphanPool, NoStrandedLease
<1> QED BY <1>2, <1>3, <1>4, <1>5 DEF Inv

\* The loop collects: ring names follow the gray ratio.
LEMMA CollectKeeps == ASSUME Inv, NEW g \in Gens, CollectRetainSnapshots(g) PROVE Inv'
<1>1. TypeInv BY DEF Inv
<1> DEFINE E == Exits(g)
           S == Switched(g)
<1>2. /\ exitLeases' = [exitLeases EXCEPT ![g] = E]
      /\ snapshots' = [snapshots EXCEPT ![g] = globalLeaseList[g] \ E]
      /\ ring' = [l \in Leases |-> IF l \notin S THEN ring[l] ELSE IF blue THEN Blue ELSE Green]
      /\ UNCHANGED <<cur, genCount, poolCount, stopped, leasePools, globalLeaseList,
                     leaseIdToLeasePool, retainCalls, poolGen, poolKey, poolStopped, leaseState,
                     leasePool, pc, flps, pool, lease, key>>
  BY DEF CollectRetainSnapshots, mgrVars, regVars, poolVars, reqVars
<1>3. E \subseteq Leases BY <1>1 DEF Exits, TypeInv
<1> HIDE DEF E, S
<1>4. /\ exitLeases' \in [Gens -> SUBSET Leases] /\ snapshots' \in [Gens -> SUBSET Leases]
      /\ ring' \in [Leases -> {Green, Blue}]
      /\ retainCalls' \subseteq [gen : Gens, lease : Leases, ring : {Green, Blue}]
  BY <1>1, <1>2, <1>3 DEF TypeInv
<1> QED BY <1>2, <1>4, QuietKeeps

\* An answer that changes only what the next retain call asks for.
LEMMA AnswerKeeps ==
  ASSUME Inv, NEW c \in retainCalls, RetainSucceeds(c) \/ RetainMissed(c)
  PROVE  Inv'
<1>1. TypeInv BY DEF Inv
<1>2. /\ retainCalls' = retainCalls \ {c}
      /\ UNCHANGED <<cur, genCount, poolCount, stopped, leasePools, globalLeaseList,
                     leaseIdToLeasePool, snapshots, exitLeases, ring, poolGen, poolKey,
                     poolStopped, leaseState, leasePool, pc, flps, pool, lease, key>>
  BY DEF RetainSucceeds, RetainMissed, mgrVars, regVars, poolVars, reqVars
<1>3. /\ exitLeases' \in [Gens -> SUBSET Leases] /\ snapshots' \in [Gens -> SUBSET Leases]
      /\ ring' \in [Leases -> {Green, Blue}]
      /\ retainCalls' \subseteq [gen : Gens, lease : Leases, ring : {Green, Blue}]
  BY <1>1, <1>2 DEF TypeInv
<1> QED BY <1>2, <1>3, QuietKeeps

\* Nothing the invariant names changes.
LEMMA IdleKeeps == ASSUME Inv, SetBlueRatio \/ UNCHANGED vars PROVE Inv'
<1>1. TypeInv BY DEF Inv
<1>2. UNCHANGED <<cur, genCount, poolCount, stopped, leasePools, globalLeaseList,
                  leaseIdToLeasePool, snapshots, exitLeases, retainCalls, ring, poolGen, poolKey,
                  poolStopped, leaseState, leasePool, pc, flps, pool, lease, key>>
  BY DEF SetBlueRatio, vars, mgrVars, regVars, retVars, poolVars, leaseVars, reqVars
<1>3. /\ exitLeases' \in [Gens -> SUBSET Leases] /\ snapshots' \in [Gens -> SUBSET Leases]
      /\ ring' \in [Leases -> {Green, Blue}]
      /\ retainCalls' \subseteq [gen : Gens, lease : Leases, ring : {Green, Blue}]
  BY <1>1, <1>2 DEF TypeInv
<1> QED BY <1>2, <1>3, QuietKeeps

\* handleLeaseExpiredLoop drops one lease.
LEMMA LoopReleasesKeeps == ASSUME Inv, NEW l \in Leases, LoopReleases(l) PROVE Inv'
<1>1. TypeInv BY DEF Inv
<1> DEFINE L == {l}
<1>2. /\ Gone(L) /\ Live(l)
      /\ UNCHANGED <<cur, genCount, poolCount, stopped, leasePools, globalLeaseList,
                     leaseIdToLeasePool, snapshots, exitLeases, retainCalls, ring, poolGen,
                     poolKey, poolStopped, leasePool, pc, flps, pool, lease, key>>
  BY DEF LoopReleases, mgrVars, regVars, retVars, poolVars, reqVars
<1>3. L \subseteq Leases /\ \A x \in L : leaseState[x] # "none" BY <1>2 DEF Live
<1> HIDE DEF L
<1>4. /\ globalLeaseList' \in [Gens -> SUBSET Leases]
      /\ leaseIdToLeasePool' \in [Gens -> [Leases -> Nat]]
      /\ exitLeases' \in [Gens -> SUBSET Leases] /\ snapshots' \in [Gens -> SUBSET Leases]
      /\ ring' \in [Leases -> {Green, Blue}]
      /\ retainCalls' \subseteq [gen : Gens, lease : Leases, ring : {Green, Blue}]
  BY <1>1, <1>2 DEF TypeInv
<1> QED BY <1>2, <1>3, <1>4, ExitsKeep

\* The loop unregisters the exited leases it collected and sends the calls.
LEMMA SendKeeps ==
  ASSUME Inv, NEW g \in Gens, NEW reachable \in SUBSET Leases, SendRetain(g, reachable)
  PROVE  Inv'
<1>1. TypeInv /\ ListInv BY DEF Inv
<1> DEFINE L == {l \in exitLeases[g] : Live(l) /\ leaseIdToLeasePool[g][l] = leasePool[l]}
           C == {RetainCall(g, l) : l \in WithScheduler(g, reachable)}
<1>2. /\ globalLeaseList' = [globalLeaseList EXCEPT ![g] = @ \ exitLeases[g]]
      /\ leaseIdToLeasePool' = [leaseIdToLeasePool EXCEPT ![g] =
           [l \in Leases |-> IF l \in exitLeases[g] THEN None ELSE @[l]]]
      /\ Gone(L) /\ retainCalls' = retainCalls \cup C
      /\ snapshots' = [snapshots EXCEPT ![g] = {}] /\ exitLeases' = [exitLeases EXCEPT ![g] = {}]
      /\ UNCHANGED <<cur, genCount, poolCount, stopped, leasePools, ring, poolGen,
                     poolKey, poolStopped, leasePool, pc, flps, pool, lease, key>>
  BY DEF SendRetain, mgrVars, poolVars, reqVars
<1>3. exitLeases[g] \subseteq Leases BY <1>1 DEF TypeInv
<1>4. L \subseteq Leases /\ \A x \in L : leaseState[x] # "none" BY <1>3 DEF Live
<1>5. C \subseteq [gen : Gens, lease : Leases, ring : {Green, Blue}]
  <2>1. ASSUME NEW l \in WithScheduler(g, reachable)
        PROVE  RetainCall(g, l) \in [gen : Gens, lease : Leases, ring : {Green, Blue}]
    <3>1. l \in Leases BY DEF WithScheduler
    <3>2. ring[l] \in {Green, Blue} BY <1>1, <3>1 DEF TypeInv
    <3> QED BY <3>1, <3>2 DEF RetainCall
  <2> QED BY <2>1
<1>6. /\ \A h \in Gens : h # g => /\ globalLeaseList'[h] = globalLeaseList[h]
                                  /\ leaseIdToLeasePool'[h] = leaseIdToLeasePool[h]
      /\ globalLeaseList'[g] = globalLeaseList[g] \ exitLeases[g]
      /\ \A x \in Leases \ exitLeases[g] : leaseIdToLeasePool'[g][x] = leaseIdToLeasePool[g][x]
      /\ globalLeaseList' \in [Gens -> SUBSET Leases]
      /\ leaseIdToLeasePool' \in [Gens -> [Leases -> Nat]]
  BY <1>1, <1>2, <1>3 DEF TypeInv, None
<1>7. \A h \in Gens : \A x \in globalLeaseList'[h] :
        x \in globalLeaseList[h] /\ leaseIdToLeasePool'[h][x] = leaseIdToLeasePool[h][x]
  BY <1>1, <1>6 DEF TypeInv
<1>8. \A h \in Gens : \A x \in globalLeaseList[h] :
        x \in globalLeaseList'[h] \/ x \in L \/ ~Live(x)
  BY <1>1, <1>6 DEF ListInv
<1> HIDE DEF L, C
<1>9. /\ exitLeases' \in [Gens -> SUBSET Leases] /\ snapshots' \in [Gens -> SUBSET Leases]
      /\ ring' \in [Leases -> {Green, Blue}]
      /\ retainCalls' \subseteq [gen : Gens, lease : Leases, ring : {Green, Blue}]
  BY <1>1, <1>2, <1>5 DEF TypeInv
<1> QED BY <1>2, <1>4, <1>6, <1>7, <1>8, <1>9, ExitsKeep

\* A refused lease is destroyed and unregistered.
LEMMA RefusedKeeps == ASSUME Inv, NEW c \in retainCalls, RetainRefused(c) PROVE Inv'
<1>1. TypeInv BY DEF Inv
<1> DEFINE L == Target(c)
<1>2. /\ Gone(L) /\ retainCalls' = retainCalls \ {c}
      /\ globalLeaseList' = [globalLeaseList EXCEPT ![c.gen] = @ \ L]
      /\ UNCHANGED <<cur, genCount, poolCount, stopped, leasePools, leaseIdToLeasePool, snapshots,
                     exitLeases, ring, poolGen, poolKey, poolStopped, leasePool, pc, flps, pool,
                     lease, key>>
  BY DEF RetainRefused, mgrVars, poolVars, reqVars
<1>3. L \subseteq Leases /\ \A x \in L : leaseState[x] # "none"
  BY DEF Target, LeaseMap, Live
<1> HIDE DEF L
<1>4. c.gen \in Gens BY <1>1 DEF TypeInv
<1>5. /\ globalLeaseList' \in [Gens -> SUBSET Leases]
      /\ leaseIdToLeasePool' \in [Gens -> [Leases -> Nat]]
      /\ exitLeases' \in [Gens -> SUBSET Leases] /\ snapshots' \in [Gens -> SUBSET Leases]
      /\ ring' \in [Leases -> {Green, Blue}]
      /\ retainCalls' \subseteq [gen : Gens, lease : Leases, ring : {Green, Blue}]
  BY <1>1, <1>2, <1>4 DEF TypeInv
<1>6. /\ \A h \in Gens : \A x \in globalLeaseList'[h] : x \in globalLeaseList[h]
      /\ \A h \in Gens : \A x \in globalLeaseList[h] : x \in globalLeaseList'[h] \/ x \in L
  BY <1>1, <1>2, <1>4 DEF TypeInv
<1>7. /\ \A h \in Gens : \A x \in globalLeaseList'[h] :
           x \in globalLeaseList[h] /\ leaseIdToLeasePool'[h][x] = leaseIdToLeasePool[h][x]
      /\ \A h \in Gens : \A x \in globalLeaseList[h] :
           x \in globalLeaseList'[h] \/ x \in L \/ ~Live(x)
  BY <1>2, <1>6
<1> QED BY <1>2, <1>3, <1>5, <1>7, ExitsKeep

-----------------------------------------------------------------------------
LEMMA InvStep == Inv /\ [Next]_vars => Inv'
<1> SUFFICES ASSUME Inv, [Next]_vars PROVE Inv' OBVIOUS
<1>1. ASSUME NEW r \in Requests, RequestStep(r) PROVE Inv'
  <2>1. CASE \E k \in Keys : AcquireInstance(r, k) BY <2>1, AcquireKeeps
  <2>2. CASE OptionFails(r) \/ MissPool(r) \/ AcquireFails(r) \/ FindPool(r) \/ EnterPool(r)
    BY <2>2, MoveKeeps
  <2>3. CASE CreatePool(r) BY <2>3, CreatePoolKeeps, EnterFoundKeeps
  <2>4. CASE \E l \in Leases : TakeIdle(r, l) \/ \E b \in BOOLEAN : TakeNew(r, l, b)
    BY <2>4, TakeKeeps
  <2>5. CASE Register(r) BY <2>5, RegisterKeeps
  <2>6. CASE StartRelease(r) BY <2>6, StartReleaseKeeps
  <2>7. CASE \E abnormal \in BOOLEAN : Release(r, abnormal) BY <2>7, ReleaseKeeps
  <2> QED BY <1>1, <2>1, <2>2, <2>3, <2>4, <2>5, <2>6, <2>7 DEF RequestStep
<1>2. ASSUME NEW g \in Gens, LoopStep(g) PROVE Inv'
  BY <1>2, EndLoopKeeps, ClearEmptyKeeps, CollectKeeps, SendKeeps DEF LoopStep
<1>3. ASSUME NEW c \in retainCalls, RetainSucceeds(c) \/ RetainMissed(c) \/ RetainRefused(c)
      PROVE  Inv'
  BY <1>3, AnswerKeeps, RefusedKeeps
<1>4. ASSUME NEW l \in Leases, LoopReleases(l) PROVE Inv' BY <1>4, LoopReleasesKeeps
<1>5. ASSUME ClearFuncLeasePools PROVE Inv' BY <1>5, DeletionKeeps
<1>6. ASSUME SetBlueRatio \/ UNCHANGED vars PROVE Inv' BY <1>6, IdleKeeps
<1> QED BY <1>1, <1>2, <1>3, <1>4, <1>5, <1>6 DEF Next

\* A pool that hands out leases and is not closed is the one the function's map
\* has for its key, in any interleaving of acquireInstance's three critical
\* sections, clearEmptyLeasePool and ClearFuncLeasePools.
THEOREM NoOrphanPoolCorrect == Spec => []NoOrphanPool
<1>1. Inv => NoOrphanPool BY DEF Inv
<1> QED BY <1>1, InitInv, InvStep, PTL DEF Spec

\* A lease in use that no request holds is one whose pool is closed or whose
\* function was cleared: a release that finds a younger object, or none, only
\* loses leases of objects that were stopped.
THEOREM NoStrandedLeaseCorrect == Spec => []NoStrandedLease
<1>1. Inv => NoStrandedLease BY DEF Inv
<1> QED BY <1>1, InitInv, InvStep, PTL DEF Spec

\* globalLeaseList, leaseIdToLeasePool and the pools agree, and a live lease a
\* request holds is registered, so that it is retained.
THEOREM RegistrySoundCorrect == Spec => []RegistrySound
<1>1. Inv => RegistrySound
  <2> SUFFICES ASSUME Inv PROVE RegistrySound OBVIOUS
  <2>1. TypeInv /\ PoolInv /\ ListInv BY DEF Inv
  <2>2. \A g \in Gens : \A l \in globalLeaseList[g] : l \in Leases BY <2>1 DEF TypeInv
  <2> QED BY <2>1, <2>2 DEF ListInv, PoolInv, RegistrySound
<1> QED BY <1>1, InitInv, InvStep, PTL DEF Spec
=============================================================================
