----------------------------- MODULE LeasePool -----------------------------
(***************************************************************************)
(* One lease pool of the frontend (pkg/frontend/leaseadaptor: LeasePool in *)
(* lease_manager.go, InstanceLease in lease.go) with the goroutines that   *)
(* share it: the requests that acquire and release leases, one             *)
(* handleLeaseExpiredLoop per lease, and the batch-retain responses that   *)
(* destroy leases under the same lock.                                     *)
(*                                                                         *)
(* A step is one critical section of the pool lock, or one atomic access   *)
(* of a lease where the code takes no lock (checkLeaseIdle).  A lease is   *)
(* identified with its ThreadID: the scheduler never reissues an id whose  *)
(* lease the pool has retired.                                             *)
(***************************************************************************)
EXTENDS Naturals, Sequences, FiniteSets

CONSTANTS
  Requests,   \* concurrent invocations (model values)
  Leases,     \* lease ids the scheduler can grant (a bound: |Leases| grants)
  FuncSigs,   \* function signatures a request may carry
  NoLease     \* "no lease", not a member of Leases

ASSUME NoLeaseAssumption == NoLease \notin Leases
ASSUME FuncSigsAssumption == FuncSigs # {}
ASSUME RequestsAssumption == IsFiniteSet(Requests)

VARIABLES
  leaseMap,       \* LeasePool.leaseMap: the leases the pool knows
  idleLeaseList,  \* LeasePool.idleLeaseList: FIFO of leases to reuse
  inFlightCount,  \* LeasePool.inFlightCount
  poolStopped,    \* LeasePool.stopCh is closed
  issued,         \* leases the scheduler has granted so far
  funcSig,        \* InstanceLease.acquireOption.FuncSig
  reusable,       \* InstanceLease.LeaseInterval > 0
  available,      \* InstanceLease.available
  exited,         \* InstanceLease.exited; its stopCh is closed with it
  beginRelease,   \* InstanceLease.beginRelease
  loopPc,         \* where handleLeaseExpiredLoop of the lease stands
  timer,          \* its releaseTimer is running
  pc,             \* where a request stands
  held,           \* the lease a request owns
  reqSig          \* the signature in the request's AcquireOption

poolVars  == <<leaseMap, idleLeaseList, inFlightCount, poolStopped>>
leaseVars == <<issued, funcSig, reusable, available, exited, beginRelease>>
loopVars  == <<loopPc, timer>>
reqVars   == <<pc, held, reqSig>>
vars      == <<poolVars, leaseVars, loopVars, reqVars>>

LoopPcs == {"none", "select", "avail", "begin", "arm", "recheck", "disarm",
            "remove", "send", "done"}
ReqPcs  == {"idle", "calling", "granted", "holding"}

AnySig == CHOOSE sig \in FuncSigs : TRUE   \* placeholder before assignment

Init ==
  /\ leaseMap = {} /\ idleLeaseList = <<>>
  /\ inFlightCount = 0 /\ poolStopped = FALSE
  /\ issued = {}
  /\ funcSig = [l \in Leases |-> AnySig]
  /\ reusable = [l \in Leases |-> FALSE]
  /\ available = [l \in Leases |-> FALSE]
  /\ exited = [l \in Leases |-> FALSE]
  /\ beginRelease = [l \in Leases |-> FALSE]
  /\ loopPc = [l \in Leases |-> "none"]
  /\ timer = [l \in Leases |-> FALSE]
  /\ pc = [r \in Requests |-> "idle"]
  /\ held = [r \in Requests |-> NoLease]
  /\ reqSig = [r \in Requests |-> AnySig]

-----------------------------------------------------------------------------
(* The idle list and the lease flags                                        *)

\* FifoQueue.DelByID: the element recorded for the id leaves the list.
DelByID(list, l) ==
  IF \E i \in 1..Len(list) : list[i] = l
  THEN LET i == CHOOSE i \in 1..Len(list) : list[i] = l
       IN  SubSeq(list, 1, i - 1) \o SubSeq(list, i + 1, Len(list))
  ELSE list

\* Faulty variant: claim does not look at available.
ClaimableAlways(l) == TRUE

\* InstanceLease.claim: succeeds when the lease is available.
Claimable(l) == available[l]

\* Where traverseIdleLeaseList stops: a lease of another signature, or one
\* that can be claimed.  Leases that fail the claim are popped on the way.
StopsAt(list, sig) ==
  {i \in 1..Len(list) : funcSig[list[i]] # sig \/ Claimable(list[i])}

\* Faulty variant: the signature is not compared.
TraversedAnySig(list, sig, i) ==
  i \in StopsAt(list, sig) /\ \A j \in StopsAt(list, sig) : i <= j

\* The lease handed out: the first stop, if its signature is the request's.
Traversed(list, sig, i) ==
  /\ i \in StopsAt(list, sig)
  /\ \A j \in StopsAt(list, sig) : i <= j
  /\ funcSig[list[i]] = sig

\* InstanceLease.free, not abnormal.
Free(l) == available' = [available EXCEPT ![l] = TRUE]

\* InstanceLease.destroy, then the entry leaves the map and the idle list
\* (removeLease, the decrease branch of processBatchResponse and the abnormal
\* branch of releaseInstanceLease do the same three things).
Destroy(l) ==
  /\ exited' = [exited EXCEPT ![l] = TRUE]
  /\ available' = [available EXCEPT ![l] = FALSE]
  /\ leaseMap' = leaseMap \ {l}
  /\ idleLeaseList' = DelByID(idleLeaseList, l)

-----------------------------------------------------------------------------
(* Requests                                                                 *)

\* acquireInstanceLease, idle lease found: it is popped and claimed.
ReuseLease(r, sig) ==
  /\ pc[r] = "idle"
  /\ \E i \in 1..Len(idleLeaseList) :
       /\ Traversed(idleLeaseList, sig, i)
       /\ LET l == idleLeaseList[i] IN
            /\ idleLeaseList' = SubSeq(idleLeaseList, i + 1, Len(idleLeaseList))
            /\ available' = [available EXCEPT ![l] = FALSE]
            /\ beginRelease' = [beginRelease EXCEPT ![l] = FALSE]
            /\ held' = [held EXCEPT ![r] = l]
  /\ pc' = [pc EXCEPT ![r] = "holding"]
  /\ reqSig' = [reqSig EXCEPT ![r] = sig]
  /\ UNCHANGED <<leaseMap, inFlightCount, poolStopped, issued, funcSig,
                 reusable, exited, loopVars>>

\* acquireInstanceLease, no idle lease: the list has been emptied (claims
\* failed, or a lease of another signature flushed it) and acquireHandler
\* calls the scheduler.
CallScheduler(r, sig) ==
  /\ pc[r] = "idle"
  /\ ~ \E i \in 1..Len(idleLeaseList) : Traversed(idleLeaseList, sig, i)
  /\ idleLeaseList' = <<>>
  /\ inFlightCount' = inFlightCount + 1
  /\ pc' = [pc EXCEPT ![r] = "calling"]
  /\ reqSig' = [reqSig EXCEPT ![r] = sig]
  /\ UNCHANGED <<leaseMap, poolStopped, leaseVars, loopVars, held>>

\* Faulty variant: the error path forgets inFlightCount.Add(-1).
AcquireFailsLeaks(r) ==
  /\ pc[r] = "calling" /\ pc' = [pc EXCEPT ![r] = "idle"]
  /\ UNCHANGED <<poolVars, leaseVars, loopVars, held, reqSig>>

\* acquireHandler returns an error after its retries.
AcquireFails(r) ==
  /\ pc[r] = "calling"
  /\ inFlightCount' = inFlightCount - 1
  /\ pc' = [pc EXCEPT ![r] = "idle"]
  /\ UNCHANGED <<leaseMap, idleLeaseList, poolStopped, leaseVars, loopVars,
                 held, reqSig>>

\* Faulty variant: the new lease is not claimed.
GrantLeaseUnclaimed(r, l, canReuse) ==
  /\ pc[r] = "calling" /\ l \in Leases \ issued
  /\ issued' = issued \cup {l}
  /\ funcSig' = [funcSig EXCEPT ![l] = reqSig[r]]
  /\ reusable' = [reusable EXCEPT ![l] = canReuse]
  /\ available' = [available EXCEPT ![l] = TRUE]
  /\ held' = [held EXCEPT ![r] = l] /\ pc' = [pc EXCEPT ![r] = "granted"]
  /\ UNCHANGED <<poolVars, exited, beginRelease, loopVars, reqSig>>

\* acquireHandler returns a new lease, claimed before anyone else sees it.
GrantLease(r, l, canReuse) ==
  /\ pc[r] = "calling"
  /\ l \in Leases \ issued
  /\ issued' = issued \cup {l}
  /\ funcSig' = [funcSig EXCEPT ![l] = reqSig[r]]
  /\ reusable' = [reusable EXCEPT ![l] = canReuse]
  /\ held' = [held EXCEPT ![r] = l]
  /\ pc' = [pc EXCEPT ![r] = "granted"]
  /\ UNCHANGED <<poolVars, available, exited, beginRelease, loopVars, reqSig>>

\* The lease enters the map; a reusable one gets its expiry loop, whose
\* releaseTimer starts running.
InsertLease(r) ==
  /\ pc[r] = "granted"
  /\ leaseMap' = leaseMap \cup {held[r]}
  /\ inFlightCount' = inFlightCount - 1
  /\ pc' = [pc EXCEPT ![r] = "holding"]
  /\ IF reusable[held[r]]
     THEN /\ loopPc' = [loopPc EXCEPT ![held[r]] = "select"]
          /\ timer' = [timer EXCEPT ![held[r]] = TRUE]
     ELSE UNCHANGED loopVars
  /\ UNCHANGED <<idleLeaseList, poolStopped, leaseVars, held, reqSig>>

\* Faulty variant: both returns of the branch decrement inFlightCount.
RepeatedLeaseTwice(r) ==
  /\ pc[r] = "calling" /\ leaseMap # {}
  /\ inFlightCount' = inFlightCount - 2 /\ pc' = [pc EXCEPT ![r] = "idle"]
  /\ UNCHANGED <<leaseMap, idleLeaseList, poolStopped, leaseVars, loopVars,
                 held, reqSig>>

\* The scheduler granted an id that is still in the map: the acquisition
\* fails with "lease already exist" and the map keeps the first lease.
RepeatedLease(r) ==
  /\ pc[r] = "calling"
  /\ leaseMap # {}
  /\ inFlightCount' = inFlightCount - 1
  /\ pc' = [pc EXCEPT ![r] = "idle"]
  /\ UNCHANGED <<leaseMap, idleLeaseList, poolStopped, leaseVars, loopVars,
                 held, reqSig>>

\* Faulty variant: the lease is put on the idle list and not freed.
ReleaseLeaseUnfreed(r, abnormal) ==
  /\ pc[r] = "holding" /\ held[r] \in leaseMap
  /\ pc' = [pc EXCEPT ![r] = "idle"] /\ held' = [held EXCEPT ![r] = NoLease]
  /\ idleLeaseList' = Append(idleLeaseList, held[r])
  /\ UNCHANGED <<leaseMap, inFlightCount, poolStopped, leaseVars, loopVars, reqSig>>

\* The request ends and gives its lease back (LeasePool.releaseInstanceLease).
\* A lease the pool no longer knows is ignored.
ReleaseLease(r, abnormal) ==
  LET l == held[r] IN
  /\ pc[r] = "holding"
  /\ pc' = [pc EXCEPT ![r] = "idle"]
  /\ held' = [held EXCEPT ![r] = NoLease]
  /\ IF l \notin leaseMap
     THEN UNCHANGED <<leaseMap, idleLeaseList, available, exited>>
     ELSE IF ~abnormal /\ reusable[l]
     THEN /\ Free(l)
          /\ idleLeaseList' = Append(idleLeaseList, l)
          /\ UNCHANGED <<leaseMap, exited>>
     ELSE Destroy(l)
  /\ UNCHANGED <<inFlightCount, poolStopped, issued, funcSig, reusable,
                 beginRelease, loopVars, reqSig>>

\* The manager no longer knows the function (ClearFuncLeasePools ran, which
\* also stopped the pool): ReleaseInstanceAllocation returns early.
ReleaseAfterClear(r) ==
  /\ pc[r] = "holding" /\ poolStopped
  /\ pc' = [pc EXCEPT ![r] = "idle"]
  /\ held' = [held EXCEPT ![r] = NoLease]
  /\ UNCHANGED <<poolVars, leaseVars, loopVars, reqSig>>

-----------------------------------------------------------------------------
(* handleLeaseExpiredLoop: a select over a ticker, the release timer and    *)
(* the two stop channels.  checkLeaseIdle is one step per atomic access.    *)

\* The ticker: checkLeaseIdle stops the timer unless a release has begun.
Tick(l) ==
  /\ loopPc[l] = "select"
  /\ timer' = [timer EXCEPT ![l] = beginRelease[l] /\ timer[l]]
  /\ loopPc' = [loopPc EXCEPT ![l] = "avail"]
  /\ UNCHANGED <<poolVars, leaseVars, reqVars>>

CheckAvailable(l) ==
  /\ loopPc[l] = "avail"
  /\ loopPc' = [loopPc EXCEPT ![l] = IF available[l] THEN "begin" ELSE "recheck"]
  /\ UNCHANGED <<poolVars, leaseVars, timer, reqVars>>

CheckBeginRelease(l) ==
  /\ loopPc[l] = "begin"
  /\ loopPc' = [loopPc EXCEPT ![l] = IF beginRelease[l] THEN "recheck" ELSE "arm"]
  /\ UNCHANGED <<poolVars, leaseVars, timer, reqVars>>

\* Faulty variant: releaseTimer.Reset is missing.
ArmTimerNoReset(l) ==
  /\ loopPc[l] = "arm" /\ loopPc' = [loopPc EXCEPT ![l] = "recheck"]
  /\ beginRelease' = [beginRelease EXCEPT ![l] = TRUE]
  /\ UNCHANGED <<poolVars, issued, funcSig, reusable, available, exited, timer,
                 reqVars>>

ArmTimer(l) ==
  /\ loopPc[l] = "arm"
  /\ beginRelease' = [beginRelease EXCEPT ![l] = TRUE]
  /\ timer' = [timer EXCEPT ![l] = TRUE]
  /\ loopPc' = [loopPc EXCEPT ![l] = "recheck"]
  /\ UNCHANGED <<poolVars, issued, funcSig, reusable, available, exited, reqVars>>

Recheck(l) ==
  /\ loopPc[l] = "recheck"
  /\ loopPc' = [loopPc EXCEPT ![l] = IF available[l] THEN "select" ELSE "disarm"]
  /\ UNCHANGED <<poolVars, leaseVars, timer, reqVars>>

DisarmTimer(l) ==
  /\ loopPc[l] = "disarm"
  /\ beginRelease' = [beginRelease EXCEPT ![l] = FALSE]
  /\ timer' = [timer EXCEPT ![l] = FALSE]
  /\ loopPc' = [loopPc EXCEPT ![l] = "select"]
  /\ UNCHANGED <<poolVars, issued, funcSig, reusable, available, exited, reqVars>>

\* The release timer fires: the loop releases the lease if it can claim it.
TimerFires(l) ==
  /\ loopPc[l] = "select" /\ timer[l]
  /\ timer' = [timer EXCEPT ![l] = FALSE]
  /\ IF Claimable(l)
     THEN /\ available' = [available EXCEPT ![l] = FALSE]
          /\ beginRelease' = [beginRelease EXCEPT ![l] = FALSE]
          /\ loopPc' = [loopPc EXCEPT ![l] = "remove"]
     ELSE UNCHANGED <<available, beginRelease, loopPc>>
  /\ UNCHANGED <<poolVars, issued, funcSig, reusable, exited, reqVars>>

\* lease.stopCh or the pool's stopCh is closed.
StopSeen(l) ==
  /\ loopPc[l] = "select"
  /\ exited[l] \/ poolStopped
  /\ loopPc' = [loopPc EXCEPT ![l] = "remove"]
  /\ UNCHANGED <<poolVars, leaseVars, timer, reqVars>>

\* removeLease
RemoveLease(l) ==
  /\ loopPc[l] = "remove"
  /\ IF l \in leaseMap
     THEN Destroy(l)
     ELSE UNCHANGED <<leaseMap, idleLeaseList, available, exited>>
  /\ loopPc' = [loopPc EXCEPT ![l] = "send"]
  /\ UNCHANGED <<inFlightCount, poolStopped, issued, funcSig, reusable,
                 beginRelease, timer, reqVars>>

\* doReleaseInvoke: one attempt, whose outcome is ignored; the loop ends.
SendRelease(l) ==
  /\ loopPc[l] = "send"
  /\ loopPc' = [loopPc EXCEPT ![l] = "done"]
  /\ UNCHANGED <<poolVars, leaseVars, timer, reqVars>>

-----------------------------------------------------------------------------
(* The function-level loop acting on the pool                               *)

\* processBatchResponse: the scheduler refused to retain the lease.
DecreaseLease(l) ==
  /\ l \in leaseMap
  /\ Destroy(l)
  /\ UNCHANGED <<inFlightCount, poolStopped, issued, funcSig, reusable,
                 beginRelease, loopVars, reqVars>>

\* processBatchLease: a lease that cannot be reused leaves at the next tick.
EvictLease(l) ==
  /\ l \in leaseMap /\ ~reusable[l]
  /\ Destroy(l)
  /\ UNCHANGED <<inFlightCount, poolStopped, issued, funcSig, reusable,
                 beginRelease, loopVars, reqVars>>

\* The pool's stopCh is closed: ClearFuncLeasePools, the end of the function
\* loop, or clearEmptyLeasePool.
StopPool ==
  /\ ~poolStopped
  /\ poolStopped' = TRUE
  /\ UNCHANGED <<leaseMap, idleLeaseList, inFlightCount, leaseVars, loopVars,
                 reqVars>>

-----------------------------------------------------------------------------
RequestStep(r) ==
  \/ \E sig \in FuncSigs : ReuseLease(r, sig) \/ CallScheduler(r, sig)
  \/ AcquireFails(r) \/ InsertLease(r) \/ RepeatedLease(r)
  \/ \E l \in Leases, canReuse \in BOOLEAN : GrantLease(r, l, canReuse)
  \/ \E abnormal \in BOOLEAN : ReleaseLease(r, abnormal)
  \/ ReleaseAfterClear(r)

LoopStep(l) ==
  \/ Tick(l) \/ CheckAvailable(l) \/ CheckBeginRelease(l) \/ ArmTimer(l)
  \/ Recheck(l) \/ DisarmTimer(l) \/ TimerFires(l) \/ StopSeen(l)
  \/ RemoveLease(l) \/ SendRelease(l)

Next ==
  \/ \E r \in Requests : RequestStep(r)
  \/ \E l \in Leases : LoopStep(l) \/ DecreaseLease(l) \/ EvictLease(l)
  \/ StopPool

Spec == Init /\ [][Next]_vars

\* Goroutines keep running.  Select picks among ready cases at random, so a
\* case that is ready again and again is taken (SF); a request ends.
Fairness ==
  /\ \A l \in Leases : WF_vars(LoopStep(l)) /\ SF_vars(TimerFires(l)) /\ SF_vars(StopSeen(l))
  /\ \A r \in Requests : WF_vars(AcquireFails(r)) /\ WF_vars(InsertLease(r))
                          /\ WF_vars(\E abnormal \in BOOLEAN : ReleaseLease(r, abnormal))

FairSpec == Spec /\ Fairness
-----------------------------------------------------------------------------
(* Properties                                                               *)

\* Every variable stays within the range of the Go field it stands for.
TypeOK ==
  /\ leaseMap \subseteq Leases
  /\ idleLeaseList \in Seq(Leases)
  /\ inFlightCount \in Nat
  /\ poolStopped \in BOOLEAN
  /\ issued \subseteq Leases
  /\ funcSig \in [Leases -> FuncSigs]
  /\ reusable \in [Leases -> BOOLEAN]
  /\ available \in [Leases -> BOOLEAN]
  /\ exited \in [Leases -> BOOLEAN]
  /\ beginRelease \in [Leases -> BOOLEAN]
  /\ loopPc \in [Leases -> LoopPcs]
  /\ timer \in [Leases -> BOOLEAN]
  /\ pc \in [Requests -> ReqPcs]
  /\ held \in [Requests -> Leases \cup {NoLease}]
  /\ reqSig \in [Requests -> FuncSigs]

\* inFlightCount counts exactly the requests inside acquireHandler or about to
\* insert their lease, on every return path: clearEmptyLeasePool takes a pool
\* with inFlightCount 0 for unused.
InFlight == {r \in Requests : pc[r] \in {"calling", "granted"}}
InFlightExact == inFlightCount = Cardinality(InFlight)

\* A lease serves one request at a time: two requests never own the same
\* lease, and an owned lease is not offered as available (claim/free).
MutualExclusion ==
  /\ \A r, q \in Requests : r # q /\ held[r] # NoLease => held[r] # held[q]
  /\ \A r \in Requests : held[r] # NoLease => ~available[held[r]]

\* The expiry loop never gives back a lease a request is using, unless the
\* lease was destroyed or the pool stopped: the timer's claim and a request's
\* claim exclude each other.
NoReleaseInUse ==
  \A r \in Requests :
    /\ held[r] # NoLease
    /\ loopPc[held[r]] \in {"remove", "send", "done"}
    => exited[held[r]] \/ poolStopped

\* No lease is lost between its users: while the pool is open, a lease in the
\* map that is not available is owned by a request or about to be removed by
\* its loop.
EveryLeaseHasOwner ==
  \A l \in leaseMap :
    \/ available[l] \/ poolStopped
    \/ loopPc[l] = "remove"
    \/ \E r \in Requests : held[r] = l /\ pc[r] = "holding"

\* The idle list holds each lease at most once, and only leases of the map
\* that no request owns, so DelByID (one element per id) removes all of it.
IdleListSound ==
  /\ \A i, j \in 1..Len(idleLeaseList) :
       i # j => idleLeaseList[i] # idleLeaseList[j]
  /\ \A i \in 1..Len(idleLeaseList) :
       /\ idleLeaseList[i] \in leaseMap
       /\ \A r \in Requests : held[r] # idleLeaseList[i]

\* A begun release is not lost: when the loop of a live lease waits in select
\* with beginRelease set, the timer is running (checkLeaseIdle's unlocked flags
\* race with claim and free).
BegunReleaseIsArmed ==
  \A l \in Leases :
    loopPc[l] = "select" /\ beginRelease[l] /\ ~exited[l] => timer[l]

\* A lease taken from the idle list is alive, still in the map, not already
\* given back to the scheduler and of the request's signature ("If the
\* function signature has changed, the lease is not reused").
ReuseIsSound ==
  [][\A r \in Requests :
       held[r] = NoLease /\ held'[r] # NoLease /\ held'[r] \in issued =>
         LET l == held'[r] IN
           /\ l \in leaseMap /\ ~exited[l]
           /\ loopPc[l] \notin {"send", "done"}
           /\ loopPc[l] = "remove" => poolStopped
           /\ funcSig[l] = reqSig'[r]]_vars

\* Every reusable lease goes back to the scheduler: once the pool is stopped,
\* whatever the lease's loop was doing, and when traffic ceases, by the timer
\* (handleLeaseExpiredLoop, checkLeaseIdle).
LeasesGoBack ==
  /\ \A l \in Leases : (poolStopped /\ loopPc[l] # "none") ~> (loopPc[l] = "done")
  /\ (<>[](\A r \in Requests : pc[r] = "idle")) =>
       \A l \in Leases : (loopPc[l] # "none") ~> (loopPc[l] = "done")

\* The stage a lease has reached, from the flags of the lease and of its loop.
LeaseState(l) ==
  IF l \notin issued THEN "new"
  ELSE IF loopPc[l] = "done" THEN "returned"
  ELSE IF exited[l] THEN "retired"
  ELSE IF available[l] THEN "idle"
  ELSE IF \E r \in Requests : held[r] = l THEN "lent" ELSE "leaving"

Ownership == INSTANCE LeaseOwnership
               WITH state <- [l \in Leases |-> LeaseState(l)], user <- held, open <- ~poolStopped

\* The pool keeps the promises of LeaseOwnership: whatever its loops, timers,
\* refused retentions and stops do, a lease has one user at a time, is not lent
\* again once it was claimed for removal, is returned to the scheduler once and
\* after it was destroyed, and an open pool forgets none (lease_manager.go).
OwnershipKept == Ownership!OwnSpec
=============================================================================
