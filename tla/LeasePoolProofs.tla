-------------------------- MODULE LeasePoolProofs --------------------------
(***************************************************************************)
(* Proofs about LeasePool, for any sets of requests, leases and            *)
(* signatures: its type invariant, that a lease serves one request at a    *)
(* time, that the expiry loop never gives back a lease in use, and that a  *)
(* lease taken from the idle list is alive and of the right signature.     *)
(***************************************************************************)
EXTENDS LeasePool, SequenceTheorems, FiniteSetTheorems, TLAPS

-----------------------------------------------------------------------------
(* What DelByID does to the idle list                                       *)

\* DelByID keeps the list as it is when the lease is not in it, and otherwise
\* takes out one position and shifts the rest (FifoQueue.DelByID).
LEMMA DelByIDShape ==
  ASSUME NEW list \in Seq(Leases), NEW l
  PROVE  /\ DelByID(list, l) \in Seq(Leases)
         /\ \/ /\ DelByID(list, l) = list
               /\ \A i \in 1..Len(list) : list[i] # l
            \/ \E k \in 1..Len(list) :
                 /\ list[k] = l
                 /\ Len(DelByID(list, l)) = Len(list) - 1
                 /\ \A i \in 1..(Len(list) - 1) :
                      DelByID(list, l)[i] = IF i < k THEN list[i] ELSE list[i + 1]
<1>1. CASE ~ \E i \in 1..Len(list) : list[i] = l
  BY <1>1 DEF DelByID
<1>2. CASE \E i \in 1..Len(list) : list[i] = l
  <2> DEFINE k == CHOOSE i \in 1..Len(list) : list[i] = l
             front == SubSeq(list, 1, k - 1)
             back == SubSeq(list, k + 1, Len(list))
             cat == front \o back
  <2>1. k \in 1..Len(list) /\ list[k] = l
    BY <1>2
  <2>2. DelByID(list, l) = cat
    BY <1>2 DEF DelByID
  <2> HIDE DEF k
  <2>3. front \in Seq(Leases) /\ Len(front) = k - 1
        /\ \A i \in 1..(k-1) : front[i] = list[i]
    BY <2>1, SubSeqProperties
  <2>4. back \in Seq(Leases) /\ Len(back) = Len(list) - k
        /\ \A i \in 1..(Len(list) - k) : back[i] = list[k + i]
    BY <2>1, SubSeqProperties
  <2> HIDE DEF front, back
  <2>5. /\ cat \in Seq(Leases)
        /\ Len(cat) = Len(front) + Len(back)
        /\ \A i \in 1..(Len(front) + Len(back)) :
             cat[i] = IF i <= Len(front) THEN front[i] ELSE back[i - Len(front)]
    BY <2>3, <2>4, ConcatProperties
  <2>6. Len(cat) = Len(list) - 1
    BY <2>1, <2>3, <2>4, <2>5
  <2>7. ASSUME NEW i \in 1..(Len(list) - 1)
        PROVE  cat[i] = IF i < k THEN list[i] ELSE list[i + 1]
    <3>1. CASE i < k
      BY <3>1, <2>1, <2>3, <2>4, <2>5
    <3>2. CASE ~(i < k)
      <4>1. i - (k - 1) \in 1..(Len(list) - k) /\ k + (i - (k - 1)) = i + 1
        BY <3>2, <2>1
      <4>2. cat[i] = back[i - (k - 1)]
        BY <3>2, <2>1, <2>3, <2>4, <2>5
      <4> QED BY <4>1, <4>2, <3>2, <2>4
    <3> QED BY <3>1, <3>2
  <2> HIDE DEF cat
  <2> QED BY <2>1, <2>2, <2>5, <2>6, <2>7
<1> QED BY <1>1, <1>2

-----------------------------------------------------------------------------
(* The inductive invariant                                                  *)

\* A request owns a lease from the grant until it gives it back; an owned
\* lease is issued and not available, and is in no map before its insertion.
HeldInv ==
  \A r \in Requests :
    /\ held[r] # NoLease <=> pc[r] \in {"granted", "holding"}
    /\ held[r] # NoLease => held[r] \in issued /\ ~available[held[r]]
    /\ pc[r] = "granted" => /\ held[r] \notin leaseMap
                            /\ loopPc[held[r]] = "none"
                            /\ ~exited[held[r]]
    /\ pc[r] = "holding" => held[r] \in leaseMap \/ exited[held[r]]

\* The map holds issued leases that are not destroyed; only those can be
\* available.
MapInv ==
  /\ \A l \in leaseMap : l \in issued /\ ~exited[l]
  /\ \A l \in Leases : available[l] => l \in leaseMap

\* A loop runs only for a lease that is in the map or destroyed, ends only
\* for a destroyed one, and removes a live lease of an open pool only after
\* claiming it for itself.
LoopInv ==
  \A l \in Leases :
    /\ l \notin issued => loopPc[l] = "none" /\ ~exited[l]
    /\ loopPc[l] # "none" => l \in leaseMap \/ exited[l]
    /\ loopPc[l] \in {"send", "done"} => exited[l]
    /\ loopPc[l] = "remove" =>
         \/ exited[l] \/ poolStopped
         \/ ~available[l] /\ \A r \in Requests : held[r] # l

OneHolder ==
  \A r, q \in Requests : r # q /\ held[r] # NoLease => held[r] # held[q]

Inv == TypeOK /\ InFlightExact /\ HeldInv /\ OneHolder /\ MapInv /\ LoopInv

\* A step that adds one request to InFlight, removes one, or leaves the
\* pcs of interest alone keeps the counter exact.
LEMMA InFlightFinite == IsFiniteSet(InFlight) /\ Cardinality(InFlight) \in Nat
BY RequestsAssumption, FS_Subset, FS_CardinalityType DEF InFlight

LEMMA InFlightEnter ==
  ASSUME TypeOK, InFlightExact, NEW r \in Requests, pc[r] = "idle",
         pc' = [pc EXCEPT ![r] = "calling"], inFlightCount' = inFlightCount + 1
  PROVE  InFlightExact'
<1>1. InFlight' = InFlight \cup {r} /\ r \notin InFlight
  BY DEF TypeOK, InFlight
<1> QED BY <1>1, InFlightFinite, FS_AddElement DEF InFlightExact

LEMMA InFlightLeave ==
  ASSUME TypeOK, InFlightExact, NEW r \in Requests, pc[r] \in {"calling", "granted"},
         NEW p \in {"idle", "holding"}, pc' = [pc EXCEPT ![r] = p],
         inFlightCount' = inFlightCount - 1
  PROVE  InFlightExact' /\ inFlightCount' \in Nat
<1>1. InFlight' = InFlight \ {r} /\ r \in InFlight
  BY DEF TypeOK, InFlight
<1>2. Cardinality(InFlight') = Cardinality(InFlight) - 1 /\ Cardinality(InFlight') \in Nat
  BY <1>1, InFlightFinite, FS_RemoveElement, FS_CardinalityType
<1> QED BY <1>2, InFlightFinite DEF InFlightExact

LEMMA InFlightSame ==
  ASSUME TypeOK, InFlightExact, inFlightCount' = inFlightCount, InFlight' = InFlight
  PROVE  InFlightExact'
BY DEF InFlightExact

LEMMA InitInv == Init => Inv
<1> SUFFICES ASSUME Init PROVE Inv
  OBVIOUS
<1>1. AnySig \in FuncSigs
  BY FuncSigsAssumption DEF AnySig
<1>2. TypeOK
  <2>1. idleLeaseList \in Seq(Leases)
    BY EmptySeq DEF Init
  <2> QED BY <1>1, <2>1 DEF Init, TypeOK, LoopPcs, ReqPcs
<1>3. InFlight = {}
  BY DEF Init, InFlight
<1>4. InFlightExact
  BY <1>3, FS_EmptySet DEF InFlightExact, Init
<1> QED BY <1>2, <1>4 DEF Init, Inv, HeldInv, OneHolder, MapInv, LoopInv

-----------------------------------------------------------------------------
(* Every action preserves the invariant                                     *)

\* The steps of checkLeaseIdle, the wake-up on a stop channel and the release
\* call only move the loop and its timer and flag.
LEMMA LoopMovesInv ==
  ASSUME Inv, NEW l \in Leases,
         \/ Tick(l) \/ CheckAvailable(l) \/ CheckBeginRelease(l) \/ ArmTimer(l)
         \/ Recheck(l) \/ DisarmTimer(l) \/ StopSeen(l) \/ SendRelease(l)
  PROVE  Inv'
<1> USE DEF poolVars, leaseVars, loopVars, reqVars
<1>1. /\ UNCHANGED <<poolVars, reqVars, issued, funcSig, reusable, available, exited>>
      /\ beginRelease' \in [Leases -> BOOLEAN] /\ timer' \in [Leases -> BOOLEAN]
  BY DEF Inv, TypeOK, Tick, CheckAvailable, CheckBeginRelease, ArmTimer, Recheck,
         DisarmTimer, StopSeen, SendRelease
<1>2. PICK q \in LoopPcs \ {"none"} :
        /\ loopPc[l] # "none" /\ loopPc' = [loopPc EXCEPT ![l] = q]
        /\ q = "done" => loopPc[l] = "send"
        /\ q = "remove" => exited[l] \/ poolStopped
        /\ q # "send"
  BY DEF Inv, TypeOK, LoopPcs, Tick, CheckAvailable, CheckBeginRelease, ArmTimer,
         Recheck, DisarmTimer, StopSeen, SendRelease
<1>3. TypeOK'
  BY <1>1, <1>2 DEF Inv, TypeOK
<1>4. InFlightExact'
  BY <1>1 DEF Inv, InFlightExact, InFlight
<1>5. HeldInv' /\ OneHolder' /\ MapInv'
  BY <1>1, <1>2 DEF Inv, TypeOK, HeldInv, OneHolder, MapInv
<1>6. LoopInv'
  BY <1>1, <1>2 DEF Inv, TypeOK, LoopInv
<1> QED BY <1>3, <1>4, <1>5, <1>6 DEF Inv

\* The timer's claim takes an available lease, which no request owns.
LEMMA TimerFiresInv ==
  ASSUME Inv, NEW l \in Leases, TimerFires(l)
  PROVE  Inv'
<1> USE DEF poolVars, leaseVars, loopVars, reqVars
<1>1. TypeOK'
  BY DEF Inv, TypeOK, TimerFires, LoopPcs
<1>2. InFlightExact'
  BY DEF Inv, TimerFires, InFlightExact, InFlight
<1>3. HeldInv' /\ OneHolder' /\ MapInv'
  BY DEF Inv, TypeOK, HeldInv, OneHolder, MapInv, TimerFires
<1>4. available[l] => \A r \in Requests : held[r] # l
  BY NoLeaseAssumption DEF Inv, HeldInv
<1>5. LoopInv'
  BY <1>4 DEF Inv, TypeOK, LoopInv, TimerFires, Claimable
<1> QED BY <1>1, <1>2, <1>3, <1>5 DEF Inv
\* Destroying a lease of the map: removeLease by the expiry loop, the decrease
\* branch of processBatchResponse, the eviction of a one-shot lease.
LEMMA DestroyInv ==
  ASSUME Inv, NEW l \in leaseMap, Destroy(l),
         UNCHANGED <<inFlightCount, poolStopped, issued, funcSig, reusable,
                     beginRelease, timer, reqVars>>,
         \/ loopPc' = loopPc
         \/ loopPc[l] = "remove" /\ loopPc' = [loopPc EXCEPT ![l] = "send"]
  PROVE  Inv'
<1> USE DEF reqVars, Destroy
<1>1. idleLeaseList' \in Seq(Leases)
  BY DelByIDShape DEF Inv, TypeOK
<1>2. TypeOK'
  BY <1>1 DEF Inv, TypeOK, LoopPcs
<1>3. InFlightExact'
  BY DEF Inv, InFlightExact, InFlight
<1>4. HeldInv' /\ OneHolder' /\ MapInv'
  BY DEF Inv, TypeOK, HeldInv, OneHolder, MapInv
<1>5. LoopInv'
  BY DEF Inv, TypeOK, LoopInv, MapInv
<1> QED BY <1>2, <1>3, <1>4, <1>5 DEF Inv

\* removeLease by the loop, whether or not the map still has the lease.
LEMMA RemoveLeaseInv ==
  ASSUME Inv, NEW l \in Leases, RemoveLease(l)
  PROVE  Inv'
<1>1. CASE l \in leaseMap
  BY <1>1, DestroyInv DEF RemoveLease
<1>2. CASE l \notin leaseMap
  <2> USE DEF reqVars
  <2>1. /\ UNCHANGED <<leaseMap, idleLeaseList, available, exited, inFlightCount,
                       poolStopped, issued, funcSig, reusable, beginRelease,
                       timer, pc, held, reqSig>>
        /\ loopPc[l] = "remove" /\ loopPc' = [loopPc EXCEPT ![l] = "send"]
    BY <1>2 DEF RemoveLease
  <2>2. TypeOK' /\ InFlightExact'
    BY <2>1 DEF Inv, TypeOK, LoopPcs, InFlightExact, InFlight
  <2>3. HeldInv' /\ OneHolder' /\ MapInv' /\ LoopInv'
    BY <1>2, <2>1 DEF Inv, TypeOK, HeldInv, OneHolder, MapInv, LoopInv
  <2> QED BY <2>2, <2>3 DEF Inv
<1> QED BY <1>1, <1>2

\* Closing the pool's stopCh only weakens what the loops must respect.
LEMMA StopPoolInv ==
  ASSUME Inv, StopPool
  PROVE  Inv'
BY DEF Inv, TypeOK, InFlightExact, InFlight, HeldInv, OneHolder, MapInv, LoopInv,
       StopPool, leaseVars, loopVars, reqVars

\* Reusing an idle lease: it was available, so nobody owned it.
LEMMA ReuseLeaseInv ==
  ASSUME Inv, NEW r \in Requests, NEW sig \in FuncSigs, ReuseLease(r, sig)
  PROVE  Inv'
<1> USE DEF loopVars
<1>1. PICK i \in 1..Len(idleLeaseList) :
        /\ Traversed(idleLeaseList, sig, i)
        /\ idleLeaseList' = SubSeq(idleLeaseList, i + 1, Len(idleLeaseList))
        /\ available' = [available EXCEPT ![idleLeaseList[i]] = FALSE]
        /\ beginRelease' = [beginRelease EXCEPT ![idleLeaseList[i]] = FALSE]
        /\ held' = [held EXCEPT ![r] = idleLeaseList[i]]
  BY DEF ReuseLease
<1>2. PICK l \in Leases : l = idleLeaseList[i]
  BY <1>1 DEF Inv, TypeOK
<1>3. i \in StopsAt(idleLeaseList, sig) /\ funcSig[l] = sig
  BY <1>1, <1>2 DEF Traversed
<1>4. available[l] /\ l \in leaseMap /\ l \in issued /\ ~exited[l]
  BY <1>2, <1>3 DEF StopsAt, Claimable, Inv, MapInv
<1>5. \A q \in Requests : held[q] # l
  BY <1>4, NoLeaseAssumption DEF Inv, HeldInv
<1>6. idleLeaseList' \in Seq(Leases)
  <2>1. \A j \in (i + 1)..Len(idleLeaseList) : idleLeaseList[j] \in Leases
    BY DEF Inv, TypeOK
  <2>2. Len(idleLeaseList) \in Nat
    BY DEF Inv, TypeOK
  <2> QED BY <1>1, <2>1, <2>2, SubSeqProperties
<1>7. /\ available' = [available EXCEPT ![l] = FALSE]
      /\ beginRelease' = [beginRelease EXCEPT ![l] = FALSE]
      /\ held' = [held EXCEPT ![r] = l]
      /\ pc[r] = "idle" /\ pc' = [pc EXCEPT ![r] = "holding"]
      /\ reqSig' = [reqSig EXCEPT ![r] = sig]
      /\ UNCHANGED <<leaseMap, inFlightCount, poolStopped, issued, funcSig,
                     reusable, exited, loopPc, timer>>
  BY <1>1, <1>2 DEF ReuseLease
<1>8. TypeOK'
  BY <1>6, <1>7 DEF Inv, TypeOK, ReqPcs
<1>9. InFlightExact'
  <2>1. InFlight' = InFlight
    BY <1>7 DEF Inv, TypeOK, InFlight
  <2> QED BY <1>7, <2>1 DEF Inv, InFlightExact
<1>10. HeldInv'
  BY <1>4, <1>5, <1>7, NoLeaseAssumption DEF Inv, TypeOK, HeldInv
<1>11. OneHolder' /\ MapInv'
  BY <1>4, <1>5, <1>7, NoLeaseAssumption DEF Inv, TypeOK, OneHolder, MapInv
<1>12. loopPc[l] = "remove" => poolStopped
  BY <1>4 DEF Inv, LoopInv
<1>13. LoopInv'
  BY <1>4, <1>7, <1>12 DEF Inv, TypeOK, LoopInv
<1> QED BY <1>8, <1>9, <1>10, <1>11, <1>13 DEF Inv
\* Calling the scheduler empties the idle list and counts the request.
LEMMA CallSchedulerInv ==
  ASSUME Inv, NEW r \in Requests, NEW sig \in FuncSigs, CallScheduler(r, sig)
  PROVE  Inv'
<1> USE DEF CallScheduler, leaseVars, loopVars
<1>1. idleLeaseList' \in Seq(Leases)
  BY EmptySeq
<1>2. TypeOK'
  BY <1>1 DEF Inv, TypeOK, ReqPcs
<1>3. InFlightExact'
  BY InFlightEnter DEF Inv
<1>4. HeldInv' /\ OneHolder' /\ MapInv' /\ LoopInv'
  BY DEF Inv, TypeOK, HeldInv, OneHolder, MapInv, LoopInv
<1> QED BY <1>2, <1>3, <1>4 DEF Inv

\* A failed acquisition, and one that got a repeated lease, is uncounted.
LEMMA AcquireFailsInv ==
  ASSUME Inv, NEW r \in Requests, AcquireFails(r) \/ RepeatedLease(r)
  PROVE  Inv'
<1> USE DEF AcquireFails, RepeatedLease, leaseVars, loopVars
<1>1. InFlightExact' /\ inFlightCount' \in Nat
  BY InFlightLeave DEF Inv
<1>2. TypeOK'
  BY <1>1 DEF Inv, TypeOK, ReqPcs
<1>3. HeldInv' /\ OneHolder' /\ MapInv' /\ LoopInv'
  BY DEF Inv, TypeOK, HeldInv, OneHolder, MapInv, LoopInv
<1> QED BY <1>1, <1>2, <1>3 DEF Inv

\* A granted lease is new: no request owns it and no loop runs for it.
LEMMA GrantLeaseInv ==
  ASSUME Inv, NEW r \in Requests, NEW l \in Leases, NEW canReuse \in BOOLEAN,
         GrantLease(r, l, canReuse)
  PROVE  Inv'
<1> USE DEF GrantLease, poolVars, loopVars
<1>1. TypeOK'
  BY DEF Inv, TypeOK, ReqPcs
<1>2. InFlightExact'
  <2>1. InFlight' = InFlight
    BY DEF Inv, TypeOK, InFlight
  <2> QED BY <2>1 DEF Inv, InFlightExact
<1>3. /\ \A q \in Requests : held[q] # l
      /\ l \notin leaseMap /\ ~available[l] /\ loopPc[l] = "none" /\ ~exited[l]
  BY NoLeaseAssumption DEF Inv, HeldInv, MapInv, LoopInv
<1>4. HeldInv' /\ OneHolder'
  BY <1>3, NoLeaseAssumption DEF Inv, TypeOK, HeldInv, OneHolder
<1>5. MapInv' /\ LoopInv'
  BY <1>3 DEF Inv, TypeOK, MapInv, LoopInv
<1> QED BY <1>1, <1>2, <1>4, <1>5 DEF Inv

\* The new lease enters the map and its loop starts.
LEMMA InsertLeaseInv ==
  ASSUME Inv, NEW r \in Requests, InsertLease(r)
  PROVE  Inv'
<1> USE DEF InsertLease, leaseVars, loopVars
<1>1. PICK l \in Leases : /\ l = held[r] /\ l \in issued /\ ~available[l]
                           /\ loopPc[l] = "none" /\ ~exited[l]
  BY DEF Inv, TypeOK, HeldInv
<1>2. InFlightExact' /\ inFlightCount' \in Nat
  BY InFlightLeave DEF Inv
<1>3. TypeOK'
  BY <1>1, <1>2 DEF Inv, TypeOK, ReqPcs, LoopPcs
<1>4. OneHolder' /\ MapInv'
  BY <1>1 DEF Inv, TypeOK, OneHolder, MapInv
<1>5. HeldInv'
  BY <1>1, NoLeaseAssumption DEF Inv, TypeOK, HeldInv, OneHolder
<1>6. LoopInv'
  BY <1>1 DEF Inv, TypeOK, LoopInv
<1> QED BY <1>2, <1>3, <1>4, <1>5, <1>6 DEF Inv

\* Giving a lease back: ignored, put on the idle list, or destroyed.
LEMMA ReleaseLeaseInv ==
  ASSUME Inv, NEW r \in Requests, NEW abnormal \in BOOLEAN, ReleaseLease(r, abnormal)
  PROVE  Inv'
<1> USE DEF loopVars
<1>1. PICK l \in Leases : l = held[r] /\ l \in issued /\ ~available[l]
  BY DEF ReleaseLease, Free, Inv, TypeOK, HeldInv
<1>2. /\ pc[r] = "holding" /\ pc' = [pc EXCEPT ![r] = "idle"]
      /\ held' = [held EXCEPT ![r] = NoLease]
      /\ UNCHANGED <<inFlightCount, poolStopped, issued, funcSig, reusable,
                     beginRelease, loopPc, timer, reqSig>>
  BY DEF ReleaseLease, Free
<1>3. \A q \in Requests : q # r => held[q] # l
  BY <1>1, NoLeaseAssumption DEF Inv, OneHolder
<1>4. InFlightExact'
  <2>1. InFlight' = InFlight
    BY <1>2 DEF Inv, TypeOK, InFlight
  <2> QED BY <1>2, <2>1 DEF Inv, InFlightExact
<1>5. OneHolder'
  BY <1>2 DEF Inv, TypeOK, OneHolder
<1>6. CASE l \notin leaseMap
  <2>1. UNCHANGED <<leaseMap, idleLeaseList, available, exited>>
    BY <1>1, <1>6 DEF ReleaseLease, Free
  <2>2. TypeOK'
    BY <1>2, <2>1 DEF Inv, TypeOK, ReqPcs
  <2>3. HeldInv' /\ MapInv' /\ LoopInv'
    BY <1>2, <2>1, NoLeaseAssumption DEF Inv, TypeOK, HeldInv, MapInv, LoopInv
  <2> QED BY <1>4, <1>5, <2>2, <2>3 DEF Inv
<1>7. CASE l \in leaseMap /\ ~abnormal /\ reusable[l]
  <2>1. /\ available' = [available EXCEPT ![l] = TRUE]
        /\ idleLeaseList' = Append(idleLeaseList, l)
        /\ UNCHANGED <<leaseMap, exited>>
    BY <1>1, <1>7 DEF ReleaseLease, Free
  <2>2. TypeOK'
    BY <1>2, <2>1 DEF Inv, TypeOK, ReqPcs
  <2>3. HeldInv' /\ MapInv'
    BY <1>2, <1>3, <1>7, <2>1, NoLeaseAssumption DEF Inv, TypeOK, HeldInv, MapInv
  <2>4. loopPc[l] = "remove" => exited[l] \/ poolStopped
    BY <1>1 DEF Inv, LoopInv
  <2>5. LoopInv'
    BY <1>2, <1>7, <2>1, <2>4, NoLeaseAssumption DEF Inv, TypeOK, LoopInv
  <2> QED BY <1>4, <1>5, <2>2, <2>3, <2>5 DEF Inv
<1>8. CASE l \in leaseMap /\ ~(~abnormal /\ reusable[l])
  <2>1. Destroy(l)
    BY <1>1, <1>8 DEF ReleaseLease, Free
  <2> USE DEF Destroy
  <2>2. idleLeaseList' \in Seq(Leases)
    BY <2>1, DelByIDShape DEF Inv, TypeOK
  <2>3. TypeOK'
    BY <1>2, <2>1, <2>2 DEF Inv, TypeOK, ReqPcs
  <2>4. HeldInv' /\ MapInv'
    BY <1>2, <1>3, <2>1, NoLeaseAssumption DEF Inv, TypeOK, HeldInv, MapInv
  <2>5. LoopInv'
    BY <1>1, <1>2, <1>8, <2>1, NoLeaseAssumption DEF Inv, TypeOK, LoopInv
  <2> QED BY <1>4, <1>5, <2>3, <2>4, <2>5 DEF Inv
<1> QED BY <1>6, <1>7, <1>8

\* A release that finds the function gone only forgets the lease.
LEMMA ReleaseAfterClearInv ==
  ASSUME Inv, NEW r \in Requests, ReleaseAfterClear(r)
  PROVE  Inv'
<1> USE DEF ReleaseAfterClear, poolVars, leaseVars, loopVars
<1>1. TypeOK'
  BY DEF Inv, TypeOK, ReqPcs
<1>2. InFlightExact'
  <2>1. InFlight' = InFlight
    BY DEF Inv, TypeOK, InFlight
  <2> QED BY <2>1 DEF Inv, InFlightExact
<1>3. HeldInv' /\ OneHolder' /\ MapInv' /\ LoopInv'
  BY NoLeaseAssumption DEF Inv, TypeOK, HeldInv, OneHolder, MapInv, LoopInv
<1> QED BY <1>1, <1>2, <1>3 DEF Inv

\* Every step of the specification preserves the invariant.
LEMMA NextInv ==
  ASSUME Inv, [Next]_vars
  PROVE  Inv'
<1>1. ASSUME NEW r \in Requests, RequestStep(r) PROVE Inv'
  BY <1>1, ReuseLeaseInv, CallSchedulerInv, AcquireFailsInv, GrantLeaseInv,
     InsertLeaseInv, ReleaseLeaseInv, ReleaseAfterClearInv DEF RequestStep
<1>2. ASSUME NEW l \in Leases, LoopStep(l) PROVE Inv'
  BY <1>2, LoopMovesInv, TimerFiresInv, RemoveLeaseInv DEF LoopStep
<1>3. ASSUME NEW l \in Leases, DecreaseLease(l) \/ EvictLease(l) PROVE Inv'
  BY <1>3, DestroyInv DEF DecreaseLease, EvictLease, loopVars
<1>4. CASE UNCHANGED vars
  BY <1>4 DEF vars, poolVars, leaseVars, loopVars, reqVars, Inv, TypeOK,
     InFlightExact, InFlight, HeldInv, OneHolder, MapInv, LoopInv
<1> QED BY <1>1, <1>2, <1>3, <1>4, StopPoolInv DEF Next

\* The inductive invariant holds in every reachable state.
THEOREM Invariance == Spec => []Inv
<1>1. Init => Inv
  BY InitInv
<1>2. Inv /\ [Next]_vars => Inv'
  BY NextInv
<1> QED BY <1>1, <1>2, PTL DEF Spec
-----------------------------------------------------------------------------
(* The properties                                                           *)

\* Every variable keeps its type in every reachable state.
THEOREM TypeCorrect == Spec => []TypeOK
<1>1. Inv => TypeOK
  BY DEF Inv
<1> QED BY <1>1, Invariance, PTL

\* inFlightCount is exact on every path through acquireInstanceLease.
THEOREM InFlightCorrect == Spec => []InFlightExact
<1>1. Inv => InFlightExact
  BY DEF Inv
<1> QED BY <1>1, Invariance, PTL

\* A lease serves one request at a time (claim and free).
THEOREM MutualExclusionCorrect == Spec => []MutualExclusion
<1>1. Inv => MutualExclusion
  BY DEF Inv, OneHolder, HeldInv, MutualExclusion
<1> QED BY <1>1, Invariance, PTL

\* handleLeaseExpiredLoop never gives back a live lease a request is using.
THEOREM NoReleaseInUseCorrect == Spec => []NoReleaseInUse
<1>1. Inv => NoReleaseInUse
  BY DEF Inv, TypeOK, LoopInv, NoReleaseInUse
<1> QED BY <1>1, Invariance, PTL

\* A lease taken from the idle list is alive, in the map, not given back and
\* of the request's signature (traverseIdleLeaseList).
THEOREM ReuseCorrect == Spec => ReuseIsSound
<1> DEFINE Sound ==
      \A r \in Requests :
        held[r] = NoLease /\ held'[r] # NoLease /\ held'[r] \in issued =>
          LET l == held'[r] IN
            /\ l \in leaseMap /\ ~exited[l]
            /\ loopPc[l] \notin {"send", "done"}
            /\ loopPc[l] = "remove" => poolStopped
            /\ funcSig[l] = reqSig'[r]
<1>1. Inv /\ [Next]_vars => [Sound]_vars
  <2> SUFFICES ASSUME Inv, Next, NEW r \in Requests,
                      held[r] = NoLease, held'[r] # NoLease, held'[r] \in issued,
                      NEW l, l = held'[r]
               PROVE  /\ l \in leaseMap /\ ~exited[l]
                      /\ loopPc[l] \notin {"send", "done"}
                      /\ loopPc[l] = "remove" => poolStopped
                      /\ funcSig[l] = reqSig'[r]
    OBVIOUS
  <2>1. PICK sig \in FuncSigs : ReuseLease(r, sig)
    <3>1. ASSUME NEW q \in Requests, RequestStep(q), q # r PROVE FALSE
      BY <3>1 DEF RequestStep, ReuseLease, CallScheduler, AcquireFails,
         GrantLease, InsertLease, RepeatedLease, ReleaseLease, Free, ReleaseAfterClear,
         reqVars, Inv, TypeOK
    <3>2. ASSUME NEW k \in Leases, LoopStep(k) \/ DecreaseLease(k) \/ EvictLease(k)
          PROVE  FALSE
      BY <3>2 DEF LoopStep, Tick, CheckAvailable, CheckBeginRelease, ArmTimer,
         Recheck, DisarmTimer, TimerFires, StopSeen, RemoveLease, SendRelease,
         DecreaseLease, EvictLease, reqVars
    <3>3. ~StopPool
      BY DEF StopPool, reqVars
    <3>4. RequestStep(r)
      BY <3>1, <3>2, <3>3 DEF Next
    <3>5. \A k \in Leases, canReuse \in BOOLEAN : ~GrantLease(r, k, canReuse)
      BY DEF GrantLease, Inv, TypeOK
    <3> QED BY <3>4, <3>5 DEF RequestStep, CallScheduler, AcquireFails, InsertLease,
         RepeatedLease, ReleaseLease, Free, ReleaseAfterClear, Inv, TypeOK
  <2>2. PICK i \in 1..Len(idleLeaseList) :
          Traversed(idleLeaseList, sig, i) /\ held' = [held EXCEPT ![r] = idleLeaseList[i]]
    BY <2>1 DEF ReuseLease
  <2>3. l = idleLeaseList[i] /\ l \in Leases /\ reqSig'[r] = sig
    BY <2>1, <2>2 DEF ReuseLease, Inv, TypeOK
  <2>4. available[l] /\ funcSig[l] = sig
    BY <2>2, <2>3 DEF Traversed, StopsAt, Claimable
  <2>5. l \in leaseMap /\ ~exited[l]
    BY <2>3, <2>4 DEF Inv, MapInv
  <2>6. loopPc[l] \notin {"send", "done"} /\ (loopPc[l] = "remove" => poolStopped)
    BY <2>3, <2>4, <2>5 DEF Inv, LoopInv
  <2> QED BY <2>3, <2>4, <2>5, <2>6
<1>2. Spec => [][Sound]_vars
  BY <1>1, Invariance, PTL DEF Spec
<1> QED BY <1>2 DEF ReuseIsSound
-----------------------------------------------------------------------------
(* No lease is lost: the idle list, the owners and the timers               *)

\* What DelByID leaves of a list without repetitions are its other elements.
LEMMA DelByIDKeepsOthers ==
  ASSUME NEW list \in Seq(Leases), NEW l,
         \A i, j \in 1..Len(list) : i # j => list[i] # list[j]
  PROVE  LET d == DelByID(list, l) IN
           /\ \A i, j \in 1..Len(d) : i # j => d[i] # d[j]
           /\ \A i \in 1..Len(d) : d[i] # l /\ \E j \in 1..Len(list) : d[i] = list[j]
<1> DEFINE d == DelByID(list, l)
<1>1. CASE d = list /\ \A i \in 1..Len(list) : list[i] # l
  BY <1>1
<1>2. ASSUME NEW k \in 1..Len(list), list[k] = l, Len(d) = Len(list) - 1,
             \A i \in 1..(Len(list) - 1) : d[i] = IF i < k THEN list[i] ELSE list[i + 1]
      PROVE  /\ \A i, j \in 1..Len(d) : i # j => d[i] # d[j]
             /\ \A i \in 1..Len(d) : d[i] # l /\ \E j \in 1..Len(list) : d[i] = list[j]
  <2> HIDE DEF d
  <2> DEFINE at(i) == IF i < k THEN i ELSE i + 1
  <2>1. \A i \in 1..Len(d) : at(i) \in 1..Len(list) /\ at(i) # k /\ d[i] = list[at(i)]
    BY <1>2
  <2>2. \A i, j \in 1..Len(d) : i # j => at(i) # at(j)
    BY <1>2
  <2>3. ASSUME NEW i \in 1..Len(d), NEW j \in 1..Len(d), i # j PROVE d[i] # d[j]
    BY <2>1, <2>2, <2>3
  <2>4. ASSUME NEW i \in 1..Len(d) PROVE d[i] # l /\ \E j \in 1..Len(list) : d[i] = list[j]
    BY <1>2, <2>1
  <2> QED BY <2>3, <2>4
<1> QED BY <1>1, <1>2, DelByIDShape

\* Destroy keeps the idle list sound.
LEMMA DestroyList ==
  ASSUME Inv, IdleListSound, NEW l \in Leases, Destroy(l),
         \A r \in Requests : held'[r] \in {held[r], NoLease}
  PROVE  IdleListSound'
<1> DEFINE d == DelByID(idleLeaseList, l)
<1>1. idleLeaseList' = d /\ leaseMap' = leaseMap \ {l}
  BY DEF Destroy
<1>2. /\ \A i, j \in 1..Len(d) : i # j => d[i] # d[j]
      /\ \A i \in 1..Len(d) : d[i] # l /\ \E j \in 1..Len(idleLeaseList) : d[i] = idleLeaseList[j]
  BY DelByIDKeepsOthers DEF Inv, TypeOK, IdleListSound
<1> HIDE DEF d
<1>3. ASSUME NEW i \in 1..Len(d)
      PROVE  d[i] \in leaseMap \ {l} /\ \A r \in Requests : held'[r] # d[i]
  BY <1>2, NoLeaseAssumption DEF IdleListSound, Inv, TypeOK
<1> QED BY <1>1, <1>2, <1>3 DEF IdleListSound

\* A request takes a lease out of the idle list together with those before it.
LEMMA ReuseList ==
  ASSUME Inv, IdleListSound, NEW r \in Requests, NEW sig \in FuncSigs, ReuseLease(r, sig)
  PROVE  IdleListSound'
<1>1. PICK k \in 1..Len(idleLeaseList) :
        /\ idleLeaseList' = SubSeq(idleLeaseList, k + 1, Len(idleLeaseList))
        /\ held' = [held EXCEPT ![r] = idleLeaseList[k]]
  BY DEF ReuseLease
<1>2. Len(idleLeaseList) \in Nat /\ \A j \in (k + 1)..Len(idleLeaseList) : idleLeaseList[j] \in Leases
  BY DEF Inv, TypeOK
<1>3. /\ Len(idleLeaseList') = Len(idleLeaseList) - k
      /\ \A i \in 1..(Len(idleLeaseList) - k) : idleLeaseList'[i] = idleLeaseList[k + i]
  BY <1>1, <1>2, SubSeqProperties
<1>4. \A i \in 1..(Len(idleLeaseList) - k) : k + i \in 1..Len(idleLeaseList) /\ k + i # k
  BY <1>2
<1>5. leaseMap' = leaseMap
  BY DEF ReuseLease
<1>6. \A i, j \in 1..Len(idleLeaseList') : i # j => idleLeaseList'[i] # idleLeaseList'[j]
  BY <1>2, <1>3, <1>4 DEF IdleListSound
<1>7. ASSUME NEW i \in 1..Len(idleLeaseList')
      PROVE  idleLeaseList'[i] \in leaseMap /\ \A q \in Requests : held'[q] # idleLeaseList'[i]
  <2>1. PICK j \in 1..Len(idleLeaseList) : j # k /\ idleLeaseList'[i] = idleLeaseList[j]
    BY <1>3, <1>4
  <2> QED BY <1>1, <2>1 DEF IdleListSound, Inv, TypeOK
<1> QED BY <1>5, <1>6, <1>7 DEF IdleListSound

\* A released lease is put behind the idle list, in which it was not.
LEMMA AppendList ==
  ASSUME Inv, IdleListSound, NEW r \in Requests, NEW l \in leaseMap, l = held[r], l # NoLease,
         idleLeaseList' = Append(idleLeaseList, l), leaseMap' = leaseMap,
         held' = [held EXCEPT ![r] = NoLease]
  PROVE  IdleListSound'
<1> DEFINE n == Len(idleLeaseList)
<1>1. n \in Nat /\ Len(idleLeaseList') = n + 1
  BY DEF Inv, TypeOK
<1>2. \A i \in 1..(n + 1) : idleLeaseList'[i] = IF i = n + 1 THEN l ELSE idleLeaseList[i]
  BY DEF Inv, TypeOK
<1>3. \A i \in 1..n : idleLeaseList[i] # l
  BY DEF IdleListSound
<1>4. \A i \in 1..(n + 1) : i = n + 1 \/ i \in 1..n
  BY <1>1
<1>5. \A q \in Requests : held'[q] # l /\ held'[q] \in {held[q], NoLease}
  BY DEF Inv, TypeOK, OneHolder
<1>6. \A i, j \in 1..(n + 1) : i # j => idleLeaseList'[i] # idleLeaseList'[j]
  BY <1>2, <1>3, <1>4 DEF IdleListSound
<1>7. \A i \in 1..n : idleLeaseList[i] \in leaseMap /\ \A q \in Requests : held'[q] # idleLeaseList[i]
  BY <1>5, NoLeaseAssumption DEF IdleListSound, Inv, TypeOK
<1> HIDE DEF n
<1>8. \A i \in 1..(n + 1) : idleLeaseList'[i] \in leaseMap
                             /\ \A q \in Requests : held'[q] # idleLeaseList'[i]
  BY <1>2, <1>4, <1>5, <1>7
<1> QED BY <1>1, <1>6, <1>8 DEF IdleListSound

\* Every step keeps the idle list sound.
LEMMA NextList ==
  ASSUME Inv, IdleListSound, [Next]_vars
  PROVE  IdleListSound'
<1>1. ASSUME NEW r \in Requests, RequestStep(r) PROVE IdleListSound'
  <2>1. ASSUME NEW sig \in FuncSigs, CallScheduler(r, sig) PROVE IdleListSound'
    BY <2>1, EmptySeq DEF CallScheduler, IdleListSound
  <2>2. CASE AcquireFails(r) \/ RepeatedLease(r) \/ ReleaseAfterClear(r)
    BY <2>2, NoLeaseAssumption DEF AcquireFails, RepeatedLease, ReleaseAfterClear, poolVars, IdleListSound,
       Inv, TypeOK
  <2>3. CASE InsertLease(r)
    BY <2>3 DEF InsertLease, IdleListSound
  <2>4. ASSUME NEW l \in Leases, NEW canReuse \in BOOLEAN, GrantLease(r, l, canReuse)
        PROVE  IdleListSound'
    BY <2>4 DEF GrantLease, poolVars, IdleListSound, Inv, TypeOK, MapInv
  <2>5. ASSUME NEW abnormal \in BOOLEAN, ReleaseLease(r, abnormal) PROVE IdleListSound'
    <3>1. held[r] \in Leases /\ held[r] # NoLease /\ held' = [held EXCEPT ![r] = NoLease]
      BY <2>5 DEF ReleaseLease, Inv, TypeOK, HeldInv
    <3>2. CASE held[r] \notin leaseMap
      BY <2>5, <3>1, <3>2, NoLeaseAssumption DEF ReleaseLease, IdleListSound, Inv, TypeOK
    <3>3. CASE held[r] \in leaseMap /\ ~abnormal /\ reusable[held[r]]
      BY <2>5, <3>1, <3>3, AppendList DEF ReleaseLease
    <3>4. CASE held[r] \in leaseMap /\ ~(~abnormal /\ reusable[held[r]])
      <4>1. \A q \in Requests : held'[q] \in {held[q], NoLease}
        BY <3>1 DEF Inv, TypeOK
      <4> QED BY <2>5, <3>1, <3>4, <4>1, DestroyList DEF ReleaseLease
    <3> QED BY <3>2, <3>3, <3>4
  <2> QED BY <1>1, <2>1, <2>2, <2>3, <2>4, <2>5, ReuseList DEF RequestStep
<1>2. ASSUME NEW l \in Leases, LoopStep(l) \/ DecreaseLease(l) \/ EvictLease(l) PROVE IdleListSound'
  <2>1. UNCHANGED held
    BY <1>2 DEF LoopStep, Tick, CheckAvailable, CheckBeginRelease, ArmTimer, Recheck, DisarmTimer,
       TimerFires, StopSeen, RemoveLease, SendRelease, DecreaseLease, EvictLease, reqVars
  <2>2. CASE Destroy(l)
    BY <2>1, <2>2, DestroyList
  <2>3. CASE UNCHANGED <<leaseMap, idleLeaseList>>
    BY <2>1, <2>3 DEF IdleListSound
  <2> QED BY <1>2, <2>2, <2>3 DEF LoopStep, Tick, CheckAvailable, CheckBeginRelease, ArmTimer, Recheck,
       DisarmTimer, TimerFires, StopSeen, RemoveLease, SendRelease, DecreaseLease, EvictLease, poolVars
<1>3. CASE StopPool \/ UNCHANGED vars
  BY <1>3 DEF StopPool, vars, poolVars, reqVars, IdleListSound
<1> QED BY <1>1, <1>2, <1>3 DEF Next

\* The idle list has no repetitions and holds leases of the map that nobody owns.
THEOREM IdleListCorrect == Spec => []IdleListSound
<1>1. Init => IdleListSound
  BY EmptySeq DEF Init, IdleListSound
<1> QED BY <1>1, NextList, Invariance, PTL DEF Spec

\* A lease that stops being available goes to the request or to the loop that
\* claimed it.
LEMMA NextOwner ==
  ASSUME Inv, EveryLeaseHasOwner, [Next]_vars
  PROVE  EveryLeaseHasOwner'
<1> USE DEF EveryLeaseHasOwner
<1>1. ASSUME NEW r \in Requests, RequestStep(r) PROVE EveryLeaseHasOwner'
  <2>1. ASSUME NEW sig \in FuncSigs, ReuseLease(r, sig) PROVE EveryLeaseHasOwner'
    <3>1. PICK i \in 1..Len(idleLeaseList) :
            /\ available' = [available EXCEPT ![idleLeaseList[i]] = FALSE]
            /\ held' = [held EXCEPT ![r] = idleLeaseList[i]]
      BY <2>1 DEF ReuseLease
    <3>2. idleLeaseList[i] \in Leases /\ held[r] = NoLease
      BY <2>1 DEF ReuseLease, Inv, TypeOK, HeldInv
    <3>3. /\ pc[r] = "idle" /\ pc' = [pc EXCEPT ![r] = "holding"]
          /\ UNCHANGED <<leaseMap, poolStopped, loopPc>>
      BY <2>1 DEF ReuseLease, loopVars
    <3>4. ASSUME NEW k \in leaseMap, NEW q \in Requests, held[q] = k, pc[q] = "holding"
          PROVE  held'[q] = k /\ pc'[q] = "holding"
      BY <3>1, <3>2, <3>3, <3>4, NoLeaseAssumption DEF Inv, TypeOK
    <3>5. held'[r] = idleLeaseList[i] /\ pc'[r] = "holding"
      BY <3>1, <3>3 DEF Inv, TypeOK
    <3>6. \A k \in leaseMap : k # idleLeaseList[i] => available'[k] = available[k]
      BY <3>1 DEF Inv, TypeOK
    <3> QED BY <3>3, <3>4, <3>5, <3>6
  <2>2. ASSUME NEW sig \in FuncSigs, CallScheduler(r, sig) PROVE EveryLeaseHasOwner'
    BY <2>2 DEF CallScheduler, leaseVars, loopVars, Inv, TypeOK
  <2>3. CASE AcquireFails(r) \/ RepeatedLease(r)
    BY <2>3 DEF AcquireFails, RepeatedLease, leaseVars, loopVars, Inv, TypeOK
  <2>4. ASSUME NEW l \in Leases, NEW canReuse \in BOOLEAN, GrantLease(r, l, canReuse)
        PROVE  EveryLeaseHasOwner'
    BY <2>4, NoLeaseAssumption DEF GrantLease, poolVars, loopVars, Inv, TypeOK, HeldInv
  <2>5. CASE InsertLease(r)
    <3>1. held[r] \in Leases /\ loopPc[held[r]] = "none"
      BY <2>5 DEF InsertLease, Inv, TypeOK, HeldInv
    <3>2. pc'[r] = "holding" /\ \A q \in Requests : pc[q] = "holding" => pc'[q] = "holding"
      BY <2>5 DEF InsertLease, Inv, TypeOK
    <3>3. \A k \in Leases : loopPc[k] = "remove" => loopPc'[k] = "remove"
      BY <2>5, <3>1 DEF InsertLease, loopVars, Inv, TypeOK
    <3>4. UNCHANGED <<held, available, poolStopped>> /\ leaseMap' = leaseMap \cup {held[r]}
      BY <2>5 DEF InsertLease, leaseVars
    <3>5. leaseMap \subseteq Leases
      BY DEF Inv, TypeOK
    <3> QED BY <3>1, <3>2, <3>3, <3>4, <3>5
  <2>6. ASSUME NEW abnormal \in BOOLEAN, ReleaseLease(r, abnormal) PROVE EveryLeaseHasOwner'
    <3>1. \A k \in leaseMap' : k \in leaseMap /\ (k = held[r] => available'[k])
      BY <2>6 DEF ReleaseLease, Free, Destroy, Inv, TypeOK
    <3>2. \A k \in leaseMap : k # held[r] => available'[k] = available[k]
      BY <2>6 DEF ReleaseLease, Free, Destroy, Inv, TypeOK
    <3>3. \A q \in Requests : q # r => held'[q] = held[q] /\ pc'[q] = pc[q]
      BY <2>6 DEF ReleaseLease, Inv, TypeOK
    <3>4. UNCHANGED <<loopPc, poolStopped>>
      BY <2>6 DEF ReleaseLease, loopVars
    <3> QED BY <3>1, <3>2, <3>3, <3>4
  <2>7. CASE ReleaseAfterClear(r)
    BY <2>7 DEF ReleaseAfterClear, poolVars
  <2> QED BY <1>1, <2>1, <2>2, <2>3, <2>4, <2>5, <2>6, <2>7 DEF RequestStep
<1>2. ASSUME NEW l \in Leases, LoopStep(l) \/ DecreaseLease(l) \/ EvictLease(l)
      PROVE  EveryLeaseHasOwner'
  <2>1. UNCHANGED <<held, pc, poolStopped>>
    BY <1>2 DEF LoopStep, Tick, CheckAvailable, CheckBeginRelease, ArmTimer, Recheck, DisarmTimer,
       TimerFires, StopSeen, RemoveLease, SendRelease, DecreaseLease, EvictLease, reqVars, poolVars
  <2>2. CASE Destroy(l)
    <3>1. leaseMap' = leaseMap \ {l} /\ \A k \in leaseMap : k # l => available'[k] = available[k]
      BY <2>2 DEF Destroy, Inv, TypeOK
    <3>2. \A k \in Leases : k # l => loopPc'[k] = loopPc[k]
      BY <1>2 DEF LoopStep, Tick, CheckAvailable, CheckBeginRelease, ArmTimer, Recheck, DisarmTimer,
         TimerFires, StopSeen, RemoveLease, SendRelease, DecreaseLease, EvictLease, loopVars, Inv, TypeOK
    <3>3. leaseMap \subseteq Leases
      BY DEF Inv, TypeOK
    <3> QED BY <2>1, <3>1, <3>2, <3>3
  <2>3. CASE TimerFires(l)
    BY <2>1, <2>3 DEF TimerFires, Claimable, poolVars, Inv, TypeOK
  <2>4. CASE RemoveLease(l) /\ l \notin leaseMap
    BY <2>1, <2>4 DEF RemoveLease, Inv, TypeOK
  <2>5. CASE \/ Tick(l) \/ CheckAvailable(l) \/ CheckBeginRelease(l) \/ ArmTimer(l)
             \/ Recheck(l) \/ DisarmTimer(l) \/ StopSeen(l) \/ SendRelease(l)
    <3>1. UNCHANGED <<leaseMap, available>> /\ \A k \in Leases : loopPc[k] = "remove" => loopPc'[k] = "remove"
      BY <2>5 DEF Tick, CheckAvailable, CheckBeginRelease, ArmTimer, Recheck, DisarmTimer, StopSeen,
         SendRelease, poolVars, leaseVars, Inv, TypeOK
    <3>2. leaseMap \subseteq Leases
      BY DEF Inv, TypeOK
    <3> QED BY <2>1, <3>1, <3>2
  <2> QED BY <1>2, <2>2, <2>3, <2>4, <2>5 DEF LoopStep, RemoveLease, DecreaseLease, EvictLease
<1>3. CASE StopPool
  BY <1>3 DEF StopPool
<1>4. CASE UNCHANGED vars
  BY <1>4 DEF vars, poolVars, leaseVars, loopVars, reqVars
<1> QED BY <1>1, <1>2, <1>3, <1>4 DEF Next

\* While the pool is open, no lease of the map is out of everybody's hands.
THEOREM OwnerCorrect == Spec => []EveryLeaseHasOwner
<1>1. Init => EveryLeaseHasOwner
  BY DEF Init, EveryLeaseHasOwner
<1> QED BY <1>1, NextOwner, Invariance, PTL DEF Spec

\* A release that has begun has its timer running, and was begun for a lease
\* that is available or about to be looked at again.
TimerInv ==
  \A l \in Leases : ~exited[l] /\ beginRelease[l] =>
    timer[l] /\ (available[l] \/ loopPc[l] \in {"recheck", "disarm"})

\* A step of a request claims or frees a lease, and a claim ends the release.
LEMMA RequestTimer ==
  ASSUME Inv, TimerInv, NEW r \in Requests, RequestStep(r)
  PROVE  TimerInv'
<1> USE DEF TimerInv
<1>1. ASSUME NEW sig \in FuncSigs, ReuseLease(r, sig) PROVE TimerInv'
  <2>1. PICK i \in 1..Len(idleLeaseList) :
          /\ available' = [available EXCEPT ![idleLeaseList[i]] = FALSE]
          /\ beginRelease' = [beginRelease EXCEPT ![idleLeaseList[i]] = FALSE]
    BY <1>1 DEF ReuseLease
  <2>2. UNCHANGED <<exited, timer, loopPc>>
    BY <1>1 DEF ReuseLease, loopVars
  <2> QED BY <2>1, <2>2 DEF Inv, TypeOK
<1>2. ASSUME \/ \E sig \in FuncSigs : CallScheduler(r, sig)
             \/ AcquireFails(r) \/ RepeatedLease(r) \/ ReleaseAfterClear(r)
             \/ \E l \in Leases, canReuse \in BOOLEAN : GrantLease(r, l, canReuse)
      PROVE  TimerInv'
  BY <1>2 DEF CallScheduler, AcquireFails, RepeatedLease, ReleaseAfterClear, GrantLease, leaseVars, loopVars
<1>3. CASE InsertLease(r)
  <2>1. held[r] \in Leases /\ loopPc[held[r]] = "none" /\ ~available[held[r]]
    BY <1>3 DEF InsertLease, Inv, TypeOK, HeldInv
  <2>2. UNCHANGED <<exited, beginRelease, available>>
        /\ \A l \in Leases : (timer[l] => timer'[l]) /\ (loopPc[l] # "none" => loopPc'[l] = loopPc[l])
    BY <1>3, <2>1 DEF InsertLease, leaseVars, loopVars, Inv, TypeOK
  <2> QED BY <2>1, <2>2
<1>4. ASSUME NEW abnormal \in BOOLEAN, ReleaseLease(r, abnormal) PROVE TimerInv'
  <2>1. UNCHANGED <<beginRelease, timer, loopPc>>
    BY <1>4 DEF ReleaseLease, loopVars
  <2>2. \A l \in Leases : (exited[l] => exited'[l]) /\ (available[l] => available'[l] \/ exited'[l])
    BY <1>4 DEF ReleaseLease, Free, Destroy, Inv, TypeOK
  <2> QED BY <2>1, <2>2 DEF Inv, TypeOK
<1> QED BY <1>1, <1>2, <1>3, <1>4 DEF RequestStep

\* checkLeaseIdle begins a release and arms the timer in one step, and ends both
\* when it finds the lease claimed meanwhile; a timer that fires ends the release.
LEMMA LoopTimer ==
  ASSUME Inv, TimerInv, NEW l \in Leases, LoopStep(l) \/ DecreaseLease(l) \/ EvictLease(l)
  PROVE  TimerInv'
<1> USE DEF TimerInv
<1>1. CASE Tick(l) \/ CheckAvailable(l) \/ CheckBeginRelease(l) \/ StopSeen(l) \/ SendRelease(l)
  BY <1>1 DEF Tick, CheckAvailable, CheckBeginRelease, StopSeen, SendRelease, leaseVars, Inv, TypeOK
<1>2. CASE ArmTimer(l) \/ DisarmTimer(l)
  BY <1>2 DEF ArmTimer, DisarmTimer, Inv, TypeOK
<1>3. CASE Recheck(l)
  BY <1>3 DEF Recheck, leaseVars, Inv, TypeOK
<1>4. CASE TimerFires(l)
  BY <1>4 DEF TimerFires, Claimable, Inv, TypeOK
<1>5. CASE Destroy(l) /\ UNCHANGED <<beginRelease, timer>>
           /\ \A k \in Leases : k # l => loopPc'[k] = loopPc[k]
  BY <1>5 DEF Destroy, Inv, TypeOK
<1>6. CASE RemoveLease(l) /\ l \notin leaseMap
  BY <1>6 DEF RemoveLease, Inv, TypeOK
<1>7. \A k \in Leases : k # l => loopPc'[k] = loopPc[k] \/ ~(RemoveLease(l) \/ DecreaseLease(l) \/ EvictLease(l))
  BY DEF RemoveLease, DecreaseLease, EvictLease, loopVars, Inv, TypeOK
<1> QED BY <1>1, <1>2, <1>3, <1>4, <1>5, <1>6, <1>7
     DEF LoopStep, RemoveLease, DecreaseLease, EvictLease, loopVars

\* A loop that waits with a begun release of a live lease has its timer running.
THEOREM BegunReleaseCorrect == Spec => []BegunReleaseIsArmed
<1>1. Init => TimerInv
  BY DEF Init, TimerInv
<1>2. Inv /\ TimerInv /\ [Next]_vars => TimerInv'
  <2> SUFFICES ASSUME Inv, TimerInv, [Next]_vars PROVE TimerInv'
    OBVIOUS
  <2>1. CASE StopPool \/ UNCHANGED vars
    BY <2>1 DEF StopPool, vars, leaseVars, loopVars, TimerInv
  <2> QED BY <2>1, RequestTimer, LoopTimer DEF Next
<1>3. TimerInv => BegunReleaseIsArmed
  BY DEF TimerInv, BegunReleaseIsArmed
<1> QED BY <1>1, <1>2, <1>3, Invariance, PTL DEF Spec

-----------------------------------------------------------------------------
(* The pool implements LeaseOwnership                                       *)

States == [l \in Leases |-> LeaseState(l)]

\* A step that leaves the flags of all leases but one alone changes one stage.
LEMMA OneStateChanges ==
  ASSUME NEW l \in Leases, NEW s, LeaseState(l)' = s,
         \A k \in Leases : k # l => LeaseState(k)' = LeaseState(k)
  PROVE  States' = [States EXCEPT ![l] = s]
<1>1. /\ States' = [k \in Leases |-> LeaseState(k)']
      /\ [States EXCEPT ![l] = s] = [k \in Leases |-> IF k = l THEN s ELSE LeaseState(k)]
  BY DEF States
<1>2. \A k \in Leases : LeaseState(k)' = IF k = l THEN s ELSE LeaseState(k)
  OBVIOUS
<1> QED BY <1>1, <1>2

\* A step that changes the stage of no lease, no owner and not the stop of the
\* pool is no step of the abstract specification.
LEMMA StutterStep ==
  ASSUME \A k \in Leases : LeaseState(k)' = LeaseState(k), UNCHANGED <<held, poolStopped>>
  PROVE  UNCHANGED Ownership!ownVars
<1>1. States' = States
  BY DEF States
<1> QED BY <1>1 DEF Ownership!ownVars, States

\* The moves of a loop that neither claim, remove nor send are invisible.
LEMMA LoopMovesRefine ==
  ASSUME Inv, NEW l \in Leases,
         \/ Tick(l) \/ CheckAvailable(l) \/ CheckBeginRelease(l) \/ ArmTimer(l)
         \/ Recheck(l) \/ DisarmTimer(l) \/ StopSeen(l)
  PROVE  UNCHANGED Ownership!ownVars
<1> USE DEF poolVars, leaseVars, loopVars, reqVars
<1>1. UNCHANGED <<issued, exited, available, held, poolStopped>>
  BY DEF Tick, CheckAvailable, CheckBeginRelease, ArmTimer, Recheck, DisarmTimer, StopSeen
<1>2. \A k \in Leases : loopPc'[k] = "done" <=> loopPc[k] = "done"
  BY DEF Inv, TypeOK, Tick, CheckAvailable, CheckBeginRelease, ArmTimer, Recheck,
         DisarmTimer, StopSeen
<1>3. \A k \in Leases : LeaseState(k)' = LeaseState(k)
  BY <1>1, <1>2 DEF LeaseState
<1> QED BY <1>1, <1>3, StutterStep

\* The release call tells the scheduler of a lease that was destroyed.
LEMMA SendReleaseRefines ==
  ASSUME Inv, NEW l \in Leases, SendRelease(l)
  PROVE  Ownership!Return(l)
<1> USE DEF poolVars, leaseVars, loopVars, reqVars
<1>1. /\ loopPc[l] = "send" /\ loopPc' = [loopPc EXCEPT ![l] = "done"]
      /\ UNCHANGED <<issued, exited, available, held, poolStopped>>
  BY DEF SendRelease
<1>2. l \in issued /\ exited[l]
  BY <1>1 DEF Inv, LoopInv
<1>3. LeaseState(l) = "retired" /\ LeaseState(l)' = "returned"
  BY <1>1, <1>2 DEF LeaseState, Inv, TypeOK
<1>4. \A k \in Leases : k # l => LeaseState(k)' = LeaseState(k)
  BY <1>1 DEF LeaseState, Inv, TypeOK
<1>5. States' = [States EXCEPT ![l] = "returned"]
  BY <1>3, <1>4, OneStateChanges
<1> QED BY <1>1, <1>3, <1>5 DEF Ownership!Return, States

\* The timer withdraws an idle lease, or finds it in use and does nothing.
LEMMA TimerFiresRefines ==
  ASSUME Inv, NEW l \in Leases, TimerFires(l)
  PROVE  Ownership!Withdraw(l) \/ UNCHANGED Ownership!ownVars
<1> USE DEF poolVars, leaseVars, loopVars, reqVars
<1>1. UNCHANGED <<issued, exited, held, poolStopped>>
  BY DEF TimerFires
<1>2. CASE available[l]
  <2>1. /\ loopPc[l] = "select" /\ loopPc' = [loopPc EXCEPT ![l] = "remove"]
        /\ available' = [available EXCEPT ![l] = FALSE]
    BY <1>2 DEF TimerFires, Claimable
  <2>2. l \in issued /\ ~exited[l] /\ \A r \in Requests : held[r] # l
    BY <1>2, NoLeaseAssumption DEF Inv, HeldInv, MapInv
  <2>3. LeaseState(l) = "idle" /\ LeaseState(l)' = "leaving"
    BY <1>1, <1>2, <2>1, <2>2 DEF LeaseState, Inv, TypeOK
  <2>4. \A k \in Leases : k # l => LeaseState(k)' = LeaseState(k)
    BY <1>1, <2>1 DEF LeaseState, Inv, TypeOK
  <2>5. States' = [States EXCEPT ![l] = "leaving"]
    BY <2>3, <2>4, OneStateChanges
  <2> QED BY <1>1, <2>3, <2>5 DEF Ownership!Withdraw, States
<1>3. CASE ~available[l]
  <2>1. UNCHANGED <<available, loopPc>>
    BY <1>3 DEF TimerFires, Claimable
  <2>2. \A k \in Leases : LeaseState(k)' = LeaseState(k)
    BY <1>1, <2>1 DEF LeaseState
  <2> QED BY <1>1, <2>2, StutterStep
<1> QED BY <1>2, <1>3

\* Destroying a lease of the map retires it, in use or not.
LEMMA DestroyRefines ==
  ASSUME Inv, NEW l \in leaseMap, Destroy(l), UNCHANGED <<issued, held, poolStopped>>,
         \/ loopPc' = loopPc
         \/ loopPc[l] = "remove" /\ loopPc' = [loopPc EXCEPT ![l] = "send"]
  PROVE  Ownership!Retire(l)
<1>1. l \in Leases /\ l \in issued /\ ~exited[l] /\ loopPc[l] # "done" /\ loopPc'[l] # "done"
  BY DEF Inv, TypeOK, MapInv, LoopInv
<1>2. LeaseState(l) \in {"lent", "idle", "leaving"} /\ LeaseState(l)' = "retired"
  BY <1>1 DEF LeaseState, Destroy, Inv, TypeOK
<1>3. \A k \in Leases : k # l => LeaseState(k)' = LeaseState(k)
  BY DEF LeaseState, Destroy, Inv, TypeOK
<1>4. States' = [States EXCEPT ![l] = "retired"]
  BY <1>1, <1>2, <1>3, OneStateChanges
<1> QED BY <1>1, <1>2, <1>4 DEF Ownership!Retire, States

\* removeLease retires the lease, unless somebody else did so before.
LEMMA RemoveLeaseRefines ==
  ASSUME Inv, NEW l \in Leases, RemoveLease(l)
  PROVE  Ownership!Retire(l) \/ UNCHANGED Ownership!ownVars
<1>1. /\ loopPc[l] = "remove" /\ loopPc' = [loopPc EXCEPT ![l] = "send"]
      /\ UNCHANGED <<issued, held, poolStopped>>
  BY DEF RemoveLease, reqVars
<1>2. CASE l \in leaseMap
  BY <1>1, <1>2, DestroyRefines DEF RemoveLease
<1>3. CASE l \notin leaseMap
  <2>1. UNCHANGED <<available, exited>>
    BY <1>3 DEF RemoveLease
  <2>2. \A k \in Leases : LeaseState(k)' = LeaseState(k)
    BY <1>1, <2>1 DEF LeaseState, Inv, TypeOK
  <2> QED BY <1>1, <2>2, StutterStep
<1> QED BY <1>2, <1>3

\* A lease of the idle list is lent again.
LEMMA ReuseLeaseRefines ==
  ASSUME Inv, NEW r \in Requests, NEW sig \in FuncSigs, ReuseLease(r, sig)
  PROVE  \E l \in Leases : Ownership!Lend(r, l)
<1>1. PICK i \in 1..Len(idleLeaseList) :
        /\ Traversed(idleLeaseList, sig, i)
        /\ available' = [available EXCEPT ![idleLeaseList[i]] = FALSE]
        /\ held' = [held EXCEPT ![r] = idleLeaseList[i]]
  BY DEF ReuseLease
<1>2. PICK l \in Leases : l = idleLeaseList[i]
  BY <1>1 DEF Inv, TypeOK
<1>3. available[l]
  BY <1>1, <1>2 DEF Traversed, StopsAt, Claimable
<1>4. /\ l \in issued /\ ~exited[l] /\ loopPc[l] # "done"
      /\ held[r] = NoLease /\ \A q \in Requests : held[q] # l
  BY <1>3, NoLeaseAssumption DEF Inv, MapInv, HeldInv, LoopInv, ReuseLease
<1>5. UNCHANGED <<issued, exited, loopPc, poolStopped>>
  BY DEF ReuseLease, loopVars
<1>6. held' = [held EXCEPT ![r] = l] /\ available' = [available EXCEPT ![l] = FALSE]
  BY <1>1, <1>2
<1>7. held'[r] = l /\ ~available'[l]
  BY <1>6 DEF Inv, TypeOK
<1>8. LeaseState(l) = "idle" /\ LeaseState(l)' = "lent"
  BY <1>3, <1>4, <1>5, <1>7 DEF LeaseState
<1>9. ASSUME NEW k \in Leases, k # l PROVE LeaseState(k)' = LeaseState(k)
  <2>1. (\E q \in Requests : held'[q] = k) <=> \E q \in Requests : held[q] = k
    BY <1>4, <1>6, <1>9, NoLeaseAssumption DEF Inv, TypeOK
  <2>2. available'[k] = available[k]
    BY <1>6, <1>9 DEF Inv, TypeOK
  <2> QED BY <1>5, <2>1, <2>2 DEF LeaseState
<1>10. States' = [States EXCEPT ![l] = "lent"]
  BY <1>8, <1>9, OneStateChanges
<1> QED BY <1>4, <1>5, <1>6, <1>8, <1>10 DEF Ownership!Lend, States

\* The scheduler's grant is lent to the request that asked for it.
LEMMA GrantLeaseRefines ==
  ASSUME Inv, NEW r \in Requests, NEW l \in Leases, NEW canReuse \in BOOLEAN,
         GrantLease(r, l, canReuse)
  PROVE  Ownership!Lend(r, l)
<1>1. /\ l \notin issued /\ issued' = issued \cup {l} /\ held' = [held EXCEPT ![r] = l]
      /\ pc[r] = "calling" /\ UNCHANGED <<available, exited, loopPc, poolStopped>>
  BY DEF GrantLease, poolVars, loopVars
<1>2. /\ held[r] = NoLease /\ ~available[l] /\ ~exited[l] /\ loopPc[l] # "done"
      /\ held'[r] = l
  BY <1>1 DEF Inv, TypeOK, HeldInv, MapInv, LoopInv
<1>3. LeaseState(l) = "new" /\ LeaseState(l)' = "lent"
  BY <1>1, <1>2 DEF LeaseState
<1>4. ASSUME NEW k \in Leases, k # l PROVE LeaseState(k)' = LeaseState(k)
  <2>1. (\E q \in Requests : held'[q] = k) <=> \E q \in Requests : held[q] = k
    BY <1>1, <1>2, <1>4, NoLeaseAssumption DEF Inv, TypeOK
  <2> QED BY <1>1, <1>4, <2>1 DEF LeaseState
<1>5. States' = [States EXCEPT ![l] = "lent"]
  BY <1>3, <1>4, OneStateChanges
<1> QED BY <1>1, <1>2, <1>3, <1>5 DEF Ownership!Lend, States

\* Waiting for the scheduler, its failures and the insertion into the map are
\* invisible.
LEMMA AcquireRefines ==
  ASSUME Inv, NEW r \in Requests,
         \/ \E sig \in FuncSigs : CallScheduler(r, sig)
         \/ AcquireFails(r) \/ RepeatedLease(r) \/ InsertLease(r)
  PROVE  UNCHANGED Ownership!ownVars
<1>1. UNCHANGED <<issued, exited, available, held, poolStopped>>
  BY DEF CallScheduler, AcquireFails, RepeatedLease, InsertLease, leaseVars
<1>2. \A k \in Leases : loopPc'[k] = "done" <=> loopPc[k] = "done"
  BY DEF CallScheduler, AcquireFails, RepeatedLease, InsertLease, loopVars, Inv, TypeOK, HeldInv
<1>3. \A k \in Leases : LeaseState(k)' = LeaseState(k)
  BY <1>1, <1>2 DEF LeaseState
<1> QED BY <1>1, <1>3, StutterStep

\* A request hands its lease back: to the idle list, to be retired, or, after
\* the pool was stopped, to be set aside.
LEMMA ReleaseRefines ==
  ASSUME Inv, NEW r \in Requests,
         ReleaseAfterClear(r) \/ \E abnormal \in BOOLEAN : ReleaseLease(r, abnormal)
  PROVE  Ownership!HandBack(r)
<1>1. /\ pc[r] = "holding" /\ held' = [held EXCEPT ![r] = NoLease]
      /\ UNCHANGED <<issued, loopPc, poolStopped>>
  BY DEF ReleaseAfterClear, ReleaseLease, poolVars, leaseVars, loopVars
<1>2. PICK l \in Leases : l = held[r] /\ l \in issued /\ ~available[l]
  BY <1>1 DEF Inv, TypeOK, HeldInv
<1>3. l # NoLease /\ (l \in leaseMap \/ exited[l])
  BY <1>1, <1>2, NoLeaseAssumption DEF Inv, HeldInv
<1>4. \A q \in Requests : held'[q] # l
  BY <1>1, <1>2, <1>3 DEF Inv, TypeOK, OneHolder
<1>5. ASSUME NEW k \in Leases, k # l, available'[k] = available[k], exited'[k] = exited[k]
      PROVE  LeaseState(k)' = LeaseState(k)
  <2>1. (\E q \in Requests : held'[q] = k) <=> \E q \in Requests : held[q] = k
    BY <1>1, <1>2, <1>5, NoLeaseAssumption DEF Inv, TypeOK
  <2> QED BY <1>1, <1>5, <2>1 DEF LeaseState
<1>6. CASE UNCHANGED <<available, exited>> /\ exited[l]
  <2>1. LeaseState(l)' = LeaseState(l) /\ LeaseState(l) # "lent"
    BY <1>1, <1>2, <1>6 DEF LeaseState
  <2>2. States' = States
    BY <1>5, <1>6, <2>1 DEF States
  <2> QED BY <1>1, <1>2, <1>3, <2>1, <2>2 DEF Ownership!HandBack, States
<1>7. ASSUME NEW s \in {"idle", "retired"} \cup (IF ~poolStopped THEN {} ELSE {"leaving"}),
             ~exited[l], LeaseState(l)' = s,
             \A k \in Leases : k # l => available'[k] = available[k] /\ exited'[k] = exited[k]
      PROVE  Ownership!HandBack(r)
  <2>1. loopPc[l] # "done"
    BY <1>7 DEF Inv, LoopInv
  <2>2. LeaseState(l) = "lent"
    BY <1>2, <1>7, <2>1 DEF LeaseState
  <2>3. States' = [States EXCEPT ![l] = s]
    BY <1>5, <1>7, OneStateChanges
  <2> QED BY <1>1, <1>2, <1>3, <1>7, <2>2, <2>3 DEF Ownership!HandBack, States
<1>8. CASE UNCHANGED <<available, exited>> /\ ~exited[l]
  <2>1. poolStopped
    BY <1>2, <1>3, <1>8 DEF ReleaseAfterClear, ReleaseLease, Free, Destroy, Inv, TypeOK
  <2>2. LeaseState(l)' = "leaving"
    <3>1. loopPc[l] # "done"
      BY <1>8 DEF Inv, LoopInv
    <3> QED BY <1>1, <1>2, <1>4, <1>8, <3>1 DEF LeaseState
  <2> QED BY <1>7, <1>8, <2>1, <2>2
<1>9. CASE l \in leaseMap /\ ~UNCHANGED <<available, exited>>
  <2>1. ~exited[l] /\ loopPc[l] # "done"
    BY <1>9 DEF Inv, MapInv, LoopInv
  <2>2. PICK abnormal \in BOOLEAN : ReleaseLease(r, abnormal)
    BY <1>9 DEF ReleaseAfterClear, leaseVars
  <2>3. CASE ~abnormal /\ reusable[l]
    <3>1. available' = [available EXCEPT ![l] = TRUE] /\ UNCHANGED exited
      BY <1>2, <1>9, <2>2, <2>3 DEF ReleaseLease, Free
    <3>2. LeaseState(l)' = "idle"
      BY <1>1, <1>2, <2>1, <3>1 DEF LeaseState, Inv, TypeOK
    <3>3. \A k \in Leases : k # l => available'[k] = available[k] /\ exited'[k] = exited[k]
      BY <3>1 DEF Inv, TypeOK
    <3> QED BY <1>7, <2>1, <3>2, <3>3
  <2>4. CASE ~(~abnormal /\ reusable[l])
    <3>1. Destroy(l)
      BY <1>2, <1>9, <2>2, <2>4 DEF ReleaseLease
    <3>2. LeaseState(l)' = "retired"
      BY <1>1, <1>2, <2>1, <3>1 DEF LeaseState, Destroy, Inv, TypeOK
    <3>3. \A k \in Leases : k # l => available'[k] = available[k] /\ exited'[k] = exited[k]
      BY <3>1 DEF Destroy, Inv, TypeOK
    <3> QED BY <1>7, <2>1, <3>2, <3>3
  <2> QED BY <2>3, <2>4
<1>10. l \notin leaseMap => UNCHANGED <<available, exited>>
  BY <1>2 DEF ReleaseAfterClear, ReleaseLease, leaseVars
<1> QED BY <1>3, <1>6, <1>8, <1>9, <1>10

\* Every behaviour of the pool is one of LeaseOwnership.
THEOREM OwnershipCorrect == Spec => OwnershipKept
<1>1. Init => Ownership!OwnInit
  <2> SUFFICES ASSUME Init PROVE Ownership!OwnInit
    OBVIOUS
  <2>1. \A l \in Leases : LeaseState(l) = "new"
    BY DEF Init, LeaseState
  <2> QED BY <2>1 DEF Init, Ownership!OwnInit
<1>2. Inv /\ [Next]_vars => [Ownership!OwnNext]_Ownership!ownVars
  <2> SUFFICES ASSUME Inv, [Next]_vars
               PROVE  Ownership!OwnNext \/ UNCHANGED Ownership!ownVars
    OBVIOUS
  <2>1. ASSUME NEW r \in Requests, RequestStep(r)
        PROVE  Ownership!OwnNext \/ UNCHANGED Ownership!ownVars
    BY <2>1, ReuseLeaseRefines, GrantLeaseRefines, AcquireRefines, ReleaseRefines
       DEF RequestStep, Ownership!OwnNext
  <2>2. ASSUME NEW l \in Leases, LoopStep(l)
        PROVE  Ownership!OwnNext \/ UNCHANGED Ownership!ownVars
    BY <2>2, LoopMovesRefine, TimerFiresRefines, RemoveLeaseRefines, SendReleaseRefines
       DEF LoopStep, Ownership!OwnNext
  <2>3. ASSUME NEW l \in Leases, DecreaseLease(l) \/ EvictLease(l)
        PROVE  Ownership!OwnNext
    <3>1. Ownership!Retire(l)
      BY <2>3, DestroyRefines DEF DecreaseLease, EvictLease, loopVars, reqVars
    <3> QED BY <3>1 DEF Ownership!OwnNext
  <2>4. CASE StopPool
    <3>1. UNCHANGED <<issued, exited, available, loopPc, held>> /\ ~poolStopped /\ poolStopped'
      BY <2>4 DEF StopPool, leaseVars, loopVars, reqVars
    <3>2. \A l \in Leases : LeaseState(l)' = LeaseState(l)
      BY <3>1 DEF LeaseState
    <3>3. States' = States
      BY <3>2 DEF States
    <3> QED BY <3>1, <3>3 DEF Ownership!OwnNext, Ownership!Close, States
  <2>5. CASE UNCHANGED vars
    <3>1. UNCHANGED <<issued, exited, available, loopPc, held, poolStopped>>
      BY <2>5 DEF vars, poolVars, leaseVars, loopVars, reqVars
    <3>2. \A l \in Leases : LeaseState(l)' = LeaseState(l)
      BY <3>1 DEF LeaseState
    <3> QED BY <3>1, <3>2, StutterStep
  <2> QED BY <2>1, <2>2, <2>3, <2>4, <2>5 DEF Next
<1> QED BY <1>1, <1>2, Invariance, PTL DEF Spec, OwnershipKept, Ownership!OwnSpec
=============================================================================
