--------------------------- MODULE ComponentProofs ---------------------------
(***************************************************************************)
(* Proofs about components that share no variable: the manager a remote      *)
(* client's lease goes to (RemoteClientLease), the lock, the watcher and the *)
(* cache file of etcd (EtcdWatch), the client of the FunctionProxies         *)
(* (ProxyClient), the pooled connections of the web terminal (Terminal) and  *)
(* the queries on sessions (SessionContext).                                 *)
(***************************************************************************)
EXTENDS RemoteClientLease, EtcdWatch, ProxyClient, Terminal, SessionContext, SequenceTheorems,
        FiniteSetTheorems, WellFoundedInduction, TLAPS

------------------------------------------------------------------------------
(* RemoteClientLease                                                          *)

\* A running manager is in use or in reserve, and the reserve is not left with
\* one while none is in use.
ManagersInv ==
    /\ DOMAIN instances = Managers /\ DOMAIN inUsedInfo = Managers
    /\ info \in Managers \cup {None}
    /\ \A m \in Managers : instances[m] = "running" => info = m \/ inUsedInfo[m] = "running"
    /\ info = None => \A m \in Managers : inUsedInfo[m] # "running"

LEMMA ManagersInvInit == LeaseInit => ManagersInv
BY ManagersAssumption DEF LeaseInit, ManagersInv

LEMMA ManagersInvStep == ManagersInv /\ [LeaseNext]_leaseVars => ManagersInv'
<1> SUFFICES ASSUME ManagersInv, [LeaseNext]_leaseVars PROVE ManagersInv' OBVIOUS
<1>1. ASSUME NEW m \in Managers, NEW s \in {"starting", "running"}, UpdateFaasManager(m, s)
      PROVE  ManagersInv'
  <2>1. instances' = [instances EXCEPT ![m] = s] BY <1>1 DEF UpdateFaasManager, ManagerEvent
  <2>2. CASE info = None /\ s = "running"
    BY <1>1, <2>1, <2>2, ManagersAssumption DEF UpdateFaasManager, ManagersInv
  <2>3. CASE ~(info = None /\ s = "running")
    BY <1>1, <2>1, <2>3 DEF UpdateFaasManager, ManagersInv
  <2> QED BY <2>2, <2>3
<1>2. ASSUME NEW m \in Managers, DeleteFaasManager(m) PROVE ManagersInv'
  <2>1. instances' = [instances EXCEPT ![m] = "absent"] /\ Replace(m)
    BY <1>2 DEF DeleteFaasManager, ManagerEvent
  <2>2. CASE /\ info \notin {None, m} \/ InReserve(m) = {}
             /\ info' = IF info = m THEN None ELSE info
             /\ inUsedInfo' = [inUsedInfo EXCEPT ![m] = None]
    BY <2>1, <2>2, ManagersAssumption DEF ManagersInv, InReserve
  <2>3. CASE /\ info \in {None, m}
             /\ \E k \in InReserve(m), met \in BOOLEAN :
                  /\ info' = k
                  /\ inUsedInfo' = [inUsedInfo EXCEPT ![k] = None, ![m] = IF met THEN None ELSE @]
    BY <2>1, <2>3, ManagersAssumption DEF ManagersInv, InReserve
  <2> QED BY <2>1, <2>2, <2>3 DEF Replace
<1>3. CASE UNCHANGED <<instances, info, inUsedInfo>> BY <1>3 DEF ManagersInv
<1> QED BY <1>1, <1>2, <1>3 DEF LeaseNext, leaseVars, AnswerEarly, PickManager, NoManager,
          ManagerAnswers, ManagerLost

\* While any faas-manager runs the frontend has one to send lease requests to,
\* for any number of managers and in any order of their events and of the walk
\* over the reserve.
THEOREM RunningManagerUsedCorrect == LeaseSpec => []RunningManagerUsed
<1>1. ManagersInv => RunningManagerUsed BY ManagersAssumption DEF ManagersInv, RunningManagerUsed
<1> QED BY <1>1, ManagersInvInit, ManagersInvStep, PTL DEF LeaseSpec

------------------------------------------------------------------------------
(* EtcdWatch                                                                  *)

LockPcs == {"idle", "txn", "cleanup", "callback"}
Locker == [pc : LockPcs, want : LockKeys \cup {None}, locked : LockKeys \cup {None}, lease : Nat,
           keeper : BOOLEAN, fails : Nat, err : {None, "locked", "etcd", "callback"},
           failed : BOOLEAN]
Holder == [key : LockKeys, lease : Nat, rev : Nat]

LockTypeInv ==
    /\ origin \in [LockKeys -> Nat] /\ holders \subseteq Holder
    /\ lockRev \in Nat /\ granted \in Nat /\ leases \subseteq 1..granted
    /\ lk \in [Lockers -> Locker]
    /\ \A l \in Lockers : /\ lk[l].pc \in {"txn", "callback"} => lk[l].want \in LockKeys
                          /\ lk[l].keeper => lk[l].locked \in LockKeys

\* No two processes have one lease.
LeaseInv ==
    /\ \A l \in Lockers : lk[l].lease <= granted
    /\ \A a, b \in Lockers : lk[a].lease = lk[b].lease /\ lk[a].lease # 0 => a = b

\* Every write has a revision of its own.
RevInv ==
    /\ \A h \in holders : h.rev \in 1..lockRev
    /\ \A g, h \in holders : g.rev = h.rev \/ (g.key = h.key /\ g.lease = h.lease) => g = h
    /\ \A k \in LockKeys : origin[k] <= lockRev
    /\ \A j, k \in LockKeys : j # k /\ origin[j] = origin[k] => origin[j] = 0
    /\ \A k \in LockKeys, h \in holders : origin[k] # h.rev

\* The identity a process has, or has just got: its transaction found its own
\* holder key to be the first one, and later ones have later revisions.
Identity(r) == IF r.pc = "callback" THEN r.want ELSE r.locked
FirstInv ==
    \A l \in Lockers :
        lk[l].pc \in {"callback", "idle"} /\ lk[l].lease # 0 =>
            \A h \in holders : h.lease = lk[l].lease /\ h.key = Identity(lk[l]) =>
                \A g \in holders : g.key = h.key => h.rev <= g.rev

LockInv == LockTypeInv /\ LeaseInv /\ RevInv /\ FirstInv

\* A set of natural numbers has a least one.
LEMMA LeastRevision ==
    ASSUME NEW S, \A x \in S : x.rev \in Nat, S # {}
    PROVE  \E x \in S : \A y \in S : x.rev <= y.rev
<1> DEFINE T == {x.rev : x \in S}
<1>1. T \subseteq Nat /\ T # {} OBVIOUS
<1>2. PICK n \in T : \A m \in T : ~(<<m, n>> \in OpToRel(<, Nat))
  BY <1>1, NatLessThanWellFounded, WFMin
<1>3. \A m \in T : ~(m < n) BY <1>1, <1>2 DEF OpToRel
<1>4. \A m \in T : n <= m BY <1>1, <1>3
<1> QED BY <1>4

\* What Mine looks at: when the identity is the earliest key and the next one
\* has the given revision, no holder of the identity is older.
LEMMA MineIsFirst ==
    ASSUME NEW hs, hs \subseteq Holder, origin \in [LockKeys -> Nat], NEW k \in LockKeys,
           NEW rev \in Nat, Mine(hs, k, rev),
           \A j \in LockKeys, h \in hs : origin[j] # h.rev,
           \A i, j \in LockKeys : i # j /\ origin[i] = origin[j] => origin[i] = 0
    PROVE  \A g \in hs : g.key = k => rev <= g.rev
<1> DEFINE B == Below(hs, k)
           F == Earliest(B)
<1>1. \A x \in B : x.rev \in Nat BY KeysAssumption DEF Below, Holder
<1>2. PICK o \in F : o.is = "origin" BY DEF Mine
<1>3. o \in B /\ \A y \in B : o.rev <= y.rev BY DEF Earliest
<1>4. o = [rev |-> origin[k], is |-> "origin"] /\ origin[k] # 0
  BY <1>2, <1>3, KeysAssumption DEF Below
<1>5. \A y \in B : y.rev = o.rev => y = o
  <2> SUFFICES ASSUME NEW y \in B, y.rev = o.rev PROVE y = o OBVIOUS
  <2>1. CASE \E h \in hs : y = [rev |-> h.rev, is |-> "holder"] BY <1>4, <2>1
  <2>2. CASE \E x \in Extends[k] : /\ origin[x] # 0
                                   /\ y = [rev |-> origin[x], is |-> IF x = k THEN "origin" ELSE "sibling"]
    BY <1>4, <2>2, KeysAssumption
  <2> QED BY <2>1, <2>2 DEF Below
<1>6. F = {o} BY <1>1, <1>3, <1>5 DEF Earliest
<1> SUFFICES ASSUME NEW g \in hs, g.key = k PROVE rev <= g.rev OBVIOUS
<1> DEFINE y0 == [rev |-> g.rev, is |-> "holder"]
<1>7. y0 \in B BY KeysAssumption DEF Below
<1>8. y0 \in B \ F BY <1>4, <1>6, <1>7
<1> HIDE DEF B, F, y0
<1>9. PICK x \in B \ F : \A y \in B \ F : x.rev <= y.rev BY <1>1, <1>8, LeastRevision
<1>10. x \in Earliest(B \ F) BY <1>9 DEF Earliest
<1>11. x.rev = rev BY <1>10 DEF Mine, B, F
<1>12. y0.rev = g.rev BY DEF y0
<1> QED BY <1>8, <1>9, <1>11, <1>12

LEMMA LockInvInit == LockInit => LockInv
<1> SUFFICES ASSUME LockInit PROVE LockInv OBVIOUS
<1>1. Cardinality(LockKeys) \in Nat BY KeysAssumption, FS_CardinalityType
<1>2. NoLocker \in Locker BY DEF NoLocker, Locker, LockPcs
<1>3. LockTypeInv BY <1>1, <1>2 DEF LockInit, LockTypeInv, NoLocker
<1>4. LeaseInv BY DEF LockInit, LeaseInv, NoLocker
<1>5. RevInv BY <1>1 DEF LockInit, RevInv
<1>6. FirstInv BY DEF LockInit, FirstInv
<1> QED BY <1>3, <1>4, <1>5, <1>6 DEF LockInv

\* A step of one process after which it has no lease, or is not at rest with
\* one, or is as before: others keep what they have while holders only go.
LEMMA ShrinkKeeps ==
    ASSUME LockInv, NEW l \in Lockers, NEW r \in Locker, lk' = [lk EXCEPT ![l] = r],
           r.lease \in {0, lk[l].lease},
           r.pc \in {"txn", "callback"} => r.want \in LockKeys, r.keeper => r.locked \in LockKeys,
           \/ r.lease = 0 \/ r.pc \in {"txn", "cleanup"}
           \/ /\ lk[l].pc \in {"callback", "idle"} /\ r.lease = lk[l].lease
              /\ Identity(r) = Identity(lk[l]),
           leases' \subseteq leases, holders' \subseteq holders, UNCHANGED <<origin, lockRev, granted>>
    PROVE  LockInv'
<1>1. LockTypeInv /\ LeaseInv /\ RevInv /\ FirstInv BY DEF LockInv
<1>2. lk'[l] = r /\ \A m \in Lockers : m # l => lk'[m] = lk[m] BY <1>1 DEF LockTypeInv
<1>3. LockTypeInv' BY <1>1, <1>2 DEF LockTypeInv
<1>4. LeaseInv'
  <2>1. granted \in Nat BY <1>1 DEF LockTypeInv
  <2> QED BY <1>1, <1>2, <2>1 DEF LeaseInv
<1>5. RevInv' BY <1>1 DEF RevInv
<1>6. FirstInv' BY <1>1, <1>2 DEF FirstInv
<1> QED BY <1>3, <1>4, <1>5, <1>6 DEF LockInv

\* tryLock begins: with the lease that is left, or a new one.
LEMMA GrantKeeps ==
    ASSUME LockInv, NEW l \in Lockers, NEW k \in LockKeys, Grant(l, k)
    PROVE  LockInv'
<1>1. LockTypeInv /\ LeaseInv /\ RevInv /\ FirstInv BY DEF LockInv
<1>2. CASE lk[l].lease # 0
  <2> DEFINE r == [lk[l] EXCEPT !.pc = "txn", !.want = k]
  <2>1. lk[l] \in Locker BY <1>1 DEF LockTypeInv
  <2>2. lk' = [lk EXCEPT ![l] = r] /\ UNCHANGED <<origin, holders, lockRev, granted, leases>>
    <3>1. /\ lk' = [lk EXCEPT ![l].pc = "txn", ![l].want = k]
          /\ UNCHANGED <<origin, holders, lockRev, granted, leases>>
      BY <1>2 DEF Grant, etcdVars
    <3> QED BY <1>1, <2>1, <3>1 DEF LockTypeInv, Locker
  <2>3. r \in Locker /\ r.pc = "txn" /\ r.want = k /\ r.lease = lk[l].lease /\ r.keeper = lk[l].keeper
        /\ r.locked = lk[l].locked
    BY <2>1 DEF Locker, LockPcs
  <2>4. r.keeper => r.locked \in LockKeys BY <1>1, <2>3 DEF LockTypeInv
  <2> HIDE DEF r
  <2> QED BY <2>2, <2>3, <2>4, ShrinkKeeps
<1>3. CASE lk[l].lease = 0
  <2> DEFINE r == [lk[l] EXCEPT !.pc = "txn", !.want = k, !.lease = granted + 1]
  <2>1. lk[l] \in Locker /\ granted \in Nat /\ granted + 1 \in Nat BY <1>1 DEF LockTypeInv
  <2>2. /\ lk' = [lk EXCEPT ![l] = r] /\ granted' = granted + 1 /\ leases' = leases \cup {granted + 1}
        /\ UNCHANGED <<origin, holders, lockRev>>
    BY <1>3, <2>1 DEF Grant, Locker
  <2>3. r \in Locker /\ r.pc = "txn" /\ r.want = k /\ r.lease = granted + 1 /\ r.keeper = lk[l].keeper
        /\ r.locked = lk[l].locked
    BY <2>1 DEF Locker, LockPcs
  <2> HIDE DEF r
  <2>4. lk'[l] = r /\ \A m \in Lockers : m # l => lk'[m] = lk[m] BY <1>1, <2>2 DEF LockTypeInv
  <2>5. LockTypeInv'
    <3>1. leases' \subseteq 1..granted' BY <1>1, <2>1, <2>2 DEF LockTypeInv
    <3> QED BY <1>1, <2>1, <2>2, <2>3, <2>4, <3>1 DEF LockTypeInv
  <2>6. LeaseInv'
    <3>1. \A m \in Lockers : lk[m].lease \in Nat /\ lk[m].lease <= granted
      BY <1>1 DEF LockTypeInv, LeaseInv, Locker
    <3> QED BY <1>1, <2>1, <2>2, <2>3, <2>4, <3>1 DEF LeaseInv
  <2>7. RevInv' BY <1>1, <2>2 DEF RevInv
  <2>8. FirstInv' BY <1>1, <2>2, <2>3, <2>4 DEF FirstInv
  <2> QED BY <2>5, <2>6, <2>7, <2>8 DEF LockInv
<1> QED BY <1>2, <1>3

\* What the step of one process writes into its record.
LEMMA CallbackKeeps == ASSUME LockInv, NEW l \in Lockers, LockCallback(l) PROVE LockInv'
<1>1. LockTypeInv BY DEF LockInv
<1>2. lk[l] \in Locker /\ lk[l].pc = "callback" /\ lk[l].want \in LockKeys
  BY <1>1 DEF LockTypeInv, LockCallback
<1> DEFINE a == [lk[l] EXCEPT !.pc = "idle", !.locked = lk[l].want, !.keeper = TRUE, !.fails = 0]
           b == [lk[l] EXCEPT !.pc = "cleanup", !.err = "callback", !.locked = lk[l].want]
<1>3. /\ lk' = [lk EXCEPT ![l] = a] \/ lk' = [lk EXCEPT ![l] = b]
      /\ UNCHANGED <<origin, holders, lockRev, granted, leases>>
  BY <1>2 DEF LockCallback, etcdVars, Locker
<1>4. /\ a \in Locker /\ a.pc = "idle" /\ a.lease = lk[l].lease /\ a.locked = lk[l].want
      /\ Identity(a) = Identity(lk[l]) /\ a.keeper
  BY <1>2 DEF Locker, LockPcs, Identity
<1>5. b \in Locker /\ b.pc = "cleanup" /\ b.lease = lk[l].lease /\ b.locked = lk[l].want
  BY <1>2 DEF Locker, LockPcs
<1> HIDE DEF a, b
<1>6. CASE lk' = [lk EXCEPT ![l] = a] BY <1>2, <1>3, <1>4, <1>6, ShrinkKeeps
<1>7. CASE lk' = [lk EXCEPT ![l] = b] BY <1>2, <1>3, <1>5, <1>7, ShrinkKeeps
<1> QED BY <1>3, <1>6, <1>7

LEMMA CleanupKeeps ==
    ASSUME LockInv, NEW l \in Lockers, NEW ok \in BOOLEAN, Cleanup(l, ok)
    PROVE  LockInv'
<1>1. LockTypeInv BY DEF LockInv
<1>2. lk[l] \in Locker /\ (lk[l].keeper => lk[l].locked \in LockKeys) BY <1>1 DEF LockTypeInv
<1>3. PICK n \in Nat, f \in BOOLEAN, kp \in BOOLEAN :
        /\ kp => lk[l].keeper
        /\ lk' = [lk EXCEPT ![l] = [lk[l] EXCEPT !.pc = "idle", !.lease = 0, !.want = None,
                                                 !.fails = n, !.failed = f, !.keeper = kp]]
  <2> DEFINE counted == lk[l].keeper /\ lk[l].err = "locked"
             given == counted /\ lk[l].fails >= FailCountLimit
             n == IF ~lk[l].keeper THEN 0 ELSE IF counted THEN lk[l].fails + 1 ELSE 0
  <2>1. lk' = [lk EXCEPT ![l] = [lk[l] EXCEPT !.pc = "idle", !.lease = 0, !.want = None,
                                   !.fails = n, !.failed = given, !.keeper = lk[l].keeper /\ ~given]]
    BY Zenon DEF Cleanup
  <2>2. n \in Nat /\ given \in BOOLEAN /\ (lk[l].keeper /\ ~given) \in BOOLEAN
    BY <1>2 DEF Locker
  <2> HIDE DEF n, given, counted
  <2> QED BY <2>1, <2>2
<1> DEFINE r == [lk[l] EXCEPT !.pc = "idle", !.lease = 0, !.want = None,
                              !.fails = n, !.failed = f, !.keeper = kp]
<1>4. r \in Locker /\ r.pc = "idle" /\ r.lease = 0 /\ r.keeper = kp /\ r.locked = lk[l].locked
  BY <1>2 DEF Locker, LockPcs
<1>5. /\ leases' \subseteq leases /\ holders' \subseteq holders
      /\ UNCHANGED <<origin, lockRev, granted>>
  BY DEF Cleanup
<1>6. lk' = [lk EXCEPT ![l] = r] BY <1>3
<1> HIDE DEF r
<1> QED BY <1>2, <1>3, <1>4, <1>5, <1>6, ShrinkKeeps

LEMMA KeepFailsKeeps == ASSUME LockInv, NEW l \in Lockers, KeepFails(l) PROVE LockInv'
<1>1. LockTypeInv BY DEF LockInv
<1>2. lk[l] \in Locker /\ (lk[l].keeper => lk[l].locked \in LockKeys) BY <1>1 DEF LockTypeInv
<1> DEFINE r == [lk[l] EXCEPT !.lease = 0]
<1>3. lk' = [lk EXCEPT ![l] = r] /\ UNCHANGED <<origin, holders, lockRev, granted, leases>>
  BY <1>2 DEF KeepFails, etcdVars, Locker
<1>4. /\ r \in Locker /\ r.pc = "idle" /\ r.lease = 0 /\ r.keeper = lk[l].keeper
      /\ r.locked = lk[l].locked
  BY <1>2 DEF KeepFails, Locker
<1> HIDE DEF r
<1> QED BY <1>2, <1>3, <1>4, ShrinkKeeps

LEMMA UnlockKeeps ==
    ASSUME LockInv, NEW l \in Lockers, NEW ok \in BOOLEAN, NEW failed \in BOOLEAN,
           Unlock(l, ok, failed)
    PROVE  LockInv'
<1> DEFINE r == [NoLocker EXCEPT !.failed = failed]
<1>1. lk' = [lk EXCEPT ![l] = r] /\ UNCHANGED <<origin, lockRev, granted, leases>>
  BY DEF Unlock
<1>2. holders' \subseteq holders BY DEF Unlock
<1>3. r \in Locker /\ r.pc = "idle" /\ r.lease = 0 /\ ~r.keeper
  BY DEF NoLocker, Locker, LockPcs
<1> HIDE DEF r
<1> QED BY <1>1, <1>2, <1>3, ShrinkKeeps

LEMMA ExpiresKeeps == ASSUME LockInv, NEW x \in leases, LeaseExpires(x) PROVE LockInv'
<1>1. LockTypeInv /\ LeaseInv /\ RevInv /\ FirstInv BY DEF LockInv
<1>2. /\ leases' \subseteq leases /\ holders' \subseteq holders
      /\ UNCHANGED <<origin, lockRev, granted, lk>>
  BY DEF LeaseExpires
<1>3. LockTypeInv' BY <1>1, <1>2 DEF LockTypeInv
<1>4. LeaseInv' BY <1>1, <1>2 DEF LeaseInv
<1>5. RevInv' BY <1>1, <1>2 DEF RevInv
<1>6. FirstInv' BY <1>1, <1>2 DEF FirstInv
<1> QED BY <1>3, <1>4, <1>5, <1>6 DEF LockInv

LEMMA ControlPlaneKeeps == ASSUME LockInv, NEW k \in LockKeys, ControlPlane(k) PROVE LockInv'
<1>1. LockTypeInv /\ LeaseInv /\ RevInv /\ FirstInv BY DEF LockInv
<1>2. UNCHANGED <<holders, granted, leases, lk>> BY DEF ControlPlane
<1>3. lockRev \in Nat BY <1>1 DEF LockTypeInv
<1>4. \/ /\ lockRev' = lockRev + 1 /\ origin' = [origin EXCEPT ![k] = lockRev + 1]
      \/ lockRev' = lockRev /\ origin' = [origin EXCEPT ![k] = 0]
  BY DEF ControlPlane
<1>5. LockTypeInv' BY <1>1, <1>2, <1>3, <1>4 DEF LockTypeInv
<1>6. LeaseInv' BY <1>1, <1>2 DEF LeaseInv
<1>7. RevInv'
  <2>1. origin \in [LockKeys -> Nat] /\ \A h \in holders : h.rev \in Nat
    BY <1>1 DEF LockTypeInv, Holder
  <2> QED BY <1>1, <1>2, <1>3, <1>4, <2>1 DEF RevInv
<1>8. FirstInv' BY <1>1, <1>2 DEF FirstInv
<1> QED BY <1>5, <1>6, <1>7, <1>8 DEF LockInv

\* A holder key is put with the lease of a process that has no such key: it is
\* the latest one, and no other process has its lease.
LEMMA PutKeeps ==
    ASSUME LockInv, NEW l \in Lockers, NEW k \in LockKeys, NEW r \in Locker,
           lk' = [lk EXCEPT ![l] = r], r.lease = lk[l].lease, lk[l].lease \in leases,
           r.pc \in {"cleanup", "callback"}, r.pc = "callback" => r.want = k,
           r.keeper = lk[l].keeper, r.locked = lk[l].locked,
           {h \in holders : h.key = k /\ h.lease = lk[l].lease} = {},
           holders' = holders \cup {[key |-> k, lease |-> lk[l].lease, rev |-> lockRev + 1]},
           lockRev' = lockRev + 1, UNCHANGED <<origin, granted, leases>>,
           r.pc = "callback" => Mine(holders', k, lockRev + 1)
    PROVE  LockInv'
<1>1. LockTypeInv /\ LeaseInv /\ RevInv /\ FirstInv BY DEF LockInv
<1>2. lk'[l] = r /\ \A m \in Lockers : m # l => lk'[m] = lk[m] BY <1>1 DEF LockTypeInv
<1>3. lockRev \in Nat /\ lockRev + 1 \in Nat /\ lk[l].lease \in Nat /\ lk[l].lease # 0
  BY <1>1 DEF LockTypeInv, Locker
<1> DEFINE n == [key |-> k, lease |-> lk[l].lease, rev |-> lockRev + 1]
<1>4. n \in Holder /\ n.key = k /\ n.lease = lk[l].lease /\ n.rev = lockRev + 1 BY <1>3 DEF Holder
<1>5. holders' = holders \cup {n} OBVIOUS
<1> HIDE DEF n
<1>6. \A h \in holders : h.rev \in Nat /\ h.rev <= lockRev BY <1>1 DEF LockTypeInv, Holder, RevInv
<1>7. LockTypeInv' BY <1>1, <1>2, <1>3, <1>4, <1>5 DEF LockTypeInv
<1>8. LeaseInv' BY <1>1, <1>2 DEF LeaseInv
<1>9. RevInv'
  <2>1. origin \in [LockKeys -> Nat] BY <1>1 DEF LockTypeInv
  <2>2. \A h \in holders' : h.rev \in 1..lockRev' BY <1>1, <1>3, <1>4, <1>5, <1>6 DEF RevInv
  <2>3. \A g, h \in holders' : g.rev = h.rev \/ (g.key = h.key /\ g.lease = h.lease) => g = h
    BY <1>1, <1>3, <1>4, <1>5, <1>6 DEF RevInv
  <2>4. \A j \in LockKeys, h \in holders' : origin[j] # h.rev
    BY <1>1, <1>3, <1>4, <1>5, <2>1 DEF RevInv
  <2>5. \A j \in LockKeys : origin[j] <= lockRev + 1 BY <1>1, <1>3, <2>1 DEF RevInv
  <2> QED BY <1>1, <2>2, <2>3, <2>4, <2>5 DEF RevInv
<1>10. FirstInv'
  <2> SUFFICES ASSUME NEW m \in Lockers, lk'[m].pc \in {"callback", "idle"}, lk'[m].lease # 0,
                      NEW h \in holders', h.lease = lk'[m].lease, h.key = Identity(lk'[m]),
                      NEW g \in holders', g.key = h.key
               PROVE  h.rev <= g.rev
    BY DEF FirstInv, Identity
  <2>1. CASE m = l
    <3>1. r.pc = "callback" /\ h.key = k /\ h.lease = n.lease BY <1>2, <1>4, <2>1 DEF Identity
    <3>2. h = n BY <1>4, <1>5, <1>9, <3>1 DEF RevInv
    <3>3. holders' \subseteq Holder /\ origin \in [LockKeys -> Nat] BY <1>1, <1>7 DEF LockTypeInv
    <3>4. /\ \A j \in LockKeys, x \in holders' : origin[j] # x.rev
          /\ \A i, j \in LockKeys : i # j /\ origin[i] = origin[j] => origin[i] = 0
      BY <1>9 DEF RevInv
    <3>5. Mine(holders', k, lockRev + 1) BY <3>1
    <3> DEFINE hs == holders'
               v == lockRev + 1
    <3>6. /\ hs \subseteq Holder /\ Mine(hs, k, v) /\ v \in Nat
          /\ \A j \in LockKeys, x \in hs : origin[j] # x.rev
      BY <1>3, <3>3, <3>4, <3>5
    <3> HIDE DEF hs, v
    <3>7. \A x \in hs : x.key = k => v <= x.rev BY <3>3, <3>4, <3>6, MineIsFirst
    <3> QED BY <1>4, <3>1, <3>2, <3>7 DEF hs, v
  <2>2. CASE m # l
    <3>1. lk'[m] = lk[m] BY <1>2, <2>2
    <3>2. h # n BY <1>1, <1>3, <1>4, <2>2, <3>1 DEF LeaseInv
    <3>3. CASE g = n BY <1>3, <1>4, <1>5, <1>6, <3>2, <3>3
    <3>4. CASE g # n BY <1>1, <1>5, <3>1, <3>2, <3>4 DEF FirstInv
    <3> QED BY <3>3, <3>4
  <2> QED BY <2>1, <2>2
<1> QED BY <1>7, <1>8, <1>9, <1>10 DEF LockInv

\* A transaction that finds its own holder key and the identity before it.
LEMMA FoundKeeps ==
    ASSUME LockInv, NEW l \in Lockers, NEW k \in LockKeys, NEW r \in Locker,
           lk' = [lk EXCEPT ![l] = r], r.lease = lk[l].lease, r.pc = "callback", r.want = k,
           r.keeper = lk[l].keeper, r.locked = lk[l].locked,
           NEW o \in holders, o.key = k, o.lease = lk[l].lease, Mine(holders, k, o.rev),
           UNCHANGED <<origin, holders, lockRev, granted, leases>>
    PROVE  LockInv'
<1>1. LockTypeInv /\ LeaseInv /\ RevInv /\ FirstInv BY DEF LockInv
<1>2. lk'[l] = r /\ \A m \in Lockers : m # l => lk'[m] = lk[m] BY <1>1 DEF LockTypeInv
<1>3. LockTypeInv' BY <1>1, <1>2 DEF LockTypeInv
<1>4. LeaseInv' BY <1>1, <1>2 DEF LeaseInv
<1>5. RevInv' BY <1>1 DEF RevInv
<1>6. holders \subseteq Holder /\ o.rev \in Nat /\ origin \in [LockKeys -> Nat]
  BY <1>1 DEF LockTypeInv, Holder
<1>7. /\ \A j \in LockKeys, x \in holders : origin[j] # x.rev
      /\ \A i, j \in LockKeys : i # j /\ origin[i] = origin[j] => origin[i] = 0
  BY <1>1 DEF RevInv
<1>8. \A g \in holders : g.key = k => o.rev <= g.rev BY <1>6, <1>7, MineIsFirst
<1>9. \A h \in holders : h.lease = lk[l].lease /\ h.key = k => h = o BY <1>1 DEF RevInv
<1>10. FirstInv' BY <1>1, <1>2, <1>8, <1>9 DEF FirstInv, Identity
<1> QED BY <1>3, <1>4, <1>5, <1>10 DEF LockInv

LEMMA TxnKeeps == ASSUME LockInv, NEW l \in Lockers, LockTxn(l) PROVE LockInv'
<1>1. LockTypeInv /\ RevInv BY DEF LockInv
<1>2. lk[l] \in Locker /\ lk[l].pc = "txn" /\ lk[l].want \in LockKeys
      /\ (lk[l].keeper => lk[l].locked \in LockKeys)
  BY <1>1 DEF LockTypeInv, LockTxn
<1> DEFINE k == lk[l].want
           own == {h \in holders : h.key = k /\ h.lease = lk[l].lease}
           put == own = {} /\ lk[l].lease \in leases
           new == holders \cup {[key |-> k, lease |-> lk[l].lease, rev |-> lockRev + 1]}
           hs == IF put THEN new ELSE holders
           rev == IF put THEN lockRev + 1 ELSE Max({0} \cup {h.rev : h \in own})
           fail == [lk[l] EXCEPT !.pc = "cleanup", !.err = "etcd"]
           taken == [lk[l] EXCEPT !.pc = "cleanup", !.err = "locked"]
           got == [lk[l] EXCEPT !.pc = "callback", !.err = None]
<1>3. /\ \/ /\ holders' = hs /\ lockRev' = IF put THEN lockRev + 1 ELSE lockRev
            /\ \/ lk' = [lk EXCEPT ![l] = fail]
               \/ ~Mine(hs, k, rev) /\ lk' = [lk EXCEPT ![l] = taken]
               \/ /\ put \/ own # {}
                  /\ Mine(hs, k, rev) /\ lk' = [lk EXCEPT ![l] = got]
         \/ lk' = [lk EXCEPT ![l] = fail] /\ UNCHANGED <<holders, lockRev>>
      /\ UNCHANGED <<origin, granted, leases>>
  <2>1. /\ \/ /\ holders' = hs /\ lockRev' = IF put THEN lockRev + 1 ELSE lockRev
              /\ \/ /\ put \/ own # {}
                    /\ lk' = [lk EXCEPT ![l].pc = IF Mine(hs, k, rev) THEN "callback" ELSE "cleanup",
                                        ![l].err = IF Mine(hs, k, rev) THEN None ELSE "locked"]
                 \/ lk' = [lk EXCEPT ![l].pc = "cleanup", ![l].err = "etcd"]
           \/ /\ lk' = [lk EXCEPT ![l].pc = "cleanup", ![l].err = "etcd"]
              /\ UNCHANGED <<holders, lockRev>>
        /\ UNCHANGED <<origin, granted, leases>>
    BY Zenon DEF LockTxn
  <2> HIDE DEF hs, rev, put, own
  <2> QED BY <1>2, <2>1 DEF Locker
<1>4. /\ fail \in Locker /\ fail.pc = "cleanup" /\ fail.lease = lk[l].lease
      /\ fail.keeper = lk[l].keeper /\ fail.locked = lk[l].locked
  BY <1>2 DEF Locker, LockPcs
<1>5. /\ taken \in Locker /\ taken.pc = "cleanup" /\ taken.lease = lk[l].lease
      /\ taken.keeper = lk[l].keeper /\ taken.locked = lk[l].locked
  BY <1>2 DEF Locker, LockPcs
<1>6. /\ got \in Locker /\ got.pc = "callback" /\ got.lease = lk[l].lease /\ got.want = k
      /\ got.keeper = lk[l].keeper /\ got.locked = lk[l].locked
  BY <1>2 DEF Locker, LockPcs
<1> HIDE DEF fail, taken, got
<1>7. CASE UNCHANGED <<holders, lockRev>> /\ (lk' = [lk EXCEPT ![l] = fail] \/ lk' = [lk EXCEPT ![l] = taken])
  BY <1>2, <1>3, <1>4, <1>5, <1>7, ShrinkKeeps
<1>8. CASE put /\ holders' = new /\ lockRev' = lockRev + 1
  <2>1. lk[l].lease \in leases /\ own = {} BY <1>8
  <2>2. holders' = holders \cup {[key |-> k, lease |-> lk[l].lease, rev |-> lockRev + 1]} BY <1>8
  <2>3. lk' = [lk EXCEPT ![l] = got] \/ lk' = [lk EXCEPT ![l] = fail] \/ lk' = [lk EXCEPT ![l] = taken]
    BY <1>3
  <2>4. CASE lk' = [lk EXCEPT ![l] = fail]
    BY <1>2, <1>3, <1>4, <1>8, <2>1, <2>2, <2>4, PutKeeps
  <2>5. CASE lk' = [lk EXCEPT ![l] = taken]
    BY <1>2, <1>3, <1>5, <1>8, <2>1, <2>2, <2>5, PutKeeps
  <2>6. CASE lk' = [lk EXCEPT ![l] = got]
    <3>1. lk'[l] = got BY <1>1, <2>6 DEF LockTypeInv
    <3>2. got # fail /\ got # taken BY <1>4, <1>5, <1>6
    <3>3. Mine(hs, k, rev) BY <1>1, <1>3, <3>1, <3>2 DEF LockTypeInv
    <3>4. hs = holders' /\ rev = lockRev + 1 BY <1>8
    <3>5. Mine(holders', k, lockRev + 1) BY <3>3, <3>4
    <3> QED BY <1>2, <1>3, <1>6, <1>8, <2>1, <2>2, <2>6, <3>5, PutKeeps
  <2> QED BY <2>3, <2>4, <2>5, <2>6
<1>9. CASE ~put /\ own # {} /\ holders' = holders /\ lockRev' = lockRev /\ Mine(hs, k, rev)
           /\ lk' = [lk EXCEPT ![l] = got]
  <2>1. PICK o \in holders : o.key = k /\ o.lease = lk[l].lease BY <1>9
  <2>2. own = {o} BY <1>1, <2>1 DEF RevInv
  <2>3. o.rev \in Nat BY <1>1 DEF LockTypeInv, Holder
  <2>4. {0} \cup {h.rev : h \in own} = {0, o.rev} BY <2>2
  <2>5. Max({0, o.rev}) = o.rev BY <2>3 DEF Max
  <2>6. hs = holders /\ rev = o.rev BY <1>9, <2>4, <2>5
  <2>7. Mine(holders, k, o.rev) BY <1>9, <2>6
  <2>8. UNCHANGED <<origin, holders, lockRev, granted, leases>> BY <1>3, <1>9
  <2> HIDE DEF hs, rev, own, put
  <2> QED BY <1>2, <1>6, <1>9, <2>1, <2>7, <2>8, FoundKeeps
<1>10. \/ UNCHANGED <<holders, lockRev>> /\ (lk' = [lk EXCEPT ![l] = fail] \/ lk' = [lk EXCEPT ![l] = taken])
       \/ put /\ holders' = new /\ lockRev' = lockRev + 1
       \/ ~put /\ own # {} /\ holders' = holders /\ lockRev' = lockRev /\ Mine(hs, k, rev)
               /\ lk' = [lk EXCEPT ![l] = got]
  <2>1. CASE put BY <1>3, <2>1
  <2>2. CASE ~put BY <1>3, <2>2
  <2> QED BY <2>1, <2>2
<1> QED BY <1>7, <1>8, <1>9, <1>10

LEMMA LockInvStep == LockInv /\ [LockNext]_lockVars => LockInv'
<1> SUFFICES ASSUME LockInv, [LockNext]_lockVars PROVE LockInv' OBVIOUS
<1>1. ASSUME NEW l \in Lockers, NEW k \in LockKeys, TryLock(l, k) PROVE LockInv'
  BY <1>1, GrantKeeps DEF TryLock
<1>2. ASSUME NEW l \in Lockers, Relock(l) PROVE LockInv'
  <2>1. lk[l].locked \in LockKeys BY <1>2 DEF LockInv, LockTypeInv, Relock
  <2> QED BY <1>2, <2>1, GrantKeeps DEF Relock
<1>3. ASSUME NEW l \in Lockers, NEW ok \in BOOLEAN, Unlock(l, ok, FALSE) \/ KeyDeleted(l, ok)
      PROVE  LockInv'
  BY <1>3, UnlockKeeps DEF KeyDeleted
<1>4. CASE UNCHANGED lockVars
  BY <1>4 DEF lockVars, LockInv, LockTypeInv, LeaseInv, RevInv, FirstInv
<1> QED BY <1>1, <1>2, <1>3, <1>4, TxnKeeps, CallbackKeeps, KeepFailsKeeps, CleanupKeeps,
          ExpiresKeeps, ControlPlaneKeeps DEF LockNext

\* Two processes whose leases are alive never have one identity, for any number
\* of processes and identities, whatever answers were lost, leases expired and
\* holder keys stayed behind.
THEOREM LockExclusiveCorrect == LockSpec => []LockExclusive
<1>1. ASSUME LockInv PROVE LockExclusive
  <2> SUFFICES ASSUME NEW a \in Lockers, NEW b \in Lockers, HoldsLease(a), HoldsLease(b),
                      lk[a].locked = lk[b].locked
               PROVE  a = b
    BY DEF LockExclusive
  <2>1. PICK g \in holders : g.lease = lk[a].lease /\ g.key = lk[a].locked BY DEF HoldsLease
  <2>2. PICK h \in holders : h.lease = lk[b].lease /\ h.key = lk[b].locked BY DEF HoldsLease
  <2>3. /\ lk[a].pc = "idle" /\ lk[a].lease # 0 /\ lk[b].pc = "idle" /\ lk[b].lease # 0
        /\ g.rev \in Nat /\ h.rev \in Nat
    BY <1>1 DEF LockInv, LockTypeInv, HoldsLease, Holder
  <2>4. g.rev <= h.rev /\ h.rev <= g.rev BY <1>1, <2>1, <2>2, <2>3 DEF LockInv, FirstInv, Identity
  <2>5. g = h BY <1>1, <2>3, <2>4 DEF LockInv, RevInv
  <2> QED BY <1>1, <2>1, <2>2, <2>3, <2>5 DEF LockInv, LeaseInv
<1> QED BY <1>1, LockInvInit, LockInvStep, PTL DEF LockSpec

------------------------------------------------------------------------------
(* ProxyClient: what runs at most once                                        *)

\* The user's code has not run while a further attempt may follow.
InvInv ==
    /\ inv = [pc |-> inv.pc, tries |-> inv.tries, force |-> inv.force, woken |-> inv.woken,
              owner |-> inv.owner, addr |-> inv.addr, runs |-> inv.runs, resp |-> inv.resp]
    /\ inv.runs \in {0, 1} /\ (inv.pc # "done" => inv.runs = 0)

\* Only the proxy a create was last sent to can have accepted it, and none has
\* when another one is chosen.
CrInv ==
    /\ cr = [pc |-> cr.pc, tried |-> cr.tried, addr |-> cr.addr, accepted |-> cr.accepted,
             resp |-> cr.resp]
    /\ cr.accepted \subseteq {cr.addr} \/ (cr.pc = "done" /\ \E p : cr.accepted \subseteq {p})
    /\ cr.pc \in {"idle", "select"} => cr.accepted = {}

LEMMA InvInvStep == InvInv /\ [ProxyNext]_proxyVars => InvInv'
<1> SUFFICES ASSUME InvInv, [ProxyNext]_proxyVars PROVE InvInv' OBVIOUS
<1>1. CASE UNCHANGED inv BY <1>1 DEF InvInv
<1>2. CASE Notify BY <1>2 DEF InvInv, Notify
<1>3. CASE StartAttempt BY <1>3 DEF InvInv, StartAttempt, Attempted, NoInv
<1>4. CASE WaitInstance BY <1>4 DEF InvInv, WaitInstance
<1>5. CASE Poll BY <1>5 DEF InvInv, Poll
<1>6. CASE RouteTimeout BY <1>6 DEF InvInv, RouteTimeout, Attempted, NoInv
<1>7. CASE SendInvoke BY <1>7 DEF InvInv, SendInvoke, Attempted, NoInv
<1>8. CASE InvokeAnswer
  <2>1. PICK a \in Answers, ran \in BOOLEAN :
          /\ ran => a \in MayHaveRun
          /\ inv' = Attempted([inv EXCEPT !.runs = @ + (IF ran THEN 1 ELSE 0)],
                              a # "ok" /\ Retryable(a), IF a = "ok" THEN "ok" ELSE "error")
          /\ inv.pc = "sent"
    BY <1>8 DEF InvokeAnswer
  <2>2. Retryable(a) => ~ran BY <2>1 DEF Retryable, MayHaveRun
  <2> DEFINE i == [inv EXCEPT !.runs = @ + (IF ran THEN 1 ELSE 0)]
             v == IF a = "ok" THEN "ok" ELSE "error"
  <2>3. i.runs \in {0, 1} /\ (~ran => i.runs = 0) BY <2>1 DEF InvInv
  <2> HIDE DEF i, v
  <2>4. \/ ~ran /\ inv' = [NoInv EXCEPT !.pc = "start", !.tries = i.tries, !.runs = i.runs]
        \/ inv' = [NoInv EXCEPT !.pc = "done", !.runs = i.runs, !.resp = v]
    BY <2>1, <2>2 DEF Attempted, i, v
  <2> QED BY <2>3, <2>4 DEF InvInv, NoInv
<1> QED BY <1>1, <1>2, <1>3, <1>4, <1>5, <1>6, <1>7, <1>8
        DEF ProxyNext, proxyVars, KernelMove, ProxyRegisters, WatchInstance, WatchSummary, HintExpires,
            WatchRegistration, ReplayRegistration, SuspectExpires, SelectCreate, AcceptCreate,
            CreateAnswer, StartKill, ResolveKill, KillAnswer, CrVars, KlVars

LEMMA CrInvStep == CrInv /\ [ProxyNext]_proxyVars => CrInv'
<1> SUFFICES ASSUME CrInv, [ProxyNext]_proxyVars PROVE CrInv' OBVIOUS
<1>1. CASE UNCHANGED cr BY <1>1 DEF CrInv
<1>2. CASE SelectCreate
  <2>1. cr.accepted = {} BY <1>2 DEF CrInv, SelectCreate
  <2> QED BY <1>2, <2>1 DEF CrInv, SelectCreate, Created, NoCr
<1>3. CASE AcceptCreate BY <1>3 DEF CrInv, AcceptCreate
<1>4. CASE CreateAnswer
  <2>1. PICK a \in Answers :
          /\ cr.pc = "sent" /\ (a \in Refused => cr.addr \notin cr.accepted)
          /\ cr' = IF a = "ok" THEN Created(cr, "ok")
                   ELSE IF TryNext(a) THEN [cr EXCEPT !.pc = "select"]
                   ELSE Created(cr, "error")
    BY <1>4 DEF CreateAnswer
  <2>2. TryNext(a) => cr.accepted = {} BY <2>1 DEF TryNext, Refused, CrInv
  <2> QED BY <2>1, <2>2 DEF CrInv, Created, NoCr
<1> QED BY <1>1, <1>2, <1>3, <1>4
        DEF ProxyNext, proxyVars, KernelMove, ProxyRegisters, WatchInstance, Notify, WatchSummary,
            HintExpires, WatchRegistration, ReplayRegistration, SuspectExpires, StartAttempt,
            WaitInstance, Poll, RouteTimeout, SendInvoke, InvokeAnswer, InvVars, StartKill,
            ResolveKill, KillAnswer, KlVars

\* The user's code runs at most once for an invocation and a create starts at
\* most one instance, for any number of proxies, retries and answers lost, and
\* whatever the watches report meanwhile.
THEOREM NothingRunsTwiceCorrect == ProxySpec => []NothingRunsTwice
<1>1. ProxyInit => InvInv /\ CrInv BY DEF ProxyInit, InvInv, CrInv, NoInv, NoCr
<1>2. ASSUME InvInv, CrInv PROVE NothingRunsTwice
  <2>1. inv.runs <= 1 BY <1>2 DEF InvInv
  <2>2. PICK p : cr.accepted \subseteq {p} BY <1>2 DEF CrInv
  <2>3. cr.accepted = {} \/ cr.accepted = {p} BY <2>2
  <2>4. Cardinality({}) = 0 /\ Cardinality({p}) = 1 BY FS_EmptySet, FS_Singleton
  <2>5. Cardinality(cr.accepted) <= 1
    <3>1. CASE cr.accepted = {} BY <2>4, <3>1
    <3>2. CASE cr.accepted = {p} BY <2>4, <3>2
    <3> QED BY <2>3, <3>1, <3>2
  <2> QED BY <2>1, <2>5 DEF NothingRunsTwice, AtMostOnce, CreateAtMostOnce
<1> QED BY <1>1, <1>2, InvInvStep, CrInvStep, PTL DEF ProxySpec

------------------------------------------------------------------------------
(* ProxyClient: the watches                                                   *)

\* The discovery cache is what the newest event of each node left.
Registration == [node : Proxies, caps : SUBSET {"invoke", "create", "kill"}]
DiscInv ==
    /\ rlog \in Seq(Registration) /\ rpos \in 0..Len(rlog)
    /\ DOMAIN eps = Proxies /\ revisions \in [Proxies -> 0..Len(rlog)]
    /\ EndpointNewest

WakeInv == InvInv /\ inv.force \in BOOLEAN /\ inv.woken \in BOOLEAN /\ NoLostWakeup

\* The sequence of a finite set lists each element once.
LEMMA SetToSeqLists ==
    ASSUME NEW S, IsFiniteSet(S)
    PROVE  /\ SetToSeq(S) \in Seq(S) /\ Len(SetToSeq(S)) = Cardinality(S)
           /\ \A x \in S : \E i \in 1..Len(SetToSeq(S)) : SetToSeq(S)[i] = x
           /\ \A i, j \in 1..Len(SetToSeq(S)) : SetToSeq(S)[i] = SetToSeq(S)[j] => i = j
<1> DEFINE n == Cardinality(S)
           f == SetToSeq(S)
<1>1. n \in Nat /\ ExistsBijection(1..n, S) BY FS_CardinalityType
<1>2. \E g \in [1..n -> S] : IsInjective(g)
  BY <1>1 DEF ExistsBijection, Bijection, Injection, IsInjective
<1>3. f \in [1..n -> S] /\ IsInjective(f) BY <1>2 DEF SetToSeq
<1> HIDE DEF f, n
<1>4. f \in Seq(S) /\ Len(f) = n BY <1>1, <1>3
<1>5. \A i, j \in 1..n : f[i] = f[j] => i = j BY <1>3 DEF IsInjective
<1>6. \A x \in S : \E i \in 1..n : f[i] = x
  <2>1. Cardinality(1..n) = n BY <1>1, FS_Interval
  <2>2. f \in Injection(1..n, S) BY <1>3, <1>5 DEF Injection
  <2>3. f \in Surjection(1..n, S) BY <2>1, <2>2, FS_Injection DEF n
  <2> QED BY <2>3 DEF Surjection
<1> QED BY <1>4, <1>5, <1>6 DEF f, n

LEMMA DiscInvInit == ProxyInit => DiscInv
<1> SUFFICES ASSUME ProxyInit PROVE DiscInv OBVIOUS
<1> DEFINE all == {"invoke", "create", "kill"}
           S == {[node |-> p, caps |-> all] : p \in Proxies}
           f == [p \in Proxies |-> [node |-> p, caps |-> all]]
<1>1. IsFiniteSet(S)
  <2>1. f \in Surjection(Proxies, S) BY DEF Surjection
  <2> HIDE DEF f, S
  <2> QED BY <2>1, ProxiesAssumption, FS_Surjection
<1>2. S \subseteq Registration BY DEF Registration
<1>3. rlog = SetToSeq(S) /\ rpos = Len(rlog) BY DEF ProxyInit
<1>4. \A p \in Proxies : [node |-> p, caps |-> all] \in S OBVIOUS
<1>5. \A x \in S : x.caps = all /\ x = [node |-> x.node, caps |-> all] OBVIOUS
<1>6. eps = [p \in Proxies |-> all] BY DEF ProxyInit
<1> HIDE DEF S, all
<1>7. /\ rlog \in Seq(S)
      /\ \A x \in S : \E i \in 1..Len(rlog) : rlog[i] = x
      /\ \A i, j \in 1..Len(rlog) : rlog[i] = rlog[j] => i = j
  BY <1>1, <1>3, SetToSeqLists
<1>8. rlog \in Seq(Registration) /\ Len(rlog) \in Nat BY <1>2, <1>7
<1>9. \A i \in 1..Len(rlog) : rlog[i] \in S BY <1>7
<1>10. \A p \in Proxies : \E r \in 1..rpos : rlog[r].node = p
  <2> SUFFICES ASSUME NEW p \in Proxies PROVE \E r \in 1..rpos : rlog[r].node = p OBVIOUS
  <2>1. PICK r \in 1..rpos : rlog[r] = [node |-> p, caps |-> all] BY <1>3, <1>4, <1>7
  <2> QED BY <2>1
<1>11. /\ revisions = [p \in Proxies |-> CHOOSE r \in 1..rpos : rlog[r].node = p]
  BY DEF ProxyInit
<1>12. \A p \in Proxies : revisions[p] \in 1..rpos /\ rlog[revisions[p]].node = p BY <1>10, <1>11
<1>13. revisions \in [Proxies -> 0..Len(rlog)] BY <1>3, <1>8, <1>11, <1>12
<1>14. EndpointNewest
  <2> SUFFICES ASSUME NEW p \in Proxies
               PROVE  /\ eps[p] = IF revisions[p] = 0 THEN {} ELSE rlog[revisions[p]].caps
                      /\ \A r \in 1..rpos : rlog[r].node = p => r <= revisions[p]
    BY DEF EndpointNewest
  <2>1. revisions[p] \in 1..rpos /\ rlog[revisions[p]] \in S /\ revisions[p] # 0
    BY <1>3, <1>8, <1>9, <1>12
  <2>2. eps[p] = rlog[revisions[p]].caps BY <1>5, <1>6, <2>1
  <2>3. ASSUME NEW r \in 1..rpos, rlog[r].node = p PROVE r <= revisions[p]
    <3>1. rlog[r] = rlog[revisions[p]] BY <1>3, <1>5, <1>9, <1>12, <2>1, <2>3
    <3>2. r = revisions[p] BY <1>3, <1>7, <2>1, <3>1
    <3> QED BY <1>8, <1>3, <2>1, <3>2
  <2> QED BY <2>1, <2>2, <2>3
<1> QED BY <1>3, <1>6, <1>8, <1>13, <1>14 DEF DiscInv

\* An event of the log, new or replayed.
LEMMA RegistrationHandled ==
    ASSUME DiscInv, NEW r \in 1..Len(rlog), HandleRegistration(r), UNCHANGED rlog,
           rpos' = rpos \/ (rpos' = rpos + 1 /\ r = rpos + 1)
    PROVE  DiscInv'
<1> DEFINE n == rlog[r].node
<1>1. rlog \in Seq(Registration) /\ rlog[r] \in Registration /\ n \in Proxies /\ Len(rlog) \in Nat
  <2>1. rlog \in Seq(Registration) /\ rlog[r] \in Registration /\ Len(rlog) \in Nat BY DEF DiscInv
  <2> QED BY <2>1 DEF Registration
<1>2. \/ revisions[n] > r /\ UNCHANGED <<eps, revisions>>
      \/ /\ ~(revisions[n] > r) /\ revisions' = [revisions EXCEPT ![n] = r]
         /\ eps' = [eps EXCEPT ![n] = rlog[r].caps]
  BY DEF HandleRegistration, Upsert, Delete, Newest
<1>3. DOMAIN eps' = Proxies /\ revisions' \in [Proxies -> 0..Len(rlog)] BY <1>1, <1>2 DEF DiscInv
<1>4. rpos' \in 0..Len(rlog) BY <1>1 DEF DiscInv
<1>5. EndpointNewest'
  <2> SUFFICES ASSUME NEW p \in Proxies
               PROVE  /\ eps'[p] = IF revisions'[p] = 0 THEN {} ELSE rlog[revisions'[p]].caps
                      /\ \A i \in 1..rpos' : rlog[i].node = p => i <= revisions'[p]
    BY DEF EndpointNewest
  <2>1. /\ eps[p] = IF revisions[p] = 0 THEN {} ELSE rlog[revisions[p]].caps
        /\ \A i \in 1..rpos : rlog[i].node = p => i <= revisions[p]
        /\ revisions[p] \in Nat /\ rpos \in Nat /\ DOMAIN eps = Proxies
        /\ revisions \in [Proxies -> 0..Len(rlog)]
    BY DEF DiscInv, EndpointNewest
  <2>2. CASE p # n
    <3>1. eps'[p] = eps[p] /\ revisions'[p] = revisions[p] BY <1>2, <2>1, <2>2
    <3>2. \A i \in 1..rpos' : i \in 1..rpos \/ i = r BY <2>1
    <3> QED BY <2>1, <2>2, <3>1, <3>2
  <2>3. CASE p = n /\ revisions[n] > r BY <1>1, <1>2, <2>1, <2>3
  <2>4. CASE p = n /\ ~(revisions[n] > r) BY <1>1, <1>2, <2>1, <2>4
  <2> QED BY <2>2, <2>3, <2>4
<1> QED BY <1>1, <1>3, <1>4, <1>5 DEF DiscInv

LEMMA DiscInvStep == DiscInv /\ [ProxyNext]_proxyVars => DiscInv'
<1> SUFFICES ASSUME DiscInv, [ProxyNext]_proxyVars PROVE DiscInv' OBVIOUS
<1>1. CASE UNCHANGED <<rlog, rpos, eps, revisions>> BY <1>1 DEF DiscInv, EndpointNewest
<1>2. CASE ProxyRegisters
  <2>1. PICK p \in Proxies, caps \in SUBSET {"invoke", "create", "kill"} :
          rlog' = Append(rlog, [node |-> p, caps |-> caps])
    BY <1>2, ProxiesAssumption DEF ProxyRegisters
  <2>2. [node |-> p, caps |-> caps] \in Registration BY DEF Registration
  <2>3. UNCHANGED <<rpos, eps, revisions>> BY <1>2 DEF ProxyRegisters
  <2>4. rlog \in Seq(Registration) /\ rpos \in 0..Len(rlog) /\ Len(rlog) \in Nat BY DEF DiscInv
  <2>5. /\ rlog' \in Seq(Registration) /\ Len(rlog') = Len(rlog) + 1
        /\ \A i \in 1..Len(rlog) : rlog'[i] = rlog[i]
    BY <2>1, <2>2, <2>4
  <2>6. revisions' \in [Proxies -> 0..Len(rlog')] /\ rpos' \in 0..Len(rlog')
    BY <2>3, <2>4, <2>5 DEF DiscInv
  <2>7. EndpointNewest' BY <2>3, <2>4, <2>5 DEF DiscInv, EndpointNewest
  <2> QED BY <2>3, <2>5, <2>6, <2>7 DEF DiscInv
<1>3. CASE WatchRegistration
  <2>1. rpos + 1 \in 1..Len(rlog) BY <1>3 DEF WatchRegistration, DiscInv
  <2> DEFINE r == rpos + 1
  <2>2. HandleRegistration(r) /\ rpos' = rpos + 1 /\ r = rpos + 1 /\ UNCHANGED rlog
    BY <1>3 DEF WatchRegistration
  <2> HIDE DEF r
  <2> QED BY <2>1, <2>2, RegistrationHandled DEF r
<1>4. CASE ReplayRegistration
  BY <1>4, RegistrationHandled DEF ReplayRegistration
<1> QED BY <1>1, <1>2, <1>3, <1>4
        DEF ProxyNext, proxyVars, instVars, discVars, KernelMove, WatchInstance, Notify, WatchSummary,
            HintExpires, SuspectExpires, StartAttempt, WaitInstance, Poll, RouteTimeout, SendInvoke,
            InvokeAnswer, InvVars, SelectCreate, AcceptCreate, CreateAnswer, CrVars, StartKill,
            ResolveKill, KillAnswer, KlVars

\* A waiter that goes to sleep has looked at the maps in the same step, and an
\* update that adds to them has yet to notify.
LEMMA WakeInvStep == WakeInv /\ [ProxyNext]_proxyVars => WakeInv'
<1> SUFFICES ASSUME WakeInv, [ProxyNext]_proxyVars PROVE WakeInv' OBVIOUS
<1>0. InvInv' BY InvInvStep DEF WakeInv
<1>1. CASE UNCHANGED <<inv, wmap, evicting, notify>> BY <1>0, <1>1 DEF WakeInv, NoLostWakeup
<1>2. CASE WatchInstance
  <2>1. UNCHANGED inv BY <1>2 DEF WatchInstance
  <2> DEFINE w == ilog[ipos + 1]
  <2>2. /\ IF w.st = "running" THEN Running(w) ELSE NotRunning(w)
        /\ notify' = Notifies(w)
    BY <1>2 DEF WatchInstance
  <2> HIDE DEF w
  <2>3. CASE w.st \in {"running", "evicting"}
    <3>1. notify' BY <2>2, <2>3 DEF Notifies
    <3> QED BY <1>0, <2>1, <3>1 DEF WakeInv, NoLostWakeup
  <2>4. CASE w.st \notin {"running", "evicting"}
    <3>1. wmap' = None /\ evicting' = None BY <2>2, <2>4 DEF NotRunning
    <3> QED BY <1>0, <2>1, <3>1 DEF WakeInv, NoLostWakeup
  <2> QED BY <2>3, <2>4
<1>3. CASE Notify
  <2>1. inv' = [inv EXCEPT !.woken = (inv.pc = "blocked")] BY <1>3 DEF Notify
  <2> DEFINE b == inv.pc = "blocked"
  <2>2. inv'.pc = inv.pc /\ inv'.force = inv.force /\ inv'.woken = b BY <2>1 DEF WakeInv, InvInv
  <2> QED BY <1>0, <2>2 DEF WakeInv, NoLostWakeup
<1>4. CASE WaitInstance
  <2>1. UNCHANGED <<wmap, evicting, notify>> BY <1>4 DEF WaitInstance, InvVars, instVars
  <2>2. CASE OwnerOf(inv.force) = None
    <3>1. inv' = [inv EXCEPT !.pc = "blocked", !.woken = FALSE] BY <1>4, <2>2 DEF WaitInstance
    <3>2. inv'.force = inv.force /\ ~inv'.woken /\ inv'.woken \in BOOLEAN BY <3>1 DEF WakeInv, InvInv
    <3>3. wmap = None /\ (inv.force => evicting = None) BY <2>2 DEF OwnerOf, Owner
    <3> QED BY <1>0, <2>1, <3>2, <3>3 DEF WakeInv, NoLostWakeup
  <2>3. CASE OwnerOf(inv.force) # None
    <3>1. inv' = [inv EXCEPT !.pc = "poll", !.woken = FALSE, !.owner = OwnerOf(inv.force)]
      BY <1>4, <2>3 DEF WaitInstance
    <3>2. inv'.force = inv.force /\ inv'.pc = "poll" /\ inv'.woken \in BOOLEAN
      BY <3>1 DEF WakeInv, InvInv
    <3> QED BY <1>0, <3>2 DEF WakeInv, NoLostWakeup
  <2> QED BY <2>2, <2>3
<1>5. CASE inv'.pc # "blocked" /\ inv'.force \in BOOLEAN /\ inv'.woken \in BOOLEAN
  BY <1>0, <1>5 DEF WakeInv, NoLostWakeup
<1>6. \A i, again, resp : /\ Attempted(i, again, resp).pc \in {"start", "done"}
                          /\ Attempted(i, again, resp).force = FALSE
                          /\ Attempted(i, again, resp).woken = FALSE
  BY DEF Attempted, NoInv
<1>7. CASE StartAttempt
  <2>1. CASE \E f \in BOOLEAN : inv' = [[inv EXCEPT !.pc = "wait", !.tries = @ + 1] EXCEPT !.force = f]
    BY <1>5, <2>1 DEF WakeInv, InvInv
  <2>2. CASE inv' = Attempted([inv EXCEPT !.pc = "wait", !.tries = @ + 1], FALSE, "error")
    BY <1>5, <1>6, <2>2
  <2> QED BY <1>7, <2>1, <2>2 DEF StartAttempt
<1>8. CASE Poll
  <2>1. \/ inv' = [inv EXCEPT !.pc = "send", !.addr = inv.owner]
        \/ inv' = [inv EXCEPT !.owner = OwnerOf(inv.force)] \/ inv' = inv
    BY <1>8 DEF Poll
  <2>2. inv.pc = "poll" BY <1>8 DEF Poll
  <2> QED BY <1>5, <2>1, <2>2 DEF WakeInv, InvInv
<1>9. CASE RouteTimeout BY <1>5, <1>6, <1>9 DEF RouteTimeout
<1>10. CASE SendInvoke
  <2>1. CASE inv' = Attempted(inv, TRUE, "error") BY <1>5, <1>6, <2>1
  <2>2. CASE inv' = [inv EXCEPT !.pc = "sent"] BY <1>5, <2>2 DEF WakeInv, InvInv
  <2> QED BY <1>10, <2>1, <2>2 DEF SendInvoke
<1>11. CASE InvokeAnswer
  <2>1. \E i, again, resp : inv' = Attempted(i, again, resp) BY <1>11 DEF InvokeAnswer
  <2> QED BY <1>5, <1>6, <2>1
<1> QED BY <1>1, <1>2, <1>3, <1>4, <1>7, <1>8, <1>9, <1>10, <1>11
        DEF ProxyNext, proxyVars, instVars, discVars, KernelMove, ProxyRegisters, WatchSummary,
            HintExpires, WatchRegistration, ReplayRegistration, SuspectExpires, SelectCreate,
            AcceptCreate, CreateAnswer, CrVars, StartKill, ResolveKill, KillAnswer, KlVars

\* A waiter never sleeps through the update it waits for, and whatever the watch
\* of the registrations replays, the endpoint of a proxy is the one of its
\* newest event: for any number of proxies and events.
THEOREM WatchesAreHeededCorrect == ProxySpec => []WatchesAreHeeded
<1>1. ProxyInit => WakeInv BY DEF ProxyInit, WakeInv, InvInv, NoInv, NoLostWakeup
<1>2. WakeInv /\ DiscInv => WatchesAreHeeded BY DEF WakeInv, DiscInv, WatchesAreHeeded
<1> QED BY <1>1, <1>2, WakeInvStep, DiscInvInit, DiscInvStep, PTL DEF ProxySpec

------------------------------------------------------------------------------
(* Terminal                                                                   *)

\* The sessions that count on the connection of an address.
HoldersOf(a) == {o \in Sessions : Holds(o) /\ sess[o].addr = a}
HoldPcs == {"upgrading", "sizing", "starting", "running"}

SessTypeInv ==
    /\ DOMAIN sess = Sessions /\ \A s \in Sessions : DOMAIN sess[s] = DOMAIN NoSession
    /\ DOMAIN located = {"paused", "local", "master", "moves"}
    /\ located.local \in Addrs \cup {None} /\ located.master \in Addrs
    /\ \A s \in Sessions : sess[s].pc = "connecting" \/ Holds(s) => sess[s].addr \in Addrs

\* An entry of the pool has a connection of its own that is open, counts the
\* sessions that hold it, and is there as long as one does.
PoolInv ==
    /\ grpcPool \in [Addrs -> [conn : Nat, refCnt : Nat]]
    /\ grpcConns \in [made : Nat, closed : SUBSET Nat]
    /\ \A n \in grpcConns.closed : n <= grpcConns.made
    /\ \A a \in Addrs : /\ grpcPool[a].conn <= grpcConns.made
                        /\ grpcPool[a].conn # 0 => grpcPool[a].conn \notin grpcConns.closed
                        /\ grpcPool[a].refCnt = Cardinality(HoldersOf(a))
                        /\ grpcPool[a].conn = 0 => HoldersOf(a) = {}
    /\ \A a, b \in Addrs : a # b /\ grpcPool[a].conn = grpcPool[b].conn => grpcPool[a].conn = 0
    /\ \A s \in Sessions : Holds(s) => sess[s].conn = grpcPool[sess[s].addr].conn

TermInv == SessTypeInv /\ PoolInv

\* A step of one session that neither takes nor gives back a connection.
LEMMA QuietSession ==
    ASSUME TermInv, NEW s \in Sessions, NEW r, sess' = [sess EXCEPT ![s] = r],
           DOMAIN r = DOMAIN NoSession, UNCHANGED <<located, grpcPool, grpcConns>>,
           r.pc \in HoldPcs <=> Holds(s),
           Holds(s) => r.addr = sess[s].addr /\ r.conn = sess[s].conn,
           r.pc = "connecting" => r.addr \in Addrs
    PROVE  TermInv'
<1>1. SessTypeInv /\ PoolInv BY DEF TermInv
<1>2. sess'[s] = r /\ DOMAIN sess' = Sessions /\ \A o \in Sessions : o # s => sess'[o] = sess[o]
  BY <1>1 DEF SessTypeInv
<1>3. \A o \in Sessions : Holds(o)' <=> Holds(o) BY <1>2 DEF Holds, HoldPcs
<1>4. \A o \in Sessions : Holds(o) => sess'[o].addr = sess[o].addr /\ sess'[o].conn = sess[o].conn
  BY <1>2
<1>5. \A a : HoldersOf(a)' = HoldersOf(a) BY <1>3, <1>4 DEF HoldersOf
<1>6. SessTypeInv' BY <1>1, <1>2, <1>3, <1>4 DEF SessTypeInv
<1>7. PoolInv' BY <1>1, <1>3, <1>4, <1>5 DEF PoolInv
<1> QED BY <1>6, <1>7 DEF TermInv

\* A session takes the connection of an address.
LEMMA ConnectKeeps == ASSUME TermInv, NEW s \in Sessions, Connect(s) PROVE TermInv'
<1>1. SessTypeInv /\ PoolInv BY DEF TermInv
<1>0. PICK a : a = sess[s].addr OBVIOUS
<1> DEFINE r == [sess[s] EXCEPT !.pc = "upgrading", !.conn = grpcPool'[a].conn]
<1>2. /\ sess[s].pc = "connecting" /\ AcquireGrpcConn(a) /\ sess' = [sess EXCEPT ![s] = r]
      /\ UNCHANGED located
  BY <1>0 DEF Connect, SessionAt, Set1
<1>3. a \in Addrs /\ ~Holds(s) BY <1>0, <1>1, <1>2 DEF SessTypeInv, Holds
<1>4. /\ DOMAIN r = DOMAIN NoSession /\ r.pc = "upgrading" /\ r.addr = a
      /\ r.conn = grpcPool'[a].conn
  BY <1>0, <1>1 DEF SessTypeInv, NoSession
<1> HIDE DEF r
<1>5. sess'[s] = r /\ DOMAIN sess' = Sessions /\ \A o \in Sessions : o # s => sess'[o] = sess[o]
  BY <1>1, <1>2 DEF SessTypeInv
<1>6. Holds(s)' /\ \A o \in Sessions : o # s => (Holds(o)' <=> Holds(o))
  BY <1>4, <1>5 DEF Holds
<1>7. HoldersOf(a)' = HoldersOf(a) \cup {s} /\ s \notin HoldersOf(a)
  BY <1>3, <1>4, <1>5, <1>6 DEF HoldersOf
<1>8. \A b : b # a => HoldersOf(b)' = HoldersOf(b)
  BY <1>3, <1>4, <1>5, <1>6 DEF HoldersOf
<1>9. Cardinality(HoldersOf(a)') = Cardinality(HoldersOf(a)) + 1 /\ Cardinality(HoldersOf(a)) \in Nat
  <2>1. IsFiniteSet(HoldersOf(a)) BY SessionsAssumption, FS_Subset DEF HoldersOf
  <2> QED BY <1>7, <2>1, FS_AddElement, FS_CardinalityType
<1>10. SessTypeInv' BY <1>1, <1>2, <1>3, <1>4, <1>5, <1>6 DEF SessTypeInv
<1>11. CASE grpcPool[a].conn # 0
  <2>1. grpcPool' = [grpcPool EXCEPT ![a].refCnt = @ + 1] /\ UNCHANGED grpcConns
    BY <1>2, <1>11 DEF AcquireGrpcConn
  <2>2. /\ grpcPool'[a] = [conn |-> grpcPool[a].conn, refCnt |-> grpcPool[a].refCnt + 1]
        /\ \A b \in Addrs : b # a => grpcPool'[b] = grpcPool[b]
        /\ grpcPool' \in [Addrs -> [conn : Nat, refCnt : Nat]]
    BY <1>1, <1>3, <2>1 DEF PoolInv
  <2>3. \A b \in Addrs : grpcPool'[b].conn = grpcPool[b].conn BY <2>2
  <2>4. \A o \in Sessions : Holds(o)' => sess'[o].conn = grpcPool'[sess'[o].addr].conn
    BY <1>1, <1>4, <1>5, <1>6, <2>3 DEF PoolInv, SessTypeInv
  <2>5. \A b \in Addrs : /\ grpcPool'[b].refCnt = Cardinality(HoldersOf(b)')
                         /\ grpcPool'[b].conn = 0 => HoldersOf(b)' = {}
    <3>1. grpcPool'[a].refCnt = Cardinality(HoldersOf(a)') /\ grpcPool'[a].conn # 0
      BY <1>1, <1>3, <1>9, <1>11, <2>2 DEF PoolInv
    <3>2. \A b \in Addrs : b # a => /\ grpcPool[b].refCnt = Cardinality(HoldersOf(b)')
                                    /\ grpcPool[b].conn = 0 => HoldersOf(b)' = {}
      BY <1>1, <1>8 DEF PoolInv
    <3> QED BY <2>2, <3>1, <3>2
  <2>6. PoolInv' BY <1>1, <2>1, <2>2, <2>3, <2>4, <2>5 DEF PoolInv
  <2> QED BY <1>10, <2>6 DEF TermInv
<1>12. CASE grpcPool[a].conn = 0
  <2> DEFINE n == grpcConns.made + 1
  <2>1. /\ grpcConns' = [grpcConns EXCEPT !.made = @ + 1]
        /\ grpcPool' = [grpcPool EXCEPT ![a] = [conn |-> grpcConns.made + 1, refCnt |-> 1]]
    BY <1>2, <1>12 DEF AcquireGrpcConn
  <2>2. grpcConns.made \in Nat /\ n \in Nat /\ n # 0 /\ grpcConns.closed \in SUBSET Nat
    BY <1>1 DEF PoolInv
  <2>3. /\ grpcConns' \in [made : Nat, closed : SUBSET Nat] /\ grpcConns'.made = n
        /\ grpcConns'.closed = grpcConns.closed
    BY <1>1, <2>1, <2>2 DEF PoolInv
  <2>4. /\ grpcPool'[a] = [conn |-> n, refCnt |-> 1]
        /\ \A b \in Addrs : b # a => grpcPool'[b] = grpcPool[b]
        /\ grpcPool' \in [Addrs -> [conn : Nat, refCnt : Nat]]
    BY <1>1, <1>3, <2>1, <2>2 DEF PoolInv
  <2> HIDE DEF n
  <2>5. HoldersOf(a) = {} BY <1>1, <1>3, <1>12 DEF PoolInv
  <2>6. grpcPool[a].refCnt = 0 /\ Cardinality(HoldersOf(a)') = 1
    BY <1>1, <1>3, <1>9, <2>5, FS_EmptySet DEF PoolInv
  <2>7. \A o \in Sessions : Holds(o)' => sess'[o].conn = grpcPool'[sess'[o].addr].conn
    <3>1. \A o \in Sessions : Holds(o) => sess[o].addr # a BY <2>5 DEF HoldersOf
    <3> QED BY <1>1, <1>4, <1>5, <1>6, <2>4, <3>1 DEF PoolInv, SessTypeInv
  <2>8. \A b \in Addrs : /\ grpcPool'[b].refCnt = Cardinality(HoldersOf(b)')
                         /\ grpcPool'[b].conn = 0 => HoldersOf(b)' = {}
    <3>1. \A b \in Addrs : b # a => /\ grpcPool[b].refCnt = Cardinality(HoldersOf(b)')
                                    /\ grpcPool[b].conn = 0 => HoldersOf(b)' = {}
      BY <1>1, <1>8 DEF PoolInv
    <3> QED BY <2>2, <2>4, <2>6, <3>1
  <2>9. \A b \in Addrs : grpcPool[b].conn \in Nat /\ grpcPool[b].conn <= grpcConns.made
    BY <1>1 DEF PoolInv
  <2>10. \A b \in Addrs : /\ grpcPool'[b].conn <= n
                          /\ grpcPool'[b].conn # 0 => grpcPool'[b].conn \notin grpcConns.closed
    <3>1. n \notin grpcConns.closed /\ \A m \in grpcConns.closed : m <= n
      BY <1>1, <2>2 DEF PoolInv, n
    <3>2. \A b \in Addrs : grpcPool[b].conn <= n BY <2>2, <2>9 DEF n
    <3> QED BY <1>1, <2>2, <2>4, <3>1, <3>2 DEF PoolInv
  <2>11. \A b, c \in Addrs : b # c /\ grpcPool'[b].conn = grpcPool'[c].conn => grpcPool'[b].conn = 0
    <3>1. \A b \in Addrs : grpcPool[b].conn # n BY <2>2, <2>9 DEF n
    <3> QED BY <1>1, <2>4, <3>1 DEF PoolInv
  <2>12. \A m \in grpcConns'.closed : m <= grpcConns'.made
    BY <1>1, <2>2, <2>3 DEF PoolInv, n
  <2>13. PoolInv' BY <2>3, <2>4, <2>7, <2>8, <2>10, <2>11, <2>12 DEF PoolInv
  <2> QED BY <1>10, <2>13 DEF TermInv
<1> QED BY <1>11, <1>12

\* A session ends and gives its connection back; the last one closes it.
LEMMA ReleaseKeeps ==
    ASSUME TermInv, NEW s \in Sessions, NEW r, Holds(s), sess' = [sess EXCEPT ![s] = r],
           DOMAIN r = DOMAIN NoSession, r.pc = "ended", ReleaseGrpcConn(sess[s].addr), UNCHANGED located
    PROVE  TermInv'
<1>1. SessTypeInv /\ PoolInv BY DEF TermInv
<1>2. PICK a \in Addrs : a = sess[s].addr BY <1>1 DEF SessTypeInv
<1>3. sess'[s] = r /\ DOMAIN sess' = Sessions /\ \A o \in Sessions : o # s => sess'[o] = sess[o]
  BY <1>1 DEF SessTypeInv
<1>4. ~Holds(s)' /\ \A o \in Sessions : o # s => (Holds(o)' <=> Holds(o)) BY <1>3 DEF Holds
<1>5. HoldersOf(a)' = HoldersOf(a) \ {s} /\ s \in HoldersOf(a) BY <1>2, <1>3, <1>4 DEF HoldersOf
<1>6. \A b : b # a => HoldersOf(b)' = HoldersOf(b) BY <1>2, <1>3, <1>4 DEF HoldersOf
<1>7. /\ Cardinality(HoldersOf(a)') = Cardinality(HoldersOf(a)) - 1
      /\ Cardinality(HoldersOf(a)) \in Nat /\ Cardinality(HoldersOf(a)') \in Nat
      /\ Cardinality(HoldersOf(a)') = 0 <=> HoldersOf(a)' = {}
  <2>1. IsFiniteSet(HoldersOf(a)) BY SessionsAssumption, FS_Subset DEF HoldersOf
  <2>2. IsFiniteSet(HoldersOf(a)') BY <1>5, <2>1, FS_RemoveElement
  <2> QED BY <1>5, <2>1, <2>2, FS_RemoveElement, FS_CardinalityType, FS_EmptySet
<1>8. SessTypeInv' BY <1>1, <1>3, <1>4 DEF SessTypeInv
<1>9. grpcPool[a].conn # 0 /\ grpcPool[a].refCnt = Cardinality(HoldersOf(a))
  BY <1>1, <1>2, <1>5 DEF PoolInv
<1>10. PICK left \in Nat : left = grpcPool[a].refCnt - 1 /\ left = Cardinality(HoldersOf(a)')
  BY <1>7, <1>9
<1>11. \A b \in Addrs : b # a => /\ grpcPool[b].refCnt = Cardinality(HoldersOf(b)')
                                 /\ grpcPool[b].conn = 0 => HoldersOf(b)' = {}
  BY <1>1, <1>6 DEF PoolInv
<1>12. CASE left <= 0
  <2>1. /\ grpcConns' = [grpcConns EXCEPT !.closed = @ \cup {grpcPool[a].conn}]
        /\ grpcPool' = [grpcPool EXCEPT ![a] = [conn |-> 0, refCnt |-> 0]]
    BY <1>2, <1>9, <1>10, <1>12 DEF ReleaseGrpcConn
  <2>2. /\ grpcConns' \in [made : Nat, closed : SUBSET Nat] /\ grpcConns'.made = grpcConns.made
        /\ grpcConns'.closed = grpcConns.closed \cup {grpcPool[a].conn}
    BY <1>1, <2>1 DEF PoolInv
  <2>3. /\ grpcPool'[a] = [conn |-> 0, refCnt |-> 0]
        /\ \A b \in Addrs : b # a => grpcPool'[b] = grpcPool[b]
        /\ grpcPool' \in [Addrs -> [conn : Nat, refCnt : Nat]]
    BY <1>1, <1>2, <2>1 DEF PoolInv
  <2>4. \A b \in Addrs : /\ grpcPool'[b].refCnt = Cardinality(HoldersOf(b)')
                         /\ grpcPool'[b].conn = 0 => HoldersOf(b)' = {}
    <3>1. left = 0
      <4>1. left \in Nat BY <1>10
      <4>2. left <= 0 BY <1>12
      <4> QED BY <4>1, <4>2
    <3>2. Cardinality(HoldersOf(a)') = 0 BY <1>10, <3>1
    <3>3. HoldersOf(a)' = {} BY <1>7, <3>2
    <3>4. /\ grpcPool'[a].refCnt = Cardinality(HoldersOf(a)')
          /\ grpcPool'[a].conn = 0 => HoldersOf(a)' = {}
      BY <2>3, <3>2, <3>3
    <3> QED BY <1>11, <2>3, <3>4
  <2>5. \A o \in Sessions : Holds(o)' => /\ o # s /\ sess'[o].addr # a
                                         /\ sess'[o].conn = grpcPool'[sess'[o].addr].conn
    <3>1. HoldersOf(a)' = {} BY <2>3, <2>4
    <3>2. \A o \in Sessions : Holds(o)' => o # s /\ sess'[o].addr # a BY <1>4, <3>1 DEF HoldersOf
    <3> QED BY <1>1, <1>3, <1>4, <2>3, <3>2 DEF PoolInv, SessTypeInv
  <2>6. \A b \in Addrs : /\ grpcPool'[b].conn <= grpcConns'.made
                         /\ grpcPool'[b].conn # 0 => grpcPool'[b].conn \notin grpcConns'.closed
    BY <1>1, <1>2, <2>2, <2>3 DEF PoolInv
  <2>7. \A b, c \in Addrs : b # c /\ grpcPool'[b].conn = grpcPool'[c].conn => grpcPool'[b].conn = 0
    BY <1>1, <2>3 DEF PoolInv
  <2>8. \A m \in grpcConns'.closed : m <= grpcConns'.made BY <1>1, <1>2, <2>2 DEF PoolInv
  <2>9. PoolInv' BY <2>2, <2>3, <2>4, <2>5, <2>6, <2>7, <2>8 DEF PoolInv
  <2> QED BY <1>8, <2>9 DEF TermInv
<1>13. CASE ~(left <= 0)
  <2>1. grpcPool' = [grpcPool EXCEPT ![a].refCnt = left] /\ UNCHANGED grpcConns
    BY <1>2, <1>9, <1>10, <1>13 DEF ReleaseGrpcConn
  <2>2. /\ grpcPool'[a] = [conn |-> grpcPool[a].conn, refCnt |-> left]
        /\ \A b \in Addrs : b # a => grpcPool'[b] = grpcPool[b]
        /\ grpcPool' \in [Addrs -> [conn : Nat, refCnt : Nat]]
    BY <1>1, <1>2, <2>1 DEF PoolInv
  <2>3. \A b \in Addrs : grpcPool'[b].conn = grpcPool[b].conn BY <2>2
  <2>4. \A b \in Addrs : /\ grpcPool'[b].refCnt = Cardinality(HoldersOf(b)')
                         /\ grpcPool'[b].conn = 0 => HoldersOf(b)' = {}
    BY <1>9, <1>10, <1>11, <2>2
  <2>5. \A o \in Sessions : Holds(o)' => sess'[o].conn = grpcPool'[sess'[o].addr].conn
    BY <1>1, <1>3, <1>4, <2>3 DEF PoolInv, SessTypeInv
  <2>6. PoolInv' BY <1>1, <2>1, <2>2, <2>3, <2>4, <2>5 DEF PoolInv
  <2> QED BY <1>8, <2>6 DEF TermInv
<1> QED BY <1>12, <1>13

LEMMA LeaveKeeps == ASSUME TermInv, NEW s \in Sessions, Holds(s), Leave(s) PROVE TermInv'
<1> DEFINE r == EndedSession(s)
<1>1. DOMAIN r = DOMAIN NoSession /\ r.pc = "ended" BY DEF EndedSession, NoSession
<1>2. sess' = [sess EXCEPT ![s] = r] /\ ReleaseGrpcConn(sess[s].addr) /\ UNCHANGED located
  BY DEF Leave, Set1
<1> HIDE DEF r
<1> QED BY <1>1, <1>2, ReleaseKeeps

\* The session is where it was, or at another place of those that hold a
\* connection, or before it has one.
Goes(s, r) ==
    /\ DOMAIN r = DOMAIN NoSession
    /\ r.pc \in HoldPcs <=> Holds(s)
    /\ Holds(s) => r.addr = sess[s].addr /\ r.conn = sess[s].conn
    /\ r.pc = "connecting" => r.addr \in Addrs

LEMMA GoesKeeps ==
    ASSUME TermInv, NEW s \in Sessions, NEW r, Set1(s, r), Goes(s, r),
           UNCHANGED <<located, grpcPool, grpcConns>>
    PROVE  TermInv'
BY QuietSession DEF Set1, Goes

\* Changes of fields other than the place, the address and the connection.
LEMMA FieldsGo ==
    ASSUME TermInv, NEW s \in Sessions, NEW r, DOMAIN r = DOMAIN NoSession,
           r.pc = sess[s].pc, r.addr = sess[s].addr, r.conn = sess[s].conn
    PROVE  Goes(s, r)
BY DEF TermInv, SessTypeInv, Goes, Holds, HoldPcs

\* A session moves among the places that hold a connection.
LEMMA HoldersGo ==
    ASSUME NEW s \in Sessions, NEW r, DOMAIN r = DOMAIN NoSession, Holds(s), r.pc \in HoldPcs,
           r.addr = sess[s].addr, r.conn = sess[s].conn
    PROVE  Goes(s, r)
BY DEF Goes, HoldPcs

\* A session without a connection goes to a place that has none.
LEMMA OthersGo ==
    ASSUME NEW s \in Sessions, NEW r, DOMAIN r = DOMAIN NoSession, ~Holds(s), r.pc \notin HoldPcs,
           r.pc = "connecting" => r.addr \in Addrs
    PROVE  Goes(s, r)
BY DEF Goes

\* The handler's own steps before it has a connection.
LEMMA EarlyKeeps ==
    ASSUME TermInv, NEW s \in Sessions,
           \/ \E token, protocol, tty : ParseRequest(s, token, protocol, tty)
           \/ GetExecAddr(s) \/ \E ok \in BOOLEAN : QueryMaster(s, ok)
    PROVE  TermInv'
<1>1. /\ DOMAIN sess[s] = DOMAIN NoSession /\ located.local \in Addrs \cup {None}
      /\ located.master \in Addrs
  BY DEF TermInv, SessTypeInv
<1>2. ~Holds(s) /\ Keep BY DEF ParseRequest, GetExecAddr, QueryMaster, SessionAt, Holds
<1> DEFINE Fits(r) == /\ Set1(s, r) /\ DOMAIN r = DOMAIN NoSession /\ r.pc \notin HoldPcs
                      /\ r.pc = "connecting" => r.addr \in Addrs
           ended == [NoSession EXCEPT !.pc = "ended"]
<1>3. RefuseSession(s) => Fits(ended) BY DEF RefuseSession, NoSession, HoldPcs
<1>4. ASSUME NEW token, NEW protocol, NEW tty, ParseRequest(s, token, protocol, tty) PROVE \E r : Fits(r)
  <2> DEFINE r == [NoSession EXCEPT !.pc = "resolving", !.v1 = protocol = "v1", !.tty = tty]
  <2>1. RefuseSession(s) \/ Set1(s, r) BY <1>4 DEF ParseRequest
  <2>2. DOMAIN r = DOMAIN NoSession /\ r.pc = "resolving" BY DEF NoSession
  <2> HIDE DEF r, ended
  <2>3. CASE Set1(s, r) BY <2>2, <2>3 DEF HoldPcs
  <2> QED BY <1>3, <2>1, <2>3
<1>5. ASSUME GetExecAddr(s) PROVE \E r : Fits(r)
  <2> DEFINE r1 == [sess[s] EXCEPT !.pc = "connecting", !.addr = located.local]
             r2 == [sess[s] EXCEPT !.pc = "asking"]
  <2>1. RefuseSession(s) \/ (located.local # None /\ Set1(s, r1)) \/ Set1(s, r2)
    BY <1>5 DEF GetExecAddr
  <2>2. /\ DOMAIN r1 = DOMAIN NoSession /\ r1.pc = "connecting" /\ r1.addr = located.local
        /\ DOMAIN r2 = DOMAIN NoSession /\ r2.pc = "asking"
    BY <1>1 DEF NoSession
  <2> HIDE DEF r1, r2, ended
  <2>3. CASE located.local # None /\ Set1(s, r1) BY <1>1, <2>2, <2>3 DEF HoldPcs
  <2>4. CASE Set1(s, r2) BY <2>2, <2>4 DEF HoldPcs
  <2> QED BY <1>3, <2>1, <2>3, <2>4
<1>6. ASSUME NEW ok \in BOOLEAN, QueryMaster(s, ok) PROVE \E r : Fits(r)
  <2> DEFINE r == [sess[s] EXCEPT !.pc = "connecting", !.addr = located.master]
  <2>1. RefuseSession(s) \/ Set1(s, r) BY <1>6 DEF QueryMaster
  <2>2. DOMAIN r = DOMAIN NoSession /\ r.pc = "connecting" /\ r.addr = located.master
    BY <1>1 DEF NoSession
  <2> HIDE DEF r, ended
  <2>3. CASE Set1(s, r) BY <1>1, <2>2, <2>3 DEF HoldPcs
  <2> QED BY <1>3, <2>1, <2>3
<1>7. PICK r : Fits(r) BY <1>4, <1>5, <1>6
<1> QED BY <1>2, <1>7, OthersGo, GoesKeeps DEF Keep

\* The steps of a session that has its connection.
LEMMA HoldingKeeps ==
    ASSUME TermInv, NEW s \in Sessions,
           \/ \E ok \in BOOLEAN : Upgrade(s, ok) \/ Start(s, ok)
           \/ InitialSize(s) \/ SizeTimeout(s) \/ SizeFails(s) \/ Done(s)
    PROVE  TermInv'
<1>1. DOMAIN sess[s] = DOMAIN NoSession BY DEF TermInv, SessTypeInv
<1>2. Holds(s) BY DEF Upgrade, Start, InitialSize, SizeTimeout, SizeFails, Done, SessionAt, Holds
<1> DEFINE Fits(r) == /\ Set1(s, r) /\ DOMAIN r = DOMAIN NoSession /\ r.pc \in HoldPcs
                      /\ r.addr = sess[s].addr /\ r.conn = sess[s].conn
<1>3. ASSUME NEW r, Fits(r), UNCHANGED <<located, grpcPool, grpcConns>> PROVE TermInv'
  BY <1>2, <1>3, HoldersGo, GoesKeeps
<1>4. ASSUME NEW ok \in BOOLEAN, Upgrade(s, ok) PROVE TermInv'
  <2>1. CASE ok
    <3> DEFINE pc == IF sess[s].tty THEN "sizing" ELSE "starting"
               r == [sess[s] EXCEPT !.ws = "open", !.pc = pc]
    <3>1. Set1(s, r) /\ UNCHANGED <<located, grpcPool, grpcConns>> BY <1>4, <2>1 DEF Upgrade
    <3>2. pc \in HoldPcs BY DEF HoldPcs
    <3> HIDE DEF pc
    <3>3. DOMAIN r = DOMAIN NoSession /\ r.pc = pc /\ r.addr = sess[s].addr /\ r.conn = sess[s].conn
      BY <1>1 DEF NoSession
    <3> HIDE DEF r
    <3> QED BY <1>3, <3>1, <3>2, <3>3
  <2>2. CASE ~ok
    <3> DEFINE r == [NoSession EXCEPT !.pc = "ended"]
    <3>1. sess' = [sess EXCEPT ![s] = r] /\ ReleaseGrpcConn(sess[s].addr) /\ UNCHANGED located
      BY <1>4, <2>2 DEF Upgrade, RefuseSession, Set1
    <3>2. DOMAIN r = DOMAIN NoSession /\ r.pc = "ended" BY DEF NoSession
    <3> HIDE DEF r
    <3> QED BY <1>2, <3>1, <3>2, ReleaseKeeps
  <2> QED BY <2>1, <2>2
<1>5. ASSUME NEW ok \in BOOLEAN, Start(s, ok) PROVE TermInv'
  <2>1. CASE ok
    <3> DEFINE got == [i \in DOMAIN sess[s].pending |-> <<"data", sess[s].pending[i]>>]
               r == [sess[s] EXCEPT !.pc = "running", !.output = "reading", !.input = "reading",
                                    !.got = got, !.pending = <<>>]
    <3>1. Set1(s, r) /\ UNCHANGED <<located, grpcPool, grpcConns>> BY <1>5, <2>1 DEF Start, Keep
    <3> HIDE DEF got
    <3>2. DOMAIN r = DOMAIN NoSession /\ r.pc = "running" /\ r.addr = sess[s].addr /\ r.conn = sess[s].conn
      BY <1>1 DEF NoSession
    <3> HIDE DEF r
    <3> QED BY <1>3, <3>1, <3>2 DEF HoldPcs
  <2>2. CASE ~ok BY <1>2, <1>5, <2>2, LeaveKeeps DEF Start
  <2> QED BY <2>1, <2>2
<1>6. ASSUME InitialSize(s) PROVE TermInv'
  <2> DEFINE m == Head(sess[s].wire)
             read == [sess[s] EXCEPT !.wire = Tail(@)]
             r1 == [read EXCEPT !.pc = "starting"]
             r2 == [read EXCEPT !.pending = Append(@, m)]
  <2>1. (Set1(s, r1) \/ Set1(s, r2)) /\ Keep /\ sess[s].pc = "sizing"
    BY <1>6 DEF InitialSize, SessionAt
  <2>2. /\ DOMAIN read = DOMAIN NoSession /\ read.pc = sess[s].pc /\ read.addr = sess[s].addr
        /\ read.conn = sess[s].conn
    BY <1>1 DEF NoSession
  <2> HIDE DEF read, m
  <2>3. /\ DOMAIN r1 = DOMAIN NoSession /\ r1.pc = "starting" /\ r1.addr = sess[s].addr
        /\ r1.conn = sess[s].conn
        /\ DOMAIN r2 = DOMAIN NoSession /\ r2.pc = "sizing" /\ r2.addr = sess[s].addr
        /\ r2.conn = sess[s].conn
    BY <2>1, <2>2 DEF NoSession
  <2> HIDE DEF r1, r2
  <2> QED BY <1>3, <2>1, <2>3 DEF HoldPcs, Keep
<1>7. ASSUME SizeTimeout(s) PROVE TermInv'
  <2> DEFINE r == [sess[s] EXCEPT !.pc = "starting", !.broken = TRUE]
  <2>1. Set1(s, r) /\ Keep BY <1>7 DEF SizeTimeout
  <2>2. DOMAIN r = DOMAIN NoSession /\ r.pc = "starting" /\ r.addr = sess[s].addr /\ r.conn = sess[s].conn
    BY <1>1 DEF NoSession
  <2> HIDE DEF r
  <2> QED BY <1>3, <2>1, <2>2 DEF HoldPcs, Keep
<1>8. ASSUME SizeFails(s) \/ Done(s) PROVE TermInv' BY <1>2, <1>8, LeaveKeeps DEF SizeFails, Done
<1> QED BY <1>4, <1>5, <1>6, <1>7, <1>8

\* The steps of the browser and of the two goroutines.
LEMMA CopyingKeeps ==
    ASSUME TermInv, NEW s \in Sessions,
           \/ \E m \in Keys : Type(s, m)
           \/ LeaveBrowser(s)
           \/ \E status \in {"output", "started", "exited", "failed", "broken"} : Receive(s, status)
           \/ \E ok \in BOOLEAN : ReadTyped(s, ok)
           \/ \E g \in {"output", "input"} : LookAtDone(s, g) \/ CloseDone(s, g) \/ Tell(s, g)
    PROVE  TermInv'
<1>1. DOMAIN sess[s] = DOMAIN NoSession BY DEF TermInv, SessTypeInv
<1> DEFINE Fits(r) == /\ DOMAIN r = DOMAIN NoSession /\ r.pc = sess[s].pc
                      /\ r.addr = sess[s].addr /\ r.conn = sess[s].conn
<1>2. ASSUME NEW r, Set1(s, r), Fits(r), UNCHANGED <<located, grpcPool, grpcConns>> PROVE TermInv'
  BY <1>2, FieldsGo, GoesKeeps
<1>3. \A v, r : \A f \in {"wire", "browser", "output", "input", "got", "ws", "cancelled", "done", "typed"} :
          Fits(r) => Fits([r EXCEPT ![f] = v])
  BY DEF NoSession
<1>4. Fits(sess[s]) BY <1>1
<1> HIDE DEF Fits
<1>5. ASSUME NEW m \in Keys, Type(s, m) PROVE TermInv'
  <2>1. Set1(s, [sess[s] EXCEPT !.wire = Append(@, m), !.typed = @ + 1]) /\ Keep BY <1>5 DEF Type
  <2>2. Fits([sess[s] EXCEPT !.wire = Append(@, m), !.typed = @ + 1])
    BY <1>1 DEF Fits, NoSession
  <2> QED BY <1>2, <2>1, <2>2 DEF Keep
<1>6. ASSUME LeaveBrowser(s) PROVE TermInv'
  BY <1>2, <1>3, <1>4, <1>6 DEF LeaveBrowser, Keep
<1>7. ASSUME NEW status \in {"output", "started", "exited", "failed", "broken"}, Receive(s, status)
      PROVE  TermInv'
  <2>1. PICK v : Set1(s, [sess[s] EXCEPT !.output = v]) BY <1>7 DEF Receive
  <2>2. Keep BY <1>7 DEF Receive
  <2> QED BY <1>2, <1>3, <1>4, <2>1, <2>2 DEF Keep
<1>8. ASSUME NEW ok \in BOOLEAN, ReadTyped(s, ok) PROVE TermInv'
  <2>0. Keep BY <1>8 DEF ReadTyped
  <2> DEFINE m == Head(sess[s].wire)
             read == [sess[s] EXCEPT !.wire = Tail(@)]
             r1 == [read EXCEPT !.got = Append(@, AsSent(m))]
             r2 == [read EXCEPT !.input = IF m = "data" THEN "leaving" ELSE @]
  <2>1. Set1(s, [sess[s] EXCEPT !.input = "leaving"]) \/ Set1(s, r1) \/ Set1(s, r2)
    BY <1>8 DEF ReadTyped
  <2>2. Fits(read) BY <1>3, <1>4
  <2> HIDE DEF read, m
  <2>3. Fits(r1) /\ Fits(r2) BY <1>3, <2>2
  <2> HIDE DEF r1, r2
  <2> QED BY <1>2, <1>3, <1>4, <2>0, <2>1, <2>3 DEF Keep
<1>9. ASSUME NEW g \in {"output", "input"}, LookAtDone(s, g) \/ CloseDone(s, g) \/ Tell(s, g)
      PROVE  TermInv'
  <2>1. UNCHANGED <<located, grpcPool, grpcConns>> BY <1>9 DEF LookAtDone, CloseDone, Tell, Keep
  <2>2. CASE LookAtDone(s, g)
    <3>1. PICK v : Set1(s, [sess[s] EXCEPT ![g] = v]) BY <2>2 DEF LookAtDone
    <3> QED BY <1>2, <1>3, <1>4, <2>1, <3>1
  <2>3. CASE CloseDone(s, g)
    <3>1. Set1(s, [sess[s] EXCEPT ![g] = "telling", !.done = TRUE]) BY <2>3 DEF CloseDone
    <3>2. Fits([sess[s] EXCEPT ![g] = "telling", !.done = TRUE]) BY <1>1 DEF Fits, NoSession
    <3> QED BY <1>2, <2>1, <3>1, <3>2
  <2>4. CASE Tell(s, g)
    <3> DEFINE r1 == [sess[s] EXCEPT ![g] = "off", !.cancelled = TRUE]
               r2 == [sess[s] EXCEPT ![g] = "off", !.ws = "closed"]
    <3>1. Set1(s, r1) \/ Set1(s, r2) BY <2>4 DEF Tell
    <3>2. Fits(r1) /\ Fits(r2) BY <1>1 DEF Fits, NoSession
    <3> HIDE DEF r1, r2
    <3> QED BY <1>2, <2>1, <3>1, <3>2
  <2> QED BY <1>9, <2>2, <2>3, <2>4
<1> QED BY <1>5, <1>6, <1>7, <1>8, <1>9

LEMMA TermInvStep == TermInv /\ [TerminalNext]_terminalVars => TermInv'
<1> SUFFICES ASSUME TermInv, [TerminalNext]_terminalVars PROVE TermInv' OBVIOUS
<1>1. ASSUME UNCHANGED <<grpcPool, grpcConns, sess>>, DOMAIN located' = {"paused", "local", "master", "moves"},
             located'.local \in Addrs \cup {None}, located'.master \in Addrs
      PROVE  TermInv'
  <2>1. \A s \in Sessions : Holds(s)' <=> Holds(s) BY <1>1 DEF Holds
  <2>2. \A a : HoldersOf(a)' = HoldersOf(a) BY <1>1, <2>1 DEF HoldersOf
  <2> QED BY <1>1, <2>1, <2>2 DEF TermInv, SessTypeInv, PoolInv
<1>2. ASSUME NEW l \in Moves, Move(l) PROVE TermInv'
  <2>1. /\ DOMAIN located = {"paused", "local", "master", "moves"}
        /\ located.local \in Addrs \cup {None} /\ located.master \in Addrs
    BY DEF TermInv, SessTypeInv
  <2>2. /\ DOMAIN l = {"paused", "local", "master", "moves"}
        /\ l.local \in Addrs \cup {None} /\ l.master \in Addrs
    BY <2>1 DEF Moves
  <2>3. located' = [l EXCEPT !.moves = located.moves + 1] /\ UNCHANGED <<grpcPool, grpcConns, sess>>
    BY <1>2 DEF Move
  <2> QED BY <1>1, <2>2, <2>3
<1>3. CASE UNCHANGED terminalVars BY <1>1, <1>3 DEF terminalVars, TermInv, SessTypeInv
<1>4. CASE TerminalNext BY <1>2, <1>4, EarlyKeeps, ConnectKeeps, HoldingKeeps, CopyingKeeps DEF TerminalNext
<1> QED BY <1>3, <1>4

\* A terminal session uses a connection that the end of no other session has
\* closed, and the pool counts exactly the sessions that use it: for any number
\* of sessions and proxies, wherever the instance moves meanwhile.
THEOREM SharedConnStaysOpenCorrect == TerminalSpec => []SharedConnStaysOpen
<1>1. TerminalInit => TermInv
  <2> SUFFICES ASSUME TerminalInit PROVE TermInv OBVIOUS
  <2>1. \A s \in Sessions : sess[s] = NoSession /\ ~Holds(s) BY DEF TerminalInit, Holds, NoSession
  <2>2. \A a : HoldersOf(a) = {} BY <2>1 DEF HoldersOf
  <2>3. SessTypeInv BY <2>1 DEF TerminalInit, SessTypeInv, NoSession
  <2>4. PoolInv BY <2>1, <2>2, FS_EmptySet DEF TerminalInit, PoolInv
  <2> QED BY <2>3, <2>4 DEF TermInv
<1>2. TermInv => SharedConnStaysOpen
  <2> SUFFICES ASSUME TermInv, NEW s \in Sessions, Holds(s)
               PROVE  /\ sess[s].conn \notin grpcConns.closed
                      /\ grpcPool[sess[s].addr].conn = sess[s].conn
                      /\ grpcPool[sess[s].addr].refCnt = Cardinality(HoldersOf(sess[s].addr))
    BY DEF SharedConnStaysOpen, HoldersOf
  <2>1. PICK a \in Addrs : a = sess[s].addr BY DEF TermInv, SessTypeInv
  <2>2. s \in HoldersOf(a) BY <2>1 DEF HoldersOf
  <2> QED BY <2>1, <2>2 DEF TermInv, PoolInv
<1> QED BY <1>1, <1>2, TermInvStep, PTL DEF TerminalSpec

------------------------------------------------------------------------------
(* EtcdWatch: the watcher                                                     *)

WatchRun == [pc : {"idle", "list", "create", "select", "replay", "send"}, from : Nat, on : Nat, batch : SUBSET Nat]

WatchType ==
    /\ revision \in Nat /\ initialRev \in Nat /\ historyRev \in Nat /\ connection \in Nat
    /\ runs \in [WatchRuns -> WatchRun]

\* Everything up to a revision was sent.
SentUpTo(n) == \A i \in Nat : 1 <= i /\ i <= n => i \in sent

\* The same after a step.
SentUpToNext(n) == \A i \in Nat : 1 <= i /\ i <= n => i \in sent'

\* What is still to be sent of a batch: the revisions from lo to the last one received.
Remaining(w, lo) == 1 <= lo /\ lo < runs[w].from /\ runs[w].from <= revision + 1 /\ runs[w].batch = lo .. (runs[w].from - 1)

\* A run: after the first list the two revisions are set; a channel or a batch that begins beyond
\* what was sent is only ever seen while a replay is due (historyRev < initialRev).
RunSound(w) ==
    /\ ~At(w, "idle") /\ ~At(w, "list") => 0 < historyRev
    /\ At(w, "select") => /\ 1 <= runs[w].from /\ runs[w].from <= revision + 1
                          /\ historyRev < initialRev \/ SentUpTo(runs[w].from - 1)
    /\ At(w, "replay") => \E lo \in Nat : Remaining(w, lo) /\ (historyRev < initialRev \/ SentUpTo(lo - 1))
    /\ At(w, "send") => \E lo \in Nat : Remaining(w, lo) /\ SentUpTo(lo - 1)

\* One run at a time, and nothing skipped before the last revision received.
Followed ==
    /\ SentUpTo(historyRev) /\ historyRev <= initialRev /\ initialRev <= revision /\ 0 < revision
    /\ historyRev = 0 => initialRev = 0 /\ \E w \in WatchRuns : At(w, "list")
    /\ \A w, x \in WatchRuns : w # x => At(w, "idle") \/ At(x, "idle")
    /\ \A w \in WatchRuns : RunSound(w)

WatchInv == excused \/ (WatchType /\ Followed)

\* A run moves on, the revisions and what was sent only grow.
LEMMA RunMoves ==
    ASSUME WatchType, Followed, NEW w \in WatchRuns, NEW r \in WatchRun, WatchGoes(w, r), runs[w].pc # "idle",
           WatchType', sent \subseteq sent',
           SentUpTo(historyRev)', historyRev' <= initialRev', initialRev' <= revision', 0 < revision',
           historyRev' = 0 => initialRev' = 0 /\ r.pc = "list",
           RunSound(w)'
    PROVE  Followed'
<1>1. \A x \in WatchRuns : runs'[x] = IF x = w THEN r ELSE runs[x] BY DEF WatchGoes, WatchType
<1>2. \A x \in WatchRuns : x # w => At(x, "idle") /\ At(x, "idle")' BY <1>1 DEF Followed, At
<1>3. \A x \in WatchRuns : x # w => RunSound(x)'
  BY <1>2 DEF RunSound, At
<1>4. At(w, "list")' <=> r.pc = "list" BY <1>1 DEF At
<1> QED BY <1>2, <1>3, <1>4 DEF Followed

\* etcd changes, or the client: what was said of the runs stays.
LEMMA WatchUnmoved ==
    ASSUME WatchType, Followed, UNCHANGED <<initialRev, historyRev, runs, sent>>,
           revision' \in Nat, revision <= revision', connection' \in Nat
    PROVE  WatchType' /\ Followed'
<1>1. WatchType' BY DEF WatchType
<1>3. WatchType /\ Followed OBVIOUS
<1>4. \A n : SentUpTo(n) => SentUpToNext(n) BY DEF SentUpTo, SentUpToNext
<1>5. ASSUME NEW w \in WatchRuns PROVE RunSound(w)'
  <2>1. RunSound(w) /\ runs[w] \in WatchRun BY <1>3 DEF Followed, WatchType
  <2>2. runs[w].from \in Nat BY <2>1 DEF WatchRun
  <2>3. \A lo \in Nat : Remaining(w, lo) => Remaining(w, lo)' BY <1>3, <2>2 DEF Remaining, WatchType
  <2>4. (~At(w, "idle") /\ ~At(w, "list") => 0 < historyRev)' BY <2>1 DEF RunSound, At
  <2>5. At(w, "select")' => /\ 1 <= runs'[w].from /\ runs'[w].from <= revision' + 1
                            /\ historyRev' < initialRev' \/ SentUpToNext(runs'[w].from - 1)
    BY <1>3, <1>4, <2>1, <2>2 DEF RunSound, At, WatchType
  <2>6. At(w, "replay")' => \E lo \in Nat : Remaining(w, lo)' /\ (historyRev' < initialRev' \/ SentUpToNext(lo - 1))
    BY <1>4, <2>1, <2>3 DEF RunSound, At
  <2>7. At(w, "send")' => \E lo \in Nat : Remaining(w, lo)' /\ SentUpToNext(lo - 1)
    BY <1>4, <2>1, <2>3 DEF RunSound, At
  <2> QED BY <2>4, <2>5, <2>6, <2>7 DEF RunSound, SentUpTo, SentUpToNext
<1>6. SentUpTo(historyRev)' BY <1>3 DEF Followed, SentUpTo
<1> QED BY <1>1, <1>3, <1>5, <1>6 DEF Followed, WatchType, At

\* The first list accounts for every revision so far; a later run does not list again.
LEMMA StartListKeeps == ASSUME WatchType, Followed, ~excused', NEW w \in WatchRuns, NEW ok \in BOOLEAN, StartList(w, ok) PROVE WatchType' /\ Followed'
<1>1. PICK r : r = [runs[w] EXCEPT !.pc = "create"] OBVIOUS
<1>2. runs[w] \in WatchRun /\ runs[w].pc = "list" BY DEF WatchType, StartList, At
<1>3. r \in WatchRun /\ r.pc = "create" BY <1>1, <1>2 DEF WatchRun
<1>4. WatchGoes(w, r) /\ UNCHANGED <<revision, connection>> BY <1>1 DEF StartList, etcdClientVars
<1>5. runs' \in [WatchRuns -> WatchRun] /\ runs'[w] = r BY <1>3, <1>4 DEF WatchGoes, WatchType
<1>6. WatchType' BY <1>4, <1>5 DEF StartList, EtcdList, WatchType
<1>9. sent \subseteq sent' BY DEF StartList
<1>10. CASE initialRev # 0
  <2>1. UNCHANGED <<initialRev, historyRev, sent>> BY <1>10 DEF StartList
  <2>2. 0 < historyRev BY <1>10 DEF Followed, WatchType
  <2>3. RunSound(w)' BY <1>3, <1>5, <2>1, <2>2 DEF RunSound, At
  <2>4. SentUpTo(historyRev)' /\ historyRev' <= initialRev' /\ initialRev' <= revision' /\ 0 < revision' /\ historyRev' # 0
    BY <1>4, <2>1, <2>2 DEF Followed, SentUpTo, WatchType
  <2> QED BY <1>2, <1>3, <1>4, <1>6, <1>9, <2>3, <2>4, RunMoves
<1>11. CASE initialRev = 0
  <2>1. ok /\ initialRev' = revision /\ historyRev' = revision /\ sent' = sent \union 1 .. revision
    BY <1>11 DEF StartList, EtcdList
  <2>2. SentUpTo(historyRev)' /\ historyRev' <= initialRev' /\ initialRev' <= revision' /\ 0 < revision' /\ historyRev' # 0
    BY <1>4, <2>1 DEF Followed, SentUpTo, WatchType
  <2>3. RunSound(w)' BY <1>3, <1>5, <2>1 DEF RunSound, At, Followed, WatchType
  <2> QED BY <1>2, <1>3, <1>4, <1>6, <1>9, <2>2, <2>3, RunMoves
<1> QED BY <1>10, <1>11

\* A run ends: nothing is said of it any more.
LEMMA RunEnds ==
    ASSUME WatchType, Followed, ~excused', NEW w \in WatchRuns, runs[w].pc \in {"create", "select"}, WatchGoes(w, Idle),
           UNCHANGED <<revision, connection, initialRev, historyRev, sent, excused>>
    PROVE  WatchType' /\ Followed'
<1>1. PICK r : r = Idle OBVIOUS
<1>2. r \in WatchRun /\ r.pc = "idle" /\ WatchGoes(w, r) BY <1>1 DEF Idle, WatchRun
<1>3. runs' \in [WatchRuns -> WatchRun] /\ runs'[w] = r BY <1>2 DEF WatchGoes, WatchType
<1>4. WatchType' BY <1>3 DEF WatchType
<1>7. 0 < historyRev BY DEF Followed, RunSound, At
<1>8. RunSound(w)' BY <1>2, <1>3 DEF RunSound, At
<1>9. SentUpTo(historyRev)' /\ historyRev' <= initialRev' /\ initialRev' <= revision' /\ 0 < revision' /\ historyRev' # 0
  BY <1>7 DEF Followed, SentUpTo, WatchType
<1> QED BY <1>2, <1>4, <1>8, <1>9, RunMoves

\* The channel begins where the watcher was before this list; if the list skipped anything, a replay
\* is due.
LEMMA CreateWatchChanKeeps ==
    ASSUME WatchType, Followed, ~excused', NEW w \in WatchRuns, NEW ok \in BOOLEAN, FirstChan(w, ok) \/ ChannelCloses(w, ok)
    PROVE  WatchType' /\ Followed'
<1>1. runs[w].pc \in {"create", "select"} /\ CreateWatchChan(w, ok) BY DEF FirstChan, ChannelCloses, At
<1>2. UNCHANGED <<revision, connection, sent, excused>> BY <1>1 DEF CreateWatchChan, etcdClientVars
<1>3. CASE ~ok BY <1>1, <1>2, <1>3, RunEnds DEF CreateWatchChan
<1>4. CASE ok
  <2>1. PICK f : f = IF initialRev = 0 THEN revision + 1 ELSE initialRev OBVIOUS
  <2>2. PICK r : r = [Idle EXCEPT !.pc = "select", !.on = connection, !.from = f] OBVIOUS
  <2>3. f \in Nat /\ r \in WatchRun /\ r.pc = "select" /\ r.from = f
    <3>1. f \in Nat /\ connection \in Nat BY <2>1 DEF WatchType
    <3>2. r = [pc |-> "select", from |-> f, on |-> connection, batch |-> {}] BY <2>2 DEF Idle
    <3> QED BY <3>1, <3>2 DEF WatchRun
  <2>4. WatchGoes(w, r) /\ initialRev' = revision /\ historyRev' = historyRev
    BY <1>1, <1>4, <2>1, <2>2 DEF CreateWatchChan, EtcdList
  <2>5. runs' \in [WatchRuns -> WatchRun] /\ runs'[w] = r BY <2>3, <2>4 DEF WatchGoes, WatchType
  <2>6. WatchType' BY <1>2, <2>4, <2>5 DEF WatchType
  <2>9. 0 < historyRev BY <1>1 DEF Followed, RunSound, At
  <2>10. f = initialRev /\ 1 <= f /\ f <= revision BY <2>1, <2>9 DEF Followed, WatchType
  <2>11. historyRev' < initialRev' \/ SentUpToNext(f - 1)
    <3>1. CASE historyRev = revision
      <4>1. f - 1 <= historyRev BY <2>10, <3>1 DEF WatchType
      <4> QED BY <1>2, <2>3, <4>1 DEF Followed, SentUpTo, SentUpToNext, WatchType
    <3>2. CASE historyRev # revision BY <2>4, <3>2 DEF Followed, WatchType
    <3> QED BY <3>1, <3>2
  <2>12. RunSound(w)' BY <1>2, <2>3, <2>4, <2>5, <2>9, <2>10, <2>11 DEF RunSound, At, SentUpTo, SentUpToNext, WatchType
  <2>13. SentUpTo(historyRev)' /\ historyRev' <= initialRev' /\ initialRev' <= revision' /\ 0 < revision' /\ historyRev' # 0
    BY <1>2, <2>4, <2>9 DEF Followed, SentUpTo, WatchType
  <2> QED BY <1>1, <1>2, <2>3, <2>4, <2>6, <2>12, <2>13, RunMoves
<1> QED BY <1>3, <1>4

LEMMA ReceiveKeeps == ASSUME WatchType, Followed, ~excused', NEW w \in WatchRuns, NEW n \in 1 .. MaxRevision, ReceiveEvents(w, n) PROVE WatchType' /\ Followed'
<1>1. runs[w] \in WatchRun /\ runs[w].pc = "select" BY DEF WatchType, ReceiveEvents, At
<1>2. PICK lo : lo = runs[w].from OBVIOUS
<1>3. lo \in Nat /\ n \in Nat /\ lo <= n /\ n <= revision BY <1>1, <1>2 DEF ReceiveEvents, WatchRun, WatchType
<1>4. PICK b : b = lo .. n OBVIOUS
<1>5. b \in SUBSET Nat BY <1>3, <1>4
<1>6. PICK r : r = [runs[w] EXCEPT !.pc = "replay", !.batch = b, !.from = n + 1] OBVIOUS
<1>7. r \in WatchRun /\ r.pc = "replay" /\ r.batch = b /\ r.from = n + 1
  <2>1. runs[w] = [pc |-> runs[w].pc, from |-> runs[w].from, on |-> runs[w].on, batch |-> runs[w].batch] /\ runs[w].on \in Nat
    BY <1>1 DEF WatchRun
  <2>2. r = [pc |-> "replay", from |-> n + 1, on |-> runs[w].on, batch |-> b] BY <1>6, <2>1
  <2> QED BY <1>3, <1>5, <2>1, <2>2 DEF WatchRun
<1>8. WatchGoes(w, r) /\ UNCHANGED <<revision, connection, initialRev, historyRev, sent, excused>>
  BY <1>2, <1>4, <1>6 DEF ReceiveEvents, etcdClientVars
<1>9. runs' \in [WatchRuns -> WatchRun] /\ runs'[w] = r BY <1>7, <1>8 DEF WatchGoes, WatchType
<1>10. WatchType' BY <1>8, <1>9 DEF WatchType
<1>12. RunSound(w) BY DEF Followed
<1>13. 0 < historyRev /\ 1 <= lo /\ (historyRev < initialRev \/ SentUpTo(lo - 1)) BY <1>1, <1>2, <1>12 DEF RunSound, At
<1>14. Remaining(w, lo)' BY <1>3, <1>4, <1>7, <1>8, <1>9, <1>13 DEF Remaining, WatchType
<1>15. historyRev' < initialRev' \/ SentUpToNext(lo - 1) BY <1>8, <1>13 DEF SentUpTo, SentUpToNext
<1>16. RunSound(w)' BY <1>3, <1>7, <1>8, <1>9, <1>13, <1>14, <1>15 DEF RunSound, At, SentUpTo, SentUpToNext
<1>17. SentUpTo(historyRev)' /\ historyRev' <= initialRev' /\ initialRev' <= revision' /\ 0 < revision' /\ historyRev' # 0
  BY <1>8, <1>12, <1>13 DEF Followed, SentUpTo, WatchType
<1> QED BY <1>1, <1>7, <1>8, <1>10, <1>12, <1>16, <1>17, RunMoves

\* The replay that was due closes the gap before the batch is sent.
LEMMA HistoryKeeps == ASSUME WatchType, Followed, ~excused', NEW w \in WatchRuns, NEW ok \in BOOLEAN, EtcdHistory(w, ok) PROVE WatchType' /\ Followed'
<1>1. runs[w] \in WatchRun /\ runs[w].pc = "replay" BY DEF WatchType, EtcdHistory, At
<1>2. PICK r : r = [runs[w] EXCEPT !.pc = "send"] OBVIOUS
<1>3. r \in WatchRun /\ r.pc = "send" /\ r.batch = runs[w].batch /\ r.from = runs[w].from BY <1>1, <1>2 DEF WatchRun
<1>4. WatchGoes(w, r) /\ UNCHANGED <<revision, connection, initialRev, historyRev>> BY <1>2 DEF EtcdHistory, etcdClientVars
<1>5. runs' \in [WatchRuns -> WatchRun] /\ runs'[w] = r BY <1>3, <1>4 DEF WatchGoes, WatchType
<1>6. WatchType' BY <1>4, <1>5 DEF EtcdHistory, WatchType
<1>9. sent \subseteq sent' BY DEF EtcdHistory
<1>10. RunSound(w) BY DEF Followed
<1>11. 0 < historyRev BY <1>1, <1>10 DEF RunSound, At
<1>12. PICK lo \in Nat : Remaining(w, lo) /\ (historyRev < initialRev \/ SentUpTo(lo - 1)) BY <1>1, <1>10 DEF RunSound, At
<1>13. Remaining(w, lo)' BY <1>3, <1>4, <1>5, <1>12 DEF Remaining
<1>14. SentUpToNext(lo - 1)
  <2>1. CASE historyRev < initialRev
    <3>1. sent' = sent \union historyRev .. revision BY <1>11, <2>1 DEF EtcdHistory, WatchType
    <3>2. \A i \in Nat : 1 <= i /\ i <= revision => i \in sent'
      BY <3>1 DEF Followed, SentUpTo, WatchType
    <3>3. runs[w].from \in Nat BY <1>1 DEF WatchRun
    <3>4. lo - 1 <= revision BY <1>12, <3>3 DEF Remaining, WatchType
    <3> QED BY <3>2, <3>4 DEF SentUpToNext, WatchType
  <2>2. CASE SentUpTo(lo - 1) BY <1>9, <2>2 DEF SentUpTo, SentUpToNext
  <2> QED BY <1>12, <2>1, <2>2
<1>15. RunSound(w)' BY <1>3, <1>4, <1>5, <1>11, <1>13, <1>14 DEF RunSound, At, SentUpTo, SentUpToNext
<1>16. SentUpTo(historyRev)' /\ historyRev' <= initialRev' /\ initialRev' <= revision' /\ 0 < revision' /\ historyRev' # 0
  BY <1>4, <1>9, <1>11 DEF Followed, SentUpTo, WatchType
<1> QED BY <1>1, <1>3, <1>4, <1>6, <1>9, <1>15, <1>16, RunMoves

\* Without excuse the event that is sent is the next one.
LEMMA SendEventKeeps == ASSUME WatchType, Followed, ~excused', NEW w \in WatchRuns, SendEvent(w) PROVE WatchType' /\ Followed'
<1>1. runs[w] \in WatchRun /\ runs[w].pc = "send" BY DEF WatchType, SendEvent, At
<1>2. PICK e : e = CHOOSE x \in runs[w].batch : \A y \in runs[w].batch : x <= y OBVIOUS
<1>3. PICK rest : rest = runs[w].batch \ {e} OBVIOUS
<1>4. PICK r : r = [runs[w] EXCEPT !.batch = rest, !.pc = IF rest = {} THEN "select" ELSE "send"] OBVIOUS
<1>5. r \in WatchRun /\ r.pc = (IF rest = {} THEN "select" ELSE "send") /\ r.batch = rest /\ r.from = runs[w].from
  BY <1>1, <1>3, <1>4 DEF WatchRun
<1>6. /\ WatchGoes(w, r) /\ UNCHANGED <<revision, connection, excused>>
      /\ initialRev' = e /\ historyRev' = e /\ sent' = sent \union {e}
  BY <1>2, <1>3, <1>4 DEF SendEvent, etcdClientVars
<1>7. runs' \in [WatchRuns -> WatchRun] /\ runs'[w] = r BY <1>5, <1>6 DEF WatchGoes, WatchType
<1>8. RunSound(w) BY DEF Followed
<1>9. PICK lo \in Nat : Remaining(w, lo) /\ SentUpTo(lo - 1) BY <1>1, <1>8 DEF RunSound, At
<1>10. PICK hi : hi = runs[w].from - 1 OBVIOUS
<1>11. runs[w].from \in Nat BY <1>1 DEF WatchRun
<1>12. 1 <= lo /\ hi \in Nat /\ lo <= hi /\ hi <= revision /\ runs[w].batch = lo .. hi
  BY <1>9, <1>10, <1>11 DEF Remaining, WatchType
<1>13. e = lo
  <2>1. lo \in runs[w].batch /\ \A y \in runs[w].batch : lo <= y BY <1>12
  <2>2. e \in runs[w].batch /\ \A y \in runs[w].batch : e <= y BY <1>2, <2>1
  <2> QED BY <1>12, <2>1, <2>2
<1>14. rest = (lo + 1) .. hi /\ (rest = {} <=> lo = hi) BY <1>3, <1>12, <1>13
<1>15. WatchType' BY <1>6, <1>7, <1>13 DEF WatchType
<1>16. SentUpToNext(lo) BY <1>6, <1>9, <1>13 DEF SentUpTo, SentUpToNext
<1>17. RunSound(w)'
  <2>1. CASE lo = hi
    <3>1. runs'[w].pc = "select" /\ runs'[w].from = lo + 1 BY <1>5, <1>7, <1>10, <1>11, <1>14, <2>1
    <3>2. runs'[w].from - 1 = lo BY <3>1
    <3> QED BY <1>6, <1>12, <1>13, <1>16, <3>1, <3>2 DEF RunSound, At, SentUpTo, SentUpToNext, WatchType
  <2>2. CASE lo # hi
    <3>1. runs'[w].pc = "send" /\ runs'[w].from = hi + 1 /\ runs'[w].batch = (lo + 1) .. hi
      BY <1>5, <1>7, <1>10, <1>11, <1>14, <2>2
    <3>2. hi = runs'[w].from - 1 BY <1>12, <3>1
    <3>3. Remaining(w, lo + 1)' BY <1>6, <1>12, <2>2, <3>1, <3>2 DEF Remaining, WatchType
    <3>4. SentUpToNext((lo + 1) - 1) BY <1>16
    <3> QED BY <1>6, <1>12, <1>13, <3>1, <3>3, <3>4 DEF RunSound, At, SentUpTo, SentUpToNext
  <2> QED BY <2>1, <2>2
<1>18. SentUpTo(historyRev)' /\ historyRev' <= initialRev' /\ initialRev' <= revision' /\ 0 < revision' /\ historyRev' # 0
  BY <1>6, <1>12, <1>13, <1>16 DEF Followed, SentUpTo, SentUpToNext, WatchType
<1> QED BY <1>1, <1>5, <1>6, <1>15, <1>17, <1>18, RunMoves

\* Without excuse the run that saw the client go is over when the next one starts.
LEMMA RecoversKeeps == ASSUME WatchType, Followed, ~excused', NEW w \in WatchRuns, HeartbeatRecovers(w) PROVE WatchType' /\ Followed'
<1>1. PICK r : r = [Idle EXCEPT !.pc = "list"] OBVIOUS
<1>2. r \in WatchRun /\ r.pc = "list" BY <1>1 DEF Idle, WatchRun
<1>3. /\ \A x \in WatchRuns : At(x, "idle")
      /\ WatchGoes(w, r) /\ UNCHANGED <<revision, connection, initialRev, historyRev, sent>>
  BY <1>1 DEF HeartbeatRecovers
<1>4. runs' \in [WatchRuns -> WatchRun] /\ \A x \in WatchRuns : runs'[x] = IF x = w THEN r ELSE runs[x]
  BY <1>2, <1>3 DEF WatchGoes, WatchType
<1>5. \A x \in WatchRuns : runs'[x].pc = IF x = w THEN "list" ELSE "idle" BY <1>2, <1>3, <1>4 DEF At
<1>6. WatchType' BY <1>3, <1>4 DEF WatchType
<1>7. \A x \in WatchRuns : RunSound(x)' BY <1>5 DEF RunSound, At
<1>8. historyRev # 0 BY <1>3 DEF Followed, At
<1> QED BY <1>3, <1>5, <1>6, <1>7, <1>8 DEF Followed, SentUpTo, At

LEMMA WatchInvStep == WatchInv /\ [WatchNext]_watchVars => WatchInv'
<1> SUFFICES ASSUME WatchInv, [WatchNext]_watchVars, ~excused' PROVE WatchType' /\ Followed' BY DEF WatchInv
<1>1. ~excused
  BY DEF WatchNext, watchVars, Change, LosesContact, HeartbeatFails, StartList, FirstChan, ChannelCloses, CreateWatchChan,
         EtcdHistory, HeartbeatRecovers, ClientExits, SendEvent, ReceiveEvents
<1>2. WatchType /\ Followed BY <1>1 DEF WatchInv
<1>3. CASE Change \/ LosesContact \/ (\E ok \in BOOLEAN : HeartbeatFails(ok)) \/ UNCHANGED watchVars
  <2>1. /\ UNCHANGED <<initialRev, historyRev, runs, sent>>
        /\ revision' = revision \/ revision' = revision + 1
        /\ connection' = connection \/ connection' = connection + 1
    BY <1>3 DEF Change, LosesContact, HeartbeatFails, RestartClient, etcdClientVars, watchVars
  <2>2. revision' \in Nat /\ revision <= revision' /\ connection' \in Nat BY <1>2, <2>1 DEF WatchType
  <2> QED BY <1>2, <2>1, <2>2, WatchUnmoved
<1>4. ASSUME NEW w \in WatchRuns, ClientExits(w) PROVE WatchType' /\ Followed'
  BY <1>2, <1>4, RunEnds DEF ClientExits, At, etcdClientVars
<1> QED BY <1>2, <1>3, <1>4, StartListKeeps, CreateWatchChanKeeps, ReceiveKeeps, HistoryKeeps, SendEventKeeps, RecoversKeeps DEF WatchNext

\* For every number of revisions, outages and runs: no change before the last revision received is
\* missed, unless a list or a replay failed or two runs overlapped (etcd3/watcher.go).
THEOREM NoGapCorrect == WatchSpec => []NoGap
<1>1. WatchInit => WatchInv
  <2> SUFFICES ASSUME WatchInit PROVE WatchType /\ Followed BY DEF WatchInv
  <2>1. PICK w \in WatchRuns : runs = [x \in WatchRuns |-> IF x = w THEN [Idle EXCEPT !.pc = "list"] ELSE Idle] BY DEF WatchInit
  <2>2. Idle \in WatchRun /\ Idle.pc = "idle" /\ [Idle EXCEPT !.pc = "list"] \in WatchRun /\ [Idle EXCEPT !.pc = "list"].pc = "list"
    BY DEF Idle, WatchRun
  <2>3. runs \in [WatchRuns -> WatchRun] /\ \A x \in WatchRuns : runs[x].pc = IF x = w THEN "list" ELSE "idle"
    BY <2>1, <2>2
  <2>4. WatchType BY <2>3 DEF WatchInit, WatchType
  <2>5. Followed BY <2>3 DEF WatchInit, Followed, RunSound, At, SentUpTo
  <2> QED BY <2>4, <2>5
<1>2. WatchInv => NoGap
  <2> SUFFICES ASSUME WatchType, Followed PROVE 1 .. historyRev \subseteq sent BY DEF WatchInv, NoGap
  <2> QED BY DEF WatchType, Followed, SentUpTo
<1> QED BY <1>1, <1>2, WatchInvStep, PTL DEF WatchSpec

------------------------------------------------------------------------------
\* EtcdWatch: the cache file

CacheLines == [key : CacheKeys, rev : Nat]
CachedEvents == [rev : Nat, put : BOOLEAN]
Changes == [key : CacheKeys, put : BOOLEAN]

\* A line is a put of its key that etcd had; a file has one for a key, none newer than r.
LineIn(h, l) == l.rev \in 1 .. Len(h) /\ h[l.rev] = [key |-> l.key, put |-> TRUE]
FileIn(h, f, r) == /\ f \in SUBSET CacheLines
                   /\ \A l \in f : LineIn(h, l) /\ l.rev <= r
                   /\ \A l, m \in f : l.key = m.key => l = m
EventsIn(h, c, r) == /\ c \in [CacheKeys -> CachedEvents \union {None}]
                     /\ \A k \in CacheKeys : c[k] # None => /\ c[k].rev \in 1 .. Len(h) /\ c[k].rev <= r
                                                            /\ h[c[k].rev] = [key |-> k, put |-> c[k].put]

\* What etcd has for a key; the key changes at r or later; S is what etcd has, unless it does.
CurLines(h, k) == {l \in CacheLines : l.key = k /\ LineIn(h, l) /\ \A i \in 1 .. Len(h) : h[i].key = k => i <= l.rev}
Later(h, k, r) == \E i \in 1 .. Len(h) : i >= r /\ h[i].key = k
Seen(h, k, S, r) == Later(h, k, r) \/ S = CurLines(h, k)

Of(f, k) == {l \in f : l.key = k}
Good(h, f, r) == \A k \in CacheKeys : Seen(h, k, Of(f, k), r)

\* What a merge makes of a key, and that it is what etcd has up to the revision that was fed.
Newer(f, e, k) == e # None /\ \A l \in f : l.key = k => e.rev > l.rev
View(f, e, k) == IF Newer(f, e, k) THEN IF e.put THEN {[key |-> k, rev |-> e.rev]} ELSE {} ELSE Of(f, k)
Covered(h, f, c, fd) == \A k \in CacheKeys : Seen(h, k, View(f, c[k], k), fd + 1)

LEMMA SeenGrows ==
    ASSUME NEW h \in Seq(Changes), NEW e \in Changes, NEW k \in CacheKeys, NEW S, NEW r \in Nat, r <= Len(h) + 1,
           Seen(h, k, S, r)
    PROVE  Seen(Append(h, e), k, S, r)
<1> DEFINE g == Append(h, e)
<1>1. Len(g) = Len(h) + 1 /\ g[Len(h) + 1] = e /\ \A i \in 1 .. Len(h) : g[i] = h[i] OBVIOUS
<1>2. CASE e.key = k
  <2>1. Len(h) + 1 \in 1 .. Len(g) BY <1>1
  <2> QED BY <1>1, <1>2, <2>1 DEF Seen, Later
<1>3. CASE Later(h, k, r) BY <1>1, <1>3 DEF Seen, Later
<1>4. CASE e.key # k /\ S = CurLines(h, k)
  <2>1. ASSUME NEW l \in CacheLines, l.key = k, LineIn(g, l) PROVE LineIn(h, l)
        BY <1>1, <1>4, <2>1 DEF LineIn, CacheLines
  <2>2. ASSUME NEW l \in CacheLines, LineIn(h, l) PROVE LineIn(g, l) BY <1>1, <2>2 DEF LineIn, CacheLines
  <2>3. ASSUME NEW l \in CacheLines PROVE (\A i \in 1 .. Len(g) : g[i].key = k => i <= l.rev)
                                          <=> (\A i \in 1 .. Len(h) : h[i].key = k => i <= l.rev)
        BY <1>1, <1>4
  <2> QED BY <1>4, <2>1, <2>2, <2>3 DEF Seen, CurLines
<1> QED BY <1>2, <1>3, <1>4 DEF Seen

LEMMA FileGrows ==
    ASSUME NEW h \in Seq(Changes), NEW e \in Changes, NEW f, NEW r \in Nat, FileIn(h, f, r)
    PROVE  FileIn(Append(h, e), f, r)
<1>1. Len(Append(h, e)) = Len(h) + 1 /\ \A i \in 1 .. Len(h) : Append(h, e)[i] = h[i] OBVIOUS
<1>2. ASSUME NEW l \in CacheLines, LineIn(h, l) PROVE LineIn(Append(h, e), l) BY <1>1, <1>2 DEF LineIn, CacheLines
<1> QED BY <1>1, <1>2 DEF FileIn

LEMMA EventsGrow ==
    ASSUME NEW h \in Seq(Changes), NEW e \in Changes, NEW c, NEW r \in Nat, EventsIn(h, c, r)
    PROVE  EventsIn(Append(h, e), c, r)
<1>1. Len(Append(h, e)) = Len(h) + 1 /\ \A i \in 1 .. Len(h) : Append(h, e)[i] = h[i] OBVIOUS
<1> QED BY <1>1 DEF EventsIn, CachedEvents

LEMMA GoodGrows ==
    ASSUME NEW h \in Seq(Changes), NEW e \in Changes, NEW f, NEW r \in Nat, r <= Len(h) + 1, Good(h, f, r)
    PROVE  Good(Append(h, e), f, r)
BY SeenGrows DEF Good

LEMMA CoveredGrows ==
    ASSUME NEW h \in Seq(Changes), NEW e \in Changes, NEW f, NEW c, NEW fd \in Nat, fd <= Len(h), Covered(h, f, c, fd)
    PROVE  Covered(Append(h, e), f, c, fd)
BY SeenGrows DEF Covered

LEMMA GoodLower ==
    ASSUME NEW h \in Seq(Changes), NEW f, NEW r \in Nat, NEW q \in Nat, q <= r, Good(h, f, r)
    PROVE  Good(h, f, q)
BY DEF Good, Seen, Later

LEMMA BoundedMax ==
    ASSUME NEW n \in Nat, NEW S, S \subseteq 0 .. n, S # {}
    PROVE  Max(S) \in S /\ \A y \in S : y <= Max(S)
<1> DEFINE T == {n - x : x \in S}
<1>0. \A x \in S : x \in Nat /\ n - x \in Nat OBVIOUS
<1>1. T \subseteq Nat /\ T # {} BY <1>0
<1>2. PICK m \in T : \A k \in T : ~(<<k, m>> \in OpToRel(<, Nat)) BY <1>1, NatLessThanWellFounded, WFMin, Zenon
<1>3. \A k \in T : ~(k < m) BY <1>1, <1>2 DEF OpToRel
<1>4. PICK x \in S : m = n - x BY <1>2
<1>5. \A y \in S : ~(n - y < n - x) BY <1>3, <1>4
<1>6. x \in S /\ \A y \in S : x >= y BY <1>0, <1>5
<1>7. Max(S) \in S /\ \A y \in S : Max(S) >= y BY <1>6 DEF Max
<1> QED BY <1>7, <1>0

\* flushCacheToFile: the merge of a file and the events.
LEMMA MergeMerges ==
    ASSUME NEW h \in Seq(Changes), NEW f, NEW c, NEW r \in Nat, FileIn(h, f, r), EventsIn(h, c, r)
    PROVE  /\ \A k \in CacheKeys : Of(Merge(f, c), k) = View(f, c[k], k)
           /\ FileIn(h, Merge(f, c), r)
<1> DEFINE newer(k) == c[k] # None /\ \A l \in f : l.key = k => c[k].rev > l.rev
           new == {[key |-> k, rev |-> c[k].rev] : k \in {x \in CacheKeys : newer(x) /\ c[x].put}}
           old == {l \in f : ~newer(l.key)}
           T == Merge(f, c)
<1>1. T = old \union new BY DEF Merge
<1>2. \A k \in CacheKeys : newer(k) <=> Newer(f, c[k], k) BY DEF Newer
<1>3. f \subseteq CacheLines /\ \A l \in f : l.key \in CacheKeys BY DEF FileIn, CacheLines
<1> HIDE DEF newer, T
<1>4. ASSUME NEW k \in CacheKeys PROVE Of(T, k) = View(f, c[k], k)
  <2>1. CASE newer(k)
    <3>1. Of(old, k) = {} BY <2>1 DEF Of
    <3>2. CASE c[k].put
      <4>1. [key |-> k, rev |-> c[k].rev] \in new BY <2>1, <3>2
      <4>2. \A l \in new : l.key = k => l = [key |-> k, rev |-> c[k].rev] OBVIOUS
      <4> QED BY <1>1, <1>2, <2>1, <3>1, <3>2, <4>1, <4>2 DEF Of, View
    <3>3. CASE ~c[k].put
      <4>1. \A l \in new : l.key # k BY <3>3
      <4> QED BY <1>1, <1>2, <2>1, <3>1, <3>3, <4>1 DEF Of, View
    <3> QED BY <3>2, <3>3
  <2>2. CASE ~newer(k)
    <3>1. \A l \in new : l.key # k BY <2>2
    <3>2. \A l \in f : l.key = k => l \in old BY <2>2
    <3> QED BY <1>1, <1>2, <2>2, <3>1, <3>2 DEF Of, View
  <2> QED BY <2>1, <2>2
<1>5. ASSUME NEW l \in new PROVE l \in CacheLines /\ LineIn(h, l) /\ l.rev <= r /\ newer(l.key)
  <2>1. PICK k \in CacheKeys : newer(k) /\ c[k].put /\ l = [key |-> k, rev |-> c[k].rev] BY <1>5
  <2>2. c[k] # None BY <2>1 DEF newer
  <2>3. c[k] \in CachedEvents /\ c[k].rev \in 1 .. Len(h) /\ c[k].rev <= r /\ h[c[k].rev] = [key |-> k, put |-> c[k].put]
        BY <2>2 DEF EventsIn
  <2>4. c[k].rev \in Nat /\ c[k].put = TRUE BY <2>1, <2>3 DEF CachedEvents
  <2> QED BY <2>1, <2>3, <2>4 DEF LineIn, CacheLines
<1>6. T \subseteq CacheLines /\ \A l \in T : LineIn(h, l) /\ l.rev <= r BY <1>1, <1>5 DEF FileIn
<1>7. ASSUME NEW l \in T, NEW m \in T, l.key = m.key PROVE l = m
  <2>1. CASE l \in old /\ m \in old BY <2>1, <1>7 DEF FileIn
  <2>2. CASE l \in new /\ m \in new BY <2>2, <1>7
  <2>3. CASE l \in old /\ m \in new BY <2>3, <1>5, <1>7
  <2>4. CASE l \in new /\ m \in old BY <2>4, <1>5, <1>7
  <2> QED BY <1>1, <1>7, <2>1, <2>2, <2>3, <2>4
<1> QED BY <1>4, <1>6, <1>7 DEF FileIn, T

\* The revision of the new file is the greatest of all.
LEMMA NewRevisionIs ==
    ASSUME NEW h \in Seq(Changes), NEW f, NEW c, NEW r \in Nat, NEW n \in Nat, FileIn(h, f, n), EventsIn(h, c, n), r <= n
    PROVE  /\ NewRevision(r, f, c) \in Nat /\ NewRevision(r, f, c) <= n /\ r <= NewRevision(r, f, c)
           /\ \A l \in f : l.rev <= NewRevision(r, f, c)
           /\ \A k \in CacheKeys : c[k] # None => c[k].rev <= NewRevision(r, f, c)
<1> DEFINE E == {c[k].rev : k \in {x \in CacheKeys : c[x] # None}}
           S == {r} \union {l.rev : l \in f} \union E
<1>0. Len(h) \in Nat OBVIOUS
<1>1. ASSUME NEW k \in CacheKeys, c[k] # None PROVE c[k].rev \in 0 .. n
  <2>1. c[k].rev \in 1 .. Len(h) /\ c[k].rev <= n BY <1>1 DEF EventsIn
  <2> QED BY ONLY <1>0, <2>1, n \in Nat
<1>2. ASSUME NEW l \in f PROVE l.rev \in 0 .. n
  <2>1. l.rev \in 1 .. Len(h) /\ l.rev <= n BY <1>2 DEF FileIn, LineIn
  <2> QED BY ONLY <1>0, <2>1, n \in Nat
<1>3. S \subseteq 0 .. n BY <1>1, <1>2
<1>4. Max(S) \in S /\ \A y \in S : y <= Max(S) BY <1>3, BoundedMax
<1>5. NewRevision(r, f, c) = Max(S) BY DEF NewRevision
<1>6. \A k \in CacheKeys : c[k] # None => c[k].rev \in S OBVIOUS
<1>7. r \in S /\ \A l \in f : l.rev \in S OBVIOUS
<1> HIDE DEF S
<1>8. Max(S) \in Nat /\ Max(S) <= n
  <2>1. PICK x : x = Max(S) OBVIOUS
  <2>2. x \in 0 .. n BY <1>3, <1>4, <2>1, Zenon
  <2>3. x \in Nat /\ x <= n BY ONLY <2>2, n \in Nat
  <2> QED BY <2>1, <2>3
<1> QED BY <1>4, <1>5, <1>6, <1>7, <1>8

\* A merge of a file and its events sees what both see together.
LEMMA MergeCovers ==
    ASSUME NEW h \in Seq(Changes), NEW f, NEW c, NEW r \in Nat, NEW fd \in Nat, FileIn(h, f, r), EventsIn(h, c, r), Covered(h, f, c, fd)
    PROVE  /\ Good(h, Merge(f, c), fd + 1)
           /\ \A k \in CacheKeys : c[k] # None /\ c[k].put => Of(Merge(f, c), k) # {}
<1>1. \A k \in CacheKeys : Of(Merge(f, c), k) = View(f, c[k], k) BY MergeMerges
<1>2. Good(h, Merge(f, c), fd + 1) BY <1>1 DEF Good, Covered
<1>3. ASSUME NEW k \in CacheKeys, c[k] # None, c[k].put PROVE View(f, c[k], k) # {}
  <2>1. CASE Newer(f, c[k], k) BY <2>1, <1>3 DEF View
  <2>2. CASE ~Newer(f, c[k], k)
    <3>1. PICK l \in f : l.key = k BY <2>2, <1>3 DEF Newer
    <3> QED BY <2>2, <3>1 DEF View, Of
  <2> QED BY <2>1, <2>2
<1> QED BY <1>1, <1>2, <1>3

\* An event that is fed.
LEMMA FedCovers ==
    ASSUME NEW h \in Seq(Changes), NEW f, NEW c, NEW fd \in Nat, fd < Len(h), FileIn(h, f, fd + 1), EventsIn(h, c, fd + 1),
           Covered(h, f, c, fd)
    PROVE  LET e == [key |-> h[fd + 1].key, rev |-> fd + 1, put |-> h[fd + 1].put]
           IN  EventsIn(h, KeepEvents(c, {e}), fd + 2) /\ Covered(h, f, KeepEvents(c, {e}), fd + 1)
<1> DEFINE e == [key |-> h[fd + 1].key, rev |-> fd + 1, put |-> h[fd + 1].put]
           x == [rev |-> fd + 1, put |-> h[fd + 1].put]
           d == KeepEvents(c, {e})
<1>1. fd + 1 \in 1 .. Len(h) /\ h[fd + 1] \in Changes /\ h[fd + 1].key \in CacheKeys /\ h[fd + 1].put \in BOOLEAN
  <2>1. fd + 1 \in 1 .. Len(h) /\ h[fd + 1] \in Changes OBVIOUS
  <2> QED BY <2>1 DEF Changes
<1>2. x \in CachedEvents /\ x # None BY <1>1, FilesAssumption DEF CachedEvents
<1>3. ASSUME NEW k \in CacheKeys, k # e.key PROVE d[k] = c[k]
  <2>1. {y \in {e} : y.key = k} = {} BY <1>3
  <2> QED BY <2>1 DEF KeepEvents
<1>4. ASSUME NEW k \in CacheKeys, k = e.key PROVE d[k] = x
  <2>1. {y \in {e} : y.key = k} = {e} BY <1>4
  <2>2. (CHOOSE y \in {e} : \A z \in {e} : z.rev <= y.rev) = e OBVIOUS
  <2>3. d[k] = IF c[k] = None THEN x ELSE IF c[k].rev < fd + 1 THEN x ELSE c[k] BY <2>1, <2>2 DEF KeepEvents
  <2>4. CASE c[k] # None /\ ~(c[k].rev < fd + 1)
    <3>1. c[k] \in CachedEvents /\ c[k].rev <= fd + 1 /\ h[c[k].rev] = [key |-> k, put |-> c[k].put] BY <2>4 DEF EventsIn
    <3>2. c[k].rev = fd + 1 BY <2>4, <3>1 DEF CachedEvents
    <3>3. c[k].put = h[fd + 1].put BY <3>1, <3>2
    <3>4. c[k] = x BY <3>1, <3>2, <3>3 DEF CachedEvents
    <3> QED BY <2>3, <3>4
  <2> QED BY <2>3, <2>4
<1>5. DOMAIN d = CacheKeys /\ d = [k \in CacheKeys |-> d[k]] BY DEF KeepEvents
<1>6. h[fd + 1] = [key |-> e.key, put |-> x.put] BY <1>1 DEF Changes
<1> HIDE DEF d, x
<1>7. ASSUME NEW k \in CacheKeys
      PROVE d[k] \in CachedEvents \union {None} /\ (d[k] # None => /\ d[k].rev \in 1 .. Len(h) /\ d[k].rev <= fd + 2
                                                                    /\ h[d[k].rev] = [key |-> k, put |-> d[k].put])
  <2>1. CASE k = e.key BY <1>1, <1>2, <1>4, <1>6, <2>1 DEF x
  <2>2. CASE k # e.key BY <1>3, <2>2 DEF EventsIn, CachedEvents
  <2> QED BY <2>1, <2>2
<1>8. EventsIn(h, d, fd + 2) BY <1>5, <1>7 DEF EventsIn
<1>9. ASSUME NEW k \in CacheKeys PROVE Seen(h, k, View(f, d[k], k), fd + 2)
  <2>1. CASE k # e.key
    <3>1. Seen(h, k, View(f, c[k], k), fd + 1) BY DEF Covered
    <3>2. Later(h, k, fd + 1) => Later(h, k, fd + 2) BY <2>1 DEF Later
    <3> QED BY <1>3, <2>1, <3>1, <3>2 DEF Seen
  <2>2. CASE k = e.key /\ Later(h, k, fd + 2) BY <2>2 DEF Seen
  <2>3. CASE k = e.key /\ ~Later(h, k, fd + 2)
    <3>1. \A i \in 1 .. Len(h) : h[i].key = k => i <= fd + 1 BY <2>3 DEF Later
    <3>2. \A l \in CacheLines : l \in CurLines(h, k) <=> l = [key |-> k, rev |-> fd + 1] /\ h[fd + 1].put
      <4>1. ASSUME NEW l \in CurLines(h, k) PROVE l = [key |-> k, rev |-> fd + 1] /\ h[fd + 1].put
        <5>1. l \in CacheLines /\ l.key = k /\ l.rev \in 1 .. Len(h) /\ h[l.rev] = [key |-> k, put |-> TRUE] /\ fd + 1 <= l.rev
              BY <1>1, <2>3 DEF CurLines, LineIn
        <5>2. l.rev <= fd + 1 BY <3>1, <5>1
        <5>3. l.rev = fd + 1 BY <5>1, <5>2
        <5> QED BY <5>1, <5>3 DEF CacheLines
      <4>2. ASSUME h[fd + 1].put, NEW l \in CacheLines, l = [key |-> k, rev |-> fd + 1] PROVE l \in CurLines(h, k)
        <5>1. h[l.rev] = [key |-> k, put |-> TRUE] BY <1>1, <1>6, <2>3, <4>2 DEF x
        <5> QED BY <1>1, <3>1, <4>2, <5>1 DEF CurLines, LineIn
      <4> QED BY <4>1, <4>2
    <3>3. \A l \in f : l.key = k => l \in CacheLines /\ l.rev \in Nat /\ l.rev <= fd + 1 /\ h[l.rev] = [key |-> k, put |-> TRUE]
          BY DEF FileIn, LineIn, CacheLines
    <3>4. d[k] = x /\ x.rev = fd + 1 /\ x.put = h[fd + 1].put BY <1>4, <2>3 DEF x
    <3>5. [key |-> k, rev |-> fd + 1] \in CacheLines BY DEF CacheLines
    <3>6. CASE Newer(f, x, k)
      <4>1. View(f, x, k) = IF h[fd + 1].put THEN {[key |-> k, rev |-> fd + 1]} ELSE {} BY <3>4, <3>6 DEF View
      <4>2. CurLines(h, k) \subseteq CacheLines BY DEF CurLines
      <4> QED BY <3>2, <3>4, <3>5, <4>1, <4>2 DEF Seen
    <3>7. CASE ~Newer(f, x, k)
      <4>1. PICK l \in f : l.key = k /\ ~(fd + 1 > l.rev) BY <1>2, <3>4, <3>7 DEF Newer
      <4>2. l.rev = fd + 1 BY <3>3, <4>1
      <4>3. l = [key |-> k, rev |-> fd + 1] BY <3>3, <4>1, <4>2 DEF CacheLines
      <4>4. h[fd + 1].put BY <3>3, <4>1, <4>2
      <4>5. Of(f, k) = {l} BY <4>1 DEF Of, FileIn
      <4>6. CurLines(h, k) \subseteq CacheLines BY DEF CurLines
      <4>7. CurLines(h, k) = {l} BY <3>2, <3>5, <4>3, <4>4, <4>6
      <4>8. View(f, d[k], k) = CurLines(h, k) BY <3>4, <3>7, <4>5, <4>7 DEF View
      <4> QED BY <4>8 DEF Seen
    <3> QED BY <3>6, <3>7
  <2> QED BY <2>1, <2>2, <2>3
<1>10. Covered(h, f, d, fd + 1) BY <1>9 DEF Covered
<1> QED BY <1>8, <1>10 DEF d

\* The events a start makes of the lines of a file.
Sent(f) == KeepEvents(NoEvents, {[key |-> l.key, rev |-> l.rev, put |-> TRUE] : l \in f})

LEMMA SentIs ==
    ASSUME NEW h \in Seq(Changes), NEW f, NEW r \in Nat, FileIn(h, f, r)
    PROVE  /\ EventsIn(h, Sent(f), r)
           /\ \A k \in CacheKeys : View(f, Sent(f)[k], k) = Of(f, k) /\ View({}, Sent(f)[k], k) = Of(f, k)
<1> DEFINE E == {[key |-> l.key, rev |-> l.rev, put |-> TRUE] : l \in f}
           c == Sent(f)
<1>0. f \subseteq CacheLines BY DEF FileIn
<1>1. ASSUME NEW k \in CacheKeys, Of(f, k) = {} PROVE c[k] = None
  <2>1. {x \in E : x.key = k} = {} BY <1>1 DEF Of
  <2> QED BY <2>1 DEF Sent, KeepEvents, NoEvents
<1>2. ASSUME NEW k \in CacheKeys, NEW l \in f, l.key = k PROVE c[k] = [rev |-> l.rev, put |-> TRUE]
  <2> DEFINE e == [key |-> k, rev |-> l.rev, put |-> TRUE]
  <2>0. l.rev \in Nat BY <1>0 DEF CacheLines
  <2>1. e \in E BY <1>2
  <2>2. ASSUME NEW x \in E, x.key = k PROVE x = e
    <3>1. PICK m \in f : x = [key |-> m.key, rev |-> m.rev, put |-> TRUE] BY <2>2
    <3>2. m = l BY <1>2, <2>2, <3>1 DEF FileIn
    <3> QED BY <1>2, <3>1, <3>2
  <2> DEFINE N == {x \in E : x.key = k}
             y == CHOOSE x \in N : \A z \in N : z.rev <= x.rev
  <2>3. N = {e} BY <2>1, <2>2
  <2>4. y = e
    <3>1. (CHOOSE x \in {e} : \A z \in {e} : z.rev <= x.rev) = e BY <2>0
    <3> HIDE DEF N
    <3> QED BY <2>3, <3>1
  <2>5. c[k] = IF N = {} THEN NoEvents[k]
               ELSE IF NoEvents[k] = None THEN [rev |-> y.rev, put |-> y.put]
               ELSE IF NoEvents[k].rev < y.rev THEN [rev |-> y.rev, put |-> y.put] ELSE NoEvents[k]
        BY DEF Sent, KeepEvents
  <2>6. NoEvents[k] = None BY DEF NoEvents
  <2> HIDE DEF N, y, c
  <2> QED BY <2>3, <2>4, <2>5, <2>6
<1>3. DOMAIN c = CacheKeys /\ c = [k \in CacheKeys |-> c[k]] BY DEF Sent, KeepEvents
<1> HIDE DEF c
<1>4. ASSUME NEW k \in CacheKeys, NEW l \in f, l.key = k
      PROVE  /\ c[k] \in CachedEvents /\ c[k].rev \in 1 .. Len(h) /\ c[k].rev <= r /\ h[c[k].rev] = [key |-> k, put |-> c[k].put]
             /\ c[k] # None
  <2>1. l \in CacheLines /\ l.rev \in 1 .. Len(h) /\ l.rev <= r /\ h[l.rev] = [key |-> k, put |-> TRUE] BY <1>4 DEF FileIn, LineIn
  <2>2. c[k] = [rev |-> l.rev, put |-> TRUE] BY <1>2, <1>4
  <2>3. [rev |-> l.rev, put |-> TRUE] \in CachedEvents BY <2>1 DEF CacheLines, CachedEvents
  <2>4. c[k] # None BY <2>2, <2>3, FilesAssumption DEF CachedEvents
  <2> QED BY <2>1, <2>2, <2>3, <2>4
<1>5. ASSUME NEW k \in CacheKeys
      PROVE c[k] \in CachedEvents \union {None} /\ (c[k] # None => /\ c[k].rev \in 1 .. Len(h) /\ c[k].rev <= r
                                                                    /\ h[c[k].rev] = [key |-> k, put |-> c[k].put])
  <2>1. CASE Of(f, k) = {} BY <1>1, <2>1
  <2>2. CASE Of(f, k) # {}
    <3>1. PICK l \in f : l.key = k BY <2>2 DEF Of
    <3> QED BY <1>4, <3>1
  <2> QED BY <2>1, <2>2
<1>6. EventsIn(h, c, r) BY <1>3, <1>5 DEF EventsIn
<1>7. ASSUME NEW k \in CacheKeys PROVE View(f, c[k], k) = Of(f, k) /\ View({}, c[k], k) = Of(f, k)
  <2>1. CASE Of(f, k) = {}
    <3>1. c[k] = None BY <1>1, <2>1
    <3> QED BY <2>1, <3>1 DEF View, Newer, Of
  <2>2. CASE Of(f, k) # {}
    <3>1. PICK l \in f : l.key = k BY <2>2 DEF Of
    <3>2. c[k] = [rev |-> l.rev, put |-> TRUE] /\ c[k] # None BY <1>2, <1>4, <3>1
    <3>3. Of(f, k) = {l} BY <3>1 DEF Of, FileIn
    <3>4. l \in CacheLines /\ l.rev \in Nat /\ l = [key |-> k, rev |-> l.rev] BY <1>0, <3>1 DEF CacheLines
    <3>5. ~Newer(f, c[k], k) BY <3>1, <3>2, <3>4 DEF Newer
    <3>6. Newer({}, c[k], k) BY <3>2 DEF Newer
    <3> QED BY <3>2, <3>3, <3>4, <3>5, <3>6 DEF View
  <2> QED BY <2>1, <2>2
<1> QED BY <1>6, <1>7 DEF c

\* What etcd lists.
LEMMA LastChangeIs ==
    ASSUME hist \in Seq(Changes), NEW k \in CacheKeys
    PROVE  LET m == LastChange(k, Len(hist))
           IN  /\ m \in 0 .. Len(hist) /\ (m # 0 => hist[m].key = k)
               /\ \A i \in 1 .. Len(hist) : hist[i].key = k => i <= m
<1> DEFINE S == {0} \union {i \in 1 .. Len(hist) : hist[i].key = k}
<1>1. Len(hist) \in Nat OBVIOUS
<1>2. S \subseteq 0 .. Len(hist) BY <1>1
<1>3. Max(S) \in S /\ \A y \in S : y <= Max(S) BY <1>1, <1>2, BoundedMax
<1>4. LastChange(k, Len(hist)) = Max(S) BY DEF LastChange
<1> QED BY <1>2, <1>3, <1>4

LEMMA SnapshotIs ==
    ASSUME hist \in Seq(Changes)
    PROVE  /\ FileIn(hist, Snapshot(Len(hist)), Len(hist))
           /\ \A k \in CacheKeys : Of(Snapshot(Len(hist)), k) = CurLines(hist, k)
<1> DEFINE S == Snapshot(Len(hist))
<1>0. Len(hist) \in Nat OBVIOUS
<1>1. \A l : l \in S <=> /\ l \in [key : CacheKeys, rev : 1 .. Len(hist)] /\ l.rev = LastChange(l.key, Len(hist))
                         /\ hist[l.rev].put
      BY DEF Snapshot
<1> HIDE DEF S
<1>2. ASSUME NEW l \in S PROVE l \in CurLines(hist, l.key) /\ l \in CacheLines /\ l.rev <= Len(hist) /\ l.key \in CacheKeys
  <2>1. l \in [key : CacheKeys, rev : 1 .. Len(hist)] /\ l.rev = LastChange(l.key, Len(hist)) /\ hist[l.rev].put BY <1>1, <1>2
  <2>2. l.key \in CacheKeys /\ l.rev \in 1 .. Len(hist) /\ l \in CacheLines BY <1>0, <2>1 DEF CacheLines
  <2>3. hist[l.rev].key = l.key /\ \A i \in 1 .. Len(hist) : hist[i].key = l.key => i <= l.rev BY <2>1, <2>2, LastChangeIs
  <2>4. hist[l.rev] \in Changes BY <2>2
  <2>5. hist[l.rev] = [key |-> l.key, put |-> TRUE] BY <2>1, <2>3, <2>4 DEF Changes
  <2> QED BY <2>2, <2>3, <2>5 DEF CurLines, LineIn
<1>3. ASSUME NEW k \in CacheKeys, NEW l \in CurLines(hist, k) PROVE l \in S
  <2>1. l \in CacheLines /\ l.key = k /\ l.rev \in 1 .. Len(hist) /\ hist[l.rev] = [key |-> k, put |-> TRUE]
        /\ \A i \in 1 .. Len(hist) : hist[i].key = k => i <= l.rev
        BY <1>3 DEF CurLines, LineIn
  <2>2. l.rev = LastChange(k, Len(hist))
    <3>1. PICK m : m = LastChange(k, Len(hist)) OBVIOUS
    <3>2. m \in 0 .. Len(hist) /\ (m # 0 => hist[m].key = k) /\ \A i \in 1 .. Len(hist) : hist[i].key = k => i <= m
          BY <3>1, LastChangeIs
    <3>3. hist[l.rev].key = k BY <2>1
    <3>4. l.rev <= m BY <2>1, <3>2, <3>3
    <3>5. m \in 1 .. Len(hist) /\ hist[m].key = k BY <1>0, <2>1, <3>2, <3>4
    <3>6. m <= l.rev BY <2>1, <3>5
    <3> QED BY <1>0, <2>1, <3>1, <3>4, <3>5, <3>6
  <2>3. l \in [key : CacheKeys, rev : 1 .. Len(hist)] BY <2>1 DEF CacheLines
  <2>4. hist[l.rev].put BY <2>1
  <2> QED BY <1>1, <2>1, <2>2, <2>3, <2>4
<1>4. \A l, m \in S : l.key = m.key => l = m
  <2>1. \A l \in S : l = [key |-> l.key, rev |-> LastChange(l.key, Len(hist))] BY <1>1
  <2> QED BY <2>1
<1>5. FileIn(hist, S, Len(hist)) BY <1>0, <1>2, <1>4 DEF FileIn, CurLines
<1>6. \A k \in CacheKeys : Of(S, k) = CurLines(hist, k) BY <1>2, <1>3 DEF Of, CurLines
<1> QED BY <1>5, <1>6 DEF S

\* The inductive invariant. A file that the meta file describes is good for the revision it names,
\* and so is the one a flush is writing. While the watcher runs, the file and the events together
\* are what etcd had up to the revision that was fed.
Files == SUBSET CacheLines
LinesOf(f) == IF f = None THEN {} ELSE f
Writing(fl) == fl.pc \in {"write", "meta", "metaData", "remove"}
Target(d, fl) == LinesOf(d) \union fl.out
FileOk(h, f, r) == r <= Len(h) /\ FileIn(h, f, r) /\ Good(h, f, r)

FlushRecs == [pc : {"idle", "backup", "open", "write", "meta", "metaData", "remove", "restore"},
                      by : Cachers \union {None}, out : Files, rev : Nat, restoring : BOOLEAN]

CacheType ==
    /\ hist \in Seq(Changes) /\ fed \in Nat /\ fed <= Len(hist) /\ Len(hist) <= MaxEtcdRev
    /\ data \in Files \union {None} /\ backup \in Files \union {None}
    /\ meta \in [state : {"none", "torn", "whole"}, rev : Nat, md5 : Files \union {None}]
    /\ flush \in FlushRecs
    /\ DOMAIN eventCache = Cachers
    /\ restored # None => restored.rev \in Nat /\ restored.rev <= Len(hist)

MetaOk(h, m) == m.rev <= Len(h) /\ (m.md5 # None => m.state = "whole" /\ m.rev >= 1 /\ m.md5 # {} /\ FileOk(h, m.md5, m.rev))

FlushOk(h, d, b, m, fl) ==
    /\ Writing(fl) => d # None /\ FileOk(h, Target(d, fl), fl.rev)
    /\ fl.pc \in {"meta", "metaData", "remove"} => fl.out = {} /\ d # {}
    /\ fl.pc = "remove" => m.md5 = d
    /\ fl.pc = "open" => fl.rev = m.rev /\ (b # None => b = m.md5)
    /\ fl.pc \in {"idle", "restore"} => b = None
    /\ fl.restoring => fl.pc # "idle" /\ (fl.pc \in {"backup", "open"} => b # None)

PutsWritten(t, c) == \A k \in CacheKeys : c[k] # None /\ c[k].put => Of(t, k) # {}
RunOk(h, fd, d, b, m, fl, c, p) ==
    /\ fl.pc # "restore" /\ (fl.pc # "idle" => fl.by = p) /\ m.rev <= fd + 1 /\ EventsIn(h, c, fd + 1)
    /\ fl.pc \in {"idle", "backup"} => b = None /\ (d # None => d = m.md5) /\ Covered(h, LinesOf(d), c, fd)
    /\ fl.pc = "open" => Covered(h, LinesOf(b), c, fd)
    /\ Writing(fl) => fl.rev <= fd + 1 /\ Good(h, Target(d, fl), fd + 1) /\ PutsWritten(Target(d, fl), c)

RestoredOk(h, x) == x = None \/ Good(h, x.kv, x.rev)

CacheInv(p) ==
    /\ CacheType /\ MetaOk(hist, meta) /\ FlushOk(hist, data, backup, meta, flush)
    /\ ~flush.restoring => RunOk(hist, fed, data, backup, meta, flush, eventCache[p], p)
    /\ RestoredOk(hist, restored)

LEMMA ChangeKeyKeeps ==
    ASSUME NEW p, Cachers = {p}, CacheInv(p), NEW k \in CacheKeys, NEW put \in BOOLEAN, ChangeKey(k, put)
    PROVE  CacheInv(p)'
<1>1. PICK e \in Changes : e = [key |-> k, put |-> put] BY DEF Changes
<1>2. hist' = Append(hist, e) /\ UNCHANGED <<fed, eventCache, data, backup, meta, flush, restored>>
      BY <1>1 DEF ChangeKey, files
<1>0. hist \in Seq(Changes) BY DEF CacheInv, CacheType
<1>3. PICK g \in Seq(Changes) : g = Append(hist, e)
  <2>1. Append(hist, e) \in Seq(Changes) BY <1>0, AppendProperties
  <2> QED BY <2>1
<1>4. hist \in Seq(Changes) /\ fed \in Nat /\ meta.rev \in Nat /\ flush.rev \in Nat /\ Len(hist) \in Nat /\ fed <= Len(hist)
      BY DEF CacheInv, CacheType, FlushRecs
<1>5. Len(g) = Len(hist) + 1 BY <1>3, <1>4
<1>6. CacheType' BY <1>2, <1>3, <1>4, <1>5, FilesAssumption DEF CacheInv, CacheType, ChangeKey
<1>7. ASSUME NEW f, NEW r \in Nat, FileOk(hist, f, r) PROVE FileOk(g, f, r)
  <2>1. r <= Len(hist) BY <1>7 DEF FileOk
  <2> QED BY <1>3, <1>4, <1>5, <1>7, <2>1, FileGrows, GoodGrows DEF FileOk
<1>8. MetaOk(g, meta) BY <1>4, <1>5, <1>7 DEF CacheInv, MetaOk
<1>9. FlushOk(g, data, backup, meta, flush) BY <1>4, <1>7 DEF CacheInv, FlushOk
<1>10. ASSUME NEW c, RunOk(hist, fed, data, backup, meta, flush, c, p) PROVE RunOk(g, fed, data, backup, meta, flush, c, p)
  <2>1. \A f : Covered(hist, f, c, fed) => Covered(g, f, c, fed) BY <1>3, <1>4, CoveredGrows
  <2>2. EventsIn(g, c, fed + 1) BY <1>3, <1>4, <1>10, EventsGrow DEF RunOk
  <2>3. \A f : Good(hist, f, fed + 1) => Good(g, f, fed + 1) BY <1>3, <1>4, GoodGrows
  <2> QED BY <1>10, <2>1, <2>2, <2>3 DEF RunOk
<1>11. RestoredOk(g, restored)
  <2>1. CASE restored # None
    <3>1. restored.rev \in Nat /\ restored.rev <= Len(hist) BY <2>1 DEF CacheInv, CacheType
    <3> QED BY <1>3, <1>4, <2>1, <3>1, GoodGrows DEF CacheInv, RestoredOk
  <2> QED BY <2>1 DEF RestoredOk
<1> QED BY <1>2, <1>3, <1>6, <1>8, <1>9, <1>10, <1>11 DEF CacheInv

LEMMA CacheEventKeeps ==
    ASSUME NEW p, Cachers = {p}, CacheInv(p), CacheEvent(p)
    PROVE  CacheInv(p)'
<1>1. hist \in Seq(Changes) /\ fed \in Nat /\ fed < Len(hist) /\ ~flush.restoring /\ flush.by # p /\ meta.rev \in Nat /\ Len(hist) \in Nat
      BY DEF CacheInv, CacheType, CacheEvent
<1>2. RunOk(hist, fed, data, backup, meta, flush, eventCache[p], p) BY <1>1 DEF CacheInv
<1>3. flush.pc = "idle" /\ backup = None /\ (data # None => data = meta.md5) /\ Covered(hist, LinesOf(data), eventCache[p], fed)
      /\ meta.rev <= fed + 1 /\ EventsIn(hist, eventCache[p], fed + 1)
      BY <1>1, <1>2 DEF RunOk
<1>4. FileIn(hist, LinesOf(data), fed + 1)
  <2>1. CASE data = None BY <1>1, <2>1 DEF LinesOf, FileIn
  <2>2. CASE data # None
    <3>1. FileIn(hist, data, meta.rev) BY <1>3, <2>2 DEF CacheInv, MetaOk, FileOk
    <3>2. \A l \in data : l.rev \in Nat BY <3>1 DEF FileIn, CacheLines
    <3> QED BY <1>1, <1>3, <2>2, <3>1, <3>2 DEF LinesOf, FileIn
  <2> QED BY <2>1, <2>2
<1>5. PICK e : e = [key |-> hist[fed + 1].key, rev |-> fed + 1, put |-> hist[fed + 1].put] OBVIOUS
<1>6. PICK c : c = KeepEvents(eventCache[p], {e}) OBVIOUS
<1>7. EventsIn(hist, c, fed + 2) /\ Covered(hist, LinesOf(data), c, fed + 1) BY <1>1, <1>3, <1>4, <1>5, <1>6, FedCovers
<1>8. fed' = fed + 1 /\ UNCHANGED <<hist, data, backup, meta, flush, restored>>
      BY DEF CacheEvent, files
<1>9. eventCache' = [eventCache EXCEPT ![p] = c] BY <1>5, <1>6 DEF CacheEvent
<1>10. DOMAIN eventCache = {p} BY DEF CacheInv, CacheType
<1>11. eventCache'[p] = c /\ DOMAIN eventCache' = {p} BY <1>9, <1>10
<1>12. CacheType' BY <1>1, <1>8, <1>11 DEF CacheInv, CacheType
<1>13. RunOk(hist, fed + 1, data, backup, meta, flush, c, p)
  <2>1. meta.rev <= (fed + 1) + 1 /\ EventsIn(hist, c, (fed + 1) + 1)
    <3>1. (fed + 1) + 1 = fed + 2 BY <1>1
    <3> QED BY <1>1, <1>3, <1>7, <3>1
  <2> QED BY <1>3, <1>7, <2>1 DEF RunOk, Writing
<1> QED BY <1>8, <1>11, <1>12, <1>13 DEF CacheInv

LEMMA NoFlushIs == NoFlush \in FlushRecs /\ NoFlush.pc = "idle" /\ NoFlush.by = None /\ ~NoFlush.restoring
BY DEF NoFlush, FlushRecs, Files

LEMMA StartFlushKeeps ==
    ASSUME NEW p, Cachers = {p}, CacheInv(p), StartFlush(p)
    PROVE  CacheInv(p)'
<1>1. ~flush.restoring /\ flush.by # p BY DEF StartFlush
<1>2. RunOk(hist, fed, data, backup, meta, flush, eventCache[p], p) BY <1>1 DEF CacheInv
<1>3. flush.pc = "idle" BY <1>1, <1>2 DEF RunOk
<1>4. flush' = [NoFlush EXCEPT !.pc = "backup", !.by = p] /\ UNCHANGED <<hist, fed, eventCache, data, backup, meta, restored>>
      BY <1>3 DEF StartFlush, files
<1>5. PICK fl \in FlushRecs : fl = flush' /\ fl.pc = "backup" /\ fl.by = p /\ ~fl.restoring
  <2>1. PICK n \in FlushRecs : n = NoFlush /\ ~n.restoring BY NoFlushIs
  <2>2. PICK x : x = [n EXCEPT !.pc = "backup", !.by = p] OBVIOUS
  <2>3. flush' = x BY <1>4, <2>1, <2>2
  <2>4. x \in FlushRecs BY <2>2 DEF FlushRecs
  <2>5. x.pc = "backup" /\ x.by = p /\ x.restoring = n.restoring BY <2>2 DEF FlushRecs
  <2> QED BY <2>1, <2>3, <2>4, <2>5
<1>7. CacheType' BY <1>4, <1>5 DEF CacheInv, CacheType
<1>8. RunOk(hist, fed, data, backup, meta, fl, eventCache[p], p) BY <1>2, <1>3, <1>5 DEF RunOk, Writing
<1>9. FlushOk(hist, data, backup, meta, fl) BY <1>5 DEF FlushOk, Writing
<1> QED BY <1>4, <1>5, <1>7, <1>8, <1>9 DEF CacheInv

\* The end of a flush that gave up: no data file is left, and the events stay.
LEMMA GivenUp ==
    ASSUME NEW p, Cachers = {p}, CacheInv(p), UNCHANGED <<hist, fed, restored>>, EndFlush(FALSE),
           data' = None, backup' = None, meta' = meta \/ meta' = NoMeta,
           ~flush.restoring => Covered(hist, {}, eventCache[p], fed)
    PROVE  CacheInv(p)'
<1>1. eventCache' = eventCache BY DEF EndFlush
<1>4. PICK fl \in FlushRecs : fl = flush' /\ fl.restoring = flush.restoring /\ fl.pc = (IF flush.restoring THEN "restore" ELSE "idle")
  <2>0. flush.restoring \in BOOLEAN BY DEF CacheInv, CacheType, FlushRecs
  <2>1. PICK n \in FlushRecs : n = NoFlush /\ n.pc = "idle" /\ ~n.restoring BY NoFlushIs
  <2>2. PICK x : x = [n EXCEPT !.pc = "restore", !.restoring = TRUE] OBVIOUS
  <2>3. flush' = IF flush.restoring THEN x ELSE n BY <2>1, <2>2 DEF EndFlush
  <2>4. x \in FlushRecs BY <2>2 DEF FlushRecs
  <2>5. x.pc = "restore" /\ x.restoring = TRUE BY <2>2 DEF FlushRecs
  <2>6. n.restoring = FALSE BY <2>1 DEF FlushRecs
  <2> QED BY <2>0, <2>1, <2>3, <2>4, <2>5, <2>6
<1>5. meta' \in [state : {"none", "torn", "whole"}, rev : Nat, md5 : Files \union {None}] BY DEF CacheInv, CacheType, NoMeta
<1>6. CacheType' BY <1>1, <1>4, <1>5 DEF CacheInv, CacheType
<1>7. MetaOk(hist, meta')
  <2>1. CASE meta' = meta BY <2>1 DEF CacheInv
  <2>2. CASE meta' = NoMeta
    <3>1. meta'.rev = 0 /\ meta'.md5 = None BY <2>2 DEF NoMeta
    <3>2. Len(hist) \in Nat BY DEF CacheInv, CacheType
    <3> QED BY <3>1, <3>2 DEF MetaOk
  <2> QED BY <2>1, <2>2
<1>8. FlushOk(hist, data', backup', meta', fl) BY <1>4 DEF FlushOk, Writing
<1>9. ASSUME ~flush.restoring PROVE RunOk(hist, fed, data', backup', meta', fl, eventCache[p], p)
  <2>1. RunOk(hist, fed, data, backup, meta, flush, eventCache[p], p) BY <1>9 DEF CacheInv
  <2>2. meta'.rev <= fed + 1
    <3>1. fed \in Nat BY DEF CacheInv, CacheType
    <3> QED BY <2>1, <3>1 DEF RunOk, NoMeta
  <2>3. Covered(hist, LinesOf(data'), eventCache[p], fed) BY <1>9 DEF LinesOf
  <2> QED BY <1>4, <1>9, <2>1, <2>2, <2>3 DEF RunOk, Writing
<1> QED BY <1>1, <1>4, <1>6, <1>7, <1>8, <1>9 DEF CacheInv

LEMMA BackupKeeps ==
    ASSUME NEW p, Cachers = {p}, CacheInv(p), ProcessDataBackup
    PROVE  CacheInv(p)'
<1> DEFINE b == IF backup # None THEN backup ELSE data
           bad == meta.state = "torn" \/ (b # None /\ Md5(b) # meta.md5)
<1>0. flush.pc = "backup" /\ UNCHANGED <<hist, fed, restored>> BY DEF ProcessDataBackup
<1>1. CASE bad
  <2>1. Clean(TRUE, TRUE, TRUE) /\ EndFlush(FALSE) BY <1>1 DEF ProcessDataBackup
  <2>2. meta' = NoMeta /\ data' = None /\ backup' = None BY <2>1 DEF Clean
  <2>3. ASSUME ~flush.restoring PROVE Covered(hist, {}, eventCache[p], fed)
    <3>1. backup = None /\ (data # None => data = meta.md5) /\ Covered(hist, LinesOf(data), eventCache[p], fed)
          BY <1>0, <2>3 DEF CacheInv, RunOk
    <3>2. data = None
      <4>1. CASE data # None
        <5>1. meta.md5 # None BY <3>1, <4>1
        <5>2. meta.state = "torn" BY <1>1, <3>1, <4>1 DEF Md5
        <5> QED BY <5>1, <5>2 DEF CacheInv, MetaOk
      <4> QED BY <4>1
    <3> QED BY <3>1, <3>2 DEF LinesOf
  <2> QED BY <1>0, <2>1, <2>2, <2>3, GivenUp
<1>2. CASE ~bad
  <2>1. backup' = b /\ data' = None /\ UNCHANGED <<meta, eventCache>> /\ flush' = [flush EXCEPT !.pc = "open", !.rev = meta.rev]
        BY <1>2 DEF ProcessDataBackup
  <2>2. PICK fl : fl = flush' OBVIOUS
  <2>3. /\ fl \in FlushRecs
        /\ fl.pc = "open" /\ fl.rev = meta.rev /\ fl.restoring = flush.restoring /\ fl.by = flush.by
        BY <2>1, <2>2 DEF CacheInv, CacheType, FlushRecs
  <2>4. CacheType' BY <1>0, <2>1, <2>2, <2>3 DEF CacheInv, CacheType
  <2>5. b # None => b = meta.md5 BY <1>2 DEF Md5
  <2>6. FlushOk(hist, None, b, meta, fl)
    <3>1. fl.restoring => b # None BY <1>0, <2>3 DEF CacheInv, FlushOk
    <3> QED BY <2>3, <2>5, <3>1 DEF FlushOk, Writing
  <2>7. ASSUME ~flush.restoring PROVE RunOk(hist, fed, None, b, meta, fl, eventCache[p], p)
    <3>1. backup = None /\ Covered(hist, LinesOf(data), eventCache[p], fed) /\ flush.by = p /\ meta.rev <= fed + 1 /\ EventsIn(hist, eventCache[p], fed + 1)
          BY <1>0, <2>7 DEF CacheInv, RunOk
    <3>2. b = data BY <3>1
    <3> QED BY <2>3, <3>1, <3>2 DEF RunOk, Writing
  <2> HIDE DEF b
  <2> QED BY <1>0, <2>1, <2>2, <2>3, <2>4, <2>6, <2>7 DEF CacheInv
<1> QED BY <1>1, <1>2

\* A flush of a running watcher, and of a start that finds a backup.
LEMMA OpenRunning ==
    ASSUME NEW h \in Seq(Changes), NEW f, NEW c, NEW fd \in Nat, NEW r \in Nat, r <= fd + 1, r <= Len(h), FileIn(h, f, r),
           EventsIn(h, c, fd + 1), Covered(h, f, c, fd), NEW q, q = NewRevision(r, f, c)
    PROVE  q \in Nat /\ q <= fd + 1 /\ FileOk(h, Merge(f, c), q) /\ Good(h, Merge(f, c), fd + 1) /\ PutsWritten(Merge(f, c), c)
<1>0. Len(h) \in Nat /\ fd + 1 \in Nat OBVIOUS
<1>1. \A n \in Nat : r <= n => FileIn(h, f, n)
  <2>1. \A l \in f : l.rev \in Nat BY DEF FileIn, CacheLines
  <2> QED BY <2>1 DEF FileIn
<1>2. EventsIn(h, c, Len(h)) BY DEF EventsIn
<1>3. q \in Nat /\ q <= fd + 1 /\ r <= q /\ \A k \in CacheKeys : c[k] # None => c[k].rev <= q BY <1>0, <1>1, NewRevisionIs
<1>4. q <= Len(h) BY <1>0, <1>1, <1>2, NewRevisionIs
<1>5. EventsIn(h, c, q) BY <1>3 DEF EventsIn
<1>6. FileIn(h, f, q) BY <1>1, <1>3
<1>7. FileIn(h, Merge(f, c), q) BY <1>3, <1>5, <1>6, MergeMerges
<1>8. Good(h, Merge(f, c), fd + 1) /\ PutsWritten(Merge(f, c), c) BY <1>3, <1>5, <1>6, MergeCovers DEF PutsWritten
<1>9. Good(h, Merge(f, c), q) BY <1>0, <1>3, <1>8, GoodLower
<1> QED BY <1>3, <1>4, <1>7, <1>8, <1>9 DEF FileOk

LEMMA OpenRestoring ==
    ASSUME NEW h \in Seq(Changes), NEW f, NEW r \in Nat, FileOk(h, f, r)
    PROVE  NewRevision(r, f, NoEvents) = r /\ FileOk(h, Merge(f, NoEvents), r)
<1>1. EventsIn(h, NoEvents, r) /\ \A k \in CacheKeys : NoEvents[k] = None BY DEF EventsIn, NoEvents
<1>2. FileIn(h, f, r) BY DEF FileOk
<1>3. PICK q : q = NewRevision(r, f, NoEvents) OBVIOUS
<1>4. q \in Nat /\ q <= r /\ r <= q BY <1>1, <1>2, <1>3, NewRevisionIs
<1>5. FileIn(h, Merge(f, NoEvents), r) /\ \A k \in CacheKeys : Of(Merge(f, NoEvents), k) = View(f, NoEvents[k], k)
      BY <1>1, <1>2, MergeMerges
<1>6. \A k \in CacheKeys : View(f, NoEvents[k], k) = Of(f, k) BY <1>1 DEF View, Newer
<1>7. Good(h, Merge(f, NoEvents), r) BY <1>5, <1>6 DEF Good, FileOk
<1> QED BY <1>3, <1>4, <1>5, <1>7 DEF FileOk

LEMMA ScanAll == ASSUME LongKeys = {}, NEW f PROVE Scan(f) = LinesOf(f)
BY DEF Scan, LinesOf

LEMMA OpenDataKeeps ==
    ASSUME NEW p, Cachers = {p}, LongKeys = {}, CacheInv(p), OpenData, ~faulted'
    PROVE  CacheInv(p)'
<1> DEFINE events == IF flush.restoring THEN NoEvents ELSE eventCache[flush.by]
<1>0. flush.pc = "open" /\ UNCHANGED <<hist, fed, restored>> BY DEF OpenData
<1>1. /\ data' = {} /\ UNCHANGED <<backup, meta, eventCache>>
      /\ flush' = [flush EXCEPT !.pc = "write", !.out = Merge(Scan(backup), events), !.rev = NewRevision(@, Scan(backup), events)]
      BY DEF OpenData
<1>2. PICK f : f = LinesOf(backup) OBVIOUS
<1>3. PICK c : c = events OBVIOUS
<1>4. PICK q : q = NewRevision(meta.rev, f, c) OBVIOUS
<1>5. PICK T : T = Merge(f, c) OBVIOUS
<1>6. hist \in Seq(Changes) /\ fed \in Nat /\ meta.rev \in Nat /\ flush \in FlushRecs /\ flush.rev = meta.rev
      /\ (backup # None => backup = meta.md5) /\ meta.rev <= Len(hist)
      BY <1>0 DEF CacheInv, CacheType, FlushOk, MetaOk
<1>7. flush' = [flush EXCEPT !.pc = "write", !.out = T, !.rev = q]
  <2>1. Scan(backup) = f BY <1>2, ScanAll
  <2> QED BY <1>1, <1>3, <1>4, <1>5, <1>6, <2>1
<1>8. backup # None => FileOk(hist, f, meta.rev) BY <1>2, <1>6 DEF CacheInv, MetaOk, LinesOf
<1>9. q \in Nat /\ FileOk(hist, T, q)
      /\ (~flush.restoring => q <= fed + 1 /\ Good(hist, T, fed + 1) /\ PutsWritten(T, eventCache[p]))
  <2>1. CASE flush.restoring
    <3>1. backup # None BY <1>0, <2>1 DEF CacheInv, FlushOk
    <3>2. c = NoEvents BY <1>3, <2>1
    <3> QED BY <1>4, <1>5, <1>6, <1>8, <2>1, <3>1, <3>2, OpenRestoring
  <2>2. CASE ~flush.restoring
    <3>1. flush.by = p /\ Covered(hist, f, eventCache[p], fed) /\ meta.rev <= fed + 1 /\ EventsIn(hist, eventCache[p], fed + 1)
          BY <1>0, <1>2, <2>2 DEF CacheInv, RunOk
    <3>2. c = eventCache[p] BY <1>3, <2>2, <3>1
    <3>3. FileIn(hist, f, meta.rev)
      <4>1. CASE backup = None BY <1>2, <4>1 DEF LinesOf, FileIn
      <4> QED BY <1>8, <4>1 DEF FileOk
    <3> QED BY <1>4, <1>5, <1>6, <3>1, <3>2, <3>3, OpenRunning
  <2> QED BY <2>1, <2>2
<1>10. T \in Files BY <1>9 DEF FileOk, FileIn, Files
<1>11. PICK fl \in FlushRecs : fl = flush' /\ fl.pc = "write" /\ fl.out = T /\ fl.rev = q /\ fl.restoring = flush.restoring /\ fl.by = flush.by
  <2>1. PICK x : x = [flush EXCEPT !.pc = "write", !.out = T, !.rev = q] OBVIOUS
  <2>2. x \in FlushRecs BY <1>6, <1>9, <1>10, <2>1 DEF FlushRecs
  <2>3. x.pc = "write" /\ x.out = T /\ x.rev = q /\ x.restoring = flush.restoring /\ x.by = flush.by
        BY <1>6, <2>1 DEF FlushRecs
  <2> QED BY <1>7, <2>1, <2>2, <2>3
<1>12. data' # None /\ data' \in Files
  <2>1. {} \in SUBSET [key : CacheKeys, rev : 1 .. MaxEtcdRev] OBVIOUS
  <2> QED BY <1>1, <2>1, FilesAssumption DEF Files
<1>13. Target(data', fl) = T BY <1>1, <1>11, <1>12 DEF Target, LinesOf
<1>14. CacheType' BY <1>0, <1>1, <1>11, <1>12 DEF CacheInv, CacheType
<1>15. FlushOk(hist, data', backup, meta, fl) BY <1>9, <1>11, <1>12, <1>13 DEF FlushOk, Writing
<1>16. ASSUME ~flush.restoring PROVE RunOk(hist, fed, data', backup, meta, fl, eventCache[p], p)
  <2>1. RunOk(hist, fed, data, backup, meta, flush, eventCache[p], p) BY <1>16 DEF CacheInv
  <2> QED BY <1>0, <1>9, <1>11, <1>13, <1>16, <2>1 DEF RunOk, Writing
<1> QED BY <1>0, <1>1, <1>11, <1>14, <1>15, <1>16 DEF CacheInv

LEMMA WriteLineKeeps ==
    ASSUME NEW p, Cachers = {p}, CacheInv(p), WriteLine
    PROVE  CacheInv(p)'
<1>1. PICK l \in flush.out : data' = data \union {l} /\ flush' = [flush EXCEPT !.out = @ \ {l}] BY DEF WriteLine
<1>2. flush.pc = "write" /\ UNCHANGED <<hist, fed, eventCache, backup, meta, restored>> BY DEF WriteLine
<1>3. flush \in FlushRecs /\ data \in Files \union {None} /\ hist \in Seq(Changes) /\ Len(hist) <= MaxEtcdRev BY DEF CacheInv, CacheType
<1>4. data # None /\ FileOk(hist, Target(data, flush), flush.rev) BY <1>2 DEF CacheInv, FlushOk, Writing
<1>5. data \in Files /\ flush.out \in Files BY <1>3, <1>4 DEF FlushRecs
<1>6. PICK fl \in FlushRecs : /\ fl = flush' /\ fl.pc = "write" /\ fl.out = flush.out \ {l} /\ fl.rev = flush.rev
                              /\ fl.restoring = flush.restoring /\ fl.by = flush.by
  <2>0. flush.out \ {l} \in Files BY <1>5 DEF Files
  <2>1. PICK x : x = [flush EXCEPT !.out = flush.out \ {l}] OBVIOUS
  <2>2. x \in FlushRecs BY <1>3, <2>0, <2>1 DEF FlushRecs
  <2>3. x.pc = "write" /\ x.out = flush.out \ {l} /\ x.rev = flush.rev /\ x.restoring = flush.restoring /\ x.by = flush.by
        BY <1>2, <1>3, <2>1 DEF FlushRecs
  <2> QED BY <1>1, <2>1, <2>2, <2>3
<1>7. PICK d : d = data' OBVIOUS
<1>8. d \in Files /\ d \subseteq Target(data, flush) BY <1>1, <1>4, <1>5, <1>7 DEF Files, Target, LinesOf
<1>9. d # None
  <2>1. FileIn(hist, Target(data, flush), flush.rev) BY <1>4 DEF FileOk
  <2>2. \A m \in d : m \in CacheLines /\ m.rev \in 1 .. Len(hist) BY <1>8, <2>1 DEF FileIn, LineIn
  <2>3. \A m \in d : m \in [key : CacheKeys, rev : 1 .. MaxEtcdRev] BY <1>3, <2>2, FilesAssumption DEF CacheLines
  <2> QED BY <2>3, FilesAssumption
<1>10. Target(d, fl) = Target(data, flush) BY <1>1, <1>4, <1>6, <1>7, <1>9 DEF Target, LinesOf
<1>11. CacheType' BY <1>2, <1>6, <1>7, <1>8 DEF CacheInv, CacheType
<1>12. FlushOk(hist, d, backup, meta, fl) BY <1>4, <1>6, <1>9, <1>10 DEF FlushOk, Writing
<1>13. ASSUME ~flush.restoring PROVE RunOk(hist, fed, d, backup, meta, fl, eventCache[p], p)
  <2>1. RunOk(hist, fed, data, backup, meta, flush, eventCache[p], p) BY <1>13 DEF CacheInv
  <2> QED BY <1>2, <1>6, <1>10, <1>13, <2>1 DEF RunOk, Writing
<1> QED BY <1>2, <1>6, <1>7, <1>11, <1>12, <1>13 DEF CacheInv

\* A step of the flush that moves on: only the meta file changes with it.
LEMMA FlushMoves ==
    ASSUME NEW p, Cachers = {p}, CacheInv(p), UNCHANGED <<hist, fed, data, backup, eventCache, restored>>,
           NEW a \in {"meta", "metaData", "remove"}, flush' = [flush EXCEPT !.pc = a], Writing(flush), flush.out = {}, data # {},
           meta' \in [state : {"none", "torn", "whole"}, rev : Nat, md5 : Files \union {None}], MetaOk(hist, meta'),
           a = "remove" => meta'.md5 = data, meta'.rev \in {0, meta.rev, flush.rev}
    PROVE  CacheInv(p)'
<1>1. flush \in FlushRecs BY DEF CacheInv, CacheType
<1>2. PICK fl \in FlushRecs : /\ fl = flush' /\ fl.pc = a /\ fl.out = flush.out /\ fl.rev = flush.rev
                              /\ fl.restoring = flush.restoring /\ fl.by = flush.by
  <2>1. PICK x : x = [flush EXCEPT !.pc = a] OBVIOUS
  <2>2. x \in FlushRecs BY <1>1, <2>1 DEF FlushRecs
  <2>3. x.pc = a /\ x.out = flush.out /\ x.rev = flush.rev /\ x.restoring = flush.restoring /\ x.by = flush.by
        BY <1>1, <2>1 DEF FlushRecs
  <2> QED BY <2>1, <2>2, <2>3
<1>3. Target(data, fl) = Target(data, flush) /\ Writing(fl) BY <1>2 DEF Target, Writing
<1>4. CacheType' BY <1>2 DEF CacheInv, CacheType
<1>5. FlushOk(hist, data, backup, meta', fl)
  <2>1. data # None /\ FileOk(hist, Target(data, fl), fl.rev) BY <1>2, <1>3 DEF CacheInv, FlushOk
  <2> QED BY <1>2, <2>1 DEF FlushOk
<1>6. ASSUME ~flush.restoring PROVE RunOk(hist, fed, data, backup, meta', fl, eventCache[p], p)
  <2>1. RunOk(hist, fed, data, backup, meta, flush, eventCache[p], p) BY <1>6 DEF CacheInv
  <2>2. fed \in Nat BY DEF CacheInv, CacheType
  <2>3. flush.rev <= fed + 1 /\ meta.rev <= fed + 1 BY <2>1 DEF RunOk
  <2>4. meta'.rev <= fed + 1 BY <2>2, <2>3
  <2> QED BY <1>2, <1>3, <2>1, <2>4 DEF RunOk, Writing
<1> QED BY <1>2, <1>4, <1>5, <1>6 DEF CacheInv

LEMMA CloseDataKeeps ==
    ASSUME NEW p, Cachers = {p}, CacheInv(p), CloseData
    PROVE  CacheInv(p)'
<1>0. flush.pc = "write" /\ flush.out = {} /\ Writing(flush) /\ UNCHANGED <<hist, fed, restored>> BY DEF CloseData, Writing
<1>1. CASE data = {}
  <2>1. Clean(FALSE, TRUE, TRUE) /\ EndFlush(FALSE) BY <1>1 DEF CloseData
  <2>2. meta' = meta /\ data' = None /\ backup' = None BY <2>1 DEF Clean
  <2>3. ASSUME ~flush.restoring PROVE Covered(hist, {}, eventCache[p], fed)
    <3>1. Good(hist, Target(data, flush), fed + 1) /\ PutsWritten(Target(data, flush), eventCache[p])
          BY <1>0, <2>3 DEF CacheInv, RunOk
    <3>2. Target(data, flush) = {} BY <1>0, <1>1 DEF Target, LinesOf
    <3>3. ASSUME NEW k \in CacheKeys PROVE View({}, eventCache[p][k], k) = Of({}, k)
      <4>1. Of({}, k) = {} BY DEF Of
      <4>2. ~(eventCache[p][k] # None /\ eventCache[p][k].put) BY <3>1, <3>2, <4>1 DEF PutsWritten
      <4> QED BY <4>1, <4>2 DEF View, Newer
    <3> QED BY <3>1, <3>2, <3>3 DEF Good, Covered
  <2> QED BY <1>0, <2>1, <2>2, <2>3, GivenUp
<1>2. CASE data # {}
  <2>1. UNCHANGED <<data, backup, meta, eventCache>> /\ flush' = [flush EXCEPT !.pc = "meta"] BY <1>2 DEF CloseData, files
  <2>2. meta \in [state : {"none", "torn", "whole"}, rev : Nat, md5 : Files \union {None}] /\ MetaOk(hist, meta)
        BY DEF CacheInv, CacheType
  <2> QED BY <1>0, <1>2, <2>1, <2>2, FlushMoves
<1> QED BY <1>1, <1>2

LEMMA TruncateMetaKeeps ==
    ASSUME NEW p, Cachers = {p}, CacheInv(p), TruncateMeta, ~faulted'
    PROVE  CacheInv(p)'
<1>0. flush.pc = "meta" /\ Writing(flush) /\ UNCHANGED <<hist, fed, restored, data, backup, eventCache>> BY DEF TruncateMeta, Writing
<1>1. meta' = [NoMeta EXCEPT !.state = "torn"] /\ flush' = [flush EXCEPT !.pc = "metaData"] BY DEF TruncateMeta
<1>2. flush.out = {} /\ data # {} BY <1>0 DEF CacheInv, FlushOk
<1>3. meta' = [state |-> "torn", rev |-> 0, md5 |-> None] BY <1>1 DEF NoMeta
<1>4. meta' \in [state : {"none", "torn", "whole"}, rev : Nat, md5 : Files \union {None}] /\ meta'.rev = 0 /\ meta'.md5 = None BY <1>3
<1>5. MetaOk(hist, meta')
  <2>1. Len(hist) \in Nat BY DEF CacheInv, CacheType
  <2> QED BY <1>4, <2>1 DEF MetaOk
<1> QED BY <1>0, <1>1, <1>2, <1>4, <1>5, FlushMoves

LEMMA WriteMetaKeeps ==
    ASSUME NEW p, Cachers = {p}, CacheInv(p), WriteMeta
    PROVE  CacheInv(p)'
<1>0. flush.pc = "metaData" /\ Writing(flush) /\ UNCHANGED <<hist, fed, restored, data, backup, eventCache>> BY DEF WriteMeta, Writing
<1>1. meta' = [state |-> "whole", rev |-> flush.rev, md5 |-> data] /\ flush' = [flush EXCEPT !.pc = "remove"] BY DEF WriteMeta, Md5
<1>2. flush.out = {} /\ data # {} /\ data # None /\ FileOk(hist, Target(data, flush), flush.rev) BY <1>0 DEF CacheInv, FlushOk
<1>3. Target(data, flush) = data BY <1>2 DEF Target, LinesOf
<1>4. flush.rev \in Nat /\ data \in Files \union {None} BY DEF CacheInv, CacheType, FlushRecs
<1>5. meta' \in [state : {"none", "torn", "whole"}, rev : Nat, md5 : Files \union {None}] BY <1>1, <1>4
<1>6. meta'.rev = flush.rev /\ meta'.md5 = data /\ meta'.state = "whole" BY <1>1
<1>7. flush.rev >= 1
  <2>1. PICK l : l \in data BY <1>2, <1>4 DEF Files
  <2>2. l \in CacheLines /\ l.rev \in 1 .. Len(hist) /\ l.rev <= flush.rev BY <1>2, <1>3, <2>1 DEF FileOk, FileIn, LineIn
  <2> QED BY <1>4, <2>2 DEF CacheLines
<1>8. MetaOk(hist, meta') BY <1>2, <1>3, <1>6, <1>7 DEF MetaOk, FileOk
<1> QED BY <1>0, <1>1, <1>2, <1>5, <1>6, <1>8, FlushMoves

LEMMA RemoveBackupKeeps ==
    ASSUME NEW p, Cachers = {p}, CacheInv(p), RemoveBackup
    PROVE  CacheInv(p)'
<1>0. flush.pc = "remove" /\ Writing(flush) /\ backup' = None /\ EndFlush(TRUE) /\ UNCHANGED <<hist, fed, restored, data, meta>>
      BY DEF RemoveBackup, Writing
<1>1. PICK fl \in FlushRecs : fl = flush' /\ fl.restoring = flush.restoring /\ fl.pc = (IF flush.restoring THEN "restore" ELSE "idle")
  <2>0. flush.restoring \in BOOLEAN BY DEF CacheInv, CacheType, FlushRecs
  <2>1. PICK n \in FlushRecs : n = NoFlush /\ n.pc = "idle" /\ ~n.restoring BY NoFlushIs
  <2>2. PICK x : x = [n EXCEPT !.pc = "restore", !.restoring = TRUE] OBVIOUS
  <2>3. flush' = IF flush.restoring THEN x ELSE n BY <1>0, <2>1, <2>2 DEF EndFlush
  <2>4. x \in FlushRecs BY <2>2 DEF FlushRecs
  <2>5. x.pc = "restore" /\ x.restoring = TRUE BY <2>2 DEF FlushRecs
  <2>6. n.restoring = FALSE BY <2>1 DEF FlushRecs
  <2> QED BY <2>0, <2>1, <2>3, <2>4, <2>5, <2>6
<1>2. DOMAIN eventCache = {p} /\ DOMAIN eventCache' = {p} BY <1>0 DEF CacheInv, CacheType, EndFlush
<1>3. CacheType' BY <1>0, <1>1, <1>2 DEF CacheInv, CacheType
<1>4. FlushOk(hist, data, None, meta, fl) BY <1>1 DEF FlushOk, Writing
<1>5. ASSUME ~flush.restoring PROVE RunOk(hist, fed, data, None, meta, fl, eventCache'[p], p)
  <2>1. RunOk(hist, fed, data, backup, meta, flush, eventCache[p], p) BY <1>5 DEF CacheInv
  <2>2. flush.by = p /\ Good(hist, Target(data, flush), fed + 1) /\ meta.rev <= fed + 1 BY <1>0, <2>1 DEF RunOk
  <2>3. eventCache'[p] = NoEvents BY <1>0, <1>2, <1>5, <2>2 DEF EndFlush
  <2>4. flush.out = {} /\ data # None /\ meta.md5 = data BY <1>0 DEF CacheInv, FlushOk
  <2>5. Target(data, flush) = data /\ LinesOf(data) = data BY <2>4 DEF Target, LinesOf
  <2>6. EventsIn(hist, NoEvents, fed + 1) /\ \A k \in CacheKeys : NoEvents[k] = None BY DEF EventsIn, NoEvents
  <2>7. \A k \in CacheKeys : View(data, NoEvents[k], k) = Of(data, k) BY <2>6 DEF View, Newer
  <2>8. Covered(hist, LinesOf(data), NoEvents, fed) BY <2>2, <2>5, <2>7 DEF Covered, Good
  <2> QED BY <1>1, <1>5, <2>2, <2>3, <2>4, <2>6, <2>8 DEF RunOk, Writing
<1> QED BY <1>0, <1>1, <1>3, <1>4, <1>5 DEF CacheInv

LEMMA CrashKeeps ==
    ASSUME NEW p, Cachers = {p}, CacheInv(p), Crash
    PROVE  CacheInv(p)'
<1>0. UNCHANGED <<hist, fed, data, backup, meta>> /\ restored' = None /\ DOMAIN eventCache' = Cachers BY DEF Crash, files
<1>1. PICK fl \in FlushRecs : fl = flush' /\ fl.restoring /\ fl.pc = (IF backup # None THEN "backup" ELSE "restore")
  <2>1. PICK n \in FlushRecs : n = NoFlush BY NoFlushIs
  <2>2. PICK a \in {"backup", "restore"} : a = (IF backup # None THEN "backup" ELSE "restore") OBVIOUS
  <2>3. PICK x : x = [n EXCEPT !.pc = a, !.restoring = TRUE] OBVIOUS
  <2>4. flush' = x BY <2>1, <2>2, <2>3 DEF Crash
  <2>5. x \in FlushRecs BY <2>3 DEF FlushRecs
  <2>6. x.pc = a /\ x.restoring = TRUE BY <2>3 DEF FlushRecs
  <2> QED BY <2>2, <2>4, <2>5, <2>6
<1>2. CacheType' BY <1>0, <1>1 DEF CacheInv, CacheType
<1>3. FlushOk(hist, data, backup, meta, fl) BY <1>1 DEF FlushOk, Writing
<1> QED BY <1>0, <1>1, <1>2, <1>3 DEF CacheInv, RestoredOk

LEMMA RestoreKeeps ==
    ASSUME NEW p, Cachers = {p}, LongKeys = {}, CacheInv(p), Restore(p)
    PROVE  CacheInv(p)'
<1>0. flush.pc = "restore" /\ flush' = NoFlush /\ hist' = hist BY DEF Restore
<1>1. hist \in Seq(Changes) /\ Len(hist) \in Nat /\ meta.rev \in Nat /\ meta.rev <= Len(hist) /\ DOMAIN eventCache = {p} /\ backup = None
      BY <1>0 DEF CacheInv, CacheType, MetaOk, FlushOk
<1>2. PICK fl \in FlushRecs : fl = flush' /\ fl.pc = "idle" /\ ~fl.restoring BY <1>0, NoFlushIs
<1>3. CASE DataIsValid
  <2>1. data # None /\ data = meta.md5 BY <1>3 DEF DataIsValid, Md5
  <2>2. meta.rev >= 1 /\ FileIn(hist, data, meta.rev) /\ Good(hist, data, meta.rev) BY <2>1 DEF CacheInv, MetaOk, FileOk
  <2>3. Scan(data) = data BY <2>1, ScanAll DEF LinesOf
  <2>4. /\ restored' = [rev |-> meta.rev, kv |-> data] /\ fed' = Max({meta.rev - 1, 0})
        /\ eventCache' = [eventCache EXCEPT ![p] = Sent(data)] /\ UNCHANGED <<data, backup, meta>>
        BY <1>3, <2>3 DEF Restore, Sent, files
  <2>5. fed' = meta.rev - 1 /\ fed' \in Nat /\ fed' <= Len(hist) /\ fed' + 1 = meta.rev
    <3>1. {meta.rev - 1, 0} \subseteq 0 .. meta.rev BY <1>1, <2>2
    <3>2. Max({meta.rev - 1, 0}) \in {meta.rev - 1, 0} /\ \A y \in {meta.rev - 1, 0} : y <= Max({meta.rev - 1, 0})
          BY <1>1, <3>1, BoundedMax
    <3>3. fed' = meta.rev - 1 BY <1>1, <2>2, <2>4, <3>2
    <3> QED BY <1>1, <2>2, <3>3
  <2>6. eventCache'[p] = Sent(data) /\ DOMAIN eventCache' = {p} BY <1>1, <2>4
  <2>7. EventsIn(hist, Sent(data), meta.rev) /\ \A k \in CacheKeys : View(data, Sent(data)[k], k) = Of(data, k)
        BY <1>1, <2>2, SentIs
  <2>8. Covered(hist, LinesOf(data), Sent(data), fed') BY <2>1, <2>2, <2>5, <2>7 DEF Covered, Good, LinesOf
  <2>9. RunOk(hist, fed', data, backup, meta, fl, Sent(data), p)
        BY <1>1, <1>2, <2>1, <2>5, <2>7, <2>8 DEF RunOk, Writing
  <2>10. CacheType' BY <1>0, <1>1, <1>2, <2>4, <2>5, <2>6 DEF CacheInv, CacheType
  <2>11. RestoredOk(hist, restored') BY <2>2, <2>4 DEF RestoredOk
  <2>12. FlushOk(hist, data, backup, meta, fl) BY <1>1, <1>2 DEF FlushOk, Writing
  <2> QED BY <1>0, <1>2, <2>4, <2>6, <2>9, <2>10, <2>11, <2>12 DEF CacheInv
<1>4. CASE ~DataIsValid
  <2>1. List(p) /\ IF data = None THEN UNCHANGED files ELSE Clean(TRUE, TRUE, TRUE) BY <1>4 DEF Restore
  <2>2. data' = None /\ backup' = None /\ (meta' = meta \/ meta' = NoMeta) BY <1>1, <2>1 DEF files, Clean
  <2>3. PICK f : f = Snapshot(Len(hist)) OBVIOUS
  <2>4. restored' = None /\ fed' = Len(hist) /\ eventCache' = [eventCache EXCEPT ![p] = Sent(f)] BY <2>1, <2>3 DEF List, Sent
  <2>5. FileIn(hist, f, Len(hist)) /\ \A k \in CacheKeys : Of(f, k) = CurLines(hist, k) BY <1>1, <2>3, SnapshotIs
  <2>6. eventCache'[p] = Sent(f) /\ DOMAIN eventCache' = {p} BY <1>1, <2>4
  <2>7. EventsIn(hist, Sent(f), Len(hist)) /\ \A k \in CacheKeys : View({}, Sent(f)[k], k) = Of(f, k) BY <1>1, <2>5, SentIs
  <2>8. EventsIn(hist, Sent(f), Len(hist) + 1) BY <1>1, <2>7 DEF EventsIn
  <2>9. Covered(hist, LinesOf(data'), Sent(f), Len(hist)) BY <2>2, <2>5, <2>7 DEF Covered, Seen, LinesOf
  <2>10. meta' \in [state : {"none", "torn", "whole"}, rev : Nat, md5 : Files \union {None}] BY <2>2 DEF CacheInv, CacheType, NoMeta
  <2>11. MetaOk(hist, meta') /\ meta'.rev <= Len(hist) + 1
    <3>1. CASE meta' = meta BY <1>1, <3>1 DEF CacheInv
    <3>2. CASE meta' = NoMeta
      <4>1. meta'.rev = 0 /\ meta'.md5 = None BY <3>2 DEF NoMeta
      <4> QED BY <1>1, <4>1 DEF MetaOk
    <3> QED BY <2>2, <3>1, <3>2
  <2>12. RunOk(hist, Len(hist), data', backup', meta', fl, Sent(f), p) BY <1>2, <2>2, <2>8, <2>9, <2>11 DEF RunOk, Writing
  <2>13. CacheType' BY <1>0, <1>1, <1>2, <2>2, <2>4, <2>6, <2>10 DEF CacheInv, CacheType
  <2>14. FlushOk(hist, data', backup', meta', fl) BY <1>2, <2>2 DEF FlushOk, Writing
  <2> QED BY <1>0, <1>2, <2>4, <2>6, <2>11, <2>12, <2>13, <2>14 DEF CacheInv, RestoredOk
<1> QED BY <1>3, <1>4

LEMMA CacheStart == ASSUME NEW p, Cachers = {p}, CacheInit PROVE CacheInv(p)
<1>0. /\ hist = <<>> /\ fed = 0 /\ eventCache = [q \in Cachers |-> NoEvents] /\ data = None /\ backup = None /\ meta = NoMeta
      /\ flush = NoFlush /\ restored = None
      BY DEF CacheInit
<1>1. hist \in Seq(Changes) /\ Len(hist) = 0 /\ 0 <= MaxEtcdRev BY <1>0, FilesAssumption
<1>2. meta \in [state : {"none", "torn", "whole"}, rev : Nat, md5 : Files \union {None}] /\ meta.rev = 0 /\ meta.md5 = None
      BY <1>0 DEF NoMeta
<1>3. flush \in FlushRecs /\ flush.pc = "idle" /\ ~flush.restoring BY <1>0, NoFlushIs
<1>4. CacheType BY <1>0, <1>1, <1>2, <1>3 DEF CacheType
<1>5. MetaOk(hist, meta) BY <1>1, <1>2 DEF MetaOk
<1>6. eventCache[p] = NoEvents /\ \A k \in CacheKeys : NoEvents[k] = None BY <1>0 DEF NoEvents
<1>7. EventsIn(hist, NoEvents, fed + 1) BY <1>6 DEF EventsIn, NoEvents
<1>8. Covered(hist, {}, NoEvents, fed)
  <2>1. \A k \in CacheKeys : View({}, NoEvents[k], k) = {} BY <1>6 DEF View, Newer, Of
  <2>2. \A k \in CacheKeys : CurLines(hist, k) = {} BY <1>1 DEF CurLines, LineIn
  <2> QED BY <2>1, <2>2 DEF Covered, Seen
<1>9. RunOk(hist, fed, data, backup, meta, flush, eventCache[p], p)
      BY <1>0, <1>2, <1>3, <1>6, <1>7, <1>8 DEF RunOk, Writing, LinesOf
<1>10. FlushOk(hist, data, backup, meta, flush) BY <1>0, <1>3 DEF FlushOk, Writing
<1> QED BY <1>0, <1>4, <1>5, <1>9, <1>10 DEF CacheInv, RestoredOk

LEMMA CacheKeeps == ASSUME NEW p, Cachers = {p}, LongKeys = {}, faulted \/ CacheInv(p), [CacheNext]_fileVars PROVE faulted' \/ CacheInv(p)'
<1>1. CASE faulted
  <2>1. faulted' BY <1>1 DEF CacheNext, fileVars, ChangeKey, CacheEvent, StartFlush, Restore, ProcessDataBackup, OpenData, WriteLine,
                            CloseData, TruncateMeta, WriteMeta, RemoveBackup, Crash
  <2> QED BY <2>1
<1>2. CASE UNCHANGED fileVars BY <1>1, <1>2 DEF fileVars, CacheInv, CacheType
<1>3. CASE ~faulted /\ ~faulted' /\ CacheNext
  <2>0. CacheInv(p) BY <1>3
  <2>1. ASSUME NEW k \in CacheKeys, NEW put \in BOOLEAN, ChangeKey(k, put) PROVE CacheInv(p)' BY <2>0, <2>1, ChangeKeyKeeps
  <2>2. ASSUME NEW q \in Cachers, CacheEvent(q) \/ StartFlush(q) \/ Restore(q) PROVE CacheInv(p)'
    <3>1. q = p OBVIOUS
    <3> QED BY <2>0, <2>2, <3>1, CacheEventKeeps, StartFlushKeeps, RestoreKeeps
  <2>3. ASSUME ProcessDataBackup \/ OpenData \/ WriteLine \/ CloseData \/ TruncateMeta \/ WriteMeta \/ RemoveBackup \/ Crash
        PROVE  CacheInv(p)'
        BY <1>3, <2>0, <2>3, BackupKeeps, OpenDataKeeps, WriteLineKeeps, CloseDataKeeps, TruncateMetaKeeps, WriteMetaKeeps,
           RemoveBackupKeeps, CrashKeeps
  <2> QED BY <1>3, <2>1, <2>2, <2>3 DEF CacheNext
<1> QED BY <1>1, <1>2, <1>3

LEMMA GoodIsCaughtUp == ASSUME NEW p, CacheInv(p) PROVE RestoredCatchesUp
<1>1. SUFFICES ASSUME restored # None, NEW k \in CacheKeys PROVE CaughtUp(k) BY DEF RestoredCatchesUp
<1>2. hist \in Seq(Changes) /\ Len(hist) \in Nat /\ restored.rev \in Nat /\ Seen(hist, k, Of(restored.kv, k), restored.rev)
      BY <1>1 DEF CacheInv, CacheType, RestoredOk, Good
<1>3. PICK m : m = LastChange(k, Len(hist)) OBVIOUS
<1>4. m \in 0 .. Len(hist) /\ (m # 0 => hist[m].key = k) /\ \A i \in 1 .. Len(hist) : hist[i].key = k => i <= m
      BY <1>2, <1>3, LastChangeIs
<1>5. CASE Later(hist, k, restored.rev)
  <2>1. m >= restored.rev BY <1>2, <1>4, <1>5 DEF Later
  <2> QED BY <1>3, <2>1 DEF CaughtUp
<1>6. CASE Of(restored.kv, k) = CurLines(hist, k)
  <2>1. CurLines(hist, k) = IF m = 0 \/ ~hist[m].put THEN {} ELSE {[key |-> k, rev |-> m]}
    <3>1. ASSUME NEW l \in CurLines(hist, k) PROVE m # 0 /\ hist[m].put /\ l = [key |-> k, rev |-> m]
      <4>1. l \in CacheLines /\ l.key = k /\ l.rev \in 1 .. Len(hist) /\ hist[l.rev] = [key |-> k, put |-> TRUE]
            /\ \A i \in 1 .. Len(hist) : hist[i].key = k => i <= l.rev
            BY <3>1 DEF CurLines, LineIn
      <4>2. l.rev <= m BY <1>4, <4>1
      <4>3. m \in 1 .. Len(hist) BY <1>2, <1>4, <4>1, <4>2
      <4>4. l.rev = m BY <1>2, <1>4, <4>1, <4>2, <4>3
      <4> QED BY <4>1, <4>3, <4>4 DEF CacheLines
    <3>2. ASSUME m # 0, hist[m].put PROVE [key |-> k, rev |-> m] \in CurLines(hist, k)
      <4>1. m \in 1 .. Len(hist) /\ m \in Nat BY <1>2, <1>4, <3>2
      <4>2. hist[m] \in Changes BY <1>2, <4>1
      <4>3. hist[m] = [key |-> k, put |-> TRUE] BY <1>4, <3>2, <4>2 DEF Changes
      <4> QED BY <1>4, <4>1, <4>3 DEF CurLines, LineIn, CacheLines
    <3> QED BY <3>1, <3>2
  <2> QED BY <1>3, <1>6, <2>1 DEF CaughtUp, Of
<1> QED BY <1>2, <1>5, <1>6 DEF Seen

\* One goroutine keeps the file, and its lines fit into the buffer of a Scanner.
OneCacher == \E p : Cachers = {p}
ShortLines == LongKeys = {}

\* Wherever a process crashes between two file operations, and whatever changes meanwhile: what the next
\* one takes from the cache file, with the events it watches for, is what etcd holds, unless a file could
\* not be opened (etcd3/cache.go flushCacheToFile, restoreCacheFromFile).
THEOREM RestoredCatchesUpCorrect == ASSUME OneCacher, ShortLines PROVE CacheSpec => []RestoredCatchesUp
<1>1. PICK p : Cachers = {p} BY DEF OneCacher
<1>2. LongKeys = {} BY DEF ShortLines
<1>3. CacheInit => faulted \/ CacheInv(p) BY <1>1, CacheStart
<1>4. (faulted \/ CacheInv(p)) /\ [CacheNext]_fileVars => (faulted \/ CacheInv(p))' BY <1>1, <1>2, CacheKeeps
<1>5. faulted \/ CacheInv(p) => RestoredCatchesUp
  <2>1. faulted => RestoredCatchesUp BY DEF RestoredCatchesUp
  <2> QED BY <2>1, GoodIsCaughtUp
<1> QED BY <1>3, <1>4, <1>5, PTL DEF CacheSpec

\* For every number of revisions, outages, runs, keys and crashes: a watch misses nothing of what etcd
\* reported, and neither does a process that starts from its cache file (etcd3/watcher.go, etcd3/cache.go).
THEOREM EtcdIsFollowedCorrect == ASSUME OneCacher, ShortLines PROVE WatchSpec /\ CacheSpec => []EtcdIsFollowed
<1>1. WatchSpec => []NoGap BY NoGapCorrect
<1>2. CacheSpec => []RestoredCatchesUp BY RestoredCatchesUpCorrect
<1>3. NoGap /\ RestoredCatchesUp => EtcdIsFollowed BY DEF EtcdIsFollowed
<1> QED BY <1>1, <1>2, <1>3, PTL

------------------------------------------------------------------------------
(* SessionContext                                                             *)

LogEvents == [turn : Nat, type : EventTypes]

\* The log as the SDK writes it: a turn begins at the next event, so the turns
\* are in the order of their events, and an event names a turn that began
\* before it. The registry numbers its sessions.
LogOk ==
    /\ turns \in Seq(Nat) /\ log \in Seq(LogEvents)
    /\ \A i \in 1..Len(turns) : turns[i] >= 1 /\ turns[i] <= Len(log) + 1
    /\ \A i, j \in 1..Len(turns) : i <= j => turns[i] <= turns[j]
    /\ \A i \in 1..Len(turns), s \in 1..Len(log) : turns[i] <= s => i <= log[s].turn
    /\ sessions \in Seq(Nat) /\ \A i \in 1..Len(sessions) : sessions[i] = i

Begins(s, t) == Len(s) <= Len(t) /\ \A i \in 1..Len(s) : s[i] = t[i]

LEMMA BeginsTransitive ==
    ASSUME NEW S, NEW s \in Seq(S), NEW t \in Seq(S), NEW u \in Seq(S), Begins(s, t), Begins(t, u)
    PROVE  Begins(s, u)
BY DEF Begins

\* The events that were there before turn k + 1 began, or are there now.
Before(k) == IF k < Len(turns) THEN turns[k + 1] - 1 ELSE Len(log)

QueryFields == {"pc", "op", "got", "page", "after", "size", "posts", "seen", "first", "dirty", "res"}

RecordOk(r) ==
    /\ DOMAIN r = QueryFields /\ DOMAIN r.got = {"turns", "events"}
    /\ r.got.turns \in Seq(Nat) /\ r.got.events \in Seq(LogEvents)

Reading == {"turns", "log", "aggregate"}

\* Which query is at which step, and that only an ended one has a result.
StageOk(r) ==
    /\ r.pc = "new" => r.op = None
    /\ r.pc # "done" => r.res = None
    /\ r.pc \in Reading => r.op \notin {"events", "filtered", "sessions"}
    /\ r.pc = "events" => r.op \in {"events", "filtered"}
    /\ r.pc = "sessions" => r.op = "sessions"
    /\ r.pc = "post" => r.op \in ManagerOps

\* What was read is one state of the log.
Whole(r) == [turns |-> Len(r.got.turns), events |-> Len(r.got.events)] \in r.seen

\* Once the turns are read, the state before the next turn was there during the
\* query; the events that were read belong to it, or they go on into that turn.
ReadsOk(r) ==
    /\ r.pc \in Reading => Now \in r.seen
    /\ r.pc \in Reading /\ ~r.dirty => Begins(r.got.turns, turns) /\ Begins(r.got.events, log)
    /\ r.pc \in {"log", "aggregate"} /\ ~r.dirty =>
           [turns |-> Len(r.got.turns), events |-> Before(Len(r.got.turns))] \in r.seen
    /\ r.pc = "aggregate" /\ ~r.dirty =>
           Whole(r) \/ (Len(r.got.turns) < Len(turns) /\ Before(Len(r.got.turns)) < Len(r.got.events))
    /\ r.res = "ok" /\ r.op \in {"get", "list", "turn"} /\ ~r.dirty => Whole(r)

\* The events of the pages are those up to the position of the next one.
ListedOk(r) ==
    r.op \in {"events", "filtered"} /\ ~r.dirty =>
        /\ r.page \in Seq(Nat) /\ r.after \in Nat /\ r.after <= Len(log)
        /\ \A s \in Nat : (\E i \in 1..Len(r.page) : r.page[i] = s) <=>
               s \in 1..r.after /\ (r.op = "filtered" => log[s].type = "completed")
        /\ \A i, j \in 1..Len(r.page) : i < j => r.page[i] < r.page[j]

Lists(list, x) == \E i \in 1..Len(list) : list[i] = x

\* The sessions of the first page's time that are younger than the offset are on
\* some page: the ones registered since then have only moved the offset back.
RegistryOk(r) ==
    r.op = "sessions" /\ ~r.dirty =>
        /\ r.page \in Seq(Nat) /\ r.after \in Nat /\ r.after <= Len(sessions)
        /\ r.first \subseteq 1..Len(sessions)
        /\ \A x \in r.first : x > Len(sessions) - r.after => Lists(r.page, x)
        /\ r.res = "ok" => \A x \in r.first : Lists(r.page, x)

QueryOk(r) == RecordOk(r) /\ StageOk(r) /\ ReadsOk(r) /\ ListedOk(r) /\ RegistryOk(r)

SessionInv == LogOk /\ DOMAIN query = Queries /\ \A q \in Queries : QueryOk(query[q])

LEMMA SessionInvInit == SessionInit => SessionInv
<1> SUFFICES ASSUME SessionInit PROVE SessionInv OBVIOUS
<1> USE NilAssumption DEF SessionInit
<1>1. LogOk BY DEF LogOk
<1>2. DOMAIN query = Queries OBVIOUS
<1>3. ASSUME NEW q \in Queries PROVE QueryOk(query[q])
  <2>1. query[q] = NewQuery OBVIOUS
  <2>2. RecordOk(NewQuery)
    <3>1. DOMAIN NewQuery = QueryFields BY DEF NewQuery, QueryFields
    <3>2. NewQuery.got = [turns |-> <<>>, events |-> <<>>] BY DEF NewQuery
    <3>3. DOMAIN [turns |-> <<>>, events |-> <<>>] = {"turns", "events"} OBVIOUS
    <3> QED BY <3>1, <3>2, <3>3 DEF RecordOk
  <2>3. StageOk(NewQuery) BY DEF StageOk, NewQuery, Reading
  <2>4. ReadsOk(NewQuery) BY DEF ReadsOk, NewQuery, Reading
  <2>5. ListedOk(NewQuery) BY DEF ListedOk, NewQuery
  <2>6. RegistryOk(NewQuery) BY DEF RegistryOk, NewQuery
  <2> QED BY <2>1, <2>2, <2>3, <2>4, <2>5, <2>6 DEF QueryOk
<1> QED BY <1>1, <1>2, <1>3 DEF SessionInv

\* A handler's step concerns one query; the log is the writer's.
LEMMA OneQueryMoves ==
    ASSUME SessionInv, NEW q \in Queries, UNCHANGED <<turns, log, sessions>>, DOMAIN query' = Queries,
           \A p \in Queries \ {q} : query'[p] = query[p], QueryOk(query'[q])
    PROVE  SessionInv'
<1>1. LogOk' BY DEF SessionInv, LogOk
<1>2. \A r : QueryOk(r)' <=> QueryOk(r)
  BY DEF QueryOk, RecordOk, StageOk, ReadsOk, ListedOk, RegistryOk, Now, Before
<1>3. ASSUME NEW p \in Queries PROVE QueryOk(query[p])'
  <2>1. PICK r : r = query'[p] OBVIOUS
  <2>2. QueryOk(r) BY <2>1 DEF SessionInv
  <2> QED BY <1>2, <2>1, <2>2 DEF QueryOk, RecordOk, StageOk, ReadsOk, ListedOk, RegistryOk, Now, Before, Whole
<1> QED BY <1>1, <1>3 DEF SessionInv

\* What a query in progress sees of a step of the writer.
LEMMA WitnessFields ==
    ASSUME SessionInv, NEW q \in Queries, NEW r, r = Witness(q)
    PROVE  /\ RecordOk(r) /\ query[q].seen \subseteq r.seen
           /\ \A f \in QueryFields \ {"seen"} : r[f] = query[q][f]
           /\ query[q].pc \in Reading => Now' \in r.seen
<1>1. RecordOk(query[q]) BY DEF SessionInv, QueryOk
<1>2. CASE query[q].pc \in {"new", "done"} BY <1>1, <1>2 DEF Witness, Reading
<1>3. CASE query[q].pc \notin {"new", "done"}
  <2>1. r = [query[q] EXCEPT !.seen = @ \union {Now'}] BY <1>3 DEF Witness, Now
  <2>2. DOMAIN r = QueryFields /\ \A f \in QueryFields \ {"seen"} : r[f] = query[q][f]
    BY <1>1, <2>1 DEF RecordOk, QueryFields
  <2>3. r.seen = query[q].seen \union {Now'} BY <1>1, <2>1 DEF RecordOk, QueryFields
  <2>4. r.got = query[q].got BY <2>2 DEF QueryFields
  <2> QED BY <1>1, <2>2, <2>3, <2>4 DEF RecordOk
<1> QED BY <1>2, <1>3

\* The fields by their names.
LEMMA SameFields ==
    ASSUME NEW r, NEW t, \A f \in QueryFields \ {"seen"} : r[f] = t[f]
    PROVE  /\ r.pc = t.pc /\ r.op = t.op /\ r.got = t.got /\ r.page = t.page /\ r.after = t.after
           /\ r.first = t.first /\ r.dirty = t.dirty /\ r.res = t.res
BY DEF QueryFields

\* A step of the writer that keeps the log's order, appends to one of its lists at
\* most, and adds sessions at the end keeps what the queries know.
LEMMA LogGrows ==
    ASSUME SessionInv, LogOk', Begins(turns, turns'), Begins(log, log'), Begins(sessions, sessions'),
           \A k \in 0..Len(turns) : Before(k)' = Before(k) \/ (k = Len(turns) /\ k = Len(turns') /\ Before(k)' = Len(log')),
           NEW q \in Queries, NEW r, RecordOk(r), query[q].seen \subseteq r.seen,
           \A f \in QueryFields \ {"seen"} : r[f] = query[q][f],
           query[q].pc \in Reading => Now' \in r.seen
    PROVE  QueryOk(r)'
<1>0. PICK t : t = query[q] OBVIOUS
<1>1. QueryOk(t) BY <1>0 DEF SessionInv
<1>2. /\ r.pc = t.pc /\ r.op = t.op /\ r.got = t.got /\ r.page = t.page /\ r.after = t.after
      /\ r.first = t.first /\ r.dirty = t.dirty /\ r.res = t.res
  BY <1>0, SameFields
<1>3. /\ turns \in Seq(Nat) /\ log \in Seq(LogEvents) /\ sessions \in Seq(Nat)
      /\ turns' \in Seq(Nat) /\ log' \in Seq(LogEvents) /\ sessions' \in Seq(Nat)
  BY DEF SessionInv, LogOk
<1>4. /\ t.got.turns \in Seq(Nat) /\ t.got.events \in Seq(LogEvents) BY <1>1 DEF QueryOk, RecordOk
<1>5. RecordOk(r)' BY DEF RecordOk
<1>6. StageOk(r)' BY <1>1, <1>2 DEF QueryOk, StageOk
<1>7. ReadsOk(r)'
  <2>1. r.pc \in Reading => Now' \in r.seen BY <1>0, <1>2 DEF Reading
  <2>2. ASSUME r.pc \in Reading, ~r.dirty PROVE Begins(r.got.turns, turns') /\ Begins(r.got.events, log')
    <3>1. Begins(t.got.turns, turns) /\ Begins(t.got.events, log) BY <1>1, <1>2, <2>2 DEF QueryOk, ReadsOk
    <3> QED BY <3>1, <1>2, <1>3, <1>4, BeginsTransitive
  <2>3. ASSUME r.pc \in {"log", "aggregate"}, ~r.dirty
        PROVE  [turns |-> Len(r.got.turns), events |-> Before(Len(r.got.turns))'] \in r.seen
    <3>0. PICK k : k = Len(t.got.turns) OBVIOUS
    <3>1. [turns |-> k, events |-> Before(k)] \in t.seen BY <3>0, <1>1, <1>2, <2>3 DEF QueryOk, ReadsOk
    <3>2. k \in 0..Len(turns) BY <3>0, <1>1, <1>2, <1>3, <1>4, <2>3 DEF QueryOk, ReadsOk, Begins, Reading
    <3>3. CASE Before(k)' = Before(k) BY <3>0, <3>1, <3>3, <1>0, <1>2
    <3>4. CASE k = Len(turns') /\ Before(k)' = Len(log')
      <4>1. Now' \in r.seen BY <2>1, <2>3 DEF Reading
      <4> QED BY <3>0, <4>1, <3>4, <1>2 DEF Now
    <3> QED BY <3>2, <3>3, <3>4
  <2>4. ASSUME r.pc = "aggregate", ~r.dirty
        PROVE  Whole(r) \/ (Len(r.got.turns) < Len(turns') /\ Before(Len(r.got.turns))' < Len(r.got.events))
    <3>0. PICK k : k = Len(t.got.turns) OBVIOUS
    <3>1. CASE Whole(t) BY <3>1, <1>0, <1>2 DEF Whole
    <3>2. CASE k < Len(turns) /\ Before(k) < Len(t.got.events)
      <4>1. k \in 0..Len(turns) /\ k < Len(turns') BY <3>0, <3>2, <1>3, <1>4 DEF Begins
      <4>2. Before(k)' = Before(k) BY <4>1, <3>2, <1>3
      <4> QED BY <3>0, <4>1, <4>2, <3>2, <1>2
    <3> QED BY <1>1, <1>2, <2>4, <3>0, <3>1, <3>2 DEF QueryOk, ReadsOk
  <2>5. r.res = "ok" /\ r.op \in {"get", "list", "turn"} /\ ~r.dirty => Whole(r)
    BY <1>0, <1>1, <1>2 DEF QueryOk, ReadsOk, Whole
  <2> QED BY <2>1, <2>2, <2>3, <2>4, <2>5 DEF ReadsOk, Whole
<1>8. ListedOk(r)'
  <2> SUFFICES ASSUME r.op \in {"events", "filtered"}, ~r.dirty PROVE ListedOk(r)' BY DEF ListedOk
  <2>1. /\ r.page \in Seq(Nat) /\ r.after \in Nat /\ r.after <= Len(log)
        /\ \A i, j \in 1..Len(r.page) : i < j => r.page[i] < r.page[j]
    BY <1>1, <1>2 DEF QueryOk, ListedOk
  <2>2. r.after <= Len(log') /\ \A s \in 1..r.after : log'[s] = log[s] BY <2>1, <1>3 DEF Begins
  <2>3. \A s \in Nat : (\E i \in 1..Len(r.page) : r.page[i] = s) <=>
               s \in 1..r.after /\ (r.op = "filtered" => log[s].type = "completed")
    BY <1>1, <1>2 DEF QueryOk, ListedOk
  <2>4. \A s \in Nat : (\E i \in 1..Len(r.page) : r.page[i] = s) <=>
               s \in 1..r.after /\ (r.op = "filtered" => log'[s].type = "completed")
    BY <2>2, <2>3
  <2> QED BY <2>1, <2>2, <2>4 DEF ListedOk
<1>9. RegistryOk(r)'
  <2> SUFFICES ASSUME r.op = "sessions", ~r.dirty PROVE RegistryOk(r)' BY DEF RegistryOk
  <2>1. /\ r.page \in Seq(Nat) /\ r.after \in Nat /\ r.after <= Len(sessions)
        /\ r.first \subseteq 1..Len(sessions)
        /\ \A x \in r.first : x > Len(sessions) - r.after => Lists(r.page, x)
        /\ r.res = "ok" => \A x \in r.first : Lists(r.page, x)
    BY <1>1, <1>2 DEF QueryOk, RegistryOk
  <2>2. Len(sessions) <= Len(sessions') /\ Len(sessions) \in Nat /\ Len(sessions') \in Nat BY <1>3 DEF Begins
  <2>3. r.first \subseteq 1..Len(sessions') BY <2>1, <2>2
  <2>4. \A x \in r.first : x > Len(sessions') - r.after => x > Len(sessions) - r.after BY <2>1, <2>2
  <2> QED BY <2>1, <2>2, <2>3, <2>4 DEF RegistryOk
<1> QED BY <1>5, <1>6, <1>7, <1>8, <1>9 DEF QueryOk

LEMMA QueryPrimed ==
    ASSUME NEW q, NEW r, r = query'[q], QueryOk(r)'
    PROVE  QueryOk(query[q])'
BY DEF QueryOk, RecordOk, StageOk, ReadsOk, ListedOk, RegistryOk, Now, Before, Whole

LEMMA StartTurnKeeps == ASSUME SessionInv, StartTurn PROVE SessionInv'
<1>1. PICK n : n = Len(log) + 1 OBVIOUS
<1>2. turns' = Append(turns, n) /\ log' = log /\ sessions' = sessions BY <1>1 DEF StartTurn
<1>3. LogOk BY DEF SessionInv
<1>4. n \in Nat /\ Len(log) \in Nat /\ Len(turns) \in Nat BY <1>1, <1>3 DEF LogOk
<1>5. turns' \in Seq(Nat) /\ Len(turns') = Len(turns) + 1 /\ turns'[Len(turns) + 1] = n
      /\ \A i \in 1..Len(turns) : turns'[i] = turns[i]
  BY <1>2, <1>3, <1>4 DEF LogOk
<1>6. LogOk'
  <2>0. \A i \in 1..Len(turns') : i \in 1..Len(turns) \/ i = Len(turns) + 1 BY <1>4, <1>5
  <2>4. \A i \in 1..Len(turns) : turns[i] \in Nat /\ turns[i] >= 1 /\ turns[i] <= n
    BY <1>1, <1>3, <1>4 DEF LogOk
  <2>1. \A i \in 1..Len(turns') : turns'[i] >= 1 /\ turns'[i] <= Len(log) + 1
    BY <2>0, <2>4, <1>1, <1>4, <1>5
  <2>2. ASSUME NEW i \in 1..Len(turns'), NEW j \in 1..Len(turns'), i <= j PROVE turns'[i] <= turns'[j]
    <3>1. CASE j = Len(turns) + 1 BY <3>1, <2>0, <2>4, <1>4, <1>5
    <3>2. CASE j \in 1..Len(turns)
      <4>1. i \in 1..Len(turns) BY <2>2, <3>2, <1>4, <1>5
      <4> QED BY <4>1, <3>2, <2>2, <1>3, <1>5 DEF LogOk
    <3> QED BY <2>0, <3>1, <3>2
  <2>3. ASSUME NEW i \in 1..Len(turns'), NEW s \in 1..Len(log), turns'[i] <= s PROVE i <= log[s].turn
    <3>1. i \in 1..Len(turns) BY <2>0, <2>3, <1>1, <1>4, <1>5
    <3> QED BY <3>1, <2>3, <1>3, <1>5 DEF LogOk
  <2> QED BY <1>2, <1>3, <1>5, <2>1, <2>2, <2>3 DEF LogOk
<1>7. Begins(turns, turns') /\ Begins(log, log') /\ Begins(sessions, sessions')
  BY <1>2, <1>3, <1>4, <1>5 DEF Begins, LogOk
<1>8. \A k \in 0..Len(turns) : Before(k)' = Before(k) BY <1>1, <1>2, <1>3, <1>4, <1>5 DEF Before, LogOk
<1>9. DOMAIN query' = Queries /\ \A q \in Queries : query'[q] = Witness(q) BY DEF StartTurn
<1>10. ASSUME NEW q \in Queries PROVE QueryOk(query[q])'
  <2>1. PICK r : r = query'[q] /\ r = Witness(q) BY <1>9
  <2>2. /\ RecordOk(r) /\ query[q].seen \subseteq r.seen
        /\ \A f \in QueryFields \ {"seen"} : r[f] = query[q][f]
        /\ query[q].pc \in Reading => Now' \in r.seen
    BY <2>1, WitnessFields
  <2>3. QueryOk(r)' BY <1>6, <1>7, <1>8, <2>2, LogGrows
  <2> QED BY <2>1, <2>3, QueryPrimed
<1> QED BY <1>6, <1>9, <1>10 DEF SessionInv

LEMMA AppendEventKeeps == ASSUME SessionInv, NEW type \in EventTypes, AppendEvent(type) PROVE SessionInv'
<1>1. PICK e : e = [turn |-> Len(turns), type |-> type] OBVIOUS
<1>2. log' = Append(log, e) /\ turns' = turns /\ sessions' = sessions BY <1>1 DEF AppendEvent
<1>3. LogOk BY DEF SessionInv
<1>4. e \in LogEvents /\ e.turn = Len(turns) /\ Len(log) \in Nat /\ Len(turns) \in Nat BY <1>1, <1>3 DEF LogOk, LogEvents
<1>5. log' \in Seq(LogEvents) /\ Len(log') = Len(log) + 1 /\ log'[Len(log) + 1] = e
      /\ \A s \in 1..Len(log) : log'[s] = log[s]
  BY <1>2, <1>3, <1>4 DEF LogOk
<1>6. LogOk'
  <2>1. \A i \in 1..Len(turns) : turns[i] \in Nat /\ turns[i] >= 1 /\ turns[i] <= Len(log') + 1 BY <1>3, <1>4, <1>5 DEF LogOk
  <2>2. \A s \in 1..Len(log') : s \in 1..Len(log) \/ s = Len(log) + 1 BY <1>4, <1>5
  <2>3. ASSUME NEW i \in 1..Len(turns), NEW s \in 1..Len(log'), turns[i] <= s PROVE i <= log'[s].turn
    <3>1. CASE s \in 1..Len(log) BY <3>1, <2>3, <1>3, <1>5 DEF LogOk
    <3>2. CASE s = Len(log) + 1 BY <3>2, <1>4, <1>5
    <3> QED BY <2>2, <3>1, <3>2
  <2> QED BY <1>2, <1>3, <1>5, <2>1, <2>3 DEF LogOk
<1>7. Begins(turns, turns') /\ Begins(log, log') /\ Begins(sessions, sessions')
  BY <1>2, <1>3, <1>4, <1>5 DEF Begins, LogOk
<1>8. \A k \in 0..Len(turns) : Before(k)' = Before(k) \/ (k = Len(turns) /\ k = Len(turns') /\ Before(k)' = Len(log'))
  BY <1>2, <1>4 DEF Before
<1>9. DOMAIN query' = Queries /\ \A q \in Queries : query'[q] = Witness(q) BY DEF AppendEvent
<1>10. ASSUME NEW q \in Queries PROVE QueryOk(query[q])'
  <2>1. PICK r : r = query'[q] /\ r = Witness(q) BY <1>9
  <2>2. /\ RecordOk(r) /\ query[q].seen \subseteq r.seen
        /\ \A f \in QueryFields \ {"seen"} : r[f] = query[q][f]
        /\ query[q].pc \in Reading => Now' \in r.seen
    BY <2>1, WitnessFields
  <2>3. QueryOk(r)' BY <1>6, <1>7, <1>8, <2>2, LogGrows
  <2> QED BY <2>1, <2>3, QueryPrimed
<1> QED BY <1>6, <1>9, <1>10 DEF SessionInv

LEMMA RegisterSessionKeeps == ASSUME SessionInv, RegisterSession PROVE SessionInv'
<1>1. PICK n : n = Len(sessions) + 1 OBVIOUS
<1>2. sessions' = Append(sessions, n) /\ UNCHANGED <<turns, log, query>> BY <1>1 DEF RegisterSession
<1>3. LogOk BY DEF SessionInv
<1>4. n \in Nat /\ Len(sessions) \in Nat BY <1>1, <1>3 DEF LogOk
<1>5. sessions' \in Seq(Nat) /\ Len(sessions') = Len(sessions) + 1 /\ sessions'[Len(sessions) + 1] = n
      /\ \A s \in 1..Len(sessions) : sessions'[s] = sessions[s]
  BY <1>2, <1>3, <1>4 DEF LogOk
<1>6. LogOk'
  <2>0. \A i \in 1..Len(sessions') : i \in 1..Len(sessions) \/ i = Len(sessions) + 1 BY <1>4, <1>5
  <2>1. \A i \in 1..Len(sessions') : sessions'[i] = i BY <2>0, <1>1, <1>3, <1>5 DEF LogOk
  <2> QED BY <1>2, <1>3, <1>5, <2>1 DEF LogOk
<1>7. Begins(turns, turns') /\ Begins(log, log') /\ Begins(sessions, sessions')
  BY <1>2, <1>3, <1>4, <1>5 DEF Begins, LogOk
<1>8. \A k \in 0..Len(turns) : Before(k)' = Before(k) BY <1>2 DEF Before
<1>10. ASSUME NEW q \in Queries PROVE QueryOk(query[q])'
  <2>1. PICK r : r = query'[q] /\ r = query[q] BY <1>2
  <2>2. QueryOk(r) BY <2>1 DEF SessionInv
  <2>3. query[q].pc \in Reading => Now' \in r.seen BY <1>2, <2>1, <2>2 DEF QueryOk, ReadsOk, Now
  <2>4. QueryOk(r)' BY <1>6, <1>7, <1>8, <2>1, <2>2, <2>3, LogGrows DEF QueryOk
  <2> QED BY <2>1, <2>4, QueryPrimed
<1> QED BY <1>2, <1>6, <1>10 DEF SessionInv

LEMMA DeleteSessionKeeps == ASSUME SessionInv, DeleteSession PROVE SessionInv'
<1>1. LogOk BY DEF SessionInv
<1>2. turns' = <<>> /\ log' = <<>> BY DEF DeleteSession
<1>3. sessions' \in Seq(Nat) /\ \A i \in 1..Len(sessions') : sessions'[i] = i
  <2>1. CASE sessions = <<>> BY <2>1, <1>1 DEF DeleteSession, LogOk
  <2>2. CASE sessions # <<>>
    <3>1. sessions' = SubSeq(sessions, 1, Len(sessions) - 1) BY <2>2 DEF DeleteSession, Front
    <3>2. sessions \in Seq(Nat) /\ Len(sessions) \in Nat /\ Len(sessions) # 0 BY <2>2, <1>1, EmptySeq DEF LogOk
    <3>3. sessions' \in Seq(Nat) /\ Len(sessions') = Len(sessions) - 1
          /\ \A i \in 1..Len(sessions) - 1 : sessions'[i] = sessions[i]
      <4>1. PICK n \in Nat : n = Len(sessions) - 1 BY <3>2
      <4>2. \A i \in 1..n : sessions[i] \in Nat BY <3>2, <4>1
      <4>3. /\ SubSeq(sessions, 1, n) \in Seq(Nat)
            /\ Len(SubSeq(sessions, 1, n)) = IF 1 <= n THEN n - 1 + 1 ELSE 0
            /\ \A i \in 1..(n - 1 + 1) : SubSeq(sessions, 1, n)[i] = sessions[1 + i - 1]
        BY <4>2, SubSeqProperties
      <4>4. n - 1 + 1 = n /\ \A i \in 1..n : 1 + i - 1 = i OBVIOUS
      <4>5. Len(SubSeq(sessions, 1, n)) = n /\ \A i \in 1..n : SubSeq(sessions, 1, n)[i] = sessions[i] BY <4>3, <4>4
      <4> QED BY <3>1, <4>1, <4>3, <4>5
    <3>4. \A i \in 1..Len(sessions) : sessions[i] = i BY <1>1 DEF LogOk
    <3>5. 1..Len(sessions') \subseteq 1..Len(sessions) /\ 1..Len(sessions') = 1..Len(sessions) - 1 BY <3>2, <3>3
    <3> QED BY <3>3, <3>4, <3>5
  <2> QED BY <2>1, <2>2
<1>4. LogOk' BY <1>2, <1>3 DEF LogOk
<1>5. DOMAIN query' = Queries /\ \A q \in Queries : query'[q] = [Witness(q) EXCEPT !.dirty = TRUE] BY DEF DeleteSession
<1>6. ASSUME NEW q \in Queries PROVE QueryOk(query[q])'
  <2>1. PICK w : w = Witness(q) OBVIOUS
  <2>2. PICK r : r = query'[q] /\ r = [w EXCEPT !.dirty = TRUE] BY <1>5, <2>1
  <2>3. /\ RecordOk(w) /\ query[q].seen \subseteq w.seen
        /\ \A f \in QueryFields \ {"seen"} : w[f] = query[q][f]
        /\ query[q].pc \in Reading => Now' \in w.seen
    BY <2>1, WitnessFields
  <2>4. w.pc = query[q].pc /\ w.op = query[q].op /\ w.res = query[q].res
    BY <2>3, SameFields
  <2>5. DOMAIN r = QueryFields /\ r.dirty = TRUE /\ r.pc = w.pc /\ r.op = w.op /\ r.res = w.res /\ r.seen = w.seen /\ r.got = w.got
    BY <2>2, <2>3 DEF RecordOk, QueryFields
  <2>6. StageOk(query[q]) BY DEF SessionInv, QueryOk
  <2>7. RecordOk(r)' BY <2>3, <2>5 DEF RecordOk
  <2>8. StageOk(r)' BY <2>4, <2>5, <2>6 DEF StageOk
  <2>9. ReadsOk(r)' BY <2>3, <2>4, <2>5 DEF ReadsOk
  <2>10. ListedOk(r)' /\ RegistryOk(r)' BY <2>5 DEF ListedOk, RegistryOk
  <2> QED BY <2>2, <2>7, <2>8, <2>9, <2>10, QueryPrimed DEF QueryOk
<1> QED BY <1>4, <1>5, <1>6 DEF SessionInv

LEMMA SameListed ==
    ASSUME NEW r, NEW t, ListedOk(t), r.op = t.op, r.dirty = t.dirty, r.page = t.page, r.after = t.after
    PROVE  ListedOk(r)
BY Zenon DEF ListedOk

\* An answer that is not "ok" says nothing about the log.
LEMMA RefusalKeeps ==
    ASSUME SessionInv, NEW q \in Queries, NEW res, Answer(q, res), UNCHANGED <<turns, log, sessions>>,
           res # "ok" \/ query[q].op = None
    PROVE  SessionInv'
<1>1. PICK t : t = query[q] OBVIOUS
<1>2. QueryOk(t) BY <1>1 DEF SessionInv
<1>3. PICK r : r = query'[q] OBVIOUS
<1>4. DOMAIN query' = Queries /\ (\A p \in Queries \ {q} : query'[p] = query[p])
      /\ r = [t EXCEPT !.pc = "done", !.res = res]
  BY <1>1, <1>3 DEF Answer, SessionInv
<1>5. /\ DOMAIN r = QueryFields /\ r.pc = "done" /\ r.res = res /\ r.op = t.op /\ r.got = t.got /\ r.page = t.page
      /\ r.after = t.after /\ r.seen = t.seen /\ r.first = t.first /\ r.dirty = t.dirty
  BY <1>2, <1>4 DEF QueryOk, RecordOk, QueryFields
<1>6. RecordOk(r) BY <1>2, <1>5 DEF QueryOk, RecordOk
<1>7. StageOk(r) BY <1>5 DEF StageOk, Reading
<1>8. ReadsOk(r) BY <1>1, <1>5, NilAssumption DEF ReadsOk, Reading
<1>9. ListedOk(r) BY <1>2, <1>5, SameListed DEF QueryOk
<1>10. RegistryOk(r) BY <1>1, <1>2, <1>5, NilAssumption DEF QueryOk, RegistryOk
<1> QED BY <1>3, <1>4, <1>6, <1>7, <1>8, <1>9, <1>10, OneQueryMoves DEF QueryOk

LEMMA BeginKeeps == ASSUME SessionInv, NEW q \in Queries, NEW c, Begin(q, c) PROVE SessionInv'
<1>1. UNCHANGED <<turns, log, sessions>> /\ query[q].pc = "new" BY DEF Begin
<1>2. CASE c.error # None
  <2>1. query[q].op = None BY <1>1 DEF SessionInv, QueryOk, StageOk
  <2>2. Answer(q, c.error) BY <1>2 DEF Begin
  <2> QED BY <1>1, <2>1, <2>2, RefusalKeeps
<1>3. CASE c.error = None
  <2>1. PICK r : r = [NewQuery EXCEPT !.pc = FirstStep(c.op), !.op = c.op, !.seen = {Now}, !.first = ToSet(sessions)] OBVIOUS
  <2>2. query' = [query EXCEPT ![q] = r] BY <1>3, <2>1 DEF Begin
  <2>3. DOMAIN query' = Queries /\ (\A p \in Queries \ {q} : query'[p] = query[p]) /\ query'[q] = r BY <2>2 DEF SessionInv
  <2>4. /\ DOMAIN r = QueryFields /\ r.pc = FirstStep(c.op) /\ r.op = c.op /\ r.seen = {Now} /\ r.first = ToSet(sessions)
        /\ r.got = [turns |-> <<>>, events |-> <<>>] /\ r.page = <<>> /\ r.after = 0 /\ r.dirty = FALSE /\ r.res = None
    BY <2>1 DEF NewQuery, QueryFields
  <2>5. LogOk BY DEF SessionInv
  <2>6. RecordOk(r)
    <3>1. DOMAIN [turns |-> <<>>, events |-> <<>>] = {"turns", "events"} OBVIOUS
    <3> QED BY <2>4, <3>1 DEF RecordOk
  <2>7. r.pc \in {"turns", "events", "sessions", "post"} /\ StageOk(r)
    BY <2>4 DEF FirstStep, StageOk, Reading, ManagerOps
  <2>8. ReadsOk(r)
    <3>1. r.got.turns = <<>> /\ r.got.events = <<>> BY <2>4
    <3>2. Begins(<<>>, turns) /\ Begins(<<>>, log) BY <2>5 DEF Begins, LogOk
    <3> QED BY <2>4, <2>7, <3>1, <3>2, NilAssumption DEF ReadsOk, Reading
  <2>9. ListedOk(r)
    <3>1. r.page \in Seq(Nat) /\ Len(r.page) = 0 /\ r.after \in Nat /\ r.after <= Len(log) /\ 1..r.after = {}
      BY <2>4, <2>5 DEF LogOk
    <3>2. 1..Len(r.page) = {} BY <3>1
    <3> QED BY <3>1, <3>2 DEF ListedOk
  <2>10. RegistryOk(r)
    <3>1. r.page \in Seq(Nat) /\ r.after \in Nat /\ r.after <= Len(sessions) /\ Len(sessions) \in Nat /\ r.after = 0 BY <2>4, <2>5 DEF LogOk
    <3>2. r.first \subseteq 1..Len(sessions)
      <4>1. DOMAIN sessions = 1..Len(sessions) /\ \A i \in 1..Len(sessions) : sessions[i] = i BY <2>5 DEF LogOk
      <4> QED BY <2>4, <4>1 DEF ToSet
    <3>3. \A x \in r.first : ~(x > Len(sessions) - r.after) BY <3>1, <3>2
    <3> QED BY <2>4, <3>1, <3>2, <3>3, NilAssumption DEF RegistryOk
  <2> QED BY <1>1, <2>3, <2>6, <2>7, <2>8, <2>9, <2>10, OneQueryMoves DEF QueryOk
<1> QED BY <1>2, <1>3

LEMMA ReadTurnKeeps == ASSUME SessionInv, NEW q \in Queries, ReadTurn(q) PROVE SessionInv'
<1>1. PICK t : t = query[q] OBVIOUS
<1>2. QueryOk(t) /\ LogOk BY <1>1 DEF SessionInv
<1>3. UNCHANGED <<turns, log, sessions>> /\ t.pc = "turns" BY <1>1 DEF ReadTurn
<1>4. /\ t.got.turns \in Seq(Nat) /\ t.got.events \in Seq(LogEvents) /\ turns \in Seq(Nat) /\ log \in Seq(LogEvents)
      /\ DOMAIN t = QueryFields /\ DOMAIN t.got = {"turns", "events"}
  BY <1>2 DEF QueryOk, RecordOk, LogOk
<1>5. PICK i \in Nat : i = Len(t.got.turns) + 1 BY <1>4
<1>6. PICK r : r = query'[q] OBVIOUS
<1>7. DOMAIN query' = Queries /\ \A p \in Queries \ {q} : query'[p] = query[p] BY DEF ReadTurn, SessionInv
<1>8. t.op \notin {"events", "filtered", "sessions"} /\ t.res = None /\ Now \in t.seen
  BY <1>2, <1>3 DEF QueryOk, StageOk, ReadsOk, Reading
<1>9. ~t.dirty => Begins(t.got.turns, turns) /\ Begins(t.got.events, log) BY <1>2, <1>3 DEF QueryOk, ReadsOk, Reading
<1>10. CASE i \in DOMAIN turns
  <2>1. r = [t EXCEPT !.got.turns = Append(@, turns[i])] BY <1>1, <1>5, <1>6, <1>10 DEF ReadTurn, SessionInv
  <2>2. /\ DOMAIN r = QueryFields /\ r.pc = "turns" /\ r.op = t.op /\ r.seen = t.seen /\ r.dirty = t.dirty /\ r.res = t.res
        /\ r.got = [t.got EXCEPT !.turns = Append(@, turns[i])]
    BY <2>1, <1>3, <1>4 DEF QueryFields
  <2>3. DOMAIN r.got = {"turns", "events"} /\ r.got.turns = Append(t.got.turns, turns[i]) /\ r.got.events = t.got.events
    BY <2>2, <1>4
  <2>4. turns[i] \in Nat /\ i \in 1..Len(turns) BY <1>4, <1>10
  <2>5. RecordOk(r) BY <2>2, <2>3, <2>4, <1>4 DEF RecordOk
  <2>6. StageOk(r) BY <2>2, <1>8 DEF StageOk, Reading
  <2>7. ~r.dirty => Begins(r.got.turns, turns) BY <2>2, <2>3, <2>4, <1>4, <1>5, <1>9 DEF Begins
  <2>8. ReadsOk(r) BY <2>2, <2>3, <2>7, <1>8, <1>9, NilAssumption DEF ReadsOk, Reading
  <2>9. ListedOk(r) /\ RegistryOk(r) BY <2>2, <1>8 DEF ListedOk, RegistryOk
  <2> QED BY <1>3, <1>6, <1>7, <2>5, <2>6, <2>8, <2>9, OneQueryMoves DEF QueryOk
<1>11. CASE i \notin DOMAIN turns
  <2>1. r = [t EXCEPT !.pc = "log"] BY <1>1, <1>5, <1>6, <1>11 DEF ReadTurn, SessionInv
  <2>2. /\ DOMAIN r = QueryFields /\ r.pc = "log" /\ r.op = t.op /\ r.seen = t.seen /\ r.dirty = t.dirty /\ r.res = t.res
        /\ r.got = t.got
    BY <2>1, <1>4 DEF QueryFields
  <2>3. ~t.dirty => Len(t.got.turns) = Len(turns) BY <1>4, <1>5, <1>9, <1>11 DEF Begins
  <2>4. ~t.dirty => [turns |-> Len(t.got.turns), events |-> Before(Len(t.got.turns))] \in t.seen
    BY <2>3, <1>4, <1>8 DEF Before, Now
  <2>5. RecordOk(r) BY <2>2, <1>4 DEF RecordOk
  <2>6. StageOk(r) BY <2>2, <1>8 DEF StageOk, Reading
  <2>7. ReadsOk(r) BY <2>2, <2>4, <1>8, <1>9, NilAssumption DEF ReadsOk, Reading
  <2>8. ListedOk(r) /\ RegistryOk(r) BY <2>2, <1>8 DEF ListedOk, RegistryOk
  <2> QED BY <1>3, <1>6, <1>7, <2>5, <2>6, <2>7, <2>8, OneQueryMoves DEF QueryOk
<1> QED BY <1>10, <1>11

LEMMA ReadEventKeeps == ASSUME SessionInv, NEW q \in Queries, ReadEvent(q) PROVE SessionInv'
<1>1. PICK t : t = query[q] OBVIOUS
<1>2. QueryOk(t) /\ LogOk BY <1>1 DEF SessionInv
<1>3. UNCHANGED <<turns, log, sessions>> /\ t.pc = "log" BY <1>1 DEF ReadEvent
<1>4. /\ t.got.turns \in Seq(Nat) /\ t.got.events \in Seq(LogEvents) /\ turns \in Seq(Nat) /\ log \in Seq(LogEvents)
      /\ DOMAIN t = QueryFields /\ DOMAIN t.got = {"turns", "events"}
  BY <1>2 DEF QueryOk, RecordOk, LogOk
<1>5. PICK i \in Nat : i = Len(t.got.events) + 1 BY <1>4
<1>6. PICK r : r = query'[q] OBVIOUS
<1>7. DOMAIN query' = Queries /\ \A p \in Queries \ {q} : query'[p] = query[p] BY DEF ReadEvent, SessionInv
<1>8. t.op \notin {"events", "filtered", "sessions"} /\ t.res = None /\ Now \in t.seen
  BY <1>2, <1>3 DEF QueryOk, StageOk, ReadsOk, Reading
<1>9. ~t.dirty => /\ Begins(t.got.turns, turns) /\ Begins(t.got.events, log)
                  /\ [turns |-> Len(t.got.turns), events |-> Before(Len(t.got.turns))] \in t.seen
  BY <1>2, <1>3 DEF QueryOk, ReadsOk, Reading
<1>10. CASE i \in DOMAIN log
  <2>1. r = [t EXCEPT !.got.events = Append(@, log[i])] BY <1>1, <1>5, <1>6, <1>10 DEF ReadEvent, SessionInv
  <2>2. /\ DOMAIN r = QueryFields /\ r.pc = "log" /\ r.op = t.op /\ r.seen = t.seen /\ r.dirty = t.dirty /\ r.res = t.res
        /\ r.got = [t.got EXCEPT !.events = Append(@, log[i])]
    BY <2>1, <1>3, <1>4 DEF QueryFields
  <2>3. DOMAIN r.got = {"turns", "events"} /\ r.got.events = Append(t.got.events, log[i]) /\ r.got.turns = t.got.turns
    BY <2>2, <1>4
  <2>4. log[i] \in LogEvents /\ i \in 1..Len(log) BY <1>4, <1>10
  <2>5. RecordOk(r) BY <2>2, <2>3, <2>4, <1>4 DEF RecordOk
  <2>6. StageOk(r) BY <2>2, <1>8 DEF StageOk, Reading
  <2>7. ~r.dirty => Begins(r.got.events, log) BY <2>2, <2>3, <2>4, <1>4, <1>5, <1>9 DEF Begins
  <2>8. ReadsOk(r) BY <2>2, <2>3, <2>7, <1>8, <1>9, NilAssumption DEF ReadsOk, Reading
  <2>9. ListedOk(r) /\ RegistryOk(r) BY <2>2, <1>8 DEF ListedOk, RegistryOk
  <2> QED BY <1>3, <1>6, <1>7, <2>5, <2>6, <2>8, <2>9, OneQueryMoves DEF QueryOk
<1>11. CASE i \notin DOMAIN log
  <2>1. r = [t EXCEPT !.pc = "aggregate"] BY <1>1, <1>5, <1>6, <1>11 DEF ReadEvent, SessionInv
  <2>2. /\ DOMAIN r = QueryFields /\ r.pc = "aggregate" /\ r.op = t.op /\ r.seen = t.seen /\ r.dirty = t.dirty /\ r.res = t.res
        /\ r.got = t.got
    BY <2>1, <1>4 DEF QueryFields
  <2>3. ASSUME ~t.dirty
        PROVE  Whole(r) \/ (Len(r.got.turns) < Len(turns) /\ Before(Len(r.got.turns)) < Len(r.got.events))
    <3>1. PICK k \in Nat : k = Len(t.got.turns) BY <1>4
    <3>2. Len(t.got.events) = Len(log) /\ k <= Len(turns) BY <2>3, <3>1, <1>4, <1>5, <1>9, <1>11 DEF Begins
    <3>3. CASE k = Len(turns) BY <3>1, <3>2, <3>3, <2>2, <1>8 DEF Whole, Now
    <3>4. CASE k < Len(turns)
      <4>1. k + 1 \in 1..Len(turns) BY <3>4, <1>4
      <4>2. turns[k + 1] \in Nat /\ turns[k + 1] <= Len(log) + 1 BY <4>1, <1>2, <1>4 DEF LogOk
      <4>3. Before(k) = turns[k + 1] - 1 BY <3>4 DEF Before
      <4>4. Before(k) <= Len(log) /\ Len(log) \in Nat /\ Before(k) \in Int BY <4>2, <4>3, <1>4
      <4>5. CASE Before(k) = Len(log) BY <4>5, <3>1, <3>2, <2>2, <2>3, <1>9 DEF Whole
      <4>6. CASE Before(k) # Len(log) BY <4>4, <4>6, <3>1, <3>2, <3>4, <2>2
      <4> QED BY <4>5, <4>6
    <3> QED BY <3>1, <3>2, <3>3, <3>4, <1>4
  <2>5. RecordOk(r) BY <2>2, <1>4 DEF RecordOk
  <2>6. StageOk(r) BY <2>2, <1>8 DEF StageOk, Reading
  <2>7. ReadsOk(r) BY <2>2, <2>3, <1>8, <1>9, NilAssumption DEF ReadsOk, Reading
  <2>8. ListedOk(r) /\ RegistryOk(r) BY <2>2, <1>8 DEF ListedOk, RegistryOk
  <2> QED BY <1>3, <1>6, <1>7, <2>5, <2>6, <2>7, <2>8, OneQueryMoves DEF QueryOk
<1> QED BY <1>10, <1>11

\* The aggregation refuses events that go on into a turn that was not read.
LEMMA AcceptedIsWhole ==
    ASSUME LogOk, NEW t, QueryOk(t), t.pc = "aggregate", ~t.dirty, Consistent(t.got)
    PROVE  Whole(t)
<1>1. /\ t.got.turns \in Seq(Nat) /\ t.got.events \in Seq(LogEvents) /\ turns \in Seq(Nat) /\ log \in Seq(LogEvents)
  BY DEF QueryOk, RecordOk, LogOk
<1>2. Begins(t.got.turns, turns) /\ Begins(t.got.events, log) BY DEF QueryOk, ReadsOk, Reading
<1>3. PICK k \in Nat : k = Len(t.got.turns) BY <1>1
<1>4. PICK m \in Nat : m = Len(t.got.events) BY <1>1
<1>5. SUFFICES ASSUME k < Len(turns), Before(k) < m PROVE FALSE BY <1>3, <1>4 DEF QueryOk, ReadsOk
<1>6. k + 1 \in 1..Len(turns) BY <1>1, <1>5
<1>7. PICK s \in Nat : s = turns[k + 1] /\ s >= 1 BY <1>1, <1>6 DEF LogOk
<1>8. s <= m BY <1>4, <1>5, <1>7 DEF Before
<1>9. s \in 1..Len(log) /\ s \in 1..m /\ t.got.events[s] = log[s] BY <1>1, <1>2, <1>4, <1>7, <1>8 DEF Begins
<1>10. k + 1 <= log[s].turn /\ log[s].turn \in Nat
  <2>1. log[s] \in LogEvents BY <1>1, <1>9
  <2>2. log[s].turn \in Nat BY <2>1 DEF LogEvents
  <2>3. \A i \in 1..Len(turns), e \in 1..Len(log) : turns[i] <= e => i <= log[e].turn BY DEF LogOk
  <2>4. turns[k + 1] <= s BY <1>7
  <2> QED BY ONLY <2>2, <2>3, <2>4, <1>6, <1>9
<1>11. CASE k = 0
  <2>1. t.got.turns = <<>> BY <1>1, <1>3, <1>11, EmptySeq
  <2>2. t.got.events = <<>> BY <2>1 DEF Consistent
  <2> QED BY <2>2, <1>4, <1>9
<1>12. CASE k # 0
  <2>1. k \in DOMAIN t.got.turns /\ k \in 1..Len(turns) BY <1>1, <1>3, <1>5, <1>12
  <2>2. t.got.turns[k] = turns[k] /\ turns[k] <= s
    <3>1. k \in 1..Len(t.got.turns) BY <1>3, <1>12
    <3>2. t.got.turns[k] = turns[k] BY <3>1, <1>2 DEF Begins
    <3>3. \A i, j \in 1..Len(turns) : i <= j => turns[i] <= turns[j] BY DEF LogOk
    <3>4. turns[k] <= turns[k + 1] BY <3>3, <2>1, <1>6
    <3> QED BY <3>2, <3>4, <1>7
  <2>3. LastSeq(t.got, k) = m
    <3>1. t.got.events # <<>> BY <1>4, <1>9
    <3> QED BY <3>1, <1>3, <1>4 DEF LastSeq
  <2>4. s \in Span(t.got, k) BY <2>2, <2>3, <1>1, <1>4, <1>8, <1>9 DEF Span
  <2>5. t.got.events[s].turn = k BY <2>1, <2>4 DEF Consistent
  <2> QED BY <2>5, <1>9, <1>10
<1> QED BY <1>11, <1>12

\* An answer "ok" of the aggregation.
LEMMA AcceptanceKeeps ==
    ASSUME SessionInv, NEW q \in Queries, query[q].pc = "aggregate", Consistent(query[q].got),
           UNCHANGED <<turns, log, sessions>>, DOMAIN query' = Queries,
           \A p \in Queries \ {q} : query'[p] = query[p],
           DOMAIN query'[q] = QueryFields, query'[q].pc = "done", query'[q].op = query[q].op,
           query'[q].got = query[q].got, query'[q].seen = query[q].seen, query'[q].dirty = query[q].dirty
    PROVE  SessionInv'
<1>1. PICK t : t = query[q] OBVIOUS
<1>2. PICK r : r = query'[q] OBVIOUS
<1>3. QueryOk(t) /\ LogOk BY <1>1 DEF SessionInv
<1>4. ~t.dirty => Whole(t) BY <1>1, <1>3, AcceptedIsWhole
<1>5. t.op \notin {"events", "filtered", "sessions"} BY <1>1, <1>3 DEF QueryOk, StageOk, Reading
<1>6. RecordOk(r) BY <1>1, <1>2, <1>3 DEF QueryOk, RecordOk
<1>7. StageOk(r) BY <1>1, <1>2 DEF StageOk, Reading
<1>8. ReadsOk(r) BY <1>1, <1>2, <1>4 DEF ReadsOk, Reading, Whole
<1>9. ListedOk(r) /\ RegistryOk(r) BY <1>1, <1>2, <1>5 DEF ListedOk, RegistryOk
<1> QED BY <1>2, <1>6, <1>7, <1>8, <1>9, OneQueryMoves DEF QueryOk

LEMMA AggregateKeeps == ASSUME SessionInv, NEW q \in Queries, NEW turn, Aggregate(q, turn) PROVE SessionInv'
<1>1. UNCHANGED <<turns, log, sessions>> /\ query[q].pc = "aggregate" BY DEF Aggregate
<1>2. DOMAIN query[q] = QueryFields BY DEF SessionInv, QueryOk, RecordOk
<1>3. ASSUME NEW res, Answer(q, res), res # "ok" PROVE SessionInv' BY <1>1, <1>3, RefusalKeeps
<1>4. ASSUME Consistent(query[q].got), NEW res, Answer(q, res) PROVE SessionInv'
  <2>1. DOMAIN query' = Queries /\ (\A p \in Queries \ {q} : query'[p] = query[p])
        /\ query'[q] = [query[q] EXCEPT !.pc = "done", !.res = res]
    BY <1>4 DEF Answer, SessionInv
  <2>2. /\ DOMAIN query'[q] = QueryFields /\ query'[q].pc = "done" /\ query'[q].op = query[q].op
        /\ query'[q].got = query[q].got /\ query'[q].seen = query[q].seen /\ query'[q].dirty = query[q].dirty
    BY <2>1, <1>2 DEF QueryFields
  <2> QED BY <1>1, <1>4, <2>1, <2>2, AcceptanceKeeps
<1>5. ASSUME Consistent(query[q].got), NEW page, query' = [query EXCEPT ![q].pc = "done", ![q].res = "ok", ![q].page = page]
      PROVE  SessionInv'
  <2>1. DOMAIN query' = Queries /\ (\A p \in Queries \ {q} : query'[p] = query[p])
        /\ query'[q] = [query[q] EXCEPT !.pc = "done", !.res = "ok", !.page = page]
    BY <1>5 DEF SessionInv
  <2>2. /\ DOMAIN query'[q] = QueryFields /\ query'[q].pc = "done" /\ query'[q].op = query[q].op
        /\ query'[q].got = query[q].got /\ query'[q].seen = query[q].seen /\ query'[q].dirty = query[q].dirty
    BY <2>1, <1>2 DEF QueryFields
  <2> QED BY <1>1, <1>5, <2>1, <2>2, AcceptanceKeeps
<1>6. CASE ~Consistent(query[q].got)
  <2>1. Answer(q, "dataCorrupted") BY <1>6 DEF Aggregate
  <2> QED BY <2>1, <1>3
<1>7. CASE Consistent(query[q].got)
  <2>1. (\E res : Answer(q, res)) \/ \E page : query' = [query EXCEPT ![q].pc = "done", ![q].res = "ok", ![q].page = page]
    BY <1>7 DEF Aggregate
  <2> QED BY <2>1, <1>4, <1>5, <1>7
<1> QED BY <1>6, <1>7

LEMMA ListEventKeeps == ASSUME SessionInv, NEW q \in Queries, ListEvent(q) PROVE SessionInv'
<1>1. PICK t : t = query[q] OBVIOUS
<1>2. QueryOk(t) /\ LogOk BY <1>1 DEF SessionInv
<1>3. PICK s : s = t.after + 1 OBVIOUS
<1>4. UNCHANGED <<turns, log, sessions>> /\ t.pc = "events" /\ s \in DOMAIN log BY <1>1, <1>3 DEF ListEvent
<1>5. DOMAIN t = QueryFields /\ t.op \in {"events", "filtered"} /\ t.res = None
  BY <1>2, <1>4 DEF QueryOk, RecordOk, StageOk
<1>6. PICK pass \in BOOLEAN : pass <=> (t.op = "filtered" => log[s].type = "completed") OBVIOUS
<1>7. Passes(q, s) <=> pass BY <1>1, <1>6 DEF Passes
<1>8. PICK r : r = query'[q] OBVIOUS
<1>9. PICK n : r = [t EXCEPT !.after = s, !.page = IF pass THEN Append(@, s) ELSE @, !.size = n]
  BY <1>1, <1>3, <1>7, <1>8 DEF ListEvent, SessionInv
<1>10. DOMAIN query' = Queries /\ \A p \in Queries \ {q} : query'[p] = query[p] BY DEF ListEvent, SessionInv
<1>11. /\ DOMAIN r = QueryFields /\ r.pc = t.pc /\ r.op = t.op /\ r.got = t.got /\ r.seen = t.seen /\ r.first = t.first
       /\ r.dirty = t.dirty /\ r.res = t.res /\ r.after = s /\ r.page = IF pass THEN Append(t.page, s) ELSE t.page
  BY <1>5, <1>9 DEF QueryFields
<1>12. RecordOk(r) BY <1>2, <1>11 DEF QueryOk, RecordOk
<1>13. StageOk(r) BY <1>2, <1>11 DEF QueryOk, StageOk
<1>14. ReadsOk(r) BY <1>4, <1>5, <1>11 DEF ReadsOk, Reading
<1>15. RegistryOk(r) BY <1>5, <1>11 DEF RegistryOk
<1>16. ListedOk(r)
  <2> SUFFICES ASSUME ~t.dirty PROVE ListedOk(r) BY <1>11 DEF ListedOk
  <2>1. /\ t.page \in Seq(Nat) /\ t.after \in Nat /\ t.after <= Len(log)
        /\ \A e \in Nat : (\E i \in 1..Len(t.page) : t.page[i] = e) <=>
               e \in 1..t.after /\ (t.op = "filtered" => log[e].type = "completed")
        /\ \A i, j \in 1..Len(t.page) : i < j => t.page[i] < t.page[j]
    BY <1>2, <1>5 DEF QueryOk, ListedOk
  <2>2. s \in Nat /\ s = t.after + 1 /\ s <= Len(log) BY <2>1, <1>2, <1>3, <1>4 DEF LogOk
  <2>3. \A e \in Nat : e \in 1..s <=> e \in 1..t.after \/ e = s BY <2>1, <2>2
  <2>4. CASE ~pass
    <3>1. r.page = t.page /\ r.after = s /\ r.op = t.op BY <2>4, <1>11
    <3>2. \A e \in Nat : (\E i \in 1..Len(t.page) : t.page[i] = e) <=>
               e \in 1..s /\ (t.op = "filtered" => log[e].type = "completed")
      BY <2>1, <2>3, <2>4, <1>6
    <3>3. /\ r.page \in Seq(Nat) /\ r.after \in Nat /\ r.after <= Len(log)
          /\ \A i, j \in 1..Len(r.page) : i < j => r.page[i] < r.page[j]
      BY <2>1, <2>2, <3>1
    <3>4. \A e \in Nat : (\E i \in 1..Len(r.page) : r.page[i] = e) <=>
               e \in 1..r.after /\ (r.op = "filtered" => log[e].type = "completed")
      BY <3>1, <3>2
    <3> QED BY <3>3, <3>4, Zenon DEF ListedOk
  <2>5. CASE pass
    <3>1. PICK u : u = Append(t.page, s) OBVIOUS
    <3>2. /\ u \in Seq(Nat) /\ Len(u) = Len(t.page) + 1 /\ u[Len(t.page) + 1] = s /\ Len(t.page) \in Nat
          /\ \A i \in 1..Len(t.page) : u[i] = t.page[i]
      BY <2>1, <2>2, <3>1
    <3>3. \A i \in 1..Len(u) : i \in 1..Len(t.page) \/ i = Len(t.page) + 1 BY <3>2
    <3>4. ASSUME NEW e \in Nat
          PROVE  (\E i \in 1..Len(u) : u[i] = e) <=> e \in 1..s /\ (t.op = "filtered" => log[e].type = "completed")
      <4>1. (\E i \in 1..Len(u) : u[i] = e) <=> (\E i \in 1..Len(t.page) : t.page[i] = e) \/ e = s
        <5>1. 1..Len(t.page) \subseteq 1..Len(u) /\ Len(t.page) + 1 \in 1..Len(u) BY <3>2
        <5> QED BY <5>1, <3>2, <3>3
      <4> QED BY <4>1, <2>1, <2>2, <2>3, <2>5, <1>6
    <3>5. \A i \in 1..Len(t.page) : t.page[i] \in Nat /\ t.page[i] < s
      <4>1. \A i \in 1..Len(t.page) : t.page[i] \in Nat BY <2>1
      <4>2. \A i \in 1..Len(t.page) : t.page[i] \in 1..t.after BY <4>1, <2>1
      <4> QED BY <4>1, <4>2, <2>1, <2>2
    <3>6. ASSUME NEW i \in 1..Len(u), NEW j \in 1..Len(u), i < j PROVE u[i] < u[j]
      <4>1. CASE j = Len(t.page) + 1
        <5>1. i \in 1..Len(t.page) BY <4>1, <3>2, <3>6
        <5> QED BY <4>1, <5>1, <3>2, <3>5
      <4>2. CASE j \in 1..Len(t.page)
        <5>1. i \in 1..Len(t.page) BY <4>2, <3>2, <3>6
        <5> QED BY <4>2, <5>1, <3>2, <3>6, <2>1
      <4> QED BY <3>3, <4>1, <4>2
    <3>7. r.page = u /\ r.after = s /\ r.op = t.op BY <2>5, <3>1, <1>11
    <3> QED BY <2>2, <3>2, <3>4, <3>6, <3>7 DEF ListedOk
  <2> QED BY <2>4, <2>5
<1> QED BY <1>4, <1>8, <1>10, <1>12, <1>13, <1>14, <1>15, <1>16, OneQueryMoves DEF QueryOk

LEMMA ListEventsEndsKeeps == ASSUME SessionInv, NEW q \in Queries, ListEventsEnds(q) PROVE SessionInv'
<1>1. PICK t : t = query[q] OBVIOUS
<1>2. QueryOk(t) BY <1>1 DEF SessionInv
<1>3. UNCHANGED <<turns, log, sessions>> /\ t.pc = "events" BY <1>1 DEF ListEventsEnds
<1>4. DOMAIN t = QueryFields /\ t.op \in {"events", "filtered"} /\ t.res = None
  BY <1>2, <1>3 DEF QueryOk, RecordOk, StageOk
<1>5. PICK r : r = query'[q] OBVIOUS
<1>6. DOMAIN query' = Queries /\ \A p \in Queries \ {q} : query'[p] = query[p] BY DEF ListEventsEnds, Answer, SessionInv
<1>7. (\E res : r = [t EXCEPT !.pc = "done", !.res = res]) \/ r = [t EXCEPT !.size = 0]
  <2>1. ASSUME NEW res, Answer(q, res) PROVE r = [t EXCEPT !.pc = "done", !.res = res]
    BY <1>1, <1>5, <2>1 DEF Answer, SessionInv
  <2>2. ASSUME query' = [query EXCEPT ![q].size = 0] PROVE r = [t EXCEPT !.size = 0]
    BY <1>1, <1>5, <2>2 DEF SessionInv
  <2>3. (\E res : Answer(q, res)) \/ query' = [query EXCEPT ![q].size = 0] BY DEF ListEventsEnds
  <2> QED BY <2>1, <2>2, <2>3
<1>8. /\ DOMAIN r = QueryFields /\ r.op = t.op /\ r.got = t.got /\ r.seen = t.seen /\ r.first = t.first
      /\ r.dirty = t.dirty /\ r.after = t.after /\ r.page = t.page /\ (r.pc = "done" \/ (r.pc = t.pc /\ r.res = t.res))
  <2>2. ASSUME r = [t EXCEPT !.size = 0]
        PROVE  /\ DOMAIN r = QueryFields /\ r.op = t.op /\ r.got = t.got /\ r.seen = t.seen /\ r.first = t.first
               /\ r.dirty = t.dirty /\ r.after = t.after /\ r.page = t.page /\ r.pc = t.pc /\ r.res = t.res
    BY <2>2, <1>4 DEF QueryFields
  <2>3. CASE \E res : r = [t EXCEPT !.pc = "done", !.res = res]
    <3>1. PICK res : r = [t EXCEPT !.pc = "done", !.res = res] BY <2>3
    <3>2. /\ DOMAIN r = QueryFields /\ r.op = t.op /\ r.got = t.got /\ r.seen = t.seen /\ r.first = t.first
          /\ r.dirty = t.dirty /\ r.after = t.after /\ r.page = t.page /\ r.pc = "done"
      BY <3>1, <1>4 DEF QueryFields
    <3> QED BY <3>2
  <2>4. CASE r = [t EXCEPT !.size = 0] BY <2>4, <2>2
  <2> QED BY <2>3, <2>4, <1>7
<1>9. RecordOk(r) BY <1>2, <1>8 DEF QueryOk, RecordOk
<1>10. StageOk(r) BY <1>2, <1>8 DEF QueryOk, StageOk, Reading
<1>11. ReadsOk(r) BY <1>3, <1>4, <1>8 DEF ReadsOk, Reading
<1>12. ListedOk(r) BY <1>2, <1>8, SameListed DEF QueryOk
<1>13. RegistryOk(r) BY <1>4, <1>8 DEF RegistryOk
<1> QED BY <1>3, <1>5, <1>6, <1>9, <1>10, <1>11, <1>12, <1>13, OneQueryMoves DEF QueryOk

LEMMA BothListed ==
    ASSUME NEW a \in Seq(Nat), NEW b \in Seq(Nat), NEW u, u = a \o b
    PROVE  /\ u \in Seq(Nat)
           /\ \A x : Lists(a, x) => Lists(u, x)
           /\ \A x : Lists(b, x) => Lists(u, x)
<1>1. /\ u \in Seq(Nat) /\ Len(u) = Len(a) + Len(b) /\ Len(a) \in Nat /\ Len(b) \in Nat
      /\ \A i \in 1..Len(u) : u[i] = IF i <= Len(a) THEN a[i] ELSE b[i - Len(a)]
  BY ConcatProperties
<1>2. \A i \in 1..Len(a) : i \in 1..Len(u) /\ u[i] = a[i] BY <1>1
<1>3. ASSUME NEW i \in 1..Len(b) PROVE Len(a) + i \in 1..Len(u) /\ u[Len(a) + i] = b[i]
  <2>1. Len(a) + i \in 1..Len(u) /\ ~(Len(a) + i <= Len(a)) /\ Len(a) + i - Len(a) = i BY <1>1
  <2> QED BY <2>1, <1>1
<1> QED BY <1>1, <1>2, <1>3 DEF Lists

\* Page p of n sessions has those between the offsets o and e, counted from the newest.
Spans(p, o, e, n) ==
    /\ p.part \in Seq(Nat) /\ (e < n => p.next = e) /\ (e = n => p.next = None)
    /\ \A x \in Nat : x > n - e /\ x <= n - o => Lists(p.part, x)

LEMMA PageOfRegistry ==
    ASSUME LogOk, NEW o \in Nat, NEW n \in Nat, n = Len(sessions), o <= n, NEW p, p = Page(Reverse(sessions), o, PageLimit)
    PROVE  \E e \in o..n : Spans(p, o, e, n)
<1>1. PICK list : list = Reverse(sessions) OBVIOUS
<1>2. sessions \in Seq(Nat) /\ \A i \in 1..n : sessions[i] = i BY DEF LogOk
<1>3. list = [i \in 1..n |-> sessions[n - i + 1]] BY <1>1 DEF Reverse
<1>4. ASSUME NEW i \in 1..n PROVE list[i] = n - i + 1 /\ list[i] \in Nat
  <2>1. n - i + 1 \in 1..n OBVIOUS
  <2> QED BY <2>1, <1>2, <1>3
<1>5. list \in Seq(Nat) /\ Len(list) = n BY <1>3, <1>4
<1>6. PICK e \in o..n : e = IF o + PageLimit < n THEN o + PageLimit ELSE n BY PageAssumption
<1>7. p = [part |-> SubSeq(list, o + 1, e), next |-> IF e < n THEN e ELSE None, ok |-> o <= n]
  BY <1>1, <1>5, <1>6 DEF Page
<1>12. PICK part : part = SubSeq(list, o + 1, e) OBVIOUS
<1>13. p.part = part /\ (e < n => p.next = e) /\ (e = n => p.next = None)
  <2>1. p.part = part /\ p.next = (IF e < n THEN e ELSE None) BY <1>7, <1>12
  <2> QED BY <2>1
<1>8. \A i \in (o + 1)..e : list[i] \in Nat BY <1>4, <1>6
<1>9. o + 1 \in Int /\ e \in Int /\ e \in Nat BY <1>6
<1>10. /\ part \in Seq(Nat)
       /\ Len(part) = IF o + 1 <= e THEN e - (o + 1) + 1 ELSE 0
       /\ \A i \in 1..(e - (o + 1) + 1) : part[i] = list[o + 1 + i - 1]
  BY <1>8, <1>9, <1>12, SubSeqProperties
<1>11. ASSUME NEW x \in Nat, x > n - e, x <= n - o PROVE Lists(part, x)
  <2>1. PICK i : i = n - x + 1 - o OBVIOUS
  <2>2. i \in 1..(e - (o + 1) + 1) /\ o + 1 <= e /\ o + 1 + i - 1 = n - x + 1 /\ n - x + 1 \in 1..n BY <2>1, <1>9, <1>11
  <2>3. n - (n - x + 1) + 1 = x OBVIOUS
  <2>4. list[n - x + 1] = x BY <2>2, <2>3, <1>4
  <2>5. part[i] = x BY <2>2, <2>4, <1>10
  <2>6. i \in 1..Len(part) BY <2>2, <1>10
  <2> QED BY <2>5, <2>6 DEF Lists
<1>14. Spans(p, o, e, n) BY <1>10, <1>11, <1>13 DEF Spans
<1> QED BY <1>14

LEMMA ListSessionsKeeps == ASSUME SessionInv, NEW q \in Queries, ListSessions(q) PROVE SessionInv'
<1>1. PICK t : t = query[q] OBVIOUS
<1>2. QueryOk(t) /\ LogOk BY <1>1 DEF SessionInv
<1>3. UNCHANGED <<turns, log, sessions>> /\ t.pc = "sessions" BY <1>1 DEF ListSessions
<1>4. DOMAIN t = QueryFields /\ t.op = "sessions" /\ t.res = None
  BY <1>2, <1>3 DEF QueryOk, RecordOk, StageOk
<1>5. PICK r : r = query'[q] OBVIOUS
<1>6. PICK p : p = Page(Reverse(sessions), t.after, PageLimit) OBVIOUS
<1>7. CASE ~p.ok
  <2>1. Answer(q, "invalidQuery") BY <1>1, <1>6, <1>7 DEF ListSessions
  <2> QED BY <2>1, <1>3, RefusalKeeps
<1>8. CASE p.ok
  <2>1. query' = [query EXCEPT ![q].page = @ \o p.part, ![q].pc = IF p.next = None THEN "done" ELSE "sessions",
                      ![q].res = IF p.next = None THEN "ok" ELSE None, ![q].after = IF p.next = None THEN @ ELSE p.next]
    BY <1>1, <1>6, <1>8 DEF ListSessions
  <2>2. DOMAIN query' = Queries /\ (\A z \in Queries \ {q} : query'[z] = query[z])
        /\ r = [t EXCEPT !.page = @ \o p.part, !.pc = IF p.next = None THEN "done" ELSE "sessions",
                      !.res = IF p.next = None THEN "ok" ELSE None, !.after = IF p.next = None THEN @ ELSE p.next]
    BY <2>1, <1>1, <1>5 DEF SessionInv
  <2>3. /\ DOMAIN r = QueryFields /\ r.op = t.op /\ r.got = t.got /\ r.seen = t.seen /\ r.first = t.first /\ r.dirty = t.dirty
        /\ r.page = t.page \o p.part /\ r.pc = (IF p.next = None THEN "done" ELSE "sessions")
        /\ r.res = (IF p.next = None THEN "ok" ELSE None) /\ r.after = (IF p.next = None THEN t.after ELSE p.next)
    BY <2>2, <1>4 DEF QueryFields
  <2>4. RecordOk(r) BY <2>3, <1>2 DEF QueryOk, RecordOk
  <2>5. StageOk(r) BY <2>3, <1>4 DEF StageOk, Reading
  <2>6. ReadsOk(r) BY <2>3, <1>4 DEF ReadsOk, Reading
  <2>7. ListedOk(r) BY <2>3, <1>4 DEF ListedOk
  <2>8. RegistryOk(r)
    <3> SUFFICES ASSUME ~t.dirty PROVE RegistryOk(r) BY <2>3 DEF RegistryOk
    <3>1. PICK n \in Nat : n = Len(sessions) BY <1>2 DEF LogOk
    <3>10. PICK a, o, part : a = t.page /\ o = t.after /\ part = p.part OBVIOUS
    <3>2. /\ t.page \in Seq(Nat) /\ t.after \in Nat /\ t.after <= n /\ t.first \subseteq 1..n
          /\ \A x \in t.first : x > n - t.after => Lists(t.page, x)
      BY <3>1, <1>2, <1>4 DEF QueryOk, RegistryOk
    <3>3. PICK e \in t.after..n :
              /\ p.part \in Seq(Nat) /\ (e < n => p.next = e) /\ (e = n => p.next = None)
              /\ \A x \in Nat : x > n - e /\ x <= n - t.after => Lists(p.part, x)
      <4>1. o \in Nat /\ o <= n /\ p = Page(Reverse(sessions), o, PageLimit) BY <3>2, <3>10, <1>6
      <4>2. \E e \in o..n : Spans(p, o, e, n)
        BY <3>1, <4>1, <1>2, PageOfRegistry
      <4> QED BY <3>10, <4>2 DEF Spans
    <3>4. PICK u : u = t.page \o p.part OBVIOUS
    <3>5. /\ u \in Seq(Nat)
          /\ \A x : Lists(t.page, x) => Lists(u, x)
          /\ \A x : Lists(p.part, x) => Lists(u, x)
      <4>1. a \in Seq(Nat) /\ part \in Seq(Nat) /\ u = a \o part BY <3>2, <3>3, <3>4, <3>10
      <4> QED BY <4>1, <3>10, BothListed
    <3>6. ASSUME NEW x \in t.first, x > n - e PROVE Lists(u, x)
      <4>1. CASE x > n - t.after
        BY <4>1, <3>2, <3>5
      <4>2. CASE ~(x > n - t.after)
        <5>1. x \in Nat /\ x <= n - t.after BY <4>2, <3>1, <3>2
        <5> QED BY <5>1, <3>3, <3>5, <3>6
      <4> QED BY <4>1, <4>2
    <3>7. r.page = u BY <2>3, <3>4
    <3>8. CASE e < n
      <4>1. p.next = e /\ p.next # None BY <3>2, <3>3, <3>8, NilAssumption
      <4>2. r.after = e /\ r.res = None BY <4>1, <2>3
      <4>3. r.page \in Seq(Nat) /\ r.after \in Nat /\ r.after <= n BY <4>2, <3>3, <3>5, <3>7, <3>8, <3>2
      <4>4. r.res # "ok" BY <4>2, NilAssumption
      <4> QED BY <4>2, <4>3, <4>4, <3>1, <3>2, <3>6, <3>7, <2>3 DEF RegistryOk
    <3>9. CASE ~(e < n)
      <4>1. p.next = None /\ e = n BY <3>3, <3>9
      <4>2. r.after = t.after BY <4>1, <2>3
      <4>3. \A x \in t.first : x > n - e BY <4>1, <3>2
      <4>4. \A x \in t.first : Lists(u, x) BY <4>3, <3>6
      <4> QED BY <4>2, <4>4, <3>1, <3>2, <3>5, <3>7, <2>3 DEF RegistryOk
    <3> QED BY <3>8, <3>9
  <2> QED BY <1>3, <1>5, <2>2, <2>4, <2>5, <2>6, <2>7, <2>8, OneQueryMoves DEF QueryOk
<1> QED BY <1>7, <1>8

LEMMA PostKeeps == ASSUME SessionInv, NEW q \in Queries, NEW b \in BOOLEAN, Post(q, b) PROVE SessionInv'
<1>1. PICK t : t = query[q] OBVIOUS
<1>2. QueryOk(t) BY <1>1 DEF SessionInv
<1>3. UNCHANGED <<turns, log, sessions>> /\ t.pc = "post" BY <1>1 DEF Post
<1>4. DOMAIN t = QueryFields /\ t.op \in {"fork", "delete"} BY <1>2, <1>3 DEF QueryOk, RecordOk, StageOk, ManagerOps
<1>5. PICK r : r = query'[q] OBVIOUS
<1>6. PICK n, pc, res : r = [t EXCEPT !.posts = n, !.pc = pc, !.res = res] /\ (pc = "done" \/ (pc = "post" /\ res = None))
  <2>2. PICK n : n = query[q].posts + 1 OBVIOUS
  <2>3. PICK pc : pc = IF b /\ query[q].posts + 1 < MaxPosts THEN "post" ELSE "done" OBVIOUS
  <2>4. PICK res : res = IF b THEN IF query[q].posts + 1 < MaxPosts THEN None ELSE "schedulerUnavailable" ELSE "ok" OBVIOUS
  <2>5. query' = [query EXCEPT ![q].posts = n, ![q].pc = pc, ![q].res = res] BY <2>2, <2>3, <2>4 DEF Post
  <2>6. r = [t EXCEPT !.posts = n, !.pc = pc, !.res = res] BY <2>5, <1>1, <1>5 DEF SessionInv
  <2>7. pc = "done" \/ (pc = "post" /\ res = None)
    <3>1. CASE b /\ query[q].posts + 1 < MaxPosts BY <3>1, <2>3, <2>4
    <3>2. CASE ~(b /\ query[q].posts + 1 < MaxPosts) BY <3>2, <2>3
    <3> QED BY <3>1, <3>2
  <2> QED BY <2>6, <2>7
<1>7. DOMAIN query' = Queries /\ \A z \in Queries \ {q} : query'[z] = query[z] BY DEF Post, SessionInv
<1>8. /\ DOMAIN r = QueryFields /\ r.op = t.op /\ r.got = t.got /\ (r.pc = "done" \/ (r.pc = "post" /\ r.res = None))
  BY <1>4, <1>6 DEF QueryFields
<1>9. RecordOk(r) BY <1>2, <1>8 DEF QueryOk, RecordOk
<1>10. StageOk(r) BY <1>4, <1>8 DEF StageOk, Reading, ManagerOps
<1>11. ReadsOk(r) BY <1>4, <1>8 DEF ReadsOk, Reading
<1>12. ListedOk(r) /\ RegistryOk(r) BY <1>4, <1>8 DEF ListedOk, RegistryOk
<1> QED BY <1>3, <1>5, <1>7, <1>9, <1>10, <1>11, <1>12, OneQueryMoves DEF QueryOk

\* What the invariant says of the answers.
LEMMA SessionInvGivesReads == SessionInv => SessionReadsSound
<1> SUFFICES ASSUME SessionInv PROVE SessionReadsSound OBVIOUS
<1>1. LogOk BY DEF SessionInv
<1>2. AnswerIsSnapshot BY DEF SessionInv, QueryOk, ReadsOk, AnswerIsSnapshot, Succeeded, Whole
<1>3. ASSUME NEW q \in Queries, ~query[q].dirty, query[q].op \in {"events", "filtered"}
      PROVE  /\ ToSet(query[q].page) = {s \in DOMAIN log : s <= query[q].after /\ Passes(q, s)}
             /\ \A i, j \in DOMAIN query[q].page : i < j => query[q].page[i] < query[q].page[j]
  <2>1. PICK t : t = query[q] OBVIOUS
  <2>2. /\ t.page \in Seq(Nat) /\ t.after \in Nat /\ t.after <= Len(log)
        /\ \A s \in Nat : (\E i \in 1..Len(t.page) : t.page[i] = s) <=>
               s \in 1..t.after /\ (t.op = "filtered" => log[s].type = "completed")
        /\ \A i, j \in 1..Len(t.page) : i < j => t.page[i] < t.page[j]
    BY <2>1, <1>3 DEF SessionInv, QueryOk, ListedOk
  <2>3. DOMAIN t.page = 1..Len(t.page) /\ DOMAIN log = 1..Len(log) /\ Len(log) \in Nat BY <2>2, <1>1 DEF LogOk
  <2>4. ASSUME NEW s PROVE s \in ToSet(t.page) <=> s \in Nat /\ \E i \in 1..Len(t.page) : t.page[i] = s
    <3>1. \A i \in 1..Len(t.page) : t.page[i] \in Nat BY <2>2
    <3>2. ToSet(t.page) = {t.page[i] : i \in 1..Len(t.page)} BY <2>3 DEF ToSet
    <3> QED BY <3>1, <3>2
  <2>5. ASSUME NEW s
        PROVE  s \in {e \in DOMAIN log : e <= t.after /\ Passes(q, e)} <=>
                   s \in Nat /\ s \in 1..t.after /\ (t.op = "filtered" => log[s].type = "completed")
    BY <2>1, <2>2, <2>3 DEF Passes
  <2>6. \A s : s \in ToSet(t.page) <=> s \in {e \in DOMAIN log : e <= t.after /\ Passes(q, e)} BY <2>2, <2>4, <2>5
  <2> QED BY <2>1, <2>2, <2>3, <2>6
<1>4. ASSUME NEW q \in Queries, ~query[q].dirty, Succeeded(q, {"sessions"})
      PROVE  query[q].first \subseteq ToSet(query[q].page)
  BY <1>4 DEF SessionInv, QueryOk, RegistryOk, Succeeded, ToSet, Lists
<1> QED BY <1>2, <1>3, <1>4 DEF SessionReadsSound, PagesComplete

\* Every step of the writer and of a query keeps the invariant.
LEMMA SessionInvStep == SessionInv /\ [SessionNext]_sessionVars => SessionInv'
<1> SUFFICES ASSUME SessionInv, [SessionNext]_sessionVars PROVE SessionInv' OBVIOUS
<1>1. CASE StartTurn BY <1>1, StartTurnKeeps
<1>2. CASE RegisterSession BY <1>2, RegisterSessionKeeps
<1>3. CASE DeleteSession BY <1>3, DeleteSessionKeeps
<1>4. CASE \E t \in EventTypes : AppendEvent(t) BY <1>4, AppendEventKeeps
<1>5. ASSUME NEW q \in Queries, \E c \in Calls : Begin(q, c) PROVE SessionInv' BY <1>5, BeginKeeps
<1>6. ASSUME NEW q \in Queries, ReadFails(q) PROVE SessionInv'
  BY <1>6, RefusalKeeps DEF ReadFails
<1>7. ASSUME NEW q \in Queries, ReadTurn(q) \/ ReadEvent(q) PROVE SessionInv' BY <1>7, ReadTurnKeeps, ReadEventKeeps
<1>8. ASSUME NEW q \in Queries, ListEvent(q) \/ ListEventsEnds(q) \/ ListSessions(q) PROVE SessionInv'
  BY <1>8, ListEventKeeps, ListEventsEndsKeeps, ListSessionsKeeps
<1>9. ASSUME NEW q \in Queries, \E t \in 1..MaxTurns : Aggregate(q, t) PROVE SessionInv' BY <1>9, AggregateKeeps
<1>10. ASSUME NEW q \in Queries, \E b \in BOOLEAN : Post(q, b) PROVE SessionInv' BY <1>10, PostKeeps
<1>11. CASE UNCHANGED sessionVars
  <2>1. UNCHANGED <<turns, log, sessions, query>> BY <1>11 DEF sessionVars
  <2>2. CASE Queries = {} BY <2>1, <2>2 DEF SessionInv, LogOk
  <2>3. CASE Queries # {}
    <3>1. PICK q \in Queries : TRUE BY <2>3
    <3> QED BY <2>1, <3>1, OneQueryMoves DEF SessionInv
  <2> QED BY <2>2, <2>3
<1> QED BY <1>1, <1>2, <1>3, <1>4, <1>5, <1>6, <1>7, <1>8, <1>9, <1>10, <1>11 DEF SessionNext

\* A query that reads a session key by key while the SDK goes on writing answers with
\* one state of the log or refuses, and the pages of a list neither skip nor repeat
\* (sessioncontext/service.go readHistory, ListEvents and ListSessions, aggregate.go):
\* for any number of queries, turns, events and sessions and any page size.
THEOREM SessionReadsSoundCorrect == SessionSpec => []SessionReadsSound
<1>1. SessionSpec => []SessionInv BY SessionInvInit, SessionInvStep, PTL DEF SessionSpec
<1> QED BY <1>1, SessionInvGivesReads, PTL
==============================================================================
