# Verification of the openYuanrong frontend

TLA+ specifications of the frontend: how an invocation gets hold of an instance
and gives it back, how the API handlers turn requests into calls, and how the
tables behind them follow etcd. Paths without a prefix are relative to
`src/pkg/frontend/`; `etcd3`, `loadbalance`, `kernelrpc`, `timewheel`,
`datasystemclient`, `aliasroute` and `monitor` are packages of
`src/pkg/common/faas_common/`.

## 1. The system

The frontend is an HTTP gateway in front of a FaaS cluster. It stores nothing of
its own but keeps much state in memory, shared by a goroutine per request, a
goroutine per watched etcd prefix, timers and background loops. Its parts:

| Part | State | Operations | What is hard |
|---|---|---|---|
| `leaseadaptor` | per function: pools of leases on instances, idle lists, a loop and a timer per lease, two registries, retain calls in flight | acquire, release, expire, batch retain, clear, delete, switch ring | flags without locks; locks released and retaken; objects replaced under their users; late answers |
| `schedulerproxy` | known schedulers, a hash ring | events, choose, retry, redirect | map and ring changed apart; retries on stale nodes |
| `wisecloud/queue.go` | two-level map of queues of waiting requests | add, instance update, time-out, failed cold start, deletion | five ways to tear a queue down; a lock exchange |
| `invocation` | one request with its lease and its time | acquire, call, retry, return the lease | what an error says about the instance and about a retry |
| `api/sandbox`, `api/agent` | replay store, flights by name, event streams | translate a body, create, get, delete | retries against running creates; metadata that changes while it is read |
| `sandboxrouter`, `common/util`, `proxyrouting`, `instancemanager` | route cache, observations, endpoints, instance maps, wake-up channels | resolve, read through, invoke, create, kill, watch events | reads racing with events; retries that may execute twice |
| handlers and relays: `api/v1`, `middleware`, `asyncinvocation`, `api/auth`, `webui`, `wsproxy`, `httpproxy`, `sshproxy`, `posixws`, `api/app`, `api/job`, `api/functionsystem` | quotas, memory ledger, worker slots, login states, shared gRPC connections, channels | one handler each, with the goroutines it starts | order of data, status and close; counters on every return path |
| `etcd3` | watch revision, cache files, lock leases | list, watch, recover, flush, lock, keep alive | lost connections, lost answers, crashes between file operations |
| tables behind the watches: `functionmeta`, `functiontask`, `clusterhealth`, `remoteclientlease`, `datasystemclient`, `sessioncontext` | maps, clients, monitors, logs read in pages | events, look-ups, heartbeats, retries | stale reads, late answers, state kept by an OS thread |
| `kernelrpc`, `timewheel`, `loadbalance` | streams and pending calls, slots, rings | send, receive, repair; add, tick; add, remove, next | message objects from pools; unlocked wheel; collisions |

`invocation` calls `leaseadaptor` or, when no scheduler is reachable,
`instancemanager` and the pending queue; `leaseadaptor` asks `schedulerproxy`
for a scheduler and calls it over HTTP; the call itself goes through the proxy
client, which resolves the owner of the instance. The watchers hand etcd events
to all tables. `PROJECT.json` lists every part with its sources, the ones that
are not modelled too, and under `hazards` the places where things are hard to
test, with the properties that cover them.

## 2. The modules

Variables keep the names of the Go fields where they stand for one; the comment
at a definition names the function, and `map` in `PROJECT.json` its lines. A step
is what the code does under one hold of a lock, or one atomic access where there
is none, or what happens between two waits. Calls to other programs (schedulers,
proxies, etcd, the data system) end with any answer or failure. Operators marked
*Faulty variant* are plausible mistakes, used to see that each property can
fail; no specification uses them.

| Module | Models |
|---|---|
| `LeasePool` | one pool: acquire, release, the expiry loop of each lease cut at every atomic access, refused retentions, stop |
| `LeaseOwnership` | what a pool promises: a lease is issued, borrowed, back, and retired once |
| `LeasePoolProofs` | theorems about `LeasePool`, its refinement of `LeaseOwnership` among them |
| `FuncKeyLeasePools` | one function of a `Manager`: generations of the object, its pools, registries, background loop, retain calls |
| `FuncKeyLeasePoolsProofs` | theorems about it |
| `PendingQueue`, `PendingQueueProofs` | the pending queues of one function, and theorems |
| `SchedulerProxy`, `SchedulerProxyProofs` | scheduler events, map, ring, retries of an acquire, and theorems |
| `KernelInvoke` | one request: lease, call, retries, return of the lease, time budget |
| `SandboxRequest`, `Agent` | bodies of the sandbox and the agent API up to the create call |
| `SandboxCreate` | replay store, single flight, create, answer stream, and theorems |
| `SandboxRoutes` | observation record, route cache, read-through, reverse proxy, lifecycle handlers |
| `ProxyClient` | instance and endpoint watches, wake-ups, invoke, create and kill with retries |
| `InvokeChain`, `AsyncInvocation`, `RequestGate`, `LoginFlow` | middleware chain and memory ledger, asynchronous jobs, authentication and alias routing, OAuth login |
| `Terminal`, `Tunnels`, `SshProxy`, `PosixWs` | the relays |
| `AppJobs`, `RawHandlers` | job and raw function-system handlers |
| `EtcdWatch`, `EtcdCache`, `EtcdLock` | watch and recovery, cache files with crashes, lock with leases |
| `FunctionMeta`, `InstanceManager`, `NodeHealth`, `RemoteClientLease` | tables the watches fill |
| `DataSystemClient`, `DataSystemAccess`, `SessionContext` | data system clients and calls, session logs |
| `StreamConnection`, `StreamServer`, `TimeWheel`, `HashRings` | kernel RPC, timers, rings |
| `ComponentProofs` | theorems about `RemoteClientLease`, `EtcdLock`, `ProxyClient` and `Terminal` |
| `GoValues` | the value `None` for nil and unset, shared by modules checked together |
| `MC…` | instances for TLC |

Abstractions worth knowing:

* **Time** is a choice: a timer that runs may fire; a TTL is over when a step says
  so, or after a bounded number of ticks where two times are compared.
* **Go 1.23 timers**: `Reset` and `Stop` discard a tick already sent (`go.mod`
  declares 1.24.1).
* **Objects** that can be replaced (pools, function objects, inner maps, queues,
  monitors, streams) are numbered in the order of creation, so that a goroutine
  can go on with one that is no longer mapped.
* **Lease identifiers** are not reissued by the scheduler while the pool has
  anything to do with them.
* In `FuncKeyLeasePools` the inside of a pool is reduced to leases in use, idle
  and gone, which `LeasePool` justifies; a retain batch is one call per lease.
* In `SchedulerProxy` and `HashRings` the hash is any function.
* In `SandboxRequest` and `Agent` a text is a value with the attributes the code
  reacts to (spaces, upper case), a body a record; equality of digests is
  equality of the encoded values.
* In `EtcdWatch` an event is its revision.

## 3. The runs

| Run | Instance | Shows |
|---|---|---|
| `lease_pool` | 2 requests, 1 lease, 2 signatures | one user per lease; no release in use; sound reuse; exact in-flight count; idle leases go back; the pool implements `LeaseOwnership` |
| `func_key_lease_pools` | 2 requests, 1 lease of a session, 2 pools | no open pool outside the map, no lease that nobody returns, leases in use are retained |
| `ring_switch` (violation) | 1 request of a session | a refusal misses the pool after a ring switch |
| `pending_queue` | 2 requests, 2 queues, 2 updates | a request is answered at most once; a loop answers what it holds |
| `stranded_request` (violation) | 1 request | a request pushed into a destroyed queue is never answered |
| `scheduler_proxy` | 2 schedulers, 1 acquire, 2 attempts | no scheduler is asked twice unless it changed; acquires end |
| `api_translation` | some 10,000 pairs of sandbox bodies, 50 agent bodies, metadata in 2 versions | digests, budgets, ports, rules and environments keep the meaning of the body; `GET` shows what was created |
| `sandbox_create` | a create, its retry, a create of another tenant for the same name | no two creates of one name or one identity at a time; every call is answered |
| `instance_routing` | 2 generations of a sandbox, 2 proxies | published routes are current and converge; nothing runs twice; no wake-up is lost |
| `gateway` | 2 or 3 requests, sessions or calls per handler | the eight invariants of the handlers and relays |
| `routing_failure` (violation) | 1 request | a healthy instance loses its lease to a routing failure |
| `control_plane` | 1 or 2 of everything per component | the eleven invariants of the fourteen components behind the handlers |

**Several components in one run.** The components of `instance_routing`,
`api_translation`, `gateway` and `control_plane` share no variable. Their MC
module has a variable `part`, chosen initially, that says which component moves;
the others stay in their initial states. A conjunction of independent components
reaches exactly the states whose projections each component reaches, so an
invariant over the variables of one component holds of the composition exactly
when it holds while that component moves. Nothing is said about properties that
relate two of them.

**Bounds.** Two requests and one lease let a lease be in use, idle, expiring and
contended, and two signatures flush the idle list. Two pools or queues let a
goroutine work on an object that was replaced. Two retries, two proxies and two
generations let a failed one be followed by another. Bounds on events, objects,
revisions and ticks (`Max…`) are guards of the action that would exceed them and
are named in the `.cfg`. The passing pending-queue run stays below `Limit`;
beyond it the code answers a request and queues it as well (section 5).
`CHECK_DEADLOCK FALSE` stands where requests are used up or a function is deleted
for good, with a comment that says so.

**Fairness.** A goroutine that can move does: weak fairness of its steps. Go's
`select` picks among ready cases at random, so a case that is ready again and
again is taken: strong fairness of `TimerFires`, `StopSeen` and of a retain that
finds its scheduler. An invocation ends (it has a timeout), an HTTP call returns
or times out. Nothing is assumed of events, clients, cold starts or of the answers
of other programs. Only `LeasesGoBack`, `RetainedWhileInUse`,
`LoopAnswers`, `EveryRequestAnswered`, `AcquireEnds` and `EveryCallAnswered`
use it.

**Violations.** Each states what a test, comment or message of the repository
says; `findings` in `PROJECT.json` has the quotations.

## 4. The proofs

Checked by TLAPS 1.4.5 (Z3, Zenon, LS4), for every value of the constants that
satisfies the assumptions named in the modules; the bounds of the runs
(`MaxGens`, `MaxLockRev`, ...) are constants like any other. TLC evaluates the
assumptions in the runs.

**`LeasePoolProofs`**, assuming `NoLease` is no lease, a signature exists and the
requests are finite. Mutual exclusion is not inductive: nothing in it says why a
loop that claimed a lease does not meet a request. `Inv` adds who owns a lease at
which line of the handler (`HeldInv`), that the map has only live, issued leases
and only those can be available (`MapInv`), and what a loop may be doing to a
lease at each of its lines (`LoopInv`); `InFlightExact` is in it because the
counter would otherwise be free. From it follow the five properties of the run.
`IdleListCorrect` rests on a lemma about `DelByID` (one occurrence removed, the
others keep their order); `OwnerCorrect` and `BegunReleaseCorrect` on it and on
where the timer of a loop stands. `OwnershipCorrect` shows that the pool
implements `LeaseOwnership`: the state of a lease is computed from the flags,
and each action is shown to be a step of the abstract specification or a stutter.

**`FuncKeyLeasePoolsProofs`**, assuming bounds that are numbers, sessions that are
keys, and `NoL` no lease. `NoOrphanPool` needs that every object but the mapped
one is stopped (`GenInv`) and that a pool is entered under its own key in its own
object only (`PoolInv`); `NoStrandedLease` needs what a request works on between
its steps (`RequestInv`) and that registered leases belong to the pools of their
object (`ListInv`), which also gives `RegistrySound`.

**`PendingQueueProofs`**, assuming a label for each specification and bounds that
are numbers. `PlaceInv`: no request is at two places. `AnswerInv`: what is queued
waits and has no answer. Together they give `AnsweredOnce` *while queues stay
within `Limit`*: beyond it the code answers a request with an error and queues it
too (section 5), so the theorem has that premise, and `FewRequestsAnsweredOnce`
discharges it by counting when there are no more requests than `Limit`.
`MappedQueueRuns` needs that a queue is an entry of one inner map only, and what an
update in progress remembers.

**`SchedulerProxyProofs`**, assuming `MaxRetries > 0` and bounds that are numbers.
`PickInv` says why loading a node again by name after it was chosen is harmless: no
incarnation of the chosen scheduler, present or future, is one that failed. It
needs that instance IDs only grow (`IdInv`). The proof found that `updateTime`
of a node never leaves zero, because the loop that looks for the earliest lease
time starts from zero (section 5).

**`SandboxCreate`**, assuming distinct calls with a name, a tenant and a request
ID. `EntryInv` and `FlightInv` tie each of the two tables to the calls that own
an entry; `pruneLocked` drops no open one. `BeatInv` ties the heartbeat to the answer.

**`ComponentProofs`**:

* `RunningManagerUsed`: inductive with "a running manager is in use or in
  reserve". Assumes that `None` is no manager.
* `LockExclusive` needs four invariants: a lease has one process, every write has
  a revision of its own, holder keys are unique per key and lease, and the holder
  key of a process that has an identity, or was just told so, is the earliest
  (`FirstInv`). `MineIsFirst` says what the answer of the transaction is worth: the
  identity is the earliest key below itself and the next one is the process's own,
  so that no older holder exists. Assumes finitely many keys, each a prefix of
  itself.
* `NothingRunsTwice`: user code has not run while another attempt may follow, and
  no proxy has accepted a create while another may be chosen.
* `WatchesAreHeeded`: that a waiter looks and goes to sleep in one step makes the
  absence of lost wake-ups inductive; the newest event wins because revisions of
  deleted nodes are kept. Assumes finitely many proxies.
* `SharedConnStaysOpen`: the count of an entry is the number of its sessions,
  entries have connections of their own, and closed ones are in no entry. Assumes
  finitely many sessions.

**Only model-checked.** Liveness (`LeasesGoBack`, `RetainedWhileInUse`,
`LoopAnswers`, `AcquireEnds`, `EveryCallAnswered`): TLAPS does not reason about
fairness. `MemoryAccounted`: a sum over a set, which needs induction over
data. `SandboxBodyKeepsMeaning`, `AgentBodyKeepsMeaning`: functions of finite
data, enumerated. The other invariants of `instance_routing` (`RoutesSound`),
`gateway` and `control_plane` have no proof yet; nothing about them is known to be
out of reach.

## 5. Observations

The three runs that expect a violation are in `findings`. The following also came
up. Each is a definition of the module named that the model violates, or a remark
on the code; no run of the project claims them, since no doc, comment or
test of the repository says otherwise, or since the statement is ours.

* `leaseadaptor`: a request that waits for a pool may find it stopped by the
  clearing of empty pools and tries again (`FuncKeyLeasePools`,
  lease_manager.go:260).
* `wisecloud/queue.go:284`: a request beyond the limit is answered with an error
  and pushed all the same (`QueueBounded`).
* `schedulerproxy/schedulereventhandler.go:154`: the earliest time is looked for
  from zero, so a scheduler that renewed its lease after it failed an acquire is
  not eligible again (`RenewedIsEligible`).
* `InvokeChain`: a request that passed the check before the exit began goes on
  (`NothingAfterExit`, graceexit.go). `AsyncInvocation`: a result may be read
  between its two writes (`AnswerIsWhole`, storage.go:93); a panic before
  the goroutine starts keeps its slot (`SlotsReturned`, async_invoke.go:60-86).
* `SessionContext`: `HealthyLogIsAccepted` (aggregate.go:39-41). `FunctionMeta`:
  `CaeNeverOverwrites` (metadata.go:146), `DeletedResourceForgotten`
  (functioncr.go:283, 303). `InstanceManager`: `DeletionsHaveConfig`.
* `Terminal`: an end of input typed before the first size is replayed as data
  (`EofClosesStdin`, webterm.go:1047); after the wait for the size timed out every
  read fails (`DefaultSizeWorks`, :826); two goroutines may both close `done`
  (`DoneClosedOnce`, :920 and :1008).
* `LoginFlow`: `LeadsToOwnTarget`. `AppJobs`: a job may start between the check and
  the deletion (`DeleteSparesRunning`, api/app/handler.go:152). `Tunnels`: only the
  first request of a connection is rewritten (`RequestsAreRewritten`,
  httpproxy/handler.go:48-52). `SshProxy`: `CloseIsPassedOn` (server.go:297).
  `PosixWs`: `EveryMessageAnswered` (handler.go:241).
* `StreamConnection`: a message may be sent again after a repair (`SentOnce`);
  `StreamServer`: `AnswerIsAlwaysComputed` (:158-163), `StopReturns` (:145).
* `EtcdCache`: a failure between two file operations may lose the cache
  (`FaultIsHarmless`, cache.go:218-235). `EtcdLock`: while its lease is lost a process
  still believes to have the identity another has taken (`IdentityExclusive`); a
  failed transaction of a third process can refuse a free key (`FreeKeyIsTaken`).
* `TimeWheel`: `PeriodIsInterval`, `TimesAreKept`, `StopIsSafe` (no lock).
  `NodeHealth`: `BalancedAreListed` (functiontask.go:307), `ListedAreFound`
  (:116), `HealthyWasAsked` (clusterhealth.go:165-170).
* `KernelInvoke`: `NoLeaseLeft` (:268-274), `TimeLeftIsReal` (:349),
  `FailedIsAvoided` (:276-297), `ResourcesAgree` (:459-483).
* `SandboxCreate`: a call of another tenant joins the flight of a name
  (`ForeignFlightConflicts`, handler.go:514-545). `SandboxRoutes`:
  `SummaryConverges` (execendpoint/apply.go:86). `ProxyClient`: a hint can outlive
  its instance (`DeadUnroutable`, simple_runtime_proxy_client.go:744, 793).

## 6. What is not modelled

`PROJECT.json` gives the reason for each part with status `not_modelled`:
configuration, metrics, start-up, the SDK facade, stateless filters and
formatters, encryption and HTTP helpers. Within modelled parts, wording,
encodings and log lines are left out where no property is about them. What
schedulers, proxies, etcd, the data system and the kernel do is external: any
answer or failure in any order, as the code that calls them allows for.

## 7. Next

Proofs for `SandboxRoutes` (`RoutesSound`), `EtcdWatch` (`EtcdIsFollowed`),
`StreamServer` (`RpcAnsweredOnce`), `KernelInvoke` (`LeaseGoesBack`) and the relays,
in this order: each is a safety property with an invariant that TLC can be asked
about first.
