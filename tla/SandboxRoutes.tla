---------------------------- MODULE SandboxRoutes ----------------------------
(***************************************************************************)
(* The sandbox router's view of one sandbox identity: the watch on         *)
(* /sn/instance and the bounded etcd read-through that feed the observation *)
(* record, the route cache and the exec-endpoint store                     *)
(* (sandboxrouter/resolver, route, execendpoint), the reverse proxy that   *)
(* resolves and authorises a request against them (sandboxrouter/proxy),   *)
(* and the lifecycle handlers of api/sandbox that touch the same store.    *)
(*                                                                         *)
(* An identity lives through generations: each has an instance key of its  *)
(* own (the key holds the request ID of the create) and one owner tenant.  *)
(* The raw identity equals its sanitized form.                             *)
(***************************************************************************)
EXTENDS Integers, Sequences, FiniteSetsExt, GoValues

CONSTANTS
    Gens,           \* generations of the identity, 1..n in order of creation
    Tenant,         \* [Gens -> tenants], the owner of each generation
    PortForward,    \* [Gens -> Seq of entries], extensions["portForward"]
    Statuses,       \* the instance states the kernel may write
    Clients,        \* requests that reach the router
    Asks,           \* what a request may ask: [port, source, tenant]
    Ops,            \* lifecycle operations a caller may send
    RRTPort,        \* the control port
    MaxRev          \* bound: etcd revisions

ASSUME GensAssumption == Gens \subseteq Nat \ {0}

VARIABLES
    rev,        \* etcd: the current revision
    log,        \* etcd: the events of this identity, in the watch's order
    pos,        \* how many of them the watch has handed to applyEvent
    floor,      \* no etcd member answers a read below this revision
    obs,        \* the resolver's observation of the identity, or None
    routes,     \* route.Cache: container port -> target
    summary,    \* execendpoint.Store.summaries, or None
    endpoint,   \* execendpoint.Store.m, or None
    call,       \* readThroughGroup.calls: the coalesced read, or None
    req,        \* [Clients -> the request's progress]
    op          \* the lifecycle operation in progress, or None

routingVars == <<rev, log, pos, floor, obs, routes, summary, endpoint, call, req, op>>
etcdVars == <<rev, log>>
storeVars == <<obs, routes, summary, endpoint>>

------------------------------------------------------------------------------
\* etcd and the kernel that writes it

\* The instance and route records of one write.
Info(g, v, st, rt) == [gen |-> g, ver |-> v, status |-> st, runtime |-> rt]

PutEvent(r, info) == [rev |-> r, kind |-> "put", info |-> info]
DelEvent(r, info) == [rev |-> r, kind |-> "del", info |-> info]

\* What the identity's route key holds at revision r, or None. A put writes
\* the instance key of its generation and the route key in one transaction.
RouteAt(r) ==
    LET puts == {i \in DOMAIN log : log[i].rev <= r /\ log[i].kind = "put"}
        last == Max(puts)
    IN  IF \/ puts = {}
           \/ \E j \in DOMAIN log : /\ log[j].rev <= r /\ log[j].kind = "del"
                                    /\ log[j].info.gen = log[last].info.gen
        THEN None ELSE log[last].info

Current == RouteAt(rev)

UsedGens == {log[i].info.gen : i \in DOMAIN log}

\* The kernel moves the live generation to another state; reaching RUNNING
\* from a state without a runtime starts a new one.
Advance(info, st) ==
    Info(info.gen, info.ver + 1, st,
         IF st = "running" /\ info.status # "running" THEN info.runtime + 1 ELSE info.runtime)

WriteState(st) ==
    /\ Current # None
    /\ rev' = rev + 1
    /\ log' = Append(log, PutEvent(rev + 1, Advance(Current, st)))

WriteDelete ==
    /\ Current # None
    /\ rev' = rev + 1
    /\ log' = Append(log, DelEvent(rev + 1, Current))

KernelWrite ==
    /\ rev < MaxRev
    /\ \E st \in Statuses : WriteState(st)
    /\ UNCHANGED <<pos, floor, obs, routes, summary, endpoint, call, req, op>>

KernelDelete ==
    /\ rev < MaxRev
    /\ WriteDelete
    /\ UNCHANGED <<pos, floor, obs, routes, summary, endpoint, call, req, op>>

\* A create: the first put of the next generation. One that replaces a live
\* generation deletes the old key in the same transaction; the watch reports
\* the two keys of a transaction in either order.
KernelCreate ==
    /\ rev < MaxRev
    /\ \E g \in Gens \ UsedGens, st \in Statuses :
         /\ \A h \in UsedGens : h < g
         /\ rev' = rev + 1
         /\ LET put == PutEvent(rev + 1, Info(g, 1, st, 1))
                del == DelEvent(rev + 1, Current)
            IN  log' \in IF Current = None THEN {Append(log, put)}
                         ELSE {log \o <<put, del>>, log \o <<del, put>>}
    /\ UNCHANGED <<pos, floor, obs, routes, summary, endpoint, call, req, op>>

\* A write to a key of another identity.
OtherWrite ==
    /\ rev < MaxRev
    /\ rev' = rev + 1
    /\ UNCHANGED <<log, pos, floor, obs, routes, summary, endpoint, call, req, op>>

------------------------------------------------------------------------------
\* The stores

FailureStates == {"failed", "fatal", "schedule_failed"}
CacheableStates == {"scheduling", "creating", "running", "sub_health", "paused"} \union FailureStates

FailureFor(info) == info.status \in FailureStates

InstKey(g) == <<"instance", g>>
RouteKey == <<"route">>

\* The records of an instance, and what may be observed of it; neither is Go's nil.
Infos == [gen : Gens, ver : Nat, status : Statuses \union {"running", "paused"}, runtime : Nat]
Observations == [info : Infos, key : {RouteKey} \union {InstKey(g) : g \in Gens}, rev : Nat, deleted : BOOLEAN]

ASSUME RecordAssumption == None \notin Infos \union Observations

\* The scheme of a port-forward entry's protocol token, or None. Legacy
\* transport tokens default to HTTP.
HTTPTokens == {"http", "tcp", "direct", "tunnel", "direct+http", "tunnel+http", "public+http"}
HTTPSTokens == {"https", "direct+https", "tunnel+https", "public+https"}

BackendScheme(token) ==
    IF token \in HTTPTokens THEN "http"
    ELSE IF token \in HTTPSTokens THEN "https" ELSE None

\* Entries that do not parse are skipped, later entries for a port win.
ComputeRoutes(info) ==
    LET pf == PortForward[info.gen]
        good == {i \in DOMAIN pf : /\ pf[i].host # 0 /\ pf[i].container # 0
                                   /\ BackendScheme(pf[i].token) # None}
        at(p) == Max({i \in good : pf[i].container = p})
    IN  [p \in {pf[i].container : i \in good} |->
            [host |-> pf[at(p)].host, scheme |-> BackendScheme(pf[at(p)].token),
             gen |-> info.gen, ver |-> info.ver, runtime |-> info.runtime,
             tenant |-> Tenant[info.gen]]]

NoRoutes == [p \in {} |-> None]

\* route.ApplyInstanceEvent for a PUT.
RoutesOf(info) == IF info.status = "running" THEN ComputeRoutes(info) ELSE NoRoutes

\* execendpoint.ApplyInstanceEvent for a PUT: the summary and the endpoint.
SummaryOf(info) ==
    IF info.status \in CacheableStates
    THEN [gen |-> info.gen, status |-> info.status, tenant |-> Tenant[info.gen]]
    ELSE None

EndpointOf(info) ==
    IF info.status \in CacheableStates \ (FailureStates \union {"paused"})
    THEN [gen |-> info.gen, runtime |-> info.runtime]
    ELSE None

\* Fault: putLocked drops every record of the revision it already has.
EqualRevisionIsStale(key, info, r) ==
    /\ obs # None
    /\ \/ r <= obs.rev
       \/ obs.key = key /\ info.ver < obs.info.ver

\* Fault: putLocked orders by version within a key and not by revision.
VersionOrderOnly(key, info, r) ==
    obs # None /\ obs.key = key /\ info.ver < obs.info.ver

\* Whether putLocked drops a record of revision r for the key.
StalePut(key, info, r) ==
    /\ obs # None
    /\ \/ r < obs.rev
       \/ r = obs.rev /\ (obs.key = key \/ ~obs.deleted)
       \/ obs.key = key /\ info.ver < obs.info.ver

PutLocked(key, info, r) ==
    IF StalePut(key, info, r)
    THEN UNCHANGED storeVars
    ELSE /\ obs' = [info |-> info, key |-> key, rev |-> r, deleted |-> FALSE]
         /\ routes' = RoutesOf(info)
         /\ summary' = SummaryOf(info)
         /\ endpoint' = EndpointOf(info)

\* Whether deleteLocked drops a deletion.
StaleDelete(key, r) == obs # None /\ (obs.key # key \/ r <= obs.rev)

\* prev is the event's previous value, which names an unobserved instance.
DeleteLocked(key, prev, r) ==
    IF StaleDelete(key, r)
    THEN UNCHANGED storeVars
    ELSE LET info == IF obs = None THEN prev ELSE obs.info
         IN  /\ obs' = [info |-> info, key |-> key, rev |-> r, deleted |-> TRUE]
             /\ routes' = NoRoutes
             /\ endpoint' = None
             /\ summary' = IF FailureFor(info) THEN summary ELSE None

\* applyEvent: the next event of the watch.
ApplyEvent ==
    /\ pos < Len(log)
    /\ pos' = pos + 1
    /\ LET e == log[pos + 1]
       IN  IF e.kind = "put" THEN PutLocked(InstKey(e.info.gen), e.info, e.rev)
           ELSE DeleteLocked(InstKey(e.info.gen), e.info, e.rev)
    /\ UNCHANGED <<rev, log, floor, call, req, op>>

\* pruneLocked and enforceRetentionLimitLocked. The retention is ten minutes
\* and 4096 records, a read lasts half a second: by then the watch and every
\* member have passed the deletion and no read of before it is in flight.
RemoveObservation ==
    /\ obs # None /\ obs.deleted
    /\ call = None
    /\ pos = Len(log)
    /\ floor' = obs.rev
    /\ obs' = None
    /\ routes' = NoRoutes
    /\ summary' = None /\ endpoint' = None
    /\ UNCHANGED <<rev, log, pos, call, req, op>>

------------------------------------------------------------------------------
\* A request through the proxy

Idle == [phase |-> "idle", ask |-> None, target |-> None, answer |-> None, about |-> None]

Answer(r, code, gen) ==
    [r EXCEPT !.phase = "done", !.target = None, !.answer = code, !.about = gen]

IsControlPort(port) == port = RRTPort
FrontendAuthenticated(ask) == ask.source = "frontend"
AuthRequired(ask) == IsControlPort(ask.port) /\ ~FrontendAuthenticated(ask)
AuthorizationRequired(ask) ==
    AuthRequired(ask) \/ (FrontendAuthenticated(ask) /\ IsControlPort(ask.port))

Authorized(tenant, owner) == tenant # None /\ tenant = owner

\* Fault: the failure of a control port request is written without the ownership
\* check.
FailureToAnyone(r, info) ==
    IF IsControlPort(r.ask.port) THEN Answer(r, "failure_detail", info.gen)
    ELSE Answer(r, "failure", info.gen)

\* writeInstanceFailure: details on the control port, for the owner only.
FailureAnswer(r, info) ==
    IF IsControlPort(r.ask.port)
    THEN IF Authorized(r.ask.tenant, Tenant[info.gen])
         THEN Answer(r, "failure_detail", info.gen)
         ELSE Answer(r, "forbidden", None)
    ELSE Answer(r, "failure", info.gen)

\* serveHTTP after Resolve returned a target.
Dispatch(r, target) ==
    IF AuthorizationRequired(r.ask) /\ ~Authorized(r.ask.tenant, target.tenant)
    THEN Answer(r, "forbidden", None)
    ELSE [r EXCEPT !.phase = "proxied", !.target = target, !.about = target.gen]

\* resultLocked.
ResultLocked(r) ==
    CASE obs # None /\ FailureFor(obs.info) -> FailureAnswer(r, obs.info)
      [] obs # None /\ ~FailureFor(obs.info) /\ obs.deleted -> Answer(r, "not_found", None)
      [] obs # None /\ obs.info.status = "paused" /\ ~obs.deleted -> Answer(r, "paused", obs.info.gen)
      [] OTHER -> IF r.ask.port \in DOMAIN routes THEN Dispatch(r, routes[r.ask.port])
                  ELSE Answer(r, "not_found", None)

\* cachedTarget: whether the cache may answer without a read.
CachedTarget(port) ==
    /\ (obs = None \/ (obs.info.status = "running" /\ ~obs.deleted))
    /\ port \in DOMAIN routes

\* ServeHTTP up to the fast path. Authentication comes before resolution.
ServeHTTP(c) ==
    /\ req[c].phase = "idle"
    /\ \E ask \in Asks :
         LET r == [req[c] EXCEPT !.ask = ask]
         IN  req' = [req EXCEPT ![c] =
                IF AuthRequired(ask) /\ ask.tenant = None THEN Answer(r, "unauthorized", None)
                ELSE IF CachedTarget(ask.port) THEN Dispatch(r, routes[ask.port])
                ELSE [r EXCEPT !.phase = "reading"]]
    /\ UNCHANGED <<rev, log, pos, floor, storeVars, call, op>>

\* readThroughGroup.DoChan: the first caller starts the read, others join it;
\* a call that has closed but not yet left the table hands out its result.
DoChan(c) ==
    /\ req[c].phase = "reading"
    /\ IF call = None
       THEN call' = [phase |-> "recheck", port |-> req[c].ask.port,
                     snap |-> None, result |-> None, err |-> FALSE]
       ELSE UNCHANGED call
    /\ req' = [req EXCEPT ![c].phase =
          IF call # None /\ call.phase = "closed"
          THEN IF call.err THEN "failed" ELSE "read"
          ELSE "waiting"]
    /\ UNCHANGED <<rev, log, pos, floor, storeVars, op>>

\* The operation closes: every caller waiting on it has its outcome.
CloseCall(err) ==
    /\ call' = [call EXCEPT !.phase = "closed", !.snap = None, !.result = None, !.err = err]
    /\ req' = [c \in Clients |->
          IF req[c].phase = "waiting"
          THEN [req[c] EXCEPT !.phase = IF err THEN "failed" ELSE "read"]
          ELSE req[c]]

\* The leader's second look at the cache, then refreshInstance's copy of the
\* observations.
Recheck ==
    /\ call # None /\ call.phase = "recheck"
    /\ IF CachedTarget(call.port)
       THEN CloseCall(FALSE)
       ELSE /\ call' = [call EXCEPT !.phase = "snapshot", !.snap = obs]
            /\ UNCHANGED req
    /\ UNCHANGED <<rev, log, pos, floor, storeVars, op>>

\* A serializable read: any member may answer, at any revision it may be at.
ReadInstance ==
    /\ call # None /\ call.phase = "snapshot"
    /\ \E r \in floor..rev :
         call' = [call EXCEPT !.phase = "answered",
                              !.result = [rev |-> r, info |-> RouteAt(r)]]
    /\ UNCHANGED <<rev, log, pos, floor, storeVars, req, op>>

\* The read fails: no client, an error, the leader's context ended, or the
\* route and the instance record disagree.
ReadFails ==
    /\ call # None /\ call.phase = "snapshot"
    /\ CloseCall(TRUE)
    /\ UNCHANGED <<rev, log, pos, floor, storeVars, op>>

\* PAUSED is answered from the route record alone.
ReadKey(info) == IF info.status = "paused" THEN RouteKey ELSE InstKey(info.gen)

\* refreshInstance after the read: a concurrent update wins over it.
RefreshInstance ==
    /\ call # None /\ call.phase = "answered"
    /\ LET read == call.result
       IN  CASE call.snap # obs -> UNCHANGED storeVars
             [] call.snap = obs /\ read.info # None ->
                    PutLocked(ReadKey(read.info), read.info, read.rev)
             [] call.snap = obs /\ read.info = None /\ obs # None ->
                    DeleteLocked(obs.key, obs.info, read.rev)
             [] OTHER -> /\ routes' = NoRoutes /\ summary' = None /\ endpoint' = None
                         /\ UNCHANGED obs
    /\ CloseCall(FALSE)
    /\ UNCHANGED <<rev, log, pos, floor, op>>

\* The goroutine takes its call out of the table.
ForgetCall ==
    /\ call # None /\ call.phase = "closed"
    /\ call' = None
    /\ UNCHANGED <<rev, log, pos, floor, storeVars, req, op>>

\* Resolve returns, and serveHTTP answers or proxies.
ResolveReturns(c) ==
    /\ \/ /\ req[c].phase = "read"
          /\ req' = [req EXCEPT ![c] = ResultLocked(req[c])]
       \/ /\ req[c].phase \in {"failed", "waiting"}     \* the read or readCtx ended
          /\ req' = [req EXCEPT ![c] = Answer(req[c], "unavailable", None)]
    /\ UNCHANGED <<rev, log, pos, floor, storeVars, call, op>>

\* The backend answers, or the transport fails and handleProxyError looks for
\* a failure of the very runtime the request went to.
ProxyReturns(c) ==
    /\ req[c].phase = "proxied"
    /\ \/ req' = [req EXCEPT ![c] = Answer(@, "served", @.target.gen)]
       \/ LET t == req[c].target
              mine == /\ obs # None /\ FailureFor(obs.info)
                      /\ obs.info.gen = t.gen /\ obs.info.runtime = t.runtime
          IN  req' = [req EXCEPT ![c] =
                 IF mine THEN FailureAnswer(req[c], obs.info)
                 ELSE Answer(req[c], "bad_gateway", None)]
    /\ UNCHANGED <<rev, log, pos, floor, storeVars, call, op>>

\* The client takes its answer and sends its next request.
NextRequest(c) ==
    /\ req[c].phase = "done"
    /\ req' = [req EXCEPT ![c] = Idle]
    /\ UNCHANGED <<rev, log, pos, floor, storeVars, call, op>>

------------------------------------------------------------------------------
\* Lifecycle operations: pause, resume, reload and delete share
\* executeSandboxLifecycleKillWithTimeout.

\* The summary is read before the call and the ownership is checked on it.
LifecycleCall ==
    /\ op = None
    /\ \E kind \in Ops : op' = [kind |-> kind, phase |-> "sent",
                                      had |-> IF kind = "pause" THEN summary ELSE None]
    /\ UNCHANGED <<rev, log, pos, floor, storeVars, call, req>>

\* The kernel carries it out.
KernelExecutes ==
    /\ op # None /\ op.phase = "sent"
    /\ rev < MaxRev
    /\ CASE op.kind = "pause" -> Current # None /\ Current.status = "running" /\ WriteState("paused")
         [] op.kind = "resume" -> Current # None /\ Current.status = "paused" /\ WriteState("running")
         [] op.kind = "delete" -> WriteDelete
         [] OTHER -> Current # None /\ UNCHANGED etcdVars
    /\ op' = [op EXCEPT !.phase = "executed"]
    /\ UNCHANGED <<pos, floor, storeVars, call, req>>

\* A transport or business error: nothing is published.
LifecycleFails ==
    /\ op # None
    /\ op' = None
    /\ UNCHANGED <<rev, log, pos, floor, storeVars, call, req>>

\* PauseV1Handler publishes the paused summary it derived from the one it had
\* read before the call; the other handlers leave the store to the watch.
LifecycleReturns ==
    /\ op # None /\ op.phase = "executed"
    /\ IF op.kind = "pause" /\ op.had # None
       THEN /\ summary' = [op.had EXCEPT !.status = "paused"]
            /\ endpoint' = None
       ELSE UNCHANGED <<summary, endpoint>>
    /\ op' = None
    /\ UNCHANGED <<rev, log, pos, floor, obs, routes, call, req>>

------------------------------------------------------------------------------
RoutesInit ==
    /\ rev = 0 /\ log = <<>> /\ pos = 0 /\ floor = 0
    /\ obs = None /\ routes = NoRoutes /\ summary = None /\ endpoint = None
    /\ call = None
    /\ req = [c \in Clients |-> Idle]
    /\ op = None

RoutesNext ==
    \/ KernelWrite \/ KernelDelete \/ KernelCreate \/ OtherWrite
    \/ ApplyEvent \/ RemoveObservation
    \/ Recheck \/ ReadInstance \/ ReadFails \/ RefreshInstance \/ ForgetCall
    \/ \E c \in Clients : \/ ServeHTTP(c) \/ DoChan(c) \/ ResolveReturns(c)
                          \/ ProxyReturns(c) \/ NextRequest(c)
    \/ LifecycleCall \/ KernelExecutes \/ LifecycleFails \/ LifecycleReturns

RoutesSpec == RoutesInit /\ [][RoutesNext]_routingVars

------------------------------------------------------------------------------
Newer(a, b) == a.gen > b.gen \/ (a.gen = b.gen /\ a.ver > b.ver)

\* What the watch has reported is never undone: a cached route belongs to no
\* generation whose deletion applyEvent has seen and to no version older than
\* one it has seen, however late an etcd read of an older snapshot returns.
PublishedIsCurrent ==
    \A p \in DOMAIN routes : \A i \in 1..pos :
        /\ log[i].kind = "put" => ~Newer(log[i].info, routes[p])
        /\ log[i].kind = "del" => log[i].info.gen # routes[p].gen

\* Once the watch is drained and no read is in flight, the route cache holds
\* exactly the routes of the record etcd holds: nothing stale is left and a
\* running sandbox is reachable, whatever order reads and events came in.
RoutesConverge ==
    pos = Len(log) /\ call = None =>
        routes = IF Current = None THEN NoRoutes ELSE RoutesOf(Current)

\* Control-port traffic and the details of a failure reach only the tenant
\* that owns the generation they are about, also when the identity was taken
\* over by another tenant between the resolution and a failed round trip.
OwnerOnly ==
    \A c \in Clients :
        \/ req[c].phase \notin {"proxied", "done"} \/ req[c].about = None
        \/ ~IsControlPort(req[c].ask.port) \/ req[c].answer = "paused"
        \/ req[c].ask.tenant = Tenant[req[c].about]

\* All three: the cache follows the watch and what it answers stays with the owner.
RoutesSound == PublishedIsCurrent /\ RoutesConverge /\ OwnerOnly

\* DELETE removes the instance's endpoint and summary: once the watch is
\* drained and nothing is in flight, no summary but a failure's outlives the
\* instance.
SummaryConverges ==
    pos = Len(log) /\ call = None /\ op = None /\ Current = None =>
        summary = None \/ summary.status \in FailureStates

==============================================================================
