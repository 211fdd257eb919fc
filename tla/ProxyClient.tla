----------------------------- MODULE ProxyClient -----------------------------
(***************************************************************************)
(* The frontend's way to a FunctionProxy. Two watches feed it: the one on  *)
(* the instances fills instancemanager's maps, the one on the proxies'     *)
(* registrations fills proxyrouting's discovery cache. The direct proxy    *)
(* client (common/util) resolves the proxy that owns an instance and sends *)
(* invoke, create and kill to it, and invocation wraps the invoke in a     *)
(* lease and in the retries that are safe.                                 *)
(*                                                                         *)
(* One instance ID, one invoke, one create and one lifecycle request. The  *)
(* address of a proxy is its node ID. What the proxies and the kernel do   *)
(* is external.                                                            *)
(***************************************************************************)
EXTENDS Integers, Sequences, SequencesExt, FiniteSets, GoValues

CONSTANTS
    Proxies,        \* FunctionProxy nodes
    Volatile,       \* the nodes whose registration changes
    Signals,        \* lifecycle signals a caller may send
    MaxRetries,     \* maxInvokeRetries
    MaxKill,        \* frontendProxyKillMaxAttempts
    MaxWrites,      \* bound: etcd writes of the instance
    MaxRegs         \* bound: etcd writes of the registrations

ASSUME RetriesAssumption == MaxRetries \in Nat \ {0} /\ MaxKill \in Nat \ {0}
ASSUME ProxiesAssumption == IsFiniteSet(Proxies) /\ Volatile \subseteq Proxies

IMOwner == "InstanceManagerOwner"

VARIABLES
    ilog, ipos,     \* the instance's key in etcd: writes, and how many the watch handled
    spos,           \* how many of them the sandbox router's own watch handled
    notify,         \* an update changed the maps and has not notified the waiters yet
    wmap,           \* instancesMap: owner of the running instance, or None
    evicting,       \* evictingInstances: owner of the evicting instance, or None
    hint,           \* routeOnlyInstances: owner a response named, or None
    rlog, rpos,     \* the registrations in etcd: writes, and how many were delivered
    eps,            \* discovery: [Proxies -> capabilities of the endpoint, {} when absent]
    revisions,      \* discovery: [Proxies -> revision of the last event applied]
    order, next,    \* discovery: round robin
    suspect,        \* addresses not used until their time is over
    inv, cr, kl     \* the invoke, the create and the lifecycle request

instVars == <<ilog, ipos, spos, notify, wmap, evicting, hint>>
discVars == <<rlog, rpos, eps, revisions, order, next, suspect>>
proxyVars == <<instVars, discVars, inv, cr, kl>>

------------------------------------------------------------------------------
\* etcd, written by the kernel and the proxies

Write(st, o) == [st |-> st, owner |-> o]
Written == IF ilog = <<>> THEN Write("deleted", None) ELSE ilog[Len(ilog)]

KernelMove ==
    /\ Len(ilog) < MaxWrites /\ Written.st # "deleted"
    /\ \E w \in {Write("paused", IMOwner), Write("evicting", Written.owner),
                 Write("fatal", Written.owner), Write("deleted", None)}
                \union (IF Written.st = "paused" THEN {Write("running", p) : p \in Proxies} ELSE {}) :
         ilog' = Append(ilog, w)
    /\ UNCHANGED <<ipos, spos, notify, wmap, evicting, hint, discVars, inv, cr, kl>>

\* A proxy registers, reports itself unhealthy or drops its registration.
ProxyRegisters ==
    /\ Len(rlog) < MaxRegs
    /\ \E p \in Volatile, caps \in {{"invoke", "create", "kill"}, {}} :
         rlog' = Append(rlog, [node |-> p, caps |-> caps])
    /\ UNCHANGED <<instVars, rpos, eps, revisions, order, next, suspect, inv, cr, kl>>

------------------------------------------------------------------------------
\* instancemanager

\* The owner a lookup by instance ID finds: the watched map first, then the
\* route-only hint; an evicting instance only for a forced invoke.
Owner == IF wmap # None THEN wmap ELSE hint
OwnerOf(force) == IF Owner = None /\ force THEN evicting ELSE Owner

\* recordRouteOnlyInstance: nothing is stored without an owner.
Record(o) == IF o = None THEN hint ELSE o

\* ProcessInstanceUpdate and ProcessInstanceDelete, up to the call of
\* notifyInstanceUpdate. Only RUNNING instances stay in the scheduler's map.
Running(w) ==
    /\ wmap' = w.owner /\ evicting' = None /\ hint' = None
NotRunning(w) ==
    /\ wmap' = None
    /\ evicting' = IF w.st = "evicting" THEN w.owner ELSE None
    /\ hint' = IF w.st = "deleted" THEN None ELSE hint

SilentAdd(w) == w.st = "evicting" \/ wmap # None \/ evicting # None

\* An update of a function without instances finds nothing to delete.
Notifies(w) == w.st \in {"running", "evicting"} \/ wmap # None \/ evicting # None

WatchInstance ==
    /\ ~notify /\ ipos < Len(ilog)
    /\ LET w == ilog[ipos + 1]
       IN  /\ IF w.st = "running" THEN Running(w) ELSE NotRunning(w)
           /\ notify' = Notifies(w)
    /\ ipos' = ipos + 1
    /\ UNCHANGED <<ilog, spos, discVars, inv, cr, kl>>

\* notifyInstanceUpdate closes the channel every waiter holds.
Notify ==
    /\ notify
    /\ notify' = FALSE
    /\ inv' = [inv EXCEPT !.woken = (inv.pc = "blocked")]
    /\ UNCHANGED <<ilog, ipos, spos, wmap, evicting, hint, discVars, cr, kl>>

\* The sandbox router watches the same key on its own; its summary is what
\* tells a paused instance (IsPaused) and the node of one that is not routable.
WatchSummary ==
    /\ spos < Len(ilog)
    /\ spos' = spos + 1
    /\ UNCHANGED <<ilog, ipos, notify, wmap, evicting, hint, discVars, inv, cr, kl>>

\* The summary of a failed instance outlives its key; an evicting one has none.
Summary ==
    LET failed == spos > 1 /\ ilog[spos].st = "deleted" /\ ilog[spos - 1].st = "fatal"
    IN  IF failed THEN ilog[spos - 1]
        ELSE IF spos = 0 \/ ilog[spos].st = "evicting" THEN Write("deleted", None)
        ELSE ilog[spos]
Paused == Summary.st = "paused"

HintExpires ==
    /\ hint # None
    /\ hint' = None
    /\ UNCHANGED <<ilog, ipos, spos, notify, wmap, evicting, discVars, inv, cr, kl>>

------------------------------------------------------------------------------
\* proxyrouting

AnyRevision(p, rev) == TRUE
Newest(p, rev) == ~(revisions[p] > rev)

Upsert(p, caps, rev) ==
    IF ~Newest(p, rev) THEN UNCHANGED <<eps, revisions, order, next, suspect>>
    ELSE /\ eps' = [eps EXCEPT ![p] = caps]
         /\ revisions' = [revisions EXCEPT ![p] = rev]
         /\ order' = IF eps[p] = {} THEN Append(order, p) ELSE order
         /\ UNCHANGED <<next, suspect>>

Delete(p, rev) ==
    IF ~Newest(p, rev) THEN UNCHANGED <<eps, revisions, order, next, suspect>>
    ELSE /\ revisions' = [revisions EXCEPT ![p] = rev]
         /\ eps' = [eps EXCEPT ![p] = {}]
         /\ IF eps[p] = {} THEN UNCHANGED <<order, next, suspect>>
            ELSE /\ suspect' = suspect \ {p}
                 /\ order' = SelectSeq(order, LAMBDA q : q # p)
                 /\ next' = IF order' = <<>> THEN 0 ELSE next % Len(order')

\* frontendProxyEndpointHandler. A registration without health or
\* capabilities deletes the endpoint.
HandleRegistration(r) ==
    LET e == rlog[r]
    IN  IF e.caps = {} THEN Delete(e.node, r) ELSE Upsert(e.node, e.caps, r)

WatchRegistration ==
    /\ rpos < Len(rlog)
    /\ HandleRegistration(rpos + 1)
    /\ rpos' = rpos + 1
    /\ UNCHANGED <<instVars, rlog, inv, cr, kl>>

\* After a watch was created again, EtcdHistory delivers events from the last
\* revision on ahead of the watch, and the watch delivers old ones again.
ReplayRegistration ==
    /\ \E r \in 1..Len(rlog) : HandleRegistration(r)
    /\ UNCHANGED <<instVars, rlog, rpos, inv, cr, kl>>

SuspectExpires ==
    /\ \E p \in suspect : suspect' = suspect \ {p}
    /\ UNCHANGED <<instVars, rlog, rpos, eps, revisions, order, next, inv, cr, kl>>

\* GetByNode / Lookup.
Routable(p, cap) == p \in Proxies /\ cap \in eps[p] /\ p \notin suspect

\* GetNext: the round robin skips what cannot serve; every entry it looks at
\* moves it on, also when none serves.
Skips(cap, excluded) ==
    LET at(k) == order[((next + k - 1) % Len(order)) + 1]
        good(k) == cap \in eps[at(k)] /\ at(k) \notin excluded \union suspect
        ks == {k \in 1..Len(order) : good(k)}
    IN  IF ks = {} THEN [p |-> None, n |-> Len(order)]
        ELSE LET k == CHOOSE m \in ks : \A j \in ks : m <= j IN [p |-> at(k), n |-> k]

\* The counter only matters modulo the length of the order.
Advanced(n) == IF order = <<>> THEN next ELSE (next + n) % Len(order)

\* evictFrontendProxyClientOnError for a transport error; the connection it
\* closes is made again by the next ClientForAddress.
Evict(p) == suspect' = suspect \union {p}

------------------------------------------------------------------------------
\* The wire. A request is delivered or not, and its answer arrives or not;
\* the proxy tells a request that was not dispatched apart ("stale",
\* "unwired"), and otherwise may have executed it. "failed" stands for
\* business errors, statuses without a reason to retry, answers that cannot be
\* decoded, and a deadline that passed.
Answers == {"ok", "failed", "communication", "stale", "unwired", "unavailable"}

\* Answers after which the request may have been executed, and answers that
\* say that it was not.
Refused == {"stale", "unwired"}
MayHaveRun == Answers \ Refused

\* isFrontendProxyTransportError.
Transport(a) == a = "unavailable"

\* DirectProxyErrorMetadata.Retryable of a failed invoke. Errors of the call
\* itself and of its decoding are post-dispatch; status errors carry what the
\* proxy says; business errors do not retry.
RetryFailed(a) == a \in Refused \union {"failed"}
Retryable(a) == a \in Refused

------------------------------------------------------------------------------
\* The invoke: doInvokeWithRetry, kernelRequestHandler and the direct client

NoInv == [pc |-> "idle", tries |-> 0, force |-> FALSE, woken |-> FALSE,
          owner |-> None, addr |-> None, runs |-> 0, resp |-> None]

InvVars == <<instVars, discVars, cr, kl>>

\* util.Retry: a failed attempt is made again while it asks for it.
Attempted(i, again, resp) ==
    IF again /\ i.tries < MaxRetries
    THEN [NoInv EXCEPT !.pc = "start", !.tries = i.tries, !.runs = i.runs]
    ELSE [NoInv EXCEPT !.pc = "done", !.runs = i.runs, !.resp = resp]

\* createKernelRequestHandler and makeReq: the instance of a lease (LeasePool
\* models the lease), or without a scheduler any instance of the map. A failed
\* acquire or conversion ends the request. The time left is computed from the
\* start of this attempt: every attempt waits for a route as long as the first.
StartAttempt ==
    /\ inv.pc \in {"idle", "start"}
    /\ LET i == [inv EXCEPT !.pc = "wait", !.tries = @ + 1]
       IN  \/ \E f \in BOOLEAN : inv' = [i EXCEPT !.force = f]
           \/ inv' = Attempted(i, FALSE, "error")
    /\ UNCHANGED InvVars

\* waitInstanceByID looks and takes the channel under instanceUpdates' lock.
WaitInstance ==
    /\ inv.pc = "wait" \/ (inv.pc = "blocked" /\ inv.woken)
    /\ inv' = IF OwnerOf(inv.force) = None
              THEN [inv EXCEPT !.pc = "blocked", !.woken = FALSE]
              ELSE [inv EXCEPT !.pc = "poll", !.woken = FALSE, !.owner = OwnerOf(inv.force)]
    /\ UNCHANGED InvVars

\* wait: the owner it knows is polled; every tick takes a newer one.
Poll ==
    /\ inv.pc = "poll"
    /\ inv' = IF Routable(inv.owner, "invoke") THEN [inv EXCEPT !.pc = "send", !.addr = inv.owner]
              ELSE IF OwnerOf(inv.force) # None THEN [inv EXCEPT !.owner = OwnerOf(inv.force)]
              ELSE inv
    /\ UNCHANGED InvVars

\* The routing context ends: a pre-dispatch error.
RouteTimeout ==
    /\ inv.pc \in {"wait", "blocked", "poll"}
    /\ inv' = Attempted(inv, TRUE, "error")
    /\ UNCHANGED InvVars

\* ClientForAddress, which may fail before anything is sent, and the call.
SendInvoke ==
    /\ inv.pc = "send"
    /\ inv' \in {Attempted(inv, TRUE, "error"), [inv EXCEPT !.pc = "sent"]}
    /\ UNCHANGED InvVars

\* The answer: the client is evicted on a transport error, and
\* handleInvokeError decides.
InvokeAnswer ==
    /\ inv.pc = "sent"
    /\ \E a \in Answers, ran \in BOOLEAN :
         /\ ran => a \in MayHaveRun
         /\ a = "ok" => ran
         /\ LET i == [inv EXCEPT !.runs = @ + (IF ran THEN 1 ELSE 0)]
            IN  inv' = Attempted(i, a # "ok" /\ Retryable(a), IF a = "ok" THEN "ok" ELSE "error")
         /\ IF Transport(a) THEN Evict(inv.addr) ELSE UNCHANGED suspect
    /\ UNCHANGED <<instVars, rlog, rpos, eps, revisions, order, next, cr, kl>>

------------------------------------------------------------------------------
\* The create: CreateInstance and CreateInstanceRaw of the routing client

NoCr == [pc |-> "idle", tried |-> {}, addr |-> None, accepted |-> {}, resp |-> None]

Created(c, resp) == [NoCr EXCEPT !.pc = "done", !.accepted = c.accepted, !.resp = resp]

CrVars == <<ilog, ipos, spos, notify, wmap, evicting, rlog, rpos, eps, revisions, order, inv, kl>>

SelectCreate ==
    /\ cr.pc = "idle" \/ cr.pc = "select"
    /\ LET s == Skips("create", cr.tried)
       IN  /\ next' = Advanced(s.n)
           /\ IF s.p = None THEN cr' = Created(cr, "error")
              ELSE \/ cr' = [cr EXCEPT !.pc = "sent", !.tried = @ \union {s.p}, !.addr = s.p]
                   \/ cr' = [cr EXCEPT !.pc = "select", !.tried = @ \union {s.p}]
    /\ UNCHANGED <<CrVars, suspect, hint>>

\* The proxy starts the instance on some node before it answers.
AcceptCreate ==
    /\ cr.pc = "sent" /\ cr.addr \notin cr.accepted /\ Len(ilog) < MaxWrites
    /\ cr' = [cr EXCEPT !.accepted = @ \union {cr.addr}]
    /\ \E p \in Proxies : ilog' = Append(ilog, Write("running", p))
    /\ UNCHANGED <<ipos, spos, notify, wmap, evicting, hint, discVars, inv, kl>>

\* Only a proxy that says its control path is not wired sends the create on.
TryNextOnTransport(a) == a = "unwired" \/ Transport(a)
TryNext(a) == a = "unwired"

CreateAnswer ==
    /\ cr.pc = "sent"
    /\ \E a \in Answers, o \in Proxies \union {None} :
         /\ a = "ok" => cr.addr \in cr.accepted
         /\ a \in Refused => cr.addr \notin cr.accepted
         /\ hint' = IF a = "ok" THEN Record(o) ELSE hint
         /\ cr' = IF a = "ok" THEN Created(cr, "ok")
                  ELSE IF TryNext(a) THEN [cr EXCEPT !.pc = "select"]
                  ELSE Created(cr, "error")
         /\ IF Transport(a) THEN Evict(cr.addr) ELSE UNCHANGED suspect
    /\ UNCHANGED <<CrVars, next>>

------------------------------------------------------------------------------
\* Kill, pause and resume: KillInstanceWithResponse of the routing client

NoKl == [pc |-> "idle", sig |-> None, n |-> 0, paused |-> FALSE, tried |-> {}, addr |-> None]

KlVars == <<ilog, ipos, spos, notify, wmap, evicting, rlog, rpos, eps, revisions, order, inv, cr>>

\* The caller knows the instance once its create was answered.
StartKill ==
    /\ kl.pc = "idle" /\ cr.pc = "done"
    /\ \E s \in Signals : kl' = [kl EXCEPT !.pc = "resolve", !.sig = s]
    /\ UNCHANGED <<KlVars, next, suspect, hint>>

\* resolveKillAddress: a paused instance has no owner and any gateway serves
\* it; otherwise its owner, or the node the summary still names.
KillAddress(paused) ==
    IF paused THEN Skips("kill", kl.tried).p
    ELSE IF Routable(Owner, "kill") THEN Owner
    ELSE IF Routable(Summary.owner, "kill") THEN Summary.owner ELSE None

Again(k) == k.n + 1 < MaxKill
Retry(k) == [k EXCEPT !.pc = "resolve", !.n = @ + 1, !.addr = None]
Ended(k) == [NoKl EXCEPT !.pc = "done"]

ResolveKill ==
    /\ kl.pc = "resolve"
    /\ LET a == KillAddress(Paused)
           k == [kl EXCEPT !.paused = Paused, !.tried = @ \union {a}]
       IN  /\ next' = IF Paused THEN Advanced(Skips("kill", kl.tried).n) ELSE next
           /\ \/ a = None /\ kl' = Ended(kl)
              \/ a # None /\ kl' = IF Paused /\ Again(kl) THEN Retry(k) ELSE Ended(k)
              \/ a # None /\ kl' = [k EXCEPT !.pc = "sent", !.addr = a]
    /\ UNCHANGED <<KlVars, suspect, hint>>

\* What a successful signal leaves as the hint; resume names the new owner.
HintAfter(sig, started) ==
    CASE sig = "pause" -> IMOwner [] sig = "resume" -> started [] OTHER -> None

KillAnswer ==
    /\ kl.pc = "sent"
    /\ \E a \in Answers, started \in Proxies :
         /\ hint' = IF a = "ok" THEN HintAfter(kl.sig, started)
                    ELSE IF a = "stale" /\ ~kl.paused THEN None ELSE hint
         /\ kl' = IF \/ a = "communication" /\ kl.paused /\ Again(kl)
                     \/ a = "stale" /\ Again(kl)
                  THEN Retry(kl) ELSE Ended(kl)
         /\ IF Transport(a) THEN Evict(kl.addr) ELSE UNCHANGED suspect
    /\ UNCHANGED <<KlVars, next>>

------------------------------------------------------------------------------
\* The registrations present at the start were listed before requests arrive.
ProxyInit ==
    /\ ilog = <<>> /\ ipos = 0 /\ spos = 0 /\ notify = FALSE
    /\ wmap = None /\ evicting = None /\ hint = None
    /\ rlog = SetToSeq({[node |-> p, caps |-> {"invoke", "create", "kill"}] : p \in Proxies})
    /\ rpos = Len(rlog)
    /\ eps = [p \in Proxies |-> {"invoke", "create", "kill"}]
    /\ revisions = [p \in Proxies |-> CHOOSE r \in 1..rpos : rlog[r].node = p]
    /\ order = [r \in 1..rpos |-> rlog[r].node] /\ next = 0 /\ suspect = {}
    /\ inv = NoInv /\ cr = NoCr /\ kl = NoKl

ProxyNext ==
    \/ KernelMove \/ ProxyRegisters
    \/ WatchInstance \/ Notify \/ WatchSummary \/ HintExpires
    \/ WatchRegistration \/ ReplayRegistration \/ SuspectExpires
    \/ StartAttempt \/ WaitInstance \/ Poll \/ RouteTimeout \/ SendInvoke \/ InvokeAnswer
    \/ SelectCreate \/ AcceptCreate \/ CreateAnswer
    \/ StartKill \/ ResolveKill \/ KillAnswer

ProxySpec == ProxyInit /\ [][ProxyNext]_proxyVars

------------------------------------------------------------------------------
\* Properties

\* The user's code runs at most once for a request, whatever is retried: an
\* attempt is repeated only when the call was not dispatched
\* (DirectProxyErrorMetadata.Retryable, canRetryBeforeDispatch).
AtMostOnce == inv.runs <= 1

\* A create goes on to the next proxy only when no proxy can have accepted it
\* (isFrontendProxyCreatePreDispatchStatus), so it starts at most one instance.
CreateAtMostOnce == Cardinality(cr.accepted) <= 1

\* waitInstanceByID cannot sleep through the update it waits for: while the
\* watched maps hold the instance a sleeping waiter has been woken, or the
\* update that added it is about to notify.
NoLostWakeup ==
    inv.pc = "blocked" /\ ~inv.woken /\ (wmap # None \/ (inv.force /\ evicting # None)) => notify

\* Whatever the watch replays, the endpoint of a proxy is the one of its
\* newest event (MemoryDiscovery's revisions, kept for deleted nodes too).
EndpointNewest ==
    \A p \in Proxies :
        /\ eps[p] = IF revisions[p] = 0 THEN {} ELSE rlog[revisions[p]].caps
        /\ \A r \in 1..rpos : rlog[r].node = p => r <= revisions[p]

\* Neither an invocation nor a create is carried out twice, whatever is retried and wherever.
NothingRunsTwice == AtMostOnce /\ CreateAtMostOnce

\* What the two watches report is neither slept through nor undone by a replay.
WatchesAreHeeded == NoLostWakeup /\ EndpointNewest

\* "Dead instances remain unroutable for invocation": once the watch has
\* handled the write of a state without a runtime, no lookup finds an owner.
DeadUnroutable ==
    ipos = Len(ilog) /\ ~notify /\ Written.st = "fatal" => Owner = None
==============================================================================
