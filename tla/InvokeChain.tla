----------------------------- MODULE InvokeChain -----------------------------
(***************************************************************************)
(* The middleware chain every function invocation runs through:            *)
(* GraceExitFilter, BodySizeChecker, TrafficLimiter (the tenant's token     *)
(* bucket and the memory monitor) and RequestAuthCheck, in this order, then *)
(* the invocation; with the quota events that replace a tenant's limiter,   *)
(* the refresh of the memory estimate and the graceful shutdown that waits  *)
(* for the chain. Callers are the synchronous handler and the workers of    *)
(* AsyncInvocation. All requests are of one tenant.                         *)
(***************************************************************************)
EXTENDS GoValues, Integers, FiniteSets, FiniteSetsExt

CONSTANTS
    Requests,       \* invocation requests
    Func,           \* [Requests -> the function invoked]
    Want,           \* [Requests -> the memory TrafficLimiter asks for]
    BodyThreshold,  \* up to it the lower threshold is not applied
    High, Lower,    \* the memory thresholds
    Rss,            \* the values the cgroup parser may read
    DefaultQuota,   \* the quota of a tenant without a quota key
    Quotas,         \* the quotas etcd may hold
    MaxEvents       \* bound: quota events

ASSUME ThresholdAssumption == Lower <= High
ASSUME RequestsAssumption == IsFiniteSet(Requests)
ASSUME WantAssumption == Want \in [Requests -> Nat] /\ BodyThreshold \in Nat

VARIABLES
    flag,       \* graceExitFlag and the shutdown's progress
    count,      \* the wait group of GraceExitFilter
    used,       \* memMonitor.used
    total,      \* memMonitor.totalMemCnt
    fnMem,      \* memMonitor.functionMemMap: function -> bytes
    limiter,    \* the tenant's TenantInfo: [quota, tokens], or None
    etcdQuota,  \* the tenant's quota key in etcd, or None
    events,     \* quota events so far
    chain       \* [Requests -> where the request is in the chain]

chainVars == <<flag, count, used, total, fnMem, limiter, etcdQuota, events, chain>>
memVars == <<used, total, fnMem>>
quotaVars == <<limiter, etcdQuota, events>>

Funcs == {Func[r] : r \in Requests}

At(r, pc) == chain[r] = pc
Goto(r, pc) == chain' = [chain EXCEPT ![r] = pc]

------------------------------------------------------------------------------
\* The handler calls Invoker.Handle once the request is well formed.
Arrive(r, wellFormed) ==
    /\ At(r, "new") /\ flag # "exited"
    /\ Goto(r, IF wellFormed THEN "grace" ELSE "left")
    /\ UNCHANGED <<flag, count, memVars, quotaVars>>

\* GraceExitFilter reads the flag; the wait group is incremented after it.
Grace(r) ==
    /\ At(r, "grace")
    /\ Goto(r, IF flag = "up" THEN "count" ELSE "left")
    /\ UNCHANGED <<flag, count, memVars, quotaVars>>

\* Wg.Add(1), then BodySizeChecker; a refusal runs the deferred Wg.Done.
Count(r, tooLarge) ==
    /\ At(r, "count")
    /\ IF tooLarge THEN Goto(r, "left") /\ count' = count
       ELSE Goto(r, "limit") /\ count' = count + 1
    /\ UNCHANGED <<flag, memVars, quotaVars>>

\* The chain gives up before it holds memory.
Unwind(r) == Goto(r, "left") /\ count' = count - 1

NewLimiter(q) == [quota |-> q, tokens |-> q]

\* rate.Limiter.Allow on the limiter that is stored.
Allow(r, l) ==
    /\ limiter' = IF l.tokens > 0 THEN [l EXCEPT !.tokens = @ - 1] ELSE l
    /\ IF l.tokens > 0 THEN Goto(r, "high") /\ count' = count ELSE Unwind(r)

\* tenantTakeOneToken: a tenant without a limiter gets the default one in a
\* second step, whatever was stored in between.
TakeToken(r) ==
    /\ At(r, "limit")
    /\ IF limiter = None THEN Goto(r, "limitNew") /\ UNCHANGED <<limiter, count>>
       ELSE Allow(r, limiter)
    /\ UNCHANGED <<flag, memVars, etcdQuota, events>>

TakeFromNew(r) ==
    /\ At(r, "limitNew")
    /\ Allow(r, NewLimiter(DefaultQuota))
    /\ UNCHANGED <<flag, memVars, etcdQuota, events>>

\* The bucket is refilled as time passes.
Refill ==
    /\ limiter # None
    /\ limiter' = [limiter EXCEPT !.tokens = limiter.quota]
    /\ UNCHANGED <<flag, count, memVars, etcdQuota, events, chain>>

\* ProcessUpdate and ProcessDelete of the quota key: the limiter is made anew.
\* A delete leaves a tenant without a limiter alone.
QuotaEvent(q) ==
    /\ events < MaxEvents
    /\ events' = events + 1
    /\ etcdQuota' = q
    /\ limiter' = CASE q # None                     -> NewLimiter(q)
                    [] q = None /\ limiter = None   -> None
                    [] OTHER                        -> NewLimiter(DefaultQuota)
    /\ UNCHANGED <<flag, count, memVars, chain>>

\* memMonitor.Allow: the load and the compare-and-swap succeed together.
AllowHigh(r) ==
    /\ At(r, "high")
    /\ IF used > High \/ Want[r] > High - used
       THEN Unwind(r) /\ used' = used
       ELSE Goto(r, "low") /\ used' = used + Want[r] /\ count' = count
    /\ UNCHANGED <<flag, total, fnMem, quotaVars>>

\* Small requests are not accounted.
Accounted(r) == Want[r] > BodyThreshold

\* AllowByLowerThreshold's verdict: memory is plentiful, the function is new, or
\* it uses no more than the average.
Fair(f) ==
    \/ used <= Lower /\ total <= Lower
    \/ f \notin DOMAIN fnMem
    \/ fnMem[f] <= total \div Cardinality(DOMAIN fnMem)

Held(m, f) == IF f \in DOMAIN m THEN m[f] ELSE 0

\* mallocFunctionMem
Malloc(f, size) ==
    /\ total' = total + size
    /\ fnMem' = [g \in DOMAIN fnMem \union {f} |-> IF g = f THEN Held(fnMem, f) + size ELSE fnMem[g]]

AllowLow(r) ==
    /\ At(r, "low")
    /\ CASE ~Accounted(r)           -> Goto(r, "auth") /\ UNCHANGED <<total, fnMem, count>>
         [] Accounted(r) /\ Fair(Func[r])
                -> Malloc(Func[r], Want[r]) /\ Goto(r, "auth") /\ count' = count
         [] OTHER                   -> Unwind(r) /\ UNCHANGED <<total, fnMem>>
    /\ UNCHANGED <<flag, used, quotaVars>>

\* ReleaseFunctionMem, deferred by TrafficLimiter. A function whose last request
\* it is leaves the map.
FreeBelow(f, size) == IF Held(fnMem, f) < size THEN {} ELSE {f}
FreeLess(f, size) == IF Held(fnMem, f) <= size THEN {} ELSE {f}

Release(r) ==
    LET f == Func[r]  keep == (DOMAIN fnMem \ {f}) \union FreeLess(f, Want[r]) IN
    IF ~Accounted(r) \/ f \notin DOMAIN fnMem THEN UNCHANGED <<total, fnMem>>
    ELSE /\ total' = IF total < Want[r] THEN 0 ELSE total - Want[r]
         /\ fnMem' = [g \in keep |-> IF g = f THEN fnMem[g] - Want[r] ELSE fnMem[g]]

\* RequestAuthCheck; a refusal unwinds through the deferred calls.
AuthCheck(r, ok) ==
    /\ At(r, "auth")
    /\ IF ok THEN Goto(r, "invoke") /\ UNCHANGED <<total, fnMem, count>>
       ELSE Goto(r, "left") /\ Release(r) /\ count' = count - 1
    /\ UNCHANGED <<flag, used, quotaVars>>

\* The invocation returns, or panics: the deferred calls run either way.
Invoked(r) ==
    /\ At(r, "invoke")
    /\ Goto(r, "left") /\ Release(r) /\ count' = count - 1
    /\ UNCHANGED <<flag, used, quotaVars>>

\* refreshActualMemoryUsage overwrites the estimate with the cgroup's number.
Refresh(u) ==
    /\ used' = u
    /\ UNCHANGED <<flag, count, total, fnMem, quotaVars, chain>>

------------------------------------------------------------------------------
\* GracefulShutdown and GraceExit

BeginExit ==
    /\ flag = "up"
    /\ flag' = "exiting"
    /\ UNCHANGED <<count, memVars, quotaVars, chain>>

\* Wg.Wait returns, then the server is shut down.
EndExit ==
    /\ flag = "exiting" /\ count = 0
    /\ flag' = "exited"
    /\ UNCHANGED <<count, memVars, quotaVars, chain>>

------------------------------------------------------------------------------
ChainInit ==
    /\ flag = "up" /\ count = 0
    /\ used = 0 /\ total = 0 /\ fnMem = [f \in {} |-> 0]
    /\ limiter = None /\ etcdQuota = None /\ events = 0
    /\ chain = [r \in Requests |-> "new"]

Serve(r) ==
    \/ \E b \in BOOLEAN : Arrive(r, b) \/ Count(r, b) \/ AuthCheck(r, b)
    \/ Grace(r) \/ TakeToken(r) \/ TakeFromNew(r) \/ AllowHigh(r) \/ AllowLow(r) \/ Invoked(r)

ChainNext ==
    \/ \E r \in Requests : Serve(r)
    \/ Refill \/ \E q \in Quotas \union {None} : QuotaEvent(q)
    \/ \E u \in Rss : Refresh(u)
    \/ BeginExit \/ EndExit

ChainSpec == ChainInit /\ [][ChainNext]_chainVars

------------------------------------------------------------------------------
\* Properties

\* The requests whose memory is accounted: between AllowByLowerThreshold and the
\* deferred ReleaseFunctionMem.
Holding(f) == {r \in Requests : Func[r] = f /\ Accounted(r) /\ chain[r] \in {"auth", "invoke"}}
SumWant(S) == FoldSet(LAMBDA r, n : n + Want[r], 0, S)

\* The memory control neither leaks nor forgets: whatever path a request leaves the
\* chain by (refused, panicked, answered), functionMemMap is the sum of the requests
\* in the chain, function by function, a function with none is not in it (it would
\* distort the average), and totalMemCnt is the sum of it
\* (monitor/memory.go AllowByLowerThreshold, ReleaseFunctionMem).
MemoryAccounted ==
    /\ \A f \in Funcs : Held(fnMem, f) = SumWant(Holding(f))
    /\ DOMAIN fnMem = {f \in Funcs : Holding(f) # {}}
    /\ total = SumWant({r \in Requests : \E f \in Funcs : r \in Holding(f)})

\* Once the shutdown has waited for the chain nothing is left in it
\* (graceexit.go: "wait until all received messages are processed"). The flag is
\* read before the wait group is incremented, so a request may pass between.
NothingAfterExit ==
    flag = "exited" =>
        \A r \in Requests : chain[r] \notin {"limit", "limitNew", "high", "low", "auth", "invoke"}

\* A tenant's limiter has the quota etcd holds for it, once no request is about to
\* install the default one (tenanttrafficlimit: tenantTakeOneToken stores what it
\* made from an earlier look).
QuotaFollowsEvents ==
    (limiter # None /\ \A r \in Requests : chain[r] # "limitNew") =>
        limiter.quota = IF etcdQuota = None THEN DefaultQuota ELSE etcdQuota
=============================================================================
