----------------------------- MODULE KernelInvoke -----------------------------
(***************************************************************************)
(* A request of the kernel invocation (invocation): InvokeHandler with its   *)
(* bounded retries, and in each the kernelRequestHandler that takes a lease   *)
(* of the ring the request belongs to, calls the instance through a proxy,    *)
(* returns the lease and decides what an error means. The gray ratio, the     *)
(* way to the schedulers and the clock change while it runs.                  *)
(***************************************************************************)
EXTENDS GoValues, Integers, FiniteSets

CONSTANTS
    KInstances,       \* instances of the function
    InvokeTimeouts,   \* InvokeTimeout of the context and of the metadata, in seconds
    HeaderValues,     \* CPU and memory headers: None, BadNumber, or a number
    GrayNums,         \* hash percentages (ConvertHashToPercent) of sessions and request IDs
    BlueRatios,       \* values of blue_ratio
    BadSession,       \* a session header that does not parse
    BadNumber,        \* a header that is no number
    MaxInvokeRetries, \* maxInvokeRetries
    MaxClock          \* bound: seconds

ASSUME InvokeTimeoutsAssumption == InvokeTimeouts \subseteq Int

VARIABLES
    kClock,           \* seconds
    blueRatio,        \* garyConfig.BlueRatio
    legacyAccess,     \* accessFaaSSchedulerType is libruntime
    kctx,             \* the InvokeProcessContext
    kh,               \* the kernelRequestHandler
    kMetrics,         \* [KInstances -> calls between InvokeStart and InvokeEnd]
    lastLease         \* the last lease granted and its return (history):
                      \*   [ring, back, backRing, abnormal, stale, lost], or None

kVars == <<kClock, blueRatio, legacyAccess, kctx, kh, kMetrics, lastLease>>

FuncSpecResource == 3
FullRatio == 100

\* Codes of a failed call: "exited" (1003, 1007, 1013: the instance is gone), "comm" (3001, 3002,
\* 3008, 4202...: may be retried), "userException" (2002), "limit" (traffic limit of the lease),
\* "noScheduler", "internal" (FrontendStatusInternalError), "other".
NeedRetryCode == {"exited", "comm"}
InstanceFatalCode == {"exited", "userException"}
Codes == NeedRetryCode \cup InstanceFatalCode \cup {"limit", "noScheduler", "internal", "other"}

------------------------------------------------------------------------------
\* Resources

Positive(v) == v \notin {None, BadNumber} /\ v > 0

\* getAcquireReqCPUAndMemory and setCPUMemory: what a header makes of the resources of the key
\* the instances are found by, and of the request.
AcquireResource(v) == IF v \notin {None, BadNumber} THEN IF v > 0 THEN v ELSE FuncSpecResource ELSE FuncSpecResource
RequestResource(v) == IF v \notin {None, BadNumber} THEN v ELSE FuncSpecResource

\* convert fails for headers that are both there and not both numbers.
HeadersConvert(c) == (c.cpu = None \/ c.mem = None) \/ (c.cpu # BadNumber /\ c.mem # BadNumber)

------------------------------------------------------------------------------
\* The response: the first one written stays.

CanAnswer(c) == c.resp = None
SetErrorInContext(c) == IF c.resp = None THEN [c EXCEPT !.resp = "error"] ELSE c

------------------------------------------------------------------------------
\* The handler

ShouldUseBlueRing(grayNum) == blueRatio # 0 /\ (blueRatio >= FullRatio \/ grayNum < blueRatio)

\* getRingName: by the hash of the session, or of the request ID, which is new in every turn.
GetRingName(c) ==
    {IF ShouldUseBlueRing(g) THEN "blue" ELSE "green" : g \in IF c.session = None THEN GrayNums ELSE {c.session}}

NoHandler == [pc |-> "none", start |-> 0, downgrade |-> FALSE, ring |-> "green", lease |-> FALSE,
              inst |-> None, legacySched |-> FALSE, unexpected |-> {}]

\* InvokeHandler, up to doInvokeWithRetry: an unknown function ends the request.
ArriveKernel(timeout, session, direct, cpu, mem) ==
    /\ kctx.pc = "new"
    /\ kctx' = [pc |-> "run", timeout |-> timeout, origin |-> timeout, session |-> session, noScheduler |-> direct,
                limited |-> FALSE, retry |-> FALSE, tries |-> 0, resp |-> None, cpu |-> cpu, mem |-> mem]
    /\ UNCHANGED <<kClock, blueRatio, legacyAccess, kh, kMetrics, lastLease>>

UnknownFunction ==
    /\ kctx.pc = "new" /\ kctx' = [kctx EXCEPT !.pc = "done", !.resp = "error"]
    /\ UNCHANGED <<kClock, blueRatio, legacyAccess, kh, kMetrics, lastLease>>

\* Retry: an error is final unless ShouldRetry was set and attempts are left. The handler ends with
\* resetSchedulerProxy.
Returns(c, err) ==
    /\ kh' = NoHandler
    /\ kctx' = LET d == [c EXCEPT !.limited = FALSE]
               IN  IF ~err THEN [d EXCEPT !.pc = "done"]
                   ELSE IF c.retry /\ c.tries < MaxInvokeRetries THEN d
                   ELSE [SetErrorInContext(d) EXCEPT !.pc = "done"]

\* doInvoke with createKernelRequestHandler: the metadata's timeout stands in for a missing one; a
\* session header that does not parse is an error before there is a handler.
CreateKernelRequestHandler(metaTimeout) ==
    /\ kctx.pc = "run" /\ kh.pc = "none"
    /\ LET c == [kctx EXCEPT !.tries = @ + 1, !.retry = FALSE,
                             !.timeout = IF @ = 0 THEN metaTimeout ELSE @,
                             !.origin = IF kctx.timeout = 0 THEN metaTimeout ELSE @]
       IN  IF c.session = BadSession THEN Returns(c, TRUE)
           ELSE kctx' = c /\ kh' = [NoHandler EXCEPT !.pc = "loop", !.start = kClock, !.downgrade = kctx.noScheduler]
    /\ UNCHANGED <<kClock, blueRatio, legacyAccess, kMetrics, lastLease>>

ComputeTimeout(timeout, start) == timeout - (kClock - start)

\* invoke, top of the loop: the time since the start of the handler is taken off what the last
\* turn left; then the ring is chosen.
BeginTurn ==
    /\ kh.pc = "loop"
    /\ LET left == ComputeTimeout(kctx.timeout, kh.start)
           c == [kctx EXCEPT !.timeout = left]
       IN  IF left <= 0 THEN Returns(c, TRUE)
           ELSE \E ring \in GetRingName(kctx) : kctx' = c /\ kh' = [kh EXCEPT !.pc = "make", !.ring = ring]
    /\ UNCHANGED <<kClock, blueRatio, legacyAccess, kMetrics, lastLease>>

\* makeReqCompatible: the way to the schedulers is read once a turn.
MakeReqCompatible ==
    /\ kh.pc = "make"
    /\ kh' = [kh EXCEPT !.pc = IF legacyAccess THEN "legacy" ELSE IF kh.downgrade THEN "choose" ELSE "acquire"]
    /\ UNCHANGED <<kClock, blueRatio, legacyAccess, kctx, kMetrics, lastLease>>

\* makeReq, AcquireInstance granted a lease of the handler's ring.
Granted(i) ==
    /\ kh.pc = "acquire"
    /\ lastLease' = [ring |-> kh.ring, back |-> 0, backRing |-> None, abnormal |-> FALSE, stale |-> FALSE,
                     lost |-> lastLease # None /\ (lastLease.back = 0 \/ lastLease.lost)]
    /\ kh' = [kh EXCEPT !.pc = "convert", !.lease = TRUE, !.inst = i]
    /\ UNCHANGED <<kClock, blueRatio, legacyAccess, kctx, kMetrics>>

\* makeReq: without a scheduler the request goes on without lease; another error ends it.
NotGranted ==
    /\ kh.pc = "acquire"
    /\ \/ kh' = [kh EXCEPT !.downgrade = TRUE, !.pc = "choose"] /\ UNCHANGED kctx
       \/ Returns(SetErrorInContext(kctx), TRUE)
    /\ UNCHANGED <<kClock, blueRatio, legacyAccess, kMetrics, lastLease>>

\* legacyMakeReq: the scheduler is only named in the request, which has no instance then. The one
\* of the last turn is forgotten; a downgraded request asks for none.
LegacyMakeReq(found, empty) ==
    /\ kh.pc = "legacy"
    /\ LET sched == ~kh.downgrade /\ found
       IN  kh' = IF sched /\ ~empty THEN [kh EXCEPT !.pc = "convert", !.inst = None, !.legacySched = TRUE]
                 ELSE [kh EXCEPT !.pc = "choose", !.downgrade = TRUE, !.legacySched = sched]
    /\ UNCHANGED <<kClock, blueRatio, legacyAccess, kctx, kMetrics, lastLease>>

\* chooseInstance: an instance that has not failed this request, or, after a wait in the pending
\* queue, any one, or an error.
ChooseInstance(i, pending) ==
    /\ kh.pc = "choose" /\ (pending \/ i \notin kh.unexpected)
    /\ kh' = [kh EXCEPT !.pc = "convert", !.inst = i]
    /\ UNCHANGED <<kClock, blueRatio, legacyAccess, kctx, kMetrics, lastLease>>

NoInstance ==
    /\ kh.pc = "choose" /\ Returns(SetErrorInContext(kctx), TRUE)
    /\ UNCHANGED <<kClock, blueRatio, legacyAccess, kMetrics, lastLease>>

\* convert fails for resource headers, or for the body: the handler returns as it is.
ConvertFails ==
    /\ kh.pc = "convert" /\ Returns(SetErrorInContext(kctx), TRUE)
    /\ UNCHANGED <<kClock, blueRatio, legacyAccess, kMetrics, lastLease>>

\* convert, and invokeFunctionWithDirectProxy up to the answer; InvokeStart of a downgraded call.
Convert ==
    /\ kh.pc = "convert" /\ HeadersConvert(kctx)
    /\ kh' = [kh EXCEPT !.pc = "sent"]
    /\ kMetrics' = IF kh.downgrade /\ kh.inst # None THEN [kMetrics EXCEPT ![kh.inst] = @ + 1] ELSE kMetrics
    /\ UNCHANGED <<kClock, blueRatio, legacyAccess, kctx, lastLease>>

\* What a call ends with. "ok" and "garbled" are answers, "direct" is an error that carries
\* DirectProxyErrorMetadata, "info" an api.ErrorInfo or a code in the message, "raw" any other
\* error, which JudgeRetry may mark for a retry.
Replies == [kind : {"ok", "garbled"}, code : {"internal"}, retryable : {FALSE}]
           \cup [kind : {"direct"}, code : Codes, retryable : BOOLEAN]
           \cup [kind : {"info"}, code : Codes, retryable : {FALSE}]
           \cup [kind : {"raw"}, code : {"internal"}, retryable : BOOLEAN]
NoInstanceID == [kind |-> "raw", code |-> "internal", retryable |-> FALSE]

\* JudgeRetry looks for a code in the text of an error of no known kind.
JudgeRetry(r) == r.kind = "raw" /\ r.retryable

\* Faulty variant: the ring is chosen again when the lease is returned.
RingOfNow(k) == IF blueRatio > 0 THEN "blue" ELSE "green"

\* getRingInstanceManager
ReleaseRing(k) == k.ring

\* ReleaseInstanceAllocation: the lease goes back, as abnormal when the code says the instance is.
Released(r) ==
    IF ~kh.lease THEN lastLease
    ELSE [lastLease EXCEPT !.back = @ + 1, !.backRing = ReleaseRing(kh),
                           !.abnormal = r.kind # "ok" /\ r.code \in InstanceFatalCode,
                           !.stale = r.kind = "direct" /\ r.retryable]

\* handleInvokeError
HandleInvokeError(c, r) ==
    \/ r.kind = "direct" /\ Returns([c EXCEPT !.retry = r.retryable], TRUE)
    \/ /\ r.kind # "direct" /\ r.code = "limit" /\ kh.legacySched
       /\ kctx' = [c EXCEPT !.limited = TRUE] /\ kh' = [kh EXCEPT !.pc = "loop", !.lease = FALSE]
    \/ /\ r.kind # "direct" /\ r.code = "noScheduler"
       /\ kctx' = c /\ kh' = [kh EXCEPT !.pc = "loop", !.lease = FALSE, !.downgrade = TRUE]
    \/ /\ r.kind # "direct" /\ r.code \in NeedRetryCode
       /\ kctx' = c /\ kh' = [kh EXCEPT !.pc = "loop", !.lease = FALSE, !.unexpected = @ \cup ({kh.inst} \ {None})]
    \/ /\ r.kind # "direct" /\ r.code \notin NeedRetryCode \cup {"noScheduler"} /\ ~(r.code = "limit" /\ kh.legacySched)
       /\ Returns(SetErrorInContext(c), TRUE)

\* The call ends: InvokeEnd, the lease, the response or the error. An answer cannot be written
\* over a response that is there.
CallReturns(r) ==
    /\ kh.pc = "sent" /\ (kh.inst = None => r = NoInstanceID)
    /\ kMetrics' = IF kh.downgrade /\ kh.inst # None THEN [kMetrics EXCEPT ![kh.inst] = @ - 1] ELSE kMetrics
    /\ lastLease' = Released(r)
    /\ IF r.kind = "ok" /\ CanAnswer(kctx) THEN Returns([kctx EXCEPT !.resp = "result"], FALSE)
       ELSE HandleInvokeError([kctx EXCEPT !.retry = JudgeRetry(r)], r)
    /\ UNCHANGED <<kClock, blueRatio, legacyAccess>>

------------------------------------------------------------------------------
\* The environment

PassSecond ==
    /\ kClock < MaxClock /\ kctx.pc = "run" /\ kClock' = kClock + 1
    /\ UNCHANGED <<blueRatio, legacyAccess, kctx, kh, kMetrics, lastLease>>

\* SetBlueRatio of an event that parses, and the file watched by upgradecompatible.
ChangeBlueRatio(ratio) ==
    /\ kctx.pc = "run" /\ ratio # blueRatio /\ blueRatio' = ratio
    /\ UNCHANGED <<kClock, legacyAccess, kctx, kh, kMetrics, lastLease>>
ChangeAccessType ==
    /\ kctx.pc = "run" /\ legacyAccess' = ~legacyAccess
    /\ UNCHANGED <<kClock, blueRatio, kctx, kh, kMetrics, lastLease>>

KernelInit ==
    /\ kClock = 0 /\ blueRatio = 0 /\ legacyAccess = FALSE
    /\ kctx = [pc |-> "new", timeout |-> 0, origin |-> 0, session |-> None, noScheduler |-> FALSE, limited |-> FALSE,
               retry |-> FALSE, tries |-> 0, resp |-> None, cpu |-> None, mem |-> None]
    /\ kh = NoHandler /\ kMetrics = [i \in KInstances |-> 0] /\ lastLease = None

KernelNext ==
    \/ \E t \in InvokeTimeouts, session \in {None, BadSession} \cup GrayNums, direct \in BOOLEAN, cpu, mem \in HeaderValues :
           ArriveKernel(t, session, direct, cpu, mem)
    \/ UnknownFunction \/ BeginTurn \/ MakeReqCompatible \/ NotGranted \/ NoInstance \/ ConvertFails \/ Convert
    \/ \E t \in InvokeTimeouts \ {0} : CreateKernelRequestHandler(t)
    \/ \E i \in KInstances : Granted(i) \/ \E pending \in BOOLEAN : ChooseInstance(i, pending)
    \/ \E found, empty \in BOOLEAN : LegacyMakeReq(found, empty)
    \/ \E r \in Replies : CallReturns(r)
    \/ PassSecond \/ ChangeAccessType \/ \E ratio \in BlueRatios : ChangeBlueRatio(ratio)

KernelSpec == KernelInit /\ [][KernelNext]_kVars

------------------------------------------------------------------------------
\* Properties

\* Whatever is retried and however the gray ratio moves meanwhile, a lease goes back at most once,
\* to the manager of the ring that granted it, and before the request takes another one.
LeaseGoesBack ==
    lastLease # None => /\ ~lastLease.lost /\ lastLease.back <= 1
                        /\ lastLease.back = 1 => lastLease.backRing = lastLease.ring

\* A failure of routing or transport, before the call was dispatched, says nothing of the
\* instance: the lease is returned normally.
RoutingFailureSparesLease == lastLease # None => ~(lastLease.stale /\ lastLease.abnormal)

\* A request that has ended holds no lease.
NoLeaseLeft == (kctx.pc = "done" /\ lastLease # None) => lastLease.back = 1

\* An attempt is given what is left of the time of the request.
TimeLeftIsReal == kh.pc = "make" => kctx.timeout >= kctx.origin - kClock

\* A downgraded retry does not go to an instance that has failed the request.
FailedIsAvoided == (kh.pc = "sent" /\ kh.downgrade) => kh.inst \notin kh.unexpected

\* The instances are looked up by the resources the request asks for.
ResourcesAgree == kh.pc = "sent" => AcquireResource(kctx.cpu) = RequestResource(kctx.cpu)
=============================================================================
