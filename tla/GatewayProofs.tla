---------------------------- MODULE GatewayProofs -----------------------------
(***************************************************************************)
(* Theorems about the handlers of the gateway: a kernel invocation and its   *)
(* lease, the browser login, the channels of the SSH bastion, the byte       *)
(* tunnels, the way of an invocation past the token check and the memory     *)
(* control of the invocations in progress.                                   *)
(***************************************************************************)
EXTENDS KernelInvoke, LoginFlow, SshProxy, Tunnels, RequestGate, InvokeChain, SequenceTheorems,
        FiniteSetTheorems, WellFoundedInduction, TLAPS

------------------------------------------------------------------------------
\* KernelInvoke: the lease of a request

Ctx == [pc : {"new", "run", "done"}, timeout : Int, origin : Int, session : {None, BadSession} \cup GrayNums,
        noScheduler : BOOLEAN, limited : BOOLEAN, retry : BOOLEAN, tries : Nat,
        resp : {None, "error", "result"}, cpu : HeaderValues \cup {None}, mem : HeaderValues \cup {None}]
Handler == [pc : {"none", "loop", "make", "acquire", "legacy", "choose", "convert", "sent"}, start : Int,
            downgrade : BOOLEAN, ring : {"green", "blue"}, lease : BOOLEAN, inst : KInstances \cup {None},
            legacySched : BOOLEAN, unexpected : SUBSET KInstances]
Lease == [ring : {"green", "blue"}, back : {0, 1}, backRing : {None, "green", "blue"}, abnormal : BOOLEAN,
          stale : BOOLEAN, lost : BOOLEAN]

KernelType ==
    /\ kClock \in Int /\ kctx \in Ctx /\ kh \in Handler
    /\ lastLease \in Lease \cup {None}

\* A handler holds its lease exactly until the lease is back; one whose error is about to end the
\* request for good may leave with it, and then no other attempt follows.
LeaseInv ==
    /\ kh.pc # "none" => kctx.pc = "run" /\ ~kctx.retry
    /\ kh.lease => /\ kh.pc \in {"convert", "sent"} /\ lastLease \in Lease
                   /\ ~lastLease.lost /\ lastLease.back = 0 /\ lastLease.ring = kh.ring
    /\ lastLease # None => /\ ~lastLease.lost
                           /\ lastLease.back = 1 => lastLease.backRing = lastLease.ring
                           /\ (~kh.lease /\ kctx.pc # "done") => lastLease.back = 1

KernelInv == KernelType /\ LeaseInv

\* An error is written into the context, which stays a context.
LEMMA SetErrorTyped ==
    ASSUME NEW c \in Ctx
    PROVE  /\ SetErrorInContext(c) \in Ctx
           /\ SetErrorInContext(c).pc = c.pc /\ SetErrorInContext(c).retry = c.retry
    BY DEF SetErrorInContext, Ctx

\* What the end of an attempt does: the handler is gone, and without a retry the request is over.
LEMMA ReturnsTyped ==
    ASSUME NEW c \in Ctx, NEW err \in BOOLEAN, Returns(c, err)
    PROVE  /\ kctx' \in Ctx /\ kh' = NoHandler /\ kh' \in Handler
           /\ kctx'.pc \in {c.pc, "done"}
           /\ ~c.retry => kctx'.pc = "done"
<1> DEFINE d == [c EXCEPT !.limited = FALSE]
<1>1. d \in Ctx /\ d.pc = c.pc /\ d.retry = c.retry  BY DEF Ctx
<1>2. SetErrorInContext(d) \in Ctx  BY <1>1, SetErrorTyped
<1>3. ASSUME NEW e \in Ctx PROVE [e EXCEPT !.pc = "done"] \in Ctx /\ [e EXCEPT !.pc = "done"].pc = "done"  BY DEF Ctx
<1>4. kctx' \in {[d EXCEPT !.pc = "done"], d, [SetErrorInContext(d) EXCEPT !.pc = "done"]}
  BY DEF Returns
<1>5. ~c.retry => kctx' \in {[d EXCEPT !.pc = "done"], [SetErrorInContext(d) EXCEPT !.pc = "done"]}
  BY DEF Returns
<1>6. kh' = NoHandler /\ NoHandler \in Handler  BY DEF Returns, NoHandler, Handler
<1> HIDE DEF d
<1> QED BY <1>1, <1>2, <1>3, <1>4, <1>5, <1>6

\* An attempt that ends without a retry and leaves the lease as it is.
LEMMA ReturnsKeepsLease ==
    ASSUME KernelInv, NEW c \in Ctx, Returns(c, TRUE), ~c.retry, kh.pc # "none" \/ ~kh.lease,
           kClock' = kClock, lastLease' = lastLease
    PROVE  KernelInv'
<1>1. kctx' \in Ctx /\ kh' = NoHandler /\ kh' \in Handler /\ kctx'.pc = "done"  BY ReturnsTyped
<1>2. kh'.lease = FALSE /\ kh'.pc = "none"  BY <1>1 DEF NoHandler
<1>3. KernelType'  BY <1>1 DEF KernelInv, KernelType
<1>4. LeaseInv'  BY <1>1, <1>2 DEF KernelInv, LeaseInv
<1> QED BY <1>3, <1>4 DEF KernelInv

\* The lease a finished call returns is back once, at the ring that granted it.
LEMMA ReleasedSound ==
    ASSUME KernelInv, kh.pc = "sent", NEW r \in Replies, lastLease' = Released(r)
    PROVE  /\ lastLease' \in Lease \cup {None}
           /\ lastLease' # None => /\ ~lastLease'.lost /\ lastLease'.back = 1
                                   /\ lastLease'.backRing = lastLease'.ring
<1>1. CASE ~kh.lease
  BY <1>1 DEF Released, KernelInv, KernelType, LeaseInv, Lease
<1>2. CASE kh.lease
  <2>1. lastLease \in Lease /\ lastLease.back = 0 /\ lastLease.ring = kh.ring /\ ~lastLease.lost
    BY <1>2 DEF KernelInv, KernelType, LeaseInv
  <2>2. PICK abnormal \in BOOLEAN, stale \in BOOLEAN :
            lastLease' = [lastLease EXCEPT !.back = @ + 1, !.backRing = kh.ring, !.abnormal = abnormal, !.stale = stale]
    BY <1>2 DEF Released, ReleaseRing
  <2>3. kh.ring \in {"green", "blue"}  BY DEF KernelInv, KernelType, Handler
  <2>4. lastLease.back + 1 = 1  BY <2>1
  <2>5. lastLease' \in Lease  BY <2>1, <2>2, <2>3, <2>4 DEF Lease
  <2>6. lastLease'.back = 1 /\ lastLease'.backRing = kh.ring /\ lastLease'.ring = lastLease.ring
        /\ lastLease'.lost = lastLease.lost
    BY <2>1, <2>2 DEF Lease
  <2> QED BY <2>1, <2>5, <2>6
<1> QED BY <1>1, <1>2

\* The loop goes on without a lease.
LEMMA LoopsSound ==
    ASSUME KernelType, kctx' \in Ctx, kctx'.pc = "run", ~kctx'.retry, kh' \in Handler, kh'.pc = "loop", ~kh'.lease,
           kClock' = kClock, lastLease' \in Lease \cup {None},
           lastLease' # None => /\ ~lastLease'.lost /\ lastLease'.back = 1 /\ lastLease'.backRing = lastLease'.ring
    PROVE  KernelInv'
    BY DEF KernelInv, KernelType, LeaseInv

\* handleInvokeError, and the answer: whatever they decide, the lease is back.
LEMMA CallReturnsSound ==
    ASSUME KernelInv, NEW r \in Replies, CallReturns(r)
    PROVE  KernelInv'
<1>1. kh.pc = "sent" /\ kctx \in Ctx /\ kh \in Handler /\ kctx.pc = "run" /\ kClock' = kClock /\ KernelType
  BY DEF CallReturns, KernelInv, KernelType, LeaseInv
<1>2. /\ lastLease' \in Lease \cup {None}
      /\ lastLease' # None => /\ ~lastLease'.lost /\ lastLease'.back = 1 /\ lastLease'.backRing = lastLease'.ring
  BY <1>1, ReleasedSound DEF CallReturns
<1>3. ASSUME NEW c \in Ctx, NEW err \in BOOLEAN, Returns(c, err) PROVE KernelInv'
  <2>1. kctx' \in Ctx /\ kh' \in Handler /\ kh' = NoHandler  BY <1>3, ReturnsTyped
  <2>2. kh'.pc = "none" /\ kh'.lease = FALSE  BY <2>1 DEF NoHandler
  <2> QED BY <1>1, <1>2, <2>1, <2>2 DEF KernelInv, KernelType, LeaseInv
<1>4. ASSUME r.kind = "ok", CanAnswer(kctx), Returns([kctx EXCEPT !.resp = "result"], FALSE) PROVE KernelInv'
  <2>1. [kctx EXCEPT !.resp = "result"] \in Ctx  BY <1>1 DEF Ctx
  <2> QED BY <1>3, <1>4, <2>1
<1>5. ASSUME HandleInvokeError([kctx EXCEPT !.retry = JudgeRetry(r)], r) PROVE KernelInv'
  <2>1. PICK c \in Ctx : /\ c = [kctx EXCEPT !.retry = JudgeRetry(r)] /\ c.pc = "run"
                         /\ r.kind \in {"info"} => ~c.retry
    <3>1. JudgeRetry(r) \in BOOLEAN /\ (r.kind = "info" => ~JudgeRetry(r))  BY DEF JudgeRetry, Replies
    <3>2. PICK b \in BOOLEAN : b = JudgeRetry(r)  BY <3>1
    <3>3. [kctx EXCEPT !.retry = b] \in Ctx /\ [kctx EXCEPT !.retry = b].pc = "run" /\ [kctx EXCEPT !.retry = b].retry = b
      BY <1>1 DEF Ctx
    <3> QED BY <3>1, <3>2, <3>3
  <2>2. HandleInvokeError(c, r)  BY <1>5, <2>1
  <2>3. SetErrorInContext(c) \in Ctx  BY SetErrorTyped
  <2>4. CASE r.kind = "direct"
    <3>1. [c EXCEPT !.retry = r.retryable] \in Ctx  BY <2>4 DEF Ctx, Replies
    <3>2. Returns([c EXCEPT !.retry = r.retryable], TRUE)  BY <2>2, <2>4 DEF HandleInvokeError
    <3> QED BY <1>3, <3>1, <3>2
  <2>5. CASE r.kind \in {"ok", "garbled", "raw"}
    <3>1. r.code = "internal" /\ r.kind # "direct"  BY <2>5 DEF Replies
    <3>2. Returns(SetErrorInContext(c), TRUE)  BY <2>2, <3>1 DEF HandleInvokeError, NeedRetryCode
    <3> QED BY <1>3, <2>3, <3>2
  <2>6. CASE r.kind = "info"
    <3>1. CASE Returns(SetErrorInContext(c), TRUE)  BY <1>3, <2>3, <3>1
    <3>2. CASE kctx' = [c EXCEPT !.limited = TRUE] /\ kh' = [kh EXCEPT !.pc = "loop", !.lease = FALSE]
      <4>1. kctx' \in Ctx /\ kctx'.pc = "run" /\ ~kctx'.retry  BY <2>1, <2>6, <3>2 DEF Ctx
      <4>2. kh' \in Handler /\ kh'.pc = "loop" /\ ~kh'.lease  BY <1>1, <3>2 DEF Handler
      <4> QED BY <1>1, <1>2, <4>1, <4>2, LoopsSound
    <3>3. CASE kctx' = c /\ kh' = [kh EXCEPT !.pc = "loop", !.lease = FALSE, !.downgrade = TRUE]
      <4>1. kctx' \in Ctx /\ kctx'.pc = "run" /\ ~kctx'.retry  BY <2>1, <2>6, <3>3 DEF Ctx
      <4>2. kh' \in Handler /\ kh'.pc = "loop" /\ ~kh'.lease  BY <1>1, <3>3 DEF Handler
      <4> QED BY <1>1, <1>2, <4>1, <4>2, LoopsSound
    <3>4. CASE kctx' = c /\ kh' = [kh EXCEPT !.pc = "loop", !.lease = FALSE, !.unexpected = @ \cup ({kh.inst} \ {None})]
      <4>1. kctx' \in Ctx /\ kctx'.pc = "run" /\ ~kctx'.retry  BY <2>1, <2>6, <3>4 DEF Ctx
      <4>2. kh' \in Handler /\ kh'.pc = "loop" /\ ~kh'.lease  BY <1>1, <3>4 DEF Handler
      <4> QED BY <1>1, <1>2, <4>1, <4>2, LoopsSound
    <3> QED BY <2>2, <2>6, <3>1, <3>2, <3>3, <3>4 DEF HandleInvokeError
  <2> QED BY <2>4, <2>5, <2>6 DEF Replies
<1> QED BY <1>4, <1>5 DEF CallReturns

\* createKernelRequestHandler: an attempt starts without a lease, or fails before it has a handler.
LEMMA AttemptSound ==
    ASSUME KernelInv, NEW t \in InvokeTimeouts, CreateKernelRequestHandler(t)
    PROVE  KernelInv'
<1> DEFINE left == IF kctx.timeout = 0 THEN t ELSE kctx.timeout
           from == IF kctx.timeout = 0 THEN t ELSE kctx.origin
           n == kctx.tries + 1
           c == [kctx EXCEPT !.tries = n, !.retry = FALSE, !.timeout = left, !.origin = from]
           h == [NoHandler EXCEPT !.pc = "loop", !.start = kClock, !.downgrade = kctx.noScheduler]
<1>1. kctx \in Ctx /\ kctx.pc = "run" /\ kh \in Handler /\ kh.pc = "none" /\ ~kh.lease /\ kClock \in Int
  BY DEF CreateKernelRequestHandler, KernelInv, KernelType, LeaseInv
<1>2. left \in Int /\ from \in Int /\ n \in Nat  BY <1>1, InvokeTimeoutsAssumption DEF Ctx
<1>3. \/ Returns(c, TRUE)
      \/ kctx' = c /\ kh' = h
  BY DEF CreateKernelRequestHandler
<1>4. kClock' = kClock /\ lastLease' = lastLease  BY DEF CreateKernelRequestHandler
<1> HIDE DEF left, from, n
<1>5. c \in Ctx /\ ~c.retry /\ c.pc = "run"  BY <1>1, <1>2 DEF Ctx
<1>6. h \in Handler /\ h.pc = "loop" /\ ~h.lease  BY <1>1 DEF Handler, NoHandler, Ctx
<1> HIDE DEF c, h
<1>7. CASE Returns(c, TRUE)  BY <1>1, <1>4, <1>5, <1>7, ReturnsKeepsLease
<1>8. CASE kctx' = c /\ kh' = h  BY <1>1, <1>4, <1>5, <1>6, <1>8 DEF KernelInv, KernelType, LeaseInv
<1> QED BY <1>3, <1>7, <1>8

\* A turn begins with the time left and the ring, and no lease.
LEMMA BeginTurnSound ==
    ASSUME KernelInv, BeginTurn
    PROVE  KernelInv'
<1> DEFINE left == ComputeTimeout(kctx.timeout, kh.start)
           c == [kctx EXCEPT !.timeout = left]
<1>1. kctx \in Ctx /\ kctx.pc = "run" /\ ~kctx.retry /\ kh \in Handler /\ kh.pc = "loop" /\ ~kh.lease /\ kClock \in Int
  BY DEF BeginTurn, KernelInv, KernelType, LeaseInv
<1>2. left \in Int  BY <1>1 DEF ComputeTimeout, Ctx, Handler
<1>3. \/ Returns(c, TRUE)
      \/ \E ring \in {"green", "blue"} : kctx' = c /\ kh' = [kh EXCEPT !.pc = "make", !.ring = ring]
  BY DEF BeginTurn, GetRingName
<1>4. kClock' = kClock /\ lastLease' = lastLease  BY DEF BeginTurn
<1> HIDE DEF left
<1>5. c \in Ctx /\ ~c.retry /\ c.pc = "run"  BY <1>1, <1>2 DEF Ctx
<1> HIDE DEF c
<1>6. CASE Returns(c, TRUE)  BY <1>1, <1>4, <1>5, <1>6, ReturnsKeepsLease
<1>7. CASE \E ring \in {"green", "blue"} : kctx' = c /\ kh' = [kh EXCEPT !.pc = "make", !.ring = ring]
  <2>1. kctx' = c /\ kh' \in Handler /\ kh'.pc = "make" /\ ~kh'.lease  BY <1>1, <1>7 DEF Handler
  <2> QED BY <1>1, <1>4, <1>5, <2>1 DEF KernelInv, KernelType, LeaseInv
<1> QED BY <1>3, <1>6, <1>7

\* AcquireInstance: the lease granted is of the ring of the turn, and the one before it is back.
LEMMA GrantedSound ==
    ASSUME KernelInv, NEW i \in KInstances, Granted(i)
    PROVE  KernelInv'
<1>1. kctx \in Ctx /\ kctx.pc = "run" /\ ~kctx.retry /\ kh \in Handler /\ kh.pc = "acquire" /\ ~kh.lease
  BY DEF Granted, KernelInv, KernelType, LeaseInv
<1>2. kh' \in Handler /\ kh'.pc = "convert" /\ kh'.lease /\ kh'.ring = kh.ring  BY <1>1 DEF Granted, Handler
<1>3. ~(lastLease # None /\ (lastLease.back = 0 \/ lastLease.lost))
  BY <1>1 DEF KernelInv, KernelType, LeaseInv
<1>4. lastLease' = [ring |-> kh.ring, back |-> 0, backRing |-> None, abnormal |-> FALSE, stale |-> FALSE, lost |-> FALSE]
  BY <1>3 DEF Granted
<1>5. lastLease' \in Lease /\ lastLease'.ring = kh.ring /\ lastLease'.back = 0 /\ lastLease'.lost = FALSE
  BY <1>1, <1>4 DEF Lease, Handler
<1>6. kctx' = kctx /\ kClock' = kClock  BY DEF Granted
<1> QED BY <1>1, <1>2, <1>5, <1>6 DEF KernelInv, KernelType, LeaseInv

\* A step that keeps the lease where it is and moves the handler only.
LEMMA HandlerMoves ==
    ASSUME KernelInv, kctx' = kctx, kClock' = kClock, lastLease' = lastLease, kh.pc # "none",
           kh' \in Handler, kh'.pc # "none", kh'.lease = kh.lease, kh'.ring = kh.ring,
           kh.lease => kh'.pc \in {"convert", "sent"}
    PROVE  KernelInv'
    BY DEF KernelInv, KernelType, LeaseInv

\* An error of the handler before the call ends the request for good.
LEMMA ErrorEnds ==
    ASSUME KernelInv, kh.pc # "none", Returns(SetErrorInContext(kctx), TRUE), kClock' = kClock, lastLease' = lastLease
    PROVE  KernelInv'
<1>1. kctx \in Ctx /\ ~kctx.retry  BY DEF KernelInv, KernelType, LeaseInv
<1>2. SetErrorInContext(kctx) \in Ctx /\ ~SetErrorInContext(kctx).retry  BY <1>1, SetErrorTyped
<1> QED BY <1>2, ReturnsKeepsLease

\* makeReqCompatible and what follows it up to the call.
LEMMA WayToCallSound ==
    ASSUME KernelInv,
           \/ MakeReqCompatible \/ NotGranted \/ NoInstance \/ ConvertFails \/ Convert
           \/ \E i \in KInstances, pending \in BOOLEAN : ChooseInstance(i, pending)
           \/ \E found, empty \in BOOLEAN : LegacyMakeReq(found, empty)
    PROVE  KernelInv'
<1>1. kctx \in Ctx /\ kh \in Handler /\ (kh.lease => kh.pc \in {"convert", "sent"})
  BY DEF KernelInv, KernelType, LeaseInv
<1>2. CASE MakeReqCompatible
  <2>1. kh' \in Handler /\ kh'.pc # "none" /\ kh'.lease = kh.lease /\ kh'.ring = kh.ring /\ kh.pc = "make"
    BY <1>1, <1>2 DEF MakeReqCompatible, Handler
  <2> QED BY <1>1, <1>2, <2>1, HandlerMoves DEF MakeReqCompatible
<1>3. CASE NotGranted
  <2>1. CASE kh' = [kh EXCEPT !.downgrade = TRUE, !.pc = "choose"] /\ kctx' = kctx
    <3>1. kh' \in Handler /\ kh'.pc # "none" /\ kh'.lease = kh.lease /\ kh'.ring = kh.ring /\ kh.pc = "acquire"
      BY <1>1, <1>3, <2>1 DEF NotGranted, Handler
    <3> QED BY <1>1, <1>3, <2>1, <3>1, HandlerMoves DEF NotGranted
  <2>2. CASE Returns(SetErrorInContext(kctx), TRUE)  BY <1>3, <2>2, ErrorEnds DEF NotGranted
  <2> QED BY <1>3, <2>1, <2>2 DEF NotGranted
<1>4. CASE NoInstance  BY <1>4, ErrorEnds DEF NoInstance
<1>5. CASE ConvertFails  BY <1>5, ErrorEnds DEF ConvertFails
<1>6. CASE Convert
  <2>1. kh' \in Handler /\ kh'.pc = "sent" /\ kh'.lease = kh.lease /\ kh'.ring = kh.ring /\ kh.pc = "convert"
    BY <1>1, <1>6 DEF Convert, Handler
  <2> QED BY <1>1, <1>6, <2>1, HandlerMoves DEF Convert
<1>7. ASSUME NEW i \in KInstances, NEW pending \in BOOLEAN, ChooseInstance(i, pending) PROVE KernelInv'
  <2>1. kh' \in Handler /\ kh'.pc = "convert" /\ kh'.lease = kh.lease /\ kh'.ring = kh.ring /\ kh.pc = "choose"
    BY <1>1, <1>7 DEF ChooseInstance, Handler
  <2> QED BY <1>1, <1>7, <2>1, HandlerMoves DEF ChooseInstance
<1>8. ASSUME NEW found \in BOOLEAN, NEW empty \in BOOLEAN, LegacyMakeReq(found, empty) PROVE KernelInv'
  <2>1. PICK sched \in BOOLEAN :
            kh' \in {[kh EXCEPT !.pc = "convert", !.inst = None, !.legacySched = TRUE],
                     [kh EXCEPT !.pc = "choose", !.downgrade = TRUE, !.legacySched = sched]}
    BY <1>1, <1>8 DEF LegacyMakeReq, Handler
  <2>2. kh' \in Handler /\ kh'.pc # "none" /\ kh'.lease = kh.lease /\ kh'.ring = kh.ring
    BY <1>1, <2>1 DEF Handler
  <2>3. kh.pc = "legacy"  BY <1>8 DEF LegacyMakeReq
  <2> QED BY <1>1, <1>8, <2>2, <2>3, HandlerMoves DEF LegacyMakeReq
<1> QED BY <1>2, <1>3, <1>4, <1>5, <1>6, <1>7, <1>8

\* The request, its clock and what is configured meanwhile.
LEMMA SurroundingsSound ==
    ASSUME KernelInv,
           \/ \E t \in InvokeTimeouts, session \in {None, BadSession} \cup GrayNums, direct \in BOOLEAN,
                 cpu, mem \in HeaderValues : ArriveKernel(t, session, direct, cpu, mem)
           \/ UnknownFunction \/ PassSecond \/ ChangeAccessType
           \/ \E ratio \in BlueRatios : ChangeBlueRatio(ratio)
           \/ UNCHANGED kVars
    PROVE  KernelInv'
<1>1. ASSUME NEW t \in InvokeTimeouts, NEW session \in {None, BadSession} \cup GrayNums, NEW direct \in BOOLEAN,
             NEW cpu \in HeaderValues, NEW mem \in HeaderValues, ArriveKernel(t, session, direct, cpu, mem)
      PROVE KernelInv'
  <2>1. kctx' \in Ctx /\ kctx'.pc = "run"  BY <1>1, InvokeTimeoutsAssumption DEF ArriveKernel, Ctx
  <2>2. kh.pc = "none" /\ kctx.pc = "new" /\ kh' = kh /\ kClock' = kClock /\ lastLease' = lastLease
    BY <1>1 DEF ArriveKernel, KernelInv, KernelType, LeaseInv, Handler
  <2> QED BY <2>1, <2>2 DEF KernelInv, KernelType, LeaseInv
<1>2. CASE UnknownFunction
  <2>1. kctx' \in Ctx /\ kctx'.pc = "done"  BY <1>2 DEF UnknownFunction, KernelInv, KernelType, Ctx
  <2>2. kh.pc = "none" /\ kh' = kh /\ kClock' = kClock /\ lastLease' = lastLease
    BY <1>2 DEF UnknownFunction, KernelInv, KernelType, LeaseInv, Handler
  <2> QED BY <2>1, <2>2 DEF KernelInv, KernelType, LeaseInv
<1>3. CASE PassSecond  BY <1>3 DEF PassSecond, KernelInv, KernelType, LeaseInv
<1>4. CASE ChangeAccessType  BY <1>4 DEF ChangeAccessType, KernelInv, KernelType, LeaseInv
<1>5. CASE \E ratio \in BlueRatios : ChangeBlueRatio(ratio)
  BY <1>5 DEF ChangeBlueRatio, KernelInv, KernelType, LeaseInv
<1>6. CASE UNCHANGED kVars  BY <1>6 DEF kVars, KernelInv, KernelType, LeaseInv
<1> QED BY <1>1, <1>2, <1>3, <1>4, <1>5, <1>6

\* For every number of instances, retries and turns, however the gray ratio and the way to the
\* schedulers change: a lease goes back at most once, to the ring that granted it, and before the
\* request takes another.
THEOREM LeaseGoesBackCorrect == KernelSpec => []LeaseGoesBack
<1>1. KernelInit => KernelInv
  BY DEF KernelInit, KernelInv, KernelType, LeaseInv, Ctx, Handler, NoHandler
<1>2. KernelInv /\ [KernelNext]_kVars => KernelInv'
  <2> SUFFICES ASSUME KernelInv, [KernelNext]_kVars PROVE KernelInv'  OBVIOUS
  <2> QED BY AttemptSound, BeginTurnSound, GrantedSound, WayToCallSound, SurroundingsSound, CallReturnsSound
          DEF KernelNext
<1>3. KernelInv => LeaseGoesBack  BY DEF KernelInv, KernelType, LeaseInv, LeaseGoesBack, Lease
<1> QED BY <1>1, <1>2, <1>3, PTL DEF KernelSpec

------------------------------------------------------------------------------
\* LoginFlow: the state of a login

LoginInv == outcome = [t \in Tabs |-> outcome[t]] /\ OwnLoginCompletes

\* The callback is the only step that judges a state.
LEMMA CallbackSound ==
    ASSUME LoginInv, NEW t \in Tabs, NEW f, NEW code, Callback(t, f, code)
    PROVE  LoginInv'
<1> DEFINE s == tabs[t].state
           timely == clock - s.at <= StateTTL
           same == s.by = f
           valid == IsValidOAuthState(s, f)
<1>1. PICK answer, next :
          /\ outcome' = [outcome EXCEPT ![t] = [answer |-> answer, next |-> next, timely |-> timely, same |-> same]]
          /\ answer = IF valid THEN ExchangeCodeForIamToken(code) ELSE "invalid state"
  BY DEF Callback
<1>2. timely /\ same => valid  BY DEF IsValidOAuthState
<1>3. ExchangeCodeForIamToken(code) # "invalid state"  BY DEF ExchangeCodeForIamToken
<1> HIDE DEF s, timely, same, valid
<1>4. outcome'[t].timely /\ outcome'[t].same => outcome'[t].answer # "invalid state"
  BY <1>1, <1>2, <1>3 DEF LoginInv
<1>5. \A u \in Tabs \ {t} : outcome'[u] = outcome[u]  BY <1>1 DEF LoginInv
<1>6. outcome' = [u \in Tabs |-> outcome'[u]]  BY <1>1 DEF LoginInv
<1> QED BY <1>4, <1>5, <1>6 DEF LoginInv, OwnLoginCompletes

\* However many tabs and frontends there are and whatever the other tabs do to the cookies of the
\* browser: a login that comes back in time to the process that began it is not refused for its state.
THEOREM OwnLoginCompletesCorrect == LoginSpec => []OwnLoginCompletes
<1>1. LoginInit => LoginInv
  <2>1. LoginInit => outcome = [t \in Tabs |-> NoOutcome]  BY DEF LoginInit
  <2>2. NoOutcome.timely = FALSE  BY DEF NoOutcome
  <2> HIDE DEF LoginInit
  <2> QED BY <2>1, <2>2 DEF LoginInv, OwnLoginCompletes
<1>2. LoginInv /\ [LoginNext]_loginVars => LoginInv'
  <2> SUFFICES ASSUME LoginInv, [LoginNext]_loginVars PROVE LoginInv'  OBVIOUS
  <2>1. ASSUME NEW t \in Tabs, NEW f \in Frontends, NEW code \in {"ok", "none", "refused"}, Callback(t, f, code)
        PROVE LoginInv'
    BY <2>1, CallbackSound
  <2>2. ASSUME NEW t \in Tabs, Again(t) PROVE LoginInv'
    BY <2>2 DEF Again, LoginInv, OwnLoginCompletes, NoOutcome
  <2>3. CASE UNCHANGED outcome  BY <2>3 DEF LoginInv, OwnLoginCompletes
  <2>4. \/ \E t \in Tabs, f \in Frontends, code \in {"ok", "none", "refused"} : Callback(t, f, code)
        \/ \E t \in Tabs : Again(t)
        \/ UNCHANGED outcome
    <3>1. ASSUME NEW t \in Tabs, NEW f \in Frontends, NEW ok \in BOOLEAN, Login(t, f, ok) PROVE UNCHANGED outcome
      BY <3>1 DEF Login
    <3>2. ASSUME \/ Logout \/ ClockTick \/ TokenExpires \/ User \/ UNCHANGED loginVars
                 \/ \E iam \in {"bad body", "failed", "ok"} : TokenExchange(iam)
                 \/ \E tenant \in {"0", "t"} : AbandonTokenProxy(tenant)
                 \/ \E token \in OperatorTokens : RequireTokenProxy(token, "t", "developer", None, 200)
                 \/ \E r \in ProxyRequests : RequireTokenProxy(Operator, r.tenant, r.role, r.ttl, r.iam)
                 \/ \E ok \in BOOLEAN : DirectToken(ok)
          PROVE UNCHANGED outcome
      BY <3>2 DEF Logout, ClockTick, TokenExpires, User, TokenExchange, AbandonTokenProxy, RequireTokenProxy,
                  DirectToken, loginVars
    <3> QED BY <3>1, <3>2 DEF LoginNext
  <2> QED BY <2>1, <2>2, <2>3, <2>4
<1>3. LoginInv => OwnLoginCompletes  BY DEF LoginInv
<1> QED BY <1>1, <1>2, <1>3, PTL DEF LoginSpec

------------------------------------------------------------------------------
\* SshProxy: the close of a channel comes last

Channel == [open : BOOLEAN, bData : Nat, bSent : Nat, bStatus : {"none", "sent"}, bReq : {0, 1}, bEof : BOOLEAN,
            bClosed : BOOLEAN, cData : Int, cSent : Int, cEof : BOOLEAN, cClosed : BOOLEAN, got : Nat,
            gotStatus : BOOLEAN, gotClose : BOOLEAN, upDone : BOOLEAN, downDone : BOOLEAN, reqDone : BOOLEAN]

\* Nothing of the backend is lost between the mux and a client that has not closed; a copy or the
\* requests are done only when the backend has nothing more to send on that way.
NothingLost(k) ==
    /\ ~k.cClosed => /\ k.got + k.bData = k.bSent
                     /\ k.bStatus = "sent" => (k.gotStatus \/ k.bReq = 1)
                     /\ k.downDone => k.bData = 0 /\ k.bEof
    /\ k.bClosed => k.bEof
    /\ k.reqDone => k.bReq = 0 /\ k.bClosed
    /\ k.gotClose => k.downDone /\ k.reqDone

SshInv == chan \in [SshConns -> Channel] /\ \A c \in SshConns : NothingLost(chan[c])

\* One channel changes at a time.
LEMMA OneChannel ==
    ASSUME SshInv, NEW c \in SshConns, NEW new, chan' = [chan EXCEPT ![c] = new], new \in Channel, NothingLost(new)
    PROVE  SshInv'
    BY DEF SshInv

LEMMA EmptyChannel == NoChannel \in Channel /\ NothingLost(NoChannel)
    BY DEF NoChannel, Channel, NothingLost

\* What the backend sends is in the mux, or nothing more comes.
LEMMA BackendSendsSound ==
    ASSUME SshInv, NEW c \in SshConns, BackendSends(c)
    PROVE  SshInv'
<1> DEFINE k == chan[c]
<1>1. k \in Channel /\ NothingLost(k)  BY DEF SshInv
<1>2. PICK d \in Nat, n \in Nat : d = k.bData + 1 /\ n = k.bSent + 1  BY <1>1 DEF Channel
<1>3. PICK new : /\ chan' = [chan EXCEPT ![c] = new]
                 /\ \/ ~k.bEof /\ new = [k EXCEPT !.bData = d, !.bSent = n]
                    \/ k.bStatus = "none" /\ ~k.bClosed /\ new = [k EXCEPT !.bStatus = "sent", !.bReq = 1]
                    \/ new = [k EXCEPT !.bEof = TRUE]
                    \/ new = [k EXCEPT !.bEof = TRUE, !.bClosed = TRUE]
  BY <1>2 DEF BackendSends, Chan
<1> HIDE DEF k
<1>4. new \in Channel /\ NothingLost(new)
  <2>1. CASE ~k.bEof /\ new = [k EXCEPT !.bData = d, !.bSent = n]
    <3>1. new \in Channel  BY <1>1, <2>1 DEF Channel
    <3>2. new.bData = d /\ new.bSent = n /\ new.got = k.got  BY <1>1, <2>1 DEF Channel
    <3>3. /\ new.cClosed = k.cClosed /\ new.bStatus = k.bStatus /\ new.gotStatus = k.gotStatus /\ new.bReq = k.bReq
          /\ new.downDone = k.downDone /\ new.bEof = k.bEof /\ new.bClosed = k.bClosed /\ new.reqDone = k.reqDone /\ new.gotClose = k.gotClose
      BY <1>1, <2>1 DEF Channel
    <3>4. k.got \in Nat /\ k.bData \in Nat /\ k.bSent \in Nat  BY <1>1 DEF Channel
    <3> QED BY <1>1, <1>2, <2>1, <3>1, <3>2, <3>3, <3>4 DEF NothingLost
  <2>2. CASE k.bStatus = "none" /\ ~k.bClosed /\ new = [k EXCEPT !.bStatus = "sent", !.bReq = 1]
    BY <1>1, <2>2 DEF Channel, NothingLost
  <2>3. CASE new = [k EXCEPT !.bEof = TRUE]  BY <1>1, <2>3 DEF Channel, NothingLost
  <2>4. CASE new = [k EXCEPT !.bEof = TRUE, !.bClosed = TRUE]  BY <1>1, <2>4 DEF Channel, NothingLost
  <2> QED BY <1>3, <2>1, <2>2, <2>3, <2>4
<1> QED BY <1>3, <1>4, OneChannel

\* What the client sends, and its copy to the backend, leave the way back alone.
LEMMA ClientSideSound ==
    ASSUME SshInv, NEW c \in SshConns, SshClientSends(c) \/ CopyToBackend(c)
    PROVE  SshInv'
<1> DEFINE k == chan[c]
<1>1. k \in Channel /\ NothingLost(k)  BY DEF SshInv
<1>2. PICK d \in Int, n \in Int, u \in Int : d = k.cData + 1 /\ n = k.cSent + 1 /\ u = k.cData - 1  BY <1>1 DEF Channel
<1>3. PICK new : /\ chan' = [chan EXCEPT ![c] = new]
                 /\ \/ new = [k EXCEPT !.cData = d, !.cSent = n]
                    \/ new = [k EXCEPT !.cEof = TRUE]
                    \/ new = [k EXCEPT !.cEof = TRUE, !.cClosed = TRUE]
                    \/ new = [k EXCEPT !.cData = u, !.upDone = k.bClosed]
                    \/ new = [k EXCEPT !.upDone = TRUE]
  BY <1>2 DEF SshClientSends, CopyToBackend, Chan
<1> HIDE DEF k
<1>4. new \in Channel /\ NothingLost(new)
  <2>1. CASE new = [k EXCEPT !.cData = d, !.cSent = n]  BY <1>1, <2>1 DEF Channel, NothingLost
  <2>2. CASE new = [k EXCEPT !.cEof = TRUE]  BY <1>1, <2>2 DEF Channel, NothingLost
  <2>3. CASE new = [k EXCEPT !.cEof = TRUE, !.cClosed = TRUE]  BY <1>1, <2>3 DEF Channel, NothingLost
  <2>4. CASE new = [k EXCEPT !.cData = u, !.upDone = k.bClosed]  BY <1>1, <2>4 DEF Channel, NothingLost
  <2>5. CASE new = [k EXCEPT !.upDone = TRUE]  BY <1>1, <2>5 DEF Channel, NothingLost
  <2> QED BY <1>3, <2>1, <2>2, <2>3, <2>4, <2>5
<1> QED BY <1>3, <1>4, OneChannel

\* copyChannel to the client ends with the output, or with a client that has closed.
LEMMA CopyToClientSound ==
    ASSUME SshInv, NEW c \in SshConns, CopyToClient(c)
    PROVE  SshInv'
<1> DEFINE k == chan[c]
<1>1. k \in Channel /\ NothingLost(k)  BY DEF SshInv
<1>2. CASE k.bData > 0
  <2>1. PICK d \in Nat, g \in Nat, closed \in BOOLEAN :
            /\ d = k.bData - 1 /\ g = (IF k.cClosed THEN k.got ELSE k.got + 1) /\ closed = k.cClosed
    BY <1>1, <1>2 DEF Channel
  <2>2. PICK new : chan' = [chan EXCEPT ![c] = new] /\ new = [k EXCEPT !.bData = d, !.got = g, !.downDone = closed]
    BY <1>2, <2>1 DEF CopyToClient, Chan
  <2>3. ~k.downDone  BY DEF CopyToClient
  <2> HIDE DEF k
  <2>4. new \in Channel /\ NothingLost(new)
    <3>1. new \in Channel  BY <1>1, <2>2 DEF Channel
    <3>2. new.bData = d /\ new.bSent = k.bSent /\ new.got = g /\ new.downDone = closed  BY <1>1, <2>2 DEF Channel
    <3>3. /\ new.cClosed = k.cClosed /\ new.bStatus = k.bStatus /\ new.gotStatus = k.gotStatus /\ new.bReq = k.bReq
          /\ new.bEof = k.bEof /\ new.bClosed = k.bClosed /\ new.reqDone = k.reqDone /\ new.gotClose = k.gotClose
      BY <1>1, <2>2 DEF Channel
    <3>4. k.got \in Nat /\ k.bData \in Nat /\ k.bSent \in Nat  BY <1>1 DEF Channel
    <3> QED BY <1>1, <1>2, <2>1, <2>3, <3>1, <3>2, <3>3, <3>4 DEF NothingLost
  <2> QED BY <2>2, <2>4, OneChannel
<1>3. CASE ~(k.bData > 0)
  <2>1. k.bData = 0 /\ k.bEof /\ chan' = [chan EXCEPT ![c] = [k EXCEPT !.downDone = TRUE]]
    BY <1>1, <1>3 DEF CopyToClient, Chan, Channel
  <2> HIDE DEF k
  <2>2. [k EXCEPT !.downDone = TRUE] \in Channel /\ NothingLost([k EXCEPT !.downDone = TRUE])
    BY <1>1, <2>1 DEF Channel, NothingLost
  <2> QED BY <2>1, <2>2, OneChannel
<1> QED BY <1>2, <1>3

\* proxyChannelRequests and the deferred closes.
LEMMA RequestsAndCloseSound ==
    ASSUME SshInv, NEW c \in SshConns, ProxyChannelRequests(c) \/ CloseChannels(c)
    PROVE  SshInv'
<1> DEFINE k == chan[c]
<1>1. k \in Channel /\ NothingLost(k)  BY DEF SshInv
<1>2. PICK open \in BOOLEAN : open = ~k.cClosed  BY <1>1 DEF Channel
<1>3. PICK new : /\ chan' = [chan EXCEPT ![c] = new]
                 /\ \/ k.bReq > 0 /\ new = [k EXCEPT !.bReq = 0, !.gotStatus = open]
                    \/ k.bReq = 0 /\ k.bClosed /\ new = [k EXCEPT !.reqDone = TRUE]
                    \/ k.downDone /\ k.reqDone /\ new = [k EXCEPT !.gotClose = TRUE]
  BY <1>2 DEF ProxyChannelRequests, CloseChannels, Chan
<1> HIDE DEF k
<1>4. new \in Channel /\ NothingLost(new)
  <2>1. CASE k.bReq > 0 /\ new = [k EXCEPT !.bReq = 0, !.gotStatus = open]
    BY <1>1, <1>2, <2>1 DEF Channel, NothingLost
  <2>2. CASE k.bReq = 0 /\ k.bClosed /\ new = [k EXCEPT !.reqDone = TRUE]  BY <1>1, <2>2 DEF Channel, NothingLost
  <2>3. CASE k.downDone /\ k.reqDone /\ new = [k EXCEPT !.gotClose = TRUE]  BY <1>1, <2>3 DEF Channel, NothingLost
  <2> QED BY <1>3, <2>1, <2>2, <2>3
<1> QED BY <1>3, <1>4, OneChannel

\* For every number of connections and any amount of data: a client that did not close its channel
\* itself has all the output and the exit status when the bastion closes it.
THEOREM ClosedAfterStatusCorrect == SshSpec => []ClosedAfterStatus
<1>1. SshInit => SshInv
  <2>1. SshInit => chan = [c \in SshConns |-> NoChannel]  BY DEF SshInit
  <2> QED BY <2>1, EmptyChannel DEF SshInv
<1>2. SshInv /\ [SshNext]_sshVars => SshInv'
  <2> SUFFICES ASSUME SshInv, [SshNext]_sshVars PROVE SshInv'  OBVIOUS
  <2>1. ASSUME NEW c \in SshConns, EndConnection(c) PROVE SshInv'
    BY <2>1, EmptyChannel, OneChannel DEF EndConnection
  <2>2. ASSUME NEW c \in SshConns, OpenChannel(c) PROVE SshInv'
    <3>1. PICK k : k = [NoChannel EXCEPT !.open = TRUE]  OBVIOUS
    <3>2. k \in Channel  BY <3>1, EmptyChannel DEF Channel
    <3>3. NothingLost(k)  BY <3>1 DEF NoChannel, NothingLost
    <3> QED BY <2>2, <3>1, <3>2, <3>3, OneChannel DEF OpenChannel, Chan
  <2>3. CASE UNCHANGED chan  BY <2>3 DEF SshInv
  <2>4. ASSUME NEW c \in SshConns,
               \/ \E name \in UserNames : AcceptConn(c, name)
               \/ Handshake(c) \/ ResolveTarget(c) \/ DialBackend(c) \/ Disconnect(c)
        PROVE  EndConnection(c) \/ UNCHANGED chan
    BY <2>4 DEF AcceptConn, Handshake, ResolveTarget, DialBackend, Disconnect
  <2>5. CASE UNCHANGED sshVars  BY <2>3, <2>5 DEF sshVars
  <2> QED BY <2>1, <2>2, <2>3, <2>4, <2>5, BackendSendsSound, ClientSideSound, CopyToClientSound,
             RequestsAndCloseSound DEF SshNext
<1>3. SshInv => ClosedAfterStatus
  <2> SUFFICES ASSUME SshInv, NEW c \in SshConns, chan[c].gotClose, ~chan[c].cClosed
               PROVE  chan[c].got = chan[c].bSent /\ (chan[c].bStatus = "sent" => chan[c].gotStatus)
    BY DEF ClosedAfterStatus
  <2>1. chan[c] \in Channel /\ NothingLost(chan[c])  BY DEF SshInv
  <2> QED BY <2>1 DEF Channel, NothingLost
<1> QED BY <1>1, <1>2, <1>3, PTL DEF SshSpec

------------------------------------------------------------------------------
\* Tunnels: the bytes of the client

Forms == {None} \cup {RewriteRequest(r) : r \in TunnelRequests}
Piece == [what : STRING \cup {"r"}, as : Forms]

\* What is left of the client's bytes after the first n of them.
RestAfter(s, n) == Len(s) + n = Len(ClientBytes) /\ \A j \in 1 .. Len(s) : s[j] = ClientBytes[n + j]

TunnelType ==
    /\ tun = [pc |-> tun.pc, req |-> tun.req, tenant |-> tun.tenant, code |-> tun.code] /\ tun.req \in TunnelRequests
    /\ up \in Seq(Piece) /\ clientLeft \in Seq(STRING) /\ prefetch \in Seq(STRING)

\* Where the bytes of the client are: with the client, then partly read ahead, then in the tunnel.
BytesKept ==
    /\ tun.pc \in {"start", "route", "dial", "hijack"} => up = <<>> /\ prefetch = <<>> /\ clientLeft = ClientBytes
    /\ tun.pc \in {"write", "flush"} => /\ \A j \in 1 .. Len(prefetch) : prefetch[j] = ClientBytes[j]
                                        /\ RestAfter(clientLeft, Len(prefetch))
    /\ tun.pc = "write" => up = <<>>
    /\ tun.pc = "flush" => Len(up) = 1
    /\ tun.pc = "pipe" => Len(up) >= 1 /\ RestAfter(clientLeft, Len(up) - 1)

TunnelInv == TunnelType /\ BytesKept /\ UpstreamInOrder

LEMMA NoneIsForm == None \in Forms
    BY DEF Forms

\* A step that leaves the bytes alone, on the way to the hijack or to the end.
LEMMA BytesStay ==
    ASSUME TunnelInv, UNCHANGED <<up, clientLeft, prefetch>>,
           tun' = [pc |-> tun'.pc, req |-> tun'.req, tenant |-> tun'.tenant, code |-> tun'.code], tun'.req = tun.req,
           \/ tun'.pc = tun.pc
           \/ tun'.pc \in {"refused", "closed"}
           \/ tun.pc \in {"start", "route", "dial"} /\ tun'.pc \in {"route", "dial", "hijack"}
    PROVE  TunnelInv'
    BY DEF TunnelInv, TunnelType, BytesKept, UpstreamInOrder, RestAfter

\* How a step may change the request's record.
LEMMA TunChanges ==
    ASSUME TunnelType, NEW p, NEW n, NEW q,
           \/ tun' = [tun EXCEPT !.pc = p]
           \/ tun' = [tun EXCEPT !.pc = p, !.code = n]
           \/ tun' = [tun EXCEPT !.pc = p, !.tenant = q]
    PROVE  /\ tun' = [pc |-> tun'.pc, req |-> tun'.req, tenant |-> tun'.tenant, code |-> tun'.code]
           /\ tun'.req = tun.req /\ tun'.pc = p
<1>1. PICK pc0, r0, t0, c0 : tun = [pc |-> pc0, req |-> r0, tenant |-> t0, code |-> c0]  BY DEF TunnelType
<1> QED BY <1>1

\* Before the connection is taken over.
LEMMA DialSound ==
    ASSUME TunnelInv, DialSandboxTunnel \/ ResolveAndAuthorize \/ DialTunnel
    PROVE  TunnelInv'
<1>1. TunnelType /\ UNCHANGED <<up, clientLeft, prefetch>>
  BY DEF TunnelInv, DialSandboxTunnel, ResolveAndAuthorize, DialTunnel, pipeVars
<1>2. tun.pc \in {"start", "route", "dial"}  BY DEF DialSandboxTunnel, ResolveAndAuthorize, DialTunnel
<1>3. ASSUME NEW n, tun' = [tun EXCEPT !.pc = "refused", !.code = n] PROVE TunnelInv'
  BY <1>1, <1>3, TunChanges, BytesStay
<1>4. ASSUME NEW p \in {"dial", "hijack"}, tun' = [tun EXCEPT !.pc = p] PROVE TunnelInv'
  BY <1>1, <1>2, <1>4, TunChanges, BytesStay
<1>5. ASSUME NEW q, tun' = [tun EXCEPT !.pc = "route", !.tenant = q] PROVE TunnelInv'
  BY <1>1, <1>2, <1>5, TunChanges, BytesStay
<1>6. CASE DialSandboxTunnel
  <2>1. \/ \E n \in {400, 401, 409} : tun' = [tun EXCEPT !.pc = "refused", !.code = n]
        \/ tun' = [tun EXCEPT !.pc = "route", !.tenant = Authenticated(tun.req)]
    BY <1>6 DEF DialSandboxTunnel, Refuse
  <2> QED BY <1>3, <1>5, <2>1
<1>7. CASE ResolveAndAuthorize
  <2>1. \/ \E n \in {403, 502} : tun' = [tun EXCEPT !.pc = "refused", !.code = n]
        \/ tun' = [tun EXCEPT !.pc = "dial"]
    BY <1>7 DEF ResolveAndAuthorize, Refuse, TunnelGo
  <2> QED BY <1>3, <1>4, <2>1
<1>8. CASE DialTunnel
  <2>1. \/ \E n \in {500, 502} : tun' = [tun EXCEPT !.pc = "refused", !.code = n]
        \/ tun' = [tun EXCEPT !.pc = "hijack"]
    BY <1>8 DEF DialTunnel, Refuse
  <2> QED BY <1>3, <1>4, <2>1
<1> QED BY <1>6, <1>7, <1>8

\* Hijack: what the server read ahead and what it left are the client's bytes, wherever it stopped.
LEMMA HijackSound ==
    ASSUME TunnelInv, Hijack
    PROVE  TunnelInv'
<1>1. TunnelType /\ tun.pc = "hijack" /\ up = <<>> /\ up' = up /\ clientLeft = ClientBytes
  BY DEF TunnelInv, BytesKept, Hijack
<1>2. CASE tun' = [tun EXCEPT !.pc = "refused", !.code = 500] /\ UNCHANGED <<prefetch, clientLeft>>
  <2>1. /\ tun' = [pc |-> tun'.pc, req |-> tun'.req, tenant |-> tun'.tenant, code |-> tun'.code]
        /\ tun'.req = tun.req /\ tun'.pc = "refused"
    BY <1>1, <1>2, TunChanges
  <2> QED BY <1>1, <1>2, <2>1, BytesStay
<1>3. ASSUME tun' = [tun EXCEPT !.pc = "write"], NEW n \in 0 .. Len(clientLeft), prefetch' = SubSeq(clientLeft, 1, n),
             clientLeft' = SubSeq(clientLeft, n + 1, Len(clientLeft))
      PROVE TunnelInv'
  <2>1. tun' = [pc |-> tun'.pc, req |-> tun'.req, tenant |-> tun'.tenant, code |-> tun'.code]
        /\ tun'.req = tun.req /\ tun'.pc = "write"
    BY <1>1, <1>3, TunChanges
  <2>2. ClientBytes \in Seq(STRING) /\ n \in 0 .. Len(ClientBytes)  BY <1>1, <1>3, ClientBytesAssumption
  <2>3. prefetch' \in Seq(STRING) /\ Len(prefetch') = n /\ \A j \in 1 .. n : prefetch'[j] = ClientBytes[j]
    BY <1>1, <1>3, <2>2
  <2>4. /\ clientLeft' \in Seq(STRING) /\ Len(clientLeft') = Len(ClientBytes) - n
        /\ \A j \in 1 .. Len(clientLeft') : clientLeft'[j] = ClientBytes[n + j]
    BY <1>1, <1>3, <2>2
  <2>5. TunnelType'  BY <1>1, <2>1, <2>3, <2>4 DEF TunnelType
  <2>6. BytesKept'  BY <1>1, <2>1, <2>2, <2>3, <2>4 DEF BytesKept, RestAfter
  <2> QED BY <1>1, <2>5, <2>6 DEF TunnelInv, UpstreamInOrder
<1> QED BY <1>2, <1>3 DEF Hijack

\* The request goes first.
LEMMA WriteRequestSound ==
    ASSUME TunnelInv, WriteRequest
    PROVE  TunnelInv'
<1>1. TunnelType /\ tun.pc = "write" /\ up = <<>> /\ UNCHANGED <<clientLeft, prefetch>>
  BY DEF TunnelInv, BytesKept, WriteRequest
<1>2. CASE tun' = [tun EXCEPT !.pc = "closed"] /\ up' = up  BY <1>1, <1>2, TunChanges, BytesStay
<1>3. CASE tun' = [tun EXCEPT !.pc = "flush"] /\ up' = <<[what |-> "r", as |-> RewriteRequest(tun.req)]>>
  <2>1. tun' = [pc |-> tun'.pc, req |-> tun'.req, tenant |-> tun'.tenant, code |-> tun'.code]
        /\ tun'.req = tun.req /\ tun'.pc = "flush"
    BY <1>1, <1>3, TunChanges
  <2>2. PICK e \in Piece : e = [what |-> "r", as |-> RewriteRequest(tun.req)]
    <3>1. RewriteRequest(tun.req) \in Forms  BY <1>1 DEF Forms, TunnelType
    <3>2. PICK f \in Forms : f = RewriteRequest(tun.req)  BY <3>1
    <3>3. [what |-> "r", as |-> f] \in Piece  BY DEF Piece
    <3> QED BY <3>2, <3>3
  <2>3. up' \in Seq(Piece) /\ Len(up') = 1 /\ up'[1].what = "r"  BY <1>3, <2>2
  <2>4. TunnelType'  BY <1>1, <2>1, <2>3 DEF TunnelType
  <2>5. BytesKept'  BY <1>1, <2>1, <2>3 DEF TunnelInv, BytesKept, RestAfter
  <2> QED BY <2>3, <2>4, <2>5 DEF TunnelInv, UpstreamInOrder
<1> QED BY <1>2, <1>3 DEF WriteRequest, TunnelGo

\* flushPrefetch: what was read ahead follows the request.
LEMMA FlushPrefetchSound ==
    ASSUME TunnelInv, FlushPrefetch
    PROVE  TunnelInv'
<1>1. TunnelType /\ tun.pc = "flush" /\ Len(up) = 1 /\ clientLeft' = clientLeft /\ tun' = [tun EXCEPT !.pc = "pipe"]
  BY DEF TunnelInv, BytesKept, FlushPrefetch, TunnelGo
<1>2. tun' = [pc |-> tun'.pc, req |-> tun'.req, tenant |-> tun'.tenant, code |-> tun'.code]
      /\ tun'.req = tun.req /\ tun'.pc = "pipe"
  BY <1>1, TunChanges
<1>3. up \in Seq(Piece) /\ prefetch \in Seq(STRING) /\ clientLeft \in Seq(STRING)  BY <1>1 DEF TunnelType
<1>4. PICK raw \in Seq(Piece) : /\ raw = Raw(prefetch) /\ Len(raw) = Len(prefetch)
                               /\ \A j \in 1 .. Len(prefetch) : raw[j].what = prefetch[j]
  <2> DEFINE F(j) == [what |-> prefetch[j], as |-> None]
  <2>1. \A j \in 1 .. Len(prefetch) : prefetch[j] \in STRING  BY <1>3
  <2>2. \A j \in 1 .. Len(prefetch) : F(j) \in Piece /\ F(j).what = prefetch[j]  BY <2>1, NoneIsForm DEF Piece
  <2>3. Raw(prefetch) = [j \in 1 .. Len(prefetch) |-> F(j)] /\ Len(prefetch) \in Nat  BY <1>3 DEF Raw
  <2> HIDE DEF F
  <2>4. PICK raw : raw = Raw(prefetch)  OBVIOUS
  <2>5. raw \in [1 .. Len(prefetch) -> Piece] /\ \A j \in 1 .. Len(prefetch) : raw[j] = F(j)  BY <2>2, <2>3, <2>4
  <2>6. raw \in Seq(Piece) /\ Len(raw) = Len(prefetch)  BY <2>3, <2>5
  <2> QED BY <2>2, <2>4, <2>5, <2>6
<1>5. up' = up \o raw /\ prefetch' = <<>>  BY <1>4 DEF FlushPrefetch
<1>6. /\ up' \in Seq(Piece) /\ Len(up') = 1 + Len(prefetch) /\ up'[1] = up[1]
      /\ \A j \in 1 .. Len(prefetch) : up'[1 + j] = raw[j]
  <2>1. Len(prefetch) \in Nat /\ Len(up) = 1  BY <1>1, <1>3
  <2>2. /\ up \o raw \in Seq(Piece) /\ Len(up \o raw) = 1 + Len(prefetch)
        /\ \A i \in 1 .. 1 + Len(prefetch) : (up \o raw)[i] = IF i <= 1 THEN up[i] ELSE raw[i - 1]
    <3>1. up \in Seq(Piece) /\ raw \in Seq(Piece)  BY <1>3, <1>4
    <3>2. /\ up \o raw \in Seq(Piece) /\ Len(up \o raw) = Len(up) + Len(raw)
          /\ \A i \in 1 .. Len(up) + Len(raw) : (up \o raw)[i] = IF i <= Len(up) THEN up[i] ELSE raw[i - Len(up)]
      BY <3>1, ConcatProperties, Zenon
    <3>3. Len(raw) = Len(prefetch)  BY <1>4
    <3> QED BY <2>1, <3>2, <3>3
  <2>3. \A j \in 1 .. Len(prefetch) : (1 + j) \in 1 .. 1 + Len(prefetch) /\ ~(1 + j <= 1) /\ (1 + j) - 1 = j
    BY <2>1
  <2>4. 1 \in 1 .. 1 + Len(prefetch)  BY <2>1
  <2> QED BY <1>5, <2>2, <2>3, <2>4
<1>7. up # <<>> /\ up[1].what = "r"
  <2>1. Len(up) = 1 /\ up \in Seq(Piece)  BY <1>1, <1>3
  <2>2. up # <<>>  BY <2>1
  <2> QED BY <2>2 DEF TunnelInv, UpstreamInOrder
<1>8. /\ \A j \in 1 .. Len(prefetch) : prefetch[j] = ClientBytes[j]
      /\ RestAfter(clientLeft, Len(prefetch)) /\ Len(prefetch) \in Nat
  BY <1>1, <1>3 DEF TunnelInv, BytesKept
<1>9. \A i \in 2 .. Len(up') : up'[i].what = ClientBytes[i - 1]
  <2> SUFFICES ASSUME NEW i \in 2 .. Len(up') PROVE up'[i].what = ClientBytes[i - 1]  OBVIOUS
  <2>1. PICK j \in 1 .. Len(prefetch) : i = 1 + j /\ i - 1 = j  BY <1>6, <1>8
  <2> QED BY <1>4, <1>6, <1>8, <2>1
<1>10. TunnelType'  BY <1>1, <1>2, <1>3, <1>5, <1>6 DEF TunnelType
<1>11. RestAfter(clientLeft', Len(up') - 1)
  <2>1. Len(up') - 1 = Len(prefetch)  BY <1>6, <1>8
  <2> QED BY <1>1, <1>8, <2>1
<1>12. BytesKept'
  <2>1. Len(up') >= 1  BY <1>6, <1>8
  <2> QED BY <1>2, <1>11, <2>1 DEF BytesKept
<1> QED BY <1>6, <1>7, <1>9, <1>10, <1>12 DEF TunnelInv, UpstreamInOrder

\* pipe: the next byte of the client is the next one in the tunnel.
LEMMA CopyUpSound ==
    ASSUME TunnelInv, CopyUp
    PROVE  TunnelInv'
<1> DEFINE e == [what |-> Head(clientLeft), as |-> None]
<1>1. /\ TunnelType /\ tun.pc = "pipe" /\ tun' = tun /\ prefetch' = prefetch
      /\ Len(up) >= 1 /\ RestAfter(clientLeft, Len(up) - 1) /\ UpstreamInOrder
  BY DEF TunnelInv, BytesKept, CopyUp
<1>2. /\ up \in Seq(Piece) /\ clientLeft \in Seq(STRING) /\ clientLeft # <<>> /\ Len(up) \in Nat /\ Len(clientLeft) \in Nat
      /\ Len(clientLeft) >= 1
  BY <1>1 DEF TunnelType, CopyUp
<1>3. e \in Piece /\ e.what = clientLeft[1]  BY <1>2, NoneIsForm DEF Piece
<1>4. up' = Append(up, e) /\ clientLeft' = Tail(clientLeft)  BY DEF CopyUp
<1> HIDE DEF e
<1>5. /\ up' \in Seq(Piece) /\ Len(up') = Len(up) + 1 /\ up'[Len(up) + 1] = e
      /\ \A i \in 1 .. Len(up) : up'[i] = up[i]
  BY <1>2, <1>3, <1>4
<1>6. /\ clientLeft' \in Seq(STRING) /\ Len(clientLeft') = Len(clientLeft) - 1
      /\ \A j \in 1 .. Len(clientLeft') : clientLeft'[j] = clientLeft[j + 1]
  BY <1>2, <1>4
<1>7. clientLeft[1] = ClientBytes[Len(up)]  BY <1>1, <1>2 DEF RestAfter
<1>8. \A i \in 2 .. Len(up') : up'[i].what = ClientBytes[i - 1]
  <2> SUFFICES ASSUME NEW i \in 2 .. Len(up') PROVE up'[i].what = ClientBytes[i - 1]  OBVIOUS
  <2>1. CASE i = Len(up) + 1
    <3>1. i - 1 = Len(up)  BY <1>2, <2>1
    <3> QED BY <1>3, <1>5, <1>7, <2>1, <3>1
  <2>2. CASE i # Len(up) + 1
    <3>1. i \in 2 .. Len(up) /\ i \in 1 .. Len(up)  BY <1>2, <1>5, <2>2
    <3>2. up # <<>>  BY <1>1, <1>2
    <3> QED BY <1>1, <1>5, <3>1, <3>2 DEF UpstreamInOrder
  <2> QED BY <2>1, <2>2
<1>9. up'[1].what = "r"
  <2>1. up # <<>> /\ 1 \in 1 .. Len(up)  BY <1>1, <1>2
  <2> QED BY <1>1, <1>5, <2>1 DEF UpstreamInOrder
<1>10. RestAfter(clientLeft', Len(up') - 1)
  <2>1. Len(up') - 1 = Len(up) /\ Len(clientLeft') + Len(up) = Len(ClientBytes)
    BY <1>1, <1>2, <1>5, <1>6 DEF RestAfter
  <2>2. ASSUME NEW j \in 1 .. Len(clientLeft') PROVE clientLeft'[j] = ClientBytes[Len(up) + j]
    <3>1. j + 1 \in 1 .. Len(clientLeft) /\ (Len(up) - 1) + (j + 1) = Len(up) + j  BY <1>2, <1>6
    <3>2. clientLeft[j + 1] = ClientBytes[(Len(up) - 1) + (j + 1)]  BY <1>1, <3>1 DEF RestAfter
    <3> QED BY <1>6, <3>1, <3>2
  <2> QED BY <2>1, <2>2 DEF RestAfter
<1>11. TunnelType'  BY <1>1, <1>5, <1>6 DEF TunnelType
<1>12. BytesKept'  BY <1>1, <1>2, <1>5, <1>10 DEF BytesKept, RestAfter
<1> QED BY <1>8, <1>9, <1>11, <1>12 DEF TunnelInv, UpstreamInOrder

\* For every request and all that the client sends: the sandbox reads the request first and then
\* the client's bytes in their order without a gap, wherever the server stopped reading ahead.
THEOREM UpstreamInOrderCorrect == TunnelSpec => []UpstreamInOrder
<1>1. TunnelInit => TunnelInv
  <2> SUFFICES ASSUME TunnelInit PROVE TunnelInv  OBVIOUS
  <2>1. PICK r \in TunnelRequests : tun = [pc |-> "start", req |-> r, tenant |-> None, code |-> 0]  BY DEF TunnelInit
  <2>2. up = <<>> /\ prefetch = <<>> /\ clientLeft = ClientBytes  BY DEF TunnelInit
  <2>3. tun.pc = "start" /\ tun.req = r
        /\ tun = [pc |-> tun.pc, req |-> tun.req, tenant |-> tun.tenant, code |-> tun.code]
    BY <2>1
  <2> QED BY <2>2, <2>3, ClientBytesAssumption DEF TunnelInv, TunnelType, BytesKept, UpstreamInOrder
<1>2. TunnelInv /\ [TunnelNext]_tunnelVars => TunnelInv'
  <2> SUFFICES ASSUME TunnelInv, [TunnelNext]_tunnelVars PROVE TunnelInv'  OBVIOUS
  <2>1. CASE CloseBoth
    <3>1. TunnelType /\ tun' = [tun EXCEPT !.pc = "closed"] /\ UNCHANGED <<up, clientLeft, prefetch>>
      BY <2>1 DEF TunnelInv, CloseBoth, pipeVars
    <3> QED BY <3>1, TunChanges, BytesStay
  <2>2. CASE tun' = tun /\ UNCHANGED <<up, clientLeft, prefetch>>
    BY <2>2, BytesStay DEF TunnelInv, TunnelType
  <2>3. ASSUME CopyDown \/ UNCHANGED tunnelVars \/ \E ins \in DOMAIN Sandboxes : RouteKnown(ins)
        PROVE  tun' = tun /\ UNCHANGED <<up, clientLeft, prefetch>>
    BY <2>3 DEF CopyDown, tunnelVars, RouteKnown, pipeVars
  <2> QED BY <2>1, <2>2, <2>3, DialSound, HijackSound, WriteRequestSound, FlushPrefetchSound, CopyUpSound
          DEF TunnelNext
<1>3. TunnelInv => UpstreamInOrder  BY DEF TunnelInv
<1> QED BY <1>1, <1>2, <1>3, PTL DEF TunnelSpec

------------------------------------------------------------------------------
\* RequestGate: what was checked is what is invoked

\* The alias whose first version has weight 0: its round robin never leaves its start.
LightAlias == [type |-> "weight", main |-> 2, gray |-> 0, weights |-> <<[urn |-> 1, w |-> 0], [urn |-> 2, w |-> 1]>>]

RoundRobinInv ==
    /\ alias \in Aliases
    /\ alias.type = "weight" => rr \in [1 .. 2 -> Int]
    /\ alias = LightAlias => rr[1] = 0 /\ rr[2] = 0

\* A request that skipped the token check is an invocation of candidates that are all public, until
\* it is routed to one of them or something changed.
Checked(q) ==
    q.skip => /\ q.route = "invoke" /\ q.pc \in {"handler", "invoked"}
              /\ ~q.stale => /\ q.pc = "handler" => Candidates(alias) \subseteq public
                             /\ q.pc = "invoked" => q.version \in public

GateFields == {"pc", "route", "token", "skip", "stale", "tenant", "version", "leader"}
GateShape(q) == q = [f \in GateFields |-> q[f]]

GateInv ==
    /\ gate = [r \in GateRequests |-> gate[r]] /\ \A r \in GateRequests : GateShape(gate[r]) /\ Checked(gate[r])
    /\ RoundRobinInv

LEMMA NewRequest == GateShape(NoRequest) /\ ~NoRequest.skip /\ NoRequest.pc = "new"
    BY DEF NoRequest, GateShape, GateFields

\* nextWeightedNode chooses a configuration with a weight, and the round robin of LightAlias stays.
LEMMA BestIsCandidate ==
    ASSUME RoundRobinInv, alias.type = "weight"
    PROVE  /\ Best \in 1 .. 2 /\ alias.weights[Best].urn \in Candidates(alias)
           /\ alias = LightAlias => Best = 2
<1>1. rr \in [1 .. 2 -> Int] /\ alias \in {FirstAlias, LightAlias}
  BY DEF RoundRobinInv, Aliases, LightAlias
<1>2. Weights(alias) \in [1 .. 2 -> Int] /\ (alias = LightAlias => Weights(alias)[1] = 0 /\ Weights(alias)[2] = 1)
      /\ DOMAIN alias.weights = 1 .. 2
  BY <1>1 DEF Weights, FirstAlias, LightAlias
<1> DEFINE u == [i \in DOMAIN rr |-> rr[i] + Weights(alias)[i]]
           P(i) == (\A j \in DOMAIN rr : u[i] >= u[j]) /\ (\A j \in 1 .. i - 1 : u[j] < u[i])
<1>3. DOMAIN rr = 1 .. 2 /\ u[1] \in Int /\ u[2] \in Int /\ u[1] = rr[1] + Weights(alias)[1]
      /\ u[2] = rr[2] + Weights(alias)[2]
  BY <1>1, <1>2
<1>4. Best = CHOOSE i \in DOMAIN rr : P(i)  BY DEF Best
<1> HIDE DEF u
<1>5. \E i \in DOMAIN rr : P(i)
  <2>1. CASE u[1] >= u[2]
    <3>1. P(1)  BY <1>3, <2>1
    <3> QED BY <1>3, <3>1
  <2>2. CASE ~(u[1] >= u[2])
    <3>1. P(2)  BY <1>3, <2>2
    <3> QED BY <1>3, <3>1
  <2> QED BY <2>1, <2>2
<1>6. Best \in 1 .. 2 /\ P(Best)  BY <1>3, <1>4, <1>5
<1>7. alias = LightAlias => Best = 2
  <2> SUFFICES ASSUME alias = LightAlias, Best # 2 PROVE FALSE  OBVIOUS
  <2>1. u[1] = 0 /\ u[2] = 1  BY <1>2, <1>3 DEF RoundRobinInv
  <2>2. Best = 1  BY <1>6
  <2>3. u[1] >= u[2]  BY <1>3, <1>6, <2>2
  <2> QED BY <2>1, <2>3
<1>8. alias.weights[Best].urn \in Candidates(alias)
  <2>1. CASE alias = LightAlias
    <3>1. alias.weights[2].urn = 2 /\ alias.main = 2 /\ alias.type = "weight"  BY <2>1 DEF LightAlias
    <3>2. 2 \in Candidates(alias)  BY <3>1 DEF Candidates
    <3> QED BY <1>7, <2>1, <3>1, <3>2
  <2>2. CASE alias = FirstAlias
    <3>1. /\ alias.weights = <<[urn |-> 1, w |-> 2], [urn |-> 2, w |-> 1]>> /\ alias.type = "weight"
          /\ alias.weights[1].w > 0 /\ alias.weights[2].w > 0
      BY <2>2 DEF FirstAlias
    <3>2. \A i \in 1 .. 2 : alias.weights[i].urn \in Candidates(alias)
      BY <1>2, <3>1 DEF Candidates
    <3> QED BY <1>6, <3>2
  <2> QED BY <1>1, <2>1, <2>2
<1> QED BY <1>6, <1>7, <1>8

\* One request moves and nothing it was checked against changes.
LEMMA OneRequest ==
    ASSUME GateInv, NEW r \in GateRequests, NEW new, gate' = [gate EXCEPT ![r] = new], GateShape(new),
           alias' = alias, public' = public, rr' = rr, Checked(new)
    PROVE  GateInv'
<1>1. \A q \in GateRequests : gate'[q] = new \/ gate'[q] = gate[q]  BY DEF GateInv
<1>2. \A q \in GateRequests : GateShape(gate'[q]) /\ Checked(gate'[q])  BY <1>1 DEF GateInv
<1>3. \A q \in GateRequests : Checked(gate[q])'  BY <1>2 DEF Checked
<1>4. \A q \in GateRequests : GateShape(gate[q])'  BY <1>2 DEF GateShape
<1>5. gate' = [q \in GateRequests |-> gate'[q]]  BY DEF GateInv
<1> QED BY <1>3, <1>4, <1>5 DEF GateInv, RoundRobinInv

\* ArriveAtGate: the check is made against what the alias and the functions are.
LEMMA ArriveSound ==
    ASSUME GateInv, NEW r \in GateRequests, NEW route, NEW token, ArriveAtGate(r, route, token)
    PROVE  GateInv'
<1> DEFINE pc == GlobalJWTAuth(route, token)
           skip == InvokePreprocess(route)
           new == [NoRequest EXCEPT !.pc = pc, !.route = route, !.token = token, !.skip = skip]
<1>1. alias' = alias /\ public' = public /\ rr' = rr  BY DEF ArriveAtGate, routing
<1>2. gate' = [gate EXCEPT ![r] = IF pc = "refused" THEN NoRequest ELSE new]  BY DEF ArriveAtGate
<1>3. skip => pc = "handler" /\ route = "invoke" /\ Candidates(alias) \subseteq public
  BY DEF GlobalJWTAuth, InvokePreprocess
<1> HIDE DEF pc, skip
<1>4. GateShape(new) /\ new.pc = pc /\ new.route = route /\ new.skip = skip
  BY NewRequest DEF GateShape, GateFields
<1> HIDE DEF new
<1>5. Checked(new) /\ Checked(NoRequest) /\ GateShape(NoRequest)  BY <1>3, <1>4, NewRequest DEF Checked
<1> QED BY <1>1, <1>2, <1>4, <1>5, OneRequest

\* The token check is passed by requests that did not skip it.
LEMMA TokenCheckSound ==
    ASSUME GateInv, NEW r \in GateRequests,
           CacheHit(r) \/ CacheMiss(r) \/ (\E ok \in BOOLEAN : AskIam(r, ok)) \/ ServeGate(r)
    PROVE  GateInv'
<1>1. alias' = alias /\ public' = public /\ rr' = rr  BY DEF CacheHit, CacheMiss, AskIam, ServeGate, routing
<1>2. GateShape(gate[r]) /\ Checked(gate[r]) /\ gate = [q \in GateRequests |-> gate[q]]  BY DEF GateInv
<1>3. CASE ServeGate(r)
  <2>1. gate' = [gate EXCEPT ![r] = NoRequest] /\ Checked(NoRequest)  BY <1>3, NewRequest DEF ServeGate, Checked
  <2> QED BY <1>1, <2>1, NewRequest, OneRequest
<1>4. ASSUME NEW new, gate' = [gate EXCEPT ![r] = new], gate[r].pc \in {"iam", "ask"}, GateShape(new),
             new.skip = gate[r].skip
      PROVE GateInv'
  <2>1. ~gate[r].skip  BY <1>2, <1>4 DEF Checked
  <2>2. Checked(new)  BY <1>4, <2>1 DEF Checked
  <2> QED BY <1>1, <1>4, <2>2, OneRequest
<1>5. CASE CacheHit(r)
  <2>1. PICK t : gate[r].pc = "iam" /\ gate' = [gate EXCEPT ![r] = [gate[r] EXCEPT !.pc = "handler", !.tenant = t]]
    BY <1>5 DEF CacheHit, AcceptToken, In
  <2>2. PICK new : new = [gate[r] EXCEPT !.pc = "handler", !.tenant = t]  OBVIOUS
  <2>3. GateShape(new) /\ new.skip = gate[r].skip  BY <1>2, <2>2 DEF GateShape, GateFields
  <2> QED BY <1>4, <2>1, <2>2, <2>3
<1>6. CASE CacheMiss(r)
  <2>1. PICK l, new : /\ gate[r].pc = "iam" /\ gate' = [gate EXCEPT ![r] = new]
                      /\ new \in {[gate[r] EXCEPT !.pc = "ask"], [gate[r] EXCEPT !.pc = "join", !.leader = l]}
    BY <1>6 DEF CacheMiss, GateMoves, In
  <2>2. GateShape(new) /\ new.skip = gate[r].skip  BY <1>2, <2>1 DEF GateShape, GateFields
  <2> QED BY <1>4, <2>1, <2>2
<1>7. CASE \E ok \in BOOLEAN : AskIam(r, ok)
  <2>1. PICK p, new : gate[r].pc = "ask" /\ gate' = [gate EXCEPT ![r] = new] /\ new = [gate[r] EXCEPT !.pc = p]
    BY <1>7 DEF AskIam, GateMoves, In
  <2>2. GateShape(new) /\ new.skip = gate[r].skip  BY <1>2, <2>1 DEF GateShape, GateFields
  <2> QED BY <1>4, <2>1, <2>2
<1> QED BY <1>3, <1>5, <1>6, <1>7

\* The answer of IAM reaches those that wait for it, and none of them skipped the check.
LEMMA IamAnsweredSound ==
    ASSUME GateInv, NEW r \in GateRequests, IamAnswered(r)
    PROVE  GateInv'
<1>1. alias' = alias /\ public' = public /\ rr' = rr  BY DEF IamAnswered, routing
<1>2. PICK t : \A q \in GateRequests :
          \/ gate'[q] = gate[q]
          \/ gate'[q] = NoRequest
          \/ gate[q].pc \in {"valid", "invalid", "join"} /\ gate'[q] = [gate[q] EXCEPT !.pc = "handler", !.tenant = t]
  BY DEF IamAnswered, In
<1>3. gate' = [q \in GateRequests |-> gate'[q]]  BY DEF IamAnswered
<1>4. ASSUME NEW q \in GateRequests PROVE GateShape(gate'[q]) /\ Checked(gate'[q])
  <2>1. GateShape(gate[q]) /\ Checked(gate[q])  BY DEF GateInv
  <2>2. CASE gate'[q] = gate[q]  BY <2>1, <2>2
  <2>3. CASE gate'[q] = NoRequest  BY <2>3, NewRequest DEF Checked
  <2>4. CASE gate[q].pc \in {"valid", "invalid", "join"} /\ gate'[q] = [gate[q] EXCEPT !.pc = "handler", !.tenant = t]
    <3>1. ~gate[q].skip  BY <2>1, <2>4 DEF Checked
    <3>2. GateShape(gate'[q]) /\ gate'[q].skip = gate[q].skip  BY <2>1, <2>4 DEF GateShape, GateFields
    <3> QED BY <3>1, <3>2 DEF Checked
  <2> QED BY <1>2, <2>2, <2>3, <2>4
<1>5. \A q \in GateRequests : Checked(gate[q])' /\ GateShape(gate[q])'  BY <1>1, <1>4 DEF Checked, GateShape
<1> QED BY <1>1, <1>3, <1>5 DEF GateInv, RoundRobinInv

\* An event of the alias or of a function leaves no request that still relies on its check.
LEMMA EventsSound ==
    ASSUME GateInv, (\E a \in Aliases : AliasEvent(a)) \/ (\E v \in {1, 2} : FunctionEvent(v))
    PROVE  GateInv'
<1>1. gate' = [r \in GateRequests |-> IF GateEnded(r) THEN NoRequest ELSE [gate[r] EXCEPT !.stale = TRUE]]
  BY DEF AliasEvent, FunctionEvent
<1>2. ASSUME NEW r \in GateRequests PROVE GateShape(gate'[r]) /\ Checked(gate[r])'
  <2>1. GateShape(gate[r]) /\ Checked(gate[r])  BY DEF GateInv
  <2>2. CASE gate'[r] = NoRequest  BY <2>2, NewRequest DEF Checked
  <2>3. CASE gate'[r] = [gate[r] EXCEPT !.stale = TRUE]
    <3>1. GateShape(gate'[r]) /\ gate'[r].stale = TRUE /\ gate'[r].skip = gate[r].skip /\ gate'[r].route = gate[r].route
          /\ gate'[r].pc = gate[r].pc
      BY <2>1, <2>3 DEF GateShape, GateFields
    <3> QED BY <2>1, <3>1 DEF Checked
  <2> QED BY <1>1, <2>2, <2>3
<1>3. RoundRobinInv'
  <2>1. CASE \E v \in {1, 2} : FunctionEvent(v)  BY <2>1 DEF FunctionEvent, GateInv, RoundRobinInv
  <2>2. ASSUME NEW a \in Aliases, AliasEvent(a) PROVE RoundRobinInv'
    <3>1. alias' = a /\ rr' = [i \in DOMAIN a.weights |-> 0]  BY <2>2 DEF AliasEvent
    <3>2. a.type = "weight" => DOMAIN a.weights = 1 .. 2  BY DEF Aliases, FirstAlias
    <3>3. a = LightAlias => a.type = "weight"  BY DEF LightAlias
    <3>4. a.type = "weight" => rr' \in [1 .. 2 -> Int] /\ rr'[1] = 0 /\ rr'[2] = 0  BY <3>1, <3>2
    <3> QED BY <3>1, <3>3, <3>4 DEF RoundRobinInv
  <2> QED BY <2>1, <2>2
<1>4. \A r \in GateRequests : GateShape(gate[r])'  BY <1>2 DEF GateShape
<1>5. gate' = [r \in GateRequests |-> gate'[r]]  BY <1>1
<1> QED BY <1>2, <1>3, <1>4, <1>5 DEF GateInv

\* buildProcessContext: the version the alias chooses is one of the candidates.
LEMMA ChooseSound ==
    ASSUME GateInv, NEW r \in GateRequests, NEW m \in BOOLEAN, Choose(r, m)
    PROVE  GateInv'
<1> DEFINE v == CASE alias.type = "absent" -> 0
                  [] alias.type = "rule" -> IF m THEN alias.gray ELSE alias.main
                  [] OTHER -> alias.weights[Best].urn
           new == [gate[r] EXCEPT !.pc = "invoked", !.version = v, !.token = None, !.tenant = None, !.leader = None]
<1>1. gate' = [gate EXCEPT ![r] = new] /\ alias' = alias /\ public' = public  BY DEF Choose
<1>2. GateShape(gate[r]) /\ Checked(gate[r]) /\ RoundRobinInv /\ gate[r].pc = "handler"  BY DEF GateInv, Choose, In
<1>3. alias \in Aliases /\ alias.type \in {"absent", "rule", "weight"}
  BY <1>2 DEF RoundRobinInv, Aliases, FirstAlias
<1>4. v \in Candidates(alias)
  <2>1. CASE alias.type = "absent"  BY <2>1 DEF Candidates
  <2>2. CASE alias.type = "rule"  BY <2>2 DEF Candidates
  <2>3. CASE alias.type = "weight"
    <3>1. v = alias.weights[Best].urn  BY <2>3
    <3> QED BY <1>2, <2>3, <3>1, BestIsCandidate
  <2> QED BY <1>3, <2>1, <2>2, <2>3
<1> HIDE DEF v
<1>5. GateShape(new) /\ new.skip = gate[r].skip /\ new.stale = gate[r].stale /\ new.route = gate[r].route
      /\ new.pc = "invoked" /\ new.version = v
  BY <1>2 DEF GateShape, GateFields
<1> HIDE DEF new
<1>6. Checked(new)  BY <1>2, <1>4, <1>5 DEF Checked
<1>7. RoundRobinInv'
  <2>1. CASE alias.type # "weight"  BY <1>1, <1>2, <2>1 DEF Choose, RoundRobinInv, LightAlias
  <2>2. CASE alias.type = "weight"
    <3>1. rr' = [i \in DOMAIN rr |-> rr[i] + Weights(alias)[i] - IF i = Best THEN Total(alias) ELSE 0]
      BY <2>2 DEF Choose
    <3>2. rr \in [1 .. 2 -> Int] /\ alias \in {FirstAlias, LightAlias}
      BY <1>2, <2>2 DEF RoundRobinInv, Aliases, LightAlias
    <3>3. /\ Weights(alias) \in [1 .. 2 -> Int] /\ Len(Weights(alias)) = 2
          /\ alias = LightAlias => Weights(alias)[1] = 0 /\ Weights(alias)[2] = 1
      BY <3>2 DEF Weights, FirstAlias, LightAlias
    <3>4. Total(alias) = Weights(alias)[1] + Weights(alias)[2]  BY <3>3 DEF Total
    <3>5. Total(alias) \in Int /\ (alias = LightAlias => Total(alias) = 1)  BY <3>3, <3>4
    <3>6. rr' \in [1 .. 2 -> Int]  BY <3>1, <3>2, <3>3, <3>5
    <3>7. alias = LightAlias => rr'[1] = 0 /\ rr'[2] = 0
      <4> SUFFICES ASSUME alias = LightAlias PROVE rr'[1] = 0 /\ rr'[2] = 0  OBVIOUS
      <4>1. Best = 2  BY <1>2, <2>2, BestIsCandidate
      <4>2. rr[1] = 0 /\ rr[2] = 0  BY <1>2 DEF RoundRobinInv
      <4> QED BY <3>1, <3>2, <3>3, <3>5, <4>1, <4>2
    <3> QED BY <1>1, <1>2, <3>6, <3>7 DEF RoundRobinInv
  <2> QED BY <2>1, <2>2
<1>8. ASSUME NEW q \in GateRequests PROVE GateShape(gate'[q]) /\ Checked(gate'[q])
  <2>1. gate'[q] = new \/ gate'[q] = gate[q]  BY <1>1 DEF GateInv
  <2> QED BY <1>5, <1>6, <2>1 DEF GateInv
<1>9. \A q \in GateRequests : Checked(gate[q])' /\ GateShape(gate[q])'  BY <1>1, <1>8 DEF Checked, GateShape
<1>10. gate' = [q \in GateRequests |-> gate'[q]]  BY <1>1 DEF GateInv
<1> QED BY <1>7, <1>9, <1>10 DEF GateInv

\* For every number of requests: one that skipped the token check because all the versions it could
\* be routed to were public is routed to a public version, unless something changed in between.
THEOREM ChosenWasCheckedCorrect == GateSpec => []ChosenWasChecked
<1>1. GateInit => GateInv
  <2> SUFFICES ASSUME GateInit PROVE GateInv  OBVIOUS
  <2>1. gate = [r \in GateRequests |-> NoRequest]  BY DEF GateInit
  <2>2. alias = FirstAlias /\ rr = [i \in DOMAIN alias.weights |-> 0]  BY DEF GateInit
  <2>3. FirstAlias # LightAlias
    <3>1. FirstAlias.main # LightAlias.main  BY DEF FirstAlias, LightAlias
    <3> QED BY <3>1
  <2>4. DOMAIN alias.weights = 1 .. 2 /\ alias \in Aliases  BY <2>2 DEF FirstAlias, Aliases
  <2>5. RoundRobinInv  BY <2>2, <2>3, <2>4 DEF RoundRobinInv
  <2>6. Checked(NoRequest)  BY NewRequest DEF Checked
  <2> QED BY <2>1, <2>5, <2>6, NewRequest DEF GateInv
<1>2. GateInv /\ [GateNext]_gateVars => GateInv'
  <2> SUFFICES ASSUME GateInv, [GateNext]_gateVars PROVE GateInv'  OBVIOUS
  <2>1. CASE UNCHANGED <<gate, alias, rr, public>>
    BY <2>1 DEF GateInv, RoundRobinInv, Checked, GateShape
  <2>2. ASSUME Tick \/ UNCHANGED gateVars \/ \E t \in Tokens : Revoke(t) PROVE UNCHANGED <<gate, alias, rr, public>>
    BY <2>2 DEF Tick, Revoke, gateVars, routing
  <2> QED BY <2>1, <2>2, EventsSound, ArriveSound, TokenCheckSound, IamAnsweredSound, ChooseSound DEF GateNext
<1>3. GateInv => ChosenWasChecked  BY DEF GateInv, Checked, ChosenWasChecked, In
<1> QED BY <1>1, <1>2, <1>3, PTL DEF GateSpec

------------------------------------------------------------------------------
\* InvokeChain: the sums of the memory control

\* A set of numbers has a least one: how the sums are reasoned about, by a least counterexample.
LEMMA LeastNumber == ASSUME NEW T, T \subseteq Nat, T # {} PROVE \E m \in T : \A k \in T : ~(k < m)
<1>1. PICK m \in T : \A k \in T : ~(<<k, m>> \in OpToRel(<, Nat)) BY NatLessThanWellFounded, WFMin, Zenon
<1>2. \A k \in T : ~(k < m) BY <1>1 DEF OpToRel
<1> QED BY <1>2

Some(s) == CHOOSE x \in s : TRUE
SumBody(S, f) == [s \in SUBSET S |-> IF s = {} THEN 0 ELSE f[s \ {Some(s)}] + Want[Some(s)]]
SumFcn(S) == CHOOSE f : f = SumBody(S, f)

LEMMA SumWantIs == ASSUME NEW S PROVE SumWant(S) = SumFcn(S)[S]
BY DEF SumWant, FoldSet, MapThenFoldSet, SumFcn, SumBody, Some

LEMMA SomeIn == ASSUME NEW s, s # {} PROVE Some(s) \in s
BY DEF Some

\* Taking one out of a finite set.
LEMMA OneLess ==
    ASSUME NEW S, IsFiniteSet(S), NEW x \in S
    PROVE  IsFiniteSet(S \ {x}) /\ Cardinality(S \ {x}) = Cardinality(S) - 1 /\ Cardinality(S) \in Nat /\ Cardinality(S \ {x}) \in Nat /\ Cardinality(S) # 0
<1>1. IsFiniteSet(S \ {x}) /\ Cardinality(S \ {x}) = Cardinality(S) - 1 BY FS_RemoveElement
<1>2. Cardinality(S) \in Nat /\ Cardinality(S \ {x}) \in Nat BY <1>1, FS_CardinalityType
<1> QED BY <1>1, <1>2

\* The sum up to a size: the recursion the fold is defined by has a solution.
SmallSets(S, n) == {t \in SUBSET S : Cardinality(t) <= n}
SmallBody(S, n, f) == [s \in SmallSets(S, n) |-> IF s = {} THEN 0 ELSE f[s \ {Some(s)}] + Want[Some(s)]]

LEMMA SmallExists == ASSUME NEW S, IsFiniteSet(S), NEW n \in Nat PROVE \E f : f = SmallBody(S, n, f)
<1> DEFINE Bad == {k \in Nat : ~\E f : f = SmallBody(S, k, f)}
<1> SUFFICES ASSUME Bad # {} PROVE FALSE OBVIOUS
<1>1. PICK m \in Bad : \A k \in Bad : ~(k < m) BY LeastNumber
<1>2. m \in Nat BY <1>1
<1>3. CASE m = 0
  <2>1. PICK f : f = [s \in SmallSets(S, 0) |-> 0] OBVIOUS
  <2>2. ASSUME NEW s \in SmallSets(S, 0) PROVE s = {}
    <3>1. s \in SUBSET S /\ Cardinality(s) <= 0 BY DEF SmallSets
    <3>2. IsFiniteSet(s) BY <3>1, FS_Subset
    <3>3. Cardinality(s) \in Nat BY <3>2, FS_CardinalityType
    <3>4. Cardinality(s) = 0 BY <3>1, <3>3
    <3> QED BY <3>2, <3>4, FS_EmptySet
  <2>3. f = SmallBody(S, 0, f) BY <2>1, <2>2 DEF SmallBody
  <2> QED BY <1>1, <1>3, <2>3
<1>4. CASE m # 0
  <2>1. PICK k \in Nat : m = k + 1
    <3>1. m - 1 \in Nat /\ m = (m - 1) + 1 BY <1>2, <1>4
    <3> QED BY <3>1
  <2>2. PICK f : f = SmallBody(S, k, f)
    <3>1. k < m BY <2>1
    <3> QED BY <1>1, <3>1
  <2>3. PICK g : g = SmallBody(S, m, f) OBVIOUS
  <2>4. DOMAIN g = SmallSets(S, m) BY <2>3 DEF SmallBody
  <2>5. ASSUME NEW s \in SmallSets(S, m), s # {} PROVE g[s \ {Some(s)}] = f[s \ {Some(s)}]
    <3>1. PICK x : x = Some(s) OBVIOUS
    <3>2. x \in s /\ s \in SUBSET S /\ Cardinality(s) <= m BY <2>5, <3>1, SomeIn DEF SmallSets
    <3>3. IsFiniteSet(s) BY <3>2, FS_Subset
    <3>4. Cardinality(s \ {x}) = Cardinality(s) - 1 /\ Cardinality(s) \in Nat BY <3>2, <3>3, OneLess
    <3>5. PICK r : r = s \ {x} OBVIOUS
    <3>6. r \in SmallSets(S, k) /\ r \in SmallSets(S, m) BY <1>2, <2>1, <3>2, <3>4, <3>5 DEF SmallSets
    <3>7. f[r] = IF r = {} THEN 0 ELSE f[r \ {Some(r)}] + Want[Some(r)]
      <4>1. f[r] = SmallBody(S, k, f)[r] BY <2>2
      <4> QED BY <3>6, <4>1 DEF SmallBody
    <3>8. g[r] = IF r = {} THEN 0 ELSE f[r \ {Some(r)}] + Want[Some(r)] BY <2>3, <3>6 DEF SmallBody
    <3> QED BY <3>1, <3>5, <3>7, <3>8
  <2>6. \A s \in SmallSets(S, m) : g[s] = IF s = {} THEN 0 ELSE g[s \ {Some(s)}] + Want[Some(s)]
    <3>1. \A s \in SmallSets(S, m) : g[s] = IF s = {} THEN 0 ELSE f[s \ {Some(s)}] + Want[Some(s)] BY <2>3 DEF SmallBody
    <3> QED BY <2>5, <3>1
  <2>7. g = [s \in SmallSets(S, m) |-> g[s]] BY <2>3 DEF SmallBody
  <2>8. g = SmallBody(S, m, g) BY <2>6, <2>7 DEF SmallBody
  <2> QED BY <1>1, <2>8
<1> QED BY <1>3, <1>4

LEMMA SumFcnAt ==
    ASSUME NEW S, IsFiniteSet(S), NEW s \in SUBSET S
    PROVE  SumFcn(S)[s] = IF s = {} THEN 0 ELSE SumFcn(S)[s \ {Some(s)}] + Want[Some(s)]
<1>1. PICK n \in Nat : n = Cardinality(S) BY FS_CardinalityType
<1>2. PICK f : f = SmallBody(S, n, f) BY <1>1, SmallExists
<1>3. SmallSets(S, n) = SUBSET S
  <2>1. \A t \in SUBSET S : Cardinality(t) <= n BY <1>1, FS_Subset
  <2> QED BY <2>1 DEF SmallSets
<1>4. f = SumBody(S, f) BY <1>2, <1>3 DEF SmallBody, SumBody
<1>5. PICK h : h = SumFcn(S) OBVIOUS
<1>6. h = SumBody(S, h) BY <1>4, <1>5 DEF SumFcn
<1>7. SumBody(S, h)[s] = IF s = {} THEN 0 ELSE h[s \ {Some(s)}] + Want[Some(s)] BY DEF SumBody
<1> QED BY <1>5, <1>6, <1>7

LEMMA SumRestricts ==
    ASSUME NEW S, IsFiniteSet(S), NEW A \in SUBSET S PROVE SumFcn(S)[A] = SumWant(A)
<1>0. IsFiniteSet(A) BY FS_Subset
<1> DEFINE Differ(t) == SumFcn(S)[t] # SumFcn(A)[t]
           Bad == {k \in Nat : \E t \in SUBSET A : Cardinality(t) = k /\ Differ(t)}
<1>1. Bad = {}
  <2> SUFFICES ASSUME Bad # {} PROVE FALSE OBVIOUS
  <2>1. PICK m \in Bad : \A k \in Bad : ~(k < m) BY LeastNumber
  <2>2. PICK t \in SUBSET A : Cardinality(t) = m /\ Differ(t) BY <2>1
  <2>3. t \in SUBSET S /\ IsFiniteSet(t) BY <1>0, FS_Subset
  <2>4. SumFcn(S)[t] = IF t = {} THEN 0 ELSE SumFcn(S)[t \ {Some(t)}] + Want[Some(t)] BY <2>3, SumFcnAt
  <2>5. SumFcn(A)[t] = IF t = {} THEN 0 ELSE SumFcn(A)[t \ {Some(t)}] + Want[Some(t)] BY <1>0, SumFcnAt
  <2>6. t # {} /\ SumFcn(S)[t \ {Some(t)}] # SumFcn(A)[t \ {Some(t)}] BY <2>2, <2>4, <2>5
  <2>7. PICK r : r = t \ {Some(t)} OBVIOUS
  <2>8. r \in SUBSET A /\ Differ(r) BY <2>6, <2>7
  <2>9. Cardinality(r) = m - 1 /\ Cardinality(r) \in Nat /\ m \in Nat BY <2>2, <2>3, <2>6, <2>7, SomeIn, OneLess
  <2>10. Cardinality(r) \in Bad /\ Cardinality(r) < m BY <2>8, <2>9
  <2> QED BY <2>1, <2>10
<1>2. Cardinality(A) \in Nat BY <1>0, FS_CardinalityType
<1>3. ~Differ(A) BY <1>1, <1>2
<1> QED BY <1>3, SumWantIs

LEMMA SumSome ==
    ASSUME NEW S \in SUBSET Requests
    PROVE  IsFiniteSet(S) /\ SumWant({}) = 0 /\ (S # {} => SumWant(S) = SumWant(S \ {Some(S)}) + Want[Some(S)])
<1>1. IsFiniteSet(S) BY RequestsAssumption, FS_Subset
<1>2. SumWant({}) = 0
  <2>1. IsFiniteSet({}) BY FS_EmptySet
  <2>2. SumFcn({})[{}] = 0 BY <2>1, SumFcnAt
  <2> QED BY <2>2, SumWantIs
<1>3. ASSUME S # {} PROVE SumWant(S) = SumWant(S \ {Some(S)}) + Want[Some(S)]
  <2>1. SumFcn(S)[S] = SumFcn(S)[S \ {Some(S)}] + Want[Some(S)] BY <1>1, <1>3, SumFcnAt
  <2>2. SumFcn(S)[S \ {Some(S)}] = SumWant(S \ {Some(S)}) BY <1>1, SumRestricts
  <2> QED BY <2>1, <2>2, SumWantIs
<1> QED BY <1>1, <1>2, <1>3

LEMMA SumIsNat == ASSUME NEW S \in SUBSET Requests PROVE SumWant(S) \in Nat
<1> DEFINE Bad == {k \in Nat : \E t \in SUBSET Requests : Cardinality(t) = k /\ SumWant(t) \notin Nat}
<1>1. Bad = {}
  <2> SUFFICES ASSUME Bad # {} PROVE FALSE OBVIOUS
  <2>1. PICK m \in Bad : \A k \in Bad : ~(k < m) BY LeastNumber
  <2>2. PICK t \in SUBSET Requests : Cardinality(t) = m /\ SumWant(t) \notin Nat BY <2>1
  <2>0. SumWant({}) = 0 /\ IsFiniteSet(t) BY SumSome
  <2>3. IsFiniteSet(t) /\ t # {} BY <2>0, <2>2
  <2>4. PICK x \in t : x = Some(t) BY <2>3, SomeIn
  <2>5. SumWant(t) = SumWant(t \ {x}) + Want[x] BY <2>3, <2>4, SumSome
  <2>6. Want[x] \in Nat BY WantAssumption
  <2>7. SumWant(t \ {x}) \notin Nat BY <2>2, <2>5, <2>6
  <2>8. Cardinality(t \ {x}) = m - 1 /\ Cardinality(t \ {x}) \in Nat /\ m \in Nat BY <2>2, <2>3, OneLess
  <2>9. PICK r \in SUBSET Requests : r = t \ {x} OBVIOUS
  <2>10. Cardinality(r) \in Bad /\ Cardinality(r) < m BY <2>7, <2>8, <2>9
  <2> QED BY <2>1, <2>10
<1>2. Cardinality(S) \in Nat BY SumSome, FS_CardinalityType
<1> QED BY <1>1, <1>2

\* Whatever order the fold takes them in: a request adds what it wants.
LEMMA SumWithout ==
    ASSUME NEW S \in SUBSET Requests, NEW y \in S
    PROVE  SumWant(S) = SumWant(S \ {y}) + Want[y]
<1> DEFINE Wrong(t) == \E z \in t : SumWant(t) # SumWant(t \ {z}) + Want[z]
           Bad == {k \in Nat : \E t \in SUBSET Requests : Cardinality(t) = k /\ Wrong(t)}
<1>1. Bad = {}
  <2> SUFFICES ASSUME Bad # {} PROVE FALSE OBVIOUS
  <2>1. PICK m \in Bad : \A k \in Bad : ~(k < m) BY LeastNumber
  <2>2. PICK t \in SUBSET Requests : Cardinality(t) = m /\ Wrong(t) BY <2>1
  <2>3. PICK z \in t : SumWant(t) # SumWant(t \ {z}) + Want[z] BY <2>2
  <2>4. IsFiniteSet(t) /\ t # {} BY SumSome
  <2>5. PICK x \in t : x = Some(t) BY <2>4, SomeIn
  <2>6. SumWant(t) = SumWant(t \ {x}) + Want[x] BY <2>4, <2>5, SumSome
  <2>7. x # z BY <2>3, <2>6
  <2>8. \A u \in t : ~Wrong(t \ {u})
    <3> SUFFICES ASSUME NEW u \in t, Wrong(t \ {u}) PROVE FALSE OBVIOUS
    <3>1. Cardinality(t \ {u}) = m - 1 /\ Cardinality(t \ {u}) \in Nat /\ m \in Nat BY <2>2, <2>4, OneLess
    <3>2. PICK r \in SUBSET Requests : r = t \ {u} OBVIOUS
    <3>3. Wrong(r) BY <3>2
    <3> HIDE DEF Wrong
    <3>4. Cardinality(r) \in Bad /\ Cardinality(r) < m BY <3>1, <3>2, <3>3
    <3> QED BY <2>1, <3>4
  <2>9. SumWant(t \ {x}) = SumWant((t \ {x}) \ {z}) + Want[z] BY <2>7, <2>8
  <2>10. SumWant(t \ {z}) = SumWant((t \ {z}) \ {x}) + Want[x] BY <2>7, <2>8
  <2>11. (t \ {x}) \ {z} = (t \ {z}) \ {x} OBVIOUS
  <2>12. PICK a \in Nat : a = SumWant((t \ {x}) \ {z}) BY SumIsNat
  <2>13. Want[x] \in Nat /\ Want[z] \in Nat BY WantAssumption
  <2>14. SumWant(t) = (a + Want[z]) + Want[x] /\ SumWant(t \ {z}) = a + Want[x] BY <2>6, <2>9, <2>10, <2>11, <2>12
  <2>15. SumWant(t) = SumWant(t \ {z}) + Want[z] BY <2>13, <2>14
  <2> QED BY <2>3, <2>15
<1>2. Cardinality(S) \in Nat BY SumSome, FS_CardinalityType
<1>3. ~Wrong(S) BY <1>1, <1>2
<1> QED BY <1>3

\* A sum that holds a request is at least what it wants.
LEMMA SumAtLeast ==
    ASSUME NEW S \in SUBSET Requests, NEW y \in S
    PROVE  SumWant(S) >= Want[y] /\ SumWant(S \ {y}) = SumWant(S) - Want[y] /\ Want[y] \in Nat /\ SumWant(S) \in Nat
<1>1. SumWant(S) = SumWant(S \ {y}) + Want[y] BY SumWithout
<1>2. PICK a \in Nat : a = SumWant(S \ {y}) BY SumIsNat
<1>3. Want[y] \in Nat BY WantAssumption
<1>4. SumWant(S) = a + Want[y] BY <1>1, <1>2
<1> QED BY <1>2, <1>3, <1>4

InChain == {"auth", "invoke"}
HoldingIn(c, f) == {r \in Requests : Func[r] = f /\ Accounted(r) /\ c[r] \in InChain}
AllIn(c) == {r \in Requests : Accounted(r) /\ c[r] \in InChain}

Accounts(c, m, t) ==
    /\ DOMAIN c = Requests
    /\ \A f \in Funcs : Held(m, f) = SumWant(HoldingIn(c, f))
    /\ DOMAIN m = {f \in Funcs : HoldingIn(c, f) # {}}
    /\ t = SumWant(AllIn(c))

LEMMA AccountsIs == Accounts(chain, fnMem, total) => MemoryAccounted
<1> SUFFICES ASSUME Accounts(chain, fnMem, total) PROVE MemoryAccounted OBVIOUS
<1>1. \A f : Holding(f) = HoldingIn(chain, f) BY DEF Holding, HoldingIn, InChain
<1>2. {r \in Requests : \E f \in Funcs : r \in Holding(f)} = AllIn(chain) BY DEF Holding, AllIn, InChain, Funcs
<1> QED BY <1>1, <1>2 DEF Accounts, MemoryAccounted

\* A request that moves without entering or leaving the accounted part of the chain.
LEMMA MoveAccounts ==
    ASSUME Accounts(chain, fnMem, total), NEW r \in Requests, NEW pc, Goto(r, pc), UNCHANGED <<fnMem, total>>,
           ~Accounted(r) \/ (chain[r] \in InChain <=> pc \in InChain)
    PROVE  Accounts(chain', fnMem', total')
<1>1. PICK c : c = chain' OBVIOUS
<1>2. DOMAIN c = Requests /\ c[r] = pc /\ \A q \in Requests : q # r => c[q] = chain[q] BY <1>1 DEF Goto, Accounts
<1>3. \A f : HoldingIn(c, f) = HoldingIn(chain, f) BY <1>2 DEF HoldingIn
<1>4. AllIn(c) = AllIn(chain) BY <1>2 DEF AllIn
<1>5. Accounts(c, fnMem, total) BY <1>2, <1>3, <1>4 DEF Accounts
<1> QED BY <1>1, <1>5

\* mallocFunctionMem
LEMMA MallocAccounts ==
    ASSUME Accounts(chain, fnMem, total), NEW r \in Requests, Accounted(r), chain[r] \notin InChain, NEW pc \in InChain, Goto(r, pc),
           Malloc(Func[r], Want[r])
    PROVE  Accounts(chain', fnMem', total')
<1>0. Func[r] \in Funcs /\ Want[r] \in Nat BY WantAssumption DEF Funcs
<1>1. PICK c : c = chain' OBVIOUS
<1>2. DOMAIN c = Requests /\ c[r] = pc /\ \A q \in Requests : q # r => c[q] = chain[q] BY <1>1 DEF Goto, Accounts
<1>3. PICK k : k = Func[r] OBVIOUS
<1>4. r \in HoldingIn(c, k) /\ HoldingIn(c, k) \ {r} = HoldingIn(chain, k) /\ HoldingIn(c, k) \in SUBSET Requests BY <1>2, <1>3 DEF HoldingIn
<1>5. \A f : f # k => HoldingIn(c, f) = HoldingIn(chain, f) BY <1>2, <1>3 DEF HoldingIn
<1>6. r \in AllIn(c) /\ AllIn(c) \ {r} = AllIn(chain) /\ AllIn(c) \in SUBSET Requests BY <1>2 DEF AllIn
<1>7. SumWant(HoldingIn(c, k)) = SumWant(HoldingIn(chain, k)) + Want[r] BY <1>4, SumWithout
<1>8. SumWant(AllIn(c)) = SumWant(AllIn(chain)) + Want[r] BY <1>6, SumWithout
<1>9. PICK m : m = fnMem' OBVIOUS
<1>10. m = [g \in DOMAIN fnMem \union {k} |-> IF g = k THEN Held(fnMem, k) + Want[r] ELSE fnMem[g]] BY <1>3, <1>9 DEF Malloc
<1>11. DOMAIN m = {f \in Funcs : HoldingIn(c, f) # {}} BY <1>0, <1>3, <1>4, <1>5, <1>10 DEF Accounts
<1>12. ASSUME NEW f \in Funcs PROVE Held(m, f) = SumWant(HoldingIn(c, f))
  <2>1. CASE f = k
    <3>1. Held(m, f) = Held(fnMem, k) + Want[r] BY <1>10, <2>1 DEF Held
    <3>2. Held(fnMem, k) = SumWant(HoldingIn(chain, k)) BY <2>1 DEF Accounts
    <3> QED BY <1>7, <2>1, <3>1, <3>2
  <2>2. CASE f # k
    <3>1. Held(m, f) = Held(fnMem, f) BY <1>10, <2>2 DEF Held
    <3> QED BY <1>5, <2>2, <3>1 DEF Accounts
  <2> QED BY <2>1, <2>2
<1>13. total' = SumWant(AllIn(c)) BY <1>8 DEF Malloc, Accounts
<1>14. Accounts(c, m, total') BY <1>2, <1>11, <1>12, <1>13 DEF Accounts
<1> QED BY <1>1, <1>9, <1>14

\* ReleaseFunctionMem
LEMMA ReleaseAccounts ==
    ASSUME Accounts(chain, fnMem, total), NEW r \in Requests, chain[r] \in InChain, NEW pc, pc \notin InChain, Goto(r, pc), Release(r)
    PROVE  Accounts(chain', fnMem', total')
<1>0. Func[r] \in Funcs /\ Want[r] \in Nat BY WantAssumption DEF Funcs
<1>1. PICK k : k = Func[r] OBVIOUS
<1>2. CASE ~Accounted(r)
  <2>1. UNCHANGED <<fnMem, total>> BY <1>2 DEF Release
  <2> QED BY <1>2, <2>1, MoveAccounts
<1>3. CASE Accounted(r)
  <2>1. PICK c : c = chain' OBVIOUS
  <2>2. DOMAIN c = Requests /\ c[r] = pc /\ \A q \in Requests : q # r => c[q] = chain[q] BY <2>1 DEF Goto, Accounts
  <2>3. r \in HoldingIn(chain, k) /\ HoldingIn(c, k) = HoldingIn(chain, k) \ {r} /\ HoldingIn(chain, k) \in SUBSET Requests
    BY <1>1, <1>3, <2>2 DEF HoldingIn
  <2>4. \A f : f # k => HoldingIn(c, f) = HoldingIn(chain, f) BY <1>1, <2>2 DEF HoldingIn
  <2>5. r \in AllIn(chain) /\ AllIn(c) = AllIn(chain) \ {r} /\ AllIn(chain) \in SUBSET Requests BY <1>3, <2>2 DEF AllIn
  <2>6. PICK h \in Nat : h = SumWant(HoldingIn(chain, k)) BY <2>3, SumIsNat
  <2>7. PICK t \in Nat : t = SumWant(AllIn(chain)) BY <2>5, SumIsNat
  <2>8. h >= Want[r] /\ SumWant(HoldingIn(c, k)) = h - Want[r] BY <2>3, <2>6, SumAtLeast
  <2>9. t >= Want[r] /\ SumWant(AllIn(c)) = t - Want[r] BY <2>5, <2>7, SumAtLeast
  <2>10. k \in DOMAIN fnMem /\ fnMem[k] = h /\ Held(fnMem, k) = h /\ total = t
    <3>1. k \in DOMAIN fnMem BY <1>0, <1>1, <2>3 DEF Accounts
    <3>2. Held(fnMem, k) = h /\ total = t BY <1>0, <1>1, <2>6, <2>7 DEF Accounts
    <3> QED BY <3>1, <3>2 DEF Held
  <2>11. PICK m : m = fnMem' OBVIOUS
  <2>12. PICK keep : keep = (DOMAIN fnMem \ {k}) \union FreeLess(k, Want[r]) OBVIOUS
  <2>13. total' = t - Want[r] /\ m = [g \in keep |-> IF g = k THEN fnMem[g] - Want[r] ELSE fnMem[g]]
    <3>1. total' = IF total < Want[r] THEN 0 ELSE total - Want[r] BY <1>1, <1>3, <2>10 DEF Release
    <3>2. m = [g \in keep |-> IF g = k THEN fnMem[g] - Want[r] ELSE fnMem[g]] BY <1>1, <1>3, <2>10, <2>11, <2>12 DEF Release
    <3> QED BY <1>0, <2>9, <2>10, <3>1, <3>2
  <2>14. h <= Want[r] <=> HoldingIn(c, k) = {}
    <3>1. ASSUME HoldingIn(c, k) = {} PROVE h <= Want[r]
      <4>1. SumWant({}) = 0 BY <2>3, SumSome
      <4> QED BY <1>0, <2>8, <3>1, <4>1
    <3>2. ASSUME NEW y \in HoldingIn(c, k) PROVE ~(h <= Want[r])
      <4>1. y \in Requests /\ Want[y] > BodyThreshold /\ BodyThreshold \in Nat BY WantAssumption DEF HoldingIn, Accounted
      <4>2. SumWant(HoldingIn(c, k)) >= Want[y] /\ Want[y] \in Nat BY <2>3, SumAtLeast
      <4> QED BY <1>0, <2>8, <4>1, <4>2
    <3> QED BY <3>1, <3>2
  <2>15. k \in keep <=> HoldingIn(c, k) # {} BY <2>10, <2>12, <2>14 DEF FreeLess
  <2>16. \A f : f # k => (f \in keep <=> f \in DOMAIN fnMem) BY <2>12 DEF FreeLess
  <2>17. keep = {f \in Funcs : HoldingIn(c, f) # {}} BY <1>0, <1>1, <2>4, <2>15, <2>16 DEF Accounts
  <2>18. ASSUME NEW f \in Funcs PROVE Held(m, f) = SumWant(HoldingIn(c, f))
    <3>1. CASE f = k
      <4>1. CASE k \in keep BY <2>8, <2>10, <2>13, <3>1, <4>1 DEF Held
      <4>2. CASE k \notin keep
        <5>1. SumWant({}) = 0 BY <2>3, SumSome
        <5> QED BY <2>13, <2>15, <3>1, <4>2, <5>1 DEF Held
      <4> QED BY <4>1, <4>2
    <3>2. CASE f # k
      <4>1. Held(m, f) = Held(fnMem, f) BY <2>13, <2>16, <3>2 DEF Held
      <4> QED BY <2>4, <3>2, <4>1 DEF Accounts
    <3> QED BY <3>1, <3>2
  <2>19. DOMAIN m = {f \in Funcs : HoldingIn(c, f) # {}} BY <2>13, <2>17
  <2>20. Accounts(c, m, total') BY <2>2, <2>9, <2>13, <2>18, <2>19 DEF Accounts
  <2> QED BY <2>1, <2>11, <2>20
<1> QED BY <1>2, <1>3

LEMMA AccountsStep == Accounts(chain, fnMem, total) /\ [ChainNext]_chainVars => Accounts(chain', fnMem', total')
<1> SUFFICES ASSUME Accounts(chain, fnMem, total), [ChainNext]_chainVars PROVE Accounts(chain', fnMem', total') OBVIOUS
<1>1. ASSUME NEW r \in Requests, NEW pc, Goto(r, pc), UNCHANGED <<fnMem, total>>, chain[r] \notin InChain, pc \notin InChain
      PROVE  Accounts(chain', fnMem', total')
  BY <1>1, MoveAccounts
<1>2. ASSUME NEW r \in Requests, Serve(r) PROVE Accounts(chain', fnMem', total')
  <2>1. ASSUME NEW b \in BOOLEAN, Arrive(r, b) PROVE Accounts(chain', fnMem', total')
    BY <1>1, <2>1 DEF Arrive, At, memVars, InChain
  <2>2. ASSUME NEW b \in BOOLEAN, Count(r, b) PROVE Accounts(chain', fnMem', total')
    BY <1>1, <2>2 DEF Count, At, memVars, InChain
  <2>3. ASSUME NEW b \in BOOLEAN, AuthCheck(r, b) PROVE Accounts(chain', fnMem', total')
    <3>1. chain[r] \in InChain BY <2>3 DEF AuthCheck, At, InChain
    <3>2. CASE Goto(r, "invoke") /\ UNCHANGED <<total, fnMem>> BY <3>1, <3>2, MoveAccounts DEF InChain
    <3>3. CASE Goto(r, "left") /\ Release(r) BY <3>1, <3>3, ReleaseAccounts DEF InChain
    <3> QED BY <2>3, <3>2, <3>3 DEF AuthCheck
  <2>4. CASE Grace(r) BY <1>1, <2>4 DEF Grace, At, memVars, InChain
  <2>5. CASE TakeToken(r) \/ TakeFromNew(r)
    BY <1>1, <2>5 DEF TakeToken, TakeFromNew, Allow, Unwind, At, memVars, InChain
  <2>6. CASE AllowHigh(r) BY <1>1, <2>6 DEF AllowHigh, Unwind, At, InChain
  <2>7. CASE AllowLow(r)
    <3>1. chain[r] \notin InChain BY <2>7 DEF AllowLow, At, InChain
    <3>2. CASE ~Accounted(r) /\ Goto(r, "auth") /\ UNCHANGED <<total, fnMem>> BY <3>2, MoveAccounts
    <3>3. CASE Accounted(r) /\ Malloc(Func[r], Want[r]) /\ Goto(r, "auth") BY <3>1, <3>3, MallocAccounts DEF InChain
    <3>4. CASE Unwind(r) /\ UNCHANGED <<total, fnMem>> BY <1>1, <3>1, <3>4 DEF Unwind, InChain
    <3> QED BY <2>7, <3>2, <3>3, <3>4 DEF AllowLow
  <2>8. CASE Invoked(r)
    <3>1. chain[r] \in InChain /\ Goto(r, "left") /\ Release(r) BY <2>8 DEF Invoked, At, InChain
    <3> QED BY <3>1, ReleaseAccounts DEF InChain
  <2> QED BY <1>2, <2>1, <2>2, <2>3, <2>4, <2>5, <2>6, <2>7, <2>8 DEF Serve
<1>3. ASSUME UNCHANGED <<chain, fnMem, total>> PROVE Accounts(chain', fnMem', total') BY <1>3
<1>4. CASE Refill \/ BeginExit \/ EndExit \/ UNCHANGED chainVars BY <1>3, <1>4 DEF Refill, BeginExit, EndExit, chainVars, memVars
<1>5. ASSUME NEW q, QuotaEvent(q) PROVE Accounts(chain', fnMem', total') BY <1>3, <1>5 DEF QuotaEvent, memVars
<1>6. ASSUME NEW u, Refresh(u) PROVE Accounts(chain', fnMem', total') BY <1>3, <1>6 DEF Refresh
<1> QED BY <1>2, <1>4, <1>5, <1>6 DEF ChainNext

\* For every set of requests and whatever they want: the memory map of the traffic limiter is the sum of
\* the requests in the chain, function by function, a function with none has left it, and the total is the
\* sum of all, on every path out of the chain (monitor/memory.go).
THEOREM MemoryAccountedCorrect == ChainSpec => []MemoryAccounted
<1>1. ChainInit => Accounts(chain, fnMem, total)
  <2> SUFFICES ASSUME ChainInit PROVE Accounts(chain, fnMem, total) OBVIOUS
  <2>1. DOMAIN chain = Requests /\ \A r \in Requests : chain[r] = "new" BY DEF ChainInit
  <2>2. AllIn(chain) = {} /\ \A f : HoldingIn(chain, f) = {} BY <2>1 DEF AllIn, HoldingIn, InChain
  <2>3. SumWant({}) = 0 BY SumSome
  <2>4. DOMAIN fnMem = {} /\ total = 0 BY DEF ChainInit
  <2> QED BY <2>1, <2>2, <2>3, <2>4 DEF Accounts, Held
<1>2. ChainSpec => []Accounts(chain, fnMem, total)
  <2>1. Accounts(chain, fnMem, total) /\ [ChainNext]_chainVars => Accounts(chain, fnMem, total)' BY AccountsStep
  <2> QED BY <1>1, <2>1, PTL DEF ChainSpec
<1> QED BY <1>2, AccountsIs, PTL
==============================================================================
