--------------------------- MODULE StreamConnection ---------------------------
(***************************************************************************)
(* kernelrpc, the client side: BasicSteamClient.Invoke takes a message from  *)
(* a pool, StreamConnection queues it for its send loop and waits for the    *)
(* acknowledgement of that message; the result comes later, as a             *)
(* notification of the request, to a callback. The loops share one stream,   *)
(* which a repair loop replaces after an error.                              *)
(***************************************************************************)
EXTENDS GoValues, Integers, Sequences, SequencesExt, FiniteSets

CONSTANTS
    RpcCalls,         \* calls of Invoke
    RequestOf,        \* [RpcCalls -> request ID]: a caller may give one again
    Objects,          \* message objects of streamMessagePool and invokeRequestPool
    ChannelSize,      \* defaultChannelSize
    MaxStreams,       \* bound: streams, the first one included
    MaxNotifies       \* bound: times the kernel sends one notification

VARIABLES
    calls,            \* [RpcCalls -> [pc, obj, res]]
    pool,             \* free message objects
    objs,             \* [Objects -> [rid, mid]]: content, None once reset
    chans,            \* [{"req", "rsp"} -> what waits to be sent]
    ackRecord,        \* calls whose message ID is in sendAckRecord
    ackCh,            \* [RpcCalls -> its acknowledgement channel]
    cbRecord,         \* [request ID -> the call whose callback is recorded]
    called,           \* [RpcCalls -> notifications given to its callback]
    loop,             \* [{"req", "rsp", "recv"} -> [pc, item, on]]
    stream,           \* the stream in use
    alive,            \* streams that work
    healthy,          \* state of the gRPC connection
    repair,           \* [repairing, token, busy]
    inbox,            \* [stream -> messages of the kernel]
    kernel            \* [got: what it received, notified: [request ID -> Nat]]

rpcVars == <<calls, pool, objs, chans, ackRecord, ackCh, cbRecord, called, loop, stream, alive, healthy, repair, inbox, kernel>>
callVars == <<calls, pool, objs>>
recordVars == <<ackRecord, ackCh, cbRecord, called>>
streamVars == <<stream, alive, healthy, repair>>
peerVars == <<inbox, kernel>>

RequestIds == {RequestOf[c] : c \in RpcCalls}
Empty == [rid |-> None, mid |-> None]

------------------------------------------------------------------------------
\* Invoke and Send

\* releaseStreamMessageInvokeRequest: the object is reset and may be taken again.
Release(c) ==
    /\ objs' = [objs EXCEPT ![calls[c].obj] = Empty]
    /\ pool' = pool \cup {calls[c].obj}
Return(c, res) ==
    /\ calls' = [calls EXCEPT ![c] = [pc |-> "done", obj |-> None, res |-> res]]
    /\ Release(c)

\* acquireStreamMessageInvokeRequest, and the fields of the request.
Acquire(c, o) ==
    /\ calls[c].pc = "idle" /\ o \in pool
    /\ pool' = pool \ {o}
    /\ objs' = [objs EXCEPT ![o].rid = RequestOf[c]]
    /\ calls' = [calls EXCEPT ![c] = [pc |-> "filled", obj |-> o, res |-> None]]
    /\ UNCHANGED <<chans, recordVars, loop, streamVars, peerVars>>

\* Send: the records, under one lock. A request ID that waits already is refused, and the
\* record of the acknowledgement stays behind.
Record(c) ==
    /\ calls[c].pc = "filled"
    /\ LET rid == RequestOf[c]
       IN  IF ~healthy THEN Return(c, "broken") /\ UNCHANGED recordVars
           ELSE /\ ackRecord' = ackRecord \cup {c}
                /\ IF cbRecord[rid] # None THEN Return(c, "exists") /\ UNCHANGED cbRecord
                   ELSE /\ cbRecord' = [cbRecord EXCEPT ![rid] = c]
                        /\ objs' = [objs EXCEPT ![calls[c].obj].mid = c]
                        /\ calls' = [calls EXCEPT ![c].pc = "recorded"] /\ UNCHANGED pool
                /\ UNCHANGED <<ackCh, called>>
    /\ UNCHANGED <<chans, loop, streamVars, peerVars>>

\* Send: a full channel refuses.
Enqueue(c) ==
    /\ calls[c].pc = "recorded"
    /\ IF Len(chans["req"]) < ChannelSize
       THEN /\ chans' = [chans EXCEPT !["req"] = Append(@, calls[c].obj)]
            /\ calls' = [calls EXCEPT ![c].pc = "waiting"]
            /\ UNCHANGED <<pool, objs, ackRecord, cbRecord>>
       ELSE /\ cbRecord' = [cbRecord EXCEPT ![RequestOf[c]] = None]
            /\ ackRecord' = ackRecord \ {c} /\ Return(c, "blocked") /\ UNCHANGED chans
    /\ UNCHANGED <<ackCh, called, loop, streamVars, peerVars>>

\* Send: the timer. The record of the callback is removed by its request ID.
SendTimeout(c) ==
    /\ calls[c].pc = "waiting"
    /\ cbRecord' = [cbRecord EXCEPT ![RequestOf[c]] = None]
    /\ ackRecord' = ackRecord \ {c} /\ Return(c, "timeout")
    /\ UNCHANGED <<chans, ackCh, called, loop, streamVars, peerVars>>

\* Send: the acknowledgement, the kernel's or an error of the send loop.
GetAck(c) ==
    /\ calls[c].pc = "waiting" /\ ackCh[c] # <<>>
    /\ ackCh' = [ackCh EXCEPT ![c] = Tail(@)]
    /\ ackRecord' = ackRecord \ {c} /\ Return(c, Head(ackCh[c]))
    /\ UNCHANGED <<chans, cbRecord, called, loop, streamVars, peerVars>>

------------------------------------------------------------------------------
\* The loops

LoopGo(l, pc) == loop' = [loop EXCEPT ![l].pc = pc]

\* repairStream: one repair at a time.
RepairStream == repair' = IF repair.repairing THEN repair ELSE [repair EXCEPT !.repairing = TRUE, !.token = TRUE]

\* sendLoop takes a message; the receive loop comes round.
Take(l) ==
    /\ loop[l].pc = "idle" /\ chans[l] # <<>>
    /\ loop' = [loop EXCEPT ![l].pc = "fix", ![l].item = Head(chans[l])]
    /\ chans' = [chans EXCEPT ![l] = Tail(@)]
    /\ UNCHANGED <<callVars, recordVars, streamVars, peerVars>>

\* waitForStreamFix: one look, and one sleep until a repair; then the stream is used that is
\* current.
WaitForStreamFix(l) ==
    /\ loop[l].pc = "fix"
    /\ loop' = [loop EXCEPT ![l].pc = IF repair.repairing \/ ~healthy THEN "asleep" ELSE "use", ![l].on = stream]
    /\ UNCHANGED <<callVars, chans, recordVars, streamVars, peerVars>>

\* sendLoop: stream.Send of what the object holds now.
SendMessage(l) ==
    /\ loop[l].pc = "use" /\ l # "recv"
    /\ IF stream \in alive
       THEN /\ IF l = "req" THEN kernel' = [kernel EXCEPT !.got = Append(@, [msg |-> objs[loop[l].item], on |-> stream])]
               ELSE kernel' = [kernel EXCEPT !.notified[loop[l].item] = MaxNotifies]
            /\ loop' = [loop EXCEPT ![l].pc = "idle", ![l].item = None]
       ELSE LoopGo(l, "failed") /\ UNCHANGED kernel
    /\ UNCHANGED <<callVars, chans, recordVars, streamVars, inbox>>

\* sendLoop: an error is the acknowledgement of the message, if its Send still waits, and the
\* stream is repaired.
SendFailed(l) ==
    /\ loop[l].pc = "failed"
    /\ LET mid == IF l = "req" THEN objs[loop[l].item].mid ELSE None
       IN  IF mid \in ackRecord
           THEN Len(ackCh[mid]) < 1 /\ ackCh' = [ackCh EXCEPT ![mid] = Append(@, "failed")]
           ELSE UNCHANGED ackCh
    /\ RepairStream
    /\ loop' = [loop EXCEPT ![l].pc = "idle", ![l].item = None]
    /\ UNCHANGED <<callVars, chans, ackRecord, cbRecord, called, stream, alive, healthy, peerVars>>

Received(msg) ==
    /\ loop["recv"].pc = "use" /\ inbox[loop["recv"].on] # <<>>
    /\ Head(inbox[loop["recv"].on]) = msg
    /\ inbox' = [inbox EXCEPT ![loop["recv"].on] = Tail(@)]
    /\ LoopGo("recv", "fix")
    /\ UNCHANGED <<callVars, streamVars, kernel>>

\* recvLoop: the response goes to the Send that waits for its message.
RecvResponse(msg) ==
    /\ msg.kind = "rsp" /\ Received(msg)
    /\ IF msg.id \in ackRecord
       THEN /\ Len(ackCh[msg.id]) < 1
            /\ ackRecord' = ackRecord \ {msg.id} /\ ackCh' = [ackCh EXCEPT ![msg.id] = Append(@, "ok")]
       ELSE UNCHANGED <<ackRecord, ackCh>>
    /\ UNCHANGED <<chans, cbRecord, called>>

\* Faulty variant: the callback stays recorded.
TakeNoCallback(rid) == cbRecord' = cbRecord

\* recvLoop: the callback's record is removed before it is called.
TakeCallback(rid) == cbRecord' = [cbRecord EXCEPT ![rid] = None]

\* recvLoop: a notification is given to the callback and confirmed in any case.
RecvNotify(msg) ==
    /\ msg.kind = "notify" /\ Received(msg)
    /\ LET c == cbRecord[msg.id]
       IN  IF c # None THEN TakeCallback(msg.id) /\ called' = [called EXCEPT ![c] = @ + 1]
           ELSE UNCHANGED <<cbRecord, called>>
    /\ chans' = IF Len(chans["rsp"]) < ChannelSize THEN [chans EXCEPT !["rsp"] = Append(@, msg.id)] ELSE chans
    /\ UNCHANGED <<ackRecord, ackCh>>

\* recvLoop: the stream it listens to breaks.
RecvFailed ==
    /\ loop["recv"].pc = "use" /\ loop["recv"].on \notin alive /\ inbox[loop["recv"].on] = <<>>
    /\ LoopGo("recv", "fix") /\ RepairStream
    /\ UNCHANGED <<callVars, chans, recordVars, stream, alive, healthy, peerVars>>

\* repairLoop and the client's repairStream, which dials again when the connection is not
\* healthy. A repair that fails leaves repairing set.
StartRepair ==
    /\ repair.token /\ ~repair.busy
    /\ repair' = [repair EXCEPT !.token = FALSE, !.busy = TRUE]
    /\ UNCHANGED <<callVars, chans, recordVars, loop, stream, alive, healthy, peerVars>>
Repair ==
    /\ repair.busy
    /\ \/ /\ stream < MaxStreams
          /\ repair' = [repairing |-> FALSE, token |-> FALSE, busy |-> FALSE]
          /\ stream' = stream + 1 /\ alive' = alive \cup {stream + 1} /\ healthy' = TRUE
          /\ loop' = [l \in DOMAIN loop |-> IF loop[l].pc = "asleep" THEN [loop[l] EXCEPT !.pc = "use", !.on = stream + 1] ELSE loop[l]]
       \/ repair' = [repair EXCEPT !.busy = FALSE] /\ UNCHANGED <<loop, stream, alive, healthy>>
    /\ UNCHANGED <<callVars, chans, recordVars, peerVars>>

------------------------------------------------------------------------------
\* The kernel and the network

KernelAnswers(i) ==
    LET g == kernel.got[i]
    IN  /\ g.msg.mid # None /\ g.on \in alive
        /\ kernel' = [kernel EXCEPT !.got[i].msg.mid = None]
        /\ inbox' = [inbox EXCEPT ![g.on] = Append(@, [kind |-> "rsp", id |-> g.msg.mid])]
        /\ UNCHANGED <<callVars, chans, recordVars, loop, streamVars>>
KernelNotifies(i) ==
    LET g == kernel.got[i]
    IN  /\ g.msg.rid # None /\ g.on \in alive /\ kernel.notified[g.msg.rid] < MaxNotifies
        /\ kernel' = [kernel EXCEPT !.notified[g.msg.rid] = @ + 1]
        /\ inbox' = [inbox EXCEPT ![g.on] = Append(@, [kind |-> "notify", id |-> g.msg.rid])]
        /\ UNCHANGED <<callVars, chans, recordVars, loop, streamVars>>

\* A stream breaks, alone or with its connection; gRPC connects again by itself.
Break(h) ==
    /\ stream \in alive /\ stream < MaxStreams /\ alive' = alive \ {stream} /\ healthy' = h
    /\ inbox' = [inbox EXCEPT ![stream] = <<>>]
    /\ UNCHANGED <<callVars, chans, recordVars, loop, stream, repair, kernel>>
ReconnectStream ==
    /\ ~healthy /\ healthy' = TRUE
    /\ UNCHANGED <<callVars, chans, recordVars, loop, stream, alive, repair, peerVars>>

------------------------------------------------------------------------------
RpcInit ==
    /\ calls = [c \in RpcCalls |-> [pc |-> "idle", obj |-> None, res |-> None]]
    /\ pool = Objects /\ objs = [o \in Objects |-> Empty]
    /\ chans = [l \in {"req", "rsp"} |-> <<>>]
    /\ ackRecord = {} /\ ackCh = [c \in RpcCalls |-> <<>>]
    /\ cbRecord = [r \in RequestIds |-> None] /\ called = [c \in RpcCalls |-> 0]
    /\ loop = [l \in {"req", "rsp", "recv"} |-> [pc |-> IF l = "recv" THEN "fix" ELSE "idle", item |-> None, on |-> 1]]
    /\ stream = 1 /\ alive = {1} /\ healthy = TRUE
    /\ repair = [repairing |-> FALSE, token |-> FALSE, busy |-> FALSE]
    /\ inbox = [g \in 1..MaxStreams |-> <<>>]
    /\ kernel = [got |-> <<>>, notified |-> [r \in RequestIds |-> 0]]

RpcNext ==
    \/ \E c \in RpcCalls : \/ \E o \in Objects : Acquire(c, o)
                        \/ Record(c) \/ Enqueue(c) \/ SendTimeout(c) \/ GetAck(c)
    \/ \E l \in {"req", "rsp"} : Take(l) \/ SendMessage(l) \/ SendFailed(l)
    \/ \E l \in DOMAIN loop : WaitForStreamFix(l)
    \/ \E m \in [kind : {"rsp"}, id : RpcCalls] : RecvResponse(m)
    \/ \E m \in [kind : {"notify"}, id : RequestIds] : RecvNotify(m)
    \/ RecvFailed \/ StartRepair \/ Repair \/ ReconnectStream
    \/ \E i \in DOMAIN kernel.got : KernelAnswers(i) \/ KernelNotifies(i)
    \/ \E h \in BOOLEAN : Break(h)

RpcSpec == RpcInit /\ [][RpcNext]_rpcVars

------------------------------------------------------------------------------
\* Properties

\* A callback is called at most once, though the kernel repeats a notification until it is
\* confirmed, and messages are taken from the pool again while they wait to be sent.
CallbackOnce == \A c \in RpcCalls : called[c] <= 1

\* A call that was told its request ID is in use is never called back for the other's result.
RefusedNotCalled == \A c \in RpcCalls : calls[c].res \in {"exists", "broken", "blocked"} => called[c] = 0

\* A request reaches the kernel at most once.
SentOnce == \A i, j \in DOMAIN kernel.got : kernel.got[i].msg.rid = kernel.got[j].msg.rid /\ kernel.got[i].msg.rid # None => i = j \/ Cardinality({c \in RpcCalls : RequestOf[c] = kernel.got[i].msg.rid}) > 1

\* The receive loop listens to the stream the requests are sent on.
ReceiverFollows == (loop["recv"].pc = "use" /\ loop["recv"].on \in alive /\ stream \in alive) => loop["recv"].on = stream

------------------------------------------------------------------------------
(***************************************************************************)
(* kernelrpc, the server side: SimplifiedStreamServer hands the requests of  *)
(* a stream to a pool of workers; each worker takes a response message from  *)
(* a pool of its own, runs the handler, queues the message for the stream's  *)
(* send loop, waits a limited time for it to be sent and gives it back.      *)
(***************************************************************************)

CONSTANTS
    ServerRequests,    \* messages of the client, by message ID
    ResponseObjects,   \* objects of streamMessagePool and invokeResponsePool
    Workers            \* concurrentNum of the task pool

ASSUME NoneAssumption == None \notin ServerRequests \cup ResponseObjects

VARIABLES
    work,              \* [ServerRequests -> [pc, obj]]
    rspPool,           \* free response objects
    rsp,               \* [ResponseObjects -> [mid, result]]
    sendCh,            \* objects that wait for the send loop
    sending,           \* the object the send loop holds, or None
    rspAcks,           \* requests whose Send was acknowledged
    late,              \* requests whose Send gave up
    answers,           \* what the client received
    streamOpen,        \* the stream works
    connClosed,        \* closeCh
    stopping           \* "no", "draining", "stopped": Stop

srvVars == <<work, rspPool, rsp, sendCh, sending, rspAcks, late, answers, streamOpen, connClosed, stopping>>

NoResponse == [mid |-> None, result |-> None]
Computed(r) == <<"result of", r>>
Busy == {r \in ServerRequests : work[r].pc \in {"running", "filled", "waiting"}}

\* recvLoop and MessageStream: a request goes to a free worker.
HandleMessage(r) ==
    /\ work[r].pc = "none" /\ streamOpen /\ ~connClosed /\ Cardinality(Busy) < Workers
    /\ work' = [work EXCEPT ![r].pc = "running"]
    /\ UNCHANGED <<rspPool, rsp, sendCh, sending, rspAcks, late, answers, streamOpen, connClosed, stopping>>

\* handleRequest, acquireStreamMessageInvokeResponse: the message ID is set before the handler
\* runs.
AcquireResponse(r, o) ==
    /\ work[r] = [pc |-> "running", obj |-> None] /\ o \in rspPool
    /\ rspPool' = rspPool \ {o}
    /\ rsp' = [rsp EXCEPT ![o] = [mid |-> r, result |-> None]]
    /\ work' = [work EXCEPT ![r].obj = o]
    /\ UNCHANGED <<sendCh, sending, rspAcks, late, answers, streamOpen, connClosed, stopping>>

\* handleRequest: the handler's result.
RunHandler(r) ==
    /\ work[r].pc = "running" /\ work[r].obj # None
    /\ rsp' = [rsp EXCEPT ![work[r].obj].result = Computed(r)]
    /\ work' = [work EXCEPT ![r].pc = "filled"]
    /\ UNCHANGED <<rspPool, sendCh, sending, rspAcks, late, answers, streamOpen, connClosed, stopping>>

\* releaseStreamMessageInvokeResponse: the object is reset and may be taken again.
ReleaseResponse(r) ==
    /\ rsp' = [rsp EXCEPT ![work[r].obj] = NoResponse]
    /\ rspPool' = rspPool \cup {work[r].obj}
    /\ work' = [work EXCEPT ![r] = [pc |-> "done", obj |-> None]]

\* Faulty variant: the worker does not wait for its message to be sent.
QueueAndRelease(r) ==
    /\ work[r].pc = "filled"
    /\ sendCh' = Append(sendCh, work[r].obj) /\ ReleaseResponse(r)
    /\ UNCHANGED <<sending, rspAcks, late, answers, streamOpen, connClosed, stopping>>

\* handleRequest's deferred Send.
QueueResponse(r) ==
    /\ work[r].pc = "filled"
    /\ IF connClosed THEN ReleaseResponse(r) /\ UNCHANGED sendCh
       ELSE /\ sendCh' = Append(sendCh, work[r].obj)
            /\ work' = [work EXCEPT ![r].pc = "waiting"] /\ UNCHANGED <<rspPool, rsp>>
    /\ UNCHANGED <<sending, rspAcks, late, answers, streamOpen, connClosed, stopping>>
SendEnds(r) ==
    /\ work[r].pc = "waiting"
    /\ ReleaseResponse(r)
    /\ \/ r \in rspAcks /\ late' = late
       \/ late' = late \cup {r}                 \* defaultSendTimeout
    /\ UNCHANGED <<sendCh, sending, rspAcks, answers, streamOpen, connClosed, stopping>>

\* sendLoop: what the object holds when it is sent goes to the client, and its Send is told.
TakeResponse ==
    /\ sending = None /\ sendCh # <<>> /\ ~connClosed
    /\ sending' = Head(sendCh) /\ sendCh' = Tail(sendCh)
    /\ UNCHANGED <<work, rspPool, rsp, rspAcks, late, answers, streamOpen, connClosed, stopping>>
SendResponse ==
    /\ sending # None /\ sending' = None
    /\ IF streamOpen THEN answers' = answers \cup {rsp[sending]} /\ UNCHANGED connClosed
       ELSE connClosed' = TRUE /\ UNCHANGED answers      \* repairStream without a repairFunc
    /\ rspAcks' = rspAcks \cup ({rsp[sending].mid} \ {None})
    /\ UNCHANGED <<work, rspPool, rsp, sendCh, late, streamOpen, stopping>>

\* The client goes; the receive loop's error closes the connection and MessageStream returns.
ClientLeaves ==
    /\ streamOpen /\ streamOpen' = FALSE
    /\ UNCHANGED <<work, rspPool, rsp, sendCh, sending, rspAcks, late, answers, connClosed, stopping>>
CloseConnection ==
    /\ ~streamOpen /\ ~connClosed /\ connClosed' = TRUE
    /\ UNCHANGED <<work, rspPool, rsp, sendCh, sending, rspAcks, late, answers, streamOpen, stopping>>

\* Stop: GracefulStop returns once MessageStream has, and only then the connections are closed;
\* stopCh is never closed.
Stop ==
    /\ stopping = "no" /\ stopping' = "draining"
    /\ UNCHANGED <<work, rspPool, rsp, sendCh, sending, rspAcks, late, answers, streamOpen, connClosed>>
Stopped ==
    /\ stopping = "draining" /\ connClosed /\ stopping' = "stopped"
    /\ UNCHANGED <<work, rspPool, rsp, sendCh, sending, rspAcks, late, answers, streamOpen, connClosed>>

------------------------------------------------------------------------------
SrvInit ==
    /\ work = [r \in ServerRequests |-> [pc |-> "none", obj |-> None]]
    /\ rspPool = ResponseObjects /\ rsp = [o \in ResponseObjects |-> NoResponse]
    /\ sendCh = <<>> /\ sending = None /\ rspAcks = {} /\ late = {} /\ answers = {}
    /\ streamOpen = TRUE /\ connClosed = FALSE /\ stopping = "no"

SrvNext ==
    \/ \E r \in ServerRequests : \/ HandleMessage(r) \/ RunHandler(r) \/ QueueResponse(r) \/ SendEnds(r)
                                 \/ \E o \in ResponseObjects : AcquireResponse(r, o)
    \/ TakeResponse \/ SendResponse \/ ClientLeaves \/ CloseConnection \/ Stop \/ Stopped

SrvSpec == SrvInit /\ [][SrvNext]_srvVars
FairSrvSpec == SrvSpec /\ WF_srvVars(Stopped) /\ WF_srvVars(CloseConnection) /\ WF_srvVars(TakeResponse) /\ WF_srvVars(SendResponse)

------------------------------------------------------------------------------
\* Properties

\* As long as no Send gave up, every answer the client receives is the result of the handler
\* for the request of that message ID, though the messages are reused.
AnswerIsComputed == late = {} => \A a \in answers : a.mid # None /\ a.result = Computed(a.mid)

\* The same whatever Send did.
AnswerIsAlwaysComputed == \A a \in answers : a.mid # None => a.result = Computed(a.mid)

\* Stop returns.
StopReturns == stopping = "draining" ~> stopping = "stopped"

\* A call of the kernel is called back at most once, on either side of a repaired stream, with
\* what the handler computed for it (kernelrpc).
RpcAnsweredOnce == CallbackOnce /\ AnswerIsComputed
==============================================================================
