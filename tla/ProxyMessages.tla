---------------------------- MODULE ProxyMessages ----------------------------
(***************************************************************************)
(* The messages between the frontend and a FunctionProxy                    *)
(* (common/util/simple_runtime_proxy_client.go): how a typed or a raw call   *)
(* becomes a request on the wire, with the pooled buffers that hold its      *)
(* prefixed arguments and the pooled connection it goes over, and how the    *)
(* answer becomes what the caller reads. Where a call is sent, and whether   *)
(* it is sent again, is in ProxyClient.                                      *)
(*                                                                          *)
(* A value is the data it carries, its length, and whether it begins with    *)
(* the 16 zero bytes the FaaS executor strips (pre). A function is its name  *)
(* and the tenant before its first slash ("" when there is none).            *)
(***************************************************************************)
EXTENDS GoValues, Integers, Sequences, FiniteSets

CONSTANTS
    ProxyCalls,       \* the calls in progress
    ProxyInputs,      \* what a call may be made with
    ProxyAnswers,     \* what a FunctionProxy may answer
    ProxyAddresses,   \* addresses of FunctionProxies
    SmallBuffer,      \* simpleRuntimeSmallValueBufferSize
    MediumBuffer,     \* simpleRuntimeMediumValueBufferSize
    MetaPrefix,       \* length of simpleRuntimeFaaSMetaPrefix (16)
    MaxBuffers,       \* buffers ever made
    MaxProxyConns     \* connections ever made

ASSUME BuffersAssumption == MaxBuffers \in Nat /\ MaxProxyConns \in Nat

VARIABLES
    call,       \* [ProxyCalls -> the call]
    free,       \* the buffers in each pool
    made,       \* how many buffers were made
    content,    \* what each buffer holds
    proxyConns, \* frontendProxyGRPCClientPool.conns
    dialled,    \* how many connections were made
    closed      \* the connections that were closed

proxyMsgVars == <<call, free, made, content, proxyConns, dialled, closed>>

Buffers == 1..MaxBuffers
Pools == {"small", "medium"}

------------------------------------------------------------------------------
(* Arguments *)

FirstNonEmpty(values) ==
    LET some == {i \in DOMAIN values : values[i] # ""}
    IN  IF some = {} THEN "" ELSE values[CHOOSE i \in some : \A j \in some : i <= j]

ArgTenant(args) == FirstNonEmpty([i \in DOMAIN args |-> args[i].tenant])

\* An argument without its tenant: the tenant is not sent with it.
ConvertArgs(args) == [i \in DOMAIN args |-> [type |-> args[i].type, val |-> args[i].val, nested |-> args[i].nested]]

NeedsPrefix(api) == api \in {"faas", "serve"}
ToPrefix(arg) == arg.type = "value" /\ ~arg.val.pre
Prefix(arg) == IF ToPrefix(arg) THEN [arg EXCEPT !.val.pre = TRUE, !.val.len = @ + MetaPrefix] ELSE arg
PrefixAll(args) == [i \in DOMAIN args |-> Prefix(args[i])]

\* Which pool serves a prefixed value; a large one is allocated and never pooled.
PoolOf(arg) ==
    CASE arg.val.len + MetaPrefix <= SmallBuffer -> "small"
      [] arg.val.len + MetaPrefix \in (SmallBuffer + 1)..MediumBuffer -> "medium"
      [] OTHER -> "none"

\* The first argument tells the executor what is called; one message per code path.
Metadata(type, f, codePaths) ==
    [type |-> "value", nested |-> FALSE,
     val |-> [pre |-> FALSE, len |-> 1, data |-> [invoke |-> type, function |-> f, config |-> codePaths]]]

InvokeArgs(f, api, args) ==
    CASE api = "posix" -> ConvertArgs(args)
      [] NeedsPrefix(api) -> <<Metadata("invoke", f, <<>>)>> \o PrefixAll(ConvertArgs(args))
      [] OTHER -> <<Metadata("invoke", f, <<>>)>> \o ConvertArgs(args)

\* A create prefixes the values of every API but POSIX.
CreateArgs(f, api, args, codePaths) ==
    IF api = "posix" THEN ConvertArgs(args) ELSE <<Metadata("create", f, codePaths)>> \o PrefixAll(ConvertArgs(args))

\* The direct proxy takes inline values only.
InlineOnly(args) == \A i \in DOMAIN args : args[i].type = "value" /\ ~args[i].nested

------------------------------------------------------------------------------
(* Contexts and options *)

Merge(f, g) == [k \in DOMAIN f \cup DOMAIN g |-> IF k \in DOMAIN g THEN g[k] ELSE f[k]]
Value(f, k) == IF k \in DOMAIN f THEN f[k] ELSE ""
Tag(f, k, v, given) == IF given THEN Merge(f, [x \in {k} |-> v]) ELSE f

InvokeTags(o) ==
    LET tags == Merge(o.ext, o.createOpt)
        session == Tag(tags, "YR_AGENT_SESSION_ID", o.session, o.session \notin {None, ""})
    IN  Tag(Tag(session, "IS_INTERRUPTED", "true", o.interrupted), "ENABLE_FORCE_INVOKE", "", o.force)

\* The source of a create is set unless the caller set it.
CreateSource(options) == Tag(options, "source", "frontend", "source" \notin DOMAIN options)

CreateOptions(o) == CreateSource(Merge(o.ext, o.createOpt))

\* CPU and memory are sent when they are not zero; a custom resource of that name wins.
SchedulingOps(o) ==
    LET own == Tag(Tag(<<>>, "CPU", o.cpu, o.cpu # 0), "Memory", o.memory, o.memory # 0)
        resources == Merge(own, o.resources)
    IN  IF resources = <<>> /\ o.priority = 0 /\ o.scheduleTimeout = 0 THEN None
        ELSE [resources |-> resources, priority |-> o.priority, timeout |-> o.scheduleTimeout]

RequestContext(tenant, id, trace, parent) ==
    [tenant |-> tenant, id |-> id, trace |-> trace, labels |-> Tag(<<>>, "traceparent", parent, parent # "")]

\* The tenant of a raw create: an option of any of three names, else the function's.
CreateTenant(r) ==
    FirstNonEmpty(<<Value(r.options, "tenantID"), Value(r.options, "tenantId"), Value(r.options, "tenant"), r.function.tenant>>)

TimeoutMs(seconds) == IF seconds <= 0 THEN 0 ELSE seconds * 1000

\* When the frontend stops waiting (in ms): after 60 s by default, and 10 s after the invoke had to end.
DefaultTimeout == 60000
ResultBuffer == 10000
Deadline(seconds, buffer) == (IF seconds > 0 THEN seconds * 1000 ELSE DefaultTimeout) + buffer

------------------------------------------------------------------------------
(* A call *)

RawKinds == {"rawInvoke", "rawCreate"}

NoConn == [address |-> None, id |-> 0]
Idle == [phase |-> "idle", in |-> None, id |-> 0, conn |-> NoConn, args |-> <<>>, held |-> {}, sent |-> None, reply |-> None, late |-> None]

ProxyMsgInit ==
    /\ call = [c \in ProxyCalls |-> Idle]
    /\ free = [p \in Pools |-> {}] /\ made = 0 /\ content = [b \in Buffers |-> None]
    /\ proxyConns = [a \in ProxyAddresses |-> None] /\ dialled = 0 /\ closed = {}

Set(c, r) == call' = [call EXCEPT ![c] = r]
Error(why) == [kind |-> "error", why |-> why]
Fails(c, why) == Set(c, [call[c] EXCEPT !.phase = "done", !.reply = Error(why)])
UnchangedBuffers == UNCHANGED <<free, made, content>>
UnchangedConns == UNCHANGED <<proxyConns, dialled, closed>>

\* The owner of a raw invoke is found through the instance its bytes name.
Unroutable(in) == in.kind = "rawInvoke" /\ ~in.readable

\* ClientForAddress, under the lock of the pool: the pooled connection, or a new one when the
\* credentials can be loaded. An agent's raw call goes to the libruntime instead.
Begin(c, in, a) ==
    /\ call[c].phase = "idle" /\ UnchangedBuffers
    /\ \/ /\ Unroutable(in) /\ UnchangedConns
          /\ Set(c, [call[c] EXCEPT !.phase = "done", !.in = in, !.reply = Error("unmarshal")])
       \/ in.kind = "agent" /\ Set(c, [call[c] EXCEPT !.phase = "dialled", !.in = in]) /\ UnchangedConns
       \/ /\ in.kind # "agent" /\ ~Unroutable(in) /\ proxyConns[a] # None
          /\ Set(c, [call[c] EXCEPT !.phase = "dialled", !.in = in, !.conn = [address |-> a, id |-> proxyConns[a]]])
          /\ UnchangedConns
       \/ /\ in.kind # "agent" /\ ~Unroutable(in) /\ proxyConns[a] = None /\ dialled < MaxProxyConns
          /\ dialled' = dialled + 1 /\ proxyConns' = [proxyConns EXCEPT ![a] = dialled'] /\ UNCHANGED closed
          /\ Set(c, [call[c] EXCEPT !.phase = "dialled", !.in = in, !.conn = [address |-> a, id |-> dialled']])
       \/ /\ in.kind # "agent" /\ ~Unroutable(in) /\ proxyConns[a] = None
          /\ Set(c, [call[c] EXCEPT !.phase = "done", !.in = in, !.reply = Error("credentials")]) /\ UnchangedConns

\* Every value without the prefix is copied behind it into a buffer: one of its pool, or a new one.
\* sync.Pool may answer that it has none while it holds some.
EncodeForRPC(c) ==
    LET in == call[c].in
        args == ConvertArgs(in.args)
        pooled == {i \in DOMAIN args : NeedsPrefix(in.api) /\ ToPrefix(args[i]) /\ PoolOf(args[i]) # "none"}
        prefixed == IF NeedsPrefix(in.api) THEN PrefixAll(args) ELSE args
        meta == IF in.api = "posix" THEN <<>> ELSE <<Metadata("invoke", in.function, <<>>)>>
    IN  /\ call[c].phase = "dialled" /\ in.kind \in {"invoke", "agent"}
        /\ \E take \in [pooled -> Buffers] :
              LET new == {i \in pooled : take[i] > made}
              IN  /\ \A i, j \in pooled : take[i] = take[j] => i = j
                  /\ {take[i] : i \in new} = (made + 1)..(made + Cardinality(new))
                  /\ \A i, j \in new : i < j => take[i] < take[j]
                  /\ \A i \in pooled \ new : take[i] \in free[PoolOf(args[i])]
                  /\ made' = made + Cardinality(new)
                  /\ free' = [p \in Pools |-> free[p] \ {take[i] : i \in pooled}]
                  /\ content' = [b \in Buffers |->
                         IF \E i \in pooled : take[i] = b THEN prefixed[CHOOSE i \in pooled : take[i] = b].val ELSE content[b]]
                  /\ Set(c, [call[c] EXCEPT !.phase = "encoded",
                         !.args = meta \o [i \in DOMAIN prefixed |->
                             IF i \in pooled THEN [prefixed[i] EXCEPT !.val = [buffer |-> take[i]]] ELSE prefixed[i]],
                         !.held = {[pool |-> PoolOf(args[i]), buffer |-> take[i]] : i \in pooled}])
        /\ UnchangedConns

\* A create needs no pooled buffer, a kill has no arguments, and a raw call sends the arguments it was given.
Encode(c) ==
    LET in == call[c].in
    IN  /\ call[c].phase = "dialled" /\ in.kind \in {"create", "kill"} \cup RawKinds
        /\ \/ in.kind \in RawKinds /\ ~in.readable /\ Fails(c, "unmarshal")
           \/ in.kind \in RawKinds /\ in.readable /\ ~InlineOnly(in.args) /\ Fails(c, "inline")
           \/ in.kind \in RawKinds /\ in.readable /\ InlineOnly(in.args) /\ Set(c, [call[c] EXCEPT !.phase = "encoded", !.args = ConvertArgs(in.args)])
           \/ in.kind = "kill" /\ Set(c, [call[c] EXCEPT !.phase = "encoded"])
           \/ in.kind = "create"
              /\ Set(c, [call[c] EXCEPT !.phase = "encoded", !.args = CreateArgs(in.function, in.api, in.args, in.o.codePaths)])
        /\ UnchangedBuffers /\ UnchangedConns

\* What the message holds when it is marshalled: the buffers are read then.
Marshalled(args) ==
    [i \in DOMAIN args |-> IF "buffer" \in DOMAIN args[i].val THEN [args[i] EXCEPT !.val = content[args[i].val.buffer]] ELSE args[i]]

\* The request of each kind, and how long the frontend waits for its answer.
TypedInvoke(in, c) ==
    [context |-> RequestContext(ArgTenant(in.args), c, in.o.trace, ""), function |-> in.function,
     options |-> InvokeTags(in.o), scheduling |-> None, timeout |-> TimeoutMs(in.o.timeout)]
TypedCreate(in, c) ==
    [context |-> RequestContext(FirstNonEmpty(<<ArgTenant(in.args), in.tenant>>), c, in.o.trace, ""), function |-> in.function,
     options |-> CreateOptions(in.o), scheduling |-> SchedulingOps(in.o), timeout |-> 0]
RawInvoke(in, c) ==
    [context |-> RequestContext(in.function.tenant, c, in.trace, in.parent), function |-> in.function,
     options |-> Tag(in.options, "traceparent", in.parent, in.parent # ""), scheduling |-> None, timeout |-> 0]
RawCreate(in, c) ==
    [context |-> RequestContext(CreateTenant(in), c, in.trace, in.parent), function |-> in.function,
     options |-> Tag(CreateSource(in.options), "traceparent", in.parent, in.parent # ""), scheduling |-> None,
     timeout |-> TimeoutMs(in.timeout)]
Kill(in, c) ==
    [context |-> RequestContext(in.tenant, IF in.id # "" THEN in.id ELSE c, in.o.trace, Value(in.o.ext, "traceparent")), function |-> None,
     options |-> <<>>, scheduling |-> None, timeout |-> TimeoutMs(in.o.timeout)]
\* An agent's call keeps the request ID it was marshalled with; the libruntime adds the context.
AgentInvoke(in, c) ==
    [context |-> RequestContext("", c, in.o.trace, ""), function |-> in.function, options |-> <<>>, scheduling |-> None, timeout |-> 0]

Message(in, c) ==
    CASE in.kind = "invoke" -> TypedInvoke(in, c) [] in.kind = "create" -> TypedCreate(in, c)
      [] in.kind = "rawInvoke" -> RawInvoke(in, c) [] in.kind = "rawCreate" -> RawCreate(in, c)
      [] in.kind = "kill" -> Kill(in, c) [] in.kind = "agent" -> AgentInvoke(in, c)

WaitsFor(in) ==
    CASE in.kind = "invoke" -> Deadline(in.o.timeout, ResultBuffer) [] in.kind \in {"create", "kill"} -> Deadline(in.o.timeout, 0) [] OTHER -> None

\* The request goes out under a new request ID of its own.
Send(c) ==
    /\ call[c].phase = "encoded"
    /\ Set(c, [call[c] EXCEPT !.phase = "sent", !.id = c, !.late = WaitsFor(call[c].in),
           !.sent = [message |-> Message(call[c].in, c), args |-> Marshalled(call[c].args)]])
    /\ UnchangedBuffers /\ UnchangedConns

------------------------------------------------------------------------------
(* The answer *)

\* A raw reply is marshalled again under the request ID its caller knows.
Notify(result, in, c) ==
    [kind |-> "notify", id |-> IF in.id # "" THEN in.id ELSE c, code |-> result.code, message |-> result.message,
     objects |-> result.objects, instance |-> result.instance]

\* An invoke of FaaS or Serve loses the prefix of its result.
Payload(api, val) == IF NeedsPrefix(api) /\ val.pre THEN [val EXCEPT !.pre = FALSE, !.len = @ - MetaPrefix] ELSE val

\* The call result of a raw create: the typed field, else the same field among the unknown ones.
ReadyResult(x) ==
    CASE x.ready = "malformed" -> Error("malformed") [] x.ready \in {"typed", "unknown"} -> x.call [] OTHER -> None

InvokeReply(in, x) ==
    CASE x.status # 0 -> Error("status")
      [] x.status = 0 /\ x.call = None -> Error("missing")
      [] x.status = 0 /\ x.call # None /\ x.call.code # 0 -> Error("business")
      [] OTHER -> [kind |-> "payload", val |-> Payload(in.api, x.call.message)]

\* A call result counts before the status.
RawInvokeReply(in, c, x) ==
    CASE x.call # None -> Notify(x.call, in, c)
      [] x.call = None /\ x.status # 0 -> Error("status")
      [] OTHER -> Error("missing")

KillReply(x) ==
    CASE x.status # 0 -> Error("status")
      [] x.status = 0 /\ x.create = None -> Error("missing")
      [] x.status = 0 /\ x.create # None /\ x.create.code # 0 -> Error("business")
      [] OTHER -> [kind |-> "killed"]

CreateReply(x) ==
    CASE x.status # 0 -> Error("status")
      [] x.status = 0 /\ x.create = None -> Error("missing")
      [] x.status = 0 /\ x.create # None /\ x.create.code # 0 -> Error("business")
      [] x.status = 0 /\ x.create # None /\ x.create.code = 0 /\ x.create.instance = "" -> Error("instance")
      [] x.status = 0 /\ x.create # None /\ x.create.code = 0 /\ x.create.instance # "" /\ x.owner = "address" -> Error("owner")
      [] OTHER -> [kind |-> "instance", instance |-> x.create.instance]

RawCreateReply(in, c, x) ==
    LET result == ReadyResult(x)
        ready == result # None /\ x.ready # "malformed"
        instance == IF ready /\ x.create # None THEN FirstNonEmpty(<<x.create.instance, result.instance>>) ELSE ""
    IN  CASE x.status # 0 -> Error("status")
          [] x.status = 0 /\ x.ready = "malformed" -> result
          [] x.status = 0 /\ result = None /\ x.create # None /\ x.create.code # 0 -> Error("business")
          [] x.status = 0 /\ result = None /\ (x.create = None \/ x.create.code = 0) -> Error("missing")
          [] x.status = 0 /\ ready /\ x.create # None /\ ((instance # "" /\ x.owner = "") \/ x.owner = "address") -> Error("owner")
          [] OTHER -> Notify(result, in, c)

ReplyOf(in, c, x) ==
    CASE in.kind = "invoke" -> InvokeReply(in, x) [] in.kind = "create" -> CreateReply(x)
      [] in.kind = "rawCreate" -> RawCreateReply(in, c, x)
      [] in.kind = "rawInvoke" -> RawInvokeReply(in, c, x) [] in.kind = "kill" -> KillReply(x)
      [] in.kind = "agent" -> IF x.call = None THEN Error("missing") ELSE Notify(x.call, [in EXCEPT !.id = c], c)

\* EvictAddress: whatever connection the address has now leaves the pool and is closed.
Evicted(a) ==
    IF proxyConns[a] = None THEN UnchangedConns
    ELSE /\ proxyConns' = [proxyConns EXCEPT ![a] = None] /\ closed' = closed \cup {proxyConns[a]} /\ UNCHANGED dialled

\* The deferred release puts every buffer of the call back into its pool.
PutBack(c) == free' = [p \in Pools |-> free[p] \cup {h.buffer : h \in {k \in call[c].held : k.pool = p}}]

ReleaseAndReply(c, reply) ==
    /\ PutBack(c) /\ UNCHANGED <<made, content>>
    /\ Set(c, [call[c] EXCEPT !.phase = "done", !.held = {}, !.reply = reply])

\* A closed connection fails its calls with a code that evicts nothing; but a call that failed
\* before may evict after another one did, and then closes the connection made since.
ProxyAnswered(c, x) ==
    /\ call[c].phase = "sent" /\ call[c].conn.id \notin closed
    /\ ReleaseAndReply(c, ReplyOf(call[c].in, c, x)) /\ UnchangedConns
TransportFails(c) ==
    /\ call[c].phase = "sent" /\ call[c].conn # NoConn
    /\ ReleaseAndReply(c, Error("transport")) /\ Evicted(call[c].conn.address)
Cancelled(c) ==
    /\ call[c].phase = "sent"
    /\ ReleaseAndReply(c, Error("cancelled")) /\ UnchangedConns

ProxyMsgNext ==
    \E c \in ProxyCalls :
       \/ \E in \in ProxyInputs, a \in ProxyAddresses : Begin(c, in, a)
       \/ EncodeForRPC(c)
       \/ Encode(c)
       \/ Send(c)
       \/ \E x \in ProxyAnswers : ProxyAnswered(c, x)
       \/ TransportFails(c)
       \/ Cancelled(c)

ProxyMsgSpec == ProxyMsgInit /\ [][ProxyMsgNext]_proxyMsgVars

------------------------------------------------------------------------------
(* Properties *)

\* A FunctionProxy is sent the arguments its caller gave, as the conversion without pooled
\* buffers would: in their order, behind the metadata, each value with the prefix the executor
\* strips, exactly once. A buffer never carries the bytes of another call
\* (simple_runtime_proxy_client.go:1512-1559).
SentAsGiven ==
    \A c \in ProxyCalls : call[c].sent # None =>
       LET in == call[c].in
       IN  call[c].sent.args = CASE in.kind \in {"invoke", "agent"} -> InvokeArgs(in.function, in.api, in.args)
                                 [] in.kind = "create" -> CreateArgs(in.function, in.api, in.args, in.o.codePaths)
                                 [] in.kind \in RawKinds -> ConvertArgs(in.args)
                                 [] OTHER -> <<>>

\* The pool hands out no connection that was closed, and a raw call is answered under the
\* request ID its caller gave, never the one of another call.
PoolIsOpen == \A a \in ProxyAddresses : proxyConns[a] \notin closed
NamedAsAsked ==
    \A c \in ProxyCalls : call[c].reply # None /\ call[c].reply.kind = "notify" =>
       call[c].reply.id \in {c, call[c].in.id} /\ (call[c].in.kind \in RawKinds /\ call[c].in.id # "" => call[c].reply.id = call[c].in.id)


\* The frontend does not give up on a call before the time it lets the proxy take has passed.
WaitsLongEnough ==
    \A c \in ProxyCalls : call[c].sent # None /\ call[c].late # None => call[c].sent.message.timeout <= call[c].late

ProxyMessagesSound == SentAsGiven /\ PoolIsOpen /\ NamedAsAsked /\ WaitsLongEnough
==============================================================================
