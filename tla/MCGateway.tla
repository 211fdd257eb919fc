------------------------------ MODULE MCGateway ------------------------------
(***************************************************************************)
(* The handlers of the gateway, checked in one run. They share no variable,  *)
(* so an invariant of one of them holds of the whole exactly when it holds   *)
(* while that one moves: part says which one does, the others stay in their  *)
(* initial states.                                                           *)
(***************************************************************************)
EXTENDS InvokeChain, AsyncInvocation, RequestGate, LoginFlow, Terminal, Tunnels, SshProxy,
        PosixWs, AppJobs, RawHandlers, KernelInvoke, ProxyMessages, SandboxCalls, TLC

VARIABLE part

CONSTANTS r1, r2, r3

------------------------------------------------------------------------------
\* InvokeChain: two requests of one function and one of another.
MCFunc == (r1 :> "f" @@ r2 :> "f" @@ r3 :> "g")
MCWant == (r1 :> 3 @@ r2 :> 2 @@ r3 :> 2)

\* AsyncInvocation: a success and an answer without a status code; a panic is always possible.
MCOutcomes == {[code |-> 200, err |-> "none"], [code |-> 0, err |-> "none"]}

\* Tunnels: one request with its variations, an instance of its tenant and others.
TunnelRequest == [kind |-> "http", tokens |-> <<"", "t1", "", "">>, tenant |-> "", instance |-> "i1", port |-> 0,
                  path |-> "/p", query |-> {"instance", "q"}, auth |-> TRUE, proto |-> "", tls |-> TRUE]
MCTunnelRequests ==
    {TunnelRequest, [TunnelRequest EXCEPT !.kind = "ws"], [TunnelRequest EXCEPT !.port = 65536],
     [TunnelRequest EXCEPT !.instance = None], [TunnelRequest EXCEPT !.tokens = <<"", "", "", "">>],
     [TunnelRequest EXCEPT !.tokens = <<"", "", "bad", "t1">>], [TunnelRequest EXCEPT !.instance = "paused"],
     [TunnelRequest EXCEPT !.instance = "other"], [TunnelRequest EXCEPT !.instance = "other", !.tokens = <<"sys", "", "", "">>],
     [TunnelRequest EXCEPT !.instance = "ended"], [TunnelRequest EXCEPT !.path = "", !.proto = "http"]}
MCTokenTenant == [t \in {"t1", "bad", "sys"} |-> CASE t = "t1" -> "tenant1" [] t = "sys" -> "system" [] OTHER -> None]
Sandbox(t, p, r) == [tenant |-> t, paused |-> p, running |-> r]
MCSandboxes == [i \in {"i1", "paused", "other", "ended"} |->
                   CASE i = "i1" -> Sandbox("tenant1", FALSE, TRUE) [] i = "paused" -> Sandbox("tenant1", TRUE, FALSE)
                     [] i = "other" -> Sandbox("tenant2", FALSE, TRUE) [] OTHER -> Sandbox("tenant1", FALSE, FALSE)]
MCClientBytes == <<"f1", "f2", "r2">>
MCSandboxBytes == <<"a1", "a2">>

\* SshProxy: user names right and wrong, one instance ready and one not.
UserName(instance, options) == [prefix |-> "yr", type |-> "instance", instance |-> instance, short |-> TRUE, options |-> options]
UserOption(k, v, ok) == [key |-> k, value |-> v, valid |-> ok]
MCUserNames == {UserName("i1", <<UserOption("port", "22", TRUE)>>), UserName("i2", <<>>),
                UserName("i1", <<UserOption("port", "22", TRUE), UserOption("port", "23", TRUE)>>)}
MCSshTargets == [i \in {"i1", "i2"} |-> [paused |-> i = "i2", routed |-> TRUE, running |-> TRUE, user |-> "u"]]

\* PosixWs: complete, short and malformed frames; requests and a ping as text.
MCHandshakeTokens == {[header |-> a, query |-> None, cookie |-> None, protocol |-> b, tenant |-> c] : a \in {None, "t1", "invalid"}, b \in {None, "", "t2"}, c \in {None, "t3"}}
MCMessages ==
    {[bin |-> TRUE, data |-> d] : d \in {<<1, 1, 0, 1, 7, 5, 5>>, <<1, 2, 0, 2, 8, 7>>, <<1, 9, 0, 1, 9, 5>>,
                                         <<1, 1, 0, 3, 6>>, <<2, 1, 0, 0>>, <<1>>}}
    \cup {[bin |-> FALSE, form |-> "request", op |-> 1, id |-> <<7>>, payload |-> <<5>>],
          [bin |-> FALSE, form |-> "request", op |-> 2, id |-> <<8>>, payload |-> None],
          [bin |-> FALSE, form |-> "request", op |-> 9, id |-> <<9>>, payload |-> <<5>>],
          [bin |-> FALSE, form |-> "ping", op |-> 0, id |-> <<>>, payload |-> <<>>],
          [bin |-> FALSE, form |-> "garbage", op |-> 0, id |-> <<>>, payload |-> <<>>]}

\* AppJobs: options that collide with fields, a generated ID, and three invalid requests.
NoOpts == [entry |-> "", pip |-> "", dir |-> "", env |-> "", meta |-> "", tenant |-> ""]
GoodRequest ==
    [entry |-> "e1", dir |-> "w1", pip |-> "p1", env |-> "", meta |-> "", opts |-> NoOpts, cpu |-> 15, gpu |-> 0,
     mem |-> 1048577, labels |-> {"l1", "unUseAnti"}, tenant |-> "t1", id |-> <<"app-", "j1">>]
MCJobRequests ==
    {[GoodRequest EXCEPT !.id = <<"bare", "j1">>, !.opts = [NoOpts EXCEPT !.entry = "x", !.dir = "x", !.meta = "x"]],
     [GoodRequest EXCEPT !.id = None, !.pip = "", !.env = "v1", !.meta = "m1"],
     [GoodRequest EXCEPT !.entry = ""], [GoodRequest EXCEPT !.cpu = -1],
     [GoodRequest EXCEPT !.id = <<"driver", "j1">>]}

\* RawHandlers: kills with and without an identity, readable or not.
MCOwner == [x \in {"i1", "i2"} |-> IF x = "i1" THEN "t1" ELSE "t2"]
MCIdentities == {[tenant |-> t, role |-> r] : t \in {"t1", "system"}, r \in {"developer", "user"}}
MCKill(readable, json, target, killAll, identity) ==
    [op |-> "kill", readable |-> readable, json |-> json, target |-> target, killAll |-> killAll, client |-> "i1", identity |-> identity]
MCInputs ==
    {MCKill(TRUE, FALSE, x, FALSE, d) : x \in {"i1", "i2"}, d \in MCIdentities}
    \cup {MCKill(TRUE, TRUE, x, FALSE, None) : x \in {"i1", None}} \cup {MCKill(FALSE, FALSE, "i1", FALSE, None)}
    \cup {MCKill(TRUE, FALSE, x, TRUE, [tenant |-> "t1", role |-> "developer"]) : x \in {"i1", "i2", "", None}}
    \cup {MCKill(TRUE, FALSE, "i1", FALSE, [tenant |-> "", role |-> "invalid"])}
    \cup {[MCKill(r, FALSE, "", FALSE, None) EXCEPT !.op = o] : o \in {"create", "invoke"}, r \in BOOLEAN}

\* ProxyMessages: values with and without the prefix, for each size of buffer, and calls of each kind.
ProxyArg(data, pre, len, tenant) == [type |-> "value", val |-> [pre |-> pre, data |-> data, len |-> len], nested |-> FALSE, tenant |-> tenant]
ProxyRef == [ProxyArg("o", FALSE, 1, "") EXCEPT !.type = "ref"]
ProxyOptions == [ext |-> ("traceparent" :> "p" @@ "k" :> "ext"), createOpt |-> ("k" :> "opt"), session |-> "s", interrupted |-> TRUE, force |-> FALSE,
                 timeout |-> 3, cpu |-> 5, memory |-> 0, resources |-> ("CPU" :> 7), priority |-> 0, scheduleTimeout |-> 0,
                 codePaths |-> <<"", "h">>, trace |-> "tr"]
NoOptions == [ProxyOptions EXCEPT !.ext = <<>>, !.createOpt = <<>>, !.session = None, !.interrupted = FALSE, !.force = TRUE, !.timeout = 0,
                 !.cpu = 0, !.resources = <<>>, !.codePaths = <<>>]
ProxyFunction(tenant) == [tenant |-> tenant, name |-> "fn"]
TypedProxyCall(kind, api, args, o) == [kind |-> kind, api |-> api, function |-> ProxyFunction("t"), args |-> args, o |-> o, tenant |-> "t9", id |-> ""]
RawProxyCall(kind, readable, args, id, parent, tenant) ==
    [kind |-> kind, readable |-> readable, function |-> ProxyFunction(tenant), args |-> args, id |-> id, trace |-> "tr", parent |-> parent,
     options |-> IF parent = "" THEN ("tenantId" :> "t2" @@ "source" :> "sdk") ELSE <<>>, timeout |-> 4]
MCProxyInputs ==
    LET one == ProxyArg("a", FALSE, 1, "")
        two == ProxyArg("b", FALSE, 3, "t1")
        prefixed == ProxyArg("c", TRUE, 2, "")
        large == ProxyArg("d", FALSE, 9, "")
    IN  {TypedProxyCall("invoke", "faas", <<one, two>>, ProxyOptions), TypedProxyCall("invoke", "serve", <<prefixed, one, large>>, NoOptions),
         TypedProxyCall("invoke", "actor", <<one, ProxyRef>>, NoOptions), TypedProxyCall("invoke", "posix", <<one>>, ProxyOptions),
         TypedProxyCall("create", "actor", <<one, prefixed>>, ProxyOptions), TypedProxyCall("create", "posix", <<one>>, NoOptions),
         TypedProxyCall("agent", "faas", <<two, ProxyArg("e", FALSE, 1, "")>>, NoOptions), TypedProxyCall("kill", "faas", <<>>, ProxyOptions),
         RawProxyCall("rawInvoke", TRUE, <<one>>, "x1", "p", "t"), RawProxyCall("rawInvoke", TRUE, <<ProxyRef>>, "", "", ""),
         RawProxyCall("rawInvoke", FALSE, <<>>, "", "", ""), RawProxyCall("rawCreate", TRUE, <<one>>, "x2", "", "t"),
         RawProxyCall("rawCreate", TRUE, <<prefixed>>, "", "p", ""), RawProxyCall("rawCreate", FALSE, <<>>, "", "", "")}
ProxyAnswer == [status |-> 0, ready |-> "typed", create |-> [code |-> 0, instance |-> "i"], owner |-> "node",
                call |-> [code |-> 0, message |-> [pre |-> TRUE, data |-> "m", len |-> 2], objects |-> 1, instance |-> ""]]
MCProxyAnswers ==
    {ProxyAnswer, [ProxyAnswer EXCEPT !.status = 1], [ProxyAnswer EXCEPT !.call = None, !.ready = "none"],
     [ProxyAnswer EXCEPT !.call.code = 4, !.ready = "unknown", !.owner = ""], [ProxyAnswer EXCEPT !.create = None, !.ready = "malformed"],
     [ProxyAnswer EXCEPT !.create.code = 4, !.call = None, !.ready = "none"], [ProxyAnswer EXCEPT !.owner = "address"],
     [ProxyAnswer EXCEPT !.create.instance = "", !.owner = ""]}

\* SandboxCalls: calls with the identity of the middleware, with a token and without; an overflow
\* of the page; results with each kind of header.
SbxDelete(instance, sub, token) ==
    [op |-> "delete", instance |-> instance, sub |-> sub, role |-> IF sub = None THEN None ELSE "developer", token |-> token, header |-> ""]
SbxSnapshot(timeout, token) ==
    [op |-> "snapshot", instance |-> "i1", sub |-> None, role |-> None, token |-> token, header |-> "h", body |-> TRUE, name |-> "n",
     timeout |-> timeout, requestID |-> TRUE]
SbxInvoke(action) ==
    [op |-> "invoke", instance |-> "i1", body |-> TRUE, action |-> action, args |-> <<[kind |-> "float", whole |-> TRUE], [kind |-> "float", whole |-> FALSE]>>]
SbxQuery(method, id, claim) == [op |-> "query", method |-> method, snapshot |-> id, requestID |-> method # "delete", header |-> "", claim |-> claim]
SbxList(token, tenant, page, size) == [op |-> "list", token |-> token, tenant |-> tenant, instance |-> "", page |-> page, size |-> size]
CONSTANTS b3, b4
MCSbxInputs == b4 :> {SbxDelete("i1", None, "d1"), SbxList("sys", "", None, None)} @@ b3 :>
    {SbxDelete("", None, None), SbxDelete("i1", None, None), SbxDelete("i1", "t2", None), SbxDelete("i1", None, "d1"),
     SbxDelete("i2", None, "d1"), SbxDelete("i1", None, "user"), SbxDelete("i1", None, "bad"), SbxDelete("i2", None, "sys"),
     SbxDelete("i2", None, "empty"), [SbxDelete("i1", "t1", None) EXCEPT !.role = None], [SbxDelete("i1", "t1", None) EXCEPT !.role = "user"],
     SbxSnapshot(0, "d2"), SbxSnapshot(3, "d1"), SbxInvoke("a"), SbxInvoke(""), SbxQuery("get", "s", "c"), SbxQuery("delete", "s", ""),
     SbxQuery("list", "", ""), SbxList(None, "", None, None), SbxList("d1", "t2", 2, 1), SbxList("sys", "", 5, 4), SbxList("sys", "t2", None, 0)}
SbxValue(kind) == [kind |-> kind, whole |-> TRUE, utf8 |-> TRUE, error |-> IF kind = "map" THEN "e" ELSE None]
SbxOutcome == [err |-> FALSE, parses |-> TRUE, code |-> 0, objects |-> 1, snapshot |-> "s", status |-> 200, master |-> "m",
               data |-> [header |-> "zero", whole |-> None, rest |-> SbxValue("bytes")]]
MCSbxOutcomes ==
    {SbxOutcome, [SbxOutcome EXCEPT !.err = TRUE], [SbxOutcome EXCEPT !.code = 4, !.status = 404], [SbxOutcome EXCEPT !.parses = FALSE],
     [SbxOutcome EXCEPT !.objects = 2, !.master = "", !.snapshot = ""], [SbxOutcome EXCEPT !.data.header = "length"],
     [SbxOutcome EXCEPT !.data = [header |-> "none", whole |-> None, rest |-> SbxValue("map")]],
     [SbxOutcome EXCEPT !.data = [header |-> "none", whole |-> None, rest |-> None]]}
MCSbxInstances == <<"i1", "i2">>
MCSummaryOf == [i \in {"i1", "i2"} |->
    IF i = "i1" THEN [tenant |-> "t1", status |-> "running", message |-> "", start |-> None, resources |-> {[kind |-> "CPU", exact |-> TRUE, value |-> 5]}]
    ELSE [tenant |-> "t2", status |-> "paused", message |-> "m", start |-> [form |-> "millis", at |-> 1000],
          resources |-> {[kind |-> "GPU", exact |-> FALSE, value |-> 1], [kind |-> "GPU", exact |-> FALSE, value |-> 2]}]]
DevToken(parses, tenant, role, exp) == [parses |-> parses, tenant |-> tenant, role |-> role, exp |-> exp]
MCDevTokens == [t \in {"d1", "d2", "sys", "user", "bad", "empty"} |->
    CASE t = "d1" -> DevToken(TRUE, "t1", "developer", 0) [] t = "d2" -> DevToken(TRUE, "t1", "developer", 1)
      [] t = "sys" -> DevToken(TRUE, "0", "developer", 0) [] t = "user" -> DevToken(TRUE, "t1", "user", 0)
      [] t = "bad" -> DevToken(FALSE, "", "", 0) [] OTHER -> DevToken(TRUE, "", "developer", 0)]

------------------------------------------------------------------------------
Stays(p, vars) == IF part = p THEN TRUE ELSE UNCHANGED vars

\* Only the handler p may move.
Only(p) ==
    /\ part = p /\ UNCHANGED part
    /\ Stays("chain", chainVars) /\ Stays("async", asyncVars) /\ Stays("gate", gateVars)
    /\ Stays("login", loginVars) /\ Stays("terminal", terminalVars) /\ Stays("tunnel", tunnelVars)
    /\ Stays("ssh", sshVars) /\ Stays("ws", wsVars) /\ Stays("jobs", jobVars)
    /\ Stays("raw", rawVars) /\ Stays("kernel", kVars) /\ Stays("messages", proxyMsgVars)
    /\ Stays("sandbox", sbxVars)

GatewayInit ==
    /\ part \in {"chain", "async", "gate", "login", "terminal", "tunnel", "ssh", "ws", "jobs", "raw", "kernel", "messages", "sandbox"}
    /\ ChainInit /\ AsyncInit /\ GateInit /\ LoginInit /\ TerminalInit /\ TunnelInit
    /\ SshInit /\ WsInit /\ JobInit /\ RawInit /\ KernelInit /\ ProxyMsgInit /\ SbxInit
    \* A handler that does not move stays in one of its initial states.
    /\ part # "async" => backend = "memory"
    /\ part # "tunnel" => tun.req = TunnelRequest

GatewayNext ==
    \/ Only("chain") /\ ChainNext
    \/ Only("async") /\ AsyncNext
    \/ Only("gate") /\ GateNext
    \/ Only("login") /\ LoginNext
    \/ Only("terminal") /\ TerminalNext
    \/ Only("tunnel") /\ TunnelNext
    \/ Only("ssh") /\ SshNext
    \/ Only("ws") /\ WsNext
    \/ Only("jobs") /\ JobNext
    \/ Only("raw") /\ RawNext
    \/ Only("kernel") /\ KernelNext
    \/ Only("messages") /\ ProxyMsgNext
    \/ Only("sandbox") /\ SbxNext

gatewayVars == <<part, chainVars, asyncVars, gateVars, loginVars, terminalVars, tunnelVars, sshVars,
                 wsVars, jobVars, rawVars, kVars, proxyMsgVars, sbxVars>>
GatewaySpec == GatewayInit /\ [][GatewayNext]_gatewayVars

\* What a caller is told is what happened to its own call: no asynchronous job is reported
\* completed that was not, no message of a WebSocket is answered with another one's result, an
\* application shows what was submitted, a request is counted with the status its client saw, a
\* FunctionProxy is sent the arguments of the call it answers, and a sandbox call is made and an
\* instance is listed for a tenant whose token the IAM server has accepted since the TTL.
RepliesAreTrue == NoFalseSuccess /\ AnswersMatch /\ InfoEchoesSubmit /\ CountedAsAnswered /\ ProxyMessagesSound /\ SandboxCallsSound
==============================================================================
