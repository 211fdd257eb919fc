------------------------------- MODULE Tunnels -------------------------------
(***************************************************************************)
(* The byte tunnels into a sandbox: wsproxy (WebSocket) and httpproxy (HTTP) *)
(* authenticate a request, find the proxy that owns the instance, open its   *)
(* tcp.tunnel, take the client's connection over and copy bytes both ways    *)
(* until one side ends. The client's bytes are "r" (the request the server   *)
(* has read), frames, and for HTTP perhaps a later request "r2" on the same  *)
(* connection.                                                               *)
(***************************************************************************)
EXTENDS GoValues, Integers, Sequences, SequencesExt

CONSTANTS
    TunnelRequests,   \* requests of clients
    TokenTenant,      \* [token -> tenant, or None for one IAM refuses]
    AuthRequired,     \* IamConfig.EnableFuncTokenAuth
    SystemTenant,
    Sandboxes,        \* [instance -> [tenant, paused, running]]
    ClientBytes,      \* what the client sends after its request
    SandboxBytes      \* what the sandbox answers

ASSUME ClientBytesAssumption == ClientBytes \in Seq(STRING)

VARIABLES
    tun,              \* the request: [pc, req, tenant, code]
    routes,           \* instances whose owner the route cache knows
    up,               \* what reached the sandbox
    down,             \* what reached the client
    clientLeft,       \* bytes of the client not yet read from its connection
    sandboxLeft,      \* bytes of the sandbox not yet read from the tunnel
    prefetch,         \* bytes the HTTP server read past the request
    conns             \* open connections: a subset of {"client", "tunnel"}

tunnelVars == <<tun, routes, up, down, clientLeft, sandboxLeft, prefetch, conns>>
pipeVars == <<up, down, clientLeft, sandboxLeft, prefetch>>

Refuse(code) == tun' = [tun EXCEPT !.pc = "refused", !.code = code] /\ UNCHANGED conns
TunnelGo(pc) == tun' = [tun EXCEPT !.pc = pc] /\ UNCHANGED conns

------------------------------------------------------------------------------
\* Before the connection is taken over

\* authenticateWebSocket: the first token of header, query, cookie and subprotocol.
TokenOf(req) ==
    LET given == SelectSeq(req.tokens, LAMBDA t : t # "")
    IN  IF given = <<>> THEN "" ELSE given[1]
Authenticated(req) ==
    IF ~AuthRequired THEN IF req.tenant = "" THEN "default" ELSE req.tenant
    ELSE IF TokenOf(req) = "" THEN None ELSE TokenTenant[TokenOf(req)]

\* resolveTargetPort: 0 stands for no port, which is the port of the agent.
ValidPort(port) == port = 0 \/ port \in 1..65535

\* tenantOwnsInstance
TenantOwnsInstance(tenant, ins) ==
    IF Sandboxes[ins].tenant = "" THEN tenant = "default"
    ELSE tenant = Sandboxes[ins].tenant \/ tenant = SystemTenant

\* dialSandboxTunnel up to the route; a paused instance has no route to wait for.
DialSandboxTunnel ==
    /\ tun.pc = "start"
    /\ LET tenant == Authenticated(tun.req)
       IN  IF tenant = None THEN Refuse(401)
           ELSE IF tun.req.instance = None \/ ~ValidPort(tun.req.port) THEN Refuse(400)
           ELSE IF Sandboxes[tun.req.instance].paused THEN Refuse(409)
           ELSE tun' = [tun EXCEPT !.pc = "route", !.tenant = tenant] /\ UNCHANGED conns
    /\ UNCHANGED <<routes, pipeVars>>

\* The instance watch fills the cache meanwhile.
RouteKnown(ins) ==
    /\ ins \notin routes /\ tun.pc \in {"start", "route"}
    /\ routes' = routes \cup {ins}
    /\ UNCHANGED <<tun, conns, pipeVars>>

\* resolveAndAuthorize: a route within the wait, of a running instance of the caller.
ResolveAndAuthorize ==
    /\ tun.pc = "route"
    /\ LET ins == tun.req.instance
       IN  IF ins \notin routes \/ ~Sandboxes[ins].running THEN Refuse(502)
           ELSE IF ~TenantOwnsInstance(tun.tenant, ins) THEN Refuse(403)
           ELSE TunnelGo("dial")
    /\ UNCHANGED <<routes, pipeVars>>

\* dialTunnelWithTimeout: the proxy accepts the header, or the connection, its deadline, the
\* exchange or the proxy's answer fails and what was opened is closed.
DialOutcomes == {"accepted", "failed"}

\* dialInstanceTunnel: the TLS configuration is loaded for every tunnel.
DialTunnel ==
    /\ tun.pc = "dial"
    /\ \/ Refuse(500)
       \/ \E tunnel \in DialOutcomes :
              IF tunnel = "accepted" THEN tun' = [tun EXCEPT !.pc = "hijack"] /\ conns' = conns \cup {"tunnel"}
              ELSE Refuse(502)
    /\ UNCHANGED <<routes, pipeVars>>

\* Hijack: the server may have read a part of what follows the request.
Hijack ==
    /\ tun.pc = "hijack"
    /\ \/ /\ tun' = [tun EXCEPT !.pc = "write"]
          /\ \E n \in 0..Len(clientLeft) : /\ prefetch' = SubSeq(clientLeft, 1, n)
                                           /\ clientLeft' = SubSeq(clientLeft, n + 1, Len(clientLeft))
          /\ UNCHANGED conns
       \/ /\ tun' = [tun EXCEPT !.pc = "refused", !.code = 500] /\ conns' = conns \ {"tunnel"}
          /\ UNCHANGED <<prefetch, clientLeft>>
    /\ UNCHANGED <<routes, up, down, sandboxLeft>>

------------------------------------------------------------------------------
\* After it

\* rewriteRequest: the route's prefix, its query keys and Authorization are taken off and
\* X-Forwarded-Proto is set; wsproxy forwards the request as it came.
RouteQueryKeys == {"instance", "port", "tenant_id", "token"}
RewriteRequest(req) ==
    IF req.kind = "ws" THEN [path |-> <<"prefix", req.path>>, query |-> req.query, auth |-> req.auth, proto |-> req.proto]
    ELSE [path |-> <<IF req.path = "" THEN "/" ELSE req.path>>, query |-> req.query \ RouteQueryKeys, auth |-> FALSE,
          proto |-> IF req.proto # "" THEN req.proto ELSE IF req.tls THEN "https" ELSE "http"]

\* HandleWebSocket and HandleHTTP: the request goes first into the tunnel.
WriteRequest ==
    /\ tun.pc = "write"
    /\ \/ up' = <<[what |-> "r", as |-> RewriteRequest(tun.req)]>> /\ TunnelGo("flush")
       \/ tun' = [tun EXCEPT !.pc = "closed"] /\ conns' = {} /\ UNCHANGED up
    /\ UNCHANGED <<routes, down, clientLeft, sandboxLeft, prefetch>>

Raw(s) == [i \in DOMAIN s |-> [what |-> s[i], as |-> None]]

\* Faulty variant: what the server has read ahead is dropped.
FlushNothing ==
    /\ tun.pc = "flush" /\ TunnelGo("pipe")
    /\ UNCHANGED <<routes, pipeVars>>

\* flushPrefetch, then the copies start.
FlushPrefetch ==
    /\ tun.pc = "flush"
    /\ up' = up \o Raw(prefetch) /\ prefetch' = <<>>
    /\ TunnelGo("pipe")
    /\ UNCHANGED <<routes, down, clientLeft, sandboxLeft>>

\* pipe: one copy in each direction.
CopyUp ==
    /\ tun.pc = "pipe" /\ conns = {"client", "tunnel"} /\ clientLeft # <<>>
    /\ up' = Append(up, [what |-> Head(clientLeft), as |-> None])
    /\ clientLeft' = Tail(clientLeft)
    /\ UNCHANGED <<tun, routes, down, sandboxLeft, prefetch, conns>>
CopyDown ==
    /\ tun.pc = "pipe" /\ conns = {"client", "tunnel"} /\ sandboxLeft # <<>>
    /\ down' = Append(down, Head(sandboxLeft))
    /\ sandboxLeft' = Tail(sandboxLeft)
    /\ UNCHANGED <<tun, routes, up, clientLeft, prefetch, conns>>

\* closeBoth: whichever copy ends first (its side sent all and closed, or broke) closes both.
CloseBoth ==
    /\ tun.pc = "pipe"
    /\ tun' = [tun EXCEPT !.pc = "closed"] /\ conns' = {}
    /\ UNCHANGED <<routes, pipeVars>>

------------------------------------------------------------------------------
TunnelInit ==
    /\ tun \in {[pc |-> "start", req |-> r, tenant |-> None, code |-> 0] : r \in TunnelRequests}
    /\ routes = {} /\ up = <<>> /\ down = <<>> /\ prefetch = <<>>
    /\ clientLeft = ClientBytes /\ sandboxLeft = SandboxBytes
    /\ conns = {"client"}

TunnelNext ==
    \/ DialSandboxTunnel \/ ResolveAndAuthorize \/ DialTunnel \/ Hijack
    \/ WriteRequest \/ FlushPrefetch \/ CopyUp \/ CopyDown \/ CloseBoth
    \/ \E ins \in DOMAIN Sandboxes : RouteKnown(ins)

TunnelSpec == TunnelInit /\ [][TunnelNext]_tunnelVars

------------------------------------------------------------------------------
\* Properties

\* The sandbox reads the request first and then the client's bytes in their order without a
\* gap, wherever the server stopped reading ahead when the connection was taken over.
UpstreamInOrder ==
    up # <<>> => /\ up[1].what = "r"
                 /\ \A i \in 2..Len(up) : up[i].what = ClientBytes[i - 1]

\* A refusal still has an HTTP answer: no tunnel stays open behind it.
RefusalIsClean == tun.pc = "refused" => tun.code # 0 /\ "tunnel" \notin conns

\* Every request that reaches the sandbox had its route taken off.
RequestsAreRewritten == tun.req.kind = "http" => \A i \in DOMAIN up : up[i].what \in {"r", "r2"} => up[i].as # None
=============================================================================
