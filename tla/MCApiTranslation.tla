-------------------------- MODULE MCApiTranslation --------------------------
(***************************************************************************)
(* The two API handlers that translate a body of their own into a create   *)
(* call, in one run: part says which of them moves, the other stays in one *)
(* of its initial states. They share no variable.                          *)
(***************************************************************************)
EXTENDS SandboxRequest, Agent

VARIABLE part

------------------------------------------------------------------------------
\* SandboxRequest: bodies around a plain one, varied one aspect at a time; the
\* aspects that the digest has to tell apart are combined.

Upper(v) == [Text(v) EXCEPT !.upper = TRUE]
Spaced(v) == [Text(v) EXCEPT !.spaced = TRUE]

Base ==
    [api |-> "v1", requestID |-> "id", claim |-> "", header |-> "", tenant |-> "",
     name |-> "a", namespace |-> "default", runtime |-> Text(""),
     image |-> Text("img"),
     rootfs |-> [runtime |-> Text(""), type |-> Text(""), image |-> Text(""),
                 path |-> Text(""), info |-> <<>>],
     ports |-> <<>>, env |-> <<>>, tunnel |-> None, xpu |-> None,
     storage |-> None, storageLimit |-> 0, affinities |-> <<>>,
     network |-> None, snapshot |-> Text(""), failover |-> FALSE,
     inherit |-> FALSE, cpu |-> 0, memory |-> 0, create |-> 0, schedule |-> 0,
     init |-> 0, idle |-> 0]

Budgets ==
    {[Base EXCEPT !.create = c, !.schedule = s, !.init = i] :
        c \in {-1, 0, 30, 31, 90, 120}, s \in {-1, 0, 10, 60, 61, 90},
        i \in {-1, 0, 1, 45}}

Port(scheme, p) == [scheme |-> scheme, port |-> p, spaced |-> FALSE]
TunnelEnv == [k \in {"RRT_TUNNEL_WS_PORT", "RRT_TUNNEL_HTTP_PORT"} |->
                IF k = "RRT_TUNNEL_WS_PORT" THEN 8765 ELSE 8766]
Identities ==
    {[Base EXCEPT !.name = n, !.tunnel = t, !.ports = p, !.env = e, !.claim = c] :
        n \in {"", "a"}, t \in {None, Some(0), Some(1), Some(9000)},
        p \in {<<>>, <<Port(Upper("https"), 50090)>>,
               <<BarePort(50090), BarePort(8765), BarePort(8766)>>},
        e \in {<<>>, TunnelEnv}, c \in {"", "t1"}}

BadPorts == {[Base EXCEPT !.ports = p] : p \in {<<Port(Text("ftp"), 80)>>, <<BarePort(0)>>}}

Domain(v, dots, spaced) ==
    [v |-> v, dots |-> dots, wild |-> TRUE, spaced |-> spaced, upper |-> FALSE]
Cidr(addr, len) == [kind |-> "v4", addr |-> addr, len |-> len, spaced |-> TRUE]
Endpoint(c, d, p) == [cidr |-> c, domain |-> d, ports |-> p]
Range1 == Some([first |-> 1, last |-> 80])

Rules ==
    {[action |-> Upper("deny"), direction |-> d, protocol |-> Text(pr),
      peer |-> p, ports |-> s, priority |-> n] :
        d \in {Text("egress"), Spaced("ingress")}, pr \in {"any", "tcp"},
        p \in {None, Some(Endpoint(None, None, None)),
               Some(Endpoint(Some(Cidr(3, Some(1))), None, Range1)),
               Some(Endpoint(Some(Cidr(2, None)), None, None)),
               Some(Endpoint(None, Some(Domain("idn", 1, TRUE)), None)),
               Some(Endpoint(Some(Cidr(0, None)), Some(Domain("host", 0, FALSE)), None))},
        s \in {None, Range1}, n \in {0, 3, 4}}

Traffic(rules, mode) ==
    Some([ingress |-> Upper("deny"), egress |-> Text("allow"), mode |-> mode,
          rules |-> rules])
Dns(p) == Some([default |-> Spaced("deny"),
                rules |-> <<[action |-> Text("allow"), pattern |-> p]>>])
V2 == [NoPolicy EXCEPT !.schema = 2]

Policies ==
    {[V2 EXCEPT !.traffic = Traffic(<<r>>, Text(""))] : r \in Rules}
    \cup {[V2 EXCEPT !.traffic = Traffic(<<>>, Upper("stateless")), !.dns = Dns(p)] :
            p \in {Domain("host", 1, TRUE), Domain("glob", 0, FALSE)}}
    \cup {[NoPolicy EXCEPT !.schema = n, !.block = b, !.blacklist = l, !.dns = d] :
            n \in {0, 1, 2}, b \in BOOLEAN, d \in {None, Dns(Domain("idn", 0, FALSE))},
            l \in {<<>>, <<Domain("idn", 1, TRUE), Domain("xn--idn", 0, FALSE)>>,
                   <<Domain("host", 2, FALSE)>>}}

Networks == {[Base EXCEPT !.network = Some(p)] : p \in Policies}

Op(t, k, v) == [type |-> t, key |-> Text(k), values |-> v]
Affinity(k, a, p, o) ==
    [kind |-> k, affinity |-> a, priority |-> p, antiOthers |-> p, ops |-> o]
Placements ==
    {[Base EXCEPT !.affinities = s] :
        s \in {<<Affinity(0, 0, TRUE, <<Op(0, "zone", <<"z1">>)>>),
                 Affinity(0, 2, FALSE, <<Op(2, "gpu", <<"x">>)>>)>>,
               <<Affinity(1, 1, TRUE, <<Op(3, "app", <<>>)>>)>>,
               <<Affinity(2, 0, FALSE, <<Op(0, "zone", <<"z1">>)>>)>>,
               <<Affinity(0, 0, FALSE, <<>>)>>,
               <<Affinity(0, 0, FALSE, <<Op(1, "zone", <<>>)>>)>>}}

Xpu(f, t, n, z) == Some([fields |-> f, type |-> t, model |-> Text(""),
                         count |-> n, zeros |-> z])
S3(keys) == [k \in keys |-> Spaced("x")]
Resources ==
    {[Base EXCEPT !.xpu = x, !.storage = s, !.storageLimit = l, !.snapshot = n] :
        x \in {None, Xpu(3, Upper("gpu"), 2, TRUE), Xpu(2, Text("gpu"), 1, FALSE),
               Xpu(3, Text("9x"), 1, FALSE), Xpu(3, Text("gpu"), 0, FALSE)},
        s \in {None, Some(0), Some(2)}, l \in {-1, 0, 1, 3, 9},
        n \in {Text(""), Spaced("snap")}}
    \cup {[Base EXCEPT !.inherit = i, !.runtime = w, !.snapshot = n,
             !.rootfs = [runtime |-> Text("kata"), type |-> Text(t), image |-> Text(""),
                         path |-> Text(p), info |-> S3(k)]] :
            i \in BOOLEAN, w \in {Text(""), Text("runsc")}, t \in {"", "local", "s3", "x"},
            p \in {"", "/r"}, n \in {Text(""), Text("snap")},
            k \in {{}, {"endpoint", "bucket", "object"}}}

Legacy ==
    {[Base EXCEPT !.api = "legacy", !.runtime = Text(w), !.name = n, !.ports = p,
                  !.header = h] :
        w \in {"", "py39", "runsc"}, n \in {"", "a"}, h \in {"", "t2"},
        p \in {<<>>, <<BarePort(50090)>>}}

MCBodyPairs ==
    {<<b, b>> : b \in Budgets \cup BadPorts \cup Networks \cup Placements \cup Resources}
    \cup (Identities \X Identities) \cup (Legacy \X Legacy)

------------------------------------------------------------------------------
\* Agent: requests and metadata around plain ones, varied one aspect at a time.

HttpProbe(port) == [actions |-> {"httpGet"}, port |-> port, scheme |-> "", argv |-> 0, delay |-> 0, period |-> 1]
Rootfs(image, user) == [image |-> image, user |-> user, workdir |-> TRUE, ports |-> <<"tcp:1", "x", "2">>]

AgentRuntime ==
    [runtime |-> "python3.10", sandboxType |-> "docker", codePath |-> FALSE, storageType |-> FALSE,
     handler |-> "", initializer |-> "", preStop |-> "", initTimeout |-> 0, preStopTimeout |-> 0,
     rootfs |-> Ptr(Rootfs(TRUE, "u")), cmds |-> FALSE, startup |-> <<>>, liveness |-> <<>>,
     cpu |-> 0, memory |-> 0]

AgentBase ==
    [namespace |-> "ns", name |-> "a", urn |-> "", runtimeSpec |-> Ptr(AgentRuntime), workspace |-> "",
     mounts |-> <<>>, env |-> <<>>]

DynamicEnv(ks) == [k \in ks |-> "dynamic"]
Volume(s, t) == Bind(s, t, TRUE)

RuntimeSpecs ==
    {[AgentRuntime EXCEPT !.handler = h, !.initializer = i, !.preStop = p, !.preStopTimeout = t] :
        h \in {"", "blank", " h"}, i \in {"", "i"}, p \in {"", "p"}, t \in {-1, 25}}
    \union {[AgentRuntime EXCEPT !.runtime = "java8"], [AgentRuntime EXCEPT !.preStopTimeout = 181]}
    \union {[AgentRuntime EXCEPT !.sandboxType = t, !.rootfs = f, !.codePath = c, !.storageType = TRUE] :
              t \in {"docker", "supervisor"}, c \in BOOLEAN,
              f \in {Nil, Ptr(Rootfs(FALSE, "")), Ptr(Rootfs(TRUE, ""))}}
    \union {[AgentRuntime EXCEPT !.startup = s, !.liveness = l, !.handler = h, !.cmds = TRUE] :
              s \in {<<>>, <<HttpProbe(0)>>, <<HttpProbe(80)>>}, l \in {<<>>, <<HttpProbe(80)>>, <<[HttpProbe(80) EXCEPT !.period = 0]>>},
              h \in {"", "h"}}

AgentBodies ==
    {AgentBase} \union {[AgentBase EXCEPT !.runtimeSpec = Ptr(r), !.env = DynamicEnv({"U"})] : r \in RuntimeSpecs}
    \union {[AgentBase EXCEPT !.urn = u, !.runtimeSpec = Nil, !.name = n] :
              u \in {"", "malformed", "urn"}, n \in {"", "a"}}
    \union {[AgentBase EXCEPT !.urn = "urn", !.runtimeSpec = Nil, !.env = DynamicEnv({"U", "CMD"})],
            [AgentBase EXCEPT !.urn = "urn", !.env = DynamicEnv({"PROBE"})],
            [AgentBase EXCEPT !.urn = "urn", !.workspace = "rel"]}
    \union {[AgentBase EXCEPT !.urn = "urn", !.runtimeSpec = Nil, !.workspace = "/w", !.mounts = m] :
              m \in {<<Volume("/x/PH", "/x/PH"), Volume("/d", "/d")>>, <<Volume("/d", "/home/sn")>>, <<Volume("/etc", "/d")>>}}

FunctionOf(h, cpu, env, stop) ==
    [runtime |-> "python3.10", handler |-> h, initializer |-> "i", preStop |-> "p",
     initTimeout |-> 0, preStopTimeout |-> stop, sandboxType |-> "docker", image |-> TRUE, user |-> "u",
     ports |-> <<"2">>, env |-> env, cmds |-> TRUE, codePath |-> TRUE, storageType |-> TRUE, s3 |-> FALSE,
     cpu |-> cpu, memory |-> 0]

MCFuncSpecs ==
    {FunctionOf("h", 500, Ptr(("U" :> "static") @@ ("S" :> "static")), 25),
     FunctionOf("", 0, Nil, 0),
     [FunctionOf("h", 0, Ptr("CMD" :> "static"), 12) EXCEPT !.preStop = "", !.user = "", !.s3 = TRUE]}

FormPart(n, v, size) == [name |-> n, value |-> v, size |-> size]
MCUploads ==
    {<<FormPart("path", "p", 0), FormPart("file", "", n)>> : n \in {2, 3, 5}}
    \union {<<FormPart("other", "", 1), FormPart("path", "p", 1), FormPart("file", "", 2)>>,
            <<FormPart("file", "", 1), FormPart("path", "p", 0)>>,
            <<FormPart("path", "blank", 0), FormPart("file", "", 1)>>,
            <<FormPart("other", "", 4)>>, <<FormPart("path", "p", 4)>>, <<FormPart("path", "p", 0)>>}

MCRequests ==
    {<<FormPart(k, "p", 0)>> : k \in {"list", "mkdir", "download", "exec", "invoke"}}
    \union {<<FormPart("list", "p", -1)>>, <<FormPart("list", "blank", 0)>>, <<FormPart("mkdir", "blank", 0)>>}

MCScenarios == (AgentBodies \X {<<>>}) \union ({AgentBase} \X (MCUploads \union MCRequests))

------------------------------------------------------------------------------
ApiInit ==
    \/ part = "sandbox" /\ req = AgentBase /\ upload = NewUpload(<<>>, FALSE) /\ AgentInit /\ RequestInit
    \/ part = "agent" /\ body = <<Base, Base>> /\ RequestInit /\ AgentInit

ApiNext ==
    \/ part = "sandbox" /\ RequestNext /\ UNCHANGED <<part, agentVars>>
    \/ part = "agent" /\ AgentNext /\ UNCHANGED <<part, requestVars>>

ApiSpec == ApiInit /\ [][ApiNext]_<<part, requestVars, agentVars>>

\* What a sandbox body says is what the create call asks for: the waiting time covers the phases it
\* promises, equal digests mean equal creates, the ports of the runtime are never made public, and
\* a network policy that was normalised is left alone when it is normalised again.
SandboxBodyKeepsMeaning ==
    BudgetCoversPhases /\ DigestDeterminesCreate /\ RuntimePortsNotPublic /\ NormalizedPolicyStable

\* What an agent body says is what runs and what GET shows, with the metadata changing under the
\* handler; and an upload that is answered with success stored the whole file.
AgentBodyKeepsMeaning == WireConsistent /\ GetEchoesCreate /\ UploadComplete
=============================================================================
