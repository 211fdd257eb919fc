--------------------------- MODULE SandboxRequest ---------------------------
(***************************************************************************)
(* What the sandbox API makes of the body of a create request              *)
(* (pkg/frontend/api/sandbox/handler.go): validation and normalisation     *)
(* (prepareCreateV1Request), the native CreateRequest, the digest that     *)
(* identifies a retry (sandboxCreateRequestDigest), the invoke options and *)
(* the raw create request sent to the function system.                     *)
(*                                                                         *)
(* Two submissions are prepared side by side, so that a property can       *)
(* compare a request with its retry, or with a request the replay store    *)
(* would take for its retry.                                               *)
(*                                                                         *)
(* A string is a record of what the code tells strings apart by: its       *)
(* content, surrounding blanks, upper case.  An optional value is <<>> or  *)
(* a sequence of one element; a fallible operator returns Ok(_) or Fail.   *)
(***************************************************************************)
EXTENDS Integers, Sequences, FiniteSets, SequencesExt

CONSTANTS
    BodyPairs,           \* pairs of request bodies (with their headers)
    EnvCreateTimeout,    \* YR_SANDBOX_CREATE_TIMEOUT, 0 when unset or invalid
    AddrBits,            \* width of an address (32)
    MaxPort,             \* maxSandboxPort (65535)
    MaxTrafficRules,     \* maxSandboxTrafficRules (256)
    DefaultRulePriority, \* defaultSandboxRulePriority (100)
    MaxRulePriority,     \* maxSandboxUserRulePriority (2^32 - 2)
    MaxStorageMb         \* math.MaxInt64 / bytesPerMiB

ASSUME RequestBounds ==
    /\ {EnvCreateTimeout, AddrBits, MaxPort, MaxTrafficRules,
        DefaultRulePriority, MaxRulePriority, MaxStorageMb} \subseteq Nat
    /\ DefaultRulePriority \in 1..MaxRulePriority

Submissions == {1, 2}

VARIABLES
    body,      \* the body of each submission
    phase,     \* "received", "prepared", "ready", "rejected"
    request,   \* its native CreateRequest once prepared
    options,   \* its InvokeOptions once ready
    payload    \* network policy sent by a later network update, if any

requestVars == <<body, phase, request, options, payload>>

-----------------------------------------------------------------------------
(* Results, optional values and strings *)

Ok(v) == [ok |-> TRUE, val |-> v]
Fail == [ok |-> FALSE]
None == <<>>
Some(v) == <<v>>

\* F on every element; the first failure fails the whole.
Each(s, F(_)) ==
    LET r == [i \in DOMAIN s |-> F(s[i])] IN
    IF \A i \in DOMAIN s : r[i].ok
    THEN Ok([i \in DOMAIN s |-> r[i].val]) ELSE Fail

\* F on an optional value: nil stays nil.
Optional(o, F(_)) == IF o = None THEN Ok(None) ELSE F(o[1])

Text(v) == [v |-> v, spaced |-> FALSE, upper |-> FALSE]
TrimSpace(t) == [t EXCEPT !.spaced = FALSE]
ToLower(t) == [t EXCEPT !.upper = FALSE]

\* Values of xs not yet in s, appended in order, each once.
AppendUnique(s, xs) ==
    FoldLeft(LAMBDA acc, x : IF x \in ToSet(acc) THEN acc ELSE Append(acc, x),
             s, xs)

-----------------------------------------------------------------------------
(* Network policy *)

NormalizeChoice(t, allowed) ==
    LET n == ToLower(TrimSpace(t)) IN
    IF n.v \in allowed THEN Ok(n) ELSE Fail

Actions == {"allow", "deny"}

\* idna.Lookup.ToASCII and the check of the labels of its result.
ToASCII(v) == IF v = "idn" THEN "xn--idn" ELSE v
ValidLabels(v) == v \in {"host", "xn--idn"}

\* A pattern: its name, trailing dots, and whether "*." leads it.  One
\* trailing dot is dropped; a second one is an empty label.
NormalizeDomainPattern(p) ==
    IF p.dots <= 1 /\ ValidLabels(ToASCII(p.v))
    THEN Ok([p EXCEPT !.v = ToASCII(p.v), !.dots = 0,
                      !.spaced = FALSE, !.upper = FALSE])
    ELSE Fail

\* An IPv4 address becomes its host prefix; a prefix loses its host bits.
NormalizeCIDR(c) ==
    LET len == IF c.len = None THEN AddrBits ELSE c.len[1]
        block == 2 ^ (AddrBits - len) IN
    IF c.kind = "v4" /\ len \in 0..AddrBits
    THEN Ok([c EXCEPT !.len = Some(len), !.spaced = FALSE,
                      !.addr = c.addr - (c.addr % block)])
    ELSE Fail

NormalizePortRange(r) ==
    IF /\ 1 <= r.first /\ r.first <= r.last /\ r.last <= MaxPort
    THEN Ok(Some([first |-> r.first, last |-> r.last])) ELSE Fail

PortsAllowed(ports, protocol) ==
    ports = None \/ protocol \in {"tcp", "udp"}

\* cidr or domain, a domain only for egress, ports only for tcp and udp; an
\* endpoint that selects nothing is nil.
NormalizeNetworkEndpoint(peer, direction, protocol) ==
    LET cidr == Optional(peer.cidr, LAMBDA c :
                  LET n == NormalizeCIDR(c) IN
                  IF n.ok THEN Ok(Some(n.val)) ELSE Fail)
        domain == Optional(peer.domain, LAMBDA d :
                  LET n == NormalizeDomainPattern(d) IN
                  IF direction = "egress" /\ n.ok THEN Ok(Some(n.val)) ELSE Fail)
        ports == Optional(peer.ports, NormalizePortRange) IN
    IF \/ peer.cidr # None /\ peer.domain # None
       \/ ~cidr.ok \/ ~domain.ok \/ ~ports.ok
       \/ ~PortsAllowed(peer.ports, protocol)
    THEN Fail
    ELSE IF <<cidr.val, domain.val, ports.val>> = <<None, None, None>>
    THEN Ok(None)
    ELSE Ok(Some([cidr |-> cidr.val, domain |-> domain.val, ports |-> ports.val]))

\* A priority of 0 stands for the default.
NormalizeTrafficRule(r) ==
    LET action == NormalizeChoice(r.action, Actions)
        direction == NormalizeChoice(r.direction, {"ingress", "egress", "both"})
        protocol == NormalizeChoice(r.protocol, {"any", "tcp", "udp", "icmp"})
        priority == IF r.priority = 0 THEN DefaultRulePriority ELSE r.priority
        ports == Optional(r.ports, NormalizePortRange) IN
    IF ~(action.ok /\ direction.ok /\ protocol.ok) THEN Fail
    ELSE LET peer == Optional(r.peer, LAMBDA p :
                       NormalizeNetworkEndpoint(p, direction.val.v,
                                                protocol.val.v)) IN
         IF /\ peer.ok /\ ports.ok /\ priority <= MaxRulePriority
            /\ PortsAllowed(r.ports, protocol.val.v)
         THEN Ok([action |-> action.val, direction |-> direction.val,
                  protocol |-> protocol.val, peer |-> peer.val,
                  ports |-> ports.val, priority |-> priority])
         ELSE Fail

\* A blank mode is stateful.
NormalizeTrafficPolicy(p) ==
    LET ingress == NormalizeChoice(p.ingress, Actions)
        egress == NormalizeChoice(p.egress, Actions)
        mode == NormalizeChoice(IF p.mode.v = "" THEN Text("stateful") ELSE p.mode,
                                {"stateful", "stateless"})
        rules == Each(p.rules, NormalizeTrafficRule) IN
    IF /\ ingress.ok /\ egress.ok /\ mode.ok /\ rules.ok
       /\ Len(p.rules) <= MaxTrafficRules
    THEN Ok(Some([ingress |-> ingress.val, egress |-> egress.val,
                  mode |-> mode.val, rules |-> rules.val]))
    ELSE Fail

NormalizeDNSPolicy(p) ==
    LET action == NormalizeChoice(p.default, Actions)
        rules == Each(p.rules, LAMBDA r :
                   LET a == NormalizeChoice(r.action, Actions)
                       d == NormalizeDomainPattern(r.pattern) IN
                   IF a.ok /\ d.ok THEN Ok([action |-> a.val, pattern |-> d.val])
                   ELSE Fail) IN
    IF action.ok /\ rules.ok
    THEN Ok(Some([default |-> action.val, rules |-> rules.val])) ELSE Fail

NoPolicy == [schema |-> 0, block |-> FALSE, blacklist |-> <<>>,
             traffic |-> None, dns |-> None]

\* Faulty variant: the returned policy does not name its schema.
UnversionedPolicy(traffic, dns) ==
    IF traffic = None /\ dns = None THEN None
    ELSE Some([NoPolicy EXCEPT !.traffic = traffic, !.dns = dns])

PolicyV2(traffic, dns) ==
    IF traffic = None /\ dns = None THEN None
    ELSE Some([NoPolicy EXCEPT !.schema = 2, !.traffic = traffic, !.dns = dns])

\* Legacy fields and schema 2 exclude each other; a policy that says nothing
\* is nil; a blacklist keeps the first of equal normalised patterns.
NormalizeNetworkPolicy(p) ==
    LET traffic == Optional(p.traffic, NormalizeTrafficPolicy)
        dns == Optional(p.dns, NormalizeDNSPolicy)
        blacklist == Each(p.blacklist, NormalizeDomainPattern) IN
    CASE p.schema = 2 ->
           IF p.block \/ p.blacklist # <<>> \/ ~traffic.ok \/ ~dns.ok THEN Fail
           ELSE Ok(PolicyV2(traffic.val, dns.val))
      [] p.schema = 0 ->
           IF \/ p.traffic # None \/ p.dns # None
              \/ p.block /\ p.blacklist # <<>>
              \/ ~blacklist.ok
           THEN Fail
           ELSE IF ~p.block /\ blacklist.val = <<>> THEN Ok(None)
           ELSE Ok(Some([NoPolicy EXCEPT !.block = p.block,
                           !.blacklist = AppendUnique(<<>>, blacklist.val)]))
      [] OTHER -> Fail

-----------------------------------------------------------------------------
(* Resources, placement and root file system *)

\* type:model:count, blanks refused, the type in lower case and the count in
\* plain decimal; any model when none is named.
ParseXPU(x) ==
    IF \/ x.fields # 3 \/ x.type.v = "" \/ x.type.spaced \/ x.model.spaced
       \/ x.type.v = "9x" \/ x.count <= 0
    THEN Fail
    ELSE Ok(Some([resource |-> <<x.type.v,
                                 IF x.model.v = "" THEN "any" ELSE x.model.v>>,
                  count |-> x.count,
                  normalized |-> [x EXCEPT !.type = ToLower(@),
                                           !.zeros = FALSE]]))

\* storageMb is optional and positive, the limit 0 or at least as large.
ValidStorage(mb, limit) ==
    /\ limit \in 0..MaxStorageMb
    /\ \/ mb = None
       \/ /\ mb[1] \in 1..MaxStorageMb
          /\ limit = 0 \/ mb[1] <= limit

\* kind 0 or 1, affinity 0..3, operators 0..3 with a key, and values for the
\* two operators (In, NotIn) that compare them.
ValidScheduleAffinities(affinities) ==
    \A i \in DOMAIN affinities :
        LET a == affinities[i] IN
        /\ a.kind \in {0, 1} /\ a.affinity \in 0..3 /\ a.ops # <<>>
        /\ \A j \in DOMAIN a.ops :
              /\ a.ops[j].type \in 0..3 /\ a.ops[j].key.v # ""
              /\ a.ops[j].type \in {0, 1} => a.ops[j].values # <<>>

\* Affinity types: 0 preferred, 1 preferred anti, 2 required, 3 required
\* anti.  A preferred resource affinity with priority and anti-others is
\* sent as a required one.
Selector(a) ==
    <<a.kind, IF a.kind = 0 /\ a.priority /\ a.antiOthers /\ a.affinity \in {0, 1}
              THEN a.affinity + 2 ELSE a.affinity>>

\* Values travel only with the operators that compare them.
LabelExpression(op) ==
    [key |-> op.key, type |-> op.type,
     values |-> IF op.type \in {0, 1} THEN op.values ELSE <<>>]

\* Affinities of one selector share a condition: their expressions add up,
\* the order flag is the last one's.
RawScheduleAffinity(affinities) ==
    LET selectors == {Selector(affinities[i]) : i \in DOMAIN affinities} IN
    [s \in selectors |->
       LET mine == SelectSeq(affinities, LAMBDA a : Selector(a) = s) IN
       [order |-> Last(mine).priority,
        subs |-> [i \in DOMAIN mine |->
                    [j \in DOMAIN mine[i].ops |->
                       LabelExpression(mine[i].ops[j])]]]]

\* The image falls back to the top-level one unless the type excludes it.
NormalizeRootfsSpec(spec, fallback) ==
    LET image == IF spec.image.v = "" /\ spec.type.v \notin {"local", "s3"}
                 THEN TrimSpace(fallback) ELSE TrimSpace(spec.image)
        type == IF spec.type.v = "" /\ image.v # "" THEN Text("image")
                ELSE TrimSpace(spec.type)
        runtime == IF spec.runtime.v = "" THEN Text("runsc")
                   ELSE TrimSpace(spec.runtime) IN
    [spec |-> [spec EXCEPT !.runtime = runtime, !.type = type,
                           !.path = TrimSpace(@), !.image = TrimSpace(@)],
     image |-> image]

\* storageInfo is a function from its keys to strings.
ValidS3(info) ==
    \A k \in {"endpoint", "bucket", "object"} :
        k \in DOMAIN info /\ info[k].v # ""

ValidRootfs(spec, image) ==
    CASE spec.type.v = "" -> spec.path.v = "" /\ DOMAIN spec.info = {}
      [] spec.type.v = "image" ->
           image.v # "" /\ spec.path.v = "" /\ DOMAIN spec.info = {}
      [] spec.type.v = "local" ->
           spec.path.v # "" /\ spec.image.v = "" /\ DOMAIN spec.info = {}
      [] spec.type.v = "s3" ->
           spec.path.v = "" /\ spec.image.v = "" /\ ValidS3(spec.info)
      [] OTHER -> FALSE

RootfsOption(spec, fallback) ==
    LET n == NormalizeRootfsSpec(spec, fallback) IN
    IF ~ValidRootfs(n.spec, n.image) THEN Fail
    ELSE Ok([n.spec EXCEPT
               !.image = IF n.spec.type.v = "image" THEN n.image ELSE @,
               !.info = [k \in DOMAIN @ |-> TrimSpace(@[k])]])

-----------------------------------------------------------------------------
(* Ports *)

RRTHTTPPort == 50090
TunnelWSPort == 8765
TunnelHTTPPort == 8766

\* A port as the frontend writes it: a bare number.
BarePort(p) == [scheme |-> Text(""), port |-> p, spaced |-> FALSE]

\* f with the entries of g added or replaced.
Overwrite(f, g) ==
    [k \in DOMAIN f \cup DOMAIN g |-> IF k \in DOMAIN g THEN g[k] ELSE f[k]]

\* The frontend opens the runtime's HTTP port and owns its variable.
PrepareRRTHTTP(r) ==
    [r EXCEPT
       !.ports = AppendUnique(@, <<BarePort(RRTHTTPPort)>>),
       !.kinds = Overwrite(@, [p \in {RRTHTTPPort} |-> "direct"]),
       !.env = Overwrite(@, [k \in {"RRT_HTTP_PORT"} |-> RRTHTTPPort])]

\* The tunnel's control port is the one below its proxy port.
TunnelPorts(proxyPort) ==
    LET proxy == IF proxyPort <= 0 THEN TunnelHTTPPort ELSE proxyPort IN
    IF proxy - 1 <= 0 THEN [ws |-> TunnelWSPort, proxy |-> TunnelHTTPPort]
    ELSE [ws |-> proxy - 1, proxy |-> proxy]

PrepareTunnel(r, tunnel) ==
    LET t == TunnelPorts(tunnel[1]) IN
    IF tunnel = None THEN r
    ELSE [r EXCEPT
            !.ports = AppendUnique(@, <<BarePort(t.ws), BarePort(t.proxy)>>),
            !.kinds = Overwrite(Overwrite(@, [p \in {t.ws} |-> "tunnel"]),
                                [p \in {t.proxy} |-> "direct"]),
            !.env = Overwrite(@, [k \in {"RRT_TUNNEL_WS_PORT",
                                         "RRT_TUNNEL_HTTP_PORT"} |->
                                    IF k = "RRT_TUNNEL_WS_PORT" THEN t.ws
                                    ELSE t.proxy])]

\* Faulty variant: only the frontend's own spelling of a port is recognised.
KindBySpelling(p, kinds) ==
    IF p = BarePort(p.port) /\ p.port \in DOMAIN kinds THEN kinds[p.port]
    ELSE "public"

\* Whoever wrote the port and however, its number decides its route kind.
PortRouteKind(p, kinds) ==
    IF p.port \in DOMAIN kinds THEN kinds[p.port] ELSE "public"

\* PORT or http|https:PORT, http when no scheme is written.
NetworkConfig(ports, kinds) ==
    Each(ports, LAMBDA p :
       LET scheme == IF p.scheme.v = "" THEN "http" ELSE p.scheme.v IN
       IF scheme \in {"http", "https"} /\ p.port \in 1..MaxPort
       THEN Ok([port |-> p.port, protocol |-> scheme,
                kind |-> PortRouteKind(p, kinds)])
       ELSE Fail)

-----------------------------------------------------------------------------
(* Time budgets *)

DefaultScheduleSeconds == 30
ScheduleBufferSeconds == 30
DefaultInitSeconds == 30
DefaultCreateSeconds ==
    DefaultScheduleSeconds + DefaultInitSeconds + ScheduleBufferSeconds

EffectiveInitSeconds(requested) ==
    IF requested > 0 THEN requested ELSE DefaultInitSeconds

\* YR_SANDBOX_CREATE_TIMEOUT, or the default.
CreateTimeoutSeconds ==
    IF EnvCreateTimeout > 0 THEN EnvCreateTimeout ELSE DefaultCreateSeconds

Budget(create, schedule) == Ok([create |-> create, schedule |-> schedule])

\* Faulty variant: an explicit pair is taken as it stands.
TrustExplicitBudget(create, schedule, init) ==
    LET reserve == EffectiveInitSeconds(init) + ScheduleBufferSeconds IN
    IF create < 0 \/ schedule < 0 \/ init < 0 THEN Fail
    ELSE IF create = 0 THEN Budget(schedule + reserve, schedule)
    ELSE IF create - schedule < ScheduleBufferSeconds THEN Fail
    ELSE Budget(create, schedule)

\* A create budget that leaves no room for initialisation is expanded, one
\* that does not even leave the buffer is refused.
ResolveCreateTimeouts(create, schedule, init) ==
    LET reserve == EffectiveInitSeconds(init) + ScheduleBufferSeconds
        least(s) == s + reserve IN
    IF create < 0 \/ schedule < 0 \/ init < 0 THEN Fail
    ELSE IF create = 0 /\ schedule = 0
    THEN LET s == DefaultScheduleSeconds IN
         Budget(IF CreateTimeoutSeconds < least(s) THEN least(s)
                ELSE CreateTimeoutSeconds, s)
    ELSE IF create = 0 THEN Budget(least(schedule), schedule)
    ELSE IF schedule = 0
    THEN IF create <= ScheduleBufferSeconds THEN Fail
         ELSE LET s == create - ScheduleBufferSeconds IN Budget(least(s), s)
    ELSE IF create - schedule < ScheduleBufferSeconds THEN Fail
    ELSE Budget(IF create < least(schedule) THEN least(schedule) ELSE create,
                schedule)

-----------------------------------------------------------------------------
(* From the body to the request *)

\* Fields the frontend hands on as they are.
PassedOn == {"tenant", "cpu", "memory", "storage", "storageLimit", "affinities",
             "failover", "inherit", "create", "schedule", "init", "idle"}

\* prepareCreateV1Request and createRequestFromV1.
PrepareV1(b) ==
    LET own == TrimSpace(b.rootfs.runtime)
        legacy == TrimSpace(b.runtime)
        spec == [b.rootfs EXCEPT !.runtime = IF own.v = "" THEN legacy ELSE own]
        rootfs == RootfsOption(spec, b.image)
        source == NormalizeRootfsSpec(spec, b.image)
        xpu == Optional(b.xpu, ParseXPU)
        network == Optional(b.network, NormalizeNetworkPolicy) IN
    IF \/ legacy.v # "" /\ own.v # "" /\ legacy # own
       \/ ~ValidScheduleAffinities(b.affinities)
       \/ ~xpu.ok \/ ~ValidStorage(b.storage, b.storageLimit)
       \/ ~rootfs.ok
       \/ b.inherit /\ (\/ b.snapshot.v # ""
                        \/ source.spec.type.v # "image" \/ source.image.v = "")
       \/ ~network.ok
    THEN Fail
    ELSE LET r == Overwrite([k \in PassedOn |-> b[k]],
                    [name |-> IF b.name = "" THEN "sandbox-uuid" ELSE b.name,
                     generated |-> b.name = "",
                     namespace |-> IF b.namespace = "" THEN "default"
                                   ELSE b.namespace,
                     runtime |-> Text("rrt"),
                     rootfs |-> Some(rootfs.val), image |-> Text(""),
                     xpu |-> IF xpu.val = None THEN None
                             ELSE Some(xpu.val[1].normalized),
                     network |-> network.val, snapshot |-> TrimSpace(b.snapshot),
                     ports |-> b.ports, kinds |-> <<>>, env |-> b.env]) IN
         Ok(PrepareTunnel(PrepareRRTHTTP(r), b.tunnel))

\* The legacy handler binds the body to a CreateRequest and checks nothing.
BindLegacy(b) ==
    Overwrite([k \in PassedOn \cup {"name", "namespace", "runtime", "image", "xpu",
                                    "network", "snapshot", "ports", "env"} |-> b[k]],
              [generated |-> FALSE, kinds |-> <<>>,
               rootfs |-> IF b.rootfs.image.v = "" THEN None ELSE Some(b.rootfs)])

\* Faulty variant: the digest leaves the route kinds out.
DigestWithoutKinds(r) ==
    [[k \in DOMAIN r \ {"kinds", "generated"} |-> r[k]]
       EXCEPT !.name = IF r.generated THEN "" ELSE @]

\* A generated name is not part of a request's identity.
RequestDigest(r) ==
    [[k \in DOMAIN r \ {"generated"} |-> r[k]]
       EXCEPT !.name = IF r.generated THEN "" ELSE @]

\* The tenant of the token, or the body's; the header does not count here.
CreateTenant(b) == IF b.claim # "" THEN b.claim ELSE b.tenant
RequestIDKey(b) == <<CreateTenant(b), b.requestID>>

\* The header, the body's, or the token's.
OwnerTenant(b) ==
    IF b.header # "" THEN b.header ELSE IF b.tenant # "" THEN b.tenant ELSE b.claim

KnownRuntimes == {"py310", "py39", "rrt"}

\* An empty runtime selects rrt.
FunctionID(runtime) ==
    LET v == IF runtime.v = "" THEN "rrt" ELSE runtime.v IN
    IF v \in KnownRuntimes THEN Ok(v) ELSE Fail

\* Omitted resources: the defaults, or the snapshot's (-1).
Resource(v, default, fromSnapshot) ==
    IF v > 0 THEN v ELSE IF fromSnapshot THEN -1 ELSE default

CustomResources(r, xpu) ==
    LET storage == IF r.storage # None THEN r.storage[1] ELSE r.storageLimit IN
    Overwrite(IF xpu = None THEN <<>>
              ELSE [k \in {xpu[1].resource} |-> xpu[1].count],
              IF storage > 0 THEN [k \in {<<"storage">>} |-> storage] ELSE <<>>)

\* prepareSandboxInvocation and newSandboxInvokeOptions.
InvokeOptions(b, r) ==
    LET xpu == Optional(r.xpu, ParseXPU)
        budget == ResolveCreateTimeouts(r.create, r.schedule, r.init)
        network == NetworkConfig(r.ports, r.kinds)
        fromSnapshot == r.snapshot.v # "" IN
    IF \/ r.name = "" \/ r.namespace = "" \/ ~FunctionID(r.runtime).ok
       \/ ~xpu.ok \/ ~ValidStorage(r.storage, r.storageLimit)
       \/ ~budget.ok \/ ~network.ok
    THEN Fail
    ELSE Ok([function |-> FunctionID(r.runtime).val,
             cpu |-> Resource(r.cpu, 1000, fromSnapshot),
             memory |-> Resource(r.memory, 2048, fromSnapshot),
             custom |-> CustomResources(r, xpu.val),
             timeout |-> budget.val.create,
             scheduleTimeout |-> budget.val.schedule,
             init |-> EffectiveInitSeconds(r.init),
             affinities |-> r.affinities,
             extensions |-> [idle |-> IF r.idle > 0 THEN r.idle ELSE 0,
                             limit |-> r.storageLimit, inherit |-> r.inherit,
                             rootfs |-> IF r.rootfs = None THEN Some(r.image)
                                        ELSE r.rootfs,
                             policy |-> r.network],
             env |-> r.env, network |-> network.val,
             owner |-> OwnerTenant(b)])

\* A negative amount is left to the snapshot.
Requested(name, amount) == IF amount >= 0 THEN [k \in {name} |-> amount] ELSE <<>>

\* buildSandboxRawCreateRequest: what the function system is asked for, but
\* for the fresh request ID and the generated part of the name.
RawCreateRequest(r, o) ==
    [function |-> o.function,
     resources |-> Overwrite(Overwrite(Requested(<<"CPU">>, o.cpu),
                                       Requested(<<"Memory">>, o.memory)),
                             o.custom),
     extensions |-> o.extensions,
     affinity |-> RawScheduleAffinity(o.affinities),
     scheduleTimeout |-> o.scheduleTimeout,
     createOptions |-> [env |-> o.env, network |-> o.network, owner |-> o.owner,
                        call |-> o.timeout, init |-> o.init],
     instance |-> <<r.namespace, IF r.generated THEN "generated" ELSE r.name>>,
     snapshot |-> r.snapshot, failover |-> r.failover]

-----------------------------------------------------------------------------
(* The handlers *)

RequestInit ==
    /\ body \in BodyPairs
    /\ phase = [i \in Submissions |-> "received"]
    /\ request = [i \in Submissions |-> None]
    /\ options = [i \in Submissions |-> None]
    /\ payload = [i \in Submissions |-> None]

Reject(i) ==
    /\ phase' = [phase EXCEPT ![i] = "rejected"]
    /\ UNCHANGED <<body, request, options, payload>>

CreateV1Handler(i) ==
    /\ phase[i] = "received" /\ body[i].api = "v1"
    /\ LET r == PrepareV1(body[i]) IN
       \/ ~r.ok /\ Reject(i)
       \/ /\ r.ok
          /\ phase' = [phase EXCEPT ![i] = "prepared"]
          /\ request' = [request EXCEPT ![i] = Some(r.val)]
          /\ UNCHANGED <<body, options, payload>>

CreateHandler(i) ==
    /\ phase[i] = "received" /\ body[i].api = "legacy"
    /\ phase' = [phase EXCEPT ![i] = "prepared"]
    /\ request' = [request EXCEPT ![i] = Some(BindLegacy(body[i]))]
    /\ UNCHANGED <<body, options, payload>>

PrepareInvocation(i) ==
    /\ phase[i] = "prepared"
    /\ LET o == InvokeOptions(body[i], request[i][1]) IN
       \/ ~o.ok /\ Reject(i)
       \/ /\ o.ok
          /\ phase' = [phase EXCEPT ![i] = "ready"]
          /\ options' = [options EXCEPT ![i] = Some(o.val)]
          /\ UNCHANGED <<body, request, payload>>

\* UpdateNetworkV1Handler with the policy the sandbox was created with, as a
\* client that reads it back and submits it again does; "{}" for no policy.
UpdateNetworkV1Handler(i) ==
    /\ phase[i] = "ready" /\ body[i].api = "v1" /\ payload[i] = None
    /\ LET p == IF request[i][1].network = None THEN NoPolicy
                ELSE request[i][1].network[1]
           n == NormalizeNetworkPolicy(p) IN
       payload' = [payload EXCEPT ![i] = Some(n)]
    /\ UNCHANGED <<body, phase, request, options>>

RequestNext ==
    \E i \in Submissions :
        \/ CreateV1Handler(i) \/ CreateHandler(i)
        \/ PrepareInvocation(i) \/ UpdateNetworkV1Handler(i)

RequestSpec == RequestInit /\ [][RequestNext]_requestVars

-----------------------------------------------------------------------------
(* Properties *)

Ready(i) == phase[i] = "ready"

\* Whatever mixture of budgets a body asks for, an accepted create waits at
\* least as long as scheduling, initialisation and the response buffer may
\* take together (resolveSandboxCreateTimeouts): the frontend never gives up
\* on a sandbox the function system is still entitled to start.
BudgetCoversPhases ==
    \A i \in Submissions : Ready(i) =>
        LET o == options[i][1] IN
        o.timeout >= o.scheduleTimeout + o.init + ScheduleBufferSeconds

\* Two submissions the replay store would treat as one request (same key,
\* same digest), from the same tenant header, ask the function system for the
\* same sandbox: answering the second with the first one's result is sound.
DigestDeterminesCreate ==
    Ready(1) /\ Ready(2)
    /\ RequestIDKey(body[1]) = RequestIDKey(body[2])
    /\ RequestDigest(request[1][1]) = RequestDigest(request[2][1])
    /\ body[1].header = body[2].header
    => RawCreateRequest(request[1][1], options[1][1])
         = RawCreateRequest(request[2][1], options[2][1])

\* However the caller spells its ports, those the frontend opens for the
\* runtime itself (the RRT HTTP port and the tunnel's) are never published as
\* public ports by buildSandboxNetworkConfig.
RuntimePortsNotPublic ==
    \A i \in Submissions : Ready(i) =>
        \A j \in DOMAIN options[i][1].network :
            LET f == options[i][1].network[j] IN
            f.port \in DOMAIN request[i][1].kinds => f.kind # "public"

\* Submitting a normalised policy again is accepted and changes nothing.
NormalizedPolicyStable ==
    \A i \in Submissions : payload[i] # None =>
        payload[i][1] = Ok(request[i][1].network)
=============================================================================
