SPECIFICATION GatewaySpec
CONSTANTS
    None = None
    \* InvokeChain
    r1 = r1
    r2 = r2
    r3 = r3
    Requests = {r1, r2, r3}
    Func <- MCFunc
    Want <- MCWant
    BodyThreshold = 1
    High = 6
    Lower = 1
    Rss = {0}
    DefaultQuota = 2
    Quotas = {1}
    MaxEvents = 1
    \* AsyncInvocation
    Jobs = {j1, j2}
    Backends = {"memory", "redis"}
    MaxConcurrent = 1
    Outcomes <- MCOutcomes
    MaxAttempts = 1
    \* RequestGate
    GateRequests = {g1}
    IamCacheTTL = 1
    IamCacheSize = 1
    MaxTicks = 1
    MaxAliasEvents = 2
    \* LoginFlow
    Tabs = {b1, b2}
    Frontends = {f1, f2}
    StateTTL = 1
    MaxLoginClock = 2
    \* Terminal
    Sessions = {s1, s2}
    Addrs = {p1}
    Protocols = {"v1"}
    Keys = {"eof"}
    Typists = {s1}
    MaxTyped = 1
    MaxConns = 2
    MaxMoves = 1
    \* Tunnels
    TunnelRequests <- MCTunnelRequests
    TokenTenant <- MCTokenTenant
    AuthRequired = TRUE
    SystemTenant = "system"
    Sandboxes <- MCSandboxes
    ClientBytes <- MCClientBytes
    SandboxBytes <- MCSandboxBytes
    \* SshProxy
    SshConns = {x1, x2}
    UserNames <- MCUserNames
    SshTargets <- MCSshTargets
    ConnectionLimit = 1
    BackendAttempts = 2
    MaxData = 1
    \* PosixWs
    HandshakeTokens <- MCHandshakeTokens
    Messages <- MCMessages
    MaxMessages = 2
    \* AppJobs
    JobIds = {"j1", "g1"}
    FreshIds = {"g1"}
    JobRequests <- MCJobRequests
    JobCalls = {c1}
    MaxJobEvents = 1
    MaxGens = 2
    \* RawHandlers
    RawRequests = {q1, q2}
    RawInputs <- MCInputs
    SystemTenantID = "system"
    OwnerOfInstance <- MCOwner
    \* KernelInvoke
    KInstances = {i1}
    InvokeTimeouts = {0, 3}
    HeaderValues = {None, BadNumber}
    BadNumber = BadNumber
    GrayNums = {10, 90}
    BlueRatios = {50}
    BadSession = BadSession
    MaxInvokeRetries = 1
    MaxClock = 1
    \* ProxyMessages
    ProxyCalls = {m1, m2}
    ProxyInputs <- MCProxyInputs
    ProxyAnswers <- MCProxyAnswers
    ProxyAddresses = {a1}
    SmallBuffer = 3
    MediumBuffer = 5
    MetaPrefix = 1
    MaxBuffers = 4
    MaxProxyConns = 2
    \* SandboxCalls
    b3 = b3
    b4 = b4
    SbxRequests = {b3, b4}
    SbxInputs <- MCSbxInputs
    SbxOutcomes <- MCSbxOutcomes
    SbxInstances <- MCSbxInstances
    SummaryOf <- MCSummaryOf
    DevTokens <- MCDevTokens
    SystemDeveloper = "0"
    FuncTokenAuth = TRUE
    JwtCacheSize = 1
    JwtCacheTTL = 2
    CheckpointMax = 2
    CheckpointDefault = 1
    IntBits = 5
    MaxSbxClock = 2
    MaxSbxEvents = 1
INVARIANTS
    MemoryAccounted
    
    
    SharedConnStaysOpen
    UpstreamInOrder
    
    
    LeaseGoesBack
\* Every handler ends: the requests of an instance are used up.
CHECK_DEADLOCK FALSE
