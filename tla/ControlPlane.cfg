SPECIFICATION ControlSpec
CONSTANTS
    None = None
    c1 = c1
    c2 = c2
    d1 = d1
    d2 = d2
    g1 = g1
    g2 = g2
    n1 = n1
    n2 = n2
    r1 = r1
    t1 = t1
    tA = tA
    tB = tB
    w1 = w1
    \* SessionContext
    Queries = {q1}
    Calls <- MCCalls
    EventTypes = {"completed", "other"}
    PageLimit = 1
    EventLimit = 2
    MaxTurns = 2
    MaxEventsPerLog = 2
    MaxSessions = 2
    MaxPosts = 3
    \* DataSystemClient
    Nodes = {n1, n2}
    Tenants = {t1}
    DsOps = {d1, d2}
    OpTenant <- MCOpTenant
    OpKind <- MCOpKind
    GivenNode <- MCGiven
    Codes = {"ok", "tryAgain", "keyNotFound"}
    MaxNodeEvents = 1
    MaxFailures = 1
    \* DataSystemClient: its callers
    Callers = {g1, g2}
    CallOps = {"put","get","incref","decref","kvset","kvmset","kvget","kvdel","subscribe"}
    CallTenant <- MCCallTenant
    Threads = {th1, th2}
    Messages <- MCMessages
    Stream <- MCStream
    MaxFlushErrors = 2
    \* RemoteClientLease
    Managers = {m1, m2, m3}
    LeaseCalls = {k1, k2}
    MaxManagerEvents = 5
    \* EtcdWatch
    WatchRuns = {w1, w2}
    MaxRevision = 3
    MaxOutages = 2
    \* EtcdWatch: the cache file
    CacheKeys = {1, 2}
    LongKeys = {}
    Cachers = {p1}
    MaxEtcdRev = 3
    MaxCrashes = 2
    \* EtcdLock
    Lockers = {l1, l2}
    LockKeys = {"a"}
    Extends <- MCExtends
    FailCountLimit = 1
    MaxLockRev = 4
    MaxGrants = 3
    \* FunctionMeta
    Loads = {f1, f2}
    MaxVersions = 2
    MaxPendingEvents = 2
    \* InstanceManager
    ResKeys = {"k1", "k2"}
    Instances <- MCInstances
    Schedulers = {s1, s2}
    Labels = {"x", "y"}
    Handlers = {h1}
    Readers = {e1}
    EventChan = 1
    MaxQueues = 2
    MaxMaps = 2
    \* CommonLibraries: the rings
    RingNodes = {1, 2, 3}
    RingKeys = {"k1", "k2", "k3"}
    Frontends = {fe1, fe2}
    VirtualHash <- MCVirtualHash
    NodeHash <- MCNodeHash
    KeyHash <- MCKeyHash
    \* StreamConnection
    RpcCalls = {c1, c2}
    Objects = {o1}
    RequestOf <- MCRequestOf
    ChannelSize = 1
    MaxStreams = 2
    MaxNotifies = 2
    \* StreamConnection: the server
    ServerRequests = {m1, m2, m3}
    ResponseObjects = {o1, o2}
    Workers = 2
    \* TimeWheel
    WheelTasks = {t1}
    SlotNum = 3
    Intervals = {2, 3, 4, 6}
    Times <- MCTimes
    ReadyChan = 1
    MaxTicks = 12
    \* NodeHealth
    ProxyNodes = {n1}
    ProxyIPs = {i1}
    Beats = {b1, b2}
    BeatThreshold = 1
    MaxMonitors = 2
    \* CommonLibraries: the queue
    Priorities = {1, 2, 3}
    MaxItems = 7
    \* CommonLibraries: signatures
    AppIDs = {"functiongraph", "sessioncontext"}
    Durations = {0, 1}
    TimestampLimit = 2
    SignExpiration = 1
    AccessKeys = {"plain", "joined", "padded"}
    HmacRequests <- MCHmacRequests
    Altered <- MCAltered
    MaxSigned = 2
    MaxMinutes = 3
INVARIANTS
    
    
    RunningManagerUsed
    
    LockExclusive
    KnownFunctionLoads
    InstanceTablesTrue
    
    RpcAnsweredOnce
    FirstFireOnTime
    HealthIsOwn
\* Every component ends: its events and calls are bounded.
CHECK_DEADLOCK FALSE
