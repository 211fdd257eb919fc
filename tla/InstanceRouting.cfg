SPECIFICATION RoutingSpec
CONSTANTS
    None = None
    \* SandboxRoutes
    Gens = {1, 2}
    Tenant <- MCTenant
    PortForward <- MCPortForward
    Statuses = {"running", "fatal"}
    Clients = {c1}
    Asks <- MCAsks
    Ops = {"pause", "resume"}
    RRTPort = 50090
    MaxRev = 3
    \* ProxyClient
    Proxies = {p1, p2}
    Signals = {"resume"}
    Volatile = {p1}
    MaxRetries = 2
    MaxKill = 1
    MaxWrites = 2
    MaxRegs = 3
INVARIANTS
    RoutesSound
    NothingRunsTwice
    WatchesAreHeeded
\* Every call ends, and the changes in etcd are bounded.
CHECK_DEADLOCK FALSE
