SPECIFICATION Spec
CONSTANTS
    c1 = c1
    c2 = c2
    c3 = c3
    t1 = t1
    t2 = t2
    n1 = n1
    Calls = {c1, c2, c3}
    Tenant <- MCTenant
    RequestIDs <- MCRequestIDs
    Name <- MCName
    Generated = {c2}
    Retries = {c2}
    NoCall = NoCall
    Streams = {c2}
    TTL = 1
    MaxEntries = 1
    MaxTime = 2
    MaxBeats = 1
INVARIANTS
    CreatesNeverOverlap
PROPERTIES
    EveryCallAnswered
CHECK_DEADLOCK FALSE
