SPECIFICATION FairSpec
CONSTANTS
    Schedulers = {s1, s2}
    LeaseIds = {l1, l2}
    Acquires = {a1}
    MaxRetries = 2
    MaxID = 2
    MaxTime = 2
PROPERTIES  AcquireEnds
