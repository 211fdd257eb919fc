SPECIFICATION FairSpec
CONSTANTS
    Requests = {r1}
    ResSpecs = {s1}
    InvokeLabel <- OwnLabels
    Limit = 2
    MaxMaps = 1
    MaxQueues = 1
    MaxUpdates = 1
PROPERTY EveryRequestAnswered
CHECK_DEADLOCK FALSE
