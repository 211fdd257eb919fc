SPECIFICATION FairSpec
CONSTANTS
    Requests = {r1, r2}
    ResSpecs = {s1}
    InvokeLabel <- OwnLabels
    Limit = 2
    MaxMaps = 1
    MaxQueues = 2
    MaxUpdates = 2
INVARIANT AnsweredOnce
PROPERTY LoopAnswers
\* Requests that are answered leave nothing to do.
CHECK_DEADLOCK FALSE
