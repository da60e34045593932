CONSTANTS
    w1 = w1
    w2 = w2
    e1 = e1
    e2 = e2
    p1 = p1
    p2 = p2
    Workers <- MCWorkers
    Deployments <- MCDeployments
    Events <- MCEvents
    Endpoints = {p1, p2}
    Filter <- MCFilter
    MaxAttempts = 2
    MaxFailures = 2
    AckBound = 2
SPECIFICATION FairSpec
INVARIANTS
    TypeOK
    DeliveredWasReceived
    RepeatsOnlyWhatWasLost
PROPERTIES
    EventsSettle
CHECK_DEADLOCK FALSE
