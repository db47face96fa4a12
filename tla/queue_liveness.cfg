\* Two jobs, a fallback worker, up to two faults of any kind.
SPECIFICATION FairSpec
CONSTANTS
    reconcile = reconcile
    mail = mail
    mail2 = mail2
    w1 = w1
    w2 = w2
    NoWorker = NoWorker
    Jobs <- TwoJobs
    Workers <- TwoWorkers
    Lanes <- SharedLane
    LaneOf <- JobsShare
    MaxAttempts <- Attempts12
    LaneLimit <- SharedLimit
    MaxRevivals <- Revivals0
    ReconcileJob = reconcile
    SendJobs = {}
    Children <- ReconcileChildren
    Fallback = w2
    PausableLanes = {}
    MaxConcurrency = 1
    MaxStops = 1
    MaxLapses = 1
    MaxDbErrors = 1
    MaxFaults = 2
PROPERTIES
    EveryJobSettles
