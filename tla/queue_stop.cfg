\* A claim under way when the worker is stopped.
SPECIFICATION Spec
CONSTANTS
    reconcile = reconcile
    mail = mail
    mail2 = mail2
    w1 = w1
    w2 = w2
    NoWorker = NoWorker
    Jobs <- TwoJobs
    Workers <- TwoWorkers
    Lanes <- SharedLane
    LaneOf <- JobsShare
    MaxAttempts <- Attempts1
    LaneLimit <- SharedLimit
    MaxRevivals <- Revivals0
    ReconcileJob = reconcile
    SendJobs <- JustMail
    Children <- ReconcileChildren
    Fallback = NoWorker
    PausableLanes = {}
    MaxConcurrency = 2
    MaxStops = 1
    MaxLapses = 1
    MaxDbErrors = 1
    MaxFaults = 2
PROPERTIES
    NoWorkAfterStop
