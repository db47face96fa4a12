\* A job in flight with its last attempt while its worker restarts.
SPECIFICATION FairSpec
CONSTANTS
    reconcile = reconcile
    mail = mail
    mail2 = mail2
    w1 = w1
    w2 = w2
    NoWorker = NoWorker
    Jobs <- TwoJobs
    Workers <- TwoWorkers
    Lanes <- SharedLane
    LaneOf <- JobsShare
    MaxAttempts <- Attempts1
    LaneLimit <- SharedLimit
    MaxRevivals <- Revivals0
    ReconcileJob = reconcile
    SendJobs <- JustMail
    Children <- NoChildren
    Fallback = NoWorker
    PausableLanes = {}
    MaxConcurrency = 2
    MaxStops = 1
    MaxLapses = 0
    MaxDbErrors = 0
    MaxFaults = 1
PROPERTIES
    ExhaustedBecomesTerminal
