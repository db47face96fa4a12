\* A worker that comes back after its registry row was collected.
SPECIFICATION FairSpec
CONSTANTS
    reconcile = reconcile
    mail = mail
    mail2 = mail2
    w1 = w1
    w2 = w2
    NoWorker = NoWorker
    Jobs <- TwoJobs
    Workers <- TwoWorkers
    Lanes <- SharedLane
    LaneOf <- JobsShare
    MaxAttempts <- Attempts1
    LaneLimit <- SharedLimit
    MaxRevivals <- Revivals0
    ReconcileJob = reconcile
    SendJobs <- JustMail
    Children <- NoChildren
    Fallback = NoWorker
    PausableLanes = {}
    MaxConcurrency = 2
    MaxStops = 0
    MaxLapses = 1
    MaxDbErrors = 0
    MaxFaults = 2
PROPERTIES
    HeartbeatRestoresHealth
