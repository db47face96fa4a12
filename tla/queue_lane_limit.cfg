\* A lane of limit one, a crash and a restart under the same id.
SPECIFICATION Spec
CONSTANTS
    reconcile = reconcile
    mail = mail
    mail2 = mail2
    w1 = w1
    w2 = w2
    NoWorker = NoWorker
    Jobs <- TwoJobs
    Workers <- TwoWorkers
    Lanes <- SharedLane
    LaneOf <- JobsShare
    MaxAttempts <- Attempts2
    LaneLimit <- SharedLimit
    MaxRevivals <- Revivals0
    ReconcileJob = reconcile
    SendJobs <- JustMail
    Children <- ReconcileChildren
    Fallback = NoWorker
    PausableLanes = {}
    MaxConcurrency = 2
    MaxStops = 1
    MaxLapses = 0
    MaxDbErrors = 0
    MaxFaults = 1
INVARIANTS
    LaneLimitOnLeases
