\* One row, two workers, up to three faults of every kind; a wrapper, its worker
\* and two that are started by hand, two processes each; a campaign that sources
\* two people a day for two days, two executions, one of which may lose its row.
SPECIFICATION WorkerSpec
CONSTANTS
    reconcile = reconcile
    mail = mail
    mail2 = mail2
    w1 = w1
    w2 = w2
    NoWorker = NoWorker
    Jobs <- OneJob
    Workers <- TwoWorkers
    Lanes <- SharedLane
    LaneOf <- OneLane
    MaxAttempts <- OneAttempt2
    LaneLimit <- SharedLimit
    MaxRevivals <- OneRevival
    ReconcileJob = reconcile
    SendJobs = {}
    Children <- OneAlone
    Fallback = NoWorker
    PausableLanes = {}
    MaxConcurrency = 2
    MaxStops = 2
    MaxLapses = 2
    MaxDbErrors = 1
    MaxFaults = 3
    p1 = p1
    p2 = p2
    p3 = p3
    shell = shell
    Places <- ThreePlaces
    Wrappers = {shell}
    OwnerOf <- OneWrapped
    MaxLives = 2
    c1 = c1
    e1 = e1
    e2 = e2
    Campaigns = {c1}
    Crowd = 3
    Reach <- OneAtFirst
    Verified = {1, 2, 3}
    Mailed = {}
    Quota <- QuotaOfTwo
    LastDay = 2
    Weekdays = {1, 2}
    Cycles = {e1, e2}
    PerPage = 2
    Batch = 1
    MaxPages = 2
    MaxStep = 1
    ThinDays = 2
    MaxFailures = 1
    MaxEdits = 0
SYMMETRY AllAlike
INVARIANTS
    AttemptsBounded
    OneExecutionPerClaim
    OneWorkerPerCheckout
    QuotaKept
    PaidOnce
PROPERTIES
    LiveLeaseRespected
