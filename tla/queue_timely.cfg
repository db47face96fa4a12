\* Heartbeats on time and answers that arrive; one crash or shutdown.
SPECIFICATION Spec
CONSTANTS
    reconcile = reconcile
    mail = mail
    mail2 = mail2
    w1 = w1
    w2 = w2
    NoWorker = NoWorker
    Jobs <- ThreeJobs
    Workers <- TwoWorkers
    Lanes <- TwoLanes
    LaneOf <- ThreeLanes
    MaxAttempts <- Attempts121
    LaneLimit <- OneEach
    MaxRevivals <- Revivals011
    ReconcileJob = reconcile
    SendJobs <- JustMail
    Children <- ThreeChildren
    Fallback = NoWorker
    PausableLanes = {"product"}
    MaxConcurrency = 1
    MaxStops = 1
    MaxLapses = 0
    MaxDbErrors = 0
    MaxFaults = 1
SYMMETRY WorkersAlike
INVARIANTS
    TypeOK
    OneBodyPerJob
    LaneLimitOnBodies
    ConcurrencyBounded
    EveryLeaseHasABody
PROPERTIES
    ImplementsLifecycle
