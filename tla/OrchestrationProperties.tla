----------------------- MODULE OrchestrationProperties ----------------------
(***************************************************************************)
(* What the queue and its workers promise.                                 *)
(***************************************************************************)
EXTENDS OrchestrationWorker

-----------------------------------------------------------------------------
\* Invariants, whatever faults occur.

\* A row carries an owner exactly while it is in flight: every statement that
\* takes a row out of in_flight clears the lease in the same update, so no
\* pending or terminal row can answer to a worker's "status and lease_owner".
LeaseCoherent ==
    \A j \in Jobs :
        /\ InFlight(j) <=> job[j].owner # NoWorker
        /\ job[j].live => InFlight(j)
        /\ job[j].status = "absent" => job[j].attempt = 0

\* "Poison job: bounded max_attempts": no body of a row is ever started
\* beyond its budget, whoever claims, reclaims, releases or revives it.
AttemptsBounded ==
    /\ \A j \in Jobs : job[j].attempt <= MaxAttempts[j]
    /\ \A c \in Executions : c.attempt \in 1..MaxAttempts[c.job]

\* Every execution comes from a claim the row still remembers.
ClaimsArePast ==
    \A c \in Executions :
        \/ c.revival < job[c.job].revival
        \/ c.revival = job[c.job].revival /\ c.attempt <= job[c.job].attempt

\* One claim, one execution: no attempt of a job is ever handed to two bodies,
\* in one process or in two, though leases are taken over, released at boot,
\* swept and revived.
OneExecutionPerClaim ==
    /\ arriving \cap Bodies = {}
    /\ working \cap failing = {}
    /\ \A c, d \in Executions :
          (c.job = d.job /\ c.revival = d.revival /\ c.attempt = d.attempt)
             => c = d

\* A lease that is live when a step is taken is given up only by a body of
\* its owner that settles the job, or by the owner's own restart: neither
\* another worker's claim, sweep or late settlement, nor a cancellation or a
\* revival takes a protected job away.
LiveLeaseRespected ==
    [][\A j \in Jobs :
         (LiveLease(j) /\ job'[j].owner # job[j].owner) =>
            \/ \E c \in Bodies : /\ c.job = j /\ c.worker = job[j].owner
                                 /\ c \notin working'
            \/ proc[job[j].owner] = "booting"]_vars

\* The queue implements the lifecycle that its callers rely on.
Lifecycle == INSTANCE JobLifecycle WITH
    status  <- [j \in Jobs |-> job[j].status],
    attempt <- [j \in Jobs |-> job[j].attempt],
    revival <- [j \in Jobs |-> job[j].revival]

\* Every statement of every worker and caller, faults included, moves each
\* job along its lifecycle: no job is started beyond its budget, skips its
\* start, is cancelled under a body or leaves a terminal state unrevived.
ImplementsLifecycle == Lifecycle!Spec

-----------------------------------------------------------------------------
\* Invariants as long as heartbeats are on time and answers arrive
\* (MaxLapses = 0, MaxDbErrors = 0): crashes, restarts and shutdowns only.

\* Bodies that no shutdown has given up.
Supervised == {c \in Executions : proc[c.worker] # "unregistered"}

\* No two bodies run the same job at the same time, except next to a process
\* that unregistered before its bodies had settled.
OneBodyPerJob ==
    \A c, d \in Supervised : c.job = d.job => c = d

\* The limit of a lane holds for what really runs, across all workers.
LaneLimitOnBodies ==
    \A l \in Lanes :
        Cardinality({c \in Supervised : LaneOf[c.job] = l}) <= LaneLimit[l]

\* The active map of a process, keyed by job id, counts all of its bodies, so
\* that workerMaxConcurrency bounds them.
ConcurrencyBounded ==
    \A w \in Workers :
        /\ active[w] = {c.job : c \in Of(w, Bodies)}
        /\ Cardinality(Of(w, Executions)) <= MaxConcurrency

\* A booted worker runs every job it holds a lease on: no restart leaves a
\* lease behind that looks alive because the new process heartbeats under the
\* old id.
EveryLeaseHasABody ==
    \A j \in Jobs :
        (InFlight(j) /\ proc[job[j].owner] \in {"released", "running", "stopping"})
           => \E c \in Executions : c.job = j /\ c.worker = job[j].owner

-----------------------------------------------------------------------------
\* Liveness.  The fairness is that of timers, supervisors and an event loop:
\* a process that is down is started again, boots and polls; a body ends;
\* time passes.  Claims need strong fairness: a job is claimable only while
\* a poll cycle of a worker with a free slot is going on, and every cycle
\* tries every lane.
Fairness ==
    /\ \A w \in Workers :
          /\ WF_vars(BootRegister(w))
          /\ WF_vars(BootRelease(w))
          /\ WF_vars(BootReconcile(w))
          /\ WF_vars(PollBegin(w))
          /\ SF_vars(\E j \in Jobs : PollClaim(w, j))
          /\ SF_vars(\E l \in Lanes : PollClaimNothing(w, l))
          /\ WF_vars(PollEnd(w))
          /\ WF_vars(Unregister(w))
          /\ WF_vars(Exit(w))
          /\ WF_vars(DeadWorkerGoesStale(w))
          /\ WF_vars(WorkerHeartbeat(w))
          /\ WF_vars(\E js \in SUBSET Jobs : ReclaimTimer(w, js))
    /\ \A j \in Jobs :
          /\ WF_vars(\E c \in arriving : c.job = j /\ BeginJob(c))
          /\ WF_vars(\E c \in working : c.job = j /\ Completes(c))
          /\ WF_vars(\E c \in failing : c.job = j /\ Settles(c))
          /\ WF_vars(OrphanedLeaseExpires(j))
          /\ WF_vars(BackoffEnds(j))

FairSpec == Spec /\ Fairness

\* A pending row that has used up its attempts: no statement claims it, fails
\* it or revives it any more.
Wedged(j) == job[j].status = "pending" /\ Exhausted(j)

\* Whatever is enqueued is carried to a terminal state, through crashes,
\* lapses and lost answers, unless it is wedged.
EveryJobSettles ==
    \A j \in Jobs :
        job[j].status \in Open ~> (job[j].status \in Terminal \/ Wedged(j))

-----------------------------------------------------------------------------
\* What the documentation says and the code does not do.

\* "Exhausted dead leases become terminal instead of looping forever"
\* (db/orchestration_schema.sql), "Poison job: bounded max_attempts, then
\* terminal failed" (planning/12): a job without attempts left ends.
\* releaseOwnedInFlightOnStartup returns such a job to pending for good.
ExhaustedBecomesTerminal ==
    \A j \in Jobs : Wedged(j) ~> job[j].status \in Terminal

\* "New work cannot enter active after this point because poll checks
\* stopping before every claim cycle" (stopOnce): the claim that is under way
\* when the stop arrives enters active afterwards.
NoWorkAfterStop ==
    [][\A w \in Workers :
         proc[w] = "stopping" => active'[w] \subseteq active[w]]_vars

\* "Registry cleanup only; worker health continues to use the 45-second
\* window" (garbageCollectStaleWorkers): a running worker that goes on sending
\* heartbeats is healthy again.  Once its row is collected it never is.
HeartbeatRestoresHealth ==
    \A w \in Workers :
        (proc[w] = "running" /\ ~Healthy(w)) ~>
            (proc[w] # "running" \/ Healthy(w))

\* "Postgres enforces lane limits" (planning/12): never more live leases in a
\* lane than its limit.  A lease that went dead does not count when its lane
\* is filled up, and it comes back to life with its worker's heartbeat.
LaneLimitOnLeases ==
    \A l \in Lanes : Cardinality(LiveInLane(l)) <= LaneLimit[l]

=============================================================================
