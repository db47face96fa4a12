------------------------- MODULE OrchestrationWorker ------------------------
(***************************************************************************)
(* The worker processes of lib/orchestration/worker.ts on top of the       *)
(* queue: the boot sequence, the poll loop with its fleet check, the job   *)
(* bodies and how each one settles, the heartbeat, reclaim and reconcile   *)
(* timers, shutdown, crashes and restarts.                                 *)
(*                                                                         *)
(* A body is named by the claim that started it.  The lease of the row     *)
(* names only a worker: a body that lost its lease goes on running, and    *)
(* settles against whatever the row has become in the meantime.            *)
(***************************************************************************)
EXTENDS OrchestrationQueue

CONSTANTS
    ReconcileJob,    \* the one row of system.reconcile
    SendJobs,        \* the rows of email.send, which alone are rescheduled
    Children,        \* [Jobs -> SUBSET Jobs]: what a handler may return
    Fallback,        \* ORCHESTRATION_FALLBACK_WORKER_ID, or NoWorker
    MaxConcurrency,  \* workerMaxConcurrency()
    PausableLanes,   \* bound: the lanes the operator pauses and resumes
    MaxStops,        \* bound: crashes and shutdowns
    MaxLapses,       \* bound: heartbeats that come too late
    MaxDbErrors,     \* bound: statements whose answer never arrives
    MaxFaults        \* bound: all of these together

ASSUME WorkerAssumption ==
    /\ ReconcileJob \in Jobs
    /\ SendJobs \subseteq Jobs \ {ReconcileJob}
    /\ Children \in [Jobs -> SUBSET Jobs]
    /\ Fallback \in Workers \cup {NoWorker}
    /\ MaxConcurrency \in Nat \ {0}
    /\ PausableLanes \subseteq Lanes
    /\ MaxStops \in Nat /\ MaxLapses \in Nat /\ MaxDbErrors \in Nat
    /\ MaxFaults \in Nat

VARIABLES
    proc,      \* the life of each worker process
    poll,      \* whether its poll loop is in a cycle
    active,    \* the keys of its active map: job ids
    arriving,  \* claims committed, not yet handed to beginJob
    working,   \* bodies in their handler, or completing
    failing,   \* bodies in the catch block of execute
    faults     \* the bounded faults so far

processVars == <<proc, poll, active>>
bodyVars    == <<arriving, working, failing>>
vars        == <<queueVars, processVars, bodyVars, faults>>

Claim == [worker : Workers, job : Jobs, revival : Nat, attempt : Nat]

ProcState == {"down", "booting", "released", "running", "stopping",
              "unregistered"}

TypeOK ==
    /\ QueueTypeOK
    /\ proc \in [Workers -> ProcState]
    /\ poll \in [Workers -> {"idle", "polling"}]
    /\ active \in [Workers -> SUBSET Jobs]
    /\ arriving \in SUBSET Claim
    /\ working \in SUBSET Claim
    /\ failing \in SUBSET Claim
    /\ faults \in [stops : 0..MaxStops, lapses : 0..MaxLapses,
                   dbErrors : 0..MaxDbErrors]

Init ==
    /\ QueueInit
    /\ proc = [w \in Workers |-> "down"]
    /\ poll = [w \in Workers |-> "idle"]
    /\ active = [w \in Workers |-> {}]
    /\ arriving = {} /\ working = {} /\ failing = {}
    /\ faults = [stops |-> 0, lapses |-> 0, dbErrors |-> 0]

Bodies == working \cup failing

Of(w, claims) == {c \in claims : c.worker = w}

ArrivingAt(w) == Of(w, arriving)

Executions == arriving \cup Bodies

\* Somebody in a living process renews the lease of j from time to time, or
\* is about to.
Heartbeating(j) ==
    \E c \in Executions : c.job = j /\ c.worker = job[j].owner

Alive(w) == proc[w] # "down"

FaultsLeft == faults.stops + faults.lapses + faults.dbErrors < MaxFaults

StopCounted ==
    /\ FaultsLeft
    /\ faults.stops < MaxStops
    /\ faults' = [faults EXCEPT !.stops = @ + 1]

LapseCounted ==
    /\ FaultsLeft
    /\ faults.lapses < MaxLapses
    /\ faults' = [faults EXCEPT !.lapses = @ + 1]

DbErrorCounted ==
    /\ FaultsLeft
    /\ faults.dbErrors < MaxDbErrors
    /\ faults' = [faults EXCEPT !.dbErrors = @ + 1]

-----------------------------------------------------------------------------
\* start(): register, release the leases of the previous process with this
\* id, enqueue a reconciliation, and only then the timers and the poll loop.

BootRegister(w) ==
    /\ proc[w] = "down"
    /\ proc' = [proc EXCEPT ![w] = "booting"]
    /\ RegisterWorker(w)
    /\ UNCHANGED <<poll, active, bodyVars, faults>>

BootRelease(w) ==
    /\ proc[w] = "booting"
    /\ proc' = [proc EXCEPT ![w] = "released"]
    /\ ReleaseOwnedInFlightOnStartup(w)
    /\ UNCHANGED <<poll, active, bodyVars, faults>>

\* An error of the release is caught and counts as nothing to release.
BootReleaseError(w) ==
    /\ proc[w] = "booting"
    /\ proc' = [proc EXCEPT ![w] = "released"]
    /\ DbErrorCounted
    /\ UNCHANGED <<queueVars, poll, active, bodyVars>>

BootReconcile(w) ==
    /\ proc[w] = "released"
    /\ proc' = [proc EXCEPT ![w] = "running"]
    /\ EnqueueWork({ReconcileJob}, TRUE, TRUE)
    /\ UNCHANGED <<poll, active, bodyVars, faults>>

\* A signal during start(): stop() has nothing to drain and unregisters.
StopDuringBoot(w) ==
    /\ proc[w] \in {"booting", "released"}
    /\ proc' = [proc EXCEPT ![w] = "down"]
    /\ UnregisterWorker(w)
    /\ StopCounted
    /\ UNCHANGED <<poll, active, bodyVars>>

-----------------------------------------------------------------------------
\* poll() and beginJob().

\* shouldYieldToPrimaryFleet: read once, at the head of the cycle.
YieldsToFleet(w) == w = Fallback /\ \E v \in Workers \ {w} : Healthy(v)

PollBegin(w) ==
    /\ proc[w] = "running" /\ poll[w] = "idle"
    /\ ~YieldsToFleet(w)
    /\ poll' = [poll EXCEPT ![w] = "polling"]
    /\ UNCHANGED <<queueVars, proc, active, bodyVars, faults>>

\* Mutant: one slot too many.
MayClaimOneMore(w) ==
    /\ proc[w] = "running" /\ poll[w] = "polling"
    /\ ArrivingAt(w) = {}
    /\ Cardinality(active[w]) <= MaxConcurrency

MayClaim(w) ==
    /\ proc[w] = "running" /\ poll[w] = "polling"
    /\ ArrivingAt(w) = {}
    /\ Cardinality(active[w]) < MaxConcurrency

PollClaim(w, j) ==
    /\ MayClaim(w)
    /\ ClaimWork(w, j)
    /\ arriving' = arriving \cup
         {[worker |-> w, job |-> j, revival |-> job[j].revival,
           attempt |-> job[j].attempt + 1]}
    /\ UNCHANGED <<processVars, working, failing, faults>>

PollClaimNothing(w, l) ==
    /\ MayClaim(w)
    /\ ClaimNothing(l)
    /\ UNCHANGED <<processVars, bodyVars, faults>>

\* The answer to claimWork arrives: beginJob runs without looking at
\* "stopping" again.
BeginJob(c) ==
    /\ c \in arriving
    /\ arriving' = arriving \ {c}
    /\ working' = working \cup {c}
    /\ active' = [active EXCEPT ![c.worker] = @ \cup {c.job}]
    /\ UNCHANGED <<queueVars, proc, poll, failing, faults>>

\* claimWork throws although the claim committed: nobody will run the job.
LoseClaim(c) ==
    /\ c \in arriving
    /\ arriving' = arriving \ {c}
    /\ poll' = [poll EXCEPT ![c.worker] = "idle"]
    /\ DbErrorCounted
    /\ UNCHANGED <<queueVars, proc, active, working, failing>>

PollEnd(w) ==
    /\ poll[w] = "polling" /\ ArrivingAt(w) = {}
    /\ poll' = [poll EXCEPT ![w] = "idle"]
    /\ UNCHANGED <<queueVars, proc, active, bodyVars, faults>>

-----------------------------------------------------------------------------
\* execute(): the handler, then one settlement.

HandlerThrows(c) ==
    /\ c \in working
    /\ working' = working \ {c}
    /\ failing' = failing \cup {c}
    /\ UNCHANGED <<queueVars, processVars, arriving, faults>>

\* The finally of beginJob: the active map loses the key of the job, also
\* when another body of the same job is still running here.
BodyEnds(c) ==
    /\ working' = working \ {c}
    /\ failing' = failing \ {c}
    /\ active' = [active EXCEPT ![c.worker] = @ \ {c.job}]
    /\ UNCHANGED <<proc, poll, arriving>>

CompleteJob(c, children, reviveTerminal, ready) ==
    /\ c \in working
    /\ CompleteWork(c.worker, c.job, children, reviveTerminal, ready)
    /\ BodyEnds(c)
    /\ UNCHANGED faults

\* job_completion_lease_lost: the children are dropped with the result.
CompletionLeaseLost(c) ==
    /\ c \in working
    /\ ~Owns(c.worker, c.job)
    /\ BodyEnds(c)
    /\ UNCHANGED <<queueVars, faults>>

\* completeWork commits and throws: execute goes on in its catch block.
CompleteUnacknowledged(c, children, reviveTerminal, ready) ==
    /\ c \in working
    /\ CompleteWork(c.worker, c.job, children, reviveTerminal, ready)
    /\ working' = working \ {c}
    /\ failing' = failing \cup {c}
    /\ DbErrorCounted
    /\ UNCHANGED <<processVars, arriving>>

\* "retryable" compares the attempt that was claimed, not the row's.
RetryJob(c) ==
    /\ c \in failing /\ c.attempt < MaxAttempts[c.job]
    /\ \/ RetryWork(c.worker, c.job)
       \/ ~Owns(c.worker, c.job) /\ UNCHANGED queueVars
    /\ BodyEnds(c)
    /\ UNCHANGED faults

FailJob(c) ==
    /\ c \in failing /\ c.attempt >= MaxAttempts[c.job]
    /\ \/ FailWork(c.worker, c.job)
       \/ ~Owns(c.worker, c.job) /\ UNCHANGED queueVars
    /\ BodyEnds(c)
    /\ UNCHANGED faults

\* retryWork or failWork throws: the rejection is only logged, the row stays
\* in_flight and nobody renews its lease.
SettlementError(c) ==
    /\ c \in failing
    /\ BodyEnds(c)
    /\ DbErrorCounted
    /\ UNCHANGED queueVars

JobHeartbeat(c) ==
    /\ c \in Bodies
    /\ ~job[c.job].live
    /\ HeartbeatWork(c.worker, c.job)
    /\ UNCHANGED <<processVars, bodyVars, faults>>

-----------------------------------------------------------------------------
\* Timers of a running worker, and the handler of system.reconcile.

WorkerHeartbeat(w) ==
    /\ proc[w] \in {"running", "stopping"}
    /\ HeartbeatWorker(w)
    /\ UNCHANGED <<processVars, bodyVars, faults>>

ReclaimTimer(w, js) ==
    /\ proc[w] = "running"
    /\ ReclaimExpiredOrchestrationLeases(js)
    /\ UNCHANGED <<processVars, bodyVars, faults>>

ReconcileTimer(w) ==
    /\ proc[w] = "running"
    /\ EnqueueWork({ReconcileJob}, TRUE, TRUE)
    /\ UNCHANGED <<processVars, bodyVars, faults>>

\* The first statement of handleReconcile.
ReconcileCollects(c, ws) ==
    /\ c \in working /\ c.job = ReconcileJob
    /\ GarbageCollectStaleWorkers(ws)
    /\ UNCHANGED <<processVars, bodyVars, faults>>

-----------------------------------------------------------------------------
\* Shutdown, crash.

\* Mutant: the registry row is deleted before the drain.
StopUnregistersFirst(w) ==
    /\ proc[w] = "running"
    /\ proc' = [proc EXCEPT ![w] = "stopping"]
    /\ UnregisterWorker(w)
    /\ StopCounted
    /\ UNCHANGED <<poll, active, bodyVars>>

Stop(w) ==
    /\ proc[w] = "running"
    /\ proc' = [proc EXCEPT ![w] = "stopping"]
    /\ StopCounted
    /\ UNCHANGED <<queueVars, poll, active, bodyVars>>

\* drainActiveJobs is over: every body it knew of has settled, or the grace
\* period is.  The grace period may be over at any time.
Unregister(w) ==
    /\ proc[w] = "stopping"
    /\ proc' = [proc EXCEPT ![w] = "unregistered"]
    /\ UnregisterWorker(w)
    /\ UNCHANGED <<poll, active, bodyVars, faults>>

ProcessGone(w) ==
    /\ proc' = [proc EXCEPT ![w] = "down"]
    /\ poll' = [poll EXCEPT ![w] = "idle"]
    /\ active' = [active EXCEPT ![w] = {}]
    /\ arriving' = arriving \ ArrivingAt(w)
    /\ working' = working \ Of(w, working)
    /\ failing' = failing \ Of(w, failing)
    /\ UNCHANGED queueVars

Exit(w) ==
    /\ proc[w] = "unregistered"
    /\ ProcessGone(w)
    /\ UNCHANGED faults

Crash(w) ==
    /\ Alive(w)
    /\ ProcessGone(w)
    /\ StopCounted

-----------------------------------------------------------------------------
\* The clock.  A lease without a body and a worker without a process run out
\* by themselves; one that should be renewed runs out only by a fault.

OrphanedLeaseExpires(j) ==
    /\ ~Heartbeating(j)
    /\ LeaseExpires(j)
    /\ UNCHANGED <<processVars, bodyVars, faults>>

LeaseLapses(j) ==
    /\ Heartbeating(j)
    /\ LeaseExpires(j)
    /\ LapseCounted
    /\ UNCHANGED <<processVars, bodyVars>>

DeadWorkerGoesStale(w) ==
    /\ ~Alive(w)
    /\ GoesStale(w)
    /\ UNCHANGED <<processVars, bodyVars, faults>>

WorkerLapses(w) ==
    /\ Alive(w)
    /\ GoesStale(w)
    /\ LapseCounted
    /\ UNCHANGED <<processVars, bodyVars>>

BackoffEnds(j) ==
    /\ BecomesReady(j)
    /\ UNCHANGED <<processVars, bodyVars, faults>>

-----------------------------------------------------------------------------
\* Callers outside the workers: the API and the send scheduler.  None of them
\* touches the row of system.reconcile, whose scope and key are its own.

ProductJobs == Jobs \ {ReconcileJob}

Dispatch(j, reviveTerminal, ready) ==
    /\ EnqueueWork({j}, reviveTerminal, ready)
    /\ UNCHANGED <<processVars, bodyVars, faults>>

Cancel(js) ==
    /\ CancelWork(js)
    /\ UNCHANGED <<processVars, bodyVars, faults>>

Reschedule(j, ready) ==
    /\ ReschedulePendingWork(j, ready)
    /\ UNCHANGED <<processVars, bodyVars, faults>>

OperatorPauses(l) ==
    /\ SetLanePaused(l)
    /\ UNCHANGED <<processVars, bodyVars, faults>>

-----------------------------------------------------------------------------

Boot(w) ==
    \/ BootRegister(w)
    \/ BootRelease(w)
    \/ BootReleaseError(w)
    \/ BootReconcile(w)
    \/ StopDuringBoot(w)

Poll(w) ==
    \/ PollBegin(w)
    \/ \E j \in Jobs : PollClaim(w, j)
    \/ \E l \in Lanes : PollClaimNothing(w, l)
    \/ PollEnd(w)

Timers(w) ==
    \/ WorkerHeartbeat(w)
    \/ \E js \in SUBSET Jobs : ReclaimTimer(w, js)
    \/ ReconcileTimer(w)

Shutdown(w) ==
    \/ Stop(w)
    \/ Unregister(w)
    \/ Exit(w)
    \/ Crash(w)

Arrival == \E c \in arriving : BeginJob(c) \/ LoseClaim(c)

Completes(c) ==
    \/ \E children \in SUBSET Children[c.job], rt, ready \in BOOLEAN :
          CompleteJob(c, children, rt, ready)
    \/ CompletionLeaseLost(c)

Settles(c) ==
    \/ RetryJob(c)
    \/ FailJob(c)

Execution ==
    \/ \E c \in working :
          \/ HandlerThrows(c)
          \/ Completes(c)
          \/ \E children \in SUBSET Children[c.job], rt, ready \in BOOLEAN :
                CompleteUnacknowledged(c, children, rt, ready)
          \/ \E ws \in SUBSET Workers : ReconcileCollects(c, ws)
    \/ \E c \in failing : Settles(c) \/ SettlementError(c)
    \/ \E c \in Bodies : JobHeartbeat(c)

Clock ==
    \/ \E j \in Jobs :
          OrphanedLeaseExpires(j) \/ LeaseLapses(j) \/ BackoffEnds(j)
    \/ \E w \in Workers : DeadWorkerGoesStale(w) \/ WorkerLapses(w)

Callers ==
    \/ \E j \in ProductJobs, rt, ready \in BOOLEAN : Dispatch(j, rt, ready)
    \/ \E js \in SUBSET ProductJobs : Cancel(js)
    \/ \E j \in SendJobs, ready \in BOOLEAN : Reschedule(j, ready)
    \/ \E l \in PausableLanes : OperatorPauses(l)

Next ==
    \/ \E w \in Workers : Boot(w) \/ Poll(w) \/ Timers(w) \/ Shutdown(w)
    \/ Arrival
    \/ Execution
    \/ Clock
    \/ Callers

Spec == Init /\ [][Next]_vars

=============================================================================
