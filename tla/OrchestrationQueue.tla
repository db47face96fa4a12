------------------------- MODULE OrchestrationQueue -------------------------
(***************************************************************************)
(* The durable work queue of Outreach Hub: the tables of                   *)
(* db/orchestration_schema.sql and the statements that                     *)
(* lib/orchestration/repository.ts and the two SQL functions run on them.  *)
(* Every statement is one Postgres transaction, hence one action.          *)
(*                                                                         *)
(* Time is abstracted: a row only says whether its lease has expired       *)
(* ("live"), whether available_at has passed ("ready"), and a worker       *)
(* whether its last heartbeat is younger than 45 seconds ("fresh").        *)
(* The clock is the three actions at the end of the module.                *)
(*                                                                         *)
(* The statements are composed with the worker processes in               *)
(* OrchestrationWorker.                                                    *)
(***************************************************************************)
EXTENDS Naturals, FiniteSets

CONSTANTS
    Jobs,         \* the (kind, dedupe_key) pairs, one row each
    Workers,      \* worker ids; a restarted process reuses its id
    NoWorker,     \* the NULL of lease_owner
    Lanes,
    LaneOf,       \* [Jobs -> Lanes]: KIND_CONFIG[kind].lane
    MaxAttempts,  \* [Jobs -> Nat \ {0}]: max_attempts
    LaneLimit,    \* [Lanes -> Nat \ {0}]: laneLimit(lane)
    MaxRevivals   \* bound, [Jobs -> Nat]: how often a row leaves a terminal state

ASSUME QueueAssumption ==
    /\ NoWorker \notin Workers
    /\ LaneOf \in [Jobs -> Lanes]
    /\ MaxAttempts \in [Jobs -> Nat \ {0}]
    /\ LaneLimit \in [Lanes -> Nat \ {0}]
    /\ MaxRevivals \in [Jobs -> Nat]

VARIABLES
    job,       \* orchestration_jobs: one row for each member of Jobs
    registry,  \* orchestration_workers: the age of each worker's heartbeat
    paused     \* orchestration_lane_controls

queueVars == <<job, registry, paused>>

Open     == {"pending", "in_flight"}
Terminal == {"done", "failed", "cancelled"}
Status   == {"absent"} \cup Open \cup Terminal

\* "revival" is the one field without a column: it counts how often the row
\* has been revived, so that (revival, attempt) names a claim.
Row == [status : Status, attempt : Nat, owner : Workers \cup {NoWorker},
        live : BOOLEAN, ready : BOOLEAN, revival : Nat]

QueueTypeOK ==
    /\ job \in [Jobs -> Row]
    /\ registry \in [Workers -> {"absent", "fresh", "stale"}]
    /\ paused \in SUBSET Lanes

QueueInit ==
    /\ job = [j \in Jobs |-> [status |-> "absent", attempt |-> 0,
                              owner |-> NoWorker, live |-> FALSE,
                              ready |-> FALSE, revival |-> 0]]
    /\ registry = [w \in Workers |-> "absent"]
    /\ paused = {}

-----------------------------------------------------------------------------
\* What the WHERE clauses see.

Healthy(w) == w \in Workers /\ registry[w] = "fresh"

InFlight(j) == job[j].status = "in_flight"

\* A lease that still protects its job ...
LiveLease(j) == InFlight(j) /\ job[j].live /\ Healthy(job[j].owner)

\* ... and one that anybody may take over.
DeadLease(j) == InFlight(j) /\ ~LiveLease(j)

Exhausted(j) == job[j].attempt >= MaxAttempts[j]

LiveInLane(l) == {j \in Jobs : LaneOf[j] = l /\ LiveLease(j)}

\* Mutant: the budget is not looked at.
ClaimableExhausted(j) ==
    /\ job[j].status = "pending" \/ DeadLease(j)
    /\ job[j].ready

Claimable(j) ==
    /\ job[j].status = "pending" \/ DeadLease(j)
    /\ ~Exhausted(j)
    /\ job[j].ready

Owns(w, j) == InFlight(j) /\ job[j].owner = w

-----------------------------------------------------------------------------
\* What the SET clauses write: the row after each kind of update.

Unleased(row, status) ==
    [row EXCEPT !.status = status, !.owner = NoWorker, !.live = FALSE]

\* MaxRevivals: beyond it an enqueue leaves the terminal row alone.
Revives(j, reviveTerminal) ==
    /\ reviveTerminal
    /\ job[j].status \in Terminal
    /\ job[j].revival < MaxRevivals[j]

\* INSERT ... ON CONFLICT (kind, dedupe_key) DO UPDATE: a new row, a terminal
\* row revived when the caller asks for it, and otherwise the row as it was.
Enqueued(j, reviveTerminal, ready) ==
    CASE job[j].status = "absent" ->
             [job[j] EXCEPT !.status = "pending", !.ready = ready]
      [] Revives(j, reviveTerminal) ->
             [Unleased(job[j], "pending") EXCEPT
                 !.attempt = 0, !.ready = ready, !.revival = @ + 1]
      [] OTHER -> job[j]

Claimed(row, w) ==
    [row EXCEPT !.status = "in_flight", !.attempt = @ + 1,
                !.owner = w, !.live = TRUE]

-----------------------------------------------------------------------------
\* The statements.

\* enqueueWorkBatch: one transaction for the whole batch.
EnqueueWork(js, reviveTerminal, ready) ==
    /\ job' = [j \in Jobs |-> IF j \in js
                              THEN Enqueued(j, reviveTerminal, ready)
                              ELSE job[j]]
    /\ UNCHANGED <<registry, paused>>

\* The update at the head of claim_orchestration_job: it commits with the
\* claim, and also when the function then returns no row.
DeadAndExhausted(l) ==
    {j \in Jobs : LaneOf[j] = l /\ DeadLease(j) /\ Exhausted(j)}

\* Mutant: no sweep.
FailNothing(l, row) == row

FailExhausted(l, row) ==
    [j \in Jobs |-> IF j \in DeadAndExhausted(l)
                    THEN Unleased(row[j], "failed") ELSE row[j]]

\* Mutant: one more than the lane allows.
ClaimOneTooMany(w, j) ==
    LET l == LaneOf[j] IN
    /\ l \notin paused
    /\ Cardinality(LiveInLane(l)) <= LaneLimit[l]
    /\ Claimable(j)
    /\ job' = FailExhausted(l, [job EXCEPT ![j] = Claimed(@, w)])
    /\ UNCHANGED <<registry, paused>>

\* claim_orchestration_job returning j. SKIP LOCKED can hide any row that
\* another transaction holds, so the ORDER BY binds no particular choice.
ClaimWork(w, j) ==
    LET l == LaneOf[j] IN
    /\ l \notin paused
    /\ Cardinality(LiveInLane(l)) < LaneLimit[l]
    /\ Claimable(j)
    /\ job' = FailExhausted(l, [job EXCEPT ![j] = Claimed(@, w)])
    /\ UNCHANGED <<registry, paused>>

\* claim_orchestration_job returning nothing, after its update failed a row.
ClaimNothing(l) ==
    /\ l \notin paused
    /\ DeadAndExhausted(l) # {}
    /\ job' = FailExhausted(l, job)
    /\ UNCHANGED <<registry, paused>>

HeartbeatWork(w, j) ==
    /\ Owns(w, j)
    /\ job' = [job EXCEPT ![j].live = TRUE]
    /\ UNCHANGED <<registry, paused>>

\* completeWork: the children first, then the parent, if the lease is still
\* this worker's. A child that is the parent itself meets an in_flight row.
CompleteWork(w, j, children, reviveTerminal, ready) ==
    /\ Owns(w, j)
    /\ job' = [k \in Jobs |->
                 IF k = j THEN Unleased(job[k], "done")
                 ELSE IF k \in children
                      THEN Enqueued(k, reviveTerminal, ready)
                      ELSE job[k]]
    /\ UNCHANGED <<registry, paused>>

RetryWork(w, j) ==
    /\ Owns(w, j)
    /\ job' = [job EXCEPT ![j] =
                 [Unleased(@, IF Exhausted(j) THEN "failed" ELSE "pending")
                     EXCEPT !.ready = FALSE]]
    /\ UNCHANGED <<registry, paused>>

\* Mutant: lease_owner is not compared.
FailAnyones(w, j) ==
    /\ InFlight(j)
    /\ job' = [job EXCEPT ![j] = Unleased(@, "failed")]
    /\ UNCHANGED <<registry, paused>>

FailWork(w, j) ==
    /\ Owns(w, j)
    /\ job' = [job EXCEPT ![j] = Unleased(@, "failed")]
    /\ UNCHANGED <<registry, paused>>

\* Mutants: what is in flight is cancelled as well; the attempt that a
\* cancelled job will not make is given back.
CancelOpen(js) ==
    /\ \E j \in js : job[j].status \in Open
    /\ job' = [j \in Jobs |-> IF j \in js /\ job[j].status \in Open
                              THEN Unleased(job[j], "cancelled") ELSE job[j]]
    /\ UNCHANGED <<registry, paused>>

CancelGivesBack(js) ==
    /\ \E j \in js : job[j].status = "pending"
    /\ job' = [j \in Jobs |->
                 IF j \in js /\ job[j].status = "pending"
                 THEN [Unleased(job[j], "cancelled") EXCEPT !.attempt = @ - 1]
                 ELSE job[j]]
    /\ UNCHANGED <<registry, paused>>

\* cancelScope and cancelWorkByIds: only what nobody has claimed.
CancelWork(js) ==
    /\ \E j \in js : job[j].status = "pending"
    /\ job' = [j \in Jobs |-> IF j \in js /\ job[j].status = "pending"
                              THEN Unleased(job[j], "cancelled") ELSE job[j]]
    /\ UNCHANGED <<registry, paused>>

\* reschedulePendingWork: available_at moves, to the future or to the past.
ReschedulePendingWork(j, ready) ==
    /\ job[j].status = "pending"
    /\ job' = [job EXCEPT ![j].ready = ready]
    /\ UNCHANGED <<registry, paused>>

\* Mutant: only the leases that have expired are released.
ReleaseExpiredOnly(w) ==
    /\ job' = [j \in Jobs |-> IF Owns(w, j) /\ ~job[j].live
                              THEN [Unleased(job[j], "pending")
                                       EXCEPT !.ready = TRUE]
                              ELSE job[j]]
    /\ UNCHANGED <<registry, paused>>

\* No attempt is tested here, unlike in every other way back to pending.
ReleaseOwnedInFlightOnStartup(w) ==
    /\ job' = [j \in Jobs |-> IF Owns(w, j)
                              THEN [Unleased(job[j], "pending")
                                       EXCEPT !.ready = TRUE]
                              ELSE job[j]]
    /\ UNCHANGED <<registry, paused>>

\* Mutant: the attempt of the lost body is not counted.
ReclaimGivesBack(js) ==
    /\ js # {}
    /\ \A j \in js : DeadLease(j) /\ ~Exhausted(j)
    /\ job' = [j \in Jobs |->
                 IF j \in js
                 THEN [Unleased(job[j], "pending") EXCEPT !.attempt = @ - 1]
                 ELSE job[j]]
    /\ UNCHANGED <<registry, paused>>

\* reclaimExpiredOrchestrationLeases: SKIP LOCKED and LIMIT take some of the
\* candidates; attempt_count and available_at stay.
ReclaimExpiredOrchestrationLeases(js) ==
    /\ js # {}
    /\ \A j \in js : DeadLease(j) /\ ~Exhausted(j)
    /\ job' = [j \in Jobs |-> IF j \in js THEN Unleased(job[j], "pending")
                              ELSE job[j]]
    /\ UNCHANGED <<registry, paused>>

RegisterWorker(w) ==
    /\ registry' = [registry EXCEPT ![w] = "fresh"]
    /\ UNCHANGED <<job, paused>>

\* An UPDATE: a worker without a row stays without one.
HeartbeatWorker(w) ==
    /\ registry' = [registry EXCEPT
                      ![w] = IF @ = "absent" THEN "absent" ELSE "fresh"]
    /\ UNCHANGED <<job, paused>>

UnregisterWorker(w) ==
    /\ registry' = [registry EXCEPT ![w] = "absent"]
    /\ UNCHANGED <<job, paused>>

\* Deletes the rows that have been stale for ten minutes: which of the stale
\* ones those are is up to the clock.
GarbageCollectStaleWorkers(ws) ==
    /\ ws # {}
    /\ \A w \in ws : registry[w] = "stale"
    /\ registry' = [w \in Workers |-> IF w \in ws THEN "absent"
                                      ELSE registry[w]]
    /\ UNCHANGED <<job, paused>>

\* The operator's INSERT into orchestration_lane_controls.
SetLanePaused(l) ==
    /\ paused' = IF l \in paused THEN paused \ {l} ELSE paused \cup {l}
    /\ UNCHANGED <<job, registry>>

-----------------------------------------------------------------------------
\* The clock.

BecomesReady(j) ==
    /\ job[j].status = "pending" /\ ~job[j].ready
    /\ job' = [job EXCEPT ![j].ready = TRUE]
    /\ UNCHANGED <<registry, paused>>

LeaseExpires(j) ==
    /\ InFlight(j) /\ job[j].live
    /\ job' = [job EXCEPT ![j].live = FALSE]
    /\ UNCHANGED <<registry, paused>>

GoesStale(w) ==
    /\ registry[w] = "fresh"
    /\ registry' = [registry EXCEPT ![w] = "stale"]
    /\ UNCHANGED <<job, paused>>

=============================================================================
