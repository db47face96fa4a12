--------------------------- MODULE DraftingRecovery --------------------------
(***************************************************************************)
(* The drafting pipeline as a whole: the handlers of DraftingWorker, the   *)
(* sweeps of system.reconcile and of rescue.ts that pick up what they left *)
(* behind, the user who pauses, resumes and retries, and the machines that *)
(* crash or sleep.                                                         *)
(*                                                                         *)
(* The sweeps are actions of their own: system.reconcile, a page that      *)
(* polls and a Resume run the same functions at the same time.             *)
(***************************************************************************)
EXTENDS DraftingWorker

VARIABLE sweep   \* what a sweep has read and not yet acted on

vars == <<tables, worker, sweep>>

NoSweep == [do |-> "none", items |-> {}, to |-> "failed_research", found |-> {}]

SweepTypeOK ==
    sweep \in [do : {"none", "reset", "wake"}, items : SUBSET Items, to : ItemState,
              found : SUBSET Sighting]

DraftingTypeOK == StoreTypeOK /\ WorkerTypeOK /\ SweepTypeOK

-----------------------------------------------------------------------------
(***************************************************************************)
(* The workspace has just been started, and drafting.run.start has enqueued *)
(* the jobs of its run or died first.  Next to new items with a research   *)
(* job there may be one whose first draft waits for its repair, or one at  *)
(* rest after two empty briefs that a sweep once retried.  (Of closed jobs *)
(* only those that can come back are kept.)                                *)
(***************************************************************************)
Stages == {"new", "repair", "empty"}

NewItem == [state |-> "queued_research", rr |-> 0, dr |-> 0, err |-> "none",
            tries |-> 0, packet |-> "none", from |-> 0]

ItemAt(stage) ==
    CASE stage = "new"    -> NewItem
      [] stage = "repair" -> [NewItem EXCEPT !.state = "repairing", !.rr = 1, !.dr = 1,
                                             !.packet = "usable", !.from = 1]
      [] stage = "empty"  -> [NewItem EXCEPT !.state = "failed_research", !.rr = 2,
                                             !.packet = "empty", !.tries = 2,
                                             !.err = "empty_research_brief"]

KeyAt(i, stage) == CASE stage = "new"    -> <<i, "start", 0>>
                     [] stage = "repair" -> <<i, "repair", 1>>
                     [] stage = "empty"  -> <<i, "reconcile", 0>>

JobAt(stage, row) ==
    CASE stage = "new"    -> [NewJob("start", Null, Null, TRUE, row) EXCEPT !.res = 0]
      [] stage = "repair" -> NewJob("start", 1, 1, TRUE, row)
      [] stage = "empty"  -> Closed(NewJob("past", Null, Null, FALSE, "none"))

NoRun == [status |-> "none", reserved |-> 0]

Init ==
    /\ \E stage \in [Items -> Stages], row \in {"none", "queued"} :
         LET key == [i \in Items |-> KeyAt(i, stage[i])] IN
         /\ \E i \in Items : stage[i] = "new"
         /\ item = [i \in Items |-> ItemAt(stage[i])]
         /\ jobs = [k \in {key[i] : i \in Items} |-> JobAt(stage[ItemOf(k)], row)]
         /\ runs = [r \in RunIds |->
              CASE r = "start" -> [status |-> "active",
                                   reserved |-> Cardinality({i \in Items : stage[i] = "repair"})]
                [] r = "past"  -> [NoRun EXCEPT !.status = "closed"]
                [] OTHER       -> NoRun]
    /\ lock = [i \in Items |-> Null]
    /\ latest = "start"
    /\ ws = "active"
    /\ lease = [c \in Companies |-> [status |-> "none", owner |-> Null]]
    /\ ag = [a \in Agents |-> Idle]
    /\ asleep = {}
    /\ faults = 0
    /\ disowned = {}
    /\ sweep = NoSweep

-----------------------------------------------------------------------------
(***************************************************************************)
(* The transport: rows of dead workers, jobs without a row.                *)
(***************************************************************************)
DeadRow(k) == jobs[k].row = Gone \/ jobs[k].row \in asleep

Reap(k) ==
    /\ DeadRow(k)
    /\ jobs' = [jobs EXCEPT ![k].row = "queued"]
    /\ UNCHANGED <<item, lock, runs, latest, ws, lease, worker, sweep>>

\* resetBackingPendingWork: not for a job whose attempts are used up.
ResetBacking(k) ==
    /\ jobs[k].status = "pending" /\ jobs[k].due
    /\ jobs[k].att < MaxAttempts(k)
    /\ jobs[k].row = "none"
    /\ jobs' = Dispatched(jobs, {k})
    /\ UNCHANGED <<item, lock, runs, latest, ws, lease, worker, sweep>>

\* Mutant: whoever holds the row, the job is handed out again.
ReclaimAny(k) ==
    /\ ws = "active"
    /\ jobs[k].status = "in_flight"
    /\ jobs' = [jobs EXCEPT ![k].status = "pending", ![k].due = TRUE,
                            ![k].row = "queued"]
    /\ UNCHANGED <<item, lock, runs, latest, ws, lease, worker, sweep>>

\* reclaimStaleLeases: a job in flight whose row is not held by a live worker.
Reclaim(k) ==
    /\ ws = "active"
    /\ jobs[k].status = "in_flight"
    /\ DeadRow(k) \/ jobs[k].row \in {"none", "queued"}
    /\ jobs' = [jobs EXCEPT ![k].status = "pending", ![k].due = TRUE,
                            ![k].row = "queued"]
    /\ UNCHANGED <<item, lock, runs, latest, ws, lease, worker, sweep>>

-----------------------------------------------------------------------------
(***************************************************************************)
(* Items nobody works on.                                                  *)
(***************************************************************************)
STRANDED_IDLE_MAP ==
    [s \in RUNNING_STATES \ {"waiting_company_research"} |->
        IF s \in {"queued_research", "researching"} THEN "failed_research"
                                                    ELSE "failed_write"]

\* Mutant: an item that ever had a job is not stranded.
StrandedJobless == {i \in Items : /\ item[i].state \in DOMAIN STRANDED_IDLE_MAP
                                 /\ \A k \in DOMAIN jobs : ItemOf(k) # i}

StrandedItems == {i \in Items : /\ item[i].state \in DOMAIN STRANDED_IDLE_MAP
                               /\ OpenJobsOf(i) = {}}

\* resetStrandedRunningItems reads the stranded items, then updates each by its
\* id alone, one that a late wake has given a job since like the others.
StrandedRead(i) ==
    /\ ws = "active" /\ sweep = NoSweep
    /\ i \in StrandedItems
    /\ sweep' = [NoSweep EXCEPT !.do = "reset", !.items = {i},
                                !.to = STRANDED_IDLE_MAP[item[i].state]]
    /\ UNCHANGED <<tables, worker>>

ResetStranded ==
    /\ sweep.do = "reset"
    /\ item' = [i \in Items |->
         IF i \in sweep.items
         THEN [item[i] EXCEPT !.state = sweep.to,
                 !.err = IF @ = "none" THEN "stranded_after_interrupt" ELSE @]
         ELSE item[i]]
    /\ sweep' = NoSweep
    /\ disowned' = disowned \cup {i \in sweep.items : OpenJobsOf(i) # {}}
    /\ UNCHANGED <<lock, jobs, runs, latest, ws, lease, ag, asleep, faults>>

\* wakeOrphanedParkedCompanyResearch, in a paused workspace too.
OrphanRead(c) ==
    /\ sweep = NoSweep
    /\ Parked(c) # {} /\ lease[c].status # "researching"
    /\ sweep' = [NoSweep EXCEPT !.do = "wake", !.found = Found(c)]
    /\ UNCHANGED <<tables, worker>>

SweepWake(p) ==
    /\ sweep.do = "wake"
    /\ \/ /\ WakeParked(p)
          /\ sweep' = IF sweep.found = {p} THEN NoSweep
                      ELSE [sweep EXCEPT !.found = @ \ {p}]
       \/ /\ ~CanMove(p[1], "queued_research")
          /\ sweep' = NoSweep
          /\ UNCHANGED <<item, jobs, runs>>
    /\ UNCHANGED <<lock, latest, ws, lease, worker>>

-----------------------------------------------------------------------------
(***************************************************************************)
(* reconcileDraftingWorkspaceQueue: items at rest are sent to research     *)
(* again, all of them in one transaction, each on its one reconcile job,   *)
(* which is revived from any end.                                          *)
(***************************************************************************)
NON_AUTO_RETRY_ERROR_CODES ==
    {"empty_research_brief", "research_provider_error", "hard_lint_after_repair"}

Enqueueable(i, mode, override) ==
    /\ item[i].state \in IdleStates
    /\ mode = "auto" => /\ item[i].state # "failed_write"
                        /\ ~ (/\ item[i].state = "failed_research"
                              /\ item[i].err \in NON_AUTO_RETRY_ERROR_CODES)
    /\ ~Quarantined(i) \/ override
    /\ OpenJobsOf(i) = {}

ReconcileKey(i) == <<i, "reconcile", 0>>

\* A revived job keeps its usage, and with it the surface it was made for.
ReconcileJob(k, r, mode, row) ==
    IF k \in DOMAIN jobs
    THEN [jobs[k] EXCEPT !.status = "pending", !.att = 0, !.due = TRUE, !.run = r]
    ELSE [NewJob(r, Null, Null, TRUE, row) EXCEPT !.manual = (mode = "human")]

\* The items the run has no budget for are put to rest as budget_paused.
QueueIdle(mode, override, among, r) ==
    LET all  == {i \in among : Enqueueable(i, mode, override)}
        room == Less(Budget, runs[r].reserved)
    IN
    /\ ws = "active"
    /\ all # {}
    /\ \E funded \in SUBSET all :
         LET keys == {ReconcileKey(i) : i \in funded}
             it   == [i \in Items |->
                       IF i \in funded THEN [item[i] EXCEPT !.state = "queued_research"]
                       ELSE IF i \in all THEN [item[i] EXCEPT !.state = "budget_paused"]
                       ELSE item[i]]
             jb   == [k \in DOMAIN jobs \cup keys |->
                       IF k \in keys THEN ReconcileJob(k, r, mode, "none") ELSE jobs[k]]
             rn   == [runs EXCEPT ![r].reserved = @ + Cardinality(funded),
                                  ![r].status = IF @ = "none" THEN "active" ELSE @]
             new  == runs[r].status = "none" /\ funded # {}
         IN
         /\ Cardinality(funded) = IF Cardinality(all) <= room THEN Cardinality(all)
                                                              ELSE room
         /\ item' = it
         /\ jobs' = Dispatched(jb, keys)
         /\ runs' = Finalized(it, jb, IF runs[r].status = "none" /\ ~new THEN runs ELSE rn)
         /\ latest' = IF new THEN r ELSE latest
    /\ UNCHANGED <<lock, ws, lease, ag, asleep, disowned, sweep>>

\* The sweeps of an hour share a run, open or closed.
SweepIdle == QueueIdle("auto", FALSE, Items, "hour") /\ UNCHANGED faults

\* A Resume asks for everything at rest, an approval for one item, quarantined
\* or not; each on a run of its own.  Bounded, one such run at a time.
UserRetry ==
    /\ faults < MaxFaults /\ runs["rescue"].status = "none"
    /\ \/ QueueIdle("human", FALSE, Items, "rescue")
       \/ \E i \in Items : QueueIdle("human", TRUE, {i}, "rescue")
    /\ faults' = faults + 1

\* The hour is over, or nobody has the key of the rescue any more: the closed
\* run is one of the past.
RunPasses(r) ==
    /\ r \in {"hour", "rescue"}
    /\ runs[r].status = "closed"
    /\ \A k \in OpenJobs : jobs[k].run # r
    /\ runs' = [runs EXCEPT ![r] = NoRun]
    /\ jobs' = [k \in DOMAIN jobs |-> IF jobs[k].run = r
                                     THEN [jobs[k] EXCEPT !.run = "past"] ELSE jobs[k]]
    /\ latest' = IF latest = r THEN "past" ELSE latest
    /\ UNCHANGED <<item, lock, ws, lease, worker, sweep>>

\* recomputeActiveRunReservations and finalizeIdleDraftingRuns.
OpenReservations(r) == Cardinality({k \in OpenJobs : jobs[k].run = r /\ jobs[k].res = 1})

Recompute ==
    /\ runs' = [r \in RunIds |-> IF runs[r].status = "active"
                                 THEN [runs[r] EXCEPT !.reserved = OpenReservations(r)]
                                 ELSE runs[r]]
    /\ runs' # runs
    /\ UNCHANGED <<item, lock, jobs, latest, ws, lease, worker, sweep>>

FinalizeIdle ==
    /\ runs' = Finalized(item, jobs, runs)
    /\ runs' # runs
    /\ UNCHANGED <<item, lock, jobs, latest, ws, lease, worker, sweep>>

-----------------------------------------------------------------------------
(***************************************************************************)
(* Time.  A lock of two minutes, a lease of fifteen and a heartbeat of ten *)
(* run out only when nobody awake renews them.                             *)
(***************************************************************************)
LockLapses(i) ==
    /\ lock[i] = Gone \/ lock[i] \in asleep
    /\ lock' = [lock EXCEPT ![i] = Null]
    /\ UNCHANGED <<item, jobs, runs, latest, ws, lease, worker, sweep>>

Renews(a, c) ==
    /\ a \notin asleep
    /\ ag[a].at \in {"provider", "yield"} /\ ag[a].own
    /\ ItemOf(ag[a].job) = lease[c].owner

LeaseLapses(c) ==
    /\ lease[c].status = "researching"
    /\ \A a \in Agents : ~Renews(a, c)
    /\ \A k \in DOMAIN jobs :
         ItemOf(k) = lease[c].owner /\ jobs[k].status = "in_flight" => jobs[k].due
    /\ lease' = [lease EXCEPT ![c].status = "closed"]
    /\ UNCHANGED <<item, lock, jobs, runs, latest, ws, worker, sweep>>

FallsSilent(k) ==
    /\ jobs[k].status = "in_flight" /\ ~jobs[k].due
    /\ \A a \in Agents : ~Beats(a, k)
    /\ lock[ItemOf(k)] # Gone /\ lock[ItemOf(k)] \notin asleep
    /\ jobs' = [jobs EXCEPT ![k].due = TRUE]
    /\ UNCHANGED <<item, lock, runs, latest, ws, lease, worker, sweep>>

ComesDue(k) ==
    /\ jobs[k].status = "pending" /\ ~jobs[k].due
    /\ jobs' = [jobs EXCEPT ![k].due = TRUE]
    /\ UNCHANGED <<item, lock, runs, latest, ws, lease, worker, sweep>>

WakeUp(a) ==
    /\ a \in asleep
    /\ asleep' = asleep \ {a}
    /\ UNCHANGED <<tables, ag, faults, disowned, sweep>>

-----------------------------------------------------------------------------
(***************************************************************************)
(* What goes wrong, each counted by the bound MaxFaults.                   *)
(***************************************************************************)
Crash(a) ==
    /\ Fault
    /\ ag[a].at # "idle"
    /\ ag' = [ag EXCEPT ![a] = Idle]
    /\ asleep' = asleep \ {a}
    /\ lock' = [i \in Items |-> IF lock[i] = a THEN Gone ELSE lock[i]]
    /\ jobs' = [k \in DOMAIN jobs |-> IF jobs[k].row = a
                                     THEN [jobs[k] EXCEPT !.row = Gone] ELSE jobs[k]]
    /\ UNCHANGED <<item, runs, latest, ws, lease, disowned, sweep>>

\* The job is finished, and the worker gone before its row is complete: who
\* takes the row again finds nothing to claim, and no follow-up has a row.
CompletionLost(a) ==
    LET k == ag[a].job IN
    /\ Fault
    /\ ag[a].at = "finish" /\ a \notin asleep
    /\ jobs' = [FinishedJobs(k) EXCEPT ![k].row = IF @ = a THEN Gone ELSE @]
    /\ runs' = FinishedRuns(k)
    /\ lock' = Unlocked(a)
    /\ ag' = [ag EXCEPT ![a] = Idle]
    /\ UNCHANGED <<item, latest, ws, lease, asleep, disowned, sweep>>

FewAtWork == Cardinality({i \in Items : item[i].state \in RUNNING_STATES}) <= MaxAtWork

Sleep(a) ==
    /\ Fault /\ FewAtWork
    /\ ag[a].at # "idle" /\ a \notin asleep
    /\ asleep' = asleep \cup {a}
    /\ disowned' = disowned \cup {i \in Items : Works(a, i)}
    /\ UNCHANGED <<tables, ag, sweep>>

\* The company's lease is 45 minutes old, and its owner still at work.
Overage(c) ==
    /\ Fault
    /\ \E a \in Agents : Renews(a, c)
    /\ lease[c].status = "researching"
    /\ lease' = [lease EXCEPT ![c].status = "closed"]
    /\ disowned' = disowned \cup {lease[c].owner}
    /\ UNCHANGED <<item, lock, jobs, runs, latest, ws, ag, asleep, sweep>>

\* pauseDraftingWorkspace: rows and jobs are cancelled and locks cleared under
\* the handlers; reservations, items and leases are left as they are.
Pause ==
    /\ Fault /\ FewAtWork
    /\ ws = "active"
    /\ ws' = "paused"
    /\ lock' = [i \in Items |-> Null]
    /\ jobs' = [k \in DOMAIN jobs |->
         [Closed(jobs[k]) EXCEPT !.row = "none"]]
    /\ disowned' = disowned \cup {i \in Items : \E a \in Agents : Works(a, i)}
    /\ UNCHANGED <<item, runs, latest, lease, ag, asleep, sweep>>

\* The rescue that follows is the sweeps', and UserRetry.
Resume ==
    /\ ws = "paused"
    /\ ws' = "active"
    /\ UNCHANGED <<item, lock, jobs, runs, latest, lease, worker, sweep>>

-----------------------------------------------------------------------------
Work(a) == (\E k \in DOMAIN jobs : Claim(a, k)) \/ Handle(a)

Handling == \E a \in Agents : Work(a) /\ UNCHANGED sweep

Transport == \E k \in DOMAIN jobs : Reap(k) \/ ResetBacking(k) \/ Reclaim(k)

Stranded == (\E i \in Items : StrandedRead(i)) \/ ResetStranded

Orphaned == (\E c \in Companies : OrphanRead(c)) \/ (\E p \in sweep.found : SweepWake(p))

Upkeep == (\E r \in RunIds : RunPasses(r)) \/ Recompute \/ FinalizeIdle

Time ==
    \/ \E i \in Items : LockLapses(i)
    \/ \E c \in Companies : LeaseLapses(c)
    \/ \E k \in DOMAIN jobs : FallsSilent(k) \/ ComesDue(k)
    \/ \E a \in Agents : WakeUp(a)

Faults ==
    \/ \E a \in Agents : Pressure(a) /\ UNCHANGED sweep
    \/ \E a \in Agents : Crash(a) \/ CompletionLost(a) \/ Sleep(a)
    \/ \E c \in Companies : Overage(c)
    \/ Pause

Next ==
    \/ Handling \/ Transport \/ Stranded \/ Orphaned \/ SweepIdle \/ Upkeep
    \/ Time \/ Faults \/ Resume \/ UserRetry

DraftingSpec == Init /\ [][Next]_vars

-----------------------------------------------------------------------------
(***************************************************************************)
(* Fairness.  A worker takes what is queued and does the next step of what *)
(* it has begun; the sweeps of system.reconcile come back every minute;    *)
(* time passes and machines wake up.  Nobody has to resume or retry.       *)
(***************************************************************************)
DraftingFairness ==
    /\ \A a \in Agents : WF_vars(Handle(a) /\ UNCHANGED sweep)
    /\ \A a \in Agents : WF_vars(WakeUp(a))
    /\ WF_vars(\E a \in Agents, k \in DOMAIN jobs : Claim(a, k) /\ UNCHANGED sweep)
    /\ WF_vars(Transport)
    /\ WF_vars(Stranded)
    /\ WF_vars(Orphaned)
    /\ WF_vars(SweepIdle)
    /\ WF_vars(Upkeep)
    /\ WF_vars(Time)

FairDraftingSpec == DraftingSpec /\ DraftingFairness

=============================================================================
