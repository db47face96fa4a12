---------------------------- MODULE DraftingStore ----------------------------
(***************************************************************************)
(* The tables of the drafting pipeline and the statements every part of it *)
(* shares: drafting_items with the state machine of lib/drafting/state.ts, *)
(* drafting_jobs with the SQL functions claim_drafting_job and             *)
(* finish_drafting_job, the reservations of drafting_runs, and the leases  *)
(* that let one item of a company research for all of them.                *)
(*                                                                         *)
(* A job is named by its idempotency key.  Its transport, the row of       *)
(* orchestration_jobs with the job's id as dedupe key, is kept as a field  *)
(* of the job.  Every amount of money is one unit; start jobs, which verify *)
(* or research nothing yet paid for, reserve none.                         *)
(*                                                                         *)
(* The inputs of an item do not change and its mailbox is valid: fingerprint *)
(* expectations always hold, revision expectations may not.                *)
(***************************************************************************)
EXTENDS Naturals, FiniteSets

CONSTANTS
    Items,        \* drafting_items of one workspace
    Companies,
    CompanyOf,    \* [Items -> Companies]: the domain of the email
    Agents,       \* handlers of drafting.job.* the workers run at a time
    Gone,         \* an owner nobody runs any more
    Null,
    Budget,       \* budget_limit_usd of every run
    MaxAtWork,    \* bound: items in the pipeline when a machine sleeps or the user pauses
    MaxFaults     \* bound: all that goes wrong, from a provider's error to a crash

ASSUME DraftingAssumption ==
    /\ IsFiniteSet(Items) /\ CompanyOf \in [Items -> Companies]
    /\ Gone \notin Agents /\ Null \notin Agents /\ Null # Gone
    /\ {"none", "queued"} \cap (Agents \cup {Gone}) = {}
    /\ Null \notin Nat
    /\ MaxAtWork \in Nat
    /\ Budget \in Nat /\ MaxFaults \in Nat

VARIABLES
    item,     \* drafting_items with their research packet and draft
    lock,     \* drafting_execution_owner of each item
    jobs,     \* drafting_jobs: a function from the keys in use
    runs,     \* drafting_runs: status and reserved_cost_usd
    latest,   \* the run of the workspace that started last
    ws,       \* drafting_workspaces.status
    lease     \* drafting_company_research_leases

tables == <<item, lock, jobs, runs, latest, ws, lease>>

-----------------------------------------------------------------------------
(***************************************************************************)
(* Types.                                                                  *)
(***************************************************************************)
IdleStates    == {"budget_paused", "failed_research", "failed_write"}
RUNNING_STATES == {"queued_research", "waiting_company_research",
                   "researching", "queued_write", "writing", "repairing"}
ItemState     == IdleStates \cup RUNNING_STATES \cup {"ready_for_review"}

ErrorCode == {"none", "stranded_after_interrupt", "research_provider_error",
              "empty_research_brief_retry", "empty_research_brief",
              "hard_lint_after_repair"}

\* rr and dr are research_revision and draft_revision; "from" is the research
\* revision of the packet the draft was written from.
Item == [state : ItemState, rr : Nat, dr : Nat, err : ErrorCode, tries : Nat,
         packet : {"none", "empty", "usable"}, from : Nat]

ResearchKinds == {"start", "reconcile", "retry", "wake"}
JobKind       == ResearchKinds \cup {"write", "repair"}

\* Idempotency keys.  A wake or write job is keyed by a research revision and a
\* repair by a draft revision; the others have one job per item.
Keys == Items \X JobKind \X Nat

OpenStatus == {"pending", "in_flight"}
\* done, failed, cancelled and superseded are one: no statement modelled here
\* asks which, nor how many attempts a closed job had.
JobStatus  == OpenStatus \cup {"closed"}

\* "start" is the run of startDraftingWorkspace, "hour" the one the sweeps of
\* the hour share, "rescue" the one of a user's rescue, "past" all closed ones
\* that nothing can come back to.
RunIds == {"start", "hour", "rescue", "past"}
Run    == [status : {"none", "active", "closed"}, reserved : Nat]

\* "row" is the job's orchestration row: none open, queued, or held.
Holder == Agents \cup {Gone}
Job == [status : JobStatus, due : BOOLEAN, att : Nat, run : RunIds, res : {0, 1},
        rr : Nat \cup {Null}, dr : Nat \cup {Null}, manual : BOOLEAN,
        row : {"none", "queued"} \cup Holder]

Lease == [status : {"none", "researching", "closed"}, owner : Items \cup {Null}]

StoreTypeOK ==
    /\ item \in [Items -> Item]
    /\ lock \in [Items -> Holder \cup {Null}]
    /\ DOMAIN jobs \subseteq Keys
    /\ \A k \in DOMAIN jobs : jobs[k] \in Job
    /\ runs \in [RunIds -> Run]
    /\ latest \in RunIds
    /\ ws \in {"active", "paused"}
    /\ lease \in [Companies -> Lease]

ItemOf(k)     == k[1]
IsResearch(k) == k[2] \in ResearchKinds
Company(k)    == CompanyOf[ItemOf(k)]

\* max_attempts: one for a repair, three for every other job.
MaxAttempts(k) == IF k[2] = "repair" THEN 1 ELSE 3

OpenJobs      == {k \in DOMAIN jobs : jobs[k].status \in OpenStatus}
OpenJobsOf(i) == {k \in OpenJobs : ItemOf(k) = i}

With(f, k, v) == [x \in DOMAIN f \cup {k} |-> IF x = k THEN v ELSE f[x]]

-----------------------------------------------------------------------------
(***************************************************************************)
(* The state machine of an item.  transitionItemState locks the row, and   *)
(* an illegal move throws out of its transaction.                          *)
(***************************************************************************)
Allowed(s, t) ==
    \/ s = "budget_paused"            /\ t = "queued_research"
    \/ s = "queued_research"          /\ t \in {"researching", "waiting_company_research"}
    \/ s = "waiting_company_research" /\ t \in {"queued_research", "researching", "failed_research"}
    \/ s = "researching"              /\ t \in {"queued_write", "waiting_company_research",
                                                "queued_research", "failed_research"}
    \/ s = "queued_write"             /\ t = "writing"
    \/ s = "writing"                  /\ t \in {"repairing", "ready_for_review", "failed_write"}
    \/ s = "repairing"                /\ t \in {"ready_for_review", "failed_write"}
    \/ s = "failed_research"          /\ t = "queued_research"
    \/ s = "failed_write"             /\ t \in {"queued_write", "ready_for_review"}

CanMove(i, t) == Allowed(item[i].state, t)

\* Items whose research came back empty twice: no automatic path takes them.
Quarantined(i) ==
    item[i].err = "empty_research_brief" /\ item[i].tries >= 2

-----------------------------------------------------------------------------
(***************************************************************************)
(* Jobs: claim, finish and defer, and queueJob with its reservation.       *)
(***************************************************************************)
Stale(k) ==
    \/ jobs[k].rr # Null /\ jobs[k].rr # item[ItemOf(k)].rr
    \/ jobs[k].dr # Null /\ jobs[k].dr # item[ItemOf(k)].dr

\* A pending job whose time has come, or one in flight whose heartbeat is more
\* than ten minutes old: "due" says either.
Claimable(k) == jobs[k].status \in OpenStatus /\ jobs[k].due

\* What claim_drafting_job closes instead of handing it out: cancelled for the
\* workspace or the run, superseded when stale, failed when out of attempts.
Refusable(k) ==
    \/ ws # "active" \/ runs[jobs[k].run].status # "active"
    \/ Stale(k)
    \/ jobs[k].att >= MaxAttempts(k)

Less(m, n) == IF m > n THEN m - n ELSE 0

Closed(job) == [job EXCEPT !.status = "closed", !.due = FALSE, !.att = 0,
                           !.rr = Null, !.dr = Null]

\* finish_drafting_job: a job that is no longer open is left as it is; the
\* reservation of one that is goes back to the run.  (A job reported done whose
\* expectations no longer hold is recorded as superseded.)
FinishedJobs(k) ==
    IF jobs[k].status \in OpenStatus THEN [jobs EXCEPT ![k] = Closed(@)] ELSE jobs

\* Mutant: the reservation goes back whatever became of the job.
FinishedRunsTwice(k) == [runs EXCEPT ![jobs[k].run].reserved = @ - jobs[k].res]

FinishedRuns(k) ==
    IF jobs[k].status \in OpenStatus
    THEN [runs EXCEPT ![jobs[k].run].reserved = Less(@, jobs[k].res)] ELSE runs

\* deferDraftingJobForRetry: the reservation and the attempts stay.
DeferredJobs(k) ==
    IF jobs[k].status = "in_flight"
    THEN [jobs EXCEPT ![k].status = "pending", ![k].due = FALSE] ELSE jobs

NewJob(r, rr, dr, due, row) ==
    [status |-> "pending", due |-> due, att |-> 0, run |-> r, res |-> 1,
     rr |-> rr, dr |-> dr, manual |-> FALSE, row |-> row]

\* queueJob, on tables the transaction may have changed already: refused when
\* the run's limit is reached, and nothing but a lookup when the key exists.
HasBudget(r)   == runs[r].reserved + 1 <= Budget
Queued(k, r)   == HasBudget(r) /\ (k \in DOMAIN jobs => jobs[k].status \in OpenStatus)
JobInserted(k, r) == HasBudget(r) /\ k \notin DOMAIN jobs

JobsAfterQueue(k, r, job) == IF JobInserted(k, r) THEN With(jobs, k, job) ELSE jobs
\* Mutant: a queued job reserves nothing.
RunsUncharged(k, r) == IF JobInserted(k, r) THEN [runs EXCEPT ![r].status = @] ELSE runs

RunsAfterQueue(k, r) ==
    IF JobInserted(k, r) THEN [runs EXCEPT ![r].reserved = @ + 1] ELSE runs

\* finalizeIdleDraftingRuns: an active run closes when it has no open job and
\* none of its jobs is of an item in the middle of the pipeline.
IdleRun(r, it, jb) ==
    \A k \in DOMAIN jb : jb[k].run = r =>
        jb[k].status \notin OpenStatus /\ it[ItemOf(k)].state \notin RUNNING_STATES

Finalized(it, jb, rn) ==
    [r \in RunIds |-> IF rn[r].status = "active" /\ IdleRun(r, it, jb)
                      THEN [rn[r] EXCEPT !.status = "closed"] ELSE rn[r]]

\* Enqueueing the transport of pending jobs: absorbed where a row is open.
Dispatched(jb, ks) ==
    [k \in DOMAIN jb |->
        IF k \in ks /\ jb[k].status = "pending" /\ jb[k].row = "none"
        THEN [jb[k] EXCEPT !.row = "queued"] ELSE jb[k]]

-----------------------------------------------------------------------------
(***************************************************************************)
(* Company research: a lease per company, reusable packets, and the wake   *)
(* of the items parked on it.                                              *)
(***************************************************************************)
Siblings(i)   == {j \in Items \ {i} : CompanyOf[j] = CompanyOf[i]}
Reusable(i)   == \E j \in Siblings(i) : item[j].packet = "usable"

\* Mutant: the upsert takes the lease whoever holds it.
LeaseFreeAlways(i) == i \in Items

LeaseFree(i)  == LET l == lease[CompanyOf[i]] IN
                 l.status # "researching" \/ l.owner = i
LeaseTaken(i) == lease' = [lease EXCEPT ![CompanyOf[i]] =
                              [status |-> "researching", owner |-> i]]

\* finishCompanyResearchLease closes the lease only for its owner of now.
LeaseFinished(i) ==
    lease' = IF lease[CompanyOf[i]].owner = i
             THEN [lease EXCEPT ![CompanyOf[i]].status = "closed"] ELSE lease

\* Mutant: the parked are found by an open job.
ParkedWithJob(c) == {j \in Items : /\ CompanyOf[j] = c /\ OpenJobsOf(j) # {}
                                   /\ item[j].state = "waiting_company_research"
                                   /\ ~Quarantined(j)}

Parked(c) == {j \in Items : /\ CompanyOf[j] = c
                            /\ item[j].state = "waiting_company_research"
                            /\ ~Quarantined(j)}

\* The parked as they are read: each with its revisions of that moment.
Sighting == Items \X Nat \X Nat
Found(c) == {<<j, item[j].rr, item[j].dr>> : j \in Parked(c)}

\* The transaction that wakes one parked item, on the run that started last
\* whatever its status.  Its job is named for, and expects, the revisions read
\* with the parked.  The dispatch that follows is best effort; a job whose
\* dispatch is lost is left to ResetBacking, as the start jobs may be.
WakeKey(p) == <<p[1], "wake", p[2]>>
WakeParked(p) ==
    LET job == NewJob(latest, p[2], p[3], TRUE, "none")
        it  == [item EXCEPT ![p[1]].state = "queued_research"]
        jb  == JobsAfterQueue(WakeKey(p), latest, job)
        ks  == IF Queued(WakeKey(p), latest) THEN {WakeKey(p)} ELSE {}
    IN  /\ CanMove(p[1], "queued_research")
        /\ item' = it
        /\ jobs' = Dispatched(jb, ks)
        /\ runs' = Finalized(it, jb, RunsAfterQueue(WakeKey(p), latest))

=============================================================================
