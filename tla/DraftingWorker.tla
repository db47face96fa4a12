---------------------------- MODULE DraftingWorker ---------------------------
(***************************************************************************)
(* The handlers of drafting.job.*: processDraftingJob of                   *)
(* lib/drafting/jobs.ts, from the claim of a job to the completion of its  *)
(* orchestration row, one action per statement or transaction.             *)
(*                                                                         *)
(* Two statements are one action where nothing an agent can do between     *)
(* them is visible to the second: the load of a job with the move into its *)
(* working state (the checks read columns that the move's own check and    *)
(* every other writer leave alone), and the finish of a job with the       *)
(* release of the item's execution lock.                                   *)
(***************************************************************************)
EXTENDS DraftingStore

VARIABLES
    ag,        \* what each handler is doing, and what it has read
    asleep,    \* handlers on a machine that is asleep: no step, no heartbeat
    faults,
    disowned   \* items an execution of which lost its claims while it ran, or
               \* that a sweep reset when a job had come to them again

worker == <<ag, asleep, faults, disowned>>

At == {"idle", "begin", "lease", "park", "provider", "yield",
       "wake", "fail", "write", "finish"}

\* job: the key in hand.  own: it holds the company's lease.  manual: the
\* surface of the empty-brief policy.  rr, dr: the revisions it has loaded,
\* for a write the revision of the packet it writes from.  wake: siblings it is
\* about to wake.  then: where it goes on after that.  next: follow-up jobs.
Activity ==
    [at : At, job : Keys \cup {Null}, own : BOOLEAN, manual : BOOLEAN,
     rr : Nat, dr : Nat, wake : SUBSET Sighting,
     then : {"finish", "fail", "provider"},
     next : SUBSET Keys]

Idle == [at |-> "idle", job |-> Null, own |-> FALSE, manual |-> FALSE,
         rr |-> 0, dr |-> 0, wake |-> {}, then |-> "finish", next |-> {}]

WorkerTypeOK ==
    /\ ag \in [Agents -> Activity]
    /\ asleep \in SUBSET Agents
    /\ faults \in 0..MaxFaults
    /\ disowned \in SUBSET Items

\* Between the claim of the item and the end of its job.
Fenced   == {"begin", "lease", "park", "provider", "yield", "wake", "fail", "finish"}
Body     == Fenced \cup {"write"}

Works(a, i) == ag[a].at \in Body /\ ItemOf(ag[a].job) = i

\* Awake with the job claimed: its heartbeats run.
Beats(a, k) == a \notin asleep /\ ag[a].at \in Body /\ ag[a].job = k

Step(a, at) == a \notin asleep /\ ag[a].at = at
Goto(a, at) == ag' = [ag EXCEPT ![a].at = at]

\* Nothing is left of what the handler has read but the jobs to follow.
Ends(a, at, next) ==
    ag' = [ag EXCEPT ![a] = [Idle EXCEPT !.at = at, !.job = ag[a].job, !.next = next]]

\* The completion of the orchestration row enqueues the follow-ups and closes
\* the row, in one transaction, if the worker still holds the row.
Completed(a, k, jb, next) ==
    /\ jobs' = IF jb[k].row = a THEN [Dispatched(jb, next) EXCEPT ![k].row = "none"]
                               ELSE jb
    /\ ag' = [ag EXCEPT ![a] = Idle]

\* A TransitionConflictError: the transaction is gone and the job superseded.
Conflict(a) == Ends(a, "finish", {})
Unlocked(a) == [i \in Items |-> IF lock[i] = a THEN Null ELSE lock[i]]

OthersUnchanged == UNCHANGED <<latest, ws, asleep, faults, disowned>>

\* Bounded: what goes wrong is counted.
Fault        == faults < MaxFaults /\ faults' = faults + 1
FaultOthers  == Fault /\ UNCHANGED <<latest, ws, asleep, disowned>>

-----------------------------------------------------------------------------
(***************************************************************************)
(* An orchestration row is taken, and the job it is for claimed.  Nothing  *)
(* is lost with a row that is given up between the two.                    *)
(***************************************************************************)
Takes(a, k)   == Step(a, "idle") /\ jobs[k].row = "queued"
JobsTaken(a, k) == [jobs EXCEPT ![k].row = a]

\* No claimable job: skipped.  If it is pending it is handed to the queue again,
\* while the row of this very execution is still open.
ClaimMiss(a, k) ==
    /\ Takes(a, k)
    /\ ~Claimable(k)
    /\ Completed(a, k, JobsTaken(a, k),
                 IF jobs[k].status = "pending" THEN {k} ELSE {})
    /\ UNCHANGED <<item, lock, runs, lease>> /\ OthersUnchanged

\* claim_drafting_job closes the job; its reservation stays on the run.
ClaimRefused(a, k) ==
    /\ Takes(a, k)
    /\ Claimable(k)
    /\ Refusable(k)
    /\ Completed(a, k, [JobsTaken(a, k) EXCEPT ![k] = Closed(@)], {})
    /\ UNCHANGED <<item, lock, runs, lease>> /\ OthersUnchanged

\* withDraftingItemExecutionFence: a research job that meets an item somebody
\* works on is finished as superseded.
ClaimBarred(a, k) ==
    /\ Takes(a, k)
    /\ Claimable(k) /\ ~Refusable(k)
    /\ IsResearch(k) /\ lock[ItemOf(k)] # Null
    /\ Completed(a, k, [JobsTaken(a, k) EXCEPT ![k] = Closed(@)], {})
    /\ runs' = FinishedRuns(k)
    /\ UNCHANGED <<item, lock, lease>> /\ OthersUnchanged

ClaimTaken(a, k) ==
    /\ Takes(a, k)
    /\ Claimable(k) /\ ~Refusable(k)
    /\ IsResearch(k) => lock[ItemOf(k)] = Null
    /\ jobs' = [JobsTaken(a, k) EXCEPT ![k].status = "in_flight", ![k].due = FALSE,
                                       ![k].att = @ + 1]
    /\ lock' = IF IsResearch(k) THEN [lock EXCEPT ![ItemOf(k)] = a] ELSE lock
    /\ ag' = [ag EXCEPT ![a] = [Idle EXCEPT !.at = "begin", !.job = k]]
    /\ UNCHANGED <<item, runs, lease>> /\ OthersUnchanged

-----------------------------------------------------------------------------
(***************************************************************************)
(* Research.                                                               *)
(***************************************************************************)
\* The job was closed or re-opened behind the claim, or its expectations are
\* gone: the handler returns without touching the item.
BeginSkipped(a) ==
    LET k == ag[a].job IN
    /\ Step(a, "begin")
    /\ jobs[k].status # "in_flight" \/ Stale(k)
    /\ IF jobs[k].status = "in_flight"
       THEN Completed(a, k, FinishedJobs(k), {}) /\ runs' = FinishedRuns(k)
       ELSE Completed(a, k, jobs, {}) /\ UNCHANGED runs
    /\ lock' = Unlocked(a)
    /\ UNCHANGED <<item, lease>> /\ OthersUnchanged

Manual(k) == jobs[k].manual /\ Quarantined(ItemOf(k))

\* Two empty briefs and no human behind the job.  The stamp is in the same
\* transaction as the move to failed_research, and gone if that is illegal.
BeginBarred(a) ==
    LET k == ag[a].job
        i == ItemOf(k)
        it == [item EXCEPT ![i].err = "empty_research_brief",
                           ![i].state = "failed_research"]
    IN
    /\ Step(a, "begin") /\ IsResearch(k)
    /\ jobs[k].status = "in_flight" /\ ~Stale(k)
    /\ item[i].tries >= 2 /\ ~Manual(k)
    /\ IF CanMove(i, "failed_research")
       THEN /\ item' = it
            /\ runs' = Finalized(it, jobs, runs)
            /\ Ends(a, "finish", {})
       ELSE Conflict(a) /\ UNCHANGED <<item, runs>>
    /\ UNCHANGED <<lock, jobs, lease>> /\ OthersUnchanged

\* The move to researching, and coordinateCompanyResearch as far as the first
\* look for a packet to reuse.  After an empty brief the research is done
\* afresh, without the company.
Begin(a) ==
    LET k == ag[a].job
        i == ItemOf(k)
    IN
    /\ Step(a, "begin") /\ IsResearch(k)
    /\ jobs[k].status = "in_flight" /\ ~Stale(k)
    /\ item[i].tries < 2 \/ Manual(k)
    /\ IF CanMove(i, "researching")
       THEN /\ item' = [item EXCEPT ![i].state = "researching"]
            /\ ag' = [ag EXCEPT ![a] =
                 [@ EXCEPT !.at = IF item[i].tries > 0 \/ Reusable(i)
                                  THEN "provider" ELSE "lease",
                           !.manual = Manual(k),
                           !.rr = item[i].rr, !.dr = item[i].dr]]
       ELSE Conflict(a) /\ UNCHANGED item
    /\ UNCHANGED <<lock, jobs, runs, lease>> /\ OthersUnchanged

\* Mutant: no second look.
ClaimLeaseBlindly(a) ==
    LET i == ItemOf(ag[a].job) IN
    /\ Step(a, "lease")
    /\ IF LeaseFree(i)
       THEN /\ LeaseTaken(i)
            /\ ag' = [ag EXCEPT ![a].own = TRUE, ![a].then = "provider",
                                ![a].at = "provider"]
       ELSE UNCHANGED lease /\ Goto(a, "park")
    /\ UNCHANGED <<item, lock, jobs, runs>> /\ OthersUnchanged

\* The lease, and under it a second look for a packet; or a wait.
ClaimLease(a) ==
    LET i == ItemOf(ag[a].job) IN
    /\ Step(a, "lease")
    /\ IF LeaseFree(i)
       THEN /\ LeaseTaken(i)
            /\ ag' = [ag EXCEPT ![a].own = TRUE, ![a].then = "provider",
                                ![a].at = IF Reusable(i) THEN "yield" ELSE "provider"]
       ELSE UNCHANGED lease /\ Goto(a, "park")
    /\ UNCHANGED <<item, lock, jobs, runs>> /\ OthersUnchanged

\* The owner may have finished, and woken who was parked, since the lease was
\* found taken.  A conflict here is caught as a failed research.
Park(a) ==
    LET i  == ItemOf(ag[a].job)
        it == [item EXCEPT ![i].state = "waiting_company_research"]
    IN
    /\ Step(a, "park")
    /\ IF CanMove(i, "waiting_company_research")
       THEN /\ item' = it
            /\ runs' = Finalized(it, jobs, runs)
            /\ Ends(a, "finish", {})
       ELSE Ends(a, "fail", {}) /\ UNCHANGED <<item, runs>>
    /\ UNCHANGED <<lock, jobs, lease>> /\ OthersUnchanged

\* An owner hands the company's lease back first.
AfterSave(a, next) ==
    ag' = [ag EXCEPT ![a] =
        [Idle EXCEPT !.at = IF ag[a].own THEN "yield" ELSE "finish",
                     !.job = ag[a].job, !.own = ag[a].own, !.next = next]]

PacketSaved(i) ==
    [item[i] EXCEPT !.rr = @ + 1, !.packet = "usable", !.state = "queued_write",
                    !.err = IF @ \in {"empty_research_brief", "empty_research_brief_retry"}
                            THEN "none" ELSE @]

\* The transaction that saves a packet and queues the write.  Without budget
\* for the write the item should pause, which its state machine forbids.
ResearchUsable(a) ==
    LET k   == ag[a].job
        i   == ItemOf(k)
        r   == jobs[k].run
        w   == <<i, "write", ag[a].rr + 1>>
        jb  == JobsAfterQueue(w, r, NewJob(r, ag[a].rr + 1, ag[a].dr, TRUE, "none"))
        it  == [item EXCEPT ![i] = PacketSaved(i)]
    IN
    /\ Step(a, "provider")
    /\ IF Queued(w, r) /\ CanMove(i, "queued_write")
       THEN /\ item' = it /\ jobs' = jb
            /\ runs' = Finalized(it, jb, RunsAfterQueue(w, r))
            /\ AfterSave(a, {w})
       ELSE Conflict(a) /\ UNCHANGED <<item, jobs, runs>>
    /\ UNCHANGED <<lock, lease>> /\ OthersUnchanged

FoundEmpty(i, to, again) ==
    [item[i] EXCEPT !.rr = @ + 1, !.packet = "empty", !.tries = @ + 1, !.state = to,
                    !.err = IF again THEN "empty_research_brief_retry"
                                     ELSE "empty_research_brief"]

\* No usable fact: one more research in five seconds, or quarantine.
ResearchEmpty(a) ==
    LET k     == ag[a].job
        i     == ItemOf(k)
        r     == jobs[k].run
        q     == <<i, "retry", 0>>
        again == ~ag[a].manual /\ item[i].tries + 1 < 2
        queue == again /\ Queued(q, r)
        jb    == IF again
                 THEN JobsAfterQueue(q, r, NewJob(r, ag[a].rr + 1, ag[a].dr, FALSE, "none"))
                 ELSE jobs
        to    == IF queue THEN "queued_research" ELSE "failed_research"
        it    == [item EXCEPT ![i] = FoundEmpty(i, to, again)]
    IN
    /\ Step(a, "provider")
    /\ IF CanMove(i, to)
       THEN /\ item' = it /\ jobs' = jb
            /\ runs' = Finalized(it, jb, IF again THEN RunsAfterQueue(q, r) ELSE runs)
            /\ AfterSave(a, IF queue THEN {q} ELSE {})
       ELSE Conflict(a) /\ UNCHANGED <<item, jobs, runs>>
    /\ UNCHANGED <<lock, lease>> /\ FaultOthers

ResearchError(a) ==
    /\ Step(a, "provider")
    /\ ag' = [ag EXCEPT ![a].at = IF ag[a].own THEN "yield" ELSE "fail",
                        ![a].then = "fail"]
    /\ UNCHANGED tables /\ UNCHANGED <<asleep, disowned>> /\ Fault

\* A provider under pressure: the job goes back to pending with its
\* reservation, the item stays where it is and the lease runs out by itself.
\* The handler asks for the job to be enqueued again in its own completion.
Pressure(a) ==
    LET k == ag[a].job IN
    /\ a \notin asleep /\ ag[a].at \in {"provider", "write"}
    /\ Fault
    /\ Completed(a, k, DeferredJobs(k), {k})
    /\ lock' = Unlocked(a)
    /\ UNCHANGED <<item, runs, latest, ws, lease, asleep, disowned>>

Fail(a) ==
    LET i  == ItemOf(ag[a].job)
        it == [item EXCEPT ![i].err = "research_provider_error",
                           ![i].state = "failed_research"]
    IN
    /\ Step(a, "fail")
    /\ IF CanMove(i, "failed_research")
       THEN /\ item' = it
            /\ runs' = Finalized(it, jobs, runs)
            /\ Ends(a, "finish", {})
       ELSE Conflict(a) /\ UNCHANGED <<item, runs>>
    /\ UNCHANGED <<lock, jobs, lease>> /\ OthersUnchanged

\* finishCompanyResearchLease, and the wake of whom it finds parked.
Yield(a) ==
    LET i == ItemOf(ag[a].job)
        p == Found(CompanyOf[i])
    IN
    /\ Step(a, "yield")
    /\ LeaseFinished(i)
    /\ ag' = [ag EXCEPT ![a].own = FALSE, ![a].wake = p,
                        ![a].at = IF p = {} THEN ag[a].then ELSE "wake"]
    /\ UNCHANGED <<item, lock, jobs, runs>> /\ OthersUnchanged

\* Somebody else may have woken the sibling since: the conflict then ends the
\* job of the one that came to wake it.
Wake(a, p) ==
    /\ Step(a, "wake")
    /\ \/ /\ WakeParked(p)
          /\ ag' = [ag EXCEPT ![a].wake = @ \ {p},
                  ![a].at = IF ag[a].wake = {p} THEN ag[a].then ELSE "wake"]
       \/ /\ ~CanMove(p[1], "queued_research")
          /\ IF ag[a].then = "provider" THEN Ends(a, "fail", {}) ELSE Conflict(a)
          /\ UNCHANGED <<item, jobs, runs>>
    /\ UNCHANGED <<lock, lease>> /\ OthersUnchanged

-----------------------------------------------------------------------------
(***************************************************************************)
(* Writing and repairing.  There is no lock here: a write or repair is     *)
(* exclusive by the claim of its job alone.                                *)
(***************************************************************************)
BeginWrite(a) ==
    LET k  == ag[a].job
        i  == ItemOf(k)
        to == IF k[2] = "repair" THEN "repairing" ELSE "writing"
    IN
    /\ Step(a, "begin") /\ ~IsResearch(k)
    /\ jobs[k].status = "in_flight" /\ ~Stale(k)
    /\ IF item[i].state = to \/ CanMove(i, to)
       THEN /\ item' = [item EXCEPT ![i].state = to]
            /\ ag' = [ag EXCEPT ![a].at = "write", ![a].rr = item[i].rr,
                                ![a].dr = item[i].dr]
       ELSE Conflict(a) /\ UNCHANGED item
    /\ UNCHANGED <<lock, jobs, runs, lease>> /\ OthersUnchanged

\* Mutant: the draft is filed under the revision of the last draft.
DraftedAstray(a, i, to) == [item[i] EXCEPT !.dr = @ + 1, !.from = ag[a].dr, !.state = to]

Drafted(a, i, to)   == [item[i] EXCEPT !.dr = @ + 1, !.from = ag[a].rr, !.state = to]
WithDraft(a, i, to) == [item EXCEPT ![i] = Drafted(a, i, to)]

\* A draft without findings, or with findings left to the reviewer's judgment.
DraftReady(a) ==
    LET i  == ItemOf(ag[a].job)
        it == WithDraft(a, i, "ready_for_review")
    IN
    /\ Step(a, "write")
    /\ IF CanMove(i, "ready_for_review")
       THEN /\ item' = it
            /\ runs' = Finalized(it, jobs, runs)
            /\ Ends(a, "finish", {})
       ELSE Conflict(a) /\ UNCHANGED <<item, runs>>
    /\ UNCHANGED <<lock, jobs, lease>> /\ OthersUnchanged

\* Mechanical findings in a first draft: one repair is queued, if the run can
\* pay for it.
DraftToRepair(a) ==
    LET k  == ag[a].job
        i  == ItemOf(k)
        r  == jobs[k].run
        q  == <<i, "repair", ag[a].dr + 1>>
    IN
    /\ Step(a, "write") /\ k[2] = "write"
    /\ IF CanMove(i, "repairing")
       THEN /\ item' = WithDraft(a, i, "repairing")
            /\ jobs' = JobsAfterQueue(q, r, NewJob(r, ag[a].rr, ag[a].dr + 1, TRUE, "none"))
            /\ runs' = RunsAfterQueue(q, r)
            /\ Ends(a, "finish", IF Queued(q, r) THEN {q} ELSE {})
       ELSE Conflict(a) /\ UNCHANGED <<item, jobs, runs>>
    /\ UNCHANGED <<lock, lease>> /\ FaultOthers

\* Hard findings are left after the repair.
DraftRejected(a) ==
    LET k  == ag[a].job
        i  == ItemOf(k)
        it == [WithDraft(a, i, "failed_write") EXCEPT ![i].err = "hard_lint_after_repair"]
    IN
    /\ Step(a, "write") /\ k[2] = "repair"
    /\ IF CanMove(i, "failed_write")
       THEN /\ item' = it
            /\ runs' = Finalized(it, jobs, runs)
            /\ Ends(a, "finish", {})
       ELSE Conflict(a) /\ UNCHANGED <<item, runs>>
    /\ UNCHANGED <<lock, jobs, lease>> /\ FaultOthers

WriteError(a) ==
    LET i  == ItemOf(ag[a].job)
        it == [item EXCEPT ![i].state = "failed_write"]
    IN
    /\ Step(a, "write")
    /\ IF CanMove(i, "failed_write")
       THEN /\ item' = it
            /\ runs' = Finalized(it, jobs, runs)
            /\ Ends(a, "finish", {})
       ELSE Conflict(a) /\ UNCHANGED <<item, runs>>
    /\ UNCHANGED <<lock, jobs, lease>> /\ FaultOthers

-----------------------------------------------------------------------------
(***************************************************************************)
(* The end of a handler.                                                   *)
(***************************************************************************)
Finish(a) ==
    LET k == ag[a].job IN
    /\ Step(a, "finish")
    /\ Completed(a, k, FinishedJobs(k), ag[a].next)
    /\ runs' = FinishedRuns(k)
    /\ lock' = Unlocked(a)
    /\ UNCHANGED <<item, lease>> /\ OthersUnchanged

Research(a) ==
    \/ BeginBarred(a) \/ Begin(a) \/ ClaimLease(a) \/ Park(a)
    \/ ResearchUsable(a) \/ ResearchEmpty(a) \/ ResearchError(a)
    \/ Fail(a) \/ Yield(a) \/ \E p \in ag[a].wake : Wake(a, p)

Write(a) ==
    \/ BeginWrite(a) \/ DraftReady(a) \/ DraftToRepair(a)
    \/ DraftRejected(a) \/ WriteError(a)

Claim(a, k) ==
    ClaimMiss(a, k) \/ ClaimRefused(a, k) \/ ClaimBarred(a, k) \/ ClaimTaken(a, k)

Handle(a) ==
    \/ BeginSkipped(a)
    \/ Research(a) \/ Write(a)
    \/ Finish(a)

=============================================================================
