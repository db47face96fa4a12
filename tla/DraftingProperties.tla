-------------------------- MODULE DraftingProperties -------------------------
(***************************************************************************)
(* What the drafting pipeline owes to its items, and to whoever pays for   *)
(* their research.                                                         *)
(***************************************************************************)
EXTENDS DraftingRecovery

\* a is in the middle of an execution for item i, past the claim of its job
\* and before its end.
Executes(a, i) ==
    /\ ag[a].at \in {"lease", "park", "provider", "fail", "write"}
    /\ ItemOf(ag[a].job) = i

\* An item has one execution at a time, a research, a write or a repair,
\* however many jobs of it are open and through crashes, sweeps that hand its
\* jobs out again and humans who retry it.  Only an execution that lost its
\* claims while it ran (to a sleeping machine or a pause), or whose item a
\* sweep took for stranded, may meet another.
OneExecutionPerItem ==
    \A i \in Items \ disowned : \A a, b \in Agents :
        Executes(a, i) /\ Executes(b, i) => a = b

Researches(a, c) == ag[a].at = "provider" /\ ag[a].own /\ Company(ag[a].job) = c

\* coordinateCompanyResearch promises one research of a company at a time:
\* the others wait, whatever items and jobs they come from.
SingleFlight ==
    \A c \in Companies : (\A i \in disowned : CompanyOf[i] # c) =>
        \A a, b \in Agents : Researches(a, c) /\ Researches(b, c) => a = b

\* A company that was never researched is paid for once: between an item's first look
\* for a packet and its lease another may have saved one.  Another packet is paid for
\* when the first was empty, or when the item that has one is researched again.
PacketIsReused ==
    disowned = {} => \A a \in Agents : ag[a].at = "provider" /\ ag[a].own =>
        LET i == ItemOf(ag[a].job) IN
        \/ item[i].packet # "none"
        \/ \E j \in Siblings(i) : item[j].tries > 0
        \/ ~Reusable(i)

\* The money an open job may still spend is reserved on its run, through
\* refused claims, deferrals, revivals, late finishes and recomputations.
ReservationsCoverOpenJobs ==
    \A r \in RunIds : runs[r].status = "active" => runs[r].reserved >= OpenReservations(r)

\* A draft a person is asked to review, or a model to write or repair, rests on the
\* research its item has now: the packet is usable, and the revision the writer has read
\* is the one the item still has.  No research ends while a draft is being written from
\* the one before it, in whatever order jobs are deferred, handed out again and revived.
DraftsRestOnTheirResearch ==
    \A i \in Items \ disowned :
        /\ item[i].state = "ready_for_review" =>
              item[i].packet = "usable" /\ item[i].from = item[i].rr
        /\ \A a \in Agents : ag[a].at = "write" /\ ItemOf(ag[a].job) = i =>
              item[i].packet = "usable" /\ ag[a].rr = item[i].rr

-----------------------------------------------------------------------------
\* A job deferred for provider pressure on its last attempt is pending and
\* nothing enqueues it again: claims and sweeps both ask for attempts left.
DeferredOut(i) ==
    \E k \in OpenJobsOf(i) : /\ jobs[k].att >= MaxAttempts(k)
                             /\ jobs[k].status = "pending" /\ jobs[k].row = "none"

\* No item stays in the pipeline for ever.  Lost transport, a dead or sleeping
\* handler, a company's lease whose owner is gone and a job that was cancelled
\* or superseded under its item all end with the item at rest, unless a human
\* paused the workspace or its job is deferred out.
ItemEnds ==
    \A i \in Items :
        <>[](item[i].state \notin RUNNING_STATES \/ ws = "paused" \/ DeferredOut(i))

\* The company's lease is a wait and not a deadlock: an item parked on it
\* leaves the parking.
ParkedItemIsWoken ==
    \A i \in Items :
        item[i].state = "waiting_company_research" ~>
            item[i].state # "waiting_company_research" \/ ws = "paused"

=============================================================================
