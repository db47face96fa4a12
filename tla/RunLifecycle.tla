----------------------------- MODULE RunLifecycle ----------------------------
(***************************************************************************)
(* An enrichment run from its start to its end: the handlers of            *)
(* upload.extract, run.process, run.prepare, run.enrich, research.company  *)
(* and run.finalize, the research jobs that runs share when they ask for   *)
(* the same company, the decision and the cancellation of the user, and    *)
(* the sweep that restarts and finalizes what was interrupted.             *)
(*                                                                         *)
(* A handler is its claim, its statements, and the completion that closes  *)
(* its row and enqueues its children in one transaction.  A barrier that   *)
(* is not met puts the row back as it was, so it is no step at all; the    *)
(* attempts it uses up are an action of their own where they run out.      *)
(***************************************************************************)
EXTENDS Naturals, Sequences, FiniteSets

CONSTANTS
    EnrichmentRuns,   \* outreach.runs, each with one uploaded file
    ResearchKeys,     \* company_research_jobs.company_key
    Wants,            \* [EnrichmentRuns -> SUBSET ResearchKeys]: whom its people work for
    AskedFirst,       \* runs with people another run has enriched before
    Handlers,         \* handler executions at a time
    Dead,             \* a row's owner that runs no more
    MaxMishaps        \* bound: crashes, lapses, errors and cancellations

ASSUME RunAssumption ==
    /\ Wants \in [EnrichmentRuns -> SUBSET ResearchKeys]
    /\ AskedFirst \subseteq EnrichmentRuns
    /\ Dead \notin Handlers /\ {"none", "pending", "closed"} \cap (Handlers \cup {Dead}) = {}
    /\ MaxMishaps \in Nat

VARIABLES
    status,       \* runs.status
    upload,       \* uploads.status of the run's file
    research,     \* company_research_jobs: state, requested_by_runs, claimed long ago
    row,          \* orchestration_jobs: none, pending, held by its owner, closed
    scope,        \* scope_key of the research rows
    hand,         \* what each handler does and has read
    cancelling,   \* runs cancelled whose rows are still to be
    recent,       \* runs with started_at, which is set at staging, less than a week ago
    mishaps,
    prepared,     \* history: runs whose companies were all asked for
    troubled      \* history: runs that were cancelled, or a handler of which threw or
                  \* lost its row

runVars == <<status, upload, research, row, scope, hand, cancelling,
             recent, mishaps, prepared, troubled>>

-----------------------------------------------------------------------------
RunStatus    == {"queued", "extracting", "awaiting_prior_enrichment", "enriching",
                 "complete", "failed", "cancelled"}
\* "read" is extracted or failed: a file that cannot be read is a result too.
UploadStatus == {"uploaded", "processing", "read", "restaged"}
ResearchState == {"none", "pending", "in_flight", "done", "failed"}
ResearchJob  == [state : ResearchState, by : Seq(EnrichmentRuns), stale : BOOLEAN]

RunKinds == {"process", "extract", "prepare", "enrich", "finalize"}
RowKeys    == (RunKinds \X EnrichmentRuns) \cup ({"research"} \X ResearchKeys)

\* markTerminalWorkFailure has no word for an upload or a company.
MarkedKinds == {"process", "prepare", "enrich", "finalize"}

HandAt == {"rest", "extract", "scan", "enqueue", "research", "finalize", "complete"}

\* todo: companies to ask for.  asked: those asked for.  active: the runs a
\* research is done for, as read after its claim.  next: rows to enqueue.
Hand == [at : HandAt, work : RowKeys \cup {<<>>}, todo : SUBSET ResearchKeys,
         asked : SUBSET ResearchKeys, active : SUBSET EnrichmentRuns, next : SUBSET RowKeys]

AtRest == [at |-> "rest", work |-> <<>>, todo |-> {}, asked |-> {}, active |-> {},
           next |-> {}]

RunTypeOK ==
    /\ status \in [EnrichmentRuns -> RunStatus]
    /\ upload \in [EnrichmentRuns -> UploadStatus]
    /\ research \in [ResearchKeys -> ResearchJob]
    /\ \A c \in ResearchKeys : research[c].state = "none" <=> research[c].by = <<>>
    /\ row \in [RowKeys -> {"none", "pending", "closed", Dead} \cup Handlers]
    /\ scope \in [ResearchKeys -> EnrichmentRuns \cup {"none"}]
    /\ hand \in [Handlers -> Hand]
    /\ cancelling \subseteq EnrichmentRuns /\ recent \subseteq EnrichmentRuns
    /\ mishaps \in 0..MaxMishaps
    /\ prepared \subseteq EnrichmentRuns /\ troubled \subseteq EnrichmentRuns

RunInit ==
    /\ status = [r \in EnrichmentRuns |-> "queued"]
    /\ upload = [r \in EnrichmentRuns |-> "uploaded"]
    /\ research = [c \in ResearchKeys |-> [state |-> "none", by |-> <<>>, stale |-> FALSE]]
    \* queueEnrichmentRun may have died before it enqueued run.process.
    /\ \E enqueued \in {{}, EnrichmentRuns} :
         row = [w \in RowKeys |-> IF w[1] = "process" /\ w[2] \in enqueued
                                THEN "pending" ELSE "none"]
    /\ scope = [c \in ResearchKeys |-> "none"]
    /\ hand = [a \in Handlers |-> AtRest]
    /\ cancelling = {} /\ recent = EnrichmentRuns
    /\ mishaps = 0 /\ prepared = {} /\ troubled = {}

-----------------------------------------------------------------------------
(***************************************************************************)
(* Rows and jobs.                                                          *)
(***************************************************************************)
OpenRow(w)  == row[w] \notin {"none", "closed"}
Requests(r) == {c \in ResearchKeys : \E n \in DOMAIN research[c].by : research[c].by[n] = r}
OpenStates  == {"pending", "in_flight"}

\* Only a revived child reopens a closed row; an open row absorbs every child.
Enqueued(rw, works, revive) ==
    [w \in RowKeys |-> IF w \in works /\ (rw[w] = "none" \/ (revive /\ rw[w] = "closed"))
                     THEN "pending" ELSE rw[w]]

\* countOpenEnrichmentWork: research by the runs that asked for it, rows by
\* their scope, and those of run.finalize left out.
ScopeRows(r) == ((RunKinds \ {"finalize"}) \X {r})
                    \cup {<<"research", c>> : c \in {d \in ResearchKeys : scope[d] = r}}
\* Mutant: open rows do not count, only research jobs do.
canFinalizeByJobs(r) == \A c \in Requests(r) : research[c].state \notin OpenStates
\* Mutant: the row of run.finalize counts too.
canFinalizeUnlessAsked(r) ==
    canFinalizeByJobs(r) /\ \A w \in ScopeRows(r) \cup {<<"finalize", r>>} : ~OpenRow(w)

canFinalizeEnrichingRun(r) ==
    /\ \A c \in Requests(r) : research[c].state \notin OpenStates
    /\ \A w \in ScopeRows(r) : ~OpenRow(w)

Picks(a, w) == hand[a] = AtRest /\ row[w] = "pending"

\* The row is taken, and closed again at once.
Skips(a, w) == Picks(a, w) /\ row' = [row EXCEPT ![w] = "closed"] /\ UNCHANGED hand

Holds(a, w, h) == row' = [row EXCEPT ![w] = a] /\ hand' = [hand EXCEPT ![a] = h]

Doing(w, at) == [AtRest EXCEPT !.at = at, !.work = w]

Mishap  == mishaps < MaxMishaps /\ mishaps' = mishaps + 1 /\ UNCHANGED recent
Smooth  == UNCHANGED <<recent, mishaps, prepared, troubled>>

\* The row goes back to the queue if it is still the handler's.
PutBack(a) == IF row[hand[a].work] = a THEN [row EXCEPT ![hand[a].work] = "pending"] ELSE row

\* The row is closed and the children enqueued in one transaction, or neither.
Complete(a) ==
    LET w    == hand[a].work
        own  == row[w] = a
        kids == {k \in hand[a].next : k[1] = "research"}
        new  == {k[2] : k \in {x \in kids : ~OpenRow(x)}}
    IN
    /\ hand[a].at = "complete"
    /\ row' = IF own
              THEN Enqueued(Enqueued([row EXCEPT ![w] = "closed"], kids, TRUE),
                            hand[a].next \ kids, FALSE)
              ELSE row
    /\ scope' = IF own THEN [c \in ResearchKeys |-> IF c \in new THEN w[2] ELSE scope[c]]
                ELSE scope
    /\ hand' = [hand EXCEPT ![a] = AtRest]
    /\ UNCHANGED <<status, upload, research, cancelling>> /\ Smooth

-----------------------------------------------------------------------------
(***************************************************************************)
(* run.process and upload.extract.                                         *)
(***************************************************************************)
Over(r) == status[r] \in {"cancelled", "complete"}

Process(a, r) ==
    LET w == <<"process", r>> IN
    /\ \/ Over(r) /\ Skips(a, w) /\ UNCHANGED status
       \/ /\ ~Over(r) /\ Picks(a, w)
          /\ status' = IF status[r] = "queued" THEN [status EXCEPT ![r] = "extracting"]
                                              ELSE status
          /\ row' = Enqueued([row EXCEPT ![w] = "closed"],
                              {<<"extract", r>>, <<"prepare", r>>}, FALSE)
          /\ UNCHANGED hand
    /\ UNCHANGED <<upload, research, scope, cancelling>> /\ Smooth

Terminal(r) == upload[r] \in {"read", "restaged"}

Extract(a, r) ==
    LET w == <<"extract", r>> IN
    /\ \/ /\ status[r] = "cancelled" \/ Terminal(r)
          /\ Skips(a, w) /\ UNCHANGED upload
       \/ /\ status[r] # "cancelled" /\ ~Terminal(r)
          /\ Picks(a, w)
          /\ upload' = [upload EXCEPT ![r] = "processing"]
          /\ Holds(a, w, Doing(w, "extract"))
    /\ UNCHANGED <<status, research, scope, cancelling>> /\ Smooth

Extracted(a) ==
    LET w == hand[a].work
        r == w[2]
    IN
    /\ hand[a].at = "extract"
    /\ IF status[r] = "cancelled" \/ upload[r] = "restaged" THEN UNCHANGED upload
       ELSE upload' = [upload EXCEPT ![r] = "read"]
    /\ row' = IF row[w] = a THEN [row EXCEPT ![w] = "closed"] ELSE row
    /\ hand' = [hand EXCEPT ![a] = AtRest]
    /\ UNCHANGED <<status, research, scope, cancelling>> /\ Smooth

-----------------------------------------------------------------------------
(***************************************************************************)
(* run.prepare and run.enrich: who is in the files, and which companies    *)
(* have to be researched for them.                                         *)
(***************************************************************************)
Prepare(a, r) ==
    LET w == <<"prepare", r>> IN
    /\ \/ Over(r) /\ Skips(a, w)
       \/ /\ ~Over(r) /\ Terminal(r)
          /\ Picks(a, w)
          /\ Holds(a, w, Doing(w, "scan"))
    /\ UNCHANGED <<status, upload, research, scope, cancelling>> /\ Smooth

\* The attempts of run.prepare end in a wait for a file that no row extracts.
PrepareGivesUp(r) ==
    /\ row[<<"prepare", r>>] = "pending" /\ ~Over(r)
    /\ ~Terminal(r) /\ row[<<"extract", r>>] = "closed"
    /\ row' = [row EXCEPT ![<<"prepare", r>>] = "closed"]
    /\ status' = [status EXCEPT ![r] = "failed"]
    /\ troubled' = troubled \cup {r}
    /\ UNCHANGED <<upload, research, scope, hand, cancelling, recent, mishaps, prepared>>

\* prepareRunEnrichment begins; what caches and preflights resolve is not asked.
Asks(a, r) ==
    \E todo \in SUBSET Wants[r] :
        hand' = [hand EXCEPT ![a].at = "enqueue", ![a].todo = todo]

\* completePriorEnrichmentScan does not look at the status it replaces.
Scanned(a) ==
    LET r == hand[a].work[2] IN
    /\ hand[a].at = "scan"
    /\ \/ /\ r \in AskedFirst
          /\ status' = [status EXCEPT ![r] = "awaiting_prior_enrichment"]
          /\ hand' = [hand EXCEPT ![a].at = "complete"]
       \/ /\ UNCHANGED status
          /\ IF status[r] \in {"awaiting_prior_enrichment", "cancelled"}
             THEN hand' = [hand EXCEPT ![a].at = "complete"]
             ELSE Asks(a, r)
    /\ UNCHANGED <<upload, research, row, scope, cancelling>> /\ Smooth

Enrich(a, r) ==
    LET w == <<"enrich", r>> IN
    /\ \/ status[r] # "enriching" /\ Skips(a, w)
       \/ /\ status[r] = "enriching" /\ Picks(a, w)
          /\ row' = [row EXCEPT ![w] = a]
          /\ \E todo \in SUBSET Wants[r] :
               hand' = [hand EXCEPT ![a] = [Doing(w, "enqueue") EXCEPT !.todo = todo]]
    /\ UNCHANGED <<status, upload, research, scope, cancelling>> /\ Smooth

\* public.enqueue adds the run to the company's job, and the update after it
\* reopens a job that failed or whose result is too old.
AskFor(a, c) ==
    LET r   == hand[a].work[2]
        job == research[c]
        by  == IF c \in Requests(r) THEN job.by ELSE Append(job.by, r)
        reopened == [state |-> "pending", by |-> by, stale |-> FALSE]
    IN
    /\ hand[a].at = "enqueue" /\ c \in hand[a].todo
    /\ \/ job.state \in {"none", "failed", "done"}
          /\ research' = [research EXCEPT ![c] = reopened]
       \/ job.state \in OpenStates \cup {"done"}
          /\ research' = [research EXCEPT ![c].by = by]
    /\ hand' = [hand EXCEPT ![a].todo = @ \ {c}, ![a].asked = @ \cup {c}]
    /\ UNCHANGED <<status, upload, row, scope, cancelling>> /\ Smooth

\* Mutant: the run goes on to enriching whatever has become of it.
AllAskedBlindly(a) ==
    LET r == hand[a].work[2] IN
    /\ hand[a].at = "enqueue" /\ hand[a].todo = {}
    /\ status' = IF hand[a].asked # {} THEN [status EXCEPT ![r] = "enriching"] ELSE status
    /\ hand' = [hand EXCEPT ![a] = [Doing(@.work, "complete") EXCEPT
                  !.next = IF hand[a].asked = {} THEN {<<"finalize", r>>}
                           ELSE {<<"research", c>> : c \in hand[a].asked}]]
    /\ prepared' = prepared \cup {r}
    /\ UNCHANGED <<upload, research, row, scope, cancelling, recent, mishaps, troubled>>

AllAsked(a) ==
    LET r == hand[a].work[2] IN
    /\ hand[a].at = "enqueue" /\ hand[a].todo = {}
    /\ status' = IF hand[a].asked # {} /\ status[r] # "cancelled"
                 THEN [status EXCEPT ![r] = "enriching"] ELSE status
    /\ hand' = [hand EXCEPT ![a] = [Doing(@.work, "complete") EXCEPT
                  !.next = IF hand[a].asked = {} THEN {<<"finalize", r>>}
                           ELSE {<<"research", c>> : c \in hand[a].asked}]]
    /\ prepared' = prepared \cup {r}
    /\ UNCHANGED <<upload, research, row, scope, cancelling, recent, mishaps, troubled>>

-----------------------------------------------------------------------------
(***************************************************************************)
(* research.company: one job for all the runs that asked for the company.  *)
(***************************************************************************)
LiveRuns(c) == {r \in EnrichmentRuns : c \in Requests(r) /\ status[r] # "cancelled"}

\* finish_research_job: the runs of the job that have no open research left.
FinishedJob(c, s) == [research EXCEPT ![c].state = s, ![c].stale = FALSE]
CompletedRuns(c) ==
    {r \in EnrichmentRuns :
        /\ c \in Requests(r)
        /\ \A d \in Requests(r) \ {c} : research[d].state \notin OpenStates}
Finalizes(c) == {"finalize"} \X CompletedRuns(c)

ResearchClaimable(c) == research[c].state = "pending"
                 \/ (research[c].state = "in_flight" /\ research[c].stale)

ResearchClaimed(a, c) ==
    LET w == <<"research", c>> IN
    /\ Picks(a, w)
    /\ ResearchClaimable(c) /\ LiveRuns(c) # {}
    /\ research' = [research EXCEPT ![c].state = "in_flight", ![c].stale = FALSE]
    /\ Holds(a, w, [Doing(w, "research") EXCEPT !.active = LiveRuns(c)])
    /\ UNCHANGED <<status, upload, scope, cancelling>> /\ Smooth

\* Nothing to research: all runs are cancelled, the job is held by a claim less
\* than ten minutes old (and then recorded as failed), it is finished, or gone.
ResearchSkipped(a, c) ==
    LET w    == <<"research", c>>
        kids == IF research[c].state = "none" THEN {} ELSE Finalizes(c)
    IN
    /\ Picks(a, w)
    /\ ~ResearchClaimable(c) \/ LiveRuns(c) = {}
    /\ research' = IF research[c].state \in OpenStates THEN FinishedJob(c, "failed")
                                                      ELSE research
    /\ row' = Enqueued([row EXCEPT ![w] = "closed"], kids, FALSE)
    /\ UNCHANGED <<status, upload, scope, hand, cancelling>> /\ Smooth

Finishes(a, s) ==
    LET c == hand[a].work[2] IN
    /\ research' = FinishedJob(c, s)
    /\ hand' = [hand EXCEPT ![a] = [Doing(@.work, "complete") EXCEPT !.next = Finalizes(c)]]
    /\ UNCHANGED row

Retries(a) == row' = PutBack(a) /\ hand' = [hand EXCEPT ![a] = AtRest]

\* A result is applied for the runs read at the claim that are not cancelled.
\* A job deleted by a cancellation throws, and the row is tried again.
Researched(a) ==
    LET c == hand[a].work[2] IN
    /\ hand[a].at = "research"
    /\ IF research[c].state = "none" THEN Retries(a) /\ UNCHANGED research
       ELSE Finishes(a, IF \A r \in hand[a].active : status[r] = "cancelled"
                        THEN "failed" ELSE "done")
    /\ UNCHANGED <<status, upload, scope, cancelling>> /\ Smooth

\* The provider fails: once more, whatever has become of the job since, or for good.
ResearchFails(a) ==
    LET c == hand[a].work[2] IN
    /\ hand[a].at = "research" /\ research[c].state # "none"
    /\ Mishap
    /\ \/ Finishes(a, "failed")
       \/ research' = FinishedJob(c, "pending") /\ Retries(a)
    /\ UNCHANGED <<status, upload, scope, cancelling, prepared, troubled>>

-----------------------------------------------------------------------------
(***************************************************************************)
(* run.finalize.  The guard is read, and much later the status written.    *)
(***************************************************************************)
Finalize(a, r) ==
    LET w == <<"finalize", r>> IN
    /\ \/ status[r] = "cancelled" /\ Skips(a, w)
       \/ /\ status[r] # "cancelled" /\ canFinalizeEnrichingRun(r)
          /\ Picks(a, w)
          /\ Holds(a, w, Doing(w, "finalize"))
    /\ UNCHANGED <<status, upload, research, scope, cancelling>> /\ Smooth

\* Five attempts two seconds apart, and the enrichment still open.
FinalizeGivesUp(r) ==
    /\ row[<<"finalize", r>>] = "pending"
    /\ status[r] # "cancelled" /\ ~canFinalizeEnrichingRun(r)
    /\ Mishap
    /\ row' = [row EXCEPT ![<<"finalize", r>>] = "closed"]
    /\ status' = [status EXCEPT ![r] = "failed"]
    /\ troubled' = troubled \cup {r}
    /\ UNCHANGED <<upload, research, scope, hand, cancelling, prepared>>

FinalizeWrites(a) ==
    LET r == hand[a].work[2] IN
    /\ hand[a].at = "finalize"
    /\ status' = IF status[r] = "cancelled" THEN status ELSE [status EXCEPT ![r] = "complete"]
    /\ hand' = [hand EXCEPT ![a].at = "complete"]
    /\ UNCHANGED <<upload, research, row, scope, cancelling>> /\ Smooth

-----------------------------------------------------------------------------
(***************************************************************************)
(* The user.                                                               *)
(***************************************************************************)
\* Mutant: the status alone.
DecideBarely(r) ==
    /\ status[r] = "awaiting_prior_enrichment"
    /\ status' = [status EXCEPT ![r] = "enriching"]
    /\ UNCHANGED <<upload, research, row, scope, hand, cancelling>> /\ Smooth

\* applyPriorEnrichmentDecision: the status and the row in one transaction.
Decide(r) ==
    /\ status[r] = "awaiting_prior_enrichment"
    /\ status' = [status EXCEPT ![r] = "enriching"]
    /\ row' = Enqueued(row, {<<"enrich", r>>}, TRUE)
    /\ UNCHANGED <<upload, research, scope, hand, cancelling>> /\ Smooth

\* cancelEnrichmentRun deletes the research jobs of the run, those it shares
\* with other runs too; cancelScope follows outside the transaction.
CancelRun(r) ==
    /\ Mishap
    /\ status[r] \in {"queued", "extracting", "enriching", "awaiting_prior_enrichment"}
    /\ status' = [status EXCEPT ![r] = "cancelled"]
    /\ research' = [c \in ResearchKeys |->
         IF c \in Requests(r) THEN [state |-> "none", by |-> <<>>, stale |-> FALSE]
                              ELSE research[c]]
    /\ upload' = [upload EXCEPT ![r] = "restaged"]
    /\ cancelling' = cancelling \cup {r}
    /\ troubled' = troubled \cup {r}
    /\ UNCHANGED <<row, scope, hand, prepared>>

CancelScope(r) ==
    /\ r \in cancelling
    /\ cancelling' = cancelling \ {r}
    /\ row' = [w \in RowKeys |->
         IF w \in ScopeRows(r) \cup {<<"finalize", r>>} /\ row[w] = "pending"
         THEN "closed" ELSE row[w]]
    /\ UNCHANGED <<status, upload, research, scope, hand>> /\ Smooth

-----------------------------------------------------------------------------
(***************************************************************************)
(* system.reconcile, once a minute.                                        *)
(***************************************************************************)
Swept == UNCHANGED <<status, upload, hand, cancelling>> /\ Smooth

ResetInFlight(c) ==
    /\ research[c].state = "in_flight" /\ research[c].stale
    /\ ~OpenRow(<<"research", c>>)
    /\ research' = FinishedJob(c, "pending")
    /\ UNCHANGED <<row, scope>> /\ Swept

\* Mutant: a closed row is not opened again.
DispatchPendingOnce(c) ==
    /\ research[c].state = "pending" /\ ~OpenRow(<<"research", c>>)
    /\ row' = Enqueued(row, {<<"research", c>>}, FALSE)
    /\ scope' = [scope EXCEPT ![c] = Head(research[c].by)]
    /\ UNCHANGED research /\ Swept

DispatchPending(c) ==
    /\ research[c].state = "pending" /\ ~OpenRow(<<"research", c>>)
    /\ row' = Enqueued(row, {<<"research", c>>}, TRUE)
    /\ scope' = [scope EXCEPT ![c] = Head(research[c].by)]
    /\ UNCHANGED research /\ Swept

FinalizeTerminal(r) ==
    /\ status[r] = "enriching" /\ canFinalizeEnrichingRun(r)
    /\ ~OpenRow(<<"finalize", r>>)
    /\ row' = Enqueued(row, {<<"finalize", r>>}, TRUE)
    /\ UNCHANGED <<research, scope>> /\ Swept

\* Only a run that was staged less than a week ago, however late it was queued.
ProcessInterrupted(r) ==
    /\ status[r] \in {"queued", "extracting"} /\ r \in recent
    /\ ~OpenRow(<<"process", r>>)
    /\ row' = Enqueued(row, {<<"process", r>>}, TRUE)
    /\ UNCHANGED <<research, scope>> /\ Swept

-----------------------------------------------------------------------------
(***************************************************************************)
(* Time, and what goes wrong, counted by MaxMishaps.                       *)
(***************************************************************************)
\* Seven days after the staging.  Only ProcessInterrupted looks, and neither at
\* a run that has gone on nor at one whose row is open.
WeekPasses(r) ==
    /\ status[r] \in {"queued", "extracting"} /\ ~OpenRow(<<"process", r>>)
    /\ recent' = recent \ {r}
    /\ UNCHANGED <<status, upload, research, row, scope, hand, cancelling, mishaps,
                   prepared, troubled>>

\* Ten minutes after a claim; a provider answers sooner.
Ages(c) ==
    /\ research[c].state = "in_flight" /\ ~research[c].stale
    /\ \A a \in Handlers : hand[a].work = <<"research", c>> => row[<<"research", c>>] # a
    /\ research' = [research EXCEPT ![c].stale = TRUE]
    /\ UNCHANGED <<row, scope>> /\ Swept

Reclaims(w) ==
    /\ row[w] = Dead
    /\ row' = [row EXCEPT ![w] = "pending"]
    /\ UNCHANGED <<research, scope>> /\ Swept

OfRun(w) == IF w[1] \in RunKinds THEN {w[2]} ELSE {}

\* A crash after the scan of run.prepare is followed by a second scan, which
\* may park a run whose research has begun or whose user has decided.
CrashHandler(a) ==
    /\ Mishap
    /\ hand[a] # AtRest
    /\ hand' = [hand EXCEPT ![a] = AtRest]
    /\ row' = IF row[hand[a].work] = a THEN [row EXCEPT ![hand[a].work] = Dead] ELSE row
    /\ troubled' = IF hand[a].work[1] = "prepare" /\ hand[a].at # "scan"
                   THEN troubled \cup OfRun(hand[a].work) ELSE troubled
    /\ UNCHANGED <<status, upload, research, scope, cancelling, prepared>>

\* The lease of a handler that still runs is over, and its row up for others.
LosesRow(a) ==
    /\ Mishap
    /\ hand[a] # AtRest /\ row[hand[a].work] = a
    /\ row' = PutBack(a)
    /\ troubled' = troubled \cup OfRun(hand[a].work)
    /\ UNCHANGED <<status, upload, research, scope, hand, cancelling, prepared>>

\* A statement throws.  There are attempts left, or failWork is followed by
\* markTerminalWorkFailure, which asks neither who owns the row nor whether
\* the run is complete.
Throws(a) ==
    LET w == hand[a].work IN
    /\ Mishap
    /\ hand[a] # AtRest
    /\ hand' = [hand EXCEPT ![a] = AtRest]
    /\ \/ row' = PutBack(a) /\ UNCHANGED status
       \/ /\ row' = IF row[w] = a THEN [row EXCEPT ![w] = "closed"] ELSE row
          /\ status' = IF w[1] \in MarkedKinds /\ status[w[2]] # "cancelled"
                       THEN [status EXCEPT ![w[2]] = "failed"] ELSE status
    /\ troubled' = troubled \cup OfRun(w)
    /\ UNCHANGED <<upload, research, scope, cancelling, prepared>>

-----------------------------------------------------------------------------
Begins(a, w) ==
    \/ \E r \in EnrichmentRuns :
         \/ w = <<"process", r>>  /\ Process(a, r)
         \/ w = <<"extract", r>>  /\ Extract(a, r)
         \/ w = <<"prepare", r>>  /\ Prepare(a, r)
         \/ w = <<"enrich", r>>   /\ Enrich(a, r)
         \/ w = <<"finalize", r>> /\ Finalize(a, r)
    \/ \E c \in ResearchKeys : w = <<"research", c>> /\ (ResearchClaimed(a, c) \/ ResearchSkipped(a, c))

Goes(a) ==
    \/ Extracted(a) \/ Scanned(a)
    \/ (\E c \in ResearchKeys : AskFor(a, c)) \/ AllAsked(a)
    \/ Researched(a) \/ FinalizeWrites(a) \/ Complete(a)

Reconcile ==
    \/ \E c \in ResearchKeys : ResetInFlight(c) \/ DispatchPending(c)
    \/ \E r \in EnrichmentRuns : FinalizeTerminal(r) \/ ProcessInterrupted(r)

RunNext ==
    \/ \E a \in Handlers, w \in RowKeys : Begins(a, w)
    \/ \E a \in Handlers : Goes(a)
    \/ \E r \in EnrichmentRuns : PrepareGivesUp(r) \/ FinalizeGivesUp(r)
    \/ \E r \in EnrichmentRuns : Decide(r) \/ CancelRun(r) \/ CancelScope(r)
    \/ Reconcile
    \/ \E r \in EnrichmentRuns : WeekPasses(r)
    \/ (\E c \in ResearchKeys : Ages(c)) \/ (\E w \in RowKeys : Reclaims(w))
    \/ \E a \in Handlers : ResearchFails(a) \/ CrashHandler(a) \/ LosesRow(a) \/ Throws(a)

RunSpec == RunInit /\ [][RunNext]_runVars

=============================================================================
