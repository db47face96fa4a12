---------------------------- MODULE RunProperties ----------------------------
(***************************************************************************)
(* What an enrichment run owes to its user.                                *)
(***************************************************************************)
EXTENDS RunLifecycle

\* No run is finalized before all its companies were asked for: between the
\* status that invites the sweep and the research rows it looks for there is
\* always an open row ("Campaign #9 scar", prior-enrichment.ts, handlers.ts).
\* A run that failed on the way, or lost a row, is another matter.
PreparedBeforeComplete ==
    \A r \in EnrichmentRuns \ troubled : status[r] = "complete" => r \in prepared

\* A complete run stays complete: nothing that was enqueued for it before, and
\* no other run that shares its research, opens it again or fails it.
FinishedRunStays ==
    [][\A r \in EnrichmentRuns \ troubled' :
         status[r] = "complete" => status'[r] = "complete"]_runVars

\* Every write of a run's status spares a cancelled run, but that of the scan
\* for people enriched before: only it can bring a cancelled run back.
OnlyAScanRevivesACancelledRun ==
    [][\A r \in EnrichmentRuns :
         status[r] = "cancelled" /\ status'[r] # "cancelled" =>
            \E a \in Handlers : hand[a].at = "scan" /\ hand[a].work[2] = r]_runVars

-----------------------------------------------------------------------------
\* Fairness.  Handlers go on, rows are claimed, the reconciler's queries come
\* back every minute, and leases end.  Nobody has to decide or to cancel, and
\* no week has to pass.
RunFairness ==
    /\ \A a \in Handlers : WF_runVars(Goes(a))
    /\ WF_runVars(\E a \in Handlers, r \in EnrichmentRuns : Process(a, r))
    /\ SF_runVars(\E a \in Handlers, w \in RowKeys : w[1] # "process" /\ Begins(a, w))
    /\ WF_runVars(\E r \in EnrichmentRuns : PrepareGivesUp(r))
    /\ WF_runVars(\E r \in EnrichmentRuns : ProcessInterrupted(r))
    /\ WF_runVars(\E r \in EnrichmentRuns : FinalizeTerminal(r))
    /\ WF_runVars(\E c \in ResearchKeys : ResetInFlight(c) \/ DispatchPending(c))
    /\ WF_runVars((\E c \in ResearchKeys : Ages(c)) \/ (\E w \in RowKeys : Reclaims(w)))

FairRunSpec == RunSpec /\ RunFairness

\* run.process was never enqueued, because queueEnrichmentRun died before, and
\* the sweep did not see the run before the week from its staging was over.
NeverStarted(r) ==
    status[r] = "queued" /\ row[<<"process", r>>] = "none" /\ r \notin recent

\* A run does not hang: through crashes, lost rows, research that died and
\* work of another run that was cancelled it completes, fails, is cancelled,
\* or waits for its user.  The sweep's horizon of seven days costs the one run
\* that was never started, and no run that has been.
RunEnds ==
    \A r \in EnrichmentRuns :
        status[r] \in {"queued", "extracting", "enriching"} ~>
            \/ status[r] \in {"complete", "failed", "cancelled", "awaiting_prior_enrichment"}
            \/ NeverStarted(r)

\* No company stays claimed or waiting for ever: every open research job is
\* taken again, finished or deleted.
ResearchSettles ==
    \A c \in ResearchKeys :
        research[c].state \in OpenStates ~> research[c].state \notin OpenStates

=============================================================================
