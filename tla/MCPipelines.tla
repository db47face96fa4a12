----------------------------- MODULE MCPipelines -----------------------------
(***************************************************************************)
(* Small instances of the drafting and the enrichment pipelines for TLC.   *)
(*                                                                         *)
(* The pipelines share workers and the queue, and no table of their own:   *)
(* a draft is written of what a run has finished.  A behaviour is one of   *)
(* either, the other having nothing to do.                                 *)
(***************************************************************************)
EXTENDS DraftingProperties, RunProperties, TLC

CONSTANTS i1, i2, a1, a2,     \* drafting items and handlers
          r1, r2, h1, h2,     \* runs and their handlers
          firm

TwoItems == {i1, i2}

\* Both items are of one company: one researches, the other waits for it.
OneCompany == [i \in TwoItems |-> "acme"]

\* Both runs ask for the same company; people of the first were enriched before.
TwoRuns  == {r1, r2}
BothWant == [r \in TwoRuns |-> {firm}]

\* Items are alike, and so are the handlers of either pipeline.
Alike == Permutations(TwoItems) \cup Permutations({a1, a2}) \cup Permutations({h1, h2})

-----------------------------------------------------------------------------
NothingToDraft ==
    /\ item = [i \in Items |-> [NewItem EXCEPT !.state = "failed_research",
                                               !.err = "research_provider_error"]]
    /\ jobs = [k \in {} |-> {}]
    /\ runs = [r \in RunIds |-> NoRun]
    /\ lock = [i \in Items |-> Null]
    /\ latest = "start" /\ ws = "active"
    /\ lease = [c \in Companies |-> [status |-> "none", owner |-> Null]]
    /\ ag = [a \in Agents |-> Idle]
    /\ asleep = {} /\ disowned = {} /\ sweep = NoSweep
    /\ faults = MaxFaults

NothingToEnrich ==
    /\ status = [r \in EnrichmentRuns |-> "complete"]
    /\ upload = [r \in EnrichmentRuns |-> "read"]
    /\ research = [c \in ResearchKeys |-> [state |-> "none", by |-> <<>>, stale |-> FALSE]]
    /\ row = [w \in RowKeys |-> "none"]
    /\ scope = [c \in ResearchKeys |-> "none"]
    /\ hand = [a \in Handlers |-> AtRest]
    /\ cancelling = {} /\ recent = EnrichmentRuns /\ mishaps = 0
    /\ prepared = EnrichmentRuns /\ troubled = {}

PipelinesInit == (Init /\ NothingToEnrich) \/ (NothingToDraft /\ RunInit)
PipelinesNext == (Next /\ UNCHANGED runVars) \/ (RunNext /\ UNCHANGED vars)

Pipelines == PipelinesInit /\ [][PipelinesNext]_<<vars, runVars>>

=============================================================================
