------------------------------ MODULE MCSourcing -------------------------------
(***************************************************************************)
(* The drafting and the enrichment pipelines and the cycle of an auto      *)
(* campaign, each under its fairness, for TLC.                             *)
(*                                                                         *)
(* A draft is written of what a run has finished or a cycle has found:     *)
(* they share no table that one would wait for another to change.  A       *)
(* behaviour is one of them, the others having nothing to do.              *)
(***************************************************************************)
EXTENDS MCPipelines, AutoCampaign

CONSTANTS c1, e1          \* a campaign and the execution of its cycle

\* The first in the list of the widened search is the one that is new in it.
LatecomerFirst == [p \in People |-> IF p = 1 THEN 1 ELSE 0]

QuotaOfOne == [c \in Campaigns |-> 1]

-----------------------------------------------------------------------------
NothingToSource ==
    /\ campaign = [c \in Campaigns |->
                      [NewCampaign EXCEPT !.auto = "paused", !.archived = TRUE, !.next = "null"]]
    /\ stored = {} /\ attached = [c \in Campaigns |-> [p \in People |-> 0]]
    /\ cycleRow = [r \in Campaigns \X Days |-> "none"]
    /\ cycle = [e \in Cycles |-> Resting]
    /\ patch = NoPatch /\ today = LastDay
    /\ failures = MaxFailures /\ edits = MaxEdits
    /\ paid = [p \in People |-> 0] /\ lost = [p \in People |-> 0]
    /\ overlapped = FALSE /\ disturbed = [c \in Campaigns |-> {}]

SourcingInit ==
    \/ PipelinesInit /\ NothingToSource
    \/ NothingToDraft /\ NothingToEnrich /\ CampaignInit

SourcingNext ==
    \/ PipelinesNext /\ UNCHANGED campaignVars
    \/ CampaignNext /\ UNCHANGED <<vars, runVars>>

FairSourcing ==
    /\ SourcingInit /\ [][SourcingNext]_<<vars, runVars, campaignVars>>
    /\ DraftingFairness /\ RunFairness /\ CampaignFairness
=============================================================================
