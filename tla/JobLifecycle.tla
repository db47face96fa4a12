---------------------------- MODULE JobLifecycle ----------------------------
(***************************************************************************)
(* What a caller of the queue may rely on, without workers, leases, lanes  *)
(* or heartbeats: the life of each job.  A job is started at most          *)
(* MaxAttempts times between two revivals; only what has been started      *)
(* ends in done or failed; only what is not started is cancelled; a job    *)
(* that ended stays so until it is revived.                                *)
(*                                                                         *)
(* One transaction may move several jobs: each by one of these steps.      *)
(***************************************************************************)
EXTENDS Naturals

CONSTANTS Jobs, MaxAttempts

VARIABLES status, attempt, revival

vars == <<status, attempt, revival>>

Ended == {"done", "failed", "cancelled"}

Init ==
    /\ status = [j \in Jobs |-> "absent"]
    /\ attempt = [j \in Jobs |-> 0]
    /\ revival = [j \in Jobs |-> 0]

Becomes(j, s) == status'[j] = s

Kept(j) == attempt'[j] = attempt[j] /\ revival'[j] = revival[j]

Submit(j) == status[j] = "absent" /\ Becomes(j, "pending") /\ Kept(j)

\* Also from in_flight: another worker takes over.
Start(j) ==
    /\ status[j] \in {"pending", "in_flight"}
    /\ attempt[j] < MaxAttempts[j]
    /\ Becomes(j, "in_flight")
    /\ attempt'[j] = attempt[j] + 1
    /\ revival'[j] = revival[j]

GiveBack(j) ==
    status[j] = "in_flight" /\ Becomes(j, "pending") /\ Kept(j)

End(j) ==
    /\ status[j] = "in_flight"
    /\ Becomes(j, "done") \/ Becomes(j, "failed")
    /\ Kept(j)

Cancel(j) == status[j] = "pending" /\ Becomes(j, "cancelled") /\ Kept(j)

Revive(j) ==
    /\ status[j] \in Ended
    /\ Becomes(j, "pending")
    /\ attempt'[j] = 0
    /\ revival'[j] = revival[j] + 1

Rest(j) == Becomes(j, status[j]) /\ Kept(j)

Step(j) ==
    Submit(j) \/ Start(j) \/ GiveBack(j) \/ End(j) \/ Cancel(j) \/ Revive(j)

Next ==
    /\ DOMAIN status' = Jobs /\ DOMAIN attempt' = Jobs /\ DOMAIN revival' = Jobs
    /\ \A j \in Jobs : Step(j) \/ Rest(j)

Spec == Init /\ [][Next]_vars

=============================================================================
