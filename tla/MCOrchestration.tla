-------------------------- MODULE MCOrchestration ---------------------------
(***************************************************************************)
(* Small instances of the queue and its workers for TLC.                   *)
(***************************************************************************)
EXTENDS OrchestrationProperties, TLC

CONSTANTS reconcile, mail,  \* a maintenance row and an ordinary one
          mail2,            \* a second one in the lane of the first
          w1, w2

TwoJobs    == {reconcile, mail}
TwoWorkers == {w1, w2}

\* system.reconcile runs in a lane of its own.
TwoLanes  == {"maintenance", "product"}
OneEach   == [l \in TwoLanes |-> 1]

\* Both jobs of one lane, of which one may run at a time.
SharedLane   == {"product"}
JobsShare    == [j \in TwoJobs |-> "product"]
SharedLimit  == [l \in SharedLane |-> 1]

\* The reconciler re-enqueues what it finds stranded.
ReconcileChildren == reconcile :> {mail} @@ mail :> {}
NoChildren == [j \in TwoJobs |-> {}]

Attempts1 == [j \in TwoJobs |-> 1]
Attempts2 == [j \in TwoJobs |-> 2]
Attempts12 == reconcile :> 1 @@ mail :> 2

Revivals0   == [j \in TwoJobs |-> 0]
Revivals011 == reconcile :> 0 @@ mail :> 1 @@ mail2 :> 1

JustMail == {mail}

ThreeJobs   == {reconcile, mail, mail2}
ThreeLanes  == reconcile :> "maintenance" @@ mail :> "product"
                 @@ mail2 :> "product"
Attempts121 == reconcile :> 1 @@ mail :> 2 @@ mail2 :> 1
ThreeChildren == reconcile :> {mail} @@ mail :> {mail2} @@ mail2 :> {}

OneJob     == {reconcile}
OneAttempt2  == [j \in OneJob |-> 2]
OneRevival   == [j \in OneJob |-> 1]
OneAlone     == [j \in OneJob |-> {}]
OneLane      == [j \in OneJob |-> "product"]

\* Sound where no worker is the fallback.
WorkersAlike == Permutations(TwoWorkers)

=============================================================================
