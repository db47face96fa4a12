------------------------------- MODULE MCWorker -------------------------------
(***************************************************************************)
(* Small instances of the queue with its workers, of the lock of a         *)
(* checkout that they are started under, and of the daily cycle of a       *)
(* campaign, for TLC.                                                      *)
(*                                                                         *)
(* They share no state: the queue knows a worker by its id and the lock by *)
(* its pid, and the cycle has the row it needs in its own module.  A       *)
(* behaviour is one of the lock or of the cycle, until none of its         *)
(* processes is at work, and then one of the queue.                        *)
(***************************************************************************)
EXTENDS MCOrchestration, WorkerLock, AutoCampaign

CONSTANTS p1, p2, p3, shell,    \* workers of a checkout and a wrapper
          c1, e1, e2            \* a campaign and the executions of its cycle

ThreePlaces == {p1, p2, p3}

\* One worker is under a wrapper, two are started by hand.
OneWrapped == p1 :> shell @@ p2 :> p2 @@ p3 :> p3

\* Workers of the queue are alike, and so are those that are started by hand.
AllAlike == WorkersAlike \cup Permutations({p2, p3})

\* A search finds the second only at first, and all when it is widened.
OneAtFirst == [p \in People |-> IF p = 2 THEN 0 ELSE 1]

QuotaOfTwo == [c \in Campaigns |-> 2]

-----------------------------------------------------------------------------
NoProcess == [p \in Places |-> [at |-> "off", life |-> MaxLives, seen |-> NoToken]]
NoWrapper == [o \in Wrappers |-> "down"]

NothingToLock == lockVars = <<Free, NoWrapper, NoProcess, FALSE>>

NoCampaign ==
    [c \in Campaigns |-> [NewCampaign EXCEPT !.auto = "paused", !.archived = TRUE, !.next = "null"]]

NothingToSource == today = LastDay /\ campaign = NoCampaign

LeaveCycles ==
    /\ campaign' = NoCampaign
    /\ stored' = {} /\ attached' = [c \in Campaigns |-> [p \in People |-> 0]]
    /\ cycleRow' = [r \in Campaigns \X Days |-> "none"]
    /\ cycle' = [e \in Cycles |-> Resting]
    /\ patch' = NoPatch /\ today' = LastDay
    /\ failures' = MaxFailures /\ edits' = MaxEdits
    /\ paid' = [p \in People |-> 0] /\ lost' = [p \in People |-> 0]
    /\ overlapped' = FALSE /\ disturbed' = [c \in Campaigns |-> {}]

\* No process is left, and none is started any more.
LeaveLock ==
    /\ \A p \in Places : ~On(p)
    /\ ~NothingToLock
    /\ lockFile' = Free /\ wrapper' = NoWrapper /\ process' = NoProcess /\ swapped' = FALSE
    /\ LeaveCycles
    /\ UNCHANGED vars

\* No cycle is under way, and none is begun any more.
LeaveCampaign ==
    /\ ~NothingToSource
    /\ \A e \in Cycles : cycle[e].at = "idle"
    /\ LeaveCycles
    /\ UNCHANGED <<vars, lockVars>>

WorkerInit ==
    /\ Init
    /\ CampaignInit
    /\ \/ LockInit
       \/ lockFile = Free /\ wrapper = NoWrapper /\ process = NoProcess /\ swapped = FALSE

WorkerNext ==
    \/ ~NothingToLock /\ LockNext /\ UNCHANGED <<vars, campaignVars>>
    \/ LeaveLock
    \/ NothingToLock /\ CampaignNext /\ UNCHANGED <<vars, lockVars>>
    \/ NothingToLock /\ LeaveCampaign
    \/ NothingToLock /\ NothingToSource /\ Next /\ UNCHANGED <<lockVars, campaignVars>>

WorkerSpec == WorkerInit /\ [][WorkerNext]_<<vars, lockVars, campaignVars>>
=============================================================================
