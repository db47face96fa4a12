------------------------- MODULE OrchestrationProofs ------------------------
(***************************************************************************)
(* For every set of jobs, workers and lanes and every value of the         *)
(* limits: the types, the coherence of leases, the attempt budget, that    *)
(* one claim gives one execution, and that the queue implements the        *)
(* lifecycle of JobLifecycle.                                              *)
(*                                                                         *)
(* The argument has two halves.  Each statement keeps the rows sound and   *)
(* moves each row by one RowStep.  Each step of the processes then either  *)
(* leaves Executions as large as it was or adds one claim, newer than all  *)
(* the others of its job.                                                  *)
(*                                                                         *)
(* The last part is about the custody of a job: live leases are respected, *)
(* and what leases promise of the bodies that run.                         *)
(***************************************************************************)
EXTENDS OrchestrationProperties, FiniteSetTheorems, TLAPS

Rows == job \in [Jobs -> Row]

RowsBounded == \A j \in Jobs : job[j].attempt <= MaxAttempts[j]

RowsSound == Rows /\ LeaseCoherent /\ RowsBounded

\* What a statement may do to the lifecycle fields of one row.
RowStep(j) ==
    LET r == job[j]
        s == job'[j]
        kept == s.attempt = r.attempt /\ s.revival = r.revival
    IN  \/ s.status = r.status /\ kept
        \/ r.status = "absent" /\ s.status = "pending" /\ kept
        \/ /\ r.status \in {"pending", "in_flight"} /\ s.status = "in_flight"
           /\ r.attempt < MaxAttempts[j] /\ s.attempt = r.attempt + 1
           /\ s.revival = r.revival
        \/ /\ r.status = "in_flight"
           /\ s.status \in {"pending", "done", "failed"} /\ kept
        \/ r.status = "pending" /\ s.status = "cancelled" /\ kept
        \/ /\ r.status \in Terminal /\ s.status = "pending"
           /\ s.attempt = 0 /\ s.revival = r.revival + 1

RowSteps == \A j \in Jobs : RowStep(j)

-----------------------------------------------------------------------------
\* The rows each statement writes.

LEMMA RowIsSound ==
    ASSUME NEW j \in Jobs, RowsSound
    PROVE  /\ job[j] \in Row
           /\ job[j].attempt <= MaxAttempts[j]
           /\ job[j].status = "in_flight" <=> job[j].owner # NoWorker
           /\ job[j].live => job[j].status = "in_flight"
           /\ job[j].status = "absent" => job[j].attempt = 0
BY DEF RowsSound, Rows, RowsBounded, LeaseCoherent, InFlight

\* A row that changes as RowStep allows and keeps its lease coherent.
RowFine(j) ==
    /\ job'[j] \in Row
    /\ job'[j].attempt <= MaxAttempts[j]
    /\ job'[j].status = "in_flight" <=> job'[j].owner # NoWorker
    /\ job'[j].live => job'[j].status = "in_flight"
    /\ job'[j].status = "absent" => job'[j].attempt = 0
    /\ RowStep(j)

LEMMA RowsFine ==
    ASSUME job' = [j \in Jobs |-> job'[j]], \A j \in Jobs : RowFine(j)
    PROVE  RowsSound' /\ RowSteps
BY DEF RowsSound, Rows, RowsBounded, LeaseCoherent, InFlight, RowFine, RowSteps

LEMMA UnchangedIsFine ==
    ASSUME NEW j \in Jobs, RowsSound, job'[j] = job[j]
    PROVE  RowFine(j)
BY RowIsSound DEF RowFine, RowStep

LEMMA UnleasedIsFine ==
    ASSUME NEW j \in Jobs, RowsSound, NEW s, NEW ready \in BOOLEAN,
           job'[j] = [Unleased(job[j], s) EXCEPT !.ready = ready],
           \/ job[j].status = "in_flight" /\ s \in {"pending", "done", "failed"}
           \/ job[j].status = "pending" /\ s = "cancelled"
    PROVE  RowFine(j)
<1>1. job[j] \in Row
  BY RowIsSound
<1>2. job'[j] = [job[j] EXCEPT !.status = s, !.owner = NoWorker,
                               !.live = FALSE, !.ready = ready]
  BY <1>1 DEF Unleased, Row
<1>3. s \in Status
  BY DEF Status, Open, Terminal
<1>4. job'[j] \in Row
  BY <1>1, <1>2, <1>3 DEF Row
<1> QED
  BY <1>1, <1>2, <1>4, RowIsSound DEF RowFine, RowStep, Row

\* What Unleased alone writes, ready being kept.
LEMMA UnleasedKeepsReady ==
    ASSUME NEW j \in Jobs, RowsSound, NEW s
    PROVE  /\ job[j].ready \in BOOLEAN
           /\ Unleased(job[j], s) =
                 [Unleased(job[j], s) EXCEPT !.ready = job[j].ready]
BY RowIsSound DEF Unleased, Row

LEMMA PlainUnleasedIsFine ==
    ASSUME NEW j \in Jobs, RowsSound, NEW s,
           job'[j] = Unleased(job[j], s),
           \/ job[j].status = "in_flight" /\ s \in {"pending", "done", "failed"}
           \/ job[j].status = "pending" /\ s = "cancelled"
    PROVE  RowFine(j)
BY UnleasedKeepsReady, UnleasedIsFine

LEMMA ReadyIsFine ==
    ASSUME NEW j \in Jobs, RowsSound, NEW ready \in BOOLEAN,
           job'[j] = [job[j] EXCEPT !.ready = ready]
    PROVE  RowFine(j)
BY RowIsSound DEF RowFine, RowStep, Row

LEMMA LiveIsFine ==
    ASSUME NEW j \in Jobs, RowsSound, NEW live \in BOOLEAN,
           job[j].status = "in_flight",
           job'[j] = [job[j] EXCEPT !.live = live]
    PROVE  RowFine(j)
BY RowIsSound DEF RowFine, RowStep, Row

LEMMA EnqueuedIsFine ==
    ASSUME NEW j \in Jobs, RowsSound, NEW rt \in BOOLEAN, NEW ready \in BOOLEAN,
           job'[j] = Enqueued(j, rt, ready)
    PROVE  RowFine(j)
<1> USE QueueAssumption
<1>1. job[j] \in Row /\ job[j].attempt <= MaxAttempts[j]
  BY RowIsSound
<1>2. CASE job[j].status = "absent"
  <2>1. job'[j] = [job[j] EXCEPT !.status = "pending", !.ready = ready]
    BY <1>2 DEF Enqueued, Revives, Terminal
  <2> QED
    BY <1>1, <1>2, <2>1, RowIsSound
       DEF RowFine, RowStep, Row, Status, Open, Terminal
<1>3. CASE Revives(j, rt)
  <2>1. job[j].status \in Terminal /\ job[j].status # "absent"
    BY <1>3 DEF Revives, Terminal
  <2>2. job'[j] = [Unleased(job[j], "pending") EXCEPT
                     !.attempt = 0, !.ready = ready, !.revival = @ + 1]
    BY <1>3, <2>1 DEF Enqueued
  <2>3. job'[j] = [job[j] EXCEPT !.status = "pending", !.owner = NoWorker,
                     !.live = FALSE, !.attempt = 0, !.ready = ready,
                     !.revival = job[j].revival + 1]
    BY <1>1, <2>2 DEF Unleased, Row
  <2>. /\ job[j].revival + 1 \in Nat
       /\ "pending" \in Status
    BY <1>1 DEF Row, Status, Open
  <2>4. job'[j] \in Row
    <3>1. job'[j] = [status |-> "pending", attempt |-> 0,
                     owner |-> NoWorker, live |-> FALSE, ready |-> ready,
                     revival |-> job[j].revival + 1]
      BY <1>1, <2>3 DEF Row
    <3> QED
      BY <3>1 DEF Row
  <2>5. 0 <= MaxAttempts[j]
    OBVIOUS
  <2> QED
    BY <1>1, <2>1, <2>3, <2>4, <2>5, RowIsSound DEF RowFine, RowStep, Row
<1>4. CASE job[j].status # "absent" /\ ~Revives(j, rt)
  <2>1. job'[j] = job[j]
    BY <1>4 DEF Enqueued
  <2> QED
    BY <2>1, UnchangedIsFine
<1> QED
  BY <1>2, <1>3, <1>4

LEMMA ClaimedIsFine ==
    ASSUME NEW j \in Jobs, NEW w \in Workers, RowsSound,
           Claimable(j), job'[j] = Claimed(job[j], w)
    PROVE  RowFine(j)
<1> USE QueueAssumption
<1>1. job[j] \in Row /\ job[j].attempt <= MaxAttempts[j]
  BY RowIsSound
<1>2. job[j].attempt < MaxAttempts[j]
  BY <1>1 DEF Claimable, Exhausted, Row
<1>3. job[j].status \in {"pending", "in_flight"}
  BY DEF Claimable, DeadLease, InFlight
<1>4. job'[j] = [job[j] EXCEPT !.status = "in_flight",
                   !.attempt = job[j].attempt + 1, !.owner = w, !.live = TRUE]
  BY <1>1 DEF Claimed, Row
<1>. /\ job[j].attempt + 1 \in Nat
     /\ "in_flight" \in Status
  BY <1>1 DEF Row, Status, Open
<1>5. job'[j] \in Row
  BY <1>1, <1>4 DEF Row
<1> QED
  BY <1>1, <1>2, <1>3, <1>4, <1>5, RowIsSound DEF RowFine, RowStep, Row

-----------------------------------------------------------------------------
\* The statements.

QueueInv == QueueTypeOK /\ LeaseCoherent /\ RowsBounded

QueueStatement ==
    \/ \E js \in SUBSET Jobs, rt, ready \in BOOLEAN : EnqueueWork(js, rt, ready)
    \/ \E w \in Workers, j \in Jobs : ClaimWork(w, j)
    \/ \E l \in Lanes : ClaimNothing(l)
    \/ \E w \in Workers, j \in Jobs : HeartbeatWork(w, j)
    \/ \E w \in Workers, j \in Jobs, ks \in SUBSET Jobs, rt, ready \in BOOLEAN :
          CompleteWork(w, j, ks, rt, ready)
    \/ \E w \in Workers, j \in Jobs : RetryWork(w, j)
    \/ \E w \in Workers, j \in Jobs : FailWork(w, j)
    \/ \E js \in SUBSET Jobs : CancelWork(js)
    \/ \E j \in Jobs, ready \in BOOLEAN : ReschedulePendingWork(j, ready)
    \/ \E w \in Workers : ReleaseOwnedInFlightOnStartup(w)
    \/ \E js \in SUBSET Jobs : ReclaimExpiredOrchestrationLeases(js)
    \/ \E w \in Workers : RegisterWorker(w)
    \/ \E w \in Workers : HeartbeatWorker(w)
    \/ \E w \in Workers : UnregisterWorker(w)
    \/ \E ws \in SUBSET Workers : GarbageCollectStaleWorkers(ws)
    \/ \E l \in Lanes : SetLanePaused(l)
    \/ \E j \in Jobs : BecomesReady(j)
    \/ \E j \in Jobs : LeaseExpires(j)
    \/ \E w \in Workers : GoesStale(w)
    \/ UNCHANGED queueVars

\* What each of them must establish.
StatementFine ==
    /\ job' = [j \in Jobs |-> job'[j]]
    /\ \A j \in Jobs : RowFine(j)
    /\ registry' \in [Workers -> {"absent", "fresh", "stale"}]
    /\ paused' \in SUBSET Lanes

\* A statement that updates only one row.
LEMMA OneRowChanges ==
    ASSUME RowsSound, NEW j \in Jobs, NEW r,
           job' = [job EXCEPT ![j] = r], job'[j] = r => RowFine(j)
    PROVE  /\ job' = [k \in Jobs |-> job'[k]]
           /\ \A k \in Jobs : RowFine(k)
<1>1. Rows
  BY DEF RowsSound
<1>2. job'[j] = r /\ \A k \in Jobs \ {j} : job'[k] = job[k]
  BY <1>1 DEF Rows
<1>3. \A k \in Jobs \ {j} : RowFine(k)
  BY <1>2, UnchangedIsFine
<1> QED
  BY <1>1, <1>2, <1>3 DEF Rows

\* Every statement leaves every row sound and on its lifecycle.
LEMMA QueueStatementIsSound ==
    ASSUME QueueInv, QueueStatement
    PROVE  QueueInv' /\ RowSteps
<1>1. RowsSound
  BY DEF QueueInv, QueueTypeOK, RowsSound, Rows
<1>2. \A w \in Workers : w # NoWorker
  BY QueueAssumption
<1>3. /\ Rows
      /\ registry \in [Workers -> {"absent", "fresh", "stale"}]
      /\ paused \in SUBSET Lanes
  BY DEF QueueInv, QueueTypeOK, Rows
<1>4. SUFFICES StatementFine
  BY RowsFine DEF QueueInv, QueueTypeOK, RowsSound, Rows, StatementFine
<1> USE DEF StatementFine
<1>5. ASSUME NEW js \in SUBSET Jobs, NEW rt \in BOOLEAN, NEW ready \in BOOLEAN,
             EnqueueWork(js, rt, ready)
      PROVE  StatementFine
  <2>1. ASSUME NEW j \in Jobs PROVE RowFine(j)
    <3>1. CASE j \in js
      BY <1>1, <1>5, <2>1, <3>1, EnqueuedIsFine DEF EnqueueWork
    <3>2. CASE j \notin js
      BY <1>1, <1>5, <2>1, <3>2, UnchangedIsFine DEF EnqueueWork
    <3> QED
      BY <3>1, <3>2
  <2> QED
    BY <1>3, <1>5, <2>1 DEF EnqueueWork
<1>6. ASSUME NEW w \in Workers, NEW j \in Jobs, ClaimWork(w, j)
      PROVE  StatementFine
  <2> DEFINE l == LaneOf[j]
  <2>1. Claimable(j) /\ j \notin DeadAndExhausted(l)
    BY <1>6 DEF ClaimWork, Claimable, DeadAndExhausted
  <2>2. ASSUME NEW k \in Jobs PROVE RowFine(k)
    <3>1. CASE k = j
      <4>1. job'[j] = Claimed(job[j], w)
        BY <1>3, <1>6, <2>1 DEF ClaimWork, FailExhausted, Rows
      <4> QED
        BY <1>1, <2>1, <3>1, <4>1, ClaimedIsFine
    <3>2. CASE k # j /\ k \in DeadAndExhausted(l)
      <4>1. job'[k] = Unleased(job[k], "failed")
        BY <1>3, <1>6, <3>2 DEF ClaimWork, FailExhausted, Rows
      <4>2. job[k].status = "in_flight"
        BY <3>2 DEF DeadAndExhausted, DeadLease, InFlight
      <4> QED
        BY <1>1, <4>1, <4>2, PlainUnleasedIsFine
    <3>3. CASE k # j /\ k \notin DeadAndExhausted(l)
      <4>1. job'[k] = job[k]
        BY <1>3, <1>6, <3>3 DEF ClaimWork, FailExhausted, Rows
      <4> QED
        BY <1>1, <4>1, UnchangedIsFine
    <3> QED
      BY <3>1, <3>2, <3>3
  <2> QED
    BY <1>3, <1>6, <2>2 DEF ClaimWork, FailExhausted
<1>7. ASSUME NEW l \in Lanes, ClaimNothing(l)
      PROVE  StatementFine
  <2>1. ASSUME NEW k \in Jobs PROVE RowFine(k)
    <3>1. CASE k \in DeadAndExhausted(l)
      <4>1. job'[k] = Unleased(job[k], "failed")
        BY <1>7, <3>1 DEF ClaimNothing, FailExhausted
      <4>2. job[k].status = "in_flight"
        BY <3>1 DEF DeadAndExhausted, DeadLease, InFlight
      <4> QED
        BY <1>1, <4>1, <4>2, PlainUnleasedIsFine
    <3>2. CASE k \notin DeadAndExhausted(l)
      BY <1>1, <1>7, <3>2, UnchangedIsFine DEF ClaimNothing, FailExhausted
    <3> QED
      BY <3>1, <3>2
  <2> QED
    BY <1>3, <1>7, <2>1 DEF ClaimNothing, FailExhausted
<1>8. ASSUME NEW w \in Workers, NEW j \in Jobs, HeartbeatWork(w, j)
      PROVE  StatementFine
  <2>1. job' = [job EXCEPT ![j] = [job[j] EXCEPT !.live = TRUE]]
    BY <1>3, <1>8 DEF HeartbeatWork, Rows
  <2>2. job[j].status = "in_flight"
    BY <1>8 DEF HeartbeatWork, Owns, InFlight
  <2> QED
    BY <1>1, <1>3, <1>8, <2>1, <2>2, LiveIsFine, OneRowChanges
       DEF HeartbeatWork
<1>9. ASSUME NEW w \in Workers, NEW j \in Jobs, NEW ks \in SUBSET Jobs,
             NEW rt \in BOOLEAN, NEW ready \in BOOLEAN,
             CompleteWork(w, j, ks, rt, ready)
      PROVE  StatementFine
  <2>1. job[j].status = "in_flight"
    BY <1>9 DEF CompleteWork, Owns, InFlight
  <2>2. ASSUME NEW k \in Jobs PROVE RowFine(k)
    <3>1. CASE k = j
      BY <1>1, <1>9, <2>1, <3>1, PlainUnleasedIsFine DEF CompleteWork
    <3>2. CASE k # j /\ k \in ks
      BY <1>1, <1>9, <3>2, EnqueuedIsFine DEF CompleteWork
    <3>3. CASE k # j /\ k \notin ks
      BY <1>1, <1>9, <3>3, UnchangedIsFine DEF CompleteWork
    <3> QED
      BY <3>1, <3>2, <3>3
  <2> QED
    BY <1>3, <1>9, <2>2 DEF CompleteWork
<1>10. ASSUME NEW w \in Workers, NEW j \in Jobs, RetryWork(w, j)
       PROVE  StatementFine
  <2> DEFINE s == IF Exhausted(j) THEN "failed" ELSE "pending"
  <2>1. job' = [job EXCEPT ![j] = [Unleased(job[j], s) EXCEPT !.ready = FALSE]]
    BY <1>3, <1>10 DEF RetryWork, Rows
  <2>2. job[j].status = "in_flight" /\ s \in {"pending", "done", "failed"}
    BY <1>10 DEF RetryWork, Owns, InFlight
  <2> HIDE DEF s
  <2> QED
    BY <1>1, <1>3, <1>10, <2>1, <2>2, UnleasedIsFine, OneRowChanges
       DEF RetryWork
<1>11. ASSUME NEW w \in Workers, NEW j \in Jobs, FailWork(w, j)
       PROVE  StatementFine
  <2>1. job' = [job EXCEPT ![j] = Unleased(job[j], "failed")]
    BY <1>3, <1>11 DEF FailWork, Rows
  <2>2. job[j].status = "in_flight"
    BY <1>11 DEF FailWork, Owns, InFlight
  <2> QED
    BY <1>1, <1>3, <1>11, <2>1, <2>2, PlainUnleasedIsFine, OneRowChanges
       DEF FailWork
<1>12. ASSUME NEW js \in SUBSET Jobs, CancelWork(js)
       PROVE  StatementFine
  <2>1. ASSUME NEW k \in Jobs PROVE RowFine(k)
    <3>1. CASE k \in js /\ job[k].status = "pending"
      BY <1>1, <1>12, <3>1, PlainUnleasedIsFine DEF CancelWork
    <3>2. CASE ~(k \in js /\ job[k].status = "pending")
      BY <1>1, <1>12, <3>2, UnchangedIsFine DEF CancelWork
    <3> QED
      BY <3>1, <3>2
  <2> QED
    BY <1>3, <1>12, <2>1 DEF CancelWork
<1>13. ASSUME NEW j \in Jobs, NEW ready \in BOOLEAN,
              ReschedulePendingWork(j, ready)
       PROVE  StatementFine
  <2>1. job' = [job EXCEPT ![j] = [job[j] EXCEPT !.ready = ready]]
    BY <1>3, <1>13 DEF ReschedulePendingWork, Rows
  <2> QED
    BY <1>1, <1>3, <1>13, <2>1, ReadyIsFine, OneRowChanges
       DEF ReschedulePendingWork
<1>14. ASSUME NEW w \in Workers, ReleaseOwnedInFlightOnStartup(w)
       PROVE  StatementFine
  <2>1. ASSUME NEW k \in Jobs PROVE RowFine(k)
    <3>1. CASE Owns(w, k)
      <4>1. job'[k] = [Unleased(job[k], "pending") EXCEPT !.ready = TRUE]
        BY <1>14, <3>1 DEF ReleaseOwnedInFlightOnStartup
      <4>2. job[k].status = "in_flight"
        BY <3>1 DEF Owns, InFlight
      <4> QED
        BY <1>1, <4>1, <4>2, UnleasedIsFine
    <3>2. CASE ~Owns(w, k)
      BY <1>1, <1>14, <3>2, UnchangedIsFine DEF ReleaseOwnedInFlightOnStartup
    <3> QED
      BY <3>1, <3>2
  <2> QED
    BY <1>3, <1>14, <2>1 DEF ReleaseOwnedInFlightOnStartup
<1>15. ASSUME NEW js \in SUBSET Jobs, ReclaimExpiredOrchestrationLeases(js)
       PROVE  StatementFine
  <2>1. ASSUME NEW k \in Jobs PROVE RowFine(k)
    <3>1. CASE k \in js
      <4>1. job[k].status = "in_flight"
        BY <1>15, <3>1 DEF ReclaimExpiredOrchestrationLeases, DeadLease, InFlight
      <4> QED
        BY <1>1, <1>15, <3>1, <4>1, PlainUnleasedIsFine
           DEF ReclaimExpiredOrchestrationLeases
    <3>2. CASE k \notin js
      BY <1>1, <1>15, <3>2, UnchangedIsFine
         DEF ReclaimExpiredOrchestrationLeases
    <3> QED
      BY <3>1, <3>2
  <2> QED
    BY <1>3, <1>15, <2>1 DEF ReclaimExpiredOrchestrationLeases
<1>16. ASSUME NEW j \in Jobs, BecomesReady(j)
       PROVE  StatementFine
  <2>1. job' = [job EXCEPT ![j] = [job[j] EXCEPT !.ready = TRUE]]
    BY <1>3, <1>16 DEF BecomesReady, Rows
  <2> QED
    BY <1>1, <1>3, <1>16, <2>1, ReadyIsFine, OneRowChanges DEF BecomesReady
<1>17. ASSUME NEW j \in Jobs, LeaseExpires(j)
       PROVE  StatementFine
  <2>1. job' = [job EXCEPT ![j] = [job[j] EXCEPT !.live = FALSE]]
    BY <1>3, <1>17 DEF LeaseExpires, Rows
  <2>2. job[j].status = "in_flight"
    BY <1>17 DEF LeaseExpires, InFlight
  <2> QED
    BY <1>1, <1>3, <1>17, <2>1, <2>2, LiveIsFine, OneRowChanges DEF LeaseExpires
<1>18. ASSUME UNCHANGED job,
              registry' \in [Workers -> {"absent", "fresh", "stale"}],
              paused' \in SUBSET Lanes
       PROVE  StatementFine
  BY <1>1, <1>3, <1>18, UnchangedIsFine DEF Rows
<1>19. ASSUME NEW w \in Workers, \/ RegisterWorker(w)
                                 \/ HeartbeatWorker(w)
                                 \/ UnregisterWorker(w)
                                 \/ GoesStale(w)
       PROVE  StatementFine
  BY <1>3, <1>18, <1>19
     DEF RegisterWorker, HeartbeatWorker, UnregisterWorker, GoesStale
<1>20. ASSUME NEW ws \in SUBSET Workers, GarbageCollectStaleWorkers(ws)
       PROVE  StatementFine
  BY <1>3, <1>18, <1>20 DEF GarbageCollectStaleWorkers
<1>21. ASSUME NEW l \in Lanes, SetLanePaused(l)
       PROVE  StatementFine
  BY <1>3, <1>18, <1>21 DEF SetLanePaused
<1>22. CASE UNCHANGED queueVars
  BY <1>3, <1>18, <1>22 DEF queueVars
<1> HIDE DEF StatementFine
<1> QED
  BY <1>5, <1>6, <1>7, <1>8, <1>9, <1>10, <1>11, <1>12, <1>13, <1>14, <1>15,
     <1>16, <1>17, <1>19, <1>20, <1>21, <1>22 DEF QueueStatement

-----------------------------------------------------------------------------
\* The executions.

ProcessesOK ==
    /\ proc \in [Workers -> ProcState]
    /\ poll \in [Workers -> {"idle", "polling"}]
    /\ active \in [Workers -> SUBSET Jobs]
    /\ faults \in [stops : 0..MaxStops, lapses : 0..MaxLapses,
                   dbErrors : 0..MaxDbErrors]

ClaimsOK ==
    /\ arriving \in SUBSET Claim
    /\ working \in SUBSET Claim
    /\ failing \in SUBSET Claim

Invariant ==
    /\ TypeOK
    /\ LeaseCoherent
    /\ AttemptsBounded
    /\ ClaimsArePast
    /\ OneExecutionPerClaim

\* The three things a step may do to the executions.
BodiesShrink ==
    arriving' \subseteq arriving /\ working' \subseteq working
      /\ failing' \subseteq failing

BodyBegins(c) ==
    c \in arriving /\ arriving' = arriving \ {c}
      /\ working' = working \cup {c} /\ failing' = failing

BodyFails(c) ==
    c \in working /\ working' = working \ {c}
      /\ failing' = failing \cup {c} /\ arriving' = arriving

NewClaim(c) ==
    /\ c \in Claim
    /\ arriving' = arriving \cup {c} /\ working' = working
    /\ failing' = failing
    /\ c.revival = job[c.job].revival /\ c.attempt = job[c.job].attempt + 1
    /\ job'[c.job].revival = c.revival /\ job'[c.job].attempt = c.attempt

BodiesStep ==
    \/ BodiesShrink
    \/ \E c \in arriving : BodyBegins(c)
    \/ \E c \in working : BodyFails(c)
    \/ \E c \in Claim : NewClaim(c)

\* The first three leave no execution that was not there before.
NothingNew ==
    /\ ClaimsOK'
    /\ Executions' \subseteq Executions
    /\ arriving' \cap Bodies' = {}
    /\ working' \cap failing' = {}

\* Rows never move back behind a claim they have handed out.
LEMMA RowsNeverMoveBack ==
    ASSUME Rows, Rows', RowSteps, NEW j \in Jobs
    PROVE  \/ job'[j].revival > job[j].revival
           \/ /\ job'[j].revival = job[j].revival
              /\ job'[j].attempt >= job[j].attempt
<1>1. /\ job[j].attempt \in Nat /\ job[j].revival \in Nat
      /\ job'[j].attempt \in Nat /\ job'[j].revival \in Nat
  BY DEF Rows, Row
<1> QED
  BY <1>1 DEF RowSteps, RowStep

LEMMA BodiesStepKeepsClaims ==
    ASSUME Invariant, QueueInv', RowSteps, BodiesStep
    PROVE  /\ ClaimsOK' /\ AttemptsBounded' /\ ClaimsArePast'
           /\ OneExecutionPerClaim'
<1>1. /\ Rows /\ Rows' /\ RowsBounded' /\ ClaimsOK
      /\ arriving \cap Bodies = {} /\ working \cap failing = {}
  BY DEF Invariant, TypeOK, QueueTypeOK, QueueInv, Rows, ClaimsOK,
         OneExecutionPerClaim
<1>2. \A c \in Executions : c \in Claim
  BY <1>1 DEF ClaimsOK, Executions, Bodies
<1>3. \A c \in Executions : /\ c.attempt \in 1..MaxAttempts[c.job]
                            /\ \/ c.revival < job[c.job].revival
                               \/ /\ c.revival = job[c.job].revival
                                  /\ c.attempt <= job[c.job].attempt
  BY DEF Invariant, AttemptsBounded, ClaimsArePast
<1>4. \A c \in Executions : \/ c.revival < job'[c.job].revival
                            \/ /\ c.revival = job'[c.job].revival
                               /\ c.attempt <= job'[c.job].attempt
  <2> SUFFICES ASSUME NEW c \in Executions
               PROVE  \/ c.revival < job'[c.job].revival
                      \/ /\ c.revival = job'[c.job].revival
                         /\ c.attempt <= job'[c.job].attempt
    OBVIOUS
  <2>1. c.job \in Jobs /\ c.revival \in Nat /\ c.attempt \in Nat
    BY <1>2 DEF Claim
  <2>2. /\ job[c.job].attempt \in Nat /\ job[c.job].revival \in Nat
        /\ job'[c.job].attempt \in Nat /\ job'[c.job].revival \in Nat
    BY <1>1, <2>1 DEF Rows, Row
  <2> QED
    BY <1>1, <1>3, <2>1, <2>2, RowsNeverMoveBack
<1>5. CASE NothingNew
  <2>1. AttemptsBounded'
    BY <1>1, <1>3, <1>5 DEF AttemptsBounded, RowsBounded, NothingNew
  <2>2. ClaimsArePast'
    BY <1>4, <1>5 DEF ClaimsArePast, NothingNew
  <2>3. OneExecutionPerClaim'
    BY <1>5 DEF Invariant, OneExecutionPerClaim, NothingNew
  <2> QED
    BY <1>5, <2>1, <2>2, <2>3 DEF NothingNew
<1>6. BodiesShrink => NothingNew
  BY <1>1 DEF BodiesShrink, ClaimsOK, Executions, Bodies, NothingNew
<1>7. ASSUME NEW c \in arriving, BodyBegins(c)
      PROVE  NothingNew
  BY <1>1, <1>7 DEF BodyBegins, ClaimsOK, Executions, Bodies, NothingNew
<1>8. ASSUME NEW c \in working, BodyFails(c)
      PROVE  NothingNew
  BY <1>1, <1>8 DEF BodyFails, ClaimsOK, Executions, Bodies, NothingNew
<1>9. ASSUME NEW c \in Claim, NewClaim(c)
      PROVE  /\ ClaimsOK' /\ AttemptsBounded' /\ ClaimsArePast'
             /\ OneExecutionPerClaim'
  <2>1. /\ c.job \in Jobs /\ c.attempt \in Nat /\ c.revival \in Nat
        /\ job[c.job].attempt \in Nat
    BY <1>1 DEF Claim, Rows, Row
  <2>2. Executions' = Executions \cup {c}
    BY <1>9 DEF NewClaim, Executions, Bodies
  <2>3. c.attempt \in 1..MaxAttempts[c.job]
    <3>1. c.attempt = job'[c.job].attempt /\ c.attempt = job[c.job].attempt + 1
      BY <1>9 DEF NewClaim
    <3>2. job'[c.job].attempt <= MaxAttempts[c.job]
      BY <1>1, <2>1 DEF RowsBounded
    <3>3. MaxAttempts[c.job] \in Nat
      BY <2>1, QueueAssumption
    <3> QED
      BY <2>1, <3>1, <3>2, <3>3
  <2>4. \A d \in Executions : ~(/\ d.job = c.job /\ d.revival = c.revival
                               /\ d.attempt = c.attempt)
    <3> SUFFICES ASSUME NEW d \in Executions, d.job = c.job,
                        d.revival = c.revival, d.attempt = c.attempt
                 PROVE  FALSE
      OBVIOUS
    <3>1. d.attempt <= job[c.job].attempt \/ d.revival < job[c.job].revival
      BY <1>3
    <3>2. c.revival = job[c.job].revival /\ c.attempt = job[c.job].attempt + 1
      BY <1>9 DEF NewClaim
    <3> QED
      BY <2>1, <3>1, <3>2
  <2>5. c \notin Executions
    BY <2>4
  <2>6. AttemptsBounded'
    BY <1>1, <1>3, <2>2, <2>3 DEF AttemptsBounded, RowsBounded
  <2>7. ClaimsArePast'
    <3>1. c.revival = job'[c.job].revival /\ c.attempt <= job'[c.job].attempt
      BY <1>9, <2>1 DEF NewClaim
    <3> QED
      BY <1>4, <2>2, <3>1 DEF ClaimsArePast
  <2>8. ClaimsOK' /\ arriving' \cap Bodies' = {} /\ working' \cap failing' = {}
    BY <1>1, <1>9, <2>5 DEF ClaimsOK, NewClaim, Bodies, Executions
  <2>9. OneExecutionPerClaim'
    <3>1. \A d, e \in Executions :
            (d.job = e.job /\ d.revival = e.revival /\ d.attempt = e.attempt)
               => d = e
      BY DEF Invariant, OneExecutionPerClaim
    <3> QED
      BY <2>2, <2>4, <2>8, <3>1 DEF OneExecutionPerClaim
  <2> QED
    BY <2>6, <2>7, <2>8, <2>9
<1> QED
  BY <1>5, <1>6, <1>7, <1>8, <1>9 DEF BodiesStep

-----------------------------------------------------------------------------
\* One step per action: the statement it runs, the processes it leaves, and
\* what it does to the executions.

StepFine == QueueStatement /\ ProcessesOK' /\ BodiesStep

LEMMA NextIsFine ==
    ASSUME Invariant, [Next]_vars
    PROVE  StepFine
<1>1. /\ ProcessesOK /\ ClaimsOK
      /\ ReconcileJob \in Jobs /\ ProductJobs \subseteq Jobs
      /\ SendJobs \subseteq Jobs /\ PausableLanes \subseteq Lanes
      /\ \A j \in Jobs : Children[j] \subseteq Jobs /\ LaneOf[j] \in Lanes
  BY WorkerAssumption, QueueAssumption
     DEF Invariant, TypeOK, ProcessesOK, ClaimsOK, ProductJobs
<1>2. /\ \A c \in arriving \cup working \cup failing :
            c \in Claim /\ c.worker \in Workers /\ c.job \in Jobs
      /\ MaxStops \in Nat /\ MaxLapses \in Nat /\ MaxDbErrors \in Nat
  BY <1>1, WorkerAssumption DEF ClaimsOK, Claim
<1>3. \A c \in Bodies : c \in working \/ c \in failing
  BY DEF Bodies
<1> USE DEF processVars, bodyVars, ProcState
<1>4. ASSUME NEW w \in Workers, NEW j \in Jobs, PollClaim(w, j)
      PROVE  StepFine
  <2> DEFINE c == [worker |-> w, job |-> j, revival |-> job[j].revival,
                   attempt |-> job[j].attempt + 1]
  <2>1. ClaimWork(w, j) /\ j \notin DeadAndExhausted(LaneOf[j])
    BY <1>4 DEF PollClaim, ClaimWork, Claimable, DeadAndExhausted
  <2>2. job \in [Jobs -> Row] /\ job[j] \in Row
    BY DEF Invariant, TypeOK, QueueTypeOK
  <2>3. job'[j] = Claimed(job[j], w)
    BY <2>1, <2>2 DEF ClaimWork, FailExhausted
  <2>4. /\ job'[j].revival = job[j].revival
        /\ job'[j].attempt = job[j].attempt + 1
    BY <2>2, <2>3 DEF Claimed, Row
  <2>5. c \in Claim
    <3>1. job[j].revival \in Nat /\ job[j].attempt + 1 \in Nat
      BY <2>2 DEF Row
    <3> QED
      BY <3>1 DEF Claim
  <2>6. NewClaim(c)
    BY <1>4, <2>4, <2>5 DEF PollClaim, NewClaim
  <2>7. QueueStatement
    BY <2>1 DEF QueueStatement
  <2>8. ProcessesOK'
    BY <1>1, <1>4 DEF PollClaim, ProcessesOK
  <2> QED
    BY <2>5, <2>6, <2>7, <2>8 DEF StepFine, BodiesStep
<1>5. ASSUME NEW w \in Workers, BootRegister(w)
      PROVE  StepFine
  <2>1. RegisterWorker(w)
    BY <1>5 DEF BootRegister
  <2>2. QueueStatement
    BY <1>1, <1>2, <1>3, <2>1 DEF QueueStatement
  <2>3. ProcessesOK'
    BY <1>1, <1>2, <1>3, <1>5 DEF BootRegister, ProcessesOK
  <2>4. BodiesShrink
    BY <1>5 DEF BootRegister, BodiesShrink
  <2> QED
    BY <2>2, <2>3, <2>4 DEF StepFine, BodiesStep
<1>6. ASSUME NEW w \in Workers, BootRelease(w)
      PROVE  StepFine
  <2>1. ReleaseOwnedInFlightOnStartup(w)
    BY <1>6 DEF BootRelease
  <2>2. QueueStatement
    BY <1>1, <1>2, <1>3, <2>1 DEF QueueStatement
  <2>3. ProcessesOK'
    BY <1>1, <1>2, <1>3, <1>6 DEF BootRelease, ProcessesOK
  <2>4. BodiesShrink
    BY <1>6 DEF BootRelease, BodiesShrink
  <2> QED
    BY <2>2, <2>3, <2>4 DEF StepFine, BodiesStep
<1>7. ASSUME NEW w \in Workers, BootReleaseError(w)
      PROVE  StepFine
  <2>1. UNCHANGED queueVars
    BY <1>7 DEF BootReleaseError
  <2>2. QueueStatement
    BY <1>1, <1>2, <1>3, <2>1 DEF QueueStatement
  <2>3. ProcessesOK'
    BY <1>1, <1>2, <1>3, <1>7 DEF BootReleaseError, DbErrorCounted, ProcessesOK
  <2>4. BodiesShrink
    BY <1>7 DEF BootReleaseError, BodiesShrink
  <2> QED
    BY <2>2, <2>3, <2>4 DEF StepFine, BodiesStep
<1>8. ASSUME NEW w \in Workers, BootReconcile(w)
      PROVE  StepFine
  <2>1. EnqueueWork({ReconcileJob}, TRUE, TRUE)
    BY <1>8 DEF BootReconcile
  <2>2. QueueStatement
    BY <1>1, <1>2, <1>3, <2>1 DEF QueueStatement
  <2>3. ProcessesOK'
    BY <1>1, <1>2, <1>3, <1>8 DEF BootReconcile, ProcessesOK
  <2>4. BodiesShrink
    BY <1>8 DEF BootReconcile, BodiesShrink
  <2> QED
    BY <2>2, <2>3, <2>4 DEF StepFine, BodiesStep
<1>9. ASSUME NEW w \in Workers, StopDuringBoot(w)
      PROVE  StepFine
  <2>1. UnregisterWorker(w)
    BY <1>9 DEF StopDuringBoot
  <2>2. QueueStatement
    BY <1>1, <1>2, <1>3, <2>1 DEF QueueStatement
  <2>3. ProcessesOK'
    BY <1>1, <1>2, <1>3, <1>9 DEF StopDuringBoot, StopCounted, ProcessesOK
  <2>4. BodiesShrink
    BY <1>9 DEF StopDuringBoot, BodiesShrink
  <2> QED
    BY <2>2, <2>3, <2>4 DEF StepFine, BodiesStep
<1>10. ASSUME NEW w \in Workers, PollBegin(w)
      PROVE  StepFine
  <2>1. UNCHANGED queueVars
    BY <1>10 DEF PollBegin
  <2>2. QueueStatement
    BY <1>1, <1>2, <1>3, <2>1 DEF QueueStatement
  <2>3. ProcessesOK'
    BY <1>1, <1>2, <1>3, <1>10 DEF PollBegin, ProcessesOK
  <2>4. BodiesShrink
    BY <1>10 DEF PollBegin, BodiesShrink
  <2> QED
    BY <2>2, <2>3, <2>4 DEF StepFine, BodiesStep
<1>11. ASSUME NEW w \in Workers, NEW l \in Lanes, PollClaimNothing(w, l)
      PROVE  StepFine
  <2>1. ClaimNothing(l)
    BY <1>11 DEF PollClaimNothing
  <2>2. QueueStatement
    BY <1>1, <1>2, <1>3, <2>1 DEF QueueStatement
  <2>3. ProcessesOK'
    BY <1>1, <1>2, <1>3, <1>11 DEF PollClaimNothing, ProcessesOK
  <2>4. BodiesShrink
    BY <1>11 DEF PollClaimNothing, BodiesShrink
  <2> QED
    BY <2>2, <2>3, <2>4 DEF StepFine, BodiesStep
<1>12. ASSUME NEW c \in arriving, BeginJob(c)
      PROVE  StepFine
  <2>1. UNCHANGED queueVars
    BY <1>12 DEF BeginJob
  <2>2. QueueStatement
    BY <1>1, <1>2, <1>3, <2>1 DEF QueueStatement
  <2>3. ProcessesOK'
    BY <1>1, <1>2, <1>3, <1>12 DEF BeginJob, ProcessesOK
  <2>4. BodyBegins(c)
    BY <1>12 DEF BeginJob, BodyBegins
  <2> QED
    BY <2>2, <2>3, <2>4 DEF StepFine, BodiesStep
<1>13. ASSUME NEW c \in arriving, LoseClaim(c)
      PROVE  StepFine
  <2>1. UNCHANGED queueVars
    BY <1>13 DEF LoseClaim
  <2>2. QueueStatement
    BY <1>1, <1>2, <1>3, <2>1 DEF QueueStatement
  <2>3. ProcessesOK'
    BY <1>1, <1>2, <1>3, <1>13 DEF LoseClaim, DbErrorCounted, ProcessesOK
  <2>4. BodiesShrink
    BY <1>13 DEF LoseClaim, BodiesShrink
  <2> QED
    BY <2>2, <2>3, <2>4 DEF StepFine, BodiesStep
<1>14. ASSUME NEW w \in Workers, PollEnd(w)
      PROVE  StepFine
  <2>1. UNCHANGED queueVars
    BY <1>14 DEF PollEnd
  <2>2. QueueStatement
    BY <1>1, <1>2, <1>3, <2>1 DEF QueueStatement
  <2>3. ProcessesOK'
    BY <1>1, <1>2, <1>3, <1>14 DEF PollEnd, ProcessesOK
  <2>4. BodiesShrink
    BY <1>14 DEF PollEnd, BodiesShrink
  <2> QED
    BY <2>2, <2>3, <2>4 DEF StepFine, BodiesStep
<1>15. ASSUME NEW c \in working, HandlerThrows(c)
      PROVE  StepFine
  <2>1. UNCHANGED queueVars
    BY <1>15 DEF HandlerThrows
  <2>2. QueueStatement
    BY <1>1, <1>2, <1>3, <2>1 DEF QueueStatement
  <2>3. ProcessesOK'
    BY <1>1, <1>2, <1>3, <1>15 DEF HandlerThrows, ProcessesOK
  <2>4. BodyFails(c)
    BY <1>15 DEF HandlerThrows, BodyFails
  <2> QED
    BY <2>2, <2>3, <2>4 DEF StepFine, BodiesStep
<1>16. ASSUME NEW c \in working, NEW ks \in SUBSET Jobs, NEW rt \in BOOLEAN, NEW ready \in BOOLEAN, CompleteJob(c, ks, rt, ready)
      PROVE  StepFine
  <2>1. CompleteWork(c.worker, c.job, ks, rt, ready)
    BY <1>16 DEF CompleteJob
  <2>2. QueueStatement
    BY <1>1, <1>2, <1>3, <2>1 DEF QueueStatement
  <2>3. ProcessesOK'
    BY <1>1, <1>2, <1>3, <1>16 DEF CompleteJob, BodyEnds, ProcessesOK
  <2>4. BodiesShrink
    BY <1>16 DEF CompleteJob, BodyEnds, BodiesShrink
  <2> QED
    BY <2>2, <2>3, <2>4 DEF StepFine, BodiesStep
<1>17. ASSUME NEW c \in working, CompletionLeaseLost(c)
      PROVE  StepFine
  <2>1. UNCHANGED queueVars
    BY <1>17 DEF CompletionLeaseLost
  <2>2. QueueStatement
    BY <1>1, <1>2, <1>3, <2>1 DEF QueueStatement
  <2>3. ProcessesOK'
    BY <1>1, <1>2, <1>3, <1>17 DEF CompletionLeaseLost, BodyEnds, ProcessesOK
  <2>4. BodiesShrink
    BY <1>17 DEF CompletionLeaseLost, BodyEnds, BodiesShrink
  <2> QED
    BY <2>2, <2>3, <2>4 DEF StepFine, BodiesStep
<1>18. ASSUME NEW c \in working, NEW ks \in SUBSET Jobs, NEW rt \in BOOLEAN, NEW ready \in BOOLEAN, CompleteUnacknowledged(c, ks, rt, ready)
      PROVE  StepFine
  <2>1. CompleteWork(c.worker, c.job, ks, rt, ready)
    BY <1>18 DEF CompleteUnacknowledged
  <2>2. QueueStatement
    BY <1>1, <1>2, <1>3, <2>1 DEF QueueStatement
  <2>3. ProcessesOK'
    BY <1>1, <1>2, <1>3, <1>18 DEF CompleteUnacknowledged, DbErrorCounted, ProcessesOK
  <2>4. BodyFails(c)
    BY <1>18 DEF CompleteUnacknowledged, BodyFails
  <2> QED
    BY <2>2, <2>3, <2>4 DEF StepFine, BodiesStep
<1>19. ASSUME NEW c \in failing, RetryJob(c)
      PROVE  StepFine
  <2>1. RetryWork(c.worker, c.job) \/ UNCHANGED queueVars
    BY <1>19 DEF RetryJob
  <2>2. QueueStatement
    BY <1>1, <1>2, <1>3, <2>1 DEF QueueStatement
  <2>3. ProcessesOK'
    BY <1>1, <1>2, <1>3, <1>19 DEF RetryJob, BodyEnds, ProcessesOK
  <2>4. BodiesShrink
    BY <1>19 DEF RetryJob, BodyEnds, BodiesShrink
  <2> QED
    BY <2>2, <2>3, <2>4 DEF StepFine, BodiesStep
<1>20. ASSUME NEW c \in failing, FailJob(c)
      PROVE  StepFine
  <2>1. FailWork(c.worker, c.job) \/ UNCHANGED queueVars
    BY <1>20 DEF FailJob
  <2>2. QueueStatement
    BY <1>1, <1>2, <1>3, <2>1 DEF QueueStatement
  <2>3. ProcessesOK'
    BY <1>1, <1>2, <1>3, <1>20 DEF FailJob, BodyEnds, ProcessesOK
  <2>4. BodiesShrink
    BY <1>20 DEF FailJob, BodyEnds, BodiesShrink
  <2> QED
    BY <2>2, <2>3, <2>4 DEF StepFine, BodiesStep
<1>21. ASSUME NEW c \in failing, SettlementError(c)
      PROVE  StepFine
  <2>1. UNCHANGED queueVars
    BY <1>21 DEF SettlementError
  <2>2. QueueStatement
    BY <1>1, <1>2, <1>3, <2>1 DEF QueueStatement
  <2>3. ProcessesOK'
    BY <1>1, <1>2, <1>3, <1>21 DEF SettlementError, BodyEnds, DbErrorCounted, ProcessesOK
  <2>4. BodiesShrink
    BY <1>21 DEF SettlementError, BodyEnds, BodiesShrink
  <2> QED
    BY <2>2, <2>3, <2>4 DEF StepFine, BodiesStep
<1>22. ASSUME NEW c \in Bodies, JobHeartbeat(c)
      PROVE  StepFine
  <2>1. HeartbeatWork(c.worker, c.job)
    BY <1>22 DEF JobHeartbeat
  <2>2. QueueStatement
    BY <1>1, <1>2, <1>3, <2>1 DEF QueueStatement
  <2>3. ProcessesOK'
    BY <1>1, <1>2, <1>3, <1>22 DEF JobHeartbeat, ProcessesOK
  <2>4. BodiesShrink
    BY <1>22 DEF JobHeartbeat, BodiesShrink
  <2> QED
    BY <2>2, <2>3, <2>4 DEF StepFine, BodiesStep
<1>23. ASSUME NEW w \in Workers, WorkerHeartbeat(w)
      PROVE  StepFine
  <2>1. HeartbeatWorker(w)
    BY <1>23 DEF WorkerHeartbeat
  <2>2. QueueStatement
    BY <1>1, <1>2, <1>3, <2>1 DEF QueueStatement
  <2>3. ProcessesOK'
    BY <1>1, <1>2, <1>3, <1>23 DEF WorkerHeartbeat, ProcessesOK
  <2>4. BodiesShrink
    BY <1>23 DEF WorkerHeartbeat, BodiesShrink
  <2> QED
    BY <2>2, <2>3, <2>4 DEF StepFine, BodiesStep
<1>24. ASSUME NEW w \in Workers, NEW js \in SUBSET Jobs, ReclaimTimer(w, js)
      PROVE  StepFine
  <2>1. ReclaimExpiredOrchestrationLeases(js)
    BY <1>24 DEF ReclaimTimer
  <2>2. QueueStatement
    BY <1>1, <1>2, <1>3, <2>1 DEF QueueStatement
  <2>3. ProcessesOK'
    BY <1>1, <1>2, <1>3, <1>24 DEF ReclaimTimer, ProcessesOK
  <2>4. BodiesShrink
    BY <1>24 DEF ReclaimTimer, BodiesShrink
  <2> QED
    BY <2>2, <2>3, <2>4 DEF StepFine, BodiesStep
<1>25. ASSUME NEW w \in Workers, ReconcileTimer(w)
      PROVE  StepFine
  <2>1. EnqueueWork({ReconcileJob}, TRUE, TRUE)
    BY <1>25 DEF ReconcileTimer
  <2>2. QueueStatement
    BY <1>1, <1>2, <1>3, <2>1 DEF QueueStatement
  <2>3. ProcessesOK'
    BY <1>1, <1>2, <1>3, <1>25 DEF ReconcileTimer, ProcessesOK
  <2>4. BodiesShrink
    BY <1>25 DEF ReconcileTimer, BodiesShrink
  <2> QED
    BY <2>2, <2>3, <2>4 DEF StepFine, BodiesStep
<1>26. ASSUME NEW c \in working, NEW ws \in SUBSET Workers, ReconcileCollects(c, ws)
      PROVE  StepFine
  <2>1. GarbageCollectStaleWorkers(ws)
    BY <1>26 DEF ReconcileCollects
  <2>2. QueueStatement
    BY <1>1, <1>2, <1>3, <2>1 DEF QueueStatement
  <2>3. ProcessesOK'
    BY <1>1, <1>2, <1>3, <1>26 DEF ReconcileCollects, ProcessesOK
  <2>4. BodiesShrink
    BY <1>26 DEF ReconcileCollects, BodiesShrink
  <2> QED
    BY <2>2, <2>3, <2>4 DEF StepFine, BodiesStep
<1>27. ASSUME NEW w \in Workers, Stop(w)
      PROVE  StepFine
  <2>1. UNCHANGED queueVars
    BY <1>27 DEF Stop
  <2>2. QueueStatement
    BY <1>1, <1>2, <1>3, <2>1 DEF QueueStatement
  <2>3. ProcessesOK'
    BY <1>1, <1>2, <1>3, <1>27 DEF Stop, StopCounted, ProcessesOK
  <2>4. BodiesShrink
    BY <1>27 DEF Stop, BodiesShrink
  <2> QED
    BY <2>2, <2>3, <2>4 DEF StepFine, BodiesStep
<1>28. ASSUME NEW w \in Workers, Unregister(w)
      PROVE  StepFine
  <2>1. UnregisterWorker(w)
    BY <1>28 DEF Unregister
  <2>2. QueueStatement
    BY <1>1, <1>2, <1>3, <2>1 DEF QueueStatement
  <2>3. ProcessesOK'
    BY <1>1, <1>2, <1>3, <1>28 DEF Unregister, ProcessesOK
  <2>4. BodiesShrink
    BY <1>28 DEF Unregister, BodiesShrink
  <2> QED
    BY <2>2, <2>3, <2>4 DEF StepFine, BodiesStep
<1>29. ASSUME NEW w \in Workers, Exit(w)
      PROVE  StepFine
  <2>1. UNCHANGED queueVars
    BY <1>29 DEF Exit, ProcessGone
  <2>2. QueueStatement
    BY <1>1, <1>2, <1>3, <2>1 DEF QueueStatement
  <2>3. ProcessesOK'
    BY <1>1, <1>2, <1>3, <1>29 DEF Exit, ProcessGone, ProcessesOK
  <2>4. BodiesShrink
    BY <1>29 DEF Exit, ProcessGone, BodiesShrink
  <2> QED
    BY <2>2, <2>3, <2>4 DEF StepFine, BodiesStep
<1>30. ASSUME NEW w \in Workers, Crash(w)
      PROVE  StepFine
  <2>1. UNCHANGED queueVars
    BY <1>30 DEF Crash, ProcessGone
  <2>2. QueueStatement
    BY <1>1, <1>2, <1>3, <2>1 DEF QueueStatement
  <2>3. ProcessesOK'
    BY <1>1, <1>2, <1>3, <1>30 DEF Crash, ProcessGone, StopCounted, ProcessesOK
  <2>4. BodiesShrink
    BY <1>30 DEF Crash, ProcessGone, BodiesShrink
  <2> QED
    BY <2>2, <2>3, <2>4 DEF StepFine, BodiesStep
<1>31. ASSUME NEW j \in Jobs, OrphanedLeaseExpires(j)
      PROVE  StepFine
  <2>1. LeaseExpires(j)
    BY <1>31 DEF OrphanedLeaseExpires
  <2>2. QueueStatement
    BY <1>1, <1>2, <1>3, <2>1 DEF QueueStatement
  <2>3. ProcessesOK'
    BY <1>1, <1>2, <1>3, <1>31 DEF OrphanedLeaseExpires, ProcessesOK
  <2>4. BodiesShrink
    BY <1>31 DEF OrphanedLeaseExpires, BodiesShrink
  <2> QED
    BY <2>2, <2>3, <2>4 DEF StepFine, BodiesStep
<1>32. ASSUME NEW j \in Jobs, LeaseLapses(j)
      PROVE  StepFine
  <2>1. LeaseExpires(j)
    BY <1>32 DEF LeaseLapses
  <2>2. QueueStatement
    BY <1>1, <1>2, <1>3, <2>1 DEF QueueStatement
  <2>3. ProcessesOK'
    BY <1>1, <1>2, <1>3, <1>32 DEF LeaseLapses, LapseCounted, ProcessesOK
  <2>4. BodiesShrink
    BY <1>32 DEF LeaseLapses, BodiesShrink
  <2> QED
    BY <2>2, <2>3, <2>4 DEF StepFine, BodiesStep
<1>33. ASSUME NEW w \in Workers, DeadWorkerGoesStale(w)
      PROVE  StepFine
  <2>1. GoesStale(w)
    BY <1>33 DEF DeadWorkerGoesStale
  <2>2. QueueStatement
    BY <1>1, <1>2, <1>3, <2>1 DEF QueueStatement
  <2>3. ProcessesOK'
    BY <1>1, <1>2, <1>3, <1>33 DEF DeadWorkerGoesStale, ProcessesOK
  <2>4. BodiesShrink
    BY <1>33 DEF DeadWorkerGoesStale, BodiesShrink
  <2> QED
    BY <2>2, <2>3, <2>4 DEF StepFine, BodiesStep
<1>34. ASSUME NEW w \in Workers, WorkerLapses(w)
      PROVE  StepFine
  <2>1. GoesStale(w)
    BY <1>34 DEF WorkerLapses
  <2>2. QueueStatement
    BY <1>1, <1>2, <1>3, <2>1 DEF QueueStatement
  <2>3. ProcessesOK'
    BY <1>1, <1>2, <1>3, <1>34 DEF WorkerLapses, LapseCounted, ProcessesOK
  <2>4. BodiesShrink
    BY <1>34 DEF WorkerLapses, BodiesShrink
  <2> QED
    BY <2>2, <2>3, <2>4 DEF StepFine, BodiesStep
<1>35. ASSUME NEW j \in Jobs, BackoffEnds(j)
      PROVE  StepFine
  <2>1. BecomesReady(j)
    BY <1>35 DEF BackoffEnds
  <2>2. QueueStatement
    BY <1>1, <1>2, <1>3, <2>1 DEF QueueStatement
  <2>3. ProcessesOK'
    BY <1>1, <1>2, <1>3, <1>35 DEF BackoffEnds, ProcessesOK
  <2>4. BodiesShrink
    BY <1>35 DEF BackoffEnds, BodiesShrink
  <2> QED
    BY <2>2, <2>3, <2>4 DEF StepFine, BodiesStep
<1>36. ASSUME NEW j \in Jobs, NEW rt \in BOOLEAN, NEW ready \in BOOLEAN, Dispatch(j, rt, ready)
      PROVE  StepFine
  <2>1. EnqueueWork({j}, rt, ready)
    BY <1>36 DEF Dispatch
  <2>2. QueueStatement
    BY <1>1, <1>2, <1>3, <2>1 DEF QueueStatement
  <2>3. ProcessesOK'
    BY <1>1, <1>2, <1>3, <1>36 DEF Dispatch, ProcessesOK
  <2>4. BodiesShrink
    BY <1>36 DEF Dispatch, BodiesShrink
  <2> QED
    BY <2>2, <2>3, <2>4 DEF StepFine, BodiesStep
<1>37. ASSUME NEW js \in SUBSET Jobs, Cancel(js)
      PROVE  StepFine
  <2>1. CancelWork(js)
    BY <1>37 DEF Cancel
  <2>2. QueueStatement
    BY <1>1, <1>2, <1>3, <2>1 DEF QueueStatement
  <2>3. ProcessesOK'
    BY <1>1, <1>2, <1>3, <1>37 DEF Cancel, ProcessesOK
  <2>4. BodiesShrink
    BY <1>37 DEF Cancel, BodiesShrink
  <2> QED
    BY <2>2, <2>3, <2>4 DEF StepFine, BodiesStep
<1>38. ASSUME NEW j \in Jobs, NEW ready \in BOOLEAN, Reschedule(j, ready)
      PROVE  StepFine
  <2>1. ReschedulePendingWork(j, ready)
    BY <1>38 DEF Reschedule
  <2>2. QueueStatement
    BY <1>1, <1>2, <1>3, <2>1 DEF QueueStatement
  <2>3. ProcessesOK'
    BY <1>1, <1>2, <1>3, <1>38 DEF Reschedule, ProcessesOK
  <2>4. BodiesShrink
    BY <1>38 DEF Reschedule, BodiesShrink
  <2> QED
    BY <2>2, <2>3, <2>4 DEF StepFine, BodiesStep
<1>39. ASSUME NEW l \in Lanes, OperatorPauses(l)
      PROVE  StepFine
  <2>1. SetLanePaused(l)
    BY <1>39 DEF OperatorPauses
  <2>2. QueueStatement
    BY <1>1, <1>2, <1>3, <2>1 DEF QueueStatement
  <2>3. ProcessesOK'
    BY <1>1, <1>2, <1>3, <1>39 DEF OperatorPauses, ProcessesOK
  <2>4. BodiesShrink
    BY <1>39 DEF OperatorPauses, BodiesShrink
  <2> QED
    BY <2>2, <2>3, <2>4 DEF StepFine, BodiesStep
<1>40. CASE UNCHANGED vars
  <2>1. QueueStatement
    BY <1>40 DEF QueueStatement, vars
  <2>2. ProcessesOK' /\ BodiesShrink
    BY <1>1, <1>40 DEF vars, ProcessesOK, BodiesShrink
  <2> QED
    BY <2>1, <2>2 DEF StepFine, BodiesStep
<1>41. ASSUME NEW w \in Workers, Boot(w) \/ Poll(w) \/ Timers(w) \/ Shutdown(w)
      PROVE  StepFine
  <2>1. Boot(w) => StepFine
    BY <1>5, <1>6, <1>7, <1>8, <1>9 DEF Boot
  <2>2. Poll(w) => StepFine
    BY <1>10, <1>4, <1>11, <1>14 DEF Poll
  <2>3. Timers(w) => StepFine
    BY <1>23, <1>24, <1>25 DEF Timers
  <2>4. Shutdown(w) => StepFine
    BY <1>27, <1>28, <1>29, <1>30 DEF Shutdown
  <2> QED
    BY <1>41, <2>1, <2>2, <2>3, <2>4
<1>42. Arrival => StepFine
  BY <1>12, <1>13 DEF Arrival
<1>43. Execution => StepFine
  <2>1. ASSUME NEW c \in working, NEW ks \in SUBSET Children[c.job]
        PROVE  ks \in SUBSET Jobs
    BY <1>1, <1>2, <2>1
  <2>2. \A c \in working : Completes(c) => StepFine
    BY <2>1, <1>16, <1>17 DEF Completes
  <2>3. \A c \in failing : Settles(c) => StepFine
    BY <1>19, <1>20 DEF Settles
  <2> QED
    BY <2>1, <2>2, <2>3, <1>15, <1>18, <1>26, <1>21, <1>22 DEF Execution
<1>44. Clock => StepFine
  BY <1>31, <1>32, <1>35, <1>33, <1>34 DEF Clock
<1>45. Callers => StepFine
  <2>1. \A js \in SUBSET ProductJobs : js \in SUBSET Jobs
    BY <1>1
  <2> QED
    BY <1>1, <2>1, <1>36, <1>37, <1>38, <1>39 DEF Callers
<1> QED
  BY <1>40, <1>41, <1>42, <1>43, <1>44, <1>45 DEF Next

-----------------------------------------------------------------------------
\* The theorems.

LEMMA InitIsFine == Init => Invariant
<1> SUFFICES ASSUME Init PROVE Invariant
  OBVIOUS
<1> USE DEF Init, QueueInit
<1>1. \A j \in Jobs : job[j] = [status |-> "absent", attempt |-> 0,
                              owner |-> NoWorker, live |-> FALSE,
                              ready |-> FALSE, revival |-> 0]
  OBVIOUS
<1>2. TypeOK
  <2>1. job \in [Jobs -> Row]
    BY <1>1 DEF Row, Status
  <2>2. QueueTypeOK
    BY <2>1 DEF QueueTypeOK
  <2>3. faults \in [stops : 0..MaxStops, lapses : 0..MaxLapses,
                    dbErrors : 0..MaxDbErrors]
    BY WorkerAssumption
  <2>4. /\ proc \in [Workers -> ProcState]
        /\ poll \in [Workers -> {"idle", "polling"}]
        /\ active \in [Workers -> SUBSET Jobs]
    BY DEF ProcState
  <2>5. arriving \in SUBSET Claim /\ working \in SUBSET Claim
          /\ failing \in SUBSET Claim
    OBVIOUS
  <2> QED
    BY <2>2, <2>3, <2>4, <2>5 DEF TypeOK
<1>3. LeaseCoherent
  BY <1>1 DEF LeaseCoherent, InFlight
<1>4. AttemptsBounded
  <2>1. \A j \in Jobs : 0 <= MaxAttempts[j]
    BY QueueAssumption
  <2> QED
    BY <1>1, <2>1 DEF AttemptsBounded, Executions, Bodies
<1>5. ClaimsArePast /\ OneExecutionPerClaim
  BY DEF ClaimsArePast, OneExecutionPerClaim, Executions, Bodies
<1> QED
  BY <1>2, <1>3, <1>4, <1>5 DEF Invariant

LEMMA StepIsFine ==
    ASSUME Invariant, [Next]_vars
    PROVE  Invariant' /\ RowSteps
<1>1. QueueInv
  BY DEF Invariant, TypeOK, QueueInv, RowsBounded, AttemptsBounded
<1>2. QueueStatement /\ ProcessesOK' /\ BodiesStep
  BY NextIsFine DEF StepFine
<1>3. QueueInv' /\ RowSteps
  BY <1>1, <1>2, QueueStatementIsSound
<1>4. ClaimsOK' /\ AttemptsBounded' /\ ClaimsArePast' /\ OneExecutionPerClaim'
  BY <1>2, <1>3, BodiesStepKeepsClaims
<1> QED
  BY <1>2, <1>3, <1>4 DEF Invariant, TypeOK, QueueInv, ProcessesOK, ClaimsOK

LEMMA InvariantHolds == Spec => []Invariant
<1>1. Init => Invariant
  BY InitIsFine
<1>2. Invariant /\ [Next]_vars => Invariant'
  BY StepIsFine
<1> QED
  BY <1>1, <1>2, PTL DEF Spec

\* Every variable keeps its type, in every instance.
THEOREM TypesCorrect == Spec => []TypeOK
<1>1. Invariant => TypeOK
  BY DEF Invariant
<1> QED
  BY <1>1, InvariantHolds, PTL

\* A row has an owner exactly while it is in flight.
THEOREM LeasesCoherent == Spec => []LeaseCoherent
<1>1. Invariant => LeaseCoherent
  BY DEF Invariant
<1> QED
  BY <1>1, InvariantHolds, PTL

\* No body is started beyond the budget of its row.
THEOREM AttemptsStayBounded == Spec => []AttemptsBounded
<1>1. Invariant => AttemptsBounded
  BY DEF Invariant
<1> QED
  BY <1>1, InvariantHolds, PTL

\* Every execution comes from a claim that its row still remembers.
THEOREM ClaimsStayPast == Spec => []ClaimsArePast
<1>1. Invariant => ClaimsArePast
  BY DEF Invariant
<1> QED
  BY <1>1, InvariantHolds, PTL

\* No attempt is ever handed to two bodies: (revival, attempt) would be a
\* sound fencing token for settlements, though the code fences by worker id.
THEOREM ExecutionsUnique == Spec => []OneExecutionPerClaim
<1>1. Invariant => OneExecutionPerClaim
  BY DEF Invariant
<1> QED
  BY <1>1, InvariantHolds, PTL

\* The queue with its workers implements the lifecycle: the initial states map
\* to the initial state, each step to a step of some of the jobs.
THEOREM LifecycleImplemented == Spec => ImplementsLifecycle
<1> DEFINE S == [j \in Jobs |-> job[j].status]
           A == [j \in Jobs |-> job[j].attempt]
           R == [j \in Jobs |-> job[j].revival]
<1>1. Init => Lifecycle!Init
  BY DEF Init, QueueInit, Lifecycle!Init
<1>2. ASSUME Invariant, [Next]_vars
      PROVE  [Lifecycle!Next]_(Lifecycle!vars)
  <2>1. RowSteps
    BY <1>2, StepIsFine
  <2>2. ASSUME NEW j \in Jobs
        PROVE  Lifecycle!Step(j) \/ Lifecycle!Rest(j)
    <3>1. RowStep(j)
      BY <2>1, <2>2 DEF RowSteps
    <3>2. /\ S[j] = job[j].status /\ S'[j] = job'[j].status
          /\ A[j] = job[j].attempt /\ A'[j] = job'[j].attempt
          /\ R[j] = job[j].revival /\ R'[j] = job'[j].revival
      BY <2>2
    <3> QED
      BY <3>1, <3>2
         DEF RowStep, Terminal, Lifecycle!Step, Lifecycle!Rest,
             Lifecycle!Submit, Lifecycle!Start, Lifecycle!GiveBack,
             Lifecycle!End, Lifecycle!Cancel, Lifecycle!Revive,
             Lifecycle!Becomes, Lifecycle!Kept, Lifecycle!Ended
  <2> QED
    BY <2>2 DEF Lifecycle!Next
<1> QED
  BY <1>1, <1>2, InvariantHolds, PTL
     DEF Spec, ImplementsLifecycle, Lifecycle!Spec

-----------------------------------------------------------------------------
(***************************************************************************)
(* What the leases are for.  No step takes a live lease from its owner,    *)
(* whatever faults occur.  And as long as heartbeats are on time and       *)
(* answers arrive, a body that is supervised has the live lease of its     *)
(* job: one body per job, the limits of lanes and of processes for what    *)
(* really runs, and no lease without a body.                               *)
(***************************************************************************)

\* What a step does to the lease of one row.

\* A live lease stays as it is, and no lease is new.
RowUndisturbed(j) ==
    /\ LiveLease(j) => /\ job'[j].status = "in_flight" /\ job'[j].live
                       /\ job'[j].owner = job[j].owner
                       /\ job'[j].revival = job[j].revival
                       /\ job'[j].attempt = job[j].attempt
    /\ job'[j].status = "in_flight" =>
          job[j].status = "in_flight" /\ job'[j].owner = job[j].owner

RowsUndisturbed == \A j \in Jobs : RowUndisturbed(j)

LEMMA SameRowUndisturbed ==
    ASSUME NEW j \in Jobs, job'[j] = job[j]
    PROVE  RowUndisturbed(j)
BY DEF RowUndisturbed, LiveLease, InFlight

LEMMA LostRowUndisturbed ==
    ASSUME NEW j \in Jobs, ~LiveLease(j), job'[j].status # "in_flight"
    PROVE  RowUndisturbed(j)
BY DEF RowUndisturbed

\* What the SET clauses write into the lease columns.
LEMMA UnleasedRow ==
    ASSUME NEW r \in Row, NEW s, NEW b
    PROVE  /\ Unleased(r, s).status = s
           /\ [Unleased(r, s) EXCEPT !.ready = b].status = s
BY DEF Unleased, Row

LEMMA EnqueuedRow ==
    ASSUME Rows, NEW j \in Jobs, NEW rt \in BOOLEAN, NEW ready \in BOOLEAN
    PROVE  \/ Enqueued(j, rt, ready) = job[j]
           \/ ~InFlight(j) /\ Enqueued(j, rt, ready).status # "in_flight"
<1>1. job[j] \in Row
  BY DEF Rows
<1>2. CASE job[j].status = "absent"
  <2>1. Enqueued(j, rt, ready) = [job[j] EXCEPT !.status = "pending", !.ready = ready]
    BY <1>2 DEF Enqueued, Revives, Terminal
  <2> QED
    BY <1>1, <1>2, <2>1 DEF Row, InFlight
<1>3. CASE Revives(j, rt) /\ job[j].status # "absent"
  BY <1>1, <1>3 DEF Enqueued, Row, InFlight, Revives, Terminal, Unleased
<1>4. CASE job[j].status # "absent" /\ ~Revives(j, rt)
  BY <1>4 DEF Enqueued
<1> QED
  BY <1>2, <1>3, <1>4

LEMMA EnqueueUndisturbed ==
    ASSUME Rows, NEW js \in SUBSET Jobs, NEW rt \in BOOLEAN, NEW ready \in BOOLEAN,
           EnqueueWork(js, rt, ready)
    PROVE  RowsUndisturbed
<1> SUFFICES ASSUME NEW j \in Jobs PROVE RowUndisturbed(j)
  BY DEF RowsUndisturbed
<1>1. job'[j] = job[j] \/ job'[j] = Enqueued(j, rt, ready)
  BY DEF EnqueueWork
<1> QED
  BY <1>1, EnqueuedRow, SameRowUndisturbed, LostRowUndisturbed DEF LiveLease

LEMMA FailExhaustedRow ==
    ASSUME NEW l, NEW row, NEW j \in Jobs, row[j] \in Row
    PROVE  \/ FailExhausted(l, row)[j] = row[j]
           \/ ~LiveLease(j) /\ FailExhausted(l, row)[j].status # "in_flight"
BY UnleasedRow DEF FailExhausted, DeadAndExhausted, DeadLease

LEMMA ClaimNothingUndisturbed ==
    ASSUME Rows, NEW l \in Lanes, ClaimNothing(l)
    PROVE  RowsUndisturbed
<1> SUFFICES ASSUME NEW j \in Jobs PROVE RowUndisturbed(j)
  BY DEF RowsUndisturbed
<1>1. job[j] \in Row /\ job' = FailExhausted(l, job)
  BY DEF Rows, ClaimNothing
<1> QED
  BY <1>1, FailExhaustedRow, SameRowUndisturbed, LostRowUndisturbed

\* The claimed row had no live lease, and the others are left alone or swept.
LEMMA ClaimUndisturbed ==
    ASSUME Rows, NEW w \in Workers, NEW k \in Jobs, ClaimWork(w, k)
    PROVE  /\ ~LiveLease(k)
           /\ job'[k] = Claimed(job[k], w)
           /\ \A j \in Jobs \ {k} : RowUndisturbed(j)
<1>1. ~LiveLease(k) /\ ~Exhausted(k)
  BY DEF ClaimWork, Claimable, LiveLease, DeadLease, InFlight
<1> DEFINE claimed == [job EXCEPT ![k] = Claimed(@, w)]
<1>2. /\ job' = FailExhausted(LaneOf[k], claimed)
      /\ claimed[k] = Claimed(job[k], w)
      /\ \A j \in Jobs \ {k} : claimed[j] = job[j] /\ job[j] \in Row
  BY DEF ClaimWork, Rows
<1>3. job'[k] = Claimed(job[k], w)
  BY <1>1, <1>2 DEF FailExhausted, DeadAndExhausted
<1>4. ASSUME NEW j \in Jobs \ {k} PROVE RowUndisturbed(j)
  <2>1. \/ job'[j] = claimed[j]
        \/ ~LiveLease(j) /\ job'[j].status # "in_flight"
    <3>1. claimed[j] \in Row
      BY <1>2
    <3> HIDE DEF claimed
    <3> QED
      BY <1>2, <3>1, FailExhaustedRow
  <2> QED
    BY <1>2, <2>1, SameRowUndisturbed, LostRowUndisturbed
<1> QED
  BY <1>1, <1>3, <1>4

LEMMA CancelUndisturbed ==
    ASSUME Rows, NEW js \in SUBSET Jobs, CancelWork(js)
    PROVE  RowsUndisturbed
<1> SUFFICES ASSUME NEW j \in Jobs PROVE RowUndisturbed(j)
  BY DEF RowsUndisturbed
<1>1. \/ job'[j] = job[j]
      \/ job[j].status = "pending" /\ job'[j] = Unleased(job[j], "cancelled")
  BY DEF CancelWork
<1>2. job[j] \in Row
  BY DEF Rows
<1> QED
  BY <1>1, <1>2, UnleasedRow, SameRowUndisturbed, LostRowUndisturbed DEF LiveLease, InFlight

LEMMA ReclaimUndisturbed ==
    ASSUME Rows, NEW js \in SUBSET Jobs, ReclaimExpiredOrchestrationLeases(js)
    PROVE  RowsUndisturbed
<1> SUFFICES ASSUME NEW j \in Jobs PROVE RowUndisturbed(j)
  BY DEF RowsUndisturbed
<1>1. \/ job'[j] = job[j]
      \/ DeadLease(j) /\ job'[j] = Unleased(job[j], "pending")
  BY DEF ReclaimExpiredOrchestrationLeases
<1>2. job[j] \in Row
  BY DEF Rows
<1> QED
  BY <1>1, <1>2, UnleasedRow, SameRowUndisturbed, LostRowUndisturbed DEF DeadLease

\* A heartbeat of a lease; available_at of a row that nobody has claimed.
LEMMA HeartbeatUndisturbed ==
    ASSUME Rows, NEW w \in Workers, NEW k \in Jobs, HeartbeatWork(w, k)
    PROVE  RowsUndisturbed
<1> SUFFICES ASSUME NEW j \in Jobs PROVE RowUndisturbed(j)
  BY DEF RowsUndisturbed
<1>1. job'[j] = job[j] \/ job'[j] = [job[j] EXCEPT !.live = TRUE]
  BY DEF HeartbeatWork, Rows
<1>2. job[j] \in Row
  BY DEF Rows
<1> QED
  BY <1>1, <1>2 DEF RowUndisturbed, LiveLease, InFlight, Row

LEMMA ReadyUndisturbed ==
    ASSUME Rows, NEW k \in Jobs, NEW ready \in BOOLEAN,
           ReschedulePendingWork(k, ready) \/ BecomesReady(k)
    PROVE  RowsUndisturbed
<1> SUFFICES ASSUME NEW j \in Jobs PROVE RowUndisturbed(j)
  BY DEF RowsUndisturbed
<1>1. \E b \in BOOLEAN : job'[j] = job[j] \/ job'[j] = [job[j] EXCEPT !.ready = b]
  BY DEF ReschedulePendingWork, BecomesReady, Rows
<1>2. job[j] \in Row
  BY DEF Rows
<1> QED
  BY <1>1, <1>2 DEF RowUndisturbed, LiveLease, InFlight, Row

\* The owner's settlement ends its lease and disturbs no other.
LEMMA CompleteUndisturbed ==
    ASSUME Rows, NEW w \in Workers, NEW k \in Jobs, NEW ks \in SUBSET Jobs,
           NEW rt \in BOOLEAN, NEW ready \in BOOLEAN, CompleteWork(w, k, ks, rt, ready)
    PROVE  /\ job[k].owner = w /\ job'[k].status # "in_flight"
           /\ \A j \in Jobs \ {k} : RowUndisturbed(j)
<1>1. job[k].owner = w /\ job'[k] = Unleased(job[k], "done") /\ job[k] \in Row
  BY DEF CompleteWork, Owns, Rows
<1>2. ASSUME NEW j \in Jobs \ {k} PROVE RowUndisturbed(j)
  <2>1. job'[j] = job[j] \/ job'[j] = Enqueued(j, rt, ready)
    BY DEF CompleteWork
  <2> QED
    BY <2>1, EnqueuedRow, SameRowUndisturbed, LostRowUndisturbed DEF LiveLease
<1> QED
  BY <1>1, <1>2, UnleasedRow

LEMMA SettleUndisturbed ==
    ASSUME Rows, NEW w \in Workers, NEW k \in Jobs, RetryWork(w, k) \/ FailWork(w, k)
    PROVE  /\ job[k].owner = w /\ job'[k].status # "in_flight"
           /\ \A j \in Jobs \ {k} : RowUndisturbed(j)
<1>1. job[k].owner = w /\ job[k] \in Row
  BY DEF RetryWork, FailWork, Owns, Rows
<1>2. \E s \in {"failed", "pending"} :
         job'[k] = Unleased(job[k], s) \/ job'[k] = [Unleased(job[k], s) EXCEPT !.ready = FALSE]
  BY DEF RetryWork, FailWork, Rows
<1>3. \A j \in Jobs \ {k} : job'[j] = job[j]
  BY DEF RetryWork, FailWork, Rows
<1>4. job'[k].status # "in_flight"
  <2>1. \A s : /\ Unleased(job[k], s).status = s
               /\ [Unleased(job[k], s) EXCEPT !.ready = FALSE].status = s
    BY <1>1, UnleasedRow
  <2> QED
    BY <1>2, <2>1
<1> QED
  BY <1>1, <1>3, <1>4, SameRowUndisturbed

\* A process that boots releases the leases under its own id.
LEMMA ReleaseUndisturbed ==
    ASSUME Rows, NEW w \in Workers, ReleaseOwnedInFlightOnStartup(w)
    PROVE  \A j \in Jobs : IF Owns(w, j) THEN job'[j].status # "in_flight"
                           ELSE RowUndisturbed(j)
<1> SUFFICES ASSUME NEW j \in Jobs
             PROVE  IF Owns(w, j) THEN job'[j].status # "in_flight" ELSE RowUndisturbed(j)
  OBVIOUS
<1>1. job[j] \in Row
  BY DEF Rows
<1>2. CASE Owns(w, j)
  <2>1. job'[j] = [Unleased(job[j], "pending") EXCEPT !.ready = TRUE]
    BY <1>2 DEF ReleaseOwnedInFlightOnStartup
  <2> QED
    BY <1>1, <1>2, <2>1, UnleasedRow
<1>3. CASE ~Owns(w, j)
  BY <1>3, SameRowUndisturbed DEF ReleaseOwnedInFlightOnStartup
<1> QED
  BY <1>2, <1>3

LEMMA StayingUndisturbed ==
    ASSUME UNCHANGED job
    PROVE  RowsUndisturbed
BY SameRowUndisturbed DEF RowsUndisturbed

-----------------------------------------------------------------------------
\* Live leases are respected.

\* The owner of a row stays, or gives the lease up itself.
OwnerRespected(j) ==
    (LiveLease(j) /\ job'[j].owner # job[j].owner) =>
       \/ \E c \in Bodies : /\ c.job = j /\ c.worker = job[j].owner
                            /\ c \notin working'
       \/ proc[job[j].owner] = "booting"

OwnersRespected == \A j \in Jobs : OwnerRespected(j)

LEMMA UndisturbedIsRespected ==
    ASSUME RowsUndisturbed
    PROVE  OwnersRespected
BY DEF RowsUndisturbed, RowUndisturbed, OwnersRespected, OwnerRespected

LEMMA SettledIsRespected ==
    ASSUME NEW c \in Bodies, c \notin working', job[c.job].owner = c.worker,
           \A j \in Jobs \ {c.job} : RowUndisturbed(j)
    PROVE  OwnersRespected
BY DEF RowUndisturbed, OwnersRespected, OwnerRespected

LEMMA LeaseExpiresIsRespected ==
    ASSUME Rows, NEW k \in Jobs, LeaseExpires(k)
    PROVE  OwnersRespected
BY DEF Rows, Row, LeaseExpires, OwnersRespected, OwnerRespected

LEMMA StepRespectsLeases ==
    ASSUME Invariant, [Next]_vars
    PROVE  OwnersRespected
<1>1. /\ Rows /\ arriving \subseteq Claim /\ working \subseteq Claim /\ failing \subseteq Claim
      /\ ReconcileJob \in Jobs /\ ProductJobs \subseteq Jobs /\ SendJobs \subseteq Jobs
      /\ \A j \in Jobs : Children[j] \subseteq Jobs
      /\ \A c \in Claim : c.worker \in Workers /\ c.job \in Jobs
  BY WorkerAssumption DEF Invariant, TypeOK, QueueTypeOK, Rows, ProductJobs, Claim
<1>2. working \cap failing = {}
  BY DEF Invariant, OneExecutionPerClaim
<1>3. UNCHANGED job => OwnersRespected
  BY StayingUndisturbed, UndisturbedIsRespected
<1>4. CASE UNCHANGED vars
  BY <1>3, <1>4 DEF vars, queueVars
<1>5. ASSUME NEW w \in Workers, Boot(w) PROVE OwnersRespected
  <2>1. CASE BootRelease(w)
    BY <1>1, <2>1, ReleaseUndisturbed
       DEF BootRelease, Owns, RowUndisturbed, OwnersRespected, OwnerRespected
  <2>2. CASE BootReconcile(w)
    BY <1>1, <2>2, EnqueueUndisturbed, UndisturbedIsRespected DEF BootReconcile
  <2>3. CASE BootRegister(w) \/ BootReleaseError(w) \/ StopDuringBoot(w)
    BY <1>3, <2>3 DEF BootRegister, BootReleaseError, StopDuringBoot, RegisterWorker,
       UnregisterWorker, queueVars
  <2> QED
    BY <1>5, <2>1, <2>2, <2>3 DEF Boot
<1>6. ASSUME NEW w \in Workers, Poll(w) PROVE OwnersRespected
  <2>1. ASSUME NEW j \in Jobs, PollClaim(w, j) PROVE OwnersRespected
    <3>1. ~LiveLease(j) /\ \A k \in Jobs \ {j} : RowUndisturbed(k)
      BY <1>1, <2>1, ClaimUndisturbed DEF PollClaim
    <3> QED
      BY <3>1 DEF RowUndisturbed, OwnersRespected, OwnerRespected
  <2>2. ASSUME NEW l \in Lanes, PollClaimNothing(w, l) PROVE OwnersRespected
    BY <1>1, <2>2, ClaimNothingUndisturbed, UndisturbedIsRespected DEF PollClaimNothing
  <2>3. CASE PollBegin(w) \/ PollEnd(w)
    BY <1>3, <2>3 DEF PollBegin, PollEnd, queueVars
  <2> QED
    BY <1>6, <2>1, <2>2, <2>3 DEF Poll
<1>7. ASSUME NEW w \in Workers, Timers(w) PROVE OwnersRespected
  <2>1. CASE WorkerHeartbeat(w)
    BY <1>3, <2>1 DEF WorkerHeartbeat, HeartbeatWorker
  <2>2. ASSUME NEW js \in SUBSET Jobs, ReclaimTimer(w, js) PROVE OwnersRespected
    BY <1>1, <2>2, ReclaimUndisturbed, UndisturbedIsRespected DEF ReclaimTimer
  <2>3. CASE ReconcileTimer(w)
    BY <1>1, <2>3, EnqueueUndisturbed, UndisturbedIsRespected DEF ReconcileTimer
  <2> QED
    BY <1>7, <2>1, <2>2, <2>3 DEF Timers
<1>8. ASSUME NEW w \in Workers, Shutdown(w) PROVE OwnersRespected
  BY <1>3, <1>8 DEF Shutdown, Stop, Unregister, Exit, Crash, ProcessGone, UnregisterWorker,
     queueVars
<1>9. CASE Arrival
  BY <1>3, <1>9 DEF Arrival, BeginJob, LoseClaim, queueVars
<1>10. CASE Execution
  <2>1. ASSUME NEW c \in working, NEW ks \in SUBSET Children[c.job], NEW rt \in BOOLEAN,
               NEW ready \in BOOLEAN,
               CompleteJob(c, ks, rt, ready) \/ CompleteUnacknowledged(c, ks, rt, ready)
        PROVE  OwnersRespected
    <3>1. CompleteWork(c.worker, c.job, ks, rt, ready) /\ c \notin working'
      BY <2>1 DEF CompleteJob, CompleteUnacknowledged, BodyEnds
    <3>2. c.worker \in Workers /\ c.job \in Jobs /\ ks \in SUBSET Jobs
      BY <1>1, <2>1
    <3> QED
      BY <1>1, <2>1, <3>1, <3>2, CompleteUndisturbed, SettledIsRespected DEF Bodies
  <2>2. ASSUME NEW c \in failing, Settles(c) PROVE OwnersRespected
    <3>1. CASE RetryWork(c.worker, c.job) \/ FailWork(c.worker, c.job)
      <4>1. c.worker \in Workers /\ c.job \in Jobs /\ c \in Bodies
        BY <1>1, <2>2 DEF Bodies
      <4>2. c \notin working'
        BY <2>2 DEF Settles, RetryJob, FailJob, BodyEnds
      <4> QED
        BY <1>1, <3>1, <4>1, <4>2, SettleUndisturbed, SettledIsRespected
    <3>2. CASE UNCHANGED queueVars
      BY <1>3, <3>2 DEF queueVars
    <3> QED
      BY <2>2, <3>1, <3>2 DEF Settles, RetryJob, FailJob
  <2>3. ASSUME NEW c \in working, HandlerThrows(c) \/ CompletionLeaseLost(c)
        PROVE  OwnersRespected
    BY <1>3, <2>3 DEF HandlerThrows, CompletionLeaseLost, queueVars
  <2>4. ASSUME NEW c \in working, NEW ws \in SUBSET Workers, ReconcileCollects(c, ws)
        PROVE  OwnersRespected
    BY <1>3, <2>4 DEF ReconcileCollects, GarbageCollectStaleWorkers
  <2>5. ASSUME NEW c \in failing, SettlementError(c) PROVE OwnersRespected
    BY <1>3, <2>5 DEF SettlementError, queueVars
  <2>6. ASSUME NEW c \in Bodies, JobHeartbeat(c) PROVE OwnersRespected
    <3>1. c.worker \in Workers /\ c.job \in Jobs
      BY <1>1, <2>6 DEF Bodies
    <3> QED
      BY <1>1, <2>6, <3>1, HeartbeatUndisturbed, UndisturbedIsRespected DEF JobHeartbeat
  <2> QED
    BY <1>10, <2>1, <2>2, <2>3, <2>4, <2>5, <2>6 DEF Execution, Completes
<1>11. CASE Clock
  <2>1. ASSUME NEW j \in Jobs, OrphanedLeaseExpires(j) \/ LeaseLapses(j)
        PROVE  OwnersRespected
    BY <1>1, <2>1, LeaseExpiresIsRespected DEF OrphanedLeaseExpires, LeaseLapses
  <2>2. ASSUME NEW j \in Jobs, BackoffEnds(j) PROVE OwnersRespected
    BY <1>1, <2>2, ReadyUndisturbed, UndisturbedIsRespected DEF BackoffEnds
  <2>3. ASSUME NEW w \in Workers, DeadWorkerGoesStale(w) \/ WorkerLapses(w)
        PROVE  OwnersRespected
    BY <1>3, <2>3 DEF DeadWorkerGoesStale, WorkerLapses, GoesStale
  <2> QED
    BY <1>11, <2>1, <2>2, <2>3 DEF Clock
<1>12. CASE Callers
  <2>1. ASSUME NEW j \in ProductJobs, NEW rt \in BOOLEAN, NEW ready \in BOOLEAN,
               Dispatch(j, rt, ready)
        PROVE  OwnersRespected
    BY <1>1, <2>1, EnqueueUndisturbed, UndisturbedIsRespected DEF Dispatch
  <2>2. ASSUME NEW js \in SUBSET ProductJobs, Cancel(js) PROVE OwnersRespected
    BY <1>1, <2>2, CancelUndisturbed, UndisturbedIsRespected DEF Cancel
  <2>3. ASSUME NEW j \in SendJobs, NEW ready \in BOOLEAN, Reschedule(j, ready)
        PROVE  OwnersRespected
    BY <1>1, <2>3, ReadyUndisturbed, UndisturbedIsRespected DEF Reschedule
  <2>4. ASSUME NEW l \in PausableLanes, OperatorPauses(l) PROVE OwnersRespected
    BY <1>3, <2>4 DEF OperatorPauses, SetLanePaused
  <2> QED
    BY <1>12, <2>1, <2>2, <2>3, <2>4 DEF Callers
<1> QED
  BY <1>4, <1>5, <1>6, <1>7, <1>8, <1>9, <1>10, <1>11, <1>12 DEF Next

\* Whatever faults occur, no claim, sweep, release, revival, cancellation or
\* late settlement of another worker takes a live lease from its owner.
THEOREM LiveLeasesRespected == Spec => LiveLeaseRespected
<1>1. Invariant /\ [Next]_vars =>
        [\A j \in Jobs :
         (LiveLease(j) /\ job'[j].owner # job[j].owner) =>
            \/ \E c \in Bodies : /\ c.job = j /\ c.worker = job[j].owner
                                 /\ c \notin working'
            \/ proc[job[j].owner] = "booting"]_vars
  BY StepRespectsLeases DEF OwnersRespected, OwnerRespected
<1> QED
  BY <1>1, InvariantHolds, PTL DEF Spec, LiveLeaseRespected


-----------------------------------------------------------------------------
\* Heartbeats on time and answers that arrive.

Timely == MaxLapses = 0 /\ MaxDbErrors = 0

Up == {"booting", "released", "running", "stopping"}

\* The row of a process that is up is fresh: it is registered before all else
\* and deleted last.
UpIsFresh == \A w \in Workers : proc[w] \in Up => registry[w] = "fresh"

\* Bodies run in processes that have been polling.
BodiesHaveProcesses ==
    \A c \in Executions : proc[c.worker] \in {"running", "stopping", "unregistered"}

\* The claim is what its row says, and the lease is alive.
Holds(c) ==
    /\ job[c.job].status = "in_flight" /\ job[c.job].live
    /\ job[c.job].owner = c.worker
    /\ job[c.job].revival = c.revival
    /\ job[c.job].attempt = c.attempt

SupervisedHold == \A c \in Supervised : Holds(c)

\* The active map is keyed by job id: no process has two bodies of a job ...
OneBodyPerKey ==
    \A c, d \in Executions : (c.worker = d.worker /\ c.job = d.job) => c = d

\* ... and it waits for one claim at a time.
OneArrival == \A c, d \in arriving : c.worker = d.worker => c = d

LeasesFinite == IsFiniteSet({j \in Jobs : InFlight(j)})

BodiesFinite == IsFiniteSet(Executions)

TimelyInvariant ==
    /\ Timely
    /\ Invariant
    /\ UpIsFresh
    /\ BodiesHaveProcesses
    /\ SupervisedHold
    /\ OneBodyPerKey
    /\ OneArrival
    /\ EveryLeaseHasABody
    /\ LeasesFinite /\ BodiesFinite
    /\ ConcurrencyBounded
    /\ LaneLimitOnBodies

-----------------------------------------------------------------------------
\* A supervised body has a live lease, so nothing disturbs its row.
LEMMA SupervisedIsLive ==
    ASSUME TimelyInvariant, NEW c \in Supervised
    PROVE  c.job \in Jobs /\ c.worker \in Workers /\ LiveLease(c.job) /\ Holds(c)
<1>1. c \in Claim
  BY DEF Supervised, Executions, Bodies, TimelyInvariant, Invariant, TypeOK
<1>2. c.job \in Jobs /\ c.worker \in Workers
  BY <1>1 DEF Claim
<1>3. proc[c.worker] \in Up
  BY DEF Supervised, TimelyInvariant, BodiesHaveProcesses, Up
<1>4. registry[c.worker] = "fresh" /\ Holds(c)
  BY <1>2, <1>3 DEF TimelyInvariant, UpIsFresh, SupervisedHold
<1> QED
  BY <1>2, <1>4 DEF Holds, LiveLease, InFlight, Healthy

\* One body per job among the supervised: the claim of each is what the row says.
LEMMA HoldersAreAlone == TimelyInvariant => OneBodyPerJob
<1> SUFFICES ASSUME TimelyInvariant, NEW c \in Supervised, NEW d \in Supervised,
                    c.job = d.job
             PROVE  c = d
  BY DEF OneBodyPerJob
<1>1. c.revival = d.revival /\ c.attempt = d.attempt
  BY DEF TimelyInvariant, SupervisedHold, Holds
<1>2. c \in Executions /\ d \in Executions
  BY DEF Supervised
<1> QED
  BY <1>1, <1>2 DEF TimelyInvariant, Invariant, OneExecutionPerClaim

LEMMA SubsetsAreSmaller ==
    ASSUME NEW S, NEW T, IsFiniteSet(S), T \subseteq S
    PROVE  IsFiniteSet(T) /\ Cardinality(T) \in Nat /\ Cardinality(S) \in Nat
              /\ Cardinality(T) <= Cardinality(S)
BY FS_Subset, FS_CardinalityType

InLane(l) == {c \in Supervised : LaneOf[c.job] = l}

\* Where no body is new, the limits stay kept.
NoNewBodies ==
    /\ Executions' \subseteq Executions
    /\ Supervised' \subseteq Supervised
    /\ arriving' \subseteq arriving
    /\ \A j \in Jobs : job'[j].status = "in_flight" => job[j].status = "in_flight"

LEMMA LimitsStayKept ==
    ASSUME TimelyInvariant, NoNewBodies
    PROVE  /\ OneBodyPerKey' /\ OneArrival' /\ LeasesFinite' /\ BodiesFinite'
           /\ LaneLimitOnBodies'
           /\ \A w \in Workers : Cardinality(Of(w, Executions)') <= MaxConcurrency
<1>1. OneBodyPerKey' /\ OneArrival'
  BY DEF TimelyInvariant, OneBodyPerKey, OneArrival, NoNewBodies
<1>2. LeasesFinite'
  <2>1. {j \in Jobs : InFlight(j)}' \subseteq {j \in Jobs : InFlight(j)}
    BY DEF NoNewBodies, InFlight
  <2> QED
    BY <2>1, SubsetsAreSmaller DEF TimelyInvariant, LeasesFinite
<1>3. BodiesFinite'
  BY SubsetsAreSmaller DEF TimelyInvariant, BodiesFinite, NoNewBodies
<1>4. ASSUME NEW l \in Lanes
      PROVE  Cardinality(InLane(l)') <= LaneLimit[l]
  <2>1. InLane(l)' \subseteq InLane(l) /\ InLane(l) \subseteq Executions
    BY DEF NoNewBodies, InLane, Supervised
  <2>2. Cardinality(InLane(l)) <= LaneLimit[l]
    BY DEF TimelyInvariant, LaneLimitOnBodies, InLane
  <2>3. IsFiniteSet(InLane(l))
    BY <2>1, SubsetsAreSmaller DEF TimelyInvariant, BodiesFinite
  <2>4. LaneLimit[l] \in Nat
    BY QueueAssumption
  <2>5. /\ Cardinality(InLane(l)') \in Nat /\ Cardinality(InLane(l)) \in Nat
        /\ Cardinality(InLane(l)') <= Cardinality(InLane(l))
    BY <2>1, <2>3, SubsetsAreSmaller
  <2> QED
    BY <2>2, <2>4, <2>5
<1>5. ASSUME NEW w \in Workers
      PROVE  Cardinality(Of(w, Executions)') <= MaxConcurrency
  <2>1. Of(w, Executions)' \subseteq Of(w, Executions) /\ Of(w, Executions) \subseteq Executions
    BY DEF NoNewBodies, Of
  <2>2. Cardinality(Of(w, Executions)) <= MaxConcurrency
    BY DEF TimelyInvariant, ConcurrencyBounded
  <2>3. IsFiniteSet(Of(w, Executions))
    BY <2>1, SubsetsAreSmaller DEF TimelyInvariant, BodiesFinite
  <2>4. MaxConcurrency \in Nat
    BY WorkerAssumption
  <2>5. /\ Cardinality(Of(w, Executions)') \in Nat /\ Cardinality(Of(w, Executions)) \in Nat
        /\ Cardinality(Of(w, Executions)') <= Cardinality(Of(w, Executions))
    BY <2>1, <2>3, SubsetsAreSmaller
  <2> QED
    BY <2>2, <2>4, <2>5
<1>6. LaneLimitOnBodies'
  BY <1>4 DEF LaneLimitOnBodies, InLane
<1> QED
  BY <1>1, <1>2, <1>3, <1>5, <1>6

\* What the processes may do while their bodies stay.
ProcsMove ==
    \A w \in Workers :
        \/ proc'[w] = proc[w]
        \/ proc[w] = "down" /\ proc'[w] = "booting"
        \/ proc[w] \in {"booting", "released"} /\ proc'[w] = "down"
        \/ proc[w] = "released" /\ proc'[w] = "running"
        \/ proc[w] = "running" /\ proc'[w] = "stopping"
        \/ proc[w] = "stopping" /\ proc'[w] = "unregistered"

\* A step that moves no body and takes no supervised row away.
Idle ==
    /\ UNCHANGED <<active, bodyVars>>
    /\ ProcsMove
    /\ UpIsFresh'
    /\ \A j \in Jobs :
          \/ RowUndisturbed(j)
          \/ /\ ~Heartbeating(j)
             /\ job'[j].status = "in_flight" => job[j].status = "in_flight"
             /\ job'[j].owner = job[j].owner

LEMMA IdleKeeps ==
    ASSUME TimelyInvariant, Invariant', Idle
    PROVE  TimelyInvariant'
<1> USE DEF TimelyInvariant
<1>1. Executions' = Executions /\ Bodies' = Bodies /\ arriving' = arriving /\ active' = active
  BY DEF Idle, bodyVars, Executions, Bodies
<1>2. \A j \in Jobs : job'[j].status = "in_flight" =>
          job[j].status = "in_flight" /\ job'[j].owner = job[j].owner
  BY DEF Idle, RowUndisturbed
<1>3. \A c \in Executions : c.job \in Jobs /\ c.worker \in Workers
  BY DEF Invariant, TypeOK, Executions, Bodies, Claim
<1>4. BodiesHaveProcesses'
  BY <1>1, <1>3 DEF BodiesHaveProcesses, Idle, ProcsMove
<1>5. Supervised' \subseteq Supervised
  BY <1>1, <1>3 DEF Supervised, BodiesHaveProcesses, Idle, ProcsMove
<1>6. SupervisedHold'
  <2> SUFFICES ASSUME NEW c \in Supervised' PROVE Holds(c)'
    BY DEF SupervisedHold
  <2>1. c \in Supervised /\ c.job \in Jobs /\ LiveLease(c.job) /\ Holds(c)
    BY <1>5, SupervisedIsLive
  <2>2. Heartbeating(c.job)
    BY <2>1 DEF Heartbeating, Holds, Supervised
  <2>3. RowUndisturbed(c.job)
    BY <2>1, <2>2 DEF Idle
  <2> QED
    BY <2>1, <2>3 DEF RowUndisturbed, Holds
<1>7. EveryLeaseHasABody'
  <2> SUFFICES ASSUME NEW j \in Jobs, InFlight(j)',
                      proc'[job'[j].owner] \in {"released", "running", "stopping"}
               PROVE  \E c \in Executions : c.job = j /\ c.worker = job'[j].owner
    BY <1>1 DEF EveryLeaseHasABody
  <2>1. InFlight(j) /\ job'[j].owner = job[j].owner
    BY <1>2 DEF InFlight
  <2>2. job[j].owner \in Workers
    BY <2>1 DEF Invariant, TypeOK, QueueTypeOK, Row, LeaseCoherent
  <2>3. proc[job[j].owner] \in {"released", "running", "stopping"}
    BY <2>1, <2>2 DEF Idle, ProcsMove
  <2> QED
    BY <2>1, <2>3 DEF EveryLeaseHasABody
<1>8. NoNewBodies
  BY <1>1, <1>2, <1>5 DEF NoNewBodies
<1>9. ConcurrencyBounded'
  <2>1. \A w \in Workers : Of(w, Bodies)' = Of(w, Bodies) /\ active'[w] = active[w]
    BY <1>1 DEF Of
  <2> QED
    BY <1>8, <2>1, LimitsStayKept DEF ConcurrencyBounded
<1> QED
  BY <1>4, <1>6, <1>7, <1>8, <1>9, LimitsStayKept DEF Idle, Timely

\* A claim becomes a body, or a body enters its catch block.
Moves ==
    /\ UNCHANGED <<queueVars, proc>>
    /\ Executions' = Executions /\ arriving' \subseteq arriving
    /\ \A w \in Workers : active'[w] = {c.job : c \in Of(w, Bodies)'}

LEMMA MovesKeeps ==
    ASSUME TimelyInvariant, Invariant', Moves
    PROVE  TimelyInvariant'
<1> USE DEF TimelyInvariant
<1>1. job' = job /\ registry' = registry /\ proc' = proc /\ Executions' = Executions
  BY DEF Moves, queueVars
<1>2. Supervised' = Supervised
  BY <1>1 DEF Supervised
<1>3. NoNewBodies
  BY <1>1, <1>2 DEF NoNewBodies, Moves
<1>4. UpIsFresh' /\ BodiesHaveProcesses' /\ SupervisedHold' /\ EveryLeaseHasABody'
  BY <1>1, <1>2
     DEF UpIsFresh, BodiesHaveProcesses, SupervisedHold, Holds, EveryLeaseHasABody, InFlight
<1>5. ConcurrencyBounded'
  BY <1>3, LimitsStayKept DEF ConcurrencyBounded, Moves
<1> QED
  BY <1>3, <1>4, <1>5, LimitsStayKept DEF Timely

\* A body settles: the lease it holds ends, if it still holds it.
BodySettles(c) ==
    /\ c \in Bodies
    /\ UNCHANGED <<registry, proc, arriving>>
    /\ Bodies' = Bodies \ {c}
    /\ active' = [active EXCEPT ![c.worker] = @ \ {c.job}]
    /\ IF Owns(c.worker, c.job)
       THEN job'[c.job].status # "in_flight" /\ \A j \in Jobs \ {c.job} : RowUndisturbed(j)
       ELSE RowsUndisturbed

LEMMA BodySettlesKeeps ==
    ASSUME TimelyInvariant, Invariant', NEW c, BodySettles(c)
    PROVE  TimelyInvariant'
<1> USE DEF TimelyInvariant
<1>1. \A e \in Executions : e.job \in Jobs /\ e.worker \in Workers
  BY DEF Invariant, TypeOK, Executions, Bodies, Claim
<1>2. c \in Executions /\ c.job \in Jobs /\ c.worker \in Workers
  BY <1>1 DEF BodySettles, Executions
<1>3. Executions' = Executions \ {c}
  BY DEF BodySettles, Executions, Invariant, OneExecutionPerClaim
<1>4. Supervised' = Supervised \ {c}
  BY <1>3 DEF Supervised, BodySettles
<1>5. \A j \in Jobs : \/ RowUndisturbed(j)
                      \/ j = c.job /\ job'[j].status # "in_flight" /\ Owns(c.worker, j)
  BY DEF BodySettles, RowsUndisturbed
<1>6. NoNewBodies
  BY <1>3, <1>4, <1>5 DEF NoNewBodies, RowUndisturbed, BodySettles
<1>7. UpIsFresh' /\ BodiesHaveProcesses'
  BY <1>3 DEF UpIsFresh, BodiesHaveProcesses, BodySettles
<1>8. SupervisedHold'
  <2> SUFFICES ASSUME NEW d \in Supervised, d # c PROVE Holds(d)'
    BY <1>4 DEF SupervisedHold
  <2>1. d \in Executions /\ d.job \in Jobs /\ LiveLease(d.job) /\ Holds(d)
    BY SupervisedIsLive DEF Supervised
  <2>2. ~(d.job = c.job /\ Owns(c.worker, d.job))
    BY <1>2, <2>1 DEF Owns, Holds, OneBodyPerKey
  <2> QED
    BY <1>5, <2>1, <2>2 DEF RowUndisturbed, Holds
<1>9. EveryLeaseHasABody'
  <2> SUFFICES ASSUME NEW j \in Jobs, InFlight(j)',
                      proc[job'[j].owner] \in {"released", "running", "stopping"}
               PROVE  \E e \in Executions \ {c} : e.job = j /\ e.worker = job'[j].owner
    BY <1>3 DEF EveryLeaseHasABody, BodySettles
  <2>1. RowUndisturbed(j) /\ InFlight(j) /\ job'[j].owner = job[j].owner
    BY <1>5 DEF RowUndisturbed, InFlight
  <2>2. PICK e \in Executions : e.job = j /\ e.worker = job[j].owner
    BY <2>1 DEF EveryLeaseHasABody
  <2>3. e # c
    BY <2>1, <2>2 DEF BodySettles, Owns, InFlight
  <2> QED
    BY <2>1, <2>2, <2>3
<1>10. ConcurrencyBounded'
  <2> SUFFICES ASSUME NEW w \in Workers
               PROVE  active'[w] = {e.job : e \in Of(w, Bodies)'}
    BY <1>6, LimitsStayKept DEF ConcurrencyBounded
  <2>1. active[w] = {e.job : e \in Of(w, Bodies)} /\ active \in [Workers -> SUBSET Jobs]
    BY DEF ConcurrencyBounded, Invariant, TypeOK
  <2>2. Of(w, Bodies)' = Of(w, Bodies) \ {c}
    BY DEF Of, BodySettles
  <2>3. CASE w = c.worker
    <3>1. active'[w] = active[w] \ {c.job}
      BY <1>2, <2>1, <2>3 DEF BodySettles
    <3>2. \A e \in Of(w, Bodies) : e.job = c.job => e = c
      BY <1>2, <2>3 DEF OneBodyPerKey, Of, Executions
    <3>3. c \in Of(w, Bodies)
      BY <2>3 DEF Of, BodySettles
    <3> QED
      BY <2>1, <2>2, <3>1, <3>2, <3>3
  <2>4. CASE w # c.worker
    <3>1. active'[w] = active[w]
      BY <1>2, <2>1, <2>4 DEF BodySettles
    <3>2. c \notin Of(w, Bodies)
      BY <2>4 DEF Of
    <3> QED
      BY <2>1, <2>2, <3>1, <3>2
  <2> QED
    BY <2>3, <2>4
<1> QED
  BY <1>6, <1>7, <1>8, <1>9, <1>10, LimitsStayKept DEF Timely

\* A process is gone with its bodies.
LEMMA ProcessGoneKeeps ==
    ASSUME TimelyInvariant, Invariant', NEW w \in Workers, ProcessGone(w)
    PROVE  TimelyInvariant'
<1> USE DEF TimelyInvariant
<1>1. \A e \in Executions : e.job \in Jobs /\ e.worker \in Workers
  BY DEF Invariant, TypeOK, Executions, Bodies, Claim
<1>2. /\ Executions' = {e \in Executions : e.worker # w}
      /\ Bodies' = {e \in Bodies : e.worker # w}
      /\ arriving' \subseteq arriving
  BY DEF ProcessGone, Executions, Bodies, ArrivingAt, Of
<1>3. /\ job' = job /\ registry' = registry
      /\ proc'[w] = "down" /\ active'[w] = {}
      /\ \A v \in Workers \ {w} : proc'[v] = proc[v] /\ active'[v] = active[v]
  BY DEF ProcessGone, queueVars, Invariant, TypeOK
<1>4. Supervised' \subseteq Supervised
  BY <1>1, <1>2, <1>3 DEF Supervised
<1>5. NoNewBodies
  BY <1>2, <1>3, <1>4 DEF NoNewBodies
<1>6. UpIsFresh'
  BY <1>3 DEF UpIsFresh, Up
<1>7. BodiesHaveProcesses'
  BY <1>1, <1>2, <1>3 DEF BodiesHaveProcesses
<1>8. SupervisedHold'
  BY <1>3, <1>4 DEF SupervisedHold, Holds
<1>9. EveryLeaseHasABody'
  <2> SUFFICES ASSUME NEW j \in Jobs, InFlight(j),
                      proc'[job[j].owner] \in {"released", "running", "stopping"}
               PROVE  \E e \in Executions' : e.job = j /\ e.worker = job[j].owner
    BY <1>3 DEF EveryLeaseHasABody, InFlight
  <2>1. job[j].owner \in Workers \ {w}
    BY <1>3 DEF Invariant, TypeOK, QueueTypeOK, Row, LeaseCoherent
  <2>2. PICK e \in Executions : e.job = j /\ e.worker = job[j].owner
    BY <1>3, <2>1 DEF EveryLeaseHasABody
  <2> QED
    BY <1>2, <2>1, <2>2
<1>10. ConcurrencyBounded'
  <2> SUFFICES ASSUME NEW v \in Workers
               PROVE  active'[v] = {e.job : e \in Of(v, Bodies)'}
    BY <1>5, LimitsStayKept DEF ConcurrencyBounded
  <2>1. CASE v = w
    <3>1. Of(v, Bodies)' = {}
      BY <1>2, <2>1 DEF Of
    <3> QED
      BY <1>3, <2>1, <3>1
  <2>2. CASE v # w
    <3>1. Of(v, Bodies)' = Of(v, Bodies)
      BY <1>2, <2>2 DEF Of
    <3> QED
      BY <1>3, <2>2, <3>1 DEF ConcurrencyBounded
  <2> QED
    BY <2>1, <2>2
<1> QED
  BY <1>5, <1>6, <1>7, <1>8, <1>9, <1>10, LimitsStayKept DEF Timely

\* A process that boots takes its old leases back before it polls.
LEMMA BootReleaseKeeps ==
    ASSUME TimelyInvariant, Invariant', NEW w \in Workers, BootRelease(w)
    PROVE  TimelyInvariant'
<1> USE DEF TimelyInvariant
<1>1. \A e \in Executions : e.job \in Jobs /\ e.worker \in Workers
  BY DEF Invariant, TypeOK, Executions, Bodies, Claim
<1>2. /\ Executions' = Executions /\ Bodies' = Bodies
      /\ UNCHANGED <<arriving, active, registry>>
  BY DEF BootRelease, bodyVars, Executions, Bodies, ReleaseOwnedInFlightOnStartup
<1>3. /\ proc[w] = "booting" /\ proc'[w] = "released"
      /\ \A v \in Workers \ {w} : proc'[v] = proc[v]
  BY DEF BootRelease, Invariant, TypeOK
<1>4. \A j \in Jobs : IF Owns(w, j) THEN job'[j].status # "in_flight" ELSE RowUndisturbed(j)
  BY ReleaseUndisturbed DEF BootRelease, Invariant, TypeOK, QueueTypeOK, Rows
<1>5. \A e \in Executions : e.worker # w
  BY <1>3 DEF BodiesHaveProcesses
<1>6. Supervised' = Supervised
  BY <1>1, <1>2, <1>3, <1>5 DEF Supervised
<1>7. NoNewBodies
  BY <1>2, <1>4, <1>6 DEF NoNewBodies, RowUndisturbed
<1>8. UpIsFresh' /\ BodiesHaveProcesses'
  BY <1>1, <1>2, <1>3, <1>5 DEF UpIsFresh, BodiesHaveProcesses, Up
<1>9. SupervisedHold'
  <2> SUFFICES ASSUME NEW c \in Supervised PROVE Holds(c)'
    BY <1>6 DEF SupervisedHold
  <2>1. c \in Executions /\ c.job \in Jobs /\ LiveLease(c.job) /\ Holds(c)
    BY SupervisedIsLive DEF Supervised
  <2>2. RowUndisturbed(c.job)
    BY <1>4, <1>5, <2>1 DEF Owns, Holds
  <2> QED
    BY <2>1, <2>2 DEF RowUndisturbed, Holds
<1>10. EveryLeaseHasABody'
  <2> SUFFICES ASSUME NEW j \in Jobs, InFlight(j)',
                      proc'[job'[j].owner] \in {"released", "running", "stopping"}
               PROVE  \E e \in Executions : e.job = j /\ e.worker = job'[j].owner
    BY <1>2 DEF EveryLeaseHasABody
  <2>1. InFlight(j) /\ job'[j].owner = job[j].owner /\ ~Owns(w, j)
    BY <1>4 DEF RowUndisturbed, InFlight
  <2>2. job[j].owner \in Workers \ {w}
    BY <2>1 DEF Owns, Invariant, TypeOK, QueueTypeOK, Row, LeaseCoherent
  <2> QED
    BY <1>3, <2>1, <2>2 DEF EveryLeaseHasABody
<1>11. ConcurrencyBounded'
  <2>1. \A v \in Workers : Of(v, Bodies)' = Of(v, Bodies) /\ active'[v] = active[v]
    BY <1>2 DEF Of
  <2> QED
    BY <1>7, <2>1, LimitsStayKept DEF ConcurrencyBounded
<1> QED
  BY <1>7, <1>8, <1>9, <1>10, <1>11, LimitsStayKept DEF Timely

LEMMA OneMore ==
    ASSUME NEW S, NEW x, IsFiniteSet(S)
    PROVE  Cardinality(S \cup {x}) <= Cardinality(S) + 1
<1>1. Cardinality(S) \in Nat
  BY FS_CardinalityType
<1>2. Cardinality(S \cup {x}) = IF x \in S THEN Cardinality(S) ELSE Cardinality(S) + 1
  BY FS_AddElement
<1>3. CASE x \in S
  BY <1>1, <1>2, <1>3
<1>4. CASE x \notin S
  BY <1>1, <1>2, <1>4
<1> QED
  BY <1>3, <1>4

\* A claim: one more body, in a process and a lane that have room for it.
LEMMA PollClaimKeeps ==
    ASSUME TimelyInvariant, Invariant', NEW w \in Workers, NEW j \in Jobs, PollClaim(w, j)
    PROVE  TimelyInvariant'
<1> USE DEF TimelyInvariant
<1>0. PICK c : c = [worker |-> w, job |-> j, revival |-> job[j].revival,
                    attempt |-> job[j].attempt + 1]
  OBVIOUS
<1>1. \A e \in Executions : e.job \in Jobs /\ e.worker \in Workers
  BY DEF Invariant, TypeOK, Executions, Bodies, Claim
<1>2. /\ c.worker = w /\ c.job = j /\ c.revival = job[j].revival
      /\ c.attempt = job[j].attempt + 1
  BY <1>0
<1>3. /\ arriving' = arriving \cup {c} /\ Bodies' = Bodies
      /\ Executions' = Executions \cup {c}
      /\ UNCHANGED <<proc, active, registry>>
  BY <1>0 DEF PollClaim, processVars, Executions, Bodies, ClaimWork
<1>4. /\ proc[w] = "running" /\ ArrivingAt(w) = {}
      /\ Cardinality(active[w]) < MaxConcurrency
      /\ Cardinality(LiveInLane(LaneOf[j])) < LaneLimit[LaneOf[j]]
  BY DEF PollClaim, MayClaim, ClaimWork
<1>5. /\ ~LiveLease(j) /\ job'[j] = Claimed(job[j], w)
      /\ \A k \in Jobs \ {j} : RowUndisturbed(k)
  BY ClaimUndisturbed DEF PollClaim, Invariant, TypeOK, QueueTypeOK, Rows
<1>6. Holds(c)'
  <2>1. job[j] \in Row
    BY DEF Invariant, TypeOK, QueueTypeOK
  <2>2. /\ job'[j].status = "in_flight" /\ job'[j].live /\ job'[j].owner = w
        /\ job'[j].revival = job[j].revival /\ job'[j].attempt = job[j].attempt + 1
    BY <1>5, <2>1 DEF Claimed, Row
  <2> QED
    BY <1>2, <2>2 DEF Holds
<1>7. Supervised' = Supervised \cup {c}
  BY <1>2, <1>3, <1>4 DEF Supervised
<1>8. \A d \in Supervised : d.job # j
  BY <1>5, SupervisedIsLive
<1>9. UpIsFresh' /\ BodiesHaveProcesses'
  BY <1>2, <1>3, <1>4 DEF UpIsFresh, BodiesHaveProcesses
<1>10. SupervisedHold'
  <2> SUFFICES ASSUME NEW d \in Supervised PROVE Holds(d)'
    BY <1>6, <1>7 DEF SupervisedHold
  <2>1. d.job \in Jobs \ {j} /\ LiveLease(d.job) /\ Holds(d)
    BY <1>8, SupervisedIsLive
  <2> QED
    BY <1>5, <2>1 DEF RowUndisturbed, Holds
<1>11. OneBodyPerKey'
  <2>1. \A d \in Executions : ~(d.worker = w /\ d.job = j)
    BY <1>4, <1>8 DEF Supervised
  <2> QED
    BY <1>2, <1>3, <2>1 DEF OneBodyPerKey
<1>12. OneArrival'
  BY <1>2, <1>3, <1>4 DEF OneArrival, ArrivingAt, Of
<1>13. EveryLeaseHasABody'
  <2> SUFFICES ASSUME NEW k \in Jobs, InFlight(k)',
                      proc[job'[k].owner] \in {"released", "running", "stopping"}
               PROVE  \E e \in Executions \cup {c} : e.job = k /\ e.worker = job'[k].owner
    BY <1>3 DEF EveryLeaseHasABody
  <2>1. CASE k = j
    BY <1>2, <1>6, <2>1 DEF Holds
  <2>2. CASE k # j
    BY <1>5, <2>2 DEF RowUndisturbed, EveryLeaseHasABody, InFlight
  <2> QED
    BY <2>1, <2>2
<1>14. LeasesFinite'
  <2>1. {k \in Jobs : InFlight(k)}' \subseteq {k \in Jobs : InFlight(k)} \cup {j}
    BY <1>5 DEF RowUndisturbed, InFlight
  <2>2. IsFiniteSet({k \in Jobs : InFlight(k)} \cup {j})
    BY FS_AddElement DEF LeasesFinite
  <2> QED
    BY <2>1, <2>2, SubsetsAreSmaller DEF LeasesFinite
<1>15. BodiesFinite'
  BY <1>3, FS_AddElement DEF BodiesFinite
<1>16. ConcurrencyBounded'
  <2>1. \A v \in Workers : Of(v, Bodies)' = Of(v, Bodies) /\ active'[v] = active[v]
    BY <1>3 DEF Of
  <2>2. ASSUME NEW v \in Workers, v # w
        PROVE  Cardinality(Of(v, Executions)') <= MaxConcurrency
    <3>1. Of(v, Executions)' = Of(v, Executions)
      BY <1>2, <1>3, <2>2 DEF Of
    <3> QED
      BY <3>1 DEF ConcurrencyBounded
  <2>3. Cardinality(Of(w, Executions)') <= MaxConcurrency
    <3> DEFINE f == [d \in Of(w, Bodies) |-> d.job]
    <3>1. Of(w, Executions) = Of(w, Bodies)
      BY <1>4 DEF Of, Executions, ArrivingAt
    <3>2. IsFiniteSet(Of(w, Bodies))
      BY <3>1, SubsetsAreSmaller DEF BodiesFinite, Of
    <3>3. active[w] = {d.job : d \in Of(w, Bodies)}
      BY DEF ConcurrencyBounded
    <3>4. f \in Bijection(Of(w, Bodies), active[w])
      <4>1. \A d, e \in Of(w, Bodies) : d.job = e.job => d = e
        BY DEF OneBodyPerKey, Of, Executions
      <4>2. f \in [Of(w, Bodies) -> active[w]]
        BY <3>3
      <4>3. \A k \in active[w] : \E d \in Of(w, Bodies) : f[d] = k
        BY <3>3
      <4> QED
        BY <4>1, <4>2, <4>3 DEF Bijection, Injection, Surjection, IsInjective
    <3>5. Cardinality(active[w]) = Cardinality(Of(w, Bodies))
      BY <3>2, <3>4, FS_Bijection DEF ExistsBijection
    <3>6. Cardinality(Of(w, Bodies)) \in Nat /\ MaxConcurrency \in Nat
      BY <3>2, FS_CardinalityType, WorkerAssumption
    <3>7. Of(w, Executions)' = Of(w, Bodies) \cup {c}
      BY <1>2, <1>3, <3>1 DEF Of
    <3>8. Cardinality(Of(w, Bodies) \cup {c}) <= Cardinality(Of(w, Bodies)) + 1
      BY <3>2, <3>6, OneMore
    <3>9. Cardinality(Of(w, Bodies) \cup {c}) \in Nat
      BY <3>2, FS_AddElement, FS_CardinalityType
    <3> QED
      BY <1>4, <3>5, <3>6, <3>7, <3>8, <3>9
  <2> QED
    BY <2>1, <2>2, <2>3 DEF ConcurrencyBounded
<1>17. LaneLimitOnBodies'
  <2> SUFFICES ASSUME NEW l \in Lanes
               PROVE  Cardinality(InLane(l)') <= LaneLimit[l]
    BY DEF LaneLimitOnBodies, InLane
  <2>1. IsFiniteSet(InLane(l)) /\ InLane(l) \subseteq Supervised
    BY SubsetsAreSmaller DEF BodiesFinite, InLane, Supervised
  <2>2. CASE LaneOf[j] # l
    <3>1. InLane(l)' = InLane(l)
      BY <1>2, <1>7, <2>2 DEF InLane
    <3> QED
      BY <3>1 DEF LaneLimitOnBodies, InLane
  <2>3. CASE LaneOf[j] = l
    <3> DEFINE f == [d \in InLane(l) |-> d.job]
    <3>1. IsFiniteSet(LiveInLane(l))
      BY SubsetsAreSmaller DEF LeasesFinite, LiveInLane, LiveLease
    <3>2. f \in Injection(InLane(l), LiveInLane(l))
      <4>1. \A d, e \in InLane(l) : d.job = e.job => d = e
        BY HoldersAreAlone DEF OneBodyPerJob, InLane
      <4>2. \A d \in InLane(l) : d.job \in LiveInLane(l)
        BY SupervisedIsLive DEF InLane, LiveInLane
      <4> QED
        BY <4>1, <4>2 DEF Injection, IsInjective
    <3>3. Cardinality(InLane(l)) <= Cardinality(LiveInLane(l))
      BY <3>1, <3>2, FS_Injection
    <3>4. /\ Cardinality(InLane(l)) \in Nat /\ Cardinality(LiveInLane(l)) \in Nat
          /\ LaneLimit[l] \in Nat
      BY <2>1, <3>1, FS_CardinalityType, QueueAssumption
    <3>5. InLane(l)' = InLane(l) \cup {c}
      BY <1>2, <1>7, <2>3 DEF InLane
    <3>6. Cardinality(InLane(l) \cup {c}) <= Cardinality(InLane(l)) + 1
      BY <2>1, <3>4, OneMore
    <3>7. Cardinality(InLane(l) \cup {c}) \in Nat
      BY <2>1, FS_AddElement, FS_CardinalityType
    <3> QED
      BY <1>4, <2>3, <3>3, <3>4, <3>5, <3>6, <3>7
  <2> QED
    BY <2>2, <2>3
<1> QED
  BY <1>9, <1>10, <1>11, <1>12, <1>13, <1>14, <1>15, <1>16, <1>17 DEF Timely

-----------------------------------------------------------------------------
\* The steps.

\* Where every row is undisturbed, Idle asks for the processes only.
LEMMA UndisturbedIdle ==
    ASSUME RowsUndisturbed, UNCHANGED <<active, bodyVars>>, ProcsMove, UpIsFresh'
    PROVE  Idle
BY DEF RowsUndisturbed, Idle

\* The faults that Timely rules out.
LEMMA NoLapses ==
    ASSUME TimelyInvariant
    PROVE  ~LapseCounted /\ ~DbErrorCounted
BY DEF TimelyInvariant, Timely, Invariant, TypeOK, LapseCounted, DbErrorCounted

LEMMA TimelyStep ==
    ASSUME TimelyInvariant, Invariant', [Next]_vars
    PROVE  TimelyInvariant'
<1> USE DEF TimelyInvariant
<1>1. /\ Rows /\ arriving \subseteq Claim /\ working \subseteq Claim /\ failing \subseteq Claim
      /\ proc \in [Workers -> ProcState]
      /\ registry \in [Workers -> {"absent", "fresh", "stale"}]
      /\ active \in [Workers -> SUBSET Jobs]
      /\ ReconcileJob \in Jobs /\ ProductJobs \subseteq Jobs /\ SendJobs \subseteq Jobs
      /\ \A j \in Jobs : Children[j] \subseteq Jobs
      /\ \A c \in Claim : c.worker \in Workers /\ c.job \in Jobs
  BY WorkerAssumption DEF Invariant, TypeOK, QueueTypeOK, Rows, ProductJobs, Claim
<1>2. /\ working \cap failing = {} /\ arriving \cap Bodies = {}
      /\ \A w \in Workers : active[w] = {c.job : c \in Of(w, Bodies)}
  BY DEF Invariant, OneExecutionPerClaim, ConcurrencyBounded
<1>3. ASSUME UNCHANGED <<proc, active, bodyVars>>, UpIsFresh',
             RowsUndisturbed
      PROVE  TimelyInvariant'
  BY <1>3, UndisturbedIdle, IdleKeeps DEF ProcsMove
<1>4. UNCHANGED <<proc, registry>> => UpIsFresh'
  BY DEF UpIsFresh
<1>5. CASE UNCHANGED vars
  BY <1>3, <1>4, <1>5, StayingUndisturbed DEF vars, queueVars, processVars
<1>6. ASSUME NEW w \in Workers, Boot(w) PROVE TimelyInvariant'
  <2>1. CASE BootRegister(w)
    <3>1. ProcsMove /\ UpIsFresh' /\ RowsUndisturbed
      BY <1>1, <2>1, StayingUndisturbed DEF BootRegister, RegisterWorker, ProcsMove, UpIsFresh
    <3> QED
      BY <2>1, <3>1, UndisturbedIdle, IdleKeeps DEF BootRegister
  <2>2. CASE BootReconcile(w)
    <3>1. ProcsMove /\ UpIsFresh'
      BY <1>1, <2>2 DEF BootReconcile, EnqueueWork, ProcsMove, UpIsFresh, Up
    <3>2. RowsUndisturbed
      BY <1>1, <2>2, EnqueueUndisturbed DEF BootReconcile
    <3> QED
      BY <2>2, <3>1, <3>2, UndisturbedIdle, IdleKeeps DEF BootReconcile
  <2>3. CASE StopDuringBoot(w)
    <3>1. ProcsMove /\ UpIsFresh' /\ RowsUndisturbed
      BY <1>1, <2>3, StayingUndisturbed
         DEF StopDuringBoot, UnregisterWorker, ProcsMove, UpIsFresh, Up
    <3> QED
      BY <2>3, <3>1, UndisturbedIdle, IdleKeeps DEF StopDuringBoot
  <2> QED
    BY <1>6, <2>1, <2>2, <2>3, BootReleaseKeeps, NoLapses DEF Boot, BootReleaseError
<1>7. ASSUME NEW w \in Workers, Poll(w) PROVE TimelyInvariant'
  <2>1. CASE PollBegin(w) \/ PollEnd(w)
    BY <1>3, <1>4, <2>1, StayingUndisturbed DEF PollBegin, PollEnd, queueVars
  <2>2. ASSUME NEW l \in Lanes, PollClaimNothing(w, l) PROVE TimelyInvariant'
    <3>1. RowsUndisturbed
      BY <1>1, <2>2, ClaimNothingUndisturbed DEF PollClaimNothing
    <3> QED
      BY <1>3, <1>4, <2>2, <3>1 DEF PollClaimNothing, ClaimNothing, processVars
  <2> QED
    BY <1>7, <2>1, <2>2, PollClaimKeeps DEF Poll
<1>8. ASSUME NEW w \in Workers, Timers(w) PROVE TimelyInvariant'
  <2>1. CASE WorkerHeartbeat(w)
    <3>1. UpIsFresh' /\ RowsUndisturbed
      BY <1>1, <2>1, StayingUndisturbed
         DEF WorkerHeartbeat, HeartbeatWorker, UpIsFresh, Up, processVars
    <3> QED
      BY <1>3, <2>1, <3>1 DEF WorkerHeartbeat, processVars
  <2>2. ASSUME NEW js \in SUBSET Jobs, ReclaimTimer(w, js) PROVE TimelyInvariant'
    <3>1. RowsUndisturbed
      BY <1>1, <2>2, ReclaimUndisturbed DEF ReclaimTimer
    <3> QED
      BY <1>3, <1>4, <2>2, <3>1
         DEF ReclaimTimer, ReclaimExpiredOrchestrationLeases, processVars
  <2>3. CASE ReconcileTimer(w)
    <3>1. RowsUndisturbed
      BY <1>1, <2>3, EnqueueUndisturbed DEF ReconcileTimer
    <3> QED
      BY <1>3, <1>4, <2>3, <3>1 DEF ReconcileTimer, EnqueueWork, processVars
  <2> QED
    BY <1>8, <2>1, <2>2, <2>3 DEF Timers
<1>9. ASSUME NEW w \in Workers, Shutdown(w) PROVE TimelyInvariant'
  <2>1. CASE Stop(w)
    <3>1. ProcsMove /\ UpIsFresh' /\ RowsUndisturbed
      BY <1>1, <2>1, StayingUndisturbed DEF Stop, queueVars, ProcsMove, UpIsFresh, Up
    <3> QED
      BY <2>1, <3>1, UndisturbedIdle, IdleKeeps DEF Stop
  <2>2. CASE Unregister(w)
    <3>1. ProcsMove /\ UpIsFresh' /\ RowsUndisturbed
      BY <1>1, <2>2, StayingUndisturbed DEF Unregister, UnregisterWorker, ProcsMove, UpIsFresh, Up
    <3> QED
      BY <2>2, <3>1, UndisturbedIdle, IdleKeeps DEF Unregister
  <2>3. CASE Exit(w) \/ Crash(w)
    BY <2>3, ProcessGoneKeeps DEF Exit, Crash
  <2> QED
    BY <1>9, <2>1, <2>2, <2>3 DEF Shutdown
<1>10. CASE Arrival
  <2>1. ASSUME NEW c \in arriving, BeginJob(c) PROVE TimelyInvariant'
    <3>1. c.worker \in Workers /\ c.job \in Jobs
      BY <1>1, <2>1
    <3>2. Bodies' = Bodies \cup {c}
      BY <2>1 DEF BeginJob, Bodies
    <3>3. Executions' = Executions /\ arriving' \subseteq arriving
      BY <2>1 DEF BeginJob, Executions, Bodies
    <3>4. ASSUME NEW w \in Workers
          PROVE  active'[w] = {d.job : d \in Of(w, Bodies)'}
      <4>1. CASE w = c.worker
        <5>1. active'[w] = active[w] \cup {c.job}
          BY <1>1, <2>1, <4>1 DEF BeginJob
        <5>2. Of(w, Bodies)' = Of(w, Bodies) \cup {c}
          BY <3>2, <4>1 DEF Of
        <5> QED
          BY <1>2, <5>1, <5>2
      <4>2. CASE w # c.worker
        <5>1. active'[w] = active[w]
          BY <1>1, <2>1, <4>2 DEF BeginJob
        <5>2. Of(w, Bodies)' = Of(w, Bodies)
          BY <3>2, <4>2 DEF Of
        <5> QED
          BY <1>2, <5>1, <5>2
      <4> QED
        BY <4>1, <4>2
    <3> QED
      BY <2>1, <3>3, <3>4, MovesKeeps DEF Moves, BeginJob
  <2> QED
    BY <1>10, <2>1, NoLapses DEF Arrival, LoseClaim
<1>11. ASSUME NEW c \in Bodies, BodyEnds(c)
       PROVE  /\ UNCHANGED <<proc, arriving>> /\ Bodies' = Bodies \ {c}
              /\ active' = [active EXCEPT ![c.worker] = @ \ {c.job}]
  BY <1>11 DEF BodyEnds, Bodies
<1>12. \A c \in Bodies : c.worker \in Workers /\ c.job \in Jobs
  BY <1>1 DEF Bodies
<1>13. CASE Execution
  <2>1. ASSUME NEW c \in working, HandlerThrows(c) PROVE TimelyInvariant'
    <3>1. Bodies' = Bodies /\ Executions' = Executions /\ arriving' \subseteq arriving
      BY <2>1 DEF HandlerThrows, Executions, Bodies
    <3>2. \A w \in Workers : active'[w] = {d.job : d \in Of(w, Bodies)'}
      BY <1>2, <2>1, <3>1 DEF HandlerThrows, processVars, Of
    <3> QED
      BY <2>1, <3>1, <3>2, MovesKeeps DEF Moves, HandlerThrows, processVars
  <2>2. ASSUME NEW c \in working, NEW ks \in SUBSET Children[c.job], NEW rt \in BOOLEAN,
               NEW ready \in BOOLEAN, CompleteJob(c, ks, rt, ready)
        PROVE  TimelyInvariant'
    <3>1. c \in Bodies /\ CompleteWork(c.worker, c.job, ks, rt, ready) /\ BodyEnds(c)
      BY <2>2 DEF CompleteJob, Bodies
    <3>2. /\ job'[c.job].status # "in_flight"
          /\ \A j \in Jobs \ {c.job} : RowUndisturbed(j)
      <4>1. c.worker \in Workers /\ c.job \in Jobs /\ ks \in SUBSET Jobs
        BY <1>1, <1>12, <3>1
      <4>2. CompleteWork(c.worker, c.job, ks, rt, ready)
        BY <3>1
      <4>3. /\ job[c.job].owner = c.worker /\ job'[c.job].status # "in_flight"
            /\ \A j \in Jobs \ {c.job} : RowUndisturbed(j)
        <5> HIDE DEF TimelyInvariant
        <5>1. Rows
          BY <1>1
        <5> QED
          BY <4>1, <4>2, <5>1, CompleteUndisturbed
      <4> QED
        BY <4>3
    <3>3. Owns(c.worker, c.job) /\ UNCHANGED registry
      BY <3>1 DEF CompleteWork
    <3> QED
      BY <1>11, <3>1, <3>2, <3>3, BodySettlesKeeps DEF BodySettles
  <2>3. ASSUME NEW c \in working, CompletionLeaseLost(c) PROVE TimelyInvariant'
    <3>1. c \in Bodies /\ BodyEnds(c) /\ UNCHANGED <<job, registry>> /\ ~Owns(c.worker, c.job)
      BY <2>3 DEF CompletionLeaseLost, Bodies, queueVars
    <3> QED
      BY <1>11, <3>1, StayingUndisturbed, BodySettlesKeeps DEF BodySettles
  <2>4. ASSUME NEW c \in working, NEW ws \in SUBSET Workers, ReconcileCollects(c, ws)
        PROVE  TimelyInvariant'
    <3>1. UpIsFresh' /\ RowsUndisturbed
      BY <1>1, <2>4, StayingUndisturbed
         DEF ReconcileCollects, GarbageCollectStaleWorkers, UpIsFresh, processVars
    <3> QED
      BY <1>3, <2>4, <3>1 DEF ReconcileCollects, processVars
  <2>5. ASSUME NEW c \in failing, Settles(c) PROVE TimelyInvariant'
    <3>1. c \in Bodies /\ BodyEnds(c)
      BY <2>5 DEF Settles, RetryJob, FailJob, Bodies
    <3>2. CASE RetryWork(c.worker, c.job) \/ FailWork(c.worker, c.job)
      <4>1. /\ job'[c.job].status # "in_flight"
            /\ \A j \in Jobs \ {c.job} : RowUndisturbed(j)
        BY <1>1, <1>12, <3>1, <3>2, SettleUndisturbed
      <4>2. Owns(c.worker, c.job) /\ UNCHANGED registry
        BY <3>2 DEF RetryWork, FailWork
      <4> QED
        BY <1>11, <3>1, <4>1, <4>2, BodySettlesKeeps DEF BodySettles
    <3>3. CASE ~Owns(c.worker, c.job) /\ UNCHANGED queueVars
      BY <1>11, <3>1, <3>3, StayingUndisturbed, BodySettlesKeeps DEF BodySettles, queueVars
    <3> QED
      BY <2>5, <3>2, <3>3 DEF Settles, RetryJob, FailJob
  <2>6. ASSUME NEW c \in Bodies, JobHeartbeat(c) PROVE TimelyInvariant'
    <3>1. RowsUndisturbed
      BY <1>1, <1>12, <2>6, HeartbeatUndisturbed DEF JobHeartbeat
    <3> QED
      BY <1>3, <1>4, <2>6, <3>1 DEF JobHeartbeat, HeartbeatWork, processVars
  <2> QED
    BY <1>13, <2>1, <2>2, <2>3, <2>4, <2>5, <2>6, NoLapses
       DEF Execution, Completes, CompleteUnacknowledged, SettlementError
<1>14. CASE Clock
  <2>1. ASSUME NEW j \in Jobs, OrphanedLeaseExpires(j) PROVE TimelyInvariant'
    <3>1. ~Heartbeating(j) /\ LeaseExpires(j) /\ UNCHANGED <<proc, active, bodyVars, registry>>
      BY <2>1 DEF OrphanedLeaseExpires, LeaseExpires, processVars
    <3>2. /\ job'[j].status = job[j].status /\ job'[j].owner = job[j].owner
          /\ \A k \in Jobs \ {j} : job'[k] = job[k]
      BY <1>1, <3>1 DEF LeaseExpires, Rows, Row
    <3>3. ProcsMove /\ UpIsFresh'
      BY <1>4, <3>1 DEF ProcsMove
    <3>4. Idle
      BY <3>1, <3>2, <3>3, SameRowUndisturbed DEF Idle
    <3> QED
      BY <3>4, IdleKeeps
  <2>2. ASSUME NEW j \in Jobs, BackoffEnds(j) PROVE TimelyInvariant'
    <3>1. RowsUndisturbed
      BY <1>1, <2>2, ReadyUndisturbed DEF BackoffEnds
    <3> QED
      BY <1>3, <1>4, <2>2, <3>1 DEF BackoffEnds, BecomesReady, processVars
  <2>3. ASSUME NEW w \in Workers, DeadWorkerGoesStale(w) PROVE TimelyInvariant'
    <3>1. UpIsFresh' /\ RowsUndisturbed
      BY <1>1, <2>3, StayingUndisturbed
         DEF DeadWorkerGoesStale, GoesStale, Alive, UpIsFresh, Up, processVars
    <3> QED
      BY <1>3, <2>3, <3>1 DEF DeadWorkerGoesStale, processVars
  <2> QED
    BY <1>14, <2>1, <2>2, <2>3, NoLapses DEF Clock, LeaseLapses, WorkerLapses
<1>15. CASE Callers
  <2>1. ASSUME NEW j \in ProductJobs, NEW rt \in BOOLEAN, NEW ready \in BOOLEAN,
               Dispatch(j, rt, ready)
        PROVE  TimelyInvariant'
    <3>1. RowsUndisturbed
      BY <1>1, <2>1, EnqueueUndisturbed DEF Dispatch
    <3> QED
      BY <1>3, <1>4, <2>1, <3>1 DEF Dispatch, EnqueueWork, processVars
  <2>2. ASSUME NEW js \in SUBSET ProductJobs, Cancel(js) PROVE TimelyInvariant'
    <3>1. RowsUndisturbed
      BY <1>1, <2>2, CancelUndisturbed DEF Cancel
    <3> QED
      BY <1>3, <1>4, <2>2, <3>1 DEF Cancel, CancelWork, processVars
  <2>3. ASSUME NEW j \in SendJobs, NEW ready \in BOOLEAN, Reschedule(j, ready)
        PROVE  TimelyInvariant'
    <3>1. RowsUndisturbed
      BY <1>1, <2>3, ReadyUndisturbed DEF Reschedule
    <3> QED
      BY <1>3, <1>4, <2>3, <3>1 DEF Reschedule, ReschedulePendingWork, processVars
  <2>4. ASSUME NEW l \in PausableLanes, OperatorPauses(l) PROVE TimelyInvariant'
    BY <1>3, <1>4, <2>4, StayingUndisturbed DEF OperatorPauses, SetLanePaused, processVars
  <2> QED
    BY <1>15, <2>1, <2>2, <2>3, <2>4 DEF Callers
<1> QED
  BY <1>5, <1>6, <1>7, <1>8, <1>9, <1>10, <1>13, <1>14, <1>15 DEF Next

LEMMA TimelyInit == Init /\ Timely => TimelyInvariant
<1> SUFFICES ASSUME Init, Timely PROVE TimelyInvariant
  OBVIOUS
<1>1. Invariant
  BY InitIsFine
<1>2. /\ Executions = {} /\ arriving = {} /\ Bodies = {}
      /\ \A j \in Jobs : ~InFlight(j)
      /\ \A w \in Workers : proc[w] = "down" /\ active[w] = {}
  BY DEF Init, QueueInit, Executions, Bodies, InFlight
<1>3. UpIsFresh /\ BodiesHaveProcesses /\ SupervisedHold /\ OneBodyPerKey /\ OneArrival
        /\ EveryLeaseHasABody
  BY <1>2 DEF UpIsFresh, Up, BodiesHaveProcesses, SupervisedHold, Supervised, OneBodyPerKey,
     OneArrival, EveryLeaseHasABody
<1>4. LeasesFinite /\ BodiesFinite
  <2>1. {j \in Jobs : InFlight(j)} = {}
    BY <1>2
  <2> QED
    BY <1>2, <2>1, FS_EmptySet DEF LeasesFinite, BodiesFinite
<1>5. ConcurrencyBounded
  <2>1. \A w \in Workers : Of(w, Bodies) = {} /\ Of(w, Executions) = {}
    BY <1>2 DEF Of
  <2>2. Cardinality({}) = 0 /\ 0 <= MaxConcurrency
    BY FS_EmptySet, WorkerAssumption
  <2> QED
    BY <1>2, <2>1, <2>2 DEF ConcurrencyBounded
<1>6. LaneLimitOnBodies
  <2>1. \A l \in Lanes : {c \in Supervised : LaneOf[c.job] = l} = {}
    BY <1>2 DEF Supervised
  <2>2. Cardinality({}) = 0 /\ \A l \in Lanes : 0 <= LaneLimit[l]
    BY FS_EmptySet, QueueAssumption
  <2> QED
    BY <2>1, <2>2 DEF LaneLimitOnBodies
<1> QED
  BY <1>1, <1>3, <1>4, <1>5, <1>6 DEF TimelyInvariant

LEMMA TimelyInvariantHolds == Timely /\ Spec => []TimelyInvariant
<1>1. TimelyInvariant /\ [Next]_vars => TimelyInvariant'
  <2>1. TimelyInvariant => Invariant
    BY DEF TimelyInvariant
  <2> QED
    BY <2>1, StepIsFine, TimelyStep
<1> QED
  BY <1>1, TimelyInit, PTL DEF Spec

\* No two bodies run one job at a time, next to crashes, restarts, shutdowns,
\* sweeps and revivals, as long as heartbeats are on time and answers arrive.
THEOREM OneBodyAtATime == Timely /\ Spec => []OneBodyPerJob
BY HoldersAreAlone, TimelyInvariantHolds, PTL

\* What really runs keeps the limits of the lanes, whatever the number of
\* workers that claim from them.
THEOREM LanesBounded == Timely /\ Spec => []LaneLimitOnBodies
<1>1. TimelyInvariant => LaneLimitOnBodies
  BY DEF TimelyInvariant
<1> QED
  BY <1>1, TimelyInvariantHolds, PTL

\* The active map of a process counts its bodies, so its limit bounds them.
THEOREM ProcessesBounded == Timely /\ Spec => []ConcurrencyBounded
<1>1. TimelyInvariant => ConcurrencyBounded
  BY DEF TimelyInvariant
<1> QED
  BY <1>1, TimelyInvariantHolds, PTL

\* A booted worker runs every job it has a lease on: a restart under the old
\* worker id leaves no lease behind that the heartbeats would keep alive.
THEOREM LeasesHaveBodies == Timely /\ Spec => []EveryLeaseHasABody
<1>1. TimelyInvariant => EveryLeaseHasABody
  BY DEF TimelyInvariant
<1> QED
  BY <1>1, TimelyInvariantHolds, PTL

=============================================================================
