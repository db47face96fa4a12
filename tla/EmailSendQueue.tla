--------------------------- MODULE EmailSendQueue ---------------------------
(***************************************************************************)
(* The outbound email queue of lib/drafting/send-queue.ts: the table       *)
(* email_send_queue, the record of what was sent in email_sends, the job   *)
(* that carries each row, and everybody who works on a row between two     *)
(* awaits: worker bodies that deliver or reconcile, and API requests that  *)
(* send at once, move, cancel or dispatch.                                 *)
(*                                                                         *)
(* Every statement is an action; what a handler has read is gone when it   *)
(* writes.  Rows claim each other's exclusion only by their status and by  *)
(* the unique index on the active rows of an item.                         *)
(*                                                                         *)
(* The transport of a row is its orchestration job, with the lifecycle     *)
(* that OrchestrationProperties shows the queue to implement: attempts     *)
(* are left to the choice of where a job that is given back goes.          *)
(***************************************************************************)
EXTENDS Naturals, FiniteSets

CONSTANTS
    Items,        \* drafting items: one email each
    Rows,         \* ids of email_send_queue
    ItemOf,       \* [Rows -> Items]: drafting_item_id
    NoRow,
    Bodies,       \* handlers of email.send and system.reconcile under way
    Requests,     \* API requests under way
    MaxRequests,  \* bound: requests made in all
    MaxFaults     \* bound: deaths, lost answers, lapses

ASSUME SendAssumption ==
    /\ ItemOf \in [Rows -> Items]
    /\ NoRow \notin Rows
    /\ Bodies \cap Requests = {}
    /\ MaxRequests \in Nat /\ MaxFaults \in Nat

Agents == Bodies \cup Requests

VARIABLES
    row,        \* email_send_queue
    work,       \* the status of the orchestration job of each row
    sent,       \* items with a row of status 'sent' in email_sends
    agent,      \* what each body and request is doing
    accepted,   \* emails of each item that the provider took (the outside)
    lost,       \* those of them whose record can not be made any more
    disturbed,  \* items one of whose senders lost its row to somebody else
    requests, faults

tables == <<row, work, sent>>
ghosts == <<accepted, lost, disturbed>>
vars   == <<tables, agent, ghosts, requests, faults>>

Active == {"queued", "sending"}
Status == {"absent", "sent", "cancelled", "failed"} \cup Active

\* "old": updated_at is more than fifteen minutes ago, of interest for a row
\* in sending only.  "linked": orchestration_job_id is set.
Row == [status : Status, old : BOOLEAN, linked : BOOLEAN]

OpenWork   == {"pending", "in_flight"}
WorkStatus == {"absent", "done", "failed", "cancelled"} \cup OpenWork

\* Steps of an agent that has claimed its row: up to the record of the send,
\* and between that and the final update of the row.
Sending == {"check", "send", "record"}
Closing == {"caught", "mark", "putBack", "fail"}

Op == {"idle", "deliver", "reconcile", "plan", "sendNow", "move", "cancel",
       "dispatch"}
At == {"idle", "claim", "today", "insert", "enqueue", "link", "dropWork",
       "cancelRow", "moveRow", "reschedule", "unstick", "place", "done",
       "retry"} \cup Sending \cup Closing

Activity == [op : Op, at : At, row : Rows \cup {NoRow}]

Idle == [op |-> "idle", at |-> "idle", row |-> NoRow]

SendTypeOK ==
    /\ row \in [Rows -> Row]
    /\ work \in [Rows -> WorkStatus]
    /\ sent \in SUBSET Items
    /\ agent \in [Agents -> Activity]
    /\ \A a \in Agents : agent[a] = Idle \/ agent[a].row \in Rows
    /\ accepted \in [Items -> Nat]
    /\ lost \in [Items -> Nat]
    /\ disturbed \in SUBSET Items
    /\ requests \in 0..MaxRequests
    /\ faults \in 0..MaxFaults

SendInit ==
    /\ row = [q \in Rows |-> [status |-> "absent", old |-> FALSE,
                              linked |-> FALSE]]
    /\ work = [q \in Rows |-> "absent"]
    /\ sent = {}
    /\ agent = [a \in Agents |-> Idle]
    /\ accepted = [i \in Items |-> 0]
    /\ lost = [i \in Items |-> 0]
    /\ disturbed = {}
    /\ requests = 0
    /\ faults = 0

-----------------------------------------------------------------------------
\* Who works on a row.

Mine(a) == agent[a].row

Email(a) == ItemOf[Mine(a)]

Is(a, op, at) == agent[a].op = op /\ agent[a].at = at

Senders(q) == {a \in Agents : agent[a].at \in Sending /\ Mine(a) = q}

Holders(q) ==
    {a \in Agents : agent[a].at \in Sending \cup Closing /\ Mine(a) = q}

Delivering(q) == \E a \in Agents : agent[a].op = "deliver" /\ Mine(a) = q

\* idx_email_send_queue_item_active: an update that would give an item a
\* second active row throws.
MayBeActive(q) ==
    \A r \in Rows \ {q} :
        ItemOf[r] = ItemOf[q] => row[r].status \notin Active

\* The sender of an item is disturbed when its row is taken away from it.
TakenBy(a, q) ==
    disturbed' = IF Senders(q) \ {a} = {} THEN disturbed
                 ELSE disturbed \cup {ItemOf[q]}

-----------------------------------------------------------------------------
\* How an activity goes on, and ends.

Begins(a, op, at, q) ==
    /\ agent[a] = Idle
    /\ agent' = [agent EXCEPT ![a] = [op |-> op, at |-> at, row |-> q]]

GoesTo(a, at) == agent' = [agent EXCEPT ![a].at = at]

Ends(a) == agent' = [agent EXCEPT ![a] = Idle]

\* sendNowQueueItems goes on from its waterfall; everybody else is done with
\* the job of the row.
Planned(a) == IF agent[a].op = "plan" THEN GoesTo(a, "today") ELSE Ends(a)

\* Bodies settle their job, a request returns.
Returns(a, at) == IF agent[a].op = "deliver" THEN GoesTo(a, at) ELSE Ends(a)

BecomesWith(q, status) ==
    row' = [row EXCEPT ![q].status = status, ![q].old = FALSE]

CountRequest ==
    /\ requests < MaxRequests
    /\ requests' = requests + 1

CountFault ==
    /\ faults < MaxFaults
    /\ faults' = faults + 1

\* cancelWorkByIds, of the job a row knows of.
WorkDropped(q) ==
    work' = IF row[q].linked /\ work[q] = "pending"
            THEN [work EXCEPT ![q] = "cancelled"] ELSE work

-----------------------------------------------------------------------------
\* dispatchDraftSend and enqueueOverflowBatch: the item is not sent, and has
\* no active row when the insert comes.  The immediate send that may follow
\* is a request of its own here.

DispatchBegin(a, q) ==
    /\ row[q].status = "absent" /\ ItemOf[q] \notin sent
    /\ \A b \in Agents : Mine(b) # q
    /\ Begins(a, "dispatch", "insert", q)
    /\ CountRequest
    /\ UNCHANGED <<tables, ghosts, faults>>

\* The id is a fresh one.
Insert(a) ==
    /\ agent[a].at = "insert"
    /\ row[Mine(a)].status = "absent"
    /\ MayBeActive(Mine(a))
    /\ BecomesWith(Mine(a), "queued")
    /\ GoesTo(a, "enqueue")
    /\ UNCHANGED <<work, sent, ghosts, requests, faults>>

InsertRefused(a) ==
    /\ agent[a].at = "insert"
    /\ ~MayBeActive(Mine(a))
    /\ Ends(a)
    /\ UNCHANGED <<tables, ghosts, requests, faults>>

\* enqueueWork with reviveTerminal.
EnqueueRow(a) ==
    /\ agent[a].at = "enqueue"
    /\ work' = IF work[Mine(a)] \in OpenWork THEN work
               ELSE [work EXCEPT ![Mine(a)] = "pending"]
    /\ GoesTo(a, "link")
    /\ UNCHANGED <<row, sent, ghosts, requests, faults>>

\* Only some of the callers look at the status again.
LinkRow(a) ==
    /\ agent[a].at = "link"
    /\ row' = IF \/ agent[a].op \in {"dispatch", "move"}
                 \/ row[Mine(a)].status = "queued"
              THEN [row EXCEPT ![Mine(a)].linked = TRUE,
                               ![Mine(a)].old = FALSE]
              ELSE row
    /\ Planned(a)
    /\ UNCHANGED <<work, sent, ghosts, requests, faults>>

-----------------------------------------------------------------------------
\* moveSendQueueItems, the overflow of retryFailedQueueItems, and
\* applyQueueItemSchedule: the status is checked when the row is loaded and
\* overwritten later.

Movable(q) == row[q].status \in {"queued", "failed"}

MoveBegin(a, q) ==
    /\ Movable(q)
    /\ Begins(a, "move", "moveRow", q)
    /\ CountRequest
    /\ UNCHANGED <<tables, ghosts, faults>>

\* The overflow of a retry enqueues without trying to reschedule.
MoveRow(a) ==
    /\ agent[a].at = "moveRow"
    /\ MayBeActive(Mine(a))
    /\ BecomesWith(Mine(a), "queued")
    /\ TakenBy(a, Mine(a))
    /\ GoesTo(a, "reschedule") \/ GoesTo(a, "enqueue")
    /\ UNCHANGED <<work, sent, accepted, lost, requests, faults>>

MoveRefused(a) ==
    /\ agent[a].at = "moveRow"
    /\ ~MayBeActive(Mine(a))
    /\ Ends(a)
    /\ UNCHANGED <<tables, ghosts, requests, faults>>

\* reschedulePendingWork moves the date of a pending job, or finds none.
Rescheduled(a) ==
    /\ agent[a].at = "reschedule"
    /\ row[Mine(a)].linked /\ work[Mine(a)] = "pending"
    /\ Planned(a)
    /\ UNCHANGED <<tables, ghosts, requests, faults>>

NotRescheduled(a) ==
    /\ agent[a].at = "reschedule"
    /\ ~(row[Mine(a)].linked /\ work[Mine(a)] = "pending")
    /\ GoesTo(a, "enqueue")
    /\ UNCHANGED <<tables, ghosts, requests, faults>>

\* cancelSendQueueItems: the same check, then the job, then the row.
CancelBegin(a, q) ==
    /\ Movable(q)
    /\ Begins(a, "cancel", "dropWork", q)
    /\ CountRequest
    /\ UNCHANGED <<tables, ghosts, faults>>

DropWork(a) ==
    /\ agent[a].at = "dropWork"
    /\ WorkDropped(Mine(a))
    /\ GoesTo(a, IF agent[a].op = "cancel" THEN "cancelRow" ELSE "mark")
    /\ UNCHANGED <<row, sent, ghosts, requests, faults>>

CancelRow(a) ==
    /\ agent[a].at = "cancelRow"
    /\ BecomesWith(Mine(a), "cancelled")
    /\ TakenBy(a, Mine(a))
    /\ Ends(a)
    /\ UNCHANGED <<work, sent, accepted, lost, requests, faults>>

-----------------------------------------------------------------------------
\* sendNowQueueItems, up to its claim of the row.  First the waterfall, which
\* may give the row another inbox or another day.

SendNowBegin(a, q) ==
    /\ Movable(q)
    /\ Begins(a, "plan", "today", q) \/ Begins(a, "plan", "place", q)
    /\ CountRequest
    /\ UNCHANGED <<tables, ghosts, faults>>

\* The update of the waterfall: no status in it, but updated_at.  With a new
\* day, the job that was known of is moved too.
Place(a) ==
    /\ agent[a].at = "place"
    /\ row' = [row EXCEPT ![Mine(a)].old = FALSE]
    /\ \/ row[Mine(a)].linked /\ GoesTo(a, "reschedule")
       \/ Planned(a)
    /\ UNCHANGED <<work, sent, ghosts, requests, faults>>

\* Another day, or no capacity left today.
NotToday(a) ==
    /\ agent[a].at = "today"
    /\ Ends(a)
    /\ UNCHANGED <<tables, ghosts, requests, faults>>

Today(a) ==
    /\ agent[a].at = "today"
    /\ WorkDropped(Mine(a))
    /\ agent' = [agent EXCEPT ![a].op = "sendNow", ![a].at = "claim"]
    /\ UNCHANGED <<row, sent, ghosts, requests, faults>>

SendNowSeesSent(a) ==
    /\ Is(a, "sendNow", "claim")
    /\ Email(a) \in sent
    /\ GoesTo(a, "dropWork")
    /\ UNCHANGED <<tables, ghosts, requests, faults>>

\* What itemAlreadySent said before is asked again before the send.
SendNowClaims(a) ==
    /\ Is(a, "sendNow", "claim")
    /\ Movable(Mine(a)) /\ MayBeActive(Mine(a))
    /\ BecomesWith(Mine(a), "sending")
    /\ GoesTo(a, "check")
    /\ UNCHANGED <<work, sent, ghosts, requests, faults>>

SendNowMisses(a) ==
    /\ Is(a, "sendNow", "claim")
    /\ ~(Movable(Mine(a)) /\ MayBeActive(Mine(a)))
    /\ Ends(a)
    /\ UNCHANGED <<tables, ghosts, requests, faults>>

-----------------------------------------------------------------------------
\* processQueuedEmailSend, up to its claim of the row: one transaction, with
\* the row locked.

DeliverBegin(a, q) ==
    /\ work[q] = "pending"
    /\ work' = [work EXCEPT ![q] = "in_flight"]
    /\ Begins(a, "deliver", "claim", q)
    /\ UNCHANGED <<row, sent, ghosts, requests, faults>>

\* Mutant: a row that somebody is sending is taken over at once.
DeliverableAlways(q) == row[q].status \in {"queued", "failed", "sending"}

Deliverable(q) ==
    \/ row[q].status \in {"queued", "failed"}
    \/ row[q].status = "sending" /\ row[q].old

DeliverClaims(a) ==
    /\ Is(a, "deliver", "claim")
    /\ Deliverable(Mine(a)) /\ MayBeActive(Mine(a))
    /\ BecomesWith(Mine(a), "sending")
    /\ GoesTo(a, "check")
    /\ UNCHANGED <<work, sent, ghosts, requests, faults>>

DeliverCollides(a) ==
    /\ Is(a, "deliver", "claim")
    /\ Deliverable(Mine(a)) /\ ~MayBeActive(Mine(a))
    /\ GoesTo(a, "retry")
    /\ UNCHANGED <<tables, ghosts, requests, faults>>

DeliverSkips(a) ==
    /\ Is(a, "deliver", "claim")
    /\ ~Deliverable(Mine(a))
    /\ GoesTo(a, "done")
    /\ UNCHANGED <<tables, ghosts, requests, faults>>

-----------------------------------------------------------------------------
\* executeImmediateResend, for whoever has claimed the row.

\* loadLatestSendablePayload finds nothing to send.
DraftGone(a) ==
    /\ agent[a].at = "check"
    /\ GoesTo(a, "fail")
    /\ UNCHANGED <<tables, ghosts, requests, faults>>

\* Mutant: the record is not consulted.
CheckNothing(a) ==
    /\ agent[a].at = "check"
    /\ GoesTo(a, "send")
    /\ UNCHANGED <<tables, ghosts, requests, faults>>

\* itemAlreadySent.
CheckSent(a) ==
    /\ agent[a].at = "check"
    /\ GoesTo(a, IF Email(a) \in sent THEN "mark" ELSE "send")
    /\ UNCHANGED <<tables, ghosts, requests, faults>>

Accepts(a) ==
    /\ agent[a].at = "send"
    /\ accepted' = [accepted EXCEPT ![Email(a)] = @ + 1]
    /\ GoesTo(a, "record")
    /\ UNCHANGED <<tables, lost, disturbed, requests, faults>>

\* A timeout after the provider took the email.
AcceptsUnheard(a) ==
    /\ agent[a].at = "send"
    /\ accepted' = [accepted EXCEPT ![Email(a)] = @ + 1]
    /\ lost' = [lost EXCEPT ![Email(a)] = @ + 1]
    /\ GoesTo(a, "caught")
    /\ CountFault
    /\ UNCHANGED <<tables, disturbed, requests>>

Refuses(a) ==
    /\ agent[a].at = "send"
    /\ GoesTo(a, "caught")
    /\ UNCHANGED <<tables, ghosts, requests, faults>>

RecordSend(a) ==
    /\ agent[a].at = "record"
    /\ sent' = sent \cup {Email(a)}
    /\ GoesTo(a, "mark")
    /\ UNCHANGED <<row, work, ghosts, requests, faults>>

RecordFails(a) ==
    /\ agent[a].at = "record"
    /\ lost' = [lost EXCEPT ![Email(a)] = @ + 1]
    /\ GoesTo(a, "caught")
    /\ CountFault
    /\ UNCHANGED <<tables, accepted, disturbed, requests>>

\* The catch block: somebody's record, else a pause of the account or a
\* transient error (back to queued), else a failure.
Caught(a) ==
    /\ agent[a].at = "caught"
    /\ IF Email(a) \in sent THEN GoesTo(a, "mark")
       ELSE GoesTo(a, "putBack") \/ GoesTo(a, "fail")
    /\ UNCHANGED <<tables, ghosts, requests, faults>>

-----------------------------------------------------------------------------
\* The final updates.

\* Mutant: only the row that is being sent is marked.
MarkSentSending(a) ==
    /\ agent[a].at = "mark"
    /\ IF row[Mine(a)].status = "sending"
       THEN BecomesWith(Mine(a), "sent") ELSE UNCHANGED row
    /\ Returns(a, "done")
    /\ UNCHANGED <<work, sent, ghosts, requests, faults>>

\* markQueueItemSent: the one final update that compares the status.
MarkSent(a) ==
    /\ agent[a].at = "mark"
    /\ IF row[Mine(a)].status \in {"queued", "sending", "failed"}
       THEN BecomesWith(Mine(a), "sent") ELSE UNCHANGED row
    /\ Returns(a, "done")
    /\ UNCHANGED <<work, sent, ghosts, requests, faults>>

\* The transient branch, and parkQueueForAgentMailPause.
PutBack(a) ==
    /\ agent[a].at = "putBack"
    /\ MayBeActive(Mine(a))
    /\ BecomesWith(Mine(a), "queued")
    /\ TakenBy(a, Mine(a))
    /\ GoesTo(a, IF agent[a].op = "deliver" THEN "retry" ELSE "enqueue")
    /\ UNCHANGED <<work, sent, accepted, lost, requests, faults>>

PutBackCollides(a) ==
    /\ agent[a].at = "putBack"
    /\ ~MayBeActive(Mine(a))
    /\ Returns(a, "retry")
    /\ UNCHANGED <<tables, ghosts, requests, faults>>

FailRow(a) ==
    /\ agent[a].at = "fail"
    /\ BecomesWith(Mine(a), "failed")
    /\ TakenBy(a, Mine(a))
    /\ Returns(a, "done")
    /\ UNCHANGED <<work, sent, accepted, lost, requests, faults>>

\* handleEmailSend settles its job, unless its lease or the answer is lost.
Complete(a) ==
    /\ agent[a].at = "done"
    /\ \/ /\ work[Mine(a)] = "in_flight"
          /\ work' = [work EXCEPT ![Mine(a)] = "done"]
       \/ UNCHANGED work
    /\ Ends(a)
    /\ UNCHANGED <<row, sent, ghosts, requests, faults>>

Retry(a) ==
    /\ agent[a].at = "retry"
    /\ \/ /\ work[Mine(a)] = "in_flight"
          /\ \E s \in {"pending", "failed"} :
                work' = [work EXCEPT ![Mine(a)] = s]
       \/ UNCHANGED work
    /\ Ends(a)
    /\ UNCHANGED <<row, sent, ghosts, requests, faults>>

-----------------------------------------------------------------------------
\* reconcileEmailSendQueue and rebalanceOverCapSendQueue: each query, and
\* later what is done to one of its rows.

\* Mutant: the record is not asked for.
FindsAny(a, q) ==
    /\ Movable(q)
    /\ Begins(a, "reconcile", "dropWork", q)
    /\ UNCHANGED <<tables, ghosts, requests, faults>>

FindsRecorded(a, q) ==
    /\ Movable(q) /\ ItemOf[q] \in sent
    /\ Begins(a, "reconcile", "dropWork", q)
    /\ UNCHANGED <<tables, ghosts, requests, faults>>

\* No job will come for the row.
Uncarried(q) == ~row[q].linked \/ work[q] \notin OpenWork

FindsStuck(a, q) ==
    /\ row[q].status = "sending" /\ row[q].old /\ Uncarried(q)
    /\ Begins(a, "reconcile", "unstick", q)
    /\ UNCHANGED <<tables, ghosts, requests, faults>>

FindsStranded(a, q) ==
    /\ row[q].status = "queued" /\ Uncarried(q)
    /\ Begins(a, "reconcile", "enqueue", q)
    /\ UNCHANGED <<tables, ghosts, requests, faults>>

FindsOverCap(a, q) ==
    /\ row[q].status = "queued"
    /\ Begins(a, "reconcile", "place", q)
    /\ UNCHANGED <<tables, ghosts, requests, faults>>

\* Mutant: the stuck row is left as it is.
UnstickNothing(a) ==
    /\ agent[a].at = "unstick"
    /\ Ends(a)
    /\ UNCHANGED <<tables, ghosts, requests, faults>>

Unstick(a) ==
    /\ agent[a].at = "unstick"
    /\ IF row[Mine(a)].status = "sending"
       THEN BecomesWith(Mine(a), "queued") /\ TakenBy(a, Mine(a))
       ELSE UNCHANGED <<row, disturbed>>
    /\ Ends(a)
    /\ UNCHANGED <<work, sent, accepted, lost, requests, faults>>

-----------------------------------------------------------------------------
\* Faults and the clock.

\* A process dies: what was accepted and not recorded is lost.
Dies(a) ==
    /\ agent[a] # Idle
    /\ lost' = IF agent[a].at = "record"
               THEN [lost EXCEPT ![Email(a)] = @ + 1] ELSE lost
    /\ Ends(a)
    /\ CountFault
    /\ UNCHANGED <<tables, accepted, disturbed, requests>>

\* A statement throws out of the handler.
Throws(a) ==
    /\ agent[a].op = "deliver"
    /\ agent[a].at \in {"claim", "check"} \cup Closing
    /\ GoesTo(a, "retry")
    /\ CountFault
    /\ UNCHANGED <<tables, ghosts, requests>>

\* Fifteen minutes pass over a row that nobody is sending any more, or over
\* a sender that hangs.
BecomesOld(q) ==
    /\ row[q].status = "sending" /\ ~row[q].old
    /\ Holders(q) = {}
    /\ row' = [row EXCEPT ![q].old = TRUE]
    /\ UNCHANGED <<work, sent, agent, ghosts, requests, faults>>

Overdue(q) ==
    /\ row[q].status = "sending" /\ ~row[q].old
    /\ Holders(q) # {}
    /\ row' = [row EXCEPT ![q].old = TRUE]
    /\ disturbed' = IF Senders(q) = {} THEN disturbed
                    ELSE disturbed \cup {ItemOf[q]}
    /\ CountFault
    /\ UNCHANGED <<work, sent, agent, accepted, lost, requests>>

\* The lease of a dead body is reclaimed, or swept without attempts left.
Reclaim(q) ==
    /\ work[q] = "in_flight"
    /\ ~Delivering(q)
    /\ \E s \in {"pending", "failed"} : work' = [work EXCEPT ![q] = s]
    /\ UNCHANGED <<row, sent, agent, ghosts, requests, faults>>

\* The lease of a living one lapses, and another body may start.
LeaseLapses(q) ==
    /\ work[q] = "in_flight"
    /\ Delivering(q)
    /\ work' = [work EXCEPT ![q] = "pending"]
    /\ CountFault
    /\ UNCHANGED <<row, sent, agent, ghosts, requests>>

-----------------------------------------------------------------------------

RequestBegins(a, q) ==
    \/ DispatchBegin(a, q)
    \/ MoveBegin(a, q)
    \/ CancelBegin(a, q)
    \/ SendNowBegin(a, q)

BodyBegins(a, q) ==
    \/ DeliverBegin(a, q)
    \/ FindsRecorded(a, q)
    \/ FindsStuck(a, q)
    \/ FindsStranded(a, q)
    \/ FindsOverCap(a, q)

QueueStep(a) ==
    \/ Insert(a) \/ InsertRefused(a) \/ EnqueueRow(a) \/ LinkRow(a)
    \/ MoveRow(a) \/ MoveRefused(a) \/ Rescheduled(a) \/ NotRescheduled(a)
    \/ DropWork(a) \/ CancelRow(a) \/ Place(a) \/ Unstick(a)
    \/ NotToday(a) \/ Today(a)

ClaimStep(a) ==
    \/ SendNowSeesSent(a) \/ SendNowClaims(a) \/ SendNowMisses(a)
    \/ DeliverClaims(a) \/ DeliverCollides(a) \/ DeliverSkips(a)

SendStep(a) ==
    \/ DraftGone(a) \/ CheckSent(a)
    \/ Accepts(a) \/ Refuses(a)
    \/ RecordSend(a) \/ Caught(a)

FinalStep(a) ==
    \/ MarkSent(a)
    \/ PutBack(a) \/ PutBackCollides(a)
    \/ FailRow(a)
    \/ Complete(a) \/ Retry(a)

Step(a) == QueueStep(a) \/ ClaimStep(a) \/ SendStep(a) \/ FinalStep(a)

AgentFault(a) ==
    AcceptsUnheard(a) \/ RecordFails(a) \/ Dies(a) \/ Throws(a)

TimePasses(q) ==
    BecomesOld(q) \/ Overdue(q) \/ Reclaim(q) \/ LeaseLapses(q)

SendNext ==
    \/ \E a \in Requests, q \in Rows : RequestBegins(a, q)
    \/ \E a \in Bodies, q \in Rows : BodyBegins(a, q)
    \/ \E a \in Agents : Step(a) \/ AgentFault(a)
    \/ \E q \in Rows : TimePasses(q)

SendSpec == SendInit /\ [][SendNext]_vars

=============================================================================
