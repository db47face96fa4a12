------------------------------ MODULE InboxSlots -----------------------------
(***************************************************************************)
(* How queued emails share the inboxes of a sender: an inbox sends at most *)
(* Cap emails a day, and what is over waits for another inbox or day.  The *)
(* usage of a slot (an inbox on a day) is read, slots are chosen from what *)
(* was read, and the rows are written one after the other; nothing locks   *)
(* the slot meanwhile, and delivery does not look at it.  What came out    *)
(* over the cap is for rebalanceOverCapSendQueue to put right.             *)
(*                                                                         *)
(* One sender identity, from today on; the first day is today.  How a row  *)
(* is delivered is the business of EmailSendQueue.                         *)
(***************************************************************************)
EXTENDS Naturals, FiniteSetsExt

CONSTANTS
    Emails,      \* rows, numbered in the order of created_at
    Failed,      \* those that failed today, in the first inbox, before it all begins
    Boxes,       \* inboxes of the sender, numbered in the order they are filled
    Days,        \* days from allocationStartNy on, numbered from 1
    Cap,         \* getDailyInboxCap
    Planners,    \* executions that place rows, at a time
    MaxCalls     \* bound: enqueues, moves, retries, sends-now and redeliveries

ASSUME SlotsAssumption ==
    /\ IsFiniteSet(Emails) /\ Emails \subseteq Nat /\ Failed \subseteq Emails
    /\ Boxes \subseteq Nat \ {0} /\ Days \subseteq Nat \ {0} /\ 1 \in Boxes \cap Days
    /\ IsFiniteSet(Boxes) /\ IsFiniteSet(Days)
    /\ Cap \in Nat \ {0} /\ MaxCalls \in Nat
    \* Bound: days enough that each email finds a place, beside what is there
    \* and counted twice; the code looks at ten thousand.
    /\ Cardinality(Boxes \X Days) >= 3 * Cardinality(Emails)

VARIABLES
    letter,      \* email_send_queue: the status of each row, and its slot
    posted,      \* email_sends: the slot each email was sent in
    planner,     \* the executions
    calls

slotVars == <<letter, posted, planner, calls>>

-----------------------------------------------------------------------------
Slots    == Boxes \X Days
Nowhere  == <<>>
\* The order allocateInboxSlots fills them in: inbox after inbox, then the next day.
Before(s, t) == s[2] < t[2] \/ (s[2] = t[2] /\ s[1] < t[1])

LetterStatus == {"absent", "queued", "sending", "sent", "failed"}
Letter == [status : LetterStatus, slot : Slots \cup {Nowhere}]

Calls   == {"enqueue", "sendNow", "retry", "move", "rebalance"}
\* One that is "reading" has loaded its rows, one that is "counting" the queued
\* ones of the usage; one that is "writing" has a slot for each row of `plan`.
Planner == [call : Calls \cup {"none"}, at : {"idle", "reading", "counting", "writing"},
            saw : UNION {[es -> Letter] : es \in SUBSET Emails},
            used : [Slots -> Nat], plan : UNION {[es -> Slots] : es \in SUBSET Emails}]

NoneUsed == [s \in Slots |-> 0]
Nothing  == [e \in {} |-> Nowhere]
Unoccupied == [call |-> "none", at |-> "idle", saw |-> Nothing, used |-> NoneUsed,
               plan |-> Nothing]

SlotsInit ==
    /\ letter = [e \in Emails |-> IF e \in Failed THEN [status |-> "failed", slot |-> <<1, 1>>]
                                ELSE [status |-> "absent", slot |-> Nowhere]]
    /\ posted = [e \in Emails |-> Nowhere]
    /\ planner = [p \in Planners |-> Unoccupied]
    /\ calls = 0

InUse == {"queued", "sending"}

\* The two reads of inboxUsageFromDate: rows that wait or are being sent, and
\* emails that were sent; one that is sent between them counts twice.
UsageQueued(s) == Cardinality({e \in Emails : letter[e].slot = s /\ letter[e].status \in InUse})
UsageSent(s)   == Cardinality({e \in Emails : posted[e] = s})

\* Mutant: a slot takes one email more than the cap.
FreeOffByOne(used) == {p \in Slots \X (1..Cap) : p[2] >= used[p[1]]}

\* allocateInboxSlots: the n-th of the free places, in the order they are filled.
Free(used) == {p \in Slots \X (1..Cap) : p[2] > used[p[1]]}
NotAfter(p, q) == Before(p[1], q[1]) \/ (p[1] = q[1] /\ p[2] <= q[2])
Allocated(used, n) ==
    LET free == Free(used)
    IN (CHOOSE p \in free : Cardinality({q \in free : NotAfter(q, p)}) = n)[1]

\* releaseRowsFromUsage: the rows to be placed give back what they were loaded with.
Released(used, saw) ==
    [s \in Slots |->
       LET own == {e \in DOMAIN saw : saw[e].slot = s /\ saw[e].status \in InUse}
       IN IF used[s] > Cardinality(own) THEN used[s] - Cardinality(own) ELSE 0]

\* Mutant: places are counted as they were before the first row took one.
WaterfallUncounted(used, es) == [e \in es |-> Allocated(used, 1)]

\* Rows in order of created_at, each the next free place.
Waterfall(used, es) ==
    [e \in es |-> Allocated(used, Cardinality({d \in es : d <= e}))]

-----------------------------------------------------------------------------
Sees(es) == [e \in es |-> letter[e]]

StartsCall(p, call, es) ==
    /\ planner[p].at = "idle"
    /\ planner' = [planner EXCEPT ![p] =
         [Unoccupied EXCEPT !.call = call, !.at = "reading", !.saw = Sees(es)]]
    /\ UNCHANGED <<letter, posted>>

\* What each call loads: enqueueOverflowBatch rows that are not there yet,
\* sendQueueItemsNow and moveSendQueueItems those that wait or failed,
\* retryFailedQueueItems those that failed.
Loads(call) ==
    CASE call = "enqueue" -> {"absent"}
      [] call = "retry"   -> {"failed"}
      [] OTHER            -> {"queued", "failed"}

Call(p) ==
    /\ calls < MaxCalls /\ calls' = calls + 1
    /\ \E call \in Calls \ {"rebalance"}, es \in (SUBSET Emails) \ {{}} :
         /\ \A e \in es : letter[e].status \in Loads(call)
         /\ StartsCall(p, call, es)

\* rebalanceOverCapSendQueue: when an inbox is over the cap on some day, all
\* queued rows of its identity are placed anew.
Queued == {e \in Emails : letter[e].status = "queued"}

OverCap == {s \in Slots : UsageQueued(s) + UsageSent(s) > Cap}

RebalanceStarts(p) ==
    /\ planner[p].at = "idle"
    /\ \E s \in OverCap, e \in Queued : letter[e].slot[1] = s[1]
    /\ StartsCall(p, "rebalance", Queued)
    /\ UNCHANGED calls

ReadQueued(p) ==
    /\ planner[p].at = "reading"
    /\ planner' = [planner EXCEPT ![p].at = "counting", ![p].used = [s \in Slots |-> UsageQueued(s)]]
    /\ UNCHANGED <<letter, posted, calls>>

ReadSent(p) ==
    LET me   == planner[p]
        used == [s \in Slots |-> me.used[s] + UsageSent(s)]
        es   == DOMAIN me.saw
    IN
    /\ me.at = "counting"
    /\ \/ /\ me.call \in {"enqueue", "retry"}
          /\ planner' = [planner EXCEPT ![p] =
               [Unoccupied EXCEPT !.call = me.call, !.at = "writing", !.plan = Waterfall(used, es)]]
       \/ /\ me.call \in {"sendNow", "rebalance"}
          /\ LET plan  == Waterfall(Released(used, me.saw), es)
                 moved == {e \in es : plan[e] # me.saw[e].slot}
             IN planner' = [planner EXCEPT ![p] =
                  IF moved = {} THEN Unoccupied
                  ELSE [Unoccupied EXCEPT !.call = me.call, !.at = "writing",
                                          !.plan = [e \in moved |-> plan[e]]]]
       \/ /\ me.call = "move"
          /\ \E day \in Days :
               LET to(e)    == <<me.saw[e].slot[1], day>>
                   added(s) == {e \in es : to(e) = s /\ me.saw[e].slot # s}
               IN planner' = [planner EXCEPT ![p] =
                    IF \E s \in Slots : added(s) # {} /\ used[s] + Cardinality(added(s)) > Cap
                    THEN Unoccupied        \* capacity_exceeded
                    ELSE [Unoccupied EXCEPT !.call = "move", !.at = "writing",
                                            !.plan = [e \in es |-> to(e)]]]
    /\ UNCHANGED <<letter, posted, calls>>

\* The next row of a plan, and what is left of the plan after it.
NextRow(p) == Min(DOMAIN planner[p].plan)
Written(p) ==
    LET left == DOMAIN planner[p].plan \ {NextRow(p)}
        rest == [e \in left |-> planner[p].plan[e]]
    IN planner' = [planner EXCEPT ![p] =
         IF left = {} THEN Unoccupied ELSE [@ EXCEPT !.plan = rest]]

\* INSERT; when the email has a row by now the unique index refuses this one,
\* and the call throws.
InsertRow(p) ==
    LET e == NextRow(p) IN
    /\ planner[p].at = "writing" /\ planner[p].call = "enqueue"
    /\ IF letter[e].status = "absent"
       THEN /\ letter' = [letter EXCEPT ![e] = [status |-> "queued", slot |-> planner[p].plan[e]]]
            /\ Written(p)
       ELSE /\ planner' = [planner EXCEPT ![p] = Unoccupied]
            /\ UNCHANGED letter
    /\ UNCHANGED <<posted, calls>>

\* UPDATE ... WHERE id, whatever the row is by now; a waterfall leaves the
\* status alone.
UpdateRow(p) ==
    LET e == NextRow(p)
        keeps == planner[p].call \in {"sendNow", "rebalance"}
    IN
    /\ planner[p].at = "writing" /\ planner[p].call # "enqueue"
    /\ letter' = [letter EXCEPT ![e] = [status |-> IF keeps THEN @.status ELSE "queued",
                                        slot |-> planner[p].plan[e]]]
    /\ Written(p)
    /\ UNCHANGED <<posted, calls>>

\* The process dies, or a statement throws.
PlannerDies(p) ==
    /\ calls < MaxCalls /\ calls' = calls + 1
    /\ planner[p].at # "idle"
    /\ planner' = [planner EXCEPT ![p] = Unoccupied]
    /\ UNCHANGED <<letter, posted>>

-----------------------------------------------------------------------------
\* Delivery of a row of today; nothing asks whether its inbox is full.
Delivery(e, from, to) ==
    /\ letter[e].status = from
    /\ letter' = [letter EXCEPT ![e].status = to]
    /\ UNCHANGED planner

Taken(e) ==
    /\ Delivery(e, "queued", "sending")
    /\ letter[e].slot[2] = 1
    /\ UNCHANGED <<posted, calls>>

\* The email counts for the inbox it was sent from and the day it was sent; a
\* row of an email that was sent is only marked.
Gone(e) ==
    /\ Delivery(e, "sending", "sent")
    /\ posted' = [posted EXCEPT ![e] = IF @ = Nowhere THEN <<letter[e].slot[1], 1>> ELSE @]
    /\ UNCHANGED calls

NotGone(e) ==
    /\ calls < MaxCalls /\ calls' = calls + 1
    /\ Delivery(e, "sending", "queued") \/ Delivery(e, "sending", "failed")
    /\ UNCHANGED posted

-----------------------------------------------------------------------------
Plans(p) == ReadQueued(p) \/ ReadSent(p) \/ InsertRow(p) \/ UpdateRow(p)

SlotsNext ==
    \/ \E p \in Planners : Call(p) \/ RebalanceStarts(p) \/ Plans(p) \/ PlannerDies(p)
    \/ \E e \in Emails : Taken(e) \/ Gone(e) \/ NotGone(e)

SlotsSpec == SlotsInit /\ [][SlotsNext]_slotVars

\* A planner goes on, and system.reconcile comes round; nothing is sure to be sent.
SlotsFairness ==
    /\ WF_slotVars(\E p \in Planners : Plans(p))
    /\ WF_slotVars(\E p \in Planners : RebalanceStarts(p))

-----------------------------------------------------------------------------
\* Rows, emails and planners keep their types.
SlotsTypeOK ==
    /\ letter \in [Emails -> Letter]
    /\ posted \in [Emails -> Slots \cup {Nowhere}]
    /\ planner \in [Planners -> Planner]
    /\ calls \in 0..MaxCalls

FillsInOrder(p) ==
    LET me      == planner[p]
        plan    == planner'[p].plan
        left    == Released([s \in Slots |-> me.used[s] + UsageSent(s)], me.saw)
        goal(e) == IF e \in DOMAIN plan THEN plan[e] ELSE me.saw[e].slot
        full(s) == left[s] + Cardinality({e \in DOMAIN me.saw : goal(e) = s})
    IN me.at = "counting" /\ planner'[p].at = "writing" /\ me.call # "move" =>
         \A e \in DOMAIN me.saw :
           /\ full(goal(e)) <= Cap
           /\ \A s \in Slots : Before(s, goal(e)) => full(s) >= Cap
           /\ \A d \in DOMAIN me.saw : d < e => ~Before(goal(e), goal(d))

\* By what a call has read, its plan gives no inbox more than the cap on a day,
\* touches no day or inbox as long as one before it has room, and never sends
\* the younger of two emails first (allocateInboxSlots, for all calls that use
\* it).  Rows that stay where they are count as placed there.
PlansFillInOrder == [][\A p \in Planners : FillsInOrder(p)]_slotVars

\* An inbox that has more emails on a day than the cap, because two calls were
\* placed on the same count or a call was placed behind a delivery's back, does
\* not stay so while some of them still wait: rebalanceOverCapSendQueue sees the
\* excess whoever caused it and moves rows until it is gone or all were sent.
OverCapIsCorrected ==
    LET crowded == \E s \in OverCap, e \in Queued : letter[e].slot = s
    IN SlotsFairness => (crowded ~> ~crowded)

=============================================================================
