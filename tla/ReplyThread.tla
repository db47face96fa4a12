----------------------------- MODULE ReplyThread -----------------------------
(***************************************************************************)
(* The answers to a lead who writes back to an outreach email: messages    *)
(* that come in by webhook or are found by the poll of system.reconcile,   *)
(* the reply each of them may get, the follow-up a deferring reply leaves  *)
(* behind, and the handlers of reply.respond and reply.followup that draft *)
(* and send them.  One thread, that is, one row of email_sends.            *)
(*                                                                         *)
(* A step is a statement or a call of the provider; the reads that follow  *)
(* each other with nothing of another process to tell them apart are one.  *)
(* Forwarding a message to its human owner changes nothing here and is left *)
(* out, and so are texts.                                                  *)
(***************************************************************************)
EXTENDS Naturals, FiniteSets

CONSTANTS
    Inbounds,      \* the lead's messages, numbered in the order of received_at
    Bounces,       \* those autoReplySkipReason recognizes
    Takers,        \* executions of the webhook, or of the poll, at a time
    Writers,       \* executions of reply.respond and reply.followup at a time
    MaxTurns,      \* REPLY_MAX_IMMEDIATE_TURNS
    MaxTroubles    \* bound: missed webhooks, crashes, errors, lapses and pauses

ASSUME ReplyAssumption ==
    /\ Inbounds \subseteq Nat /\ IsFiniteSet(Inbounds) /\ Bounces \subseteq Inbounds
    /\ MaxTurns \in Nat /\ MaxTroubles \in Nat
    /\ {"none", "pending", "early", "closed"} \cap Writers = {}

VARIABLES
    event,       \* what the provider still does about a message
    stored,      \* inbound_emails
    processed,   \* email_sends.processed_webhook_ids
    optedOut,    \* email_sends.reply_suppressed_at is set
    reply,       \* reply_sends
    carrier,     \* the orchestration row of each reply
    taker, writer,
    troubles,
    declined,    \* history: messages it was decided not to answer
    answered,    \* history: follow-ups claimed after a newer message was stored
    mailed       \* history: how often the provider accepted a reply

replyVars == <<event, stored, processed, optedOut, reply, carrier, taker, writer,
               troubles, declined, answered, mailed>>

-----------------------------------------------------------------------------
\* A reply is named by the message it goes back to and its kind: a unique index
\* allows one immediate reply to a message, and that one leaves one follow-up.
Immediate == Inbounds \X {"immediate"}
Followups == Inbounds \X {"followup"}
Replies   == Immediate \cup Followups
FollowupOf(r) == <<r[1], "followup">>

\* "missed" by the webhook: only the poll can find the message.
EventState  == {"none", "due", "missed", "acknowledged"}
ReplyStatus == {"none", "queued", "scheduled", "drafting", "sent", "failed", "cancelled"}
Reply       == [status : ReplyStatus, due : BOOLEAN, paused : BOOLEAN]
Ended(r)    == reply[r].status \in {"sent", "failed", "cancelled"}

\* A pending row waits for scheduled_for, an early one does not.
Carrier == {"none", "pending", "early", "closed"} \cup Writers
Open(r) == carrier[r] \notin {"none", "closed"}

TakerAt == {"idle", "store", "cancel", "look", "turns", "count", "insert", "enqueue", "mark"}
Taker   == [at : TakerAt, inbound : Inbounds \cup {0}, polled : BOOLEAN,
            seen : SUBSET Inbounds, turns : Nat]
Waiting == [at |-> "idle", inbound |-> 0, polled |-> FALSE, seen |-> {}, turns |-> 0]

WriterAt  == {"idle", "claim", "check", "draft", "optout", "send", "record", "insert",
              "enqueue", "giveback"}
Writer    == [at : WriterAt, reply : Replies \cup {<<>>}, says : {"reply_now", "suppress", "defer"}]
Resting   == [at |-> "idle", reply |-> <<>>, says |-> "reply_now"]

ReplyTypeOK ==
    /\ event \in [Inbounds -> EventState]
    /\ stored \subseteq Inbounds /\ processed \subseteq Inbounds
    /\ optedOut \in BOOLEAN
    /\ reply \in [Replies -> Reply]
    /\ carrier \in [Replies -> Carrier]
    /\ taker \in [Takers -> Taker]
    /\ \A t \in Takers : taker[t].at # "idle" => taker[t].inbound \in Inbounds
    /\ writer \in [Writers -> Writer]
    /\ \A w \in Writers : writer[w].at # "idle" => writer[w].reply \in Replies
    /\ troubles \in 0..MaxTroubles
    /\ declined \subseteq Inbounds /\ answered \subseteq Followups
    /\ mailed \in [Replies -> Nat]

NoReply == [status |-> "none", due |-> FALSE, paused |-> FALSE]

ReplyInit ==
    /\ event = [m \in Inbounds |-> "none"]
    /\ stored = {} /\ processed = {} /\ optedOut = FALSE
    /\ reply = [r \in Replies |-> NoReply]
    /\ carrier = [r \in Replies |-> "none"]
    /\ taker = [t \in Takers |-> Waiting]
    /\ writer = [w \in Writers |-> Resting]
    /\ troubles = 0 /\ declined = {} /\ answered = {}
    /\ mailed = [r \in Replies |-> 0]

Trouble == troubles < MaxTroubles /\ troubles' = troubles + 1

-----------------------------------------------------------------------------
(***************************************************************************)
(* The lead and the provider.                                              *)
(***************************************************************************)
Arrives(m) ==
    /\ event[m] = "none" /\ \A k \in Inbounds : k < m => event[k] # "none"
    /\ \/ event' = [event EXCEPT ![m] = "due"] /\ UNCHANGED troubles
       \/ event' = [event EXCEPT ![m] = "missed"] /\ Trouble
    /\ UNCHANGED <<stored, processed, optedOut, reply, carrier, taker, writer,
                   declined, answered, mailed>>

-----------------------------------------------------------------------------
(***************************************************************************)
(* applyAgentMailWebhookEvent and processInboundLeadReply.                 *)
(***************************************************************************)
TakerStep(t, from, to) ==
    /\ taker[t].at = from
    /\ taker' = [taker EXCEPT ![t].at = to]

\* Nothing of the handlers changes.
Taking == UNCHANGED <<processed, optedOut, writer, troubles, answered, mailed>>

\* An event is delivered until it is acknowledged, a second time perhaps while
\* the first delivery still runs; one that was processed is a duplicate.
Deliver(t, m) ==
    /\ taker[t] = Waiting
    /\ event[m] = "due"
    /\ IF m \in processed
       THEN event' = [event EXCEPT ![m] = "acknowledged"] /\ UNCHANGED taker
       ELSE /\ taker' = [taker EXCEPT ![t] = [Waiting EXCEPT !.at = "store", !.inbound = m,
                                                             !.seen = processed]]
            /\ UNCHANGED event
    /\ UNCHANGED <<stored, reply, carrier, declined>> /\ Taking

\* reconcileAgentMailInbound looks only for messages that are not stored.
Poll(t, m) ==
    /\ taker[t] = Waiting
    /\ event[m] # "none" /\ m \notin stored
    /\ taker' = [taker EXCEPT ![t] = [Waiting EXCEPT !.at = "store", !.inbound = m,
                                          !.polled = TRUE, !.seen = processed]]
    /\ UNCHANGED <<event, stored, reply, carrier, declined>> /\ Taking

Store(t) ==
    LET m == taker[t].inbound IN
    /\ stored' = stored \cup {m}
    /\ TakerStep(t, "store", IF m \in Bounces THEN "mark" ELSE "cancel")
    /\ declined' = IF m \in Bounces THEN declined \cup {m} ELSE declined
    /\ UNCHANGED <<event, reply, carrier>> /\ Taking

FollowupsCancelled ==
    [r \in Replies |-> IF r \in Followups /\ reply[r].status = "scheduled"
                       THEN [reply[r] EXCEPT !.status = "cancelled"] ELSE reply[r]]

CancelFollowups(t) ==
    /\ TakerStep(t, "cancel", "look")
    /\ reply' = FollowupsCancelled
    /\ UNCHANGED <<event, stored, carrier, declined>> /\ Taking

Immediates(statuses) == Cardinality({r \in Immediate : reply[r].status \in statuses})

\* What a read tells: to go on, or not to answer.
Reads(t, from, answer, to) ==
    /\ TakerStep(t, from, IF answer THEN to ELSE "mark")
    /\ declined' = IF answer THEN declined ELSE declined \cup {taker[t].inbound}
    /\ UNCHANGED <<event, stored, reply, carrier>> /\ Taking

\* isThreadSuppressed
Look(t) == Reads(t, "look", ~optedOut, "turns")

\* countImmediateSentReplies
CountSent(t) ==
    LET n == Immediates({"sent"}) IN
    /\ taker[t].at = "turns"
    /\ IF n < MaxTurns
       THEN /\ taker' = [taker EXCEPT ![t].at = "count", ![t].turns = n]
            /\ UNCHANGED declined
       ELSE /\ TakerStep(t, "turns", "mark")
            /\ declined' = declined \cup {taker[t].inbound}
    /\ UNCHANGED <<event, stored, reply, carrier>> /\ Taking

\* Replies under way count too, added to the number read before.
Count(t) ==
    Reads(t, "count", taker[t].turns + Immediates({"queued", "drafting"}) < MaxTurns, "insert")

\* Mutant: a reply that exists is queued again.
InsertReplyAgain(t) ==
    LET r == <<taker[t].inbound, "immediate">> IN
    /\ TakerStep(t, "insert", "enqueue")
    /\ reply' = [reply EXCEPT ![r] = [NoReply EXCEPT !.status = "queued"]]
    /\ UNCHANGED <<event, stored, carrier, declined>> /\ Taking

InsertReply(t) ==
    LET r == <<taker[t].inbound, "immediate">> IN
    /\ taker[t].at = "insert"
    /\ IF reply[r].status # "none"
       THEN TakerStep(t, "insert", "mark") /\ UNCHANGED reply
       ELSE /\ TakerStep(t, "insert", "enqueue")
            /\ reply' = [reply EXCEPT ![r] = [NoReply EXCEPT !.status = "queued"]]
    /\ UNCHANGED <<event, stored, carrier, declined>> /\ Taking

EnqueueReply(t) ==
    LET r == <<taker[t].inbound, "immediate">> IN
    /\ TakerStep(t, "enqueue", "mark")
    /\ carrier' = [carrier EXCEPT ![r] = IF @ = "none" THEN "pending" ELSE @]
    /\ UNCHANGED <<event, stored, reply, declined>> /\ Taking

\* processed_webhook_ids is written back as it was read, with the new id.
Marks(t) ==
    /\ taker[t].at = "mark"
    /\ taker' = [taker EXCEPT ![t] = Waiting]
    /\ processed' = IF taker[t].polled THEN taker[t].seen
                    ELSE taker[t].seen \cup {taker[t].inbound}
    /\ UNCHANGED <<stored, optedOut, reply, carrier, writer, declined, answered, mailed>>

Mark(t) ==
    /\ Marks(t)
    /\ event' = IF taker[t].polled THEN event
                ELSE [event EXCEPT ![taker[t].inbound] = "acknowledged"]
    /\ UNCHANGED troubles

\* The process dies, a statement throws, or the answer to the provider is lost.
TakerDies(t) ==
    /\ Trouble
    /\ \/ /\ taker[t].at # "idle"
          /\ taker' = [taker EXCEPT ![t] = Waiting]
          /\ UNCHANGED <<stored, processed, optedOut, reply, carrier, writer,
                         declined, answered, mailed>>
       \/ Marks(t)
    /\ UNCHANGED event

-----------------------------------------------------------------------------
(***************************************************************************)
(* processReplyRespond and processReplyFollowup.                           *)
(***************************************************************************)
WriterStep(w, from, to) ==
    /\ writer[w].at = from
    /\ writer' = [writer EXCEPT ![w].at = to]

Writing == UNCHANGED <<event, stored, processed, taker, declined>>

\* The row is closed if it is still this execution's.
Settled(w, r)  == carrier' = [carrier EXCEPT ![r] = IF @ = w THEN "closed" ELSE @]
\* It is given back: tried again later, or out of attempts.
GivenBack(w, r, again) ==
    \/ carrier[r] = w /\ carrier' = [carrier EXCEPT ![r] = again]
    \/ carrier[r] = w /\ carrier' = [carrier EXCEPT ![r] = "closed"]
    \/ carrier[r] # w /\ UNCHANGED carrier

Waits(r) == reply[r].status = IF r \in Followups THEN "scheduled" ELSE "queued"

Newer(m) == \E n \in stored : n > m

TakeRow(w, r) ==
    /\ writer[w] = Resting
    /\ carrier[r] = "early" \/ (carrier[r] = "pending" /\ reply[r].due)
    /\ carrier' = [carrier EXCEPT ![r] = w]
    /\ writer' = [writer EXCEPT ![w] = [Resting EXCEPT !.at = "claim", !.reply = r]]
    /\ UNCHANGED <<optedOut, reply, troubles, answered, mailed>> /\ Writing

\* claimReplySend, by id, status and scheduled_for.
ClaimReply(w) ==
    LET r == writer[w].reply IN
    /\ WriterStep(w, "claim", IF r \in Followups THEN "check" ELSE "draft")
    /\ Waits(r) /\ reply[r].due
    /\ reply' = [reply EXCEPT ![r].status = "drafting"]
    /\ answered' = IF r \in Followups /\ Newer(r[1]) THEN answered \cup {r} ELSE answered
    /\ UNCHANGED <<optedOut, carrier, troubles, mailed>> /\ Writing

\* Nothing to claim: too early, and tried again, or already handled.
ClaimsNothing(w) ==
    LET r == writer[w].reply IN
    /\ writer[w].at = "claim"
    /\ ~(Waits(r) /\ reply[r].due)
    /\ IF Waits(r) THEN GivenBack(w, r, "pending") ELSE Settled(w, r)
    /\ writer' = [writer EXCEPT ![w] = Resting]
    /\ UNCHANGED <<optedOut, reply, troubles, answered, mailed>> /\ Writing

\* Mutant: the follow-up is sent whatever came in.
CheckOptOut(w) ==
    LET r == writer[w].reply IN
    /\ writer[w].at = "check"
    /\ IF optedOut
       THEN /\ writer' = [writer EXCEPT ![w] = Resting]
            /\ reply' = [reply EXCEPT ![r].status = "cancelled"]
            /\ Settled(w, r)
       ELSE WriterStep(w, "check", "draft") /\ UNCHANGED <<reply, carrier>>
    /\ UNCHANGED <<optedOut, troubles, answered, mailed>> /\ Writing

Check(w) ==
    LET r == writer[w].reply IN
    /\ writer[w].at = "check"
    /\ IF optedOut \/ Newer(r[1])
       THEN /\ writer' = [writer EXCEPT ![w] = Resting]
            /\ reply' = [reply EXCEPT ![r].status = "cancelled"]
            /\ Settled(w, r)
       ELSE WriterStep(w, "check", "draft") /\ UNCHANGED <<reply, carrier>>
    /\ UNCHANGED <<optedOut, troubles, answered, mailed>> /\ Writing

\* The model's disposition; a follow-up always replies.
Draft(w) ==
    LET r == writer[w].reply IN
    /\ writer[w].at = "draft"
    /\ \E says \in IF r \in Followups THEN {"reply_now"} ELSE {"reply_now", "suppress", "defer"} :
         /\ writer' = [writer EXCEPT ![w].at = IF says = "suppress" THEN "optout" ELSE "send",
                                     ![w].says = says]
         /\ reply' = IF says = "reply_now" THEN reply ELSE FollowupsCancelled
    /\ UNCHANGED <<optedOut, carrier, troubles, answered, mailed>> /\ Writing

OptOut(w) ==
    /\ WriterStep(w, "optout", "send")
    /\ optedOut' = TRUE
    /\ UNCHANGED <<reply, carrier, troubles, answered, mailed>> /\ Writing

\* markFailed and the end of the handler.
Fails(w) ==
    LET r == writer[w].reply IN
    /\ writer' = [writer EXCEPT ![w] = Resting]
    /\ reply' = [reply EXCEPT ![r].status = "failed", ![r].paused = FALSE]
    /\ Settled(w, r)
    /\ UNCHANGED <<optedOut, answered>> /\ Writing

\* A statement throws, or the draft does not pass the lint.
DraftFails(w) ==
    /\ writer[w].at \in {"check", "draft", "optout"}
    /\ Fails(w) /\ Trouble /\ UNCHANGED mailed

\* The provider refuses the reply, or takes it and its answer is lost.
SendFails(w) ==
    LET r == writer[w].reply IN
    /\ writer[w].at = "send" /\ Fails(w) /\ Trouble
    /\ mailed' \in {mailed, [mailed EXCEPT ![r] = @ + 1]}

Send(w) ==
    /\ WriterStep(w, "send", "record")
    /\ mailed' = [mailed EXCEPT ![writer[w].reply] = @ + 1]
    /\ UNCHANGED <<optedOut, reply, carrier, troubles, answered>> /\ Writing

\* parkReplyForAgentMailPause, then the row is to be tried again.
Park(w) ==
    LET r == writer[w].reply IN
    /\ WriterStep(w, "send", "giveback")
    /\ Trouble
    /\ reply' = [reply EXCEPT ![r] =
         [status |-> IF r \in Followups THEN "scheduled" ELSE "queued",
          due |-> FALSE, paused |-> TRUE]]
    /\ UNCHANGED <<optedOut, carrier, answered, mailed>> /\ Writing

GiveBack(w) ==
    LET r == writer[w].reply IN
    /\ writer[w].at = "giveback"
    /\ GivenBack(w, r, "pending")
    /\ writer' = [writer EXCEPT ![w] = Resting]
    /\ UNCHANGED <<optedOut, reply, troubles, answered, mailed>> /\ Writing

Record(w) ==
    LET r == writer[w].reply IN
    /\ writer[w].at = "record"
    /\ reply' = [reply EXCEPT ![r].status = "sent", ![r].paused = FALSE]
    /\ IF writer[w].says = "defer"
       THEN WriterStep(w, "record", "insert") /\ UNCHANGED carrier
       ELSE writer' = [writer EXCEPT ![w] = Resting] /\ Settled(w, r)
    /\ UNCHANGED <<optedOut, troubles, answered, mailed>> /\ Writing

InsertFollowup(w) ==
    LET f == FollowupOf(writer[w].reply) IN
    /\ writer[w].at = "insert"
    /\ WriterStep(w, "insert", "enqueue")
    /\ reply' = [reply EXCEPT ![f] = [NoReply EXCEPT !.status = "scheduled"]]
    /\ UNCHANGED <<optedOut, carrier, troubles, answered, mailed>> /\ Writing

EnqueueFollowup(w) ==
    LET r == writer[w].reply
        f == FollowupOf(r)
    IN
    /\ writer[w].at = "enqueue"
    /\ writer' = [writer EXCEPT ![w] = Resting]
    /\ carrier' = [carrier EXCEPT ![f] = IF @ = "none" THEN "pending" ELSE @,
                                  ![r] = IF @ = w THEN "closed" ELSE @]
    /\ UNCHANGED <<optedOut, reply, troubles, answered, mailed>> /\ Writing

\* A statement after the send throws: the reply that went out is marked failed.
AfterSendFails(w) ==
    /\ writer[w].at \in {"record", "insert", "enqueue"}
    /\ Fails(w) /\ Trouble /\ UNCHANGED mailed

WriterDies(w) ==
    LET r == writer[w].reply IN
    /\ Trouble
    /\ writer[w].at # "idle"
    /\ writer' = [writer EXCEPT ![w] = Resting]
    /\ GivenBack(w, r, "early")
    /\ UNCHANGED <<optedOut, reply, answered, mailed>> /\ Writing

\* The lease of an execution that goes on is over.
CarrierLapses(w) ==
    LET r == writer[w].reply IN
    /\ Trouble
    /\ writer[w].at # "idle" /\ carrier[r] = w
    /\ carrier' = [carrier EXCEPT ![r] = "early"]
    /\ UNCHANGED <<optedOut, reply, writer, answered, mailed>> /\ Writing

-----------------------------------------------------------------------------
(***************************************************************************)
(* Time, and reconcilePausedReplySends.                                    *)
(***************************************************************************)
ReplyDue(r) ==
    /\ reply[r].status \in {"queued", "scheduled"} /\ ~reply[r].due
    /\ reply' = [reply EXCEPT ![r].due = TRUE]
    /\ UNCHANGED <<optedOut, carrier, writer, troubles, answered, mailed>> /\ Writing

\* Mutant: only replies that were never enqueued are picked up.
RevivePausedOnce(r) ==
    /\ reply[r].status \in {"queued", "scheduled"} /\ reply[r].paused
    /\ carrier[r] = "none"
    /\ carrier' = [carrier EXCEPT ![r] = "pending"]
    /\ UNCHANGED <<optedOut, reply, writer, troubles, answered, mailed>> /\ Writing

RevivePaused(r) ==
    /\ reply[r].status \in {"queued", "scheduled"} /\ reply[r].paused
    /\ ~Open(r)
    /\ carrier' = [carrier EXCEPT ![r] = "pending"]
    /\ UNCHANGED <<optedOut, reply, writer, troubles, answered, mailed>> /\ Writing

-----------------------------------------------------------------------------
Takes(t) ==
    \/ Store(t) \/ CancelFollowups(t) \/ Look(t) \/ CountSent(t) \/ Count(t)
    \/ InsertReply(t) \/ EnqueueReply(t) \/ Mark(t)

Writes(w) ==
    \/ ClaimReply(w) \/ ClaimsNothing(w) \/ Check(w) \/ Draft(w) \/ OptOut(w)
    \/ Send(w) \/ GiveBack(w) \/ Record(w) \/ InsertFollowup(w) \/ EnqueueFollowup(w)

ReplyNext ==
    \/ \E m \in Inbounds : Arrives(m)
    \/ \E t \in Takers, m \in Inbounds : Deliver(t, m) \/ Poll(t, m)
    \/ \E t \in Takers : Takes(t) \/ TakerDies(t)
    \/ \E w \in Writers, r \in Replies : TakeRow(w, r)
    \/ \E w \in Writers : Writes(w) \/ DraftFails(w) \/ SendFails(w) \/ Park(w)
                          \/ AfterSendFails(w) \/ WriterDies(w) \/ CarrierLapses(w)
    \/ \E r \in Replies : ReplyDue(r) \/ RevivePaused(r)

ReplySpec == ReplyInit /\ [][ReplyNext]_replyVars

\* The webhook is repeated until it is acknowledged and the poll comes round;
\* what runs goes on; due rows are claimed; time passes.
ReplyFairness ==
    /\ WF_replyVars(\E t \in Takers, m \in Inbounds : Deliver(t, m) \/ Poll(t, m))
    /\ WF_replyVars(\E t \in Takers : Takes(t))
    /\ WF_replyVars(\E w \in Writers : Writes(w))
    /\ WF_replyVars(\E w \in Writers, r \in Replies : TakeRow(w, r))
    /\ WF_replyVars(\E r \in Replies : ReplyDue(r) \/ RevivePaused(r))

-----------------------------------------------------------------------------
\* However often a message is delivered, polled for and retried, and whatever
\* dies on the way, the lead gets at most one immediate reply to it and at most
\* one follow-up: a reply is claimed once, and never goes back to be claimed
\* after the provider may have taken it.
OneAnswerPerInbound == \A r \in Replies : mailed[r] <= 1

\* A follow-up is for a lead who fell silent.  One that is claimed when a newer
\* message of the lead is stored already is never sent, although the message is
\* stored first and the scheduled follow-ups are cancelled later.
NoFollowupToAnsweredLead == \A f \in answered : mailed[f] = 0

\* What the code leaves for ever: a reply whose writer died in mid-draft, one
\* that was inserted by an execution that died before it enqueued the job, and a
\* message the webhook missed whose poll died after storing it.
Abandoned(r) == reply[r].status = "drafting" /\ \A w \in Writers : writer[w].reply # r
Orphaned(r)  == Waits(r) /\ ~reply[r].paused /\ ~Open(r)
HalfTaken(m) == m \in stored /\ event[m] = "missed" /\ reply[<<m, "immediate">>].status = "none"

\* But for those three, every message is decided upon and every reply it leads
\* to comes to an end: also one that was parked by a pause of the provider and
\* whose job has ended meanwhile, which only reconcilePausedReplySends revives.
EveryInboundIsSettled ==
    LET settled(m)  == \/ m \in declined \/ HalfTaken(m)
                       \/ LET r == <<m, "immediate">> IN Ended(r) \/ Abandoned(r) \/ Orphaned(r)
        awaited     == \/ \E m \in Inbounds : event[m] # "none" /\ ~settled(m)
                       \/ \E f \in Followups : /\ reply[f].status # "none"
                                               /\ ~(Ended(f) \/ Abandoned(f) \/ Orphaned(f))
    IN ReplyFairness => (awaited ~> ~awaited)
=============================================================================
