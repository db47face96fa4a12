----------------------------- MODULE ReplyProofs -----------------------------
(***************************************************************************)
(* That a message is answered once, and that a follow-up overtaken by a    *)
(* newer message is not sent, proved for any number of messages, takers,   *)
(* writers and troubles.                                                   *)
(***************************************************************************)
EXTENDS ReplyThread, FiniteSetTheorems, TLAPS

\* The reply it claimed has not been accepted by the provider.
Unsent(w)  == writer[w].at \in {"check", "draft", "optout", "send"}
\* The reply is still drafting, and nobody else's.
Holds(w)   == Unsent(w) \/ writer[w].at = "record"
\* It may still insert the follow-up.
Carries(w) == Holds(w) \/ writer[w].at = "insert"

Unclaimed == {"none", "queued", "scheduled"}
Through   == {"sent", "failed"}

OneCarries ==
    \A v, w \in Writers :
        Carries(v) /\ Carries(w) /\ writer[v].reply = writer[w].reply => v = w

WriterKnows(w) ==
    LET r == writer[w].reply IN
    /\ writer[w].at = "claim" => writer[w].says = "reply_now"
    /\ Holds(w)  => reply[r].status = "drafting"
    /\ Unsent(w) => mailed[r] = 0
    /\ Carries(w) /\ writer[w].says = "defer" => r \in Immediate
    /\ writer[w].at \in {"insert", "enqueue"} => r \in Immediate /\ reply[r].status \in Through

MailedOnce(r) ==
    /\ mailed[r] <= 1
    /\ reply[r].status \in Unclaimed => mailed[r] = 0

Overtaken(f) ==
    /\ f \in Followups /\ Newer(f[1]) /\ mailed[f] = 0
    /\ \A w \in Writers : writer[w].at \in {"draft", "optout", "send"} => writer[w].reply # f

\* The follow-up of a reply is inserted after it, and by nobody else later.
FollowupIsLast(m) ==
    reply[<<m, "followup">>].status # "none" =>
        /\ reply[<<m, "immediate">>].status \in Through
        /\ \A w \in Writers : Carries(w) => writer[w].reply # <<m, "immediate">>

ReplyInvariant ==
    /\ ReplyTypeOK
    /\ OneCarries
    /\ \A w \in Writers  : WriterKnows(w)
    /\ \A r \in Replies  : MailedOnce(r)
    /\ \A f \in answered : Overtaken(f)
    /\ \A m \in Inbounds : FollowupIsLast(m)

-----------------------------------------------------------------------------
\* Names of replies.
LEMMA Kinds ==
    /\ \A m \in Inbounds : /\ <<m, "immediate">> \in Immediate /\ <<m, "immediate">> \in Replies
                           /\ <<m, "followup">> \in Followups /\ <<m, "followup">> \in Replies
                           /\ <<m, "immediate">> \notin Followups
    /\ \A r \in Immediate : /\ r[1] \in Inbounds /\ r = <<r[1], "immediate">>
                            /\ r \notin Followups /\ r \in Replies
                            /\ FollowupOf(r) = <<r[1], "followup">>
                            /\ FollowupOf(r) \in Followups
    /\ \A r \in Followups : r[1] \in Inbounds /\ r \in Replies /\ r \notin Immediate
    /\ \A r \in Replies : r \in Immediate \/ r \in Followups
    /\ \A m, n \in Inbounds : <<m, "followup">> = <<n, "followup">> => m = n
    /\ \A m, n \in Inbounds : <<m, "immediate">> # <<n, "followup">>
BY DEF Immediate, Followups, Replies, FollowupOf

LEMMA Numbers == \A statuses : Immediates(statuses) \in Nat
<1>1. IsFiniteSet(Immediate)
  BY ReplyAssumption, FS_Singleton, FS_Product DEF Immediate
<1> QED
  BY <1>1, FS_Subset, FS_CardinalityType DEF Immediates

LEMMA Cancelled ==
    ASSUME ReplyTypeOK
    PROVE  /\ FollowupsCancelled \in [Replies -> Reply]
           /\ \A r \in Replies : \/ FollowupsCancelled[r] = reply[r]
                                 \/ /\ r \in Followups /\ reply[r].status = "scheduled"
                                    /\ FollowupsCancelled[r].status = "cancelled"
<1>1. \A r \in Replies : reply[r] \in Reply
  BY DEF ReplyTypeOK
<1>2. \A r \in Replies : [reply[r] EXCEPT !.status = "cancelled"] \in Reply
                         /\ [reply[r] EXCEPT !.status = "cancelled"].status = "cancelled"
  BY <1>1 DEF Reply, ReplyStatus
<1> QED BY <1>1, <1>2 DEF FollowupsCancelled

LEMMA Typed ==
    ASSUME ReplyTypeOK
    PROVE  /\ \A r \in Replies : reply[r] \in Reply /\ reply[r].status \in ReplyStatus
           /\ NoReply \in Reply /\ NoReply.status = "none"
           /\ \A w \in Writers : writer[w] \in Writer
           /\ \A t \in Takers : taker[t] \in Taker
           /\ Resting \in Writer /\ Resting.at = "idle" /\ Resting.says = "reply_now"
           /\ Waiting \in Taker /\ Waiting.at = "idle"
BY DEF ReplyTypeOK, Reply, ReplyStatus, NoReply, Writer, WriterAt, Resting, Taker, TakerAt, Waiting

-----------------------------------------------------------------------------
(***************************************************************************)
(* What a step may do to the replies for the invariant to go on holding.   *)
(***************************************************************************)

\* No writer moves: a reply is inserted, or a follow-up that waits cancelled.
LEMMA NoWriterMoves ==
    ASSUME ReplyInvariant, ReplyTypeOK', UNCHANGED <<writer, mailed, answered>>,
           stored \subseteq stored',
           \A r \in Replies :
             \/ reply'[r].status = reply[r].status
             \/ r \in Immediate /\ reply[r].status = "none" /\ reply'[r].status = "queued"
             \/ r \in Followups /\ reply[r].status = "scheduled" /\ reply'[r].status = "cancelled"
    PROVE  ReplyInvariant'
<1>1. \A w \in Writers : /\ Unsent(w)' <=> Unsent(w)
                         /\ Holds(w)' <=> Holds(w)
                         /\ Carries(w)' <=> Carries(w)
  BY DEF Unsent, Holds, Carries
<1>2. \A w \in Writers : writer[w].at # "idle" => writer[w].reply \in Replies
  BY DEF ReplyInvariant, ReplyTypeOK
<1>3. ASSUME NEW w \in Writers PROVE WriterKnows(w)'
  BY <1>1, <1>2 DEF ReplyInvariant, WriterKnows, Holds, Carries, Unsent, Through
<1>4. ASSUME NEW r \in Replies PROVE MailedOnce(r)'
  BY DEF ReplyInvariant, MailedOnce, Unclaimed
<1>5. ASSUME NEW f \in answered PROVE Overtaken(f)'
  BY DEF ReplyInvariant, Overtaken, Newer
<1>6. ASSUME NEW m \in Inbounds PROVE FollowupIsLast(m)'
  BY <1>1, Kinds DEF ReplyInvariant, FollowupIsLast, Through
<1>7. OneCarries'
  BY <1>1 DEF ReplyInvariant, OneCarries
<1> QED BY <1>3, <1>4, <1>5, <1>6, <1>7 DEF ReplyInvariant

\* A writer goes on with its reply, which is its own or through.
LEMMA WriterMoves ==
    ASSUME ReplyInvariant, ReplyTypeOK', UNCHANGED <<stored, answered>>,
           NEW w \in Writers, NEW r0 \in Replies, writer[w].reply = r0,
           \A v \in Writers \ {w} : writer'[v] = writer[v],
           Carries(w) \/ reply[r0].status \in Through,
           Carries(w)' => Carries(w) /\ writer'[w].reply = r0,
           \A r \in Replies \ {r0} :
             /\ mailed'[r] = mailed[r]
             /\ \/ reply'[r].status = reply[r].status
                \/ /\ r \in Followups /\ reply[r].status = "scheduled"
                   /\ reply'[r].status = "cancelled",
           WriterKnows(w)', MailedOnce(r0)',
           r0 \in answered => mailed'[r0] = 0,
           writer'[w].at \in {"draft", "optout", "send"} => writer'[w].reply \notin answered,
           reply'[r0].status # "none",
           reply[r0].status \in {"none", "queued", "scheduled"} => FALSE,
           reply[r0].status \in Through => reply'[r0].status \in Through
    PROVE  ReplyInvariant'
<1>0. \A v \in Writers : writer[v].at # "idle" => writer[v].reply \in Replies
  BY DEF ReplyInvariant, ReplyTypeOK
<1>1. \A v \in Writers \ {w} : /\ Unsent(v)' <=> Unsent(v)
                               /\ Holds(v)' <=> Holds(v)
                               /\ Carries(v)' <=> Carries(v)
  BY DEF Unsent, Holds, Carries
<1>2. \A v \in Writers \ {w} : Holds(v) => writer[v].reply # r0
  BY DEF ReplyInvariant, OneCarries, WriterKnows, Carries, Through
<1>3. ASSUME NEW v \in Writers \ {w} PROVE WriterKnows(v)'
  <2>1. WriterKnows(v)
    BY DEF ReplyInvariant
  <2>2. CASE writer[v].reply = r0
    BY <1>1, <1>2, <2>1, <2>2 DEF WriterKnows, Carries, Unsent, Holds
  <2>3. CASE writer[v].reply # r0
    BY <1>0, <1>1, <2>1, <2>3 DEF WriterKnows, Carries, Unsent, Holds, Through
  <2> QED BY <2>2, <2>3
<1>4. ASSUME NEW r \in Replies PROVE MailedOnce(r)'
  BY DEF ReplyInvariant, MailedOnce, Unclaimed
<1>5. ASSUME NEW f \in answered PROVE Overtaken(f)'
  <2>1. Overtaken(f) /\ f \in Replies
    BY Kinds DEF ReplyInvariant, Overtaken
  <2> QED BY <2>1 DEF Overtaken, Newer
<1>6. ASSUME NEW m \in Inbounds PROVE FollowupIsLast(m)'
  <2>1. FollowupIsLast(m)
    BY DEF ReplyInvariant
  <2>2. reply[<<m, "followup">>].status # "none" =>
          \A v \in Writers : Carries(v)' => writer'[v].reply # <<m, "immediate">>
    BY <1>1, <2>1 DEF FollowupIsLast
  <2>3. reply'[<<m, "followup">>].status # "none" => reply[<<m, "followup">>].status # "none"
    BY Kinds
  <2>4. reply[<<m, "immediate">>].status \in Through =>
          reply'[<<m, "immediate">>].status \in Through
    BY Kinds
  <2> QED BY <2>1, <2>2, <2>3, <2>4 DEF FollowupIsLast
<1>7. OneCarries'
  BY <1>1 DEF ReplyInvariant, OneCarries
<1> QED BY <1>3, <1>4, <1>5, <1>6, <1>7 DEF ReplyInvariant

\* A writer that leaves the replies alone has none of its own, or is done with it.
LEMMA WriterLeaves ==
    ASSUME ReplyInvariant, ReplyTypeOK', UNCHANGED <<stored, reply, mailed, answered>>,
           NEW w \in Writers, \A v \in Writers \ {w} : writer'[v] = writer[v],
           \/ writer'[w].at = "idle"
           \/ writer'[w].at = "claim" /\ writer'[w].says = "reply_now"
    PROVE  ReplyInvariant'
<1>1. \A v \in Writers \ {w} : /\ Unsent(v)' <=> Unsent(v)
                               /\ Holds(v)' <=> Holds(v)
                               /\ Carries(v)' <=> Carries(v)
  BY DEF Unsent, Holds, Carries
<1>2. ~Carries(w)' /\ ~Holds(w)' /\ ~Unsent(w)'
  BY DEF Unsent, Holds, Carries
<1>3. ASSUME NEW v \in Writers PROVE WriterKnows(v)'
  BY <1>1, <1>2 DEF ReplyInvariant, WriterKnows
<1>4. ASSUME NEW f \in answered PROVE Overtaken(f)'
  BY DEF ReplyInvariant, Overtaken, Newer
<1>5. ASSUME NEW m \in Inbounds PROVE FollowupIsLast(m)'
  BY <1>1, <1>2 DEF ReplyInvariant, FollowupIsLast
<1>6. OneCarries'
  BY <1>1, <1>2 DEF ReplyInvariant, OneCarries
<1> QED BY <1>3, <1>4, <1>5, <1>6 DEF ReplyInvariant, MailedOnce

-----------------------------------------------------------------------------
(***************************************************************************)
(* Types, part by part.                                                    *)
(***************************************************************************)
TakersTyped == /\ taker \in [Takers -> Taker]
               /\ \A t \in Takers : taker[t].at # "idle" => taker[t].inbound \in Inbounds
WritersTyped == /\ writer \in [Writers -> Writer]
                /\ \A w \in Writers : writer[w].at # "idle" => writer[w].reply \in Replies
RepliesTyped == reply \in [Replies -> Reply]
CarriersTyped == carrier \in [Replies -> Carrier]
MailTyped == mailed \in [Replies -> Nat]
RestTyped == /\ event \in [Inbounds -> EventState]
             /\ stored \subseteq Inbounds /\ processed \subseteq Inbounds
             /\ optedOut \in BOOLEAN
             /\ declined \subseteq Inbounds /\ answered \subseteq Followups
TroublesTyped == troubles \in 0..MaxTroubles

LEMMA TypesInParts ==
    /\ ReplyTypeOK <=> /\ TakersTyped /\ WritersTyped /\ RepliesTyped /\ CarriersTyped
                       /\ MailTyped /\ RestTyped /\ TroublesTyped
    /\ ReplyTypeOK' <=> /\ TakersTyped' /\ WritersTyped' /\ RepliesTyped' /\ CarriersTyped'
                        /\ MailTyped' /\ RestTyped' /\ TroublesTyped'
BY DEF ReplyTypeOK, TakersTyped, WritersTyped, RepliesTyped, CarriersTyped, MailTyped,
       RestTyped, TroublesTyped

LEMMA TroubleTyped ==
    ASSUME ReplyTypeOK, Trouble \/ UNCHANGED troubles
    PROVE  TroublesTyped'
BY ReplyAssumption DEF Trouble, TroublesTyped, ReplyTypeOK

LEMMA TakerTyped ==
    ASSUME ReplyTypeOK, NEW t \in Takers, NEW h \in Taker, h.at # "idle" => h.inbound \in Inbounds,
           taker' = [taker EXCEPT ![t] = h]
    PROVE  TakersTyped'
BY DEF ReplyTypeOK, TakersTyped

LEMMA WriterTyped ==
    ASSUME ReplyTypeOK, NEW w \in Writers, NEW h \in Writer, h.at # "idle" => h.reply \in Replies,
           writer' = [writer EXCEPT ![w] = h]
    PROVE  /\ WritersTyped' /\ writer'[w] = h
           /\ \A v \in Writers \ {w} : writer'[v] = writer[v]
BY DEF ReplyTypeOK, WritersTyped

LEMMA CarrierTyped ==
    ASSUME ReplyTypeOK, NEW r \in Replies, NEW c \in Carrier, carrier' = [carrier EXCEPT ![r] = c]
    PROVE  CarriersTyped'
BY DEF ReplyTypeOK, CarriersTyped

LEMMA ReplyTyped ==
    ASSUME ReplyTypeOK, NEW r \in Replies, NEW s \in Reply, reply' = [reply EXCEPT ![r] = s]
    PROVE  /\ RepliesTyped' /\ reply'[r] = s
           /\ \A q \in Replies \ {r} : reply'[q] = reply[q]
BY DEF ReplyTypeOK, RepliesTyped

\* What the steps make of a taker, a writer, a reply or a carrier.
LEMMA TakerGoesOn ==
    ASSUME NEW h \in Taker, NEW to \in TakerAt, NEW n \in Nat
    PROVE  /\ [h EXCEPT !.at = to] \in Taker /\ [h EXCEPT !.at = to].inbound = h.inbound
           /\ [h EXCEPT !.at = to, !.turns = n] \in Taker
           /\ [h EXCEPT !.at = to, !.turns = n].inbound = h.inbound
BY DEF Taker

LEMMA WriterGoesOn ==
    ASSUME NEW h \in Writer, NEW to \in WriterAt
    PROVE  /\ [h EXCEPT !.at = to] \in Writer /\ [h EXCEPT !.at = to].at = to
           /\ [h EXCEPT !.at = to].reply = h.reply /\ [h EXCEPT !.at = to].says = h.says
BY DEF Writer

LEMMA ReplyGoesOn ==
    ASSUME NEW h \in Reply, NEW s \in ReplyStatus
    PROVE  /\ [h EXCEPT !.status = s] \in Reply /\ [h EXCEPT !.status = s].status = s
           /\ [h EXCEPT !.status = s, !.paused = FALSE] \in Reply
           /\ [h EXCEPT !.status = s, !.paused = FALSE].status = s
           /\ [h EXCEPT !.due = TRUE] \in Reply /\ [h EXCEPT !.due = TRUE].status = h.status
           /\ [status |-> s, due |-> FALSE, paused |-> TRUE] \in Reply
BY DEF Reply

-----------------------------------------------------------------------------
(***************************************************************************)
(* The steps of the lead, the takers, and time.                            *)
(***************************************************************************)
LEMMA ByLead ==
    ASSUME ReplyInvariant, NEW m \in Inbounds, Arrives(m)
    PROVE  ReplyInvariant'
<1>1. event' \in [Inbounds -> EventState] /\ TroublesTyped'
  BY TroubleTyped DEF Arrives, ReplyInvariant, ReplyTypeOK, EventState
<1>2. ReplyTypeOK'
  BY <1>1 DEF Arrives, ReplyInvariant, ReplyTypeOK, TroublesTyped
<1> QED BY <1>2, NoWriterMoves DEF Arrives

LEMMA ByDelivery ==
    ASSUME ReplyInvariant, NEW t \in Takers, NEW m \in Inbounds, Deliver(t, m) \/ Poll(t, m)
    PROVE  ReplyInvariant'
<1> DEFINE one == [Waiting EXCEPT !.at = "store", !.inbound = m, !.seen = processed]
           two == [Waiting EXCEPT !.at = "store", !.inbound = m, !.polled = TRUE,
                                  !.seen = processed]
<1>0. processed \subseteq Inbounds /\ event \in [Inbounds -> EventState]
  BY DEF ReplyInvariant, ReplyTypeOK
<1>1. one \in Taker /\ two \in Taker /\ one.inbound = m /\ two.inbound = m
  BY <1>0 DEF Waiting, Taker, TakerAt
<1>2. \/ UNCHANGED taker
      \/ taker' = [taker EXCEPT ![t] = one]
      \/ taker' = [taker EXCEPT ![t] = two]
  BY DEF Deliver, Poll
<1> HIDE DEF one, two
<1>3. TakersTyped'
  BY <1>1, <1>2, TakerTyped DEF ReplyInvariant, ReplyTypeOK, TakersTyped
<1>4. event' \in [Inbounds -> EventState]
  BY <1>0 DEF Deliver, Poll, EventState
<1>5. ReplyTypeOK'
  BY <1>3, <1>4 DEF ReplyInvariant, ReplyTypeOK, TakersTyped, Deliver, Poll, Taking
<1> QED BY <1>5, NoWriterMoves DEF Deliver, Poll, Taking

LEMMA ByTaker ==
    ASSUME ReplyInvariant, NEW t \in Takers, Takes(t) \/ TakerDies(t)
    PROVE  ReplyInvariant'
<1> DEFINE m == taker[t].inbound
           r == <<m, "immediate">>
<1>0. /\ taker[t] \in Taker /\ Waiting \in Taker /\ Waiting.at = "idle" /\ ReplyTypeOK
      /\ taker[t].at # "idle" => m \in Inbounds
  BY Typed DEF ReplyInvariant, ReplyTypeOK
<1>2. Marks(t) => m \in Inbounds /\ taker[t].at = "mark"
  BY <1>0 DEF Marks
<1>3. TakersTyped'
  <2>1. ASSUME NEW to \in TakerAt, m \in Inbounds,
               \/ taker' = [taker EXCEPT ![t] = [taker[t] EXCEPT !.at = to]]
               \/ \E n \in Nat : taker' = [taker EXCEPT ![t] = [taker[t] EXCEPT !.at = to, !.turns = n]]
               \/ taker' = [taker EXCEPT ![t] = Waiting]
        PROVE  TakersTyped'
    <3>1. CASE taker' = [taker EXCEPT ![t] = [taker[t] EXCEPT !.at = to]]
      <4>1. [taker[t] EXCEPT !.at = to] \in Taker /\ [taker[t] EXCEPT !.at = to].inbound = m
        BY <1>0, TakerGoesOn
      <4> QED BY <1>0, <2>1, <3>1, <4>1, TakerTyped
    <3>2. ASSUME NEW n \in Nat,
                 taker' = [taker EXCEPT ![t] = [taker[t] EXCEPT !.at = to, !.turns = n]]
          PROVE  TakersTyped'
      <4>1. /\ [taker[t] EXCEPT !.at = to, !.turns = n] \in Taker
            /\ [taker[t] EXCEPT !.at = to, !.turns = n].inbound = m
        BY <1>0, TakerGoesOn
      <4> QED BY <1>0, <2>1, <3>2, <4>1, TakerTyped
    <3> QED BY <1>0, <2>1, <3>1, <3>2, TakerTyped
  <2>2. CASE Takes(t)
    <3>1. m \in Inbounds
      BY <1>0, <2>2 DEF Takes, Store, CancelFollowups, Look, CountSent, Count, Reads, InsertReply, EnqueueReply,
         Mark, Marks, TakerStep
    <3>2. {"mark", "cancel", "look", "turns", "count", "insert", "enqueue"} \subseteq TakerAt
      BY DEF TakerAt
    <3>3. CASE Store(t) \/ CancelFollowups(t) \/ InsertReply(t) \/ EnqueueReply(t)
      BY <2>1, <3>1, <3>2, <3>3 DEF Store, CancelFollowups, InsertReply, EnqueueReply, TakerStep
    <3>4. CASE CountSent(t)
      BY <2>1, <3>1, <3>2, <3>4, Numbers DEF CountSent, TakerStep
    <3>5. CASE Look(t) \/ Count(t)
      BY <2>1, <3>1, <3>2, <3>5 DEF Look, Count, Reads, TakerStep
    <3>6. CASE Mark(t)
      BY <2>1, <3>1, <3>2, <3>6 DEF Mark, Marks
    <3> QED BY <2>2, <3>3, <3>4, <3>5, <3>6 DEF Takes
  <2>3. CASE TakerDies(t)
    BY <1>0, <2>3, TakerTyped DEF TakerDies, Marks
  <2> QED BY <2>2, <2>3
<1>4. /\ RepliesTyped'
      /\ \A q \in Replies :
           \/ reply'[q].status = reply[q].status
           \/ q \in Immediate /\ reply[q].status = "none" /\ reply'[q].status = "queued"
           \/ q \in Followups /\ reply[q].status = "scheduled" /\ reply'[q].status = "cancelled"
  <2>1. CASE UNCHANGED reply
    BY <1>0, <2>1 DEF ReplyTypeOK, RepliesTyped
  <2>2. CASE CancelFollowups(t)
    BY <1>0, <2>2, Cancelled DEF CancelFollowups, RepliesTyped
  <2>3. CASE InsertReply(t) /\ reply[r].status = "none"
    <3>1. r \in Replies /\ r \in Immediate
      BY <1>0, <2>3, Kinds DEF InsertReply, TakerStep
    <3>2. [NoReply EXCEPT !.status = "queued"] \in Reply
          /\ [NoReply EXCEPT !.status = "queued"].status = "queued"
      BY DEF NoReply, Reply, ReplyStatus
    <3>3. reply' = [reply EXCEPT ![r] = [NoReply EXCEPT !.status = "queued"]]
      BY <2>3 DEF InsertReply
    <3> HIDE DEF r
    <3> QED BY <1>0, <2>3, <3>1, <3>2, <3>3, ReplyTyped
  <2> QED BY <2>1, <2>2, <2>3 DEF Takes, TakerDies, Store, Look, CountSent, Count, Reads, InsertReply,
         EnqueueReply, Mark, Marks
<1>5. CarriersTyped'
  <2>1. CASE UNCHANGED carrier
    BY <1>0, <2>1 DEF ReplyTypeOK, CarriersTyped
  <2>2. CASE EnqueueReply(t)
    <3>1. r \in Replies
      BY <1>0, <2>2, Kinds DEF EnqueueReply, TakerStep
    <3>2. carrier[r] \in Carrier /\ "pending" \in Carrier
      BY <1>0, <3>1 DEF ReplyTypeOK, Carrier
    <3> QED BY <1>0, <2>2, <3>1, <3>2, CarrierTyped DEF EnqueueReply
  <2> QED BY <2>1, <2>2 DEF Takes, TakerDies, Store, CancelFollowups, Look, CountSent, Count, Reads, InsertReply,
         Mark, Marks
<1>6. RestTyped'
  <2>1. taker[t].seen \subseteq Inbounds
    BY <1>0 DEF Taker
  <2>2. processed' \subseteq Inbounds
    BY <1>0, <1>2, <2>1 DEF ReplyTypeOK, Takes, TakerDies, Store, CancelFollowups, Look, CountSent, Count, Reads,
       InsertReply, EnqueueReply, Mark, Marks, Taking
  <2>3. stored' \subseteq Inbounds /\ declined' \subseteq Inbounds
    BY <1>0 DEF ReplyTypeOK, Takes, TakerDies, Store, CancelFollowups, Look, CountSent, Count, Reads,
       InsertReply, EnqueueReply, Mark, Marks, Taking, TakerStep
  <2>4. event' \in [Inbounds -> EventState]
    BY <1>0 DEF ReplyTypeOK, Takes, TakerDies, Store, CancelFollowups, Look, CountSent, Count, Reads,
       InsertReply, EnqueueReply, Mark, Marks, Taking, EventState
  <2>5. UNCHANGED <<optedOut, answered>>
    BY DEF Takes, TakerDies, Store, CancelFollowups, Look, CountSent, Count, Reads, InsertReply, EnqueueReply,
       Mark, Marks, Taking
  <2> QED BY <1>0, <2>2, <2>3, <2>4, <2>5 DEF RestTyped, ReplyTypeOK
<1>7. UNCHANGED <<writer, mailed, answered>> /\ stored \subseteq stored'
  BY DEF Takes, TakerDies, Store, CancelFollowups, Look, CountSent, Count, Reads, InsertReply, EnqueueReply,
     Mark, Marks, Taking
<1>8. TroublesTyped'
  BY <1>0, TroubleTyped DEF Takes, TakerDies, Store, CancelFollowups, Look, CountSent, Count, Reads,
     InsertReply, EnqueueReply, Mark, Marks, Taking
<1>9. ReplyTypeOK'
  BY <1>0, <1>3, <1>4, <1>5, <1>6, <1>7, <1>8, TypesInParts DEF WritersTyped, MailTyped
<1> QED BY <1>4, <1>7, <1>9, NoWriterMoves

LEMMA ByTime ==
    ASSUME ReplyInvariant, NEW r \in Replies, ReplyDue(r) \/ RevivePaused(r)
    PROVE  ReplyInvariant'
<1>0. ReplyTypeOK /\ reply[r] \in Reply
  BY Typed DEF ReplyInvariant
<1>1. RepliesTyped' /\ \A q \in Replies : reply'[q].status = reply[q].status
  <2>1. CASE ReplyDue(r)
    <3>1. [reply[r] EXCEPT !.due = TRUE] \in Reply
          /\ [reply[r] EXCEPT !.due = TRUE].status = reply[r].status
      BY <1>0 DEF Reply
    <3>2. reply' = [reply EXCEPT ![r] = [reply[r] EXCEPT !.due = TRUE]]
      BY <2>1 DEF ReplyDue
    <3> QED BY <1>0, <3>1, <3>2, ReplyTyped
  <2>2. CASE RevivePaused(r)
    BY <1>0, <2>2 DEF RevivePaused, RepliesTyped, ReplyTypeOK
  <2> QED BY <2>1, <2>2
<1>2. CarriersTyped'
  BY <1>0, CarrierTyped DEF ReplyDue, RevivePaused, CarriersTyped, ReplyTypeOK, Carrier
<1>3. ReplyTypeOK'
  BY <1>0, <1>1, <1>2, TypesInParts DEF ReplyDue, RevivePaused, Writing, TakersTyped,
     WritersTyped, MailTyped, RestTyped, TroublesTyped
<1> QED BY <1>1, <1>3, NoWriterMoves DEF ReplyDue, RevivePaused, Writing

-----------------------------------------------------------------------------
(***************************************************************************)
(* The steps of a writer.                                                  *)
(***************************************************************************)

\* What is known of a writer that is at something.
LEMMA AtWork ==
    ASSUME ReplyInvariant, NEW w \in Writers, writer[w].at # "idle"
    PROVE  /\ ReplyTypeOK /\ writer[w] \in Writer /\ writer[w].reply \in Replies
           /\ reply[writer[w].reply] \in Reply /\ mailed[writer[w].reply] \in Nat
           /\ WriterKnows(w) /\ MailedOnce(writer[w].reply)
BY DEF ReplyInvariant, ReplyTypeOK, Writer

LEMMA CarrierSettled ==
    ASSUME ReplyTypeOK, NEW w \in Writers, NEW r \in Replies,
           Settled(w, r) \/ GivenBack(w, r, "pending") \/ GivenBack(w, r, "early")
             \/ UNCHANGED carrier
    PROVE  CarriersTyped'
BY DEF ReplyTypeOK, CarriersTyped, Settled, GivenBack, Carrier

\* The parts of the state a writer never writes.
LEMMA WrittenTypes ==
    ASSUME ReplyTypeOK, Writing, optedOut' \in BOOLEAN, answered' \subseteq Followups
    PROVE  TakersTyped' /\ RestTyped'
BY DEF ReplyTypeOK, Writing, TakersTyped, RestTyped

\* The execution has its row taken away.
LEMMA ByRow ==
    ASSUME ReplyInvariant, NEW w \in Writers, CarrierLapses(w)
    PROVE  ReplyInvariant'
<1>0. ReplyTypeOK
  BY DEF ReplyInvariant
<1>1. CarriersTyped'
  BY <1>0 DEF CarrierLapses, ReplyTypeOK, CarriersTyped, Carrier
<1>2. UNCHANGED <<writer, reply, mailed, optedOut, answered>> /\ Writing
  BY DEF CarrierLapses
<1>3. TroublesTyped'
  BY <1>0, TroubleTyped DEF CarrierLapses
<1>4. ReplyTypeOK'
  BY <1>0, <1>1, <1>2, <1>3, TypesInParts DEF Writing, TakersTyped, WritersTyped, RepliesTyped,
     MailTyped, RestTyped
<1> QED BY <1>2, <1>4, NoWriterMoves DEF Writing

\* One that takes a row has claimed no reply yet.
LEMMA ByTaking ==
    ASSUME ReplyInvariant, NEW w \in Writers, NEW r \in Replies, TakeRow(w, r)
    PROVE  ReplyInvariant'
<1> DEFINE h == [Resting EXCEPT !.at = "claim", !.reply = r]
<1>0. ReplyTypeOK
  BY DEF ReplyInvariant
<1>1. h \in Writer /\ h.reply = r /\ h.says = "reply_now" /\ h.at = "claim"
  BY DEF Resting, Writer, WriterAt
<1>2. writer' = [writer EXCEPT ![w] = h]
  BY DEF TakeRow
<1> HIDE DEF h
<1>3. /\ WritersTyped' /\ writer'[w] = h
      /\ \A v \in Writers \ {w} : writer'[v] = writer[v]
  BY <1>0, <1>1, <1>2, WriterTyped
<1>4. CarriersTyped'
  BY <1>0, CarrierTyped DEF TakeRow, Carrier
<1>5. UNCHANGED <<optedOut, reply, troubles, answered, mailed>> /\ Writing
  BY DEF TakeRow
<1>6. ReplyTypeOK'
  <2>1. optedOut' \in BOOLEAN /\ answered' \subseteq Followups
    BY <1>0, <1>5 DEF ReplyTypeOK
  <2> QED BY <1>0, <1>3, <1>4, <1>5, <2>1, WrittenTypes, TypesInParts
          DEF RepliesTyped, MailTyped, TroublesTyped, ReplyTypeOK
<1> QED BY <1>1, <1>3, <1>5, <1>6, WriterLeaves DEF Writing

\* A reply that waits is nobody's, was not sent, and left no follow-up.
LEMMA ByClaim ==
    ASSUME ReplyInvariant, NEW w \in Writers, ClaimReply(w)
    PROVE  ReplyInvariant'
<1>a. PICK r \in Replies : r = writer[w].reply
  BY AtWork DEF ClaimReply, WriterStep
<1> DEFINE at == IF r \in Followups THEN "check" ELSE "draft"
           h == [writer[w] EXCEPT !.at = at]
           s == [reply[r] EXCEPT !.status = "drafting"]
<1>0. /\ ReplyTypeOK /\ reply[r] \in Reply /\ reply[r].status \in Unclaimed \ {"none"}
      /\ writer[w] \in Writer /\ writer[w].says = "reply_now"
  BY <1>a, AtWork, Typed DEF ClaimReply, WriterStep, Waits, Unclaimed, WriterKnows
<1>1. /\ h \in Writer /\ h.reply = r /\ h.says = "reply_now"
      /\ h.at = IF r \in Followups THEN "check" ELSE "draft"
  <2>1. at \in WriterAt
    BY DEF WriterAt
  <2> QED BY <1>a, <1>0, <2>1, WriterGoesOn
<1>2. s \in Reply /\ s.status = "drafting"
  BY <1>0 DEF Reply, ReplyStatus
<1>3. writer' = [writer EXCEPT ![w] = h] /\ reply' = [reply EXCEPT ![r] = s]
  BY <1>a DEF ClaimReply, WriterStep
<1> HIDE DEF h, s
<1>4. /\ WritersTyped' /\ writer'[w] = h
      /\ \A v \in Writers \ {w} : writer'[v] = writer[v]
  BY <1>0, <1>1, <1>3, WriterTyped
<1>5. RepliesTyped' /\ reply'[r] = s /\ \A q \in Replies \ {r} : reply'[q] = reply[q]
  BY <1>0, <1>2, <1>3, ReplyTyped
<1>6. CarriersTyped'
  BY <1>0 DEF ClaimReply, CarriersTyped, ReplyTypeOK, Carrier
<1>7. UNCHANGED <<optedOut, carrier, troubles, mailed>> /\ Writing /\ answered' \subseteq Followups
  BY <1>0, <1>a DEF ClaimReply, ReplyTypeOK
<1>8. ReplyTypeOK'
  <2>1. optedOut' \in BOOLEAN
    BY <1>0, <1>7 DEF ReplyTypeOK
  <2> QED BY <1>0, <1>4, <1>5, <1>6, <1>7, <2>1, WrittenTypes, TroubleTyped, TypesInParts
          DEF MailTyped
<1>9. mailed[r] = 0
  BY <1>0 DEF ReplyInvariant, MailedOnce
<1>10. \A v \in Writers : Carries(v) => writer[v].reply # r
  BY <1>0 DEF ReplyInvariant, WriterKnows, Carries, Unclaimed, Through
<1>11. \A v \in Writers \ {w} : /\ Unsent(v)' <=> Unsent(v)
                                /\ Holds(v)' <=> Holds(v)
                                /\ Carries(v)' <=> Carries(v)
  BY <1>4 DEF Unsent, Holds, Carries
<1>12. Unsent(w)' /\ writer'[w].at # "send" /\ writer'[w].reply = r
  BY <1>1, <1>4 DEF Unsent
<1>13. OneCarries'
  BY <1>4, <1>10, <1>11, <1>12 DEF ReplyInvariant, OneCarries
<1>14. ASSUME NEW v \in Writers PROVE WriterKnows(v)'
  <2>1. CASE v = w
    BY <1>1, <1>2, <1>4, <1>5, <1>7, <1>9, <2>1 DEF WriterKnows
  <2>2. CASE v # w /\ writer[v].reply = r
    <3>1. ~Carries(v) /\ WriterKnows(v)
      BY <1>10, <2>2 DEF ReplyInvariant
    <3>2. writer[v].at \notin {"insert", "enqueue"}
      BY <1>0, <2>2, <3>1 DEF WriterKnows, Unclaimed, Through
    <3> QED BY <1>4, <1>11, <2>2, <3>1, <3>2 DEF WriterKnows, Carries, Holds
  <2>3. CASE v # w /\ writer[v].reply # r
    <3>1. writer[v].at # "idle" => writer[v].reply \in Replies
      BY <1>0 DEF ReplyTypeOK
    <3>2. WriterKnows(v)
      BY DEF ReplyInvariant
    <3> QED BY <1>4, <1>5, <1>7, <1>11, <2>3, <3>1, <3>2
            DEF WriterKnows, Carries, Holds, Unsent, Through
  <2> QED BY <2>1, <2>2, <2>3
<1>15. ASSUME NEW q \in Replies PROVE MailedOnce(q)'
  BY <1>2, <1>5, <1>7, <1>9 DEF ReplyInvariant, MailedOnce, Unclaimed
<1>16. ASSUME NEW f \in answered' PROVE Overtaken(f)'
  <2>1. stored' = stored
    BY <1>7 DEF Writing
  <2>2. CASE f = r /\ f \notin answered
    <3>1. r \in Followups /\ Newer(r[1])
      BY <1>a, <2>2 DEF ClaimReply
    <3>2. writer'[w].at = "check"
      BY <1>1, <1>4, <3>1
    <3>3. \A v \in Writers \ {w} : writer[v].at \in {"draft", "optout", "send"} => writer[v].reply # r
      BY <1>10 DEF Carries, Holds, Unsent
    <3> QED BY <1>4, <1>7, <1>9, <2>1, <2>2, <3>1, <3>2, <3>3 DEF Overtaken, Newer
  <2>3. CASE f \in answered
    <3>1. Overtaken(f)
      BY <2>3 DEF ReplyInvariant
    <3>2. writer'[w].at \in {"draft", "optout", "send"} => writer'[w].reply # f
      BY <1>1, <1>4, <3>1, Kinds DEF Overtaken
    <3> QED BY <1>4, <1>7, <2>1, <3>1, <3>2 DEF Overtaken, Newer
  <2> QED BY <1>a, <2>2, <2>3 DEF ClaimReply
<1>17. ASSUME NEW m \in Inbounds PROVE FollowupIsLast(m)'
  <2>1. FollowupIsLast(m) /\ <<m, "followup">> \in Replies /\ <<m, "immediate">> \in Replies
    BY Kinds DEF ReplyInvariant
  <2>2. reply'[<<m, "followup">>].status # "none" => reply[<<m, "followup">>].status # "none"
    BY <1>0, <1>5, <2>1
  <2>3. reply[<<m, "immediate">>].status \in Through => <<m, "immediate">> # r
    BY <1>0 DEF Through, Unclaimed
  <2> QED BY <1>4, <1>5, <1>11, <1>12, <2>1, <2>2, <2>3 DEF FollowupIsLast
<1> QED BY <1>8, <1>13, <1>14, <1>15, <1>16, <1>17 DEF ReplyInvariant

\* A writer goes on to h, and its reply to s.
LEMMA ReplyMoves ==
    ASSUME ReplyInvariant, NEW w \in Writers, writer[w].at # "idle",
           NEW r0 \in Replies, writer[w].reply = r0,
           NEW h \in Writer, NEW s \in Reply,
           writer' = [writer EXCEPT ![w] = h],
           reply' = [reply EXCEPT ![r0] = s],
           mailed' \in {mailed, [mailed EXCEPT ![r0] = @ + 1]},
           CarriersTyped', TroublesTyped', optedOut' \in {optedOut, TRUE}, answered' = answered,
           Writing,
           Carries(w) \/ reply[r0].status \in Through,
           h.at # "idle" => h.reply = r0,
           h.at # "idle" => Carries(w),
           h.at \in {"check", "draft", "optout", "send", "record"} => s.status = "drafting",
           h.at \in {"check", "draft", "optout", "send"} \/ s.status \in Unclaimed => mailed'[r0] = 0,
           h.at # "claim",
           h.at \notin {"idle", "giveback"} /\ h.says = "defer" => r0 \in Immediate,
           h.at \in {"insert", "enqueue"} => r0 \in Immediate /\ s.status \in Through,
           mailed' # mailed => writer[w].at = "send",
           h.at \in {"draft", "optout", "send"} => r0 \notin answered,
           s.status # "none",
           reply[r0].status \in Through => s.status \in Through
    PROVE  ReplyInvariant'
<1>0. ReplyTypeOK /\ r0 \in Replies /\ WriterKnows(w) /\ mailed[r0] \in Nat
  BY AtWork
<1>1. /\ WritersTyped' /\ writer'[w] = h
      /\ \A v \in Writers \ {w} : writer'[v] = writer[v]
  BY <1>0, WriterTyped
<1>2. RepliesTyped' /\ reply'[r0] = s /\ \A q \in Replies \ {r0} : reply'[q] = reply[q]
  BY <1>0, ReplyTyped
<1>3. mailed' \in [Replies -> Nat] /\ \A q \in Replies \ {r0} : mailed'[q] = mailed[q]
  BY <1>0 DEF ReplyTypeOK
<1>4. optedOut' \in BOOLEAN /\ answered' \subseteq Followups
  BY <1>0 DEF ReplyTypeOK
<1>5. ReplyTypeOK'
  BY <1>0, <1>1, <1>2, <1>3, <1>4, WrittenTypes, TypesInParts DEF MailTyped
<1>6. Carries(w)' => Carries(w) /\ writer'[w].reply = r0
  BY <1>1 DEF Carries, Holds, Unsent
<1>7. r0 \in answered => mailed'[r0] = 0
  BY DEF ReplyInvariant, Overtaken
<1>8. reply[r0].status \in {"none", "queued", "scheduled"} => FALSE
  BY <1>0 DEF WriterKnows, Carries, Through
<1>9. UNCHANGED <<stored, answered>>
  BY DEF Writing
<1>11. WriterKnows(w)'
  BY <1>1, <1>2 DEF WriterKnows, Carries, Holds, Unsent
<1>12. MailedOnce(r0)'
  <2>1. CASE mailed' = mailed
    BY <1>2, <2>1 DEF ReplyInvariant, MailedOnce
  <2>2. CASE mailed' # mailed
    <3>1. mailed[r0] = 0 /\ mailed' = [mailed EXCEPT ![r0] = @ + 1]
      BY <1>0, <2>2 DEF WriterKnows, Unsent
    <3>2. mailed'[r0] = 1
      BY <1>0, <3>1 DEF ReplyTypeOK
    <3> QED BY <1>2, <3>2 DEF MailedOnce
  <2> QED BY <2>1, <2>2
<1>10. writer'[w].at \in {"draft", "optout", "send"} => writer'[w].reply \notin answered
  BY <1>1
<1> QED BY <1>0, <1>1, <1>2, <1>3, <1>5, <1>6, <1>7, <1>8, <1>9, <1>10, <1>11, <1>12, WriterMoves

LEMMA ByCheck ==
    ASSUME ReplyInvariant, NEW w \in Writers, Check(w)
    PROVE  ReplyInvariant'
<1> DEFINE r0 == writer[w].reply
<1>0. /\ ReplyTypeOK /\ writer[w] \in Writer /\ r0 \in Replies /\ reply[r0] \in Reply
      /\ WriterKnows(w) /\ writer[w].at = "check" /\ Carries(w)
  BY AtWork DEF Check, Carries, Holds, Unsent
<1>1. TroublesTyped' /\ CarriersTyped'
  BY <1>0, TroubleTyped, CarrierSettled DEF Check
<1>2. UNCHANGED <<optedOut, answered, mailed>> /\ Writing
  BY DEF Check
<1>3. mailed[r0] = 0 /\ reply[r0].status = "drafting"
  BY <1>0 DEF WriterKnows, Holds, Unsent
<1>4. CASE optedOut \/ Newer(r0[1])
  <2> DEFINE s == [reply[r0] EXCEPT !.status = "cancelled"]
  <2>1. s \in Reply /\ s.status = "cancelled"
    BY <1>0, ReplyGoesOn DEF ReplyStatus
  <2>2. writer' = [writer EXCEPT ![w] = Resting] /\ reply' = [reply EXCEPT ![r0] = s]
    BY <1>4 DEF Check
  <2> HIDE DEF s
  <2> QED BY <1>0, <1>1, <1>2, <1>3, <2>1, <2>2, Typed, ReplyMoves DEF Through, Unclaimed
<1>5. CASE ~(optedOut \/ Newer(r0[1]))
  <2> DEFINE h == [writer[w] EXCEPT !.at = "draft"]
  <2>1. h \in Writer /\ h.at = "draft" /\ h.reply = r0 /\ h.says = writer[w].says
    <3>1. h.at \in WriterAt
      BY <1>0 DEF WriterAt, Writer
    <3> QED BY <1>0, <3>1, WriterGoesOn
  <2>2. writer' = [writer EXCEPT ![w] = h] /\ reply' = reply
    BY <1>5 DEF Check, WriterStep
  <2>3. reply' = [reply EXCEPT ![r0] = reply[r0]]
    BY <1>0, <2>2 DEF ReplyTypeOK
  <2>4. r0 \notin answered
    BY <1>5 DEF ReplyInvariant, Overtaken
  <2>5. h.says = "defer" => r0 \in Immediate
    BY <1>0, <2>1 DEF WriterKnows
  <2> HIDE DEF h
  <2> QED BY <1>0, <1>1, <1>2, <1>3, <2>1, <2>2, <2>3, <2>4, <2>5, ReplyMoves
          DEF Through, Unclaimed
<1> QED BY <1>4, <1>5

\* Only a reply to a message is deferred or suppressed.
LEMMA ByDraft ==
    ASSUME ReplyInvariant, NEW w \in Writers, Draft(w)
    PROVE  ReplyInvariant'
<1> DEFINE r0 == writer[w].reply
<1>0. /\ ReplyTypeOK /\ writer[w] \in Writer /\ r0 \in Replies
      /\ WriterKnows(w) /\ writer[w].at = "draft" /\ Carries(w) /\ MailedOnce(r0)
  BY AtWork DEF Draft, Carries, Holds, Unsent
<1>1. PICK says \in {"reply_now", "suppress", "defer"} :
        /\ r0 \in Followups => says = "reply_now"
        /\ writer' = [writer EXCEPT ![w].at = IF says = "suppress" THEN "optout" ELSE "send",
                                    ![w].says = says]
        /\ reply' = IF says = "reply_now" THEN reply ELSE FollowupsCancelled
  BY DEF Draft
<1> DEFINE at == IF says = "suppress" THEN "optout" ELSE "send"
           h == [writer[w] EXCEPT !.at = at, !.says = says]
<1>2. h \in Writer /\ h.at \in {"optout", "send"} /\ h.reply = r0 /\ h.says = says
  <2>1. at \in WriterAt /\ at \in {"optout", "send"}
    BY DEF WriterAt
  <2>2. says \in {"reply_now", "suppress", "defer"}
    BY <1>1
  <2> QED BY <1>0, <2>1, <2>2 DEF Writer
<1>3. writer' = [writer EXCEPT ![w] = h]
  BY <1>1
<1> HIDE DEF h
<1>4. /\ WritersTyped' /\ writer'[w] = h
      /\ \A v \in Writers \ {w} : writer'[v] = writer[v]
  BY <1>0, <1>2, <1>3, WriterTyped
<1>5. /\ RepliesTyped'
      /\ \A r \in Replies : \/ reply'[r] = reply[r]
                           \/ /\ r \in Followups /\ reply[r].status = "scheduled"
                              /\ reply'[r].status = "cancelled"
  BY <1>0, <1>1, Cancelled DEF RepliesTyped, ReplyTypeOK
<1>6. UNCHANGED <<optedOut, carrier, troubles, answered, mailed>> /\ Writing
  BY DEF Draft
<1>7. optedOut' \in BOOLEAN
  BY <1>0, <1>6 DEF ReplyTypeOK
<1>8. ReplyTypeOK'
  BY <1>0, <1>4, <1>5, <1>6, <1>7, WrittenTypes, TypesInParts
     DEF ReplyTypeOK, MailTyped, CarriersTyped, TroublesTyped
<1>9. reply[r0].status = "drafting" /\ mailed[r0] = 0 /\ reply'[r0].status = "drafting"
  BY <1>0, <1>5 DEF WriterKnows, Holds, Unsent
<1>10. WriterKnows(w)'
  <2>1. r0 \in Followups \/ r0 \in Immediate
    BY <1>0, Kinds
  <2> QED BY <1>1, <1>2, <1>4, <1>6, <1>9, <2>1 DEF WriterKnows
<1>11. r0 \notin answered
  BY <1>0 DEF ReplyInvariant, Overtaken
<1>12. PICK q \in Replies : q = r0
  BY <1>0
<1>13. MailedOnce(q)'
  BY <1>0, <1>6, <1>9, <1>12 DEF MailedOnce, Unclaimed
<1>14. Carries(w)' => Carries(w) /\ writer'[w].reply = q
  BY <1>0, <1>2, <1>4, <1>12
<1>15. UNCHANGED <<stored, answered>>
  BY <1>6 DEF Writing
<1>16. /\ writer[w].reply = q /\ reply[q].status = "drafting" /\ mailed'[q] = 0
      /\ reply'[q].status = "drafting" /\ q \notin answered
  BY <1>6, <1>9, <1>11, <1>12
<1>17. writer'[w].at \in {"draft", "optout", "send"} => writer'[w].reply \notin answered
  BY <1>2, <1>4, <1>11
<1> HIDE DEF r0
<1> QED BY <1>0, <1>4, <1>5, <1>6, <1>8, <1>10, <1>13, <1>14, <1>15, <1>16, <1>17,
        WriterMoves DEF Through

LEMMA ByOptOut ==
    ASSUME ReplyInvariant, NEW w \in Writers, OptOut(w)
    PROVE  ReplyInvariant'
<1>1. PICK r \in Replies : r = writer[w].reply
  BY AtWork DEF OptOut, WriterStep
<1> DEFINE h == [writer[w] EXCEPT !.at = "send"]
<1>2. /\ ReplyTypeOK /\ writer[w] \in Writer /\ reply[r] \in Reply
      /\ WriterKnows(w) /\ writer[w].at = "optout" /\ Carries(w)
  BY <1>1, AtWork DEF OptOut, WriterStep, Carries, Holds, Unsent
<1>3. h \in Writer /\ h.at = "send" /\ h.reply = r /\ h.says = writer[w].says
  <2>1. "send" \in WriterAt
    BY DEF WriterAt
  <2> QED BY <1>1, <1>2, <2>1, WriterGoesOn
<1>4. writer' = [writer EXCEPT ![w] = h] /\ reply' = [reply EXCEPT ![r] = reply[r]]
  BY <1>2 DEF OptOut, WriterStep, ReplyTypeOK
<1> HIDE DEF h
<1>5. /\ mailed[r] = 0 /\ reply[r].status = "drafting"
      /\ h.says = "defer" => r \in Immediate
  BY <1>1, <1>2, <1>3 DEF WriterKnows, Holds, Unsent
<1>6. r \notin answered
  BY <1>1, <1>2 DEF ReplyInvariant, Overtaken
<1>7. /\ CarriersTyped' /\ TroublesTyped' /\ optedOut' \in {optedOut, TRUE}
      /\ answered' = answered /\ mailed' = mailed /\ Writing
  BY <1>2, TroubleTyped DEF OptOut, CarriersTyped, ReplyTypeOK
<1> QED BY <1>1, <1>2, <1>3, <1>4, <1>5, <1>6, <1>7, ReplyMoves DEF Through, Unclaimed

LEMMA ByFailure ==
    ASSUME ReplyInvariant, NEW w \in Writers, DraftFails(w) \/ SendFails(w) \/ AfterSendFails(w)
    PROVE  ReplyInvariant'
<1> DEFINE r0 == writer[w].reply
           s  == [reply[r0] EXCEPT !.status = "failed", !.paused = FALSE]
<1>0. /\ ReplyTypeOK /\ writer[w] \in Writer /\ r0 \in Replies /\ reply[r0] \in Reply
      /\ WriterKnows(w) /\ writer[w].at # "idle"
  BY AtWork DEF DraftFails, SendFails, AfterSendFails
<1>1. TroublesTyped' /\ CarriersTyped'
  BY <1>0, TroubleTyped, CarrierSettled DEF DraftFails, SendFails, AfterSendFails, Fails
<1>2. UNCHANGED <<optedOut, answered>> /\ Writing
  BY DEF DraftFails, SendFails, AfterSendFails, Fails
<1>3. s \in Reply /\ s.status = "failed"
  BY <1>0, ReplyGoesOn DEF ReplyStatus
<1>4. writer' = [writer EXCEPT ![w] = Resting] /\ reply' = [reply EXCEPT ![r0] = s]
  BY DEF DraftFails, SendFails, AfterSendFails, Fails
<1>5. /\ mailed' \in {mailed, [mailed EXCEPT ![r0] = @ + 1]}
      /\ mailed' # mailed => writer[w].at = "send"
  BY DEF DraftFails, SendFails, AfterSendFails
<1>6. Carries(w) \/ reply[r0].status \in Through
  BY <1>0 DEF DraftFails, SendFails, AfterSendFails, WriterKnows, Carries, Holds, Unsent
<1> HIDE DEF s
<1> QED BY <1>0, <1>1, <1>2, <1>3, <1>4, <1>5, <1>6, Typed, ReplyMoves DEF Through, Unclaimed

LEMMA BySending ==
    ASSUME ReplyInvariant, NEW w \in Writers, Send(w) \/ Park(w)
    PROVE  ReplyInvariant'
<1> DEFINE r0 == writer[w].reply
<1>0. /\ ReplyTypeOK /\ writer[w] \in Writer /\ r0 \in Replies /\ reply[r0] \in Reply
      /\ WriterKnows(w) /\ writer[w].at = "send" /\ Carries(w)
  BY AtWork DEF Send, Park, WriterStep, Carries, Holds, Unsent
<1>1. TroublesTyped' /\ CarriersTyped'
  BY <1>0, TroubleTyped, CarrierSettled DEF Send, Park
<1>2. UNCHANGED <<optedOut, answered>> /\ Writing
  BY DEF Send, Park
<1>3. mailed[r0] = 0 /\ reply[r0].status = "drafting"
      /\ (writer[w].says = "defer" => r0 \in Immediate)
  BY <1>0 DEF WriterKnows, Holds, Unsent
<1>4. CASE Send(w)
  <2> DEFINE h == [writer[w] EXCEPT !.at = "record"]
  <2>1. h \in Writer /\ h.at = "record" /\ h.reply = r0 /\ h.says = writer[w].says
    <3>1. h.at \in WriterAt
      BY <1>0 DEF WriterAt, Writer
    <3> QED BY <1>0, <3>1, WriterGoesOn
  <2>2. /\ writer' = [writer EXCEPT ![w] = h] /\ reply' = [reply EXCEPT ![r0] = reply[r0]]
        /\ mailed' = [mailed EXCEPT ![r0] = @ + 1]
    BY <1>0, <1>4 DEF Send, WriterStep, ReplyTypeOK
  <2> HIDE DEF h
  <2> QED BY <1>0, <1>1, <1>2, <1>3, <2>1, <2>2, ReplyMoves DEF Through, Unclaimed
<1>5. CASE Park(w)
  <2> DEFINE h == [writer[w] EXCEPT !.at = "giveback"]
             k == IF r0 \in Followups THEN "scheduled" ELSE "queued"
             s == [status |-> k, due |-> FALSE, paused |-> TRUE]
  <2>1. h \in Writer /\ h.at = "giveback" /\ h.reply = r0
    <3>1. h.at \in WriterAt
      BY <1>0 DEF WriterAt, Writer
    <3> QED BY <1>0, <3>1, WriterGoesOn
  <2>2. writer' = [writer EXCEPT ![w] = h] /\ reply' = [reply EXCEPT ![r0] = s] /\ mailed' = mailed
    BY <1>5 DEF Park, WriterStep
  <2>3. k \in {"scheduled", "queued"}
    OBVIOUS
  <2>4. s \in Reply /\ s.status = k
    BY <2>3 DEF Reply, ReplyStatus
  <2> HIDE DEF h, s, k
  <2> QED BY <1>0, <1>1, <1>2, <1>3, <2>1, <2>2, <2>3, <2>4, ReplyMoves DEF Through
<1> QED BY <1>4, <1>5

LEMMA ByRecord ==
    ASSUME ReplyInvariant, NEW w \in Writers, Record(w)
    PROVE  ReplyInvariant'
<1> DEFINE r0 == writer[w].reply
           s  == [reply[r0] EXCEPT !.status = "sent", !.paused = FALSE]
<1>0. /\ ReplyTypeOK /\ writer[w] \in Writer /\ r0 \in Replies /\ reply[r0] \in Reply
      /\ WriterKnows(w) /\ writer[w].at = "record" /\ Carries(w)
  BY AtWork DEF Record, Carries, Holds
<1>1. TroublesTyped' /\ CarriersTyped'
  BY <1>0, TroubleTyped, CarrierSettled DEF Record
<1>2. UNCHANGED <<optedOut, answered, mailed>> /\ Writing
  BY DEF Record
<1>3. reply[r0].status = "drafting" /\ (writer[w].says = "defer" => r0 \in Immediate)
  BY <1>0 DEF WriterKnows, Holds
<1>4. s \in Reply /\ s.status = "sent" /\ reply' = [reply EXCEPT ![r0] = s]
  <2>1. s \in Reply /\ s.status = "sent"
    BY <1>0, ReplyGoesOn DEF ReplyStatus
  <2> QED BY <2>1 DEF Record
<1> HIDE DEF s
<1>5. CASE writer[w].says = "defer"
  <2> DEFINE h == [writer[w] EXCEPT !.at = "insert"]
  <2>1. h \in Writer /\ h.at = "insert" /\ h.reply = r0 /\ h.says = writer[w].says
    <3>1. h.at \in WriterAt
      BY <1>0 DEF WriterAt, Writer
    <3> QED BY <1>0, <3>1, WriterGoesOn
  <2>2. writer' = [writer EXCEPT ![w] = h]
    BY <1>5 DEF Record, WriterStep
  <2> HIDE DEF h
  <2> QED BY <1>0, <1>1, <1>2, <1>3, <1>4, <1>5, <2>1, <2>2, ReplyMoves DEF Through, Unclaimed
<1>6. CASE writer[w].says # "defer"
  <2>1. writer' = [writer EXCEPT ![w] = Resting]
    BY <1>6 DEF Record
  <2> QED BY <1>0, <1>1, <1>2, <1>3, <1>4, <2>1, Typed, ReplyMoves DEF Through, Unclaimed
<1> QED BY <1>5, <1>6

LEMMA ByLeaving ==
    ASSUME ReplyInvariant, NEW w \in Writers,
           GiveBack(w) \/ EnqueueFollowup(w) \/ WriterDies(w) \/ ClaimsNothing(w)
    PROVE  ReplyInvariant'
<1> DEFINE r0 == writer[w].reply
<1>0. ReplyTypeOK /\ r0 \in Replies /\ WriterKnows(w)
  BY AtWork DEF GiveBack, EnqueueFollowup, WriterDies, ClaimsNothing
<1>1. TroublesTyped'
  BY <1>0, TroubleTyped DEF GiveBack, EnqueueFollowup, WriterDies, ClaimsNothing
<1>2. CarriersTyped'
  <2>1. CASE GiveBack(w) \/ WriterDies(w) \/ ClaimsNothing(w)
    BY <1>0, <2>1, CarrierSettled DEF GiveBack, WriterDies, ClaimsNothing
  <2>2. CASE EnqueueFollowup(w)
    <3>1. FollowupOf(r0) \in Replies
      BY <1>0, <2>2, Kinds DEF EnqueueFollowup, WriterKnows
    <3> QED BY <1>0, <2>2, <3>1 DEF EnqueueFollowup, ReplyTypeOK, CarriersTyped, Carrier
  <2> QED BY <2>1, <2>2
<1>3. UNCHANGED <<optedOut, reply, answered, mailed>> /\ Writing
  BY DEF GiveBack, EnqueueFollowup, WriterDies, ClaimsNothing
<1>4. writer' = [writer EXCEPT ![w] = Resting]
  BY DEF GiveBack, EnqueueFollowup, WriterDies, ClaimsNothing
<1>5. /\ WritersTyped' /\ writer'[w] = Resting
      /\ \A v \in Writers \ {w} : writer'[v] = writer[v]
  BY <1>0, <1>4, Typed, WriterTyped
<1>6. optedOut' \in BOOLEAN /\ answered' \subseteq Followups
  BY <1>0, <1>3 DEF ReplyTypeOK
<1>7. ReplyTypeOK'
  BY <1>0, <1>1, <1>2, <1>3, <1>5, <1>6, WrittenTypes, TypesInParts DEF RepliesTyped, MailTyped,
     ReplyTypeOK
<1> QED BY <1>0, <1>3, <1>5, <1>7, Typed, WriterLeaves DEF Writing

\* The follow-up is the first to have its name, and its reply was sent.
LEMMA ByInsertion ==
    ASSUME ReplyInvariant, NEW w \in Writers, InsertFollowup(w)
    PROVE  ReplyInvariant'
<1>1. PICK r \in Replies : r = writer[w].reply
  BY AtWork DEF InsertFollowup
<1>2. PICK m \in Inbounds : r = <<m, "immediate">>
  BY <1>1, AtWork, Kinds DEF InsertFollowup, WriterKnows
<1>3. PICK f \in Followups : f = <<m, "followup">> /\ f = FollowupOf(r)
  BY <1>1, <1>2, Kinds DEF FollowupOf
<1> DEFINE h == [writer[w] EXCEPT !.at = "enqueue"]
           s == [NoReply EXCEPT !.status = "scheduled"]
<1>4. /\ ReplyTypeOK /\ writer[w] \in Writer /\ WriterKnows(w)
      /\ writer[w].at = "insert" /\ Carries(w) /\ f \in Replies /\ f # r
  BY <1>1, <1>2, <1>3, AtWork, Kinds DEF InsertFollowup, Carries
<1>5. h \in Writer /\ h.at = "enqueue" /\ h.reply = r /\ h.says = writer[w].says
  <2>1. "enqueue" \in WriterAt
    BY DEF WriterAt
  <2> QED BY <1>1, <1>4, <2>1, WriterGoesOn
<1>6. s \in Reply /\ s.status = "scheduled"
  BY DEF NoReply, Reply, ReplyStatus
<1>7. writer' = [writer EXCEPT ![w] = h] /\ reply' = [reply EXCEPT ![f] = s]
  BY <1>1, <1>3 DEF InsertFollowup, WriterStep
<1> HIDE DEF h, s
<1>8. /\ WritersTyped' /\ writer'[w] = h
      /\ \A v \in Writers \ {w} : writer'[v] = writer[v]
  BY <1>1, <1>4, <1>5, <1>7, WriterTyped
<1>9. RepliesTyped' /\ reply'[f] = s /\ \A q \in Replies \ {f} : reply'[q] = reply[q]
  BY <1>4, <1>6, <1>7, ReplyTyped
<1>10. UNCHANGED <<optedOut, carrier, troubles, answered, mailed>> /\ Writing /\ stored' = stored
  BY DEF InsertFollowup, Writing
<1>11. ReplyTypeOK'
  <2>1. optedOut' \in BOOLEAN /\ answered' \subseteq Followups
    BY <1>4, <1>10 DEF ReplyTypeOK
  <2> QED BY <1>4, <1>8, <1>9, <1>10, <2>1, WrittenTypes, TypesInParts
          DEF ReplyTypeOK, MailTyped, CarriersTyped, TroublesTyped
<1>12. reply[f].status = "none" /\ mailed[f] = 0
  BY <1>1, <1>2, <1>3, <1>4 DEF ReplyInvariant, FollowupIsLast, MailedOnce, Unclaimed
<1>13. \A v \in Writers \ {w} : /\ Unsent(v)' <=> Unsent(v)
                                /\ Holds(v)' <=> Holds(v)
                                /\ Carries(v)' <=> Carries(v)
  BY <1>8 DEF Unsent, Holds, Carries
<1>14. ~Carries(w)' /\ ~Holds(w)' /\ ~Unsent(w)'
  BY <1>5, <1>8 DEF Unsent, Holds, Carries
<1>15. OneCarries'
  BY <1>8, <1>13, <1>14 DEF ReplyInvariant, OneCarries
<1>16. ASSUME NEW v \in Writers PROVE WriterKnows(v)'
  <2>1. CASE v = w
    BY <1>1, <1>4, <1>5, <1>8, <1>9, <1>14, <2>1 DEF WriterKnows
  <2>2. CASE v # w
    <3>1. WriterKnows(v) /\ (writer[v].at # "idle" => writer[v].reply \in Replies)
      BY <1>4 DEF ReplyInvariant, ReplyTypeOK
    <3>2. Holds(v) \/ writer[v].at \in {"insert", "enqueue"} => writer[v].reply # f
      BY <1>12, <3>1 DEF WriterKnows, Through
    <3> QED BY <1>8, <1>9, <1>10, <1>13, <2>2, <3>1, <3>2
            DEF WriterKnows, Carries, Holds, Unsent
  <2> QED BY <2>1, <2>2
<1>17. ASSUME NEW q \in Replies PROVE MailedOnce(q)'
  BY <1>6, <1>9, <1>10, <1>12 DEF ReplyInvariant, MailedOnce
<1>18. ASSUME NEW g \in answered PROVE Overtaken(g)'
  <2>1. Overtaken(g)
    BY DEF ReplyInvariant
  <2> QED BY <1>5, <1>8, <1>10, <2>1 DEF Overtaken, Newer
<1>19. ASSUME NEW n \in Inbounds PROVE FollowupIsLast(n)'
  <2>0. FollowupIsLast(n) /\ <<n, "followup">> \in Replies /\ <<n, "immediate">> \in Replies
        /\ <<n, "immediate">> # f
    BY <1>3, Kinds DEF ReplyInvariant
  <2>1. CASE n = m
    <3>1. reply'[r].status \in Through
      BY <1>1, <1>4, <1>9 DEF WriterKnows
    <3>2. \A v \in Writers : Carries(v)' => writer'[v].reply # r
      BY <1>1, <1>4, <1>8, <1>13, <1>14 DEF ReplyInvariant, OneCarries
    <3> QED BY <1>2, <2>1, <3>1, <3>2 DEF FollowupIsLast
  <2>2. CASE n # m
    <3>1. <<n, "followup">> # f
      BY <1>3, <2>2
    <3> QED BY <1>8, <1>9, <1>13, <1>14, <2>0, <3>1 DEF FollowupIsLast
  <2> QED BY <2>1, <2>2
<1> QED BY <1>10, <1>11, <1>15, <1>16, <1>17, <1>18, <1>19 DEF ReplyInvariant

-----------------------------------------------------------------------------
LEMMA ReplyStarts == ReplyInit => ReplyInvariant
<1> SUFFICES ASSUME ReplyInit PROVE ReplyInvariant
  OBVIOUS
<1>1. /\ NoReply \in Reply /\ NoReply.status = "none"
      /\ Resting \in Writer /\ Resting.at = "idle"
      /\ Waiting \in Taker /\ Waiting.at = "idle"
  BY DEF Reply, ReplyStatus, NoReply, Writer, WriterAt, Resting, Taker, TakerAt, Waiting
<1>2. ReplyTypeOK
  <2>1. TakersTyped /\ WritersTyped /\ RepliesTyped
    BY <1>1 DEF ReplyInit, TakersTyped, WritersTyped, RepliesTyped
  <2>2. CarriersTyped
    BY DEF ReplyInit, CarriersTyped, Carrier
  <2>3. MailTyped
    BY DEF ReplyInit, MailTyped
  <2>4. RestTyped
    BY DEF ReplyInit, RestTyped, EventState
  <2>5. TroublesTyped
    BY ReplyAssumption DEF ReplyInit, TroublesTyped
  <2> QED BY <2>1, <2>2, <2>3, <2>4, <2>5, TypesInParts
<1>3. \A w \in Writers : ~Carries(w) /\ WriterKnows(w)
  BY <1>1 DEF ReplyInit, Carries, Holds, Unsent, WriterKnows
<1>4. \A r \in Replies : MailedOnce(r)
  BY DEF ReplyInit, MailedOnce
<1>5. \A m \in Inbounds : FollowupIsLast(m)
  BY <1>1, Kinds DEF ReplyInit, FollowupIsLast
<1> QED BY <1>2, <1>3, <1>4, <1>5 DEF ReplyInvariant, OneCarries, ReplyInit

LEMMA ReplyInvariantHolds == ReplySpec => []ReplyInvariant
<1>1. ReplyInvariant /\ UNCHANGED replyVars => ReplyInvariant'
  <2> SUFFICES ASSUME ReplyInvariant, UNCHANGED replyVars PROVE ReplyInvariant'
    OBVIOUS
  <2>1. ReplyTypeOK'
    BY DEF ReplyInvariant, ReplyTypeOK, replyVars
  <2> QED BY <2>1, NoWriterMoves DEF replyVars
<1>2. ReplyInvariant /\ ReplyNext => ReplyInvariant'
  BY ByLead, ByDelivery, ByTaker, ByTime, ByRow, ByTaking, ByClaim, ByCheck, ByDraft, ByOptOut,
     ByFailure, BySending, ByRecord, ByLeaving, ByInsertion DEF ReplyNext, Writes
<1> QED BY <1>1, <1>2, ReplyStarts, PTL DEF ReplySpec

\* Tables and handlers of the answers keep their types.
THEOREM ReplyTypesCorrect == ReplySpec => []ReplyTypeOK
BY ReplyInvariantHolds, PTL DEF ReplyInvariant

\* A message is answered at most once and left at most one follow-up: a reply
\* is drafting from its claim on, and goes back to wait only unsent.
THEOREM OneAnswer == ReplySpec => []OneAnswerPerInbound
<1>1. ReplyInvariant => OneAnswerPerInbound
  BY DEF ReplyInvariant, MailedOnce, OneAnswerPerInbound
<1> QED BY <1>1, ReplyInvariantHolds, PTL

\* A follow-up claimed after a newer message was stored is not sent.
THEOREM OvertakenFollowupsStay == ReplySpec => []NoFollowupToAnsweredLead
<1>1. ReplyInvariant => NoFollowupToAnsweredLead
  BY DEF ReplyInvariant, Overtaken, NoFollowupToAnsweredLead
<1> QED BY <1>1, ReplyInvariantHolds, PTL

=============================================================================
