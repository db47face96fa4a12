----------------------------- MODULE RunProofs -------------------------------
(***************************************************************************)
(* The types of an enrichment run, what the writes of its status leave of  *)
(* a cancelled run, and that a run is complete only after its companies    *)
(* were asked for and stays complete, proved for any number of runs,       *)
(* companies, handlers and mishaps.                                        *)
(***************************************************************************)
EXTENDS RunProperties, TLAPS

\* What a handler does says which kind of row it works on.
Fits(h) ==
    /\ h.at = "rest" => h = AtRest
    /\ h.at # "rest" => h.work \in RowKeys
    /\ h.at = "extract" => h.work \in {"extract"} \X EnrichmentRuns
    /\ h.at = "scan" => h.work \in {"prepare"} \X EnrichmentRuns
    /\ h.at = "enqueue" => h.work \in {"prepare", "enrich"} \X EnrichmentRuns
    /\ h.at = "research" => h.work \in {"research"} \X ResearchKeys
    /\ h.at = "finalize" => h.work \in {"finalize"} \X EnrichmentRuns
    /\ (\E k \in h.next : k[1] = "research") => h.work \in RunKinds \X EnrichmentRuns

HandsFit == \A a \in Handlers : Fits(hand[a])

RunInvariant == RunTypeOK /\ HandsFit

Owners == {"none", "pending", "closed", Dead} \cup Handlers

\* The types of what a step may leave alone, as facts on their own.
JobsTyped == /\ research \in [ResearchKeys -> ResearchJob]
             /\ \A c \in ResearchKeys : research[c].state = "none" <=> research[c].by = <<>>
HandsTyped == hand \in [Handlers -> Hand] /\ HandsFit
RowsTyped  == row \in [RowKeys -> Owners]
MarksTyped == /\ cancelling \subseteq EnrichmentRuns /\ recent \subseteq EnrichmentRuns
              /\ mishaps \in 0..MaxMishaps
              /\ prepared \subseteq EnrichmentRuns /\ troubled \subseteq EnrichmentRuns
FieldsTyped == /\ status \in [EnrichmentRuns -> RunStatus]
               /\ upload \in [EnrichmentRuns -> UploadStatus]
               /\ scope \in [ResearchKeys -> EnrichmentRuns \cup {"none"}]

LEMMA InvariantInParts ==
    /\ RunInvariant <=> JobsTyped /\ HandsTyped /\ RowsTyped /\ MarksTyped /\ FieldsTyped
    /\ RunInvariant' <=>
         JobsTyped' /\ HandsTyped' /\ RowsTyped' /\ MarksTyped' /\ FieldsTyped'
BY DEF RunInvariant, RunTypeOK, JobsTyped, HandsTyped, RowsTyped, MarksTyped, FieldsTyped,
       Owners

-----------------------------------------------------------------------------
\* Rows and hands.

LEMMA KeysOfRows ==
    /\ \A r \in EnrichmentRuns, k \in RunKinds : <<k, r>> \in RowKeys
    /\ \A c \in ResearchKeys : <<"research", c>> \in RowKeys
BY DEF RowKeys

LEMMA RowKept ==
    ASSUME RowsTyped, NEW w, NEW o \in Owners, row' = [row EXCEPT ![w] = o]
    PROVE  RowsTyped'
BY DEF RowsTyped, Owners

LEMMA HandKept ==
    ASSUME HandsTyped, NEW a \in Handlers, NEW h \in Hand, Fits(h),
           hand' = [hand EXCEPT ![a] = h]
    PROVE  HandsTyped'
BY DEF HandsTyped, HandsFit

LEMMA RestFits == AtRest \in Hand /\ Fits(AtRest)
BY DEF AtRest, Hand, HandAt, Fits

LEMMA EnqueuedRows ==
    ASSUME NEW rw \in [RowKeys -> Owners], NEW works, NEW revive
    PROVE  Enqueued(rw, works, revive) \in [RowKeys -> Owners]
BY DEF Enqueued, Owners

LEMMA PutBackRows ==
    ASSUME RowsTyped, NEW a PROVE PutBack(a) \in [RowKeys -> Owners]
BY DEF PutBack, RowsTyped, Owners

LEMMA SmoothMarks ==
    ASSUME MarksTyped, Smooth, UNCHANGED cancelling PROVE MarksTyped'
BY DEF MarksTyped, Smooth

LEMMA MishapCounts ==
    ASSUME MarksTyped, Mishap PROVE mishaps' \in 0..MaxMishaps /\ UNCHANGED recent
BY RunAssumption DEF MarksTyped, Mishap

LEMMA FinishedJobTyped ==
    ASSUME JobsTyped, NEW c \in ResearchKeys, research[c].state # "none",
           NEW s \in ResearchState \ {"none"}, research' = FinishedJob(c, s)
    PROVE  JobsTyped'
BY DEF JobsTyped, FinishedJob, ResearchJob

LEMMA Untouched ==
    /\ JobsTyped /\ UNCHANGED research => JobsTyped'
    /\ HandsTyped /\ UNCHANGED hand => HandsTyped'
    /\ RowsTyped /\ UNCHANGED row => RowsTyped'
    /\ FieldsTyped /\ UNCHANGED <<status, upload, scope>> => FieldsTyped'
BY DEF JobsTyped, HandsTyped, HandsFit, RowsTyped, FieldsTyped, Fits

LEMMA Doings ==
    ASSUME NEW w \in RowKeys, NEW at \in HandAt \ {"rest"}
    PROVE  Doing(w, at) \in Hand
BY DEF Doing, AtRest, Hand, HandAt

LEMMA SkipsTyped ==
    ASSUME HandsTyped, RowsTyped, NEW a, NEW w, Skips(a, w)
    PROVE  HandsTyped' /\ RowsTyped'
<1>1. HandsTyped' BY Untouched DEF Skips
<1>2. RowsTyped'
  BY RowKept DEF Skips, Owners
<1> QED BY <1>1, <1>2

\* A row is taken by a handler, which begins with it.
LEMMA HoldsTyped ==
    ASSUME HandsTyped, RowsTyped, NEW a \in Handlers, NEW w \in RowKeys,
           NEW h \in Hand, Fits(h), Holds(a, w, h)
    PROVE  HandsTyped' /\ RowsTyped'
<1>1. HandsTyped' BY HandKept DEF Holds
<1>2. RowsTyped' BY RowKept DEF Holds, Owners
<1> QED BY <1>1, <1>2

-----------------------------------------------------------------------------
\* The handlers.

LEMMA ProcessTyped ==
    ASSUME RunInvariant, NEW a \in Handlers, NEW r \in EnrichmentRuns, Process(a, r)
    PROVE  RunInvariant'
<1> USE InvariantInParts
<1>1. JobsTyped' /\ MarksTyped'
  BY Untouched, SmoothMarks DEF Process
<1>2. FieldsTyped'
  BY DEF Process, FieldsTyped, RunStatus
<1>3. HandsTyped' /\ RowsTyped'
  <2>1. CASE Skips(a, <<"process", r>>)
    BY <2>1, SkipsTyped
  <2>2. CASE /\ row' = Enqueued([row EXCEPT ![<<"process", r>>] = "closed"],
                                {<<"extract", r>>, <<"prepare", r>>}, FALSE)
             /\ UNCHANGED hand
    <3>1. [row EXCEPT ![<<"process", r>>] = "closed"] \in [RowKeys -> Owners]
      BY DEF RowsTyped, Owners
    <3>2. RowsTyped'
      BY <2>2, <3>1, EnqueuedRows DEF RowsTyped
    <3> QED BY <2>2, <3>2, Untouched
  <2> QED BY <2>1, <2>2 DEF Process
<1> QED BY <1>1, <1>2, <1>3

LEMMA ExtractTyped ==
    ASSUME RunInvariant, NEW a \in Handlers, NEW r \in EnrichmentRuns, Extract(a, r)
    PROVE  RunInvariant'
<1> USE InvariantInParts
<1>1. JobsTyped' /\ MarksTyped'
  BY Untouched, SmoothMarks DEF Extract
<1>2. FieldsTyped'
  BY DEF Extract, FieldsTyped, UploadStatus
<1>3. HandsTyped' /\ RowsTyped'
  <2>1. CASE Skips(a, <<"extract", r>>)
    BY <2>1, SkipsTyped
  <2>2. CASE Holds(a, <<"extract", r>>, Doing(<<"extract", r>>, "extract"))
    <3>1. <<"extract", r>> \in RowKeys BY KeysOfRows DEF RunKinds
    <3>2. Doing(<<"extract", r>>, "extract") \in Hand
      BY <3>1, Doings DEF HandAt
    <3>3. Fits(Doing(<<"extract", r>>, "extract"))
      BY <3>1 DEF Fits, Doing, AtRest
    <3> QED BY <2>2, <3>1, <3>2, <3>3, HoldsTyped
  <2> QED BY <2>1, <2>2 DEF Extract
<1> QED BY <1>1, <1>2, <1>3

\* The end of a handler: at rest, and its row closed, put back or another's.
LEMMA RestTyped ==
    ASSUME HandsTyped, NEW a \in Handlers, hand' = [hand EXCEPT ![a] = AtRest]
    PROVE  HandsTyped'
BY HandKept, RestFits

LEMMA ExtractedTyped ==
    ASSUME RunInvariant, NEW a \in Handlers, Extracted(a)
    PROVE  RunInvariant'
<1> USE InvariantInParts
<1>1. JobsTyped' /\ MarksTyped'
  BY Untouched, SmoothMarks DEF Extracted
<1>2. FieldsTyped'
  BY DEF Extracted, FieldsTyped, UploadStatus
<1>3. HandsTyped'
  BY RestTyped DEF Extracted
<1>4. RowsTyped'
  BY RowKept, Untouched DEF Extracted, Owners
<1> QED BY <1>1, <1>2, <1>3, <1>4

LEMMA PrepareTyped ==
    ASSUME RunInvariant, NEW a \in Handlers, NEW r \in EnrichmentRuns, Prepare(a, r)
    PROVE  RunInvariant'
<1> USE InvariantInParts
<1>1. JobsTyped' /\ MarksTyped' /\ FieldsTyped'
  BY Untouched, SmoothMarks DEF Prepare
<1>2. CASE Skips(a, <<"prepare", r>>)
  BY <1>1, <1>2, SkipsTyped
<1>3. CASE Holds(a, <<"prepare", r>>, Doing(<<"prepare", r>>, "scan"))
  <2>1. <<"prepare", r>> \in RowKeys BY KeysOfRows DEF RunKinds
  <2>2. Doing(<<"prepare", r>>, "scan") \in Hand
    BY <2>1, Doings DEF HandAt
  <2>3. Fits(Doing(<<"prepare", r>>, "scan"))
    BY <2>1 DEF Fits, Doing, AtRest
  <2> QED BY <1>1, <1>3, <2>1, <2>2, <2>3, HoldsTyped
<1> QED BY <1>2, <1>3 DEF Prepare

LEMMA PrepareGivesUpTyped ==
    ASSUME RunInvariant, NEW r \in EnrichmentRuns, PrepareGivesUp(r)
    PROVE  RunInvariant'
<1> USE InvariantInParts
<1>1. JobsTyped' /\ HandsTyped'
  BY Untouched DEF PrepareGivesUp
<1>2. MarksTyped' /\ FieldsTyped'
  BY DEF PrepareGivesUp, MarksTyped, FieldsTyped, RunStatus
<1>3. RowsTyped'
  BY RowKept DEF PrepareGivesUp, Owners
<1> QED BY <1>1, <1>2, <1>3

\* A handler that goes on with the row it has.
LEMMA GoesOnTyped ==
    ASSUME HandsTyped, NEW a \in Handlers, NEW at \in {"enqueue", "complete"},
           NEW todo \in SUBSET ResearchKeys, NEW asked \in SUBSET ResearchKeys,
           hand[a].at # "rest",
           at = "enqueue" => hand[a].work \in {"prepare", "enrich"} \X EnrichmentRuns,
           hand' = [hand EXCEPT ![a] = [@ EXCEPT !.at = at, !.todo = todo, !.asked = asked]]
    PROVE  HandsTyped'
<1> DEFINE h == [hand[a] EXCEPT !.at = at, !.todo = todo, !.asked = asked]
<1>1. hand[a] \in Hand /\ Fits(hand[a])
  BY DEF HandsTyped, HandsFit
<1>2. h \in Hand
  BY <1>1 DEF Hand, HandAt
<1>3. Fits(h)
  BY <1>1, <1>2 DEF Fits, Hand
<1>4. hand' = [hand EXCEPT ![a] = h]
  OBVIOUS
<1> QED BY <1>2, <1>3, <1>4, HandKept

LEMMA ScannedTyped ==
    ASSUME RunInvariant, NEW a \in Handlers, Scanned(a)
    PROVE  RunInvariant'
<1> USE InvariantInParts
<1>0. hand[a] \in Hand /\ Fits(hand[a])
  BY DEF HandsTyped, HandsFit
<1>1. hand[a].work \in {"prepare"} \X EnrichmentRuns /\ hand[a].work[2] \in EnrichmentRuns
  BY <1>0 DEF Scanned, Fits
<1>2. JobsTyped' /\ RowsTyped' /\ MarksTyped'
  BY Untouched, SmoothMarks DEF Scanned
<1>3. FieldsTyped'
  BY <1>1 DEF Scanned, FieldsTyped, RunStatus
<1>4. HandsTyped'
  <2>1. ASSUME hand' = [hand EXCEPT ![a].at = "complete"] PROVE HandsTyped'
    <3>1. hand' = [hand EXCEPT ![a] = [@ EXCEPT !.at = "complete", !.todo = hand[a].todo,
                                      !.asked = hand[a].asked]]
      BY <1>0, <2>1 DEF Hand
    <3> QED BY <1>0, <3>1, GoesOnTyped DEF Scanned, Hand
  <2>2. ASSUME NEW todo \in SUBSET ResearchKeys,
               hand' = [hand EXCEPT ![a].at = "enqueue", ![a].todo = todo]
        PROVE  HandsTyped'
    <3>1. hand' = [hand EXCEPT ![a] = [@ EXCEPT !.at = "enqueue", !.todo = todo,
                                      !.asked = hand[a].asked]]
      BY <1>0, <2>2 DEF Hand
    <3> QED BY <1>0, <1>1, <3>1, GoesOnTyped DEF Scanned, Hand
  <2>3. Wants[hand[a].work[2]] \subseteq ResearchKeys
    BY <1>1, RunAssumption
  <2> QED BY <2>1, <2>2, <2>3 DEF Scanned, Asks
<1> QED BY <1>2, <1>3, <1>4

LEMMA EnrichTyped ==
    ASSUME RunInvariant, NEW a \in Handlers, NEW r \in EnrichmentRuns, Enrich(a, r)
    PROVE  RunInvariant'
<1> USE InvariantInParts
<1>1. JobsTyped' /\ MarksTyped' /\ FieldsTyped'
  BY Untouched, SmoothMarks DEF Enrich
<1>2. CASE Skips(a, <<"enrich", r>>)
  BY <1>1, <1>2, SkipsTyped
<1>3. CASE status[r] = "enriching"
  <2>1. <<"enrich", r>> \in RowKeys BY KeysOfRows DEF RunKinds
  <2>2. PICK todo \in SUBSET Wants[r] : \/ Skips(a, <<"enrich", r>>)
          \/ Holds(a, <<"enrich", r>>, [Doing(<<"enrich", r>>, "enqueue") EXCEPT !.todo = todo])
    BY <1>3 DEF Enrich, Holds
  <2> DEFINE h == [Doing(<<"enrich", r>>, "enqueue") EXCEPT !.todo = todo]
  <2>3. todo \in SUBSET ResearchKeys
    BY RunAssumption
  <2>4. h \in Hand
    BY <2>1, <2>3, Doings DEF HandAt, Hand
  <2>5. Fits(h)
    BY <2>1, <2>4 DEF Fits, Doing, AtRest
  <2> QED BY <1>1, <1>2, <2>1, <2>2, <2>4, <2>5, HoldsTyped
<1> QED BY <1>2, <1>3 DEF Enrich

LEMMA AskForTyped ==
    ASSUME RunInvariant, NEW a \in Handlers, NEW c \in ResearchKeys, AskFor(a, c)
    PROVE  RunInvariant'
<1> USE InvariantInParts
<1> DEFINE r   == hand[a].work[2]
           job == research[c]
           by  == IF c \in Requests(r) THEN job.by ELSE Append(job.by, r)
<1>0. hand[a] \in Hand /\ Fits(hand[a])
  BY DEF HandsTyped, HandsFit
<1>1. hand[a].work \in {"prepare", "enrich"} \X EnrichmentRuns /\ r \in EnrichmentRuns
  BY <1>0 DEF AskFor, Fits
<1>2. RowsTyped' /\ MarksTyped' /\ FieldsTyped'
  BY Untouched, SmoothMarks DEF AskFor
<1>3. HandsTyped'
  <2>1. hand' = [hand EXCEPT ![a] = [@ EXCEPT !.at = "enqueue", !.todo = hand[a].todo \ {c},
                              !.asked = hand[a].asked \cup {c}]]
    BY <1>0 DEF AskFor, Hand
  <2>2. /\ hand[a].todo \ {c} \in SUBSET ResearchKeys
        /\ hand[a].asked \cup {c} \in SUBSET ResearchKeys
        /\ hand[a].at # "rest"
    BY <1>0 DEF AskFor, Hand
  <2> HIDE DEF by, job, r
  <2> QED BY <1>1, <2>1, <2>2, GoesOnTyped
<1>4. job.by \in Seq(EnrichmentRuns) /\ job \in ResearchJob
  BY DEF JobsTyped, ResearchJob
<1>5. by \in Seq(EnrichmentRuns) /\ by # <<>>
  <2>1. CASE c \in Requests(r)
    <3>1. \E n \in DOMAIN job.by : job.by[n] = r
      BY <2>1 DEF Requests
    <3> QED BY <1>4, <2>1, <3>1
  <2>2. CASE c \notin Requests(r)
    BY <1>1, <1>4, <2>2
  <2> QED BY <2>1, <2>2
<1>6. JobsTyped'
  <2>1. CASE research' = [research EXCEPT ![c] = [state |-> "pending", by |-> by, stale |-> FALSE]]
    BY <1>5, <2>1 DEF JobsTyped, ResearchJob, ResearchState
  <2>2. CASE /\ job.state \in OpenStates \cup {"done"}
             /\ research' = [research EXCEPT ![c].by = by]
    <3>1. research'[c] = [job EXCEPT !.by = by]
      BY <2>2 DEF JobsTyped
    <3>2. research'[c] \in ResearchJob /\ research'[c].state # "none" /\ research'[c].by # <<>>
      BY <1>4, <1>5, <2>2, <3>1 DEF ResearchJob, OpenStates
    <3> QED BY <2>2, <3>2 DEF JobsTyped
  <2> QED BY <2>1, <2>2 DEF AskFor
<1> QED BY <1>2, <1>3, <1>6

LEMMA AllAskedTyped ==
    ASSUME RunInvariant, NEW a \in Handlers, AllAsked(a)
    PROVE  RunInvariant'
<1> USE InvariantInParts
<1> DEFINE r    == hand[a].work[2]
           next == IF hand[a].asked = {} THEN {<<"finalize", r>>}
                   ELSE {<<"research", c>> : c \in hand[a].asked}
           h    == [Doing(hand[a].work, "complete") EXCEPT !.next = next]
<1>0. hand[a] \in Hand /\ Fits(hand[a])
  BY DEF HandsTyped, HandsFit
<1>1. r \in EnrichmentRuns /\ hand[a].work \in RowKeys
  BY <1>0 DEF AllAsked, Fits
<1>2. JobsTyped' /\ RowsTyped'
  BY Untouched DEF AllAsked
<1>3. MarksTyped' /\ FieldsTyped'
  BY <1>1 DEF AllAsked, MarksTyped, FieldsTyped, RunStatus
<1>4. next \in SUBSET RowKeys
  BY <1>0, <1>1, KeysOfRows DEF Hand, RunKinds
<1>5. h \in Hand
  BY <1>1, <1>4, Doings DEF Hand, HandAt
<1>6. Fits(h)
  <2>1. hand[a].work \in RunKinds \X EnrichmentRuns
    BY <1>0 DEF AllAsked, Fits, RunKinds
  <2> QED BY <1>1, <2>1 DEF Fits, Doing, AtRest
<1>7. HandsTyped'
  BY <1>5, <1>6, HandKept DEF AllAsked
<1> QED BY <1>2, <1>3, <1>7


\* Research.
LEMMA ResearchClaimedTyped ==
    ASSUME RunInvariant, NEW a \in Handlers, NEW c \in ResearchKeys, ResearchClaimed(a, c)
    PROVE  RunInvariant'
<1> USE InvariantInParts
<1> DEFINE w == <<"research", c>>
           h == [Doing(w, "research") EXCEPT !.active = LiveRuns(c)]
<1>1. MarksTyped' /\ FieldsTyped'
  BY Untouched, SmoothMarks DEF ResearchClaimed
<1>2. JobsTyped'
  <2>1. research' = FinishedJob(c, "in_flight") /\ research[c].state # "none"
    BY DEF ResearchClaimed, FinishedJob, ResearchClaimable
  <2> QED BY <2>1, FinishedJobTyped DEF ResearchState
<1>3. w \in RowKeys
  BY KeysOfRows
<1>4. h \in Hand
  BY <1>3, Doings DEF Hand, HandAt, LiveRuns
<1>5. Fits(h)
  BY <1>3, <1>4 DEF Fits, Doing, AtRest
<1>6. Holds(a, w, h)
  BY DEF ResearchClaimed
<1> QED BY <1>1, <1>2, <1>3, <1>4, <1>5, <1>6, HoldsTyped

LEMMA ResearchSkippedTyped ==
    ASSUME RunInvariant, NEW a \in Handlers, NEW c \in ResearchKeys, ResearchSkipped(a, c)
    PROVE  RunInvariant'
<1> USE InvariantInParts
<1>1. HandsTyped' /\ MarksTyped' /\ FieldsTyped'
  BY Untouched, SmoothMarks DEF ResearchSkipped
<1>2. JobsTyped'
  <2>1. CASE research[c].state \in OpenStates
    BY <2>1, FinishedJobTyped DEF ResearchSkipped, ResearchState, OpenStates
  <2>2. CASE research[c].state \notin OpenStates
    BY <2>2, Untouched DEF ResearchSkipped
  <2> QED BY <2>1, <2>2
<1>3. RowsTyped'
  <2>1. [row EXCEPT ![<<"research", c>>] = "closed"] \in [RowKeys -> Owners]
    BY DEF RowsTyped, Owners
  <2> QED BY <2>1, EnqueuedRows DEF ResearchSkipped, RowsTyped
<1> QED BY <1>1, <1>2, <1>3

LEMMA FinishesTyped ==
    ASSUME JobsTyped, HandsTyped, RowsTyped, NEW a \in Handlers,
           hand[a].work \in {"research"} \X ResearchKeys,
           research[hand[a].work[2]].state # "none",
           NEW s \in ResearchState \ {"none"}, Finishes(a, s)
    PROVE  JobsTyped' /\ HandsTyped' /\ RowsTyped'
<1> DEFINE c == hand[a].work[2]
           h == [Doing(hand[a].work, "complete") EXCEPT !.next = Finalizes(c)]
<1>1. c \in ResearchKeys /\ hand[a].work \in RowKeys
  BY KeysOfRows
<1>2. JobsTyped' /\ RowsTyped'
  BY <1>1, FinishedJobTyped, Untouched DEF Finishes
<1>3. Finalizes(c) \in SUBSET RowKeys
  BY DEF Finalizes, CompletedRuns, RunKinds, RowKeys
<1>4. h \in Hand
  BY <1>1, <1>3, Doings DEF Hand, HandAt
<1>5. Fits(h)
  BY <1>1 DEF Fits, Doing, AtRest, Finalizes
<1>6. HandsTyped'
  BY <1>4, <1>5, HandKept DEF Finishes
<1> QED BY <1>2, <1>6

LEMMA RetriesTyped ==
    ASSUME HandsTyped, RowsTyped, NEW a \in Handlers, Retries(a)
    PROVE  HandsTyped' /\ RowsTyped'
<1>1. HandsTyped' BY RestTyped DEF Retries
<1>2. RowsTyped'
  <2>1. PutBack(a) \in [RowKeys -> Owners] BY PutBackRows
  <2> QED BY <2>1 DEF Retries, RowsTyped
<1> QED BY <1>1, <1>2

LEMMA ResearchedTyped ==
    ASSUME RunInvariant, NEW a \in Handlers, Researched(a)
    PROVE  RunInvariant'
<1> USE InvariantInParts
<1>0. hand[a] \in Hand /\ Fits(hand[a])
  BY DEF HandsTyped, HandsFit
<1>1. hand[a].work \in {"research"} \X ResearchKeys
  BY <1>0 DEF Researched, Fits
<1>2. MarksTyped' /\ FieldsTyped'
  BY Untouched, SmoothMarks DEF Researched
<1>3. CASE research[hand[a].work[2]].state = "none"
  BY <1>2, <1>3, RetriesTyped, Untouched DEF Researched
<1>4. CASE research[hand[a].work[2]].state # "none"
  <2>1. \E s \in {"failed", "done"} : Finishes(a, s)
    BY <1>4 DEF Researched
  <2> QED BY <1>1, <1>2, <1>4, <2>1, FinishesTyped DEF ResearchState
<1> QED BY <1>3, <1>4

LEMMA ResearchFailsTyped ==
    ASSUME RunInvariant, NEW a \in Handlers, ResearchFails(a)
    PROVE  RunInvariant'
<1> USE InvariantInParts
<1>0. hand[a] \in Hand /\ Fits(hand[a])
  BY DEF HandsTyped, HandsFit
<1>1. hand[a].work \in {"research"} \X ResearchKeys /\ hand[a].work[2] \in ResearchKeys
  BY <1>0 DEF ResearchFails, Fits
<1>2. FieldsTyped' /\ MarksTyped'
  <2>1. mishaps' \in 0..MaxMishaps /\ UNCHANGED recent BY MishapCounts DEF ResearchFails
  <2> QED BY <2>1, Untouched DEF ResearchFails, MarksTyped
<1>3. CASE Finishes(a, "failed")
  BY <1>1, <1>2, <1>3, FinishesTyped DEF ResearchState, ResearchFails
<1>4. CASE research' = FinishedJob(hand[a].work[2], "pending") /\ Retries(a)
  <2>1. JobsTyped'
    BY <1>1, <1>4, FinishedJobTyped DEF ResearchState, ResearchFails
  <2> QED BY <1>2, <1>4, <2>1, RetriesTyped
<1> QED BY <1>3, <1>4 DEF ResearchFails

-----------------------------------------------------------------------------
\* run.finalize and the completion of a row.

LEMMA FinalizeTyped ==
    ASSUME RunInvariant, NEW a \in Handlers, NEW r \in EnrichmentRuns, Finalize(a, r)
    PROVE  RunInvariant'
<1> USE InvariantInParts
<1>1. JobsTyped' /\ MarksTyped' /\ FieldsTyped'
  BY Untouched, SmoothMarks DEF Finalize
<1>2. CASE Skips(a, <<"finalize", r>>)
  BY <1>1, <1>2, SkipsTyped
<1>3. CASE Holds(a, <<"finalize", r>>, Doing(<<"finalize", r>>, "finalize"))
  <2>1. <<"finalize", r>> \in RowKeys BY KeysOfRows DEF RunKinds
  <2>2. Doing(<<"finalize", r>>, "finalize") \in Hand
    BY <2>1, Doings DEF HandAt
  <2>3. Fits(Doing(<<"finalize", r>>, "finalize"))
    BY <2>1 DEF Fits, Doing, AtRest
  <2> QED BY <1>1, <1>3, <2>1, <2>2, <2>3, HoldsTyped
<1> QED BY <1>2, <1>3 DEF Finalize

LEMMA FinalizeGivesUpTyped ==
    ASSUME RunInvariant, NEW r \in EnrichmentRuns, FinalizeGivesUp(r)
    PROVE  RunInvariant'
<1> USE InvariantInParts
<1>1. JobsTyped' /\ HandsTyped'
  BY Untouched DEF FinalizeGivesUp
<1>2. MarksTyped'
  <2>1. mishaps' \in 0..MaxMishaps /\ UNCHANGED recent BY MishapCounts DEF FinalizeGivesUp
  <2> QED BY <2>1 DEF FinalizeGivesUp, MarksTyped
<1>3. FieldsTyped'
  BY DEF FinalizeGivesUp, FieldsTyped, RunStatus
<1>4. RowsTyped'
  BY RowKept DEF FinalizeGivesUp, Owners
<1> QED BY <1>1, <1>2, <1>3, <1>4

LEMMA FinalizeWritesTyped ==
    ASSUME RunInvariant, NEW a \in Handlers, FinalizeWrites(a)
    PROVE  RunInvariant'
<1> USE InvariantInParts
<1>0. hand[a] \in Hand /\ Fits(hand[a])
  BY DEF HandsTyped, HandsFit
<1>1. hand[a].work[2] \in EnrichmentRuns
  BY <1>0 DEF FinalizeWrites, Fits
<1>2. JobsTyped' /\ RowsTyped' /\ MarksTyped'
  BY Untouched, SmoothMarks DEF FinalizeWrites
<1>3. FieldsTyped'
  BY <1>1 DEF FinalizeWrites, FieldsTyped, RunStatus
<1>4. HandsTyped'
  <2>1. hand' = [hand EXCEPT ![a] = [@ EXCEPT !.at = "complete", !.todo = hand[a].todo,
                                    !.asked = hand[a].asked]]
    BY <1>0 DEF Hand, FinalizeWrites
  <2>2. /\ hand[a].todo \in SUBSET ResearchKeys /\ hand[a].asked \in SUBSET ResearchKeys
        /\ hand[a].at # "rest"
    BY <1>0 DEF Hand, FinalizeWrites
  <2> QED BY <2>1, <2>2, GoesOnTyped
<1> QED BY <1>2, <1>3, <1>4

LEMMA CompleteTyped ==
    ASSUME RunInvariant, NEW a \in Handlers, Complete(a)
    PROVE  RunInvariant'
<1> USE InvariantInParts
<1> DEFINE w    == hand[a].work
           kids == {k \in hand[a].next : k[1] = "research"}
           shut == [row EXCEPT ![w] = "closed"]
<1>1. JobsTyped' /\ MarksTyped'
  BY Untouched, SmoothMarks DEF Complete
<1>2. HandsTyped'
  BY RestTyped DEF Complete
<1>3. RowsTyped'
  <2>1. CASE row[w] = a
    <3>1. shut \in [RowKeys -> Owners]
      BY DEF RowsTyped, Owners
    <3>2. Enqueued(shut, kids, TRUE) \in [RowKeys -> Owners]
      BY <3>1, EnqueuedRows
    <3>3. row' = Enqueued(Enqueued(shut, kids, TRUE), hand[a].next \ kids, FALSE)
      BY <2>1 DEF Complete
    <3> HIDE DEF shut, kids
    <3> QED BY <3>2, <3>3, EnqueuedRows DEF RowsTyped
  <2>2. CASE row[w] # a
    BY <2>2, Untouched DEF Complete
  <2> QED BY <2>1, <2>2
<1>4. FieldsTyped'
  <2>1. CASE row[w] # a
    BY <2>1, Untouched DEF Complete
  <2>2. CASE row[w] = a
    <3>1. CASE kids = {}
      BY <2>2, <3>1 DEF Complete, FieldsTyped
    <3>2. CASE kids # {}
      <4>1. w[2] \in EnrichmentRuns
        BY <3>2 DEF HandsTyped, HandsFit, Fits
      <4> QED BY <2>2, <4>1 DEF Complete, FieldsTyped
    <3> QED BY <3>1, <3>2
  <2> QED BY <2>1, <2>2
<1> QED BY <1>1, <1>2, <1>3, <1>4


-----------------------------------------------------------------------------
\* The user, the sweep, and what goes wrong.

LEMMA DecideTyped ==
    ASSUME RunInvariant, NEW r \in EnrichmentRuns, Decide(r)
    PROVE  RunInvariant'
<1> USE InvariantInParts
<1>1. JobsTyped' /\ HandsTyped' /\ MarksTyped'
  BY Untouched, SmoothMarks DEF Decide
<1>2. FieldsTyped'
  BY DEF Decide, FieldsTyped, RunStatus
<1>3. RowsTyped'
  BY EnqueuedRows DEF Decide, RowsTyped
<1> QED BY <1>1, <1>2, <1>3

LEMMA CancelRunTyped ==
    ASSUME RunInvariant, NEW r \in EnrichmentRuns, CancelRun(r)
    PROVE  RunInvariant'
<1> USE InvariantInParts
<1>1. HandsTyped' /\ RowsTyped'
  BY Untouched DEF CancelRun
<1>2. MarksTyped'
  <2>1. mishaps' \in 0..MaxMishaps /\ UNCHANGED recent BY MishapCounts DEF CancelRun
  <2> QED BY <2>1 DEF CancelRun, MarksTyped
<1>3. FieldsTyped'
  BY DEF CancelRun, FieldsTyped, RunStatus, UploadStatus
<1>4. JobsTyped'
  <2> DEFINE gone == [state |-> "none", by |-> <<>>, stale |-> FALSE]
  <2>1. gone \in ResearchJob /\ gone.state = "none" /\ gone.by = <<>>
    BY DEF ResearchJob, ResearchState
  <2>2. research' = [c \in ResearchKeys |-> IF c \in Requests(r) THEN gone ELSE research[c]]
    BY DEF CancelRun
  <2> HIDE DEF gone
  <2> QED BY <2>1, <2>2 DEF JobsTyped
<1> QED BY <1>1, <1>2, <1>3, <1>4

LEMMA CancelScopeTyped ==
    ASSUME RunInvariant, NEW r \in EnrichmentRuns, CancelScope(r)
    PROVE  RunInvariant'
<1> USE InvariantInParts
<1>1. JobsTyped' /\ HandsTyped' /\ FieldsTyped'
  BY Untouched DEF CancelScope
<1>2. MarksTyped'
  BY DEF CancelScope, Smooth, MarksTyped
<1>3. RowsTyped'
  BY DEF CancelScope, RowsTyped, Owners
<1> QED BY <1>1, <1>2, <1>3

LEMMA SweptTyped ==
    ASSUME RunInvariant, Swept, JobsTyped', RowsTyped',
           scope' \in [ResearchKeys -> EnrichmentRuns \cup {"none"}]
    PROVE  RunInvariant'
<1> USE InvariantInParts
<1>1. HandsTyped' /\ MarksTyped'
  BY Untouched, SmoothMarks DEF Swept
<1>2. FieldsTyped'
  BY DEF Swept, FieldsTyped
<1> QED BY <1>1, <1>2

LEMMA ReconcileTyped ==
    ASSUME RunInvariant, Reconcile
    PROVE  RunInvariant'
<1> USE InvariantInParts
<1>1. scope \in [ResearchKeys -> EnrichmentRuns \cup {"none"}]
  BY DEF FieldsTyped
<1>2. ASSUME NEW c \in ResearchKeys, ResetInFlight(c) PROVE RunInvariant'
  <2>1. JobsTyped'
    BY <1>2, FinishedJobTyped DEF ResetInFlight, ResearchState
  <2> QED BY <1>1, <1>2, <2>1, SweptTyped, Untouched DEF ResetInFlight
<1>3. ASSUME NEW c \in ResearchKeys, DispatchPending(c) PROVE RunInvariant'
  <2>1. JobsTyped'
    BY <1>3, Untouched DEF DispatchPending
  <2>2. RowsTyped'
    BY <1>3, EnqueuedRows DEF DispatchPending, RowsTyped
  <2>3. Head(research[c].by) \in EnrichmentRuns
    <3>1. research[c].by \in Seq(EnrichmentRuns) /\ research[c].by # <<>>
      BY <1>3 DEF DispatchPending, JobsTyped, ResearchJob
    <3> QED BY <3>1
  <2>4. scope' \in [ResearchKeys -> EnrichmentRuns \cup {"none"}]
    BY <1>1, <1>3, <2>3 DEF DispatchPending
  <2> QED BY <1>3, <2>1, <2>2, <2>4, SweptTyped DEF DispatchPending
<1>4. ASSUME NEW r \in EnrichmentRuns, FinalizeTerminal(r) \/ ProcessInterrupted(r)
      PROVE  RunInvariant'
  <2>1. JobsTyped'
    BY <1>4, Untouched DEF FinalizeTerminal, ProcessInterrupted
  <2>2. RowsTyped'
    <3>1. \E w \in RowKeys : row' = Enqueued(row, {w}, TRUE)
      BY <1>4, KeysOfRows DEF FinalizeTerminal, ProcessInterrupted, RunKinds
    <3>2. row \in [RowKeys -> Owners]
      BY DEF RowsTyped
    <3>3. \A w \in RowKeys : Enqueued(row, {w}, TRUE) \in [RowKeys -> Owners]
      BY <3>2, EnqueuedRows
    <3> QED BY <3>1, <3>3 DEF RowsTyped
  <2> QED BY <1>1, <1>4, <2>1, <2>2, SweptTyped DEF FinalizeTerminal, ProcessInterrupted
<1> QED BY <1>2, <1>3, <1>4 DEF Reconcile

LEMMA TimeTyped ==
    ASSUME RunInvariant,
           (\E c \in ResearchKeys : Ages(c)) \/ (\E w \in RowKeys : Reclaims(w))
    PROVE  RunInvariant'
<1> USE InvariantInParts
<1>1. scope \in [ResearchKeys -> EnrichmentRuns \cup {"none"}]
  BY DEF FieldsTyped
<1>2. ASSUME NEW c \in ResearchKeys, Ages(c) PROVE RunInvariant'
  <2>1. research[c] \in ResearchJob
    BY DEF JobsTyped
  <2>2. JobsTyped'
    BY <1>2, <2>1 DEF Ages, JobsTyped, ResearchJob
  <2> QED BY <1>1, <1>2, <2>2, SweptTyped, Untouched DEF Ages
<1>3. ASSUME NEW w \in RowKeys, Reclaims(w) PROVE RunInvariant'
  <2>1. RowsTyped' /\ JobsTyped'
    BY <1>3, RowKept, Untouched DEF Reclaims, Owners
  <2> QED BY <1>1, <1>3, <2>1, SweptTyped DEF Reclaims
<1> QED BY <1>2, <1>3

LEMMA CrashHandlerTyped ==
    ASSUME RunInvariant, NEW a \in Handlers, CrashHandler(a)
    PROVE  RunInvariant'
<1> USE InvariantInParts
<1>0. hand[a].work \in RowKeys /\ (hand[a].work[1] = "prepare" => hand[a].work[2] \in EnrichmentRuns)
  BY DEF HandsTyped, HandsFit, Fits, CrashHandler, RowKeys
<1>1. JobsTyped' /\ FieldsTyped'
  BY Untouched DEF CrashHandler
<1>2. HandsTyped'
  BY RestTyped DEF CrashHandler
<1>3. RowsTyped'
  BY RowKept, Untouched DEF CrashHandler, Owners
<1>4. MarksTyped'
  <2>1. mishaps' \in 0..MaxMishaps /\ UNCHANGED recent BY MishapCounts DEF CrashHandler
  <2> QED BY <1>0, <2>1 DEF CrashHandler, MarksTyped, OfRun
<1> QED BY <1>1, <1>2, <1>3, <1>4

LEMMA BusyRow ==
    ASSUME HandsTyped, NEW a \in Handlers, hand[a] # AtRest
    PROVE  hand[a].work \in RowKeys /\ OfRun(hand[a].work) \subseteq EnrichmentRuns
BY DEF HandsTyped, HandsFit, Fits, RowKeys, OfRun, RunKinds

LEMMA LosesRowTyped ==
    ASSUME RunInvariant, NEW a \in Handlers, LosesRow(a)
    PROVE  RunInvariant'
<1> USE InvariantInParts
<1>1. JobsTyped' /\ FieldsTyped' /\ HandsTyped'
  BY Untouched DEF LosesRow
<1>2. RowsTyped'
  BY PutBackRows DEF LosesRow, RowsTyped
<1>3. MarksTyped'
  <2>1. mishaps' \in 0..MaxMishaps /\ UNCHANGED recent BY MishapCounts DEF LosesRow
  <2> QED BY <2>1, BusyRow DEF LosesRow, MarksTyped
<1> QED BY <1>1, <1>2, <1>3

LEMMA ThrowsTyped ==
    ASSUME RunInvariant, NEW a \in Handlers, Throws(a)
    PROVE  RunInvariant'
<1> USE InvariantInParts
<1>1. JobsTyped' /\ HandsTyped'
  BY Untouched, RestTyped DEF Throws
<1>2. MarksTyped'
  <2>1. mishaps' \in 0..MaxMishaps /\ UNCHANGED recent BY MishapCounts DEF Throws
  <2> QED BY <2>1, BusyRow DEF Throws, MarksTyped
<1>3. CASE row' = PutBack(a) /\ UNCHANGED status
  <2>1. RowsTyped' BY <1>3, PutBackRows DEF RowsTyped
  <2>2. FieldsTyped' BY <1>3, Untouched DEF Throws
  <2> QED BY <1>1, <1>2, <2>1, <2>2
<1>4. CASE row' # PutBack(a) \/ ~UNCHANGED status
  <2> DEFINE w == hand[a].work
  <2>1. /\ row' = IF row[w] = a THEN [row EXCEPT ![w] = "closed"] ELSE row
        /\ status' = IF w[1] \in MarkedKinds /\ status[w[2]] # "cancelled"
                     THEN [status EXCEPT ![w[2]] = "failed"] ELSE status
    BY <1>4 DEF Throws
  <2>2. RowsTyped'
    BY <2>1, RowKept, Untouched DEF Owners
  <2>3. FieldsTyped'
    BY <2>1 DEF Throws, FieldsTyped, RunStatus
  <2> QED BY <1>1, <1>2, <2>2, <2>3
<1> QED BY <1>3, <1>4

-----------------------------------------------------------------------------
LEMMA RunInvariantAtFirst == RunInit => RunInvariant
<1> SUFFICES ASSUME RunInit PROVE RunInvariant OBVIOUS
<1>1. JobsTyped
  BY DEF RunInit, JobsTyped, ResearchJob, ResearchState
<1>2. HandsTyped
  BY RestFits DEF RunInit, HandsTyped, HandsFit
<1>3. RowsTyped
  BY DEF RunInit, RowsTyped, Owners
<1>4. MarksTyped /\ FieldsTyped
  BY RunAssumption DEF RunInit, MarksTyped, FieldsTyped, RunStatus, UploadStatus
<1> QED BY <1>1, <1>2, <1>3, <1>4, InvariantInParts

LEMMA RunInvariantKept == RunInvariant /\ [RunNext]_runVars => RunInvariant'
<1> SUFFICES ASSUME RunInvariant, [RunNext]_runVars PROVE RunInvariant' OBVIOUS
<1>1. ASSUME NEW a \in Handlers, NEW w \in RowKeys, Begins(a, w) PROVE RunInvariant'
  BY <1>1, ProcessTyped, ExtractTyped, PrepareTyped, EnrichTyped, FinalizeTyped,
     ResearchClaimedTyped, ResearchSkippedTyped DEF Begins
<1>2. ASSUME NEW a \in Handlers, Goes(a) PROVE RunInvariant'
  BY <1>2, ExtractedTyped, ScannedTyped, AskForTyped, AllAskedTyped, ResearchedTyped,
     FinalizeWritesTyped, CompleteTyped DEF Goes
<1>3. ASSUME NEW r \in EnrichmentRuns,
             \/ PrepareGivesUp(r) \/ FinalizeGivesUp(r)
             \/ Decide(r) \/ CancelRun(r) \/ CancelScope(r)
      PROVE  RunInvariant'
  BY <1>3, PrepareGivesUpTyped, FinalizeGivesUpTyped, DecideTyped, CancelRunTyped,
     CancelScopeTyped
<1>4. CASE Reconcile
  BY <1>4, ReconcileTyped
<1>5. CASE (\E c \in ResearchKeys : Ages(c)) \/ (\E w \in RowKeys : Reclaims(w))
  BY <1>5, TimeTyped
<1>6. ASSUME NEW a \in Handlers,
             ResearchFails(a) \/ CrashHandler(a) \/ LosesRow(a) \/ Throws(a)
      PROVE  RunInvariant'
  BY <1>6, ResearchFailsTyped, CrashHandlerTyped, LosesRowTyped, ThrowsTyped
<1>7. CASE UNCHANGED runVars
  BY <1>7, InvariantInParts, Untouched DEF runVars, MarksTyped
<1>8. ASSUME NEW r \in EnrichmentRuns, WeekPasses(r) PROVE RunInvariant'
  BY <1>8, InvariantInParts, Untouched DEF WeekPasses, MarksTyped
<1> QED BY <1>1, <1>2, <1>3, <1>4, <1>5, <1>6, <1>7, <1>8 DEF RunNext

LEMMA RunInvariantHolds == RunSpec => []RunInvariant
BY RunInvariantAtFirst, RunInvariantKept, PTL DEF RunSpec

\* Every variable of the enrichment pipeline keeps its type, and every handler
\* the row it works on, through crashes, lost rows and cancellations.
THEOREM RunTypesAreKept == RunSpec => []RunTypeOK
<1>1. RunInvariant => RunTypeOK BY DEF RunInvariant
<1> QED BY <1>1, RunInvariantHolds, PTL

\* A cancelled run comes back only by the scan of run.prepare, whose write of
\* the status (completePriorEnrichmentScan) is the one that does not look.
THEOREM CancelledRunsStayButForScans == RunSpec => OnlyAScanRevivesACancelledRun
<1> DEFINE Revived(r) == status[r] = "cancelled" /\ status'[r] # "cancelled"
           Scans(r) == \E a \in Handlers : hand[a].at = "scan" /\ hand[a].work[2] = r
<1>1. ASSUME RunInvariant, [RunNext]_runVars, NEW r \in EnrichmentRuns, Revived(r)
      PROVE  Scans(r)
  <2>0. status \in [EnrichmentRuns -> RunStatus]
    BY <1>1 DEF RunInvariant, RunTypeOK
  <2>1. ASSUME NEW a \in Handlers, NEW w \in RowKeys, Begins(a, w) PROVE FALSE
    BY <1>1, <2>0, <2>1 DEF Begins, Process, Over, Extract, Prepare, Enrich, Finalize,
       ResearchClaimed, ResearchSkipped
  <2>2. ASSUME NEW a \in Handlers, Goes(a) PROVE Scans(r)
    <3>1. CASE Scanned(a)
      BY <1>1, <2>0, <3>1 DEF Scanned
    <3>2. CASE AllAsked(a)
      BY <1>1, <2>0, <3>2 DEF AllAsked
    <3>3. CASE FinalizeWrites(a)
      BY <1>1, <2>0, <3>3 DEF FinalizeWrites
    <3>4. CASE UNCHANGED status
      BY <1>1, <3>4
    <3> QED BY <2>2, <3>1, <3>2, <3>3, <3>4
            DEF Goes, Extracted, AskFor, Researched, Complete
  <2>3. ASSUME NEW q \in EnrichmentRuns, PrepareGivesUp(q) \/ FinalizeGivesUp(q)
        PROVE  FALSE
    BY <1>1, <2>0, <2>3 DEF PrepareGivesUp, FinalizeGivesUp, Over
  <2>4. ASSUME NEW q \in EnrichmentRuns, Decide(q) \/ CancelRun(q) \/ CancelScope(q)
        PROVE  FALSE
    BY <1>1, <2>0, <2>4 DEF Decide, CancelRun, CancelScope
  <2>5. ASSUME NEW a \in Handlers,
               ResearchFails(a) \/ CrashHandler(a) \/ LosesRow(a) \/ Throws(a)
        PROVE  FALSE
    BY <1>1, <2>0, <2>5 DEF ResearchFails, CrashHandler, LosesRow, Throws
  <2>6. CASE \/ Reconcile \/ UNCHANGED runVars \/ (\E q \in EnrichmentRuns : WeekPasses(q))
             \/ (\E c \in ResearchKeys : Ages(c)) \/ (\E w \in RowKeys : Reclaims(w))
    BY <1>1, <2>6 DEF Reconcile, ResetInFlight, DispatchPending, FinalizeTerminal,
       ProcessInterrupted, Swept, WeekPasses, Ages, Reclaims, runVars
  <2> QED BY <1>1, <2>1, <2>2, <2>3, <2>4, <2>5, <2>6 DEF RunNext
<1>2. RunInvariant /\ [RunNext]_runVars =>
        [\A r \in EnrichmentRuns : Revived(r) => Scans(r)]_runVars
  BY <1>1
<1> QED BY <1>2, RunInvariantHolds, PTL DEF RunSpec, OnlyAScanRevivesACancelledRun

-----------------------------------------------------------------------------
(***************************************************************************)
(* That a run is complete only after its companies were asked for, and     *)
(* stays complete.                                                         *)
(*                                                                         *)
(* A run that met no trouble is scanned once, asks from one row at a time, *)
(* and that row is open for as long as the run could be finalized without  *)
(* all it asks for.                                                        *)
(***************************************************************************)
PrepareRow(r)  == <<"prepare", r>>
EnrichRow(r)   == <<"enrich", r>>
FinalizeRow(r) == <<"finalize", r>>

\* Something may lead, or has led, to a row of run.finalize.
Finalizable(r) ==
    \/ row[FinalizeRow(r)] # "none"
    \/ Requests(r) # {}
    \/ \E a \in Handlers : FinalizeRow(r) \in hand[a].next

\* The scan of run.prepare is still to come.
Unscanned(r) ==
    /\ row[PrepareRow(r)] # "closed"
    /\ \A a \in Handlers : hand[a].work = PrepareRow(r) => hand[a].at = "scan"

Fresh(r) ==
    /\ status[r] \in {"queued", "extracting"}
    /\ r \notin prepared /\ row[EnrichRow(r)] = "none" /\ ~Finalizable(r)

Asking(r) == \E a \in Handlers : hand[a].at = "enqueue" /\ hand[a].work = PrepareRow(r)

UnscannedIsFresh(r) == Unscanned(r) => Fresh(r)

ParkedHasNothing(r) ==
    status[r] = "awaiting_prior_enrichment" =>
        /\ r \notin prepared /\ row[EnrichRow(r)] = "none" /\ ~Finalizable(r)
        /\ ~Asking(r)

\* "Campaign #9 scar".
EnrichingHasARow(r) ==
    status[r] = "enriching" /\ r \notin prepared => OpenRow(EnrichRow(r))

AskersAreOpen(r) ==
    r \notin prepared /\ Finalizable(r) =>
        Asking(r) \/ (OpenRow(EnrichRow(r)) /\ status[r] = "enriching")

NothingOpen(r) == r \in prepared /\ ~OpenRow(PrepareRow(r)) /\ ~OpenRow(EnrichRow(r))

\* What a handler of run r is at.
HandKnows(a, r) ==
    /\ hand[a].work \in RunKinds \X {r} => row[hand[a].work] = a
    /\ hand[a].work = EnrichRow(r) =>
         /\ hand[a].at = "enqueue"  => status[r] = "enriching"
         /\ hand[a].at = "complete" => r \in prepared
    /\ hand[a].work = FinalizeRow(r) /\ hand[a].at = "finalize" => NothingOpen(r)

CompleteHasNothingOpen(r) == status[r] = "complete" => NothingOpen(r)

Orderly(r) ==
    /\ UnscannedIsFresh(r) /\ ParkedHasNothing(r)
    /\ EnrichingHasARow(r) /\ AskersAreOpen(r)
    /\ \A a \in Handlers : HandKnows(a, r)
    /\ CompleteHasNothingOpen(r)

\* Handlers enqueue nothing but research and run.finalize.
NextIsKnown == \A a \in Handlers : \A k \in hand[a].next : k[1] \in {"finalize", "research"}

Preparation ==
    /\ RunInvariant /\ NextIsKnown /\ cancelling \subseteq troubled
    /\ \A r \in EnrichmentRuns \ troubled : Orderly(r)

-----------------------------------------------------------------------------
\* What a step leaves of a run.

LEMMA KeysDiffer ==
    ASSUME NEW r, NEW q
    PROVE  /\ PrepareRow(r) = PrepareRow(q) <=> r = q
           /\ EnrichRow(r) = EnrichRow(q) <=> r = q
           /\ FinalizeRow(r) = FinalizeRow(q) <=> r = q
           /\ PrepareRow(r) # EnrichRow(q) /\ PrepareRow(r) # FinalizeRow(q)
           /\ EnrichRow(r) # FinalizeRow(q)
BY DEF PrepareRow, EnrichRow, FinalizeRow

LEMMA RowsOfRun ==
    ASSUME NEW r
    PROVE  /\ PrepareRow(r) \in RunKinds \X {r} /\ EnrichRow(r) \in RunKinds \X {r}
           /\ FinalizeRow(r) \in RunKinds \X {r}
BY DEF PrepareRow, EnrichRow, FinalizeRow, RunKinds

\* A step that leaves alone what the invariant says of run r.
Spares(r) ==
    /\ status'[r] = status[r]
    /\ r \in prepared' <=> r \in prepared
    /\ row'[PrepareRow(r)] = row[PrepareRow(r)]
    /\ row'[EnrichRow(r)] = row[EnrichRow(r)]
    /\ Finalizable(r)' => Finalizable(r)
    /\ \A a \in Handlers :
         hand[a].work \in {PrepareRow(r), EnrichRow(r), FinalizeRow(r)}
           \/ hand'[a].work \in {PrepareRow(r), EnrichRow(r), FinalizeRow(r)} =>
         hand'[a].work = hand[a].work /\ hand'[a].at = hand[a].at
    /\ \A a \in Handlers : hand'[a].work \in RunKinds \X {r} => row'[hand'[a].work] = a

LEMMA SparedIsOrderly ==
    ASSUME NEW r \in EnrichmentRuns, Orderly(r), Spares(r)
    PROVE  Orderly(r)'
<1>1. Asking(r)' <=> Asking(r)
  BY DEF Spares, Asking
<1>2. Unscanned(r)' <=> Unscanned(r)
  BY DEF Spares, Unscanned
<1>3. UnscannedIsFresh(r)' /\ ParkedHasNothing(r)'
  BY <1>1, <1>2 DEF Spares, Orderly, UnscannedIsFresh, ParkedHasNothing, Fresh
<1>4. EnrichingHasARow(r)' /\ AskersAreOpen(r)' /\ CompleteHasNothingOpen(r)'
  BY <1>1 DEF Spares, Orderly, EnrichingHasARow, AskersAreOpen, CompleteHasNothingOpen,
     NothingOpen, OpenRow
<1>5. ASSUME NEW a \in Handlers PROVE HandKnows(a, r)'
  BY DEF Spares, Orderly, HandKnows, NothingOpen, OpenRow
<1> QED BY <1>3, <1>4, <1>5 DEF Orderly

Guarded(r) == {PrepareRow(r), EnrichRow(r), FinalizeRow(r)}

\* Steps of one handler, on rows the invariant does not speak of for run r.
LEMMA OthersSpare ==
    ASSUME NEW r \in EnrichmentRuns, Orderly(r), NEW a \in Handlers,
           \A b \in Handlers \ {a} : hand'[b] = hand[b],
           hand[a].work \notin Guarded(r), hand'[a].work \notin Guarded(r),
           hand'[a].work \in RunKinds \X {r} => row'[hand'[a].work] = a,
           status'[r] = status[r], r \in prepared' <=> r \in prepared,
           \A k \in RunKinds : \/ row'[<<k, r>>] = row[<<k, r>>]
                               \/ k = "extract" /\ row[<<k, r>>] \notin Handlers \ {a}
                               \/ /\ k = "finalize" /\ Finalizable(r)
                                  /\ row[<<k, r>>] \notin Handlers,
           Requests(r)' # {} => Finalizable(r),
           FinalizeRow(r) \in hand'[a].next => Finalizable(r)
    PROVE  Orderly(r)'
<1>1. Finalizable(r)' => Finalizable(r)
  BY DEF Finalizable, FinalizeRow, RunKinds
<1>2. ASSUME NEW b \in Handlers, hand'[b].work \in RunKinds \X {r}
      PROVE  row'[hand'[b].work] = b
  <2>1. CASE b # a
    <3>1. hand'[b] = hand[b] /\ row[hand[b].work] = b
      BY <1>2, <2>1 DEF Orderly, HandKnows
    <3>2. PICK k \in RunKinds : hand[b].work = <<k, r>>
      BY <1>2, <3>1
    <3> QED BY <2>1, <3>1, <3>2
  <2> QED BY <1>2, <2>1
<1>3. ASSUME NEW b \in Handlers, hand[b].work \in Guarded(r) \/ hand'[b].work \in Guarded(r)
      PROVE  hand'[b].work = hand[b].work /\ hand'[b].at = hand[b].at
  BY <1>3
<1>4. row'[PrepareRow(r)] = row[PrepareRow(r)] /\ row'[EnrichRow(r)] = row[EnrichRow(r)]
  BY DEF PrepareRow, EnrichRow, RunKinds
<1>5. Spares(r)
  BY <1>1, <1>2, <1>3, <1>4 DEF Spares, Guarded
<1> QED BY <1>5, SparedIsOrderly

\* The row is as unused, as open or as closed as before.
SameUse(w) ==
    /\ row'[w] = "none" <=> row[w] = "none"
    /\ row'[w] = "closed" <=> row[w] = "closed"

LEMMA KeptIsOrderly ==
    ASSUME NEW r \in EnrichmentRuns, Orderly(r), status'[r] = status[r],
           r \in prepared' <=> r \in prepared,
           SameUse(PrepareRow(r)), SameUse(EnrichRow(r)),
           Finalizable(r)' => Finalizable(r),
           Unscanned(r)' => Unscanned(r), Asking(r)' <=> Asking(r),
           \A a \in Handlers : HandKnows(a, r)'
    PROVE  Orderly(r)'
<1>1. UnscannedIsFresh(r)' /\ ParkedHasNothing(r)'
  BY DEF Orderly, UnscannedIsFresh, ParkedHasNothing, Fresh, SameUse
<1>2. EnrichingHasARow(r)' /\ AskersAreOpen(r)' /\ CompleteHasNothingOpen(r)'
  BY DEF Orderly, EnrichingHasARow, AskersAreOpen, CompleteHasNothingOpen, NothingOpen,
     OpenRow, SameUse
<1> QED BY <1>1, <1>2 DEF Orderly

\* Steps that write rows nobody holds, and leave the handlers alone.
LEMMA RowStepIsOrderly ==
    ASSUME NEW r \in EnrichmentRuns, Orderly(r), UNCHANGED hand,
           status'[r] = status[r], r \in prepared' <=> r \in prepared,
           Requests(r)' # {} => Finalizable(r),
           \A k \in RunKinds :
              \/ row'[<<k, r>>] = row[<<k, r>>]
              \/ /\ row[<<k, r>>] \notin Handlers
                 /\ \/ k \in {"process", "extract"} \/ SameUse(<<k, r>>)
                    \/ k = "finalize" /\ Finalizable(r)
    PROVE  Orderly(r)'
<1>1. SameUse(PrepareRow(r)) /\ SameUse(EnrichRow(r))
  BY DEF SameUse, PrepareRow, EnrichRow, RunKinds
<1>2. Finalizable(r)' => Finalizable(r)
  BY DEF Finalizable, FinalizeRow, RunKinds, SameUse
<1>3. Unscanned(r)' => Unscanned(r)
  BY <1>1 DEF Unscanned, SameUse
<1>4. Asking(r)' <=> Asking(r)
  BY DEF Asking
<1>5. ASSUME NEW a \in Handlers PROVE HandKnows(a, r)'
  <2>1. hand[a].work \in RunKinds \X {r} => row'[hand[a].work] = row[hand[a].work]
    BY DEF Orderly, HandKnows
  <2>2. NothingOpen(r) => NothingOpen(r)'
    BY <1>1 DEF NothingOpen, OpenRow, SameUse
  <2> QED BY <2>1, <2>2 DEF Orderly, HandKnows
<1> QED BY <1>1, <1>2, <1>3, <1>4, <1>5, KeptIsOrderly

\* A handler stops, and leaves its row to others.
LEMMA StopsIsOrderly ==
    ASSUME NEW r \in EnrichmentRuns, Orderly(r), NEW a \in Handlers,
           \A b \in Handlers \ {a} : hand'[b] = hand[b], hand'[a] = AtRest,
           hand[a].work # PrepareRow(r),
           status'[r] = status[r], r \in prepared' <=> r \in prepared,
           Requests(r)' # {} => Finalizable(r),
           \A k \in RunKinds :
              \/ row'[<<k, r>>] = row[<<k, r>>]
              \/ /\ row[<<k, r>>] \notin Handlers \ {a}
                 /\ \/ k \in {"process", "extract"} \/ SameUse(<<k, r>>)
                    \/ k = "finalize" /\ Finalizable(r)
    PROVE  Orderly(r)'
<1>0. hand'[a].at = "rest" /\ hand'[a].work = <<>> /\ hand'[a].next = {}
  BY DEF AtRest
<1>00. <<>> \notin RunKinds \X {r} /\ <<>> \notin Guarded(r)
  BY DEF Guarded, PrepareRow, EnrichRow, FinalizeRow
<1>1. SameUse(PrepareRow(r)) /\ SameUse(EnrichRow(r))
  BY DEF SameUse, PrepareRow, EnrichRow, RunKinds
<1>2. Finalizable(r)' => Finalizable(r)
  <2>1. row'[FinalizeRow(r)] # "none" => Finalizable(r)
    BY DEF Finalizable, FinalizeRow, RunKinds, SameUse
  <2> QED BY <1>0, <2>1 DEF Finalizable
<1>3. Unscanned(r)' => Unscanned(r)
  BY <1>1 DEF Unscanned, SameUse
<1>4. Asking(r)' <=> Asking(r)
  BY <1>0, <1>00 DEF Asking, Guarded
<1>5. ASSUME NEW b \in Handlers PROVE HandKnows(b, r)'
  <2>1. CASE b = a
    BY <1>0, <1>00, <2>1 DEF HandKnows, Guarded
  <2>2. CASE b # a
    <3>1. hand'[b] = hand[b]
      BY <2>2
    <3>2. hand[b].work \in RunKinds \X {r} => row'[hand[b].work] = b
      BY <2>2 DEF Orderly, HandKnows
    <3>3. NothingOpen(r) => NothingOpen(r)'
      BY <1>1 DEF NothingOpen, OpenRow, SameUse
    <3> QED BY <3>1, <3>2, <3>3 DEF Orderly, HandKnows
  <2> QED BY <2>1, <2>2
<1> QED BY <1>1, <1>2, <1>3, <1>4, <1>5, KeptIsOrderly

LEMMA GuardedRows ==
    ASSUME NEW r, NEW k, NEW q, <<k, q>> \in Guarded(r)
    PROVE  q = r /\ k \in {"prepare", "enrich", "finalize"}
BY DEF Guarded, PrepareRow, EnrichRow, FinalizeRow

-----------------------------------------------------------------------------
\* One lemma for every action.

LEMMA Types ==
    ASSUME RunInvariant
    PROVE  /\ status \in [EnrichmentRuns -> RunStatus]
           /\ row \in [RowKeys -> Owners]
           /\ hand \in [Handlers -> Hand] /\ HandsFit
           /\ research \in [ResearchKeys -> ResearchJob]
BY DEF RunInvariant, RunTypeOK, Owners

LEMMA RequestsKept ==
    ASSUME UNCHANGED research, NEW r PROVE Requests(r)' = Requests(r)
BY DEF Requests

LEMMA RequestsShow == ASSUME NEW r, Requests(r) # {} PROVE Finalizable(r)
BY DEF Finalizable

\* No handler is at a row that is up for others.
LEMMA FreeRowHasNoHand ==
    ASSUME NEW r, Orderly(r), NEW w \in RunKinds \X {r}, row[w] \notin Handlers,
           NEW a \in Handlers
    PROVE  hand[a].work # w
BY DEF Orderly, HandKnows

LEMMA ProcessOrderly ==
    ASSUME Preparation, NEW a \in Handlers, NEW q \in EnrichmentRuns, Process(a, q),
           NEW r \in EnrichmentRuns \ troubled'
    PROVE  Orderly(r)'
<1>0. RunInvariant /\ Orderly(r) /\ UNCHANGED <<troubled, prepared, research>>
  BY DEF Preparation, Process, Smooth
<1>1. UNCHANGED hand /\ hand[a].work = <<>>
  <2>1. UNCHANGED hand /\ hand[a] = AtRest BY DEF Process, Skips, Picks
  <2> QED BY <2>1 DEF AtRest
<1>2. row[<<"process", q>>] = "pending"
  BY DEF Process, Skips, Picks
<1>3. CASE r # q
  <2>1. \A k \in RunKinds : row'[<<k, r>>] = row[<<k, r>>]
    BY <1>0, <1>3, Types, KeysOfRows DEF Process, Skips, Enqueued
  <2>2. status'[r] = status[r]
    BY <1>0, <1>3, Types DEF Process
  <2>3. <<>> \notin Guarded(r) /\ <<>> \notin RunKinds \X {r}
    BY DEF Guarded, PrepareRow, EnrichRow, FinalizeRow
  <2> QED BY <1>0, <1>1, <2>1, <2>2, <2>3, OthersSpare, RequestsKept, RequestsShow
          DEF Finalizable
<1>4. CASE r = q
  <2>1. /\ row'[EnrichRow(r)] = row[EnrichRow(r)] /\ row'[FinalizeRow(r)] = row[FinalizeRow(r)]
        /\ \/ row'[PrepareRow(r)] = row[PrepareRow(r)]
           \/ ~Over(r) /\ row[PrepareRow(r)] = "none" /\ row'[PrepareRow(r)] = "pending"
    <3> DEFINE shut == [row EXCEPT ![<<"process", q>>] = "closed"]
    <3>1. /\ shut[PrepareRow(r)] = row[PrepareRow(r)] /\ shut[EnrichRow(r)] = row[EnrichRow(r)]
          /\ shut[FinalizeRow(r)] = row[FinalizeRow(r)]
      BY <1>0, Types DEF PrepareRow, EnrichRow, FinalizeRow
    <3>2. {PrepareRow(r), EnrichRow(r), FinalizeRow(r)} \subseteq RowKeys
      BY KeysOfRows DEF PrepareRow, EnrichRow, FinalizeRow, RunKinds
    <3>0. (row' = shut) \/ (~Over(q) /\ row' = Enqueued(shut, {<<"extract", q>>, <<"prepare", q>>}, FALSE))
      BY DEF Process, Skips
    <3> HIDE DEF shut
    <3>3. CASE row' = shut
      BY <3>1, <3>3
    <3>4. CASE ~Over(q) /\ row' = Enqueued(shut, {<<"extract", q>>, <<"prepare", q>>}, FALSE)
      <4>1. /\ PrepareRow(r) \notin {<<"extract", q>>} /\ EnrichRow(r) \notin {<<"extract", q>>, <<"prepare", q>>}
            /\ FinalizeRow(r) \notin {<<"extract", q>>, <<"prepare", q>>}
        BY DEF PrepareRow, EnrichRow, FinalizeRow
      <4> QED BY <1>4, <3>1, <3>2, <3>4, <4>1 DEF Enqueued
    <3> QED BY <3>0, <3>3, <3>4
  <2>2. \/ status'[r] = status[r]
        \/ status[r] = "queued" /\ status'[r] = "extracting"
    BY <1>0, <1>4, Types DEF Process
  <2>3. Finalizable(r)' <=> Finalizable(r)
    BY <1>0, <1>1, <2>1, RequestsKept DEF Finalizable
  <2>4. ASSUME NEW b \in Handlers, hand'[b].work \in RunKinds \X {r}
        PROVE  row'[hand'[b].work] = b
    <3>1. row[hand[b].work] = b
      BY <1>0, <1>1, <2>4 DEF Orderly, HandKnows
    <3>2. b \notin {"none", "pending", "closed"}
      BY RunAssumption
    <3>3. PICK k \in RunKinds : hand[b].work = <<k, r>>
      BY <1>1, <2>4
    <3> QED BY <1>0, <1>1, <1>2, <1>4, <3>1, <3>2, <3>3, Types, KeysOfRows
            DEF Process, Skips, Enqueued
  <2>5. row[PrepareRow(r)] = "none" => Fresh(r)
    <3>1. SUFFICES ASSUME row[PrepareRow(r)] = "none" PROVE Unscanned(r)
      BY <1>0 DEF Orderly, UnscannedIsFresh
    <3>2. "none" \notin Handlers
      BY RunAssumption
    <3> QED BY <1>0, <3>1, <3>2, RowsOfRun, FreeRowHasNoHand DEF Unscanned
  <2>6. Asking(r)' <=> Asking(r)
    BY <1>1 DEF Asking
  <2>7. UnscannedIsFresh(r)'
    <3>1. Unscanned(r)' => Unscanned(r)
      BY <1>1, <2>1 DEF Unscanned
    <3> QED BY <1>0, <2>1, <2>2, <2>3, <3>1 DEF Orderly, UnscannedIsFresh, Fresh
  <2>8. ParkedHasNothing(r)' /\ EnrichingHasARow(r)' /\ AskersAreOpen(r)'
    BY <1>0, <2>1, <2>2, <2>3, <2>6
       DEF Orderly, ParkedHasNothing, EnrichingHasARow, AskersAreOpen, OpenRow
  <2>9. NothingOpen(r) => NothingOpen(r)'
    BY <1>0, <2>1, <2>5 DEF NothingOpen, OpenRow, Fresh
  <2>10. ASSUME NEW b \in Handlers PROVE HandKnows(b, r)'
    BY <1>0, <1>1, <2>2, <2>4, <2>9 DEF Orderly, HandKnows
  <2>11. CompleteHasNothingOpen(r)'
    BY <1>0, <2>2, <2>9 DEF Orderly, CompleteHasNothingOpen
  <2> QED BY <2>7, <2>8, <2>10, <2>11 DEF Orderly
<1> QED BY <1>3, <1>4


LEMMA ExtractOrderly ==
    ASSUME Preparation, NEW a \in Handlers, NEW q \in EnrichmentRuns, Extract(a, q),
           NEW r \in EnrichmentRuns \ troubled'
    PROVE  Orderly(r)'
<1> DEFINE w == <<"extract", q>>
<1>0. RunInvariant /\ Orderly(r) /\ UNCHANGED <<status, troubled, prepared, research>>
  BY DEF Preparation, Extract, Smooth
<1>1. hand[a] = AtRest /\ row[w] = "pending"
  BY DEF Extract, Skips, Picks
<1>2. \A b \in Handlers \ {a} : hand'[b] = hand[b]
  BY <1>0, Types DEF Extract, Skips, Holds
<1>3. \/ hand'[a] = AtRest /\ row' = [row EXCEPT ![w] = "closed"]
      \/ hand'[a] = Doing(w, "extract") /\ row' = [row EXCEPT ![w] = a]
  BY <1>0, <1>1, Types DEF Extract, Skips, Holds
<1>4. /\ hand[a].work = <<>> /\ hand'[a].work \in {<<>>, w} /\ hand'[a].next = {}
      /\ hand'[a].work = w => row' = [row EXCEPT ![w] = a]
  <2>1. /\ AtRest.work = <<>> /\ AtRest.next = {}
        /\ Doing(w, "extract").work = w /\ Doing(w, "extract").next = {} /\ w # <<>>
    BY DEF AtRest, Doing
  <2> HIDE DEF w
  <2> QED BY <1>1, <1>3, <2>1
<1>5. <<>> \notin Guarded(r) /\ <<>> \notin RunKinds \X {r} /\ w \notin Guarded(r)
  BY GuardedRows DEF Guarded, PrepareRow, EnrichRow, FinalizeRow
<1>6. w \in RowKeys /\ "pending" \notin Handlers
      /\ \A k \in RunKinds : <<k, r>> # w => row'[<<k, r>>] = row[<<k, r>>]
  <2>1. w \in RowKeys /\ "pending" \notin Handlers
    BY KeysOfRows, RunAssumption DEF RunKinds
  <2>2. \A k \in RunKinds : <<k, r>> \in RowKeys
    BY KeysOfRows
  <2> HIDE DEF w
  <2> QED BY <1>0, <1>3, <2>1, <2>2, Types
<1>7. hand'[a].work \in RunKinds \X {r} => row'[hand'[a].work] = a
  BY <1>0, <1>4, <1>5, <1>6, Types
<1>8. \A k \in RunKinds : \/ row'[<<k, r>>] = row[<<k, r>>]
                          \/ k = "extract" /\ row[<<k, r>>] \notin Handlers \ {a}
  BY <1>1, <1>6
<1> HIDE DEF w
<1> QED BY <1>0, <1>2, <1>4, <1>5, <1>7, <1>8, OthersSpare, RequestsKept, RequestsShow

LEMMA ExtractedOrderly ==
    ASSUME Preparation, NEW a \in Handlers, Extracted(a),
           NEW r \in EnrichmentRuns \ troubled'
    PROVE  Orderly(r)'
<1> DEFINE w == hand[a].work
<1>0. RunInvariant /\ Orderly(r) /\ UNCHANGED <<status, troubled, prepared, research>>
  BY DEF Preparation, Extracted, Smooth
<1>1. w \in {"extract"} \X EnrichmentRuns
  BY <1>0, Types DEF Extracted, HandsFit, Fits
<1>2. PICK q \in EnrichmentRuns : w = <<"extract", q>>
  BY <1>1
<1>3. /\ hand'[a] = AtRest /\ \A b \in Handlers \ {a} : hand'[b] = hand[b]
      /\ row' = IF row[w] = a THEN [row EXCEPT ![w] = "closed"] ELSE row
  BY <1>0, Types DEF Extracted
<1>4. hand'[a].work = <<>> /\ hand'[a].next = {}
  BY <1>3 DEF AtRest
<1>5. <<>> \notin Guarded(r) /\ <<>> \notin RunKinds \X {r} /\ w \notin Guarded(r)
  BY <1>2, GuardedRows DEF Guarded, PrepareRow, EnrichRow, FinalizeRow
<1>6. \A k \in RunKinds : \/ row'[<<k, r>>] = row[<<k, r>>]
                          \/ k = "extract" /\ row[<<k, r>>] \notin Handlers \ {a}
  BY <1>0, <1>2, <1>3, Types, KeysOfRows
<1> HIDE DEF w
<1> QED BY <1>0, <1>3, <1>4, <1>5, <1>6, OthersSpare, RequestsKept, RequestsShow DEF w


\* A fresh run has no other duties.
LEMMA FreshIsOrderly ==
    ASSUME NEW r \in EnrichmentRuns, Fresh(r)',
           \A a \in Handlers : hand'[a].work \in RunKinds \X {r} => row'[hand'[a].work] = a
    PROVE  Orderly(r)'
<1>1. "none" \notin Handlers
  BY RunAssumption
<1>2. ASSUME NEW a \in Handlers
      PROVE  hand'[a].work # EnrichRow(r) /\ hand'[a].work # FinalizeRow(r)
  BY <1>1, RowsOfRun DEF Fresh, Finalizable
<1>3. \A a \in Handlers : HandKnows(a, r)'
  BY <1>2 DEF HandKnows
<1>4. /\ UnscannedIsFresh(r)' /\ ParkedHasNothing(r)' /\ EnrichingHasARow(r)'
      /\ AskersAreOpen(r)' /\ CompleteHasNothingOpen(r)'
  BY DEF Fresh, UnscannedIsFresh, ParkedHasNothing, EnrichingHasARow, AskersAreOpen,
     CompleteHasNothingOpen
<1> QED BY <1>3, <1>4 DEF Orderly

LEMMA PrepareOrderly ==
    ASSUME Preparation, NEW a \in Handlers, NEW q \in EnrichmentRuns, Prepare(a, q),
           NEW r \in EnrichmentRuns \ troubled'
    PROVE  Orderly(r)'
<1> DEFINE w == PrepareRow(q)
<1>0. RunInvariant /\ Orderly(r) /\ UNCHANGED <<status, troubled, prepared, research>>
  BY DEF Preparation, Prepare, Smooth
<1>1. hand[a] = AtRest /\ row[w] = "pending"
  BY DEF Prepare, Skips, Picks, PrepareRow
<1>2. \A b \in Handlers \ {a} : hand'[b] = hand[b]
  BY <1>0, Types DEF Prepare, Skips, Holds
<1>3. \/ Over(q) /\ hand'[a] = AtRest /\ row' = [row EXCEPT ![w] = "closed"]
      \/ ~Over(q) /\ hand'[a] = Doing(w, "scan") /\ row' = [row EXCEPT ![w] = a]
  BY <1>0, <1>1, Types DEF Prepare, Skips, Holds, PrepareRow
<1>4. /\ hand[a].work = <<>> /\ hand'[a].work \in {<<>>, w} /\ hand'[a].next = {}
      /\ hand'[a].work = w => row' = [row EXCEPT ![w] = a] /\ hand'[a].at = "scan"
  <2>1. /\ AtRest.work = <<>> /\ AtRest.next = {} /\ Doing(w, "scan").at = "scan"
        /\ Doing(w, "scan").work = w /\ Doing(w, "scan").next = {} /\ w # <<>>
    BY DEF AtRest, Doing, PrepareRow
  <2> HIDE DEF w
  <2> QED BY <1>1, <1>3, <2>1
<1>5. <<>> \notin Guarded(r) /\ <<>> \notin RunKinds \X {r}
  BY DEF Guarded, PrepareRow, EnrichRow, FinalizeRow
<1>6. w \in RowKeys /\ "pending" \notin Handlers
      /\ \A k \in RunKinds : <<k, r>> # w => row'[<<k, r>>] = row[<<k, r>>]
  <2>1. w \in RowKeys /\ "pending" \notin Handlers
    BY KeysOfRows, RunAssumption DEF RunKinds, PrepareRow
  <2>2. \A k \in RunKinds : <<k, r>> \in RowKeys
    BY KeysOfRows
  <2> HIDE DEF w
  <2> QED BY <1>0, <1>3, <2>1, <2>2, Types
<1>7. CASE r # q
  <2>1. w \notin Guarded(r) /\ w \notin RunKinds \X {r} /\ \A k \in RunKinds : <<k, r>> # w
    BY <1>7, GuardedRows DEF PrepareRow
  <2> HIDE DEF w
  <2> QED BY <1>0, <1>2, <1>4, <1>5, <1>6, <2>1, OthersSpare, RequestsKept, RequestsShow
<1>8. CASE r = q
  <2>1. Unscanned(r)
    BY <1>0, <1>1, <1>6, <1>8, RowsOfRun, FreeRowHasNoHand DEF Unscanned
  <2>2. Fresh(r)
    BY <1>0, <2>1 DEF Orderly, UnscannedIsFresh
  <2>3. ~Over(q)
    BY <1>8, <2>2 DEF Fresh, Over
  <2>4. row'[EnrichRow(r)] = row[EnrichRow(r)] /\ row'[FinalizeRow(r)] = row[FinalizeRow(r)]
    BY <1>6, KeysDiffer DEF EnrichRow, FinalizeRow, RunKinds
  <2>5. Fresh(r)'
    BY <1>0, <1>2, <1>4, <2>2, <2>4, RequestsKept DEF Fresh, Finalizable
  <2>6. ASSUME NEW b \in Handlers, hand'[b].work \in RunKinds \X {r}
        PROVE  row'[hand'[b].work] = b
    <3>1. CASE b = a
      BY <1>0, <1>4, <1>5, <1>6, <2>6, <3>1, Types
    <3>2. CASE b # a
      <4>1. row[hand[b].work] = b /\ hand'[b] = hand[b]
        BY <1>0, <1>2, <2>6, <3>2 DEF Orderly, HandKnows
      <4>2. PICK k \in RunKinds : hand[b].work = <<k, r>>
        BY <2>6, <4>1
      <4> QED BY <1>1, <1>6, <4>1, <4>2
    <3> QED BY <3>1, <3>2
  <2> QED BY <2>5, <2>6, FreshIsOrderly
<1> QED BY <1>7, <1>8

LEMMA ScannedOrderly ==
    ASSUME Preparation, NEW a \in Handlers, Scanned(a),
           NEW r \in EnrichmentRuns \ troubled'
    PROVE  Orderly(r)'
<1> DEFINE w == hand[a].work
           q == w[2]
<1>0. RunInvariant /\ Orderly(r) /\ UNCHANGED <<row, troubled, prepared, research>>
  BY DEF Preparation, Scanned, Smooth
<1>1. w = PrepareRow(q) /\ q \in EnrichmentRuns /\ hand[a].at = "scan"
  BY <1>0, Types DEF Scanned, HandsFit, Fits, PrepareRow
<1>2. /\ \A b \in Handlers \ {a} : hand'[b] = hand[b]
      /\ hand'[a].work = w /\ hand'[a].next = hand[a].next
      /\ hand'[a].at \in {"enqueue", "complete"}
  BY <1>0, Types DEF Scanned, Asks, Hand
<1>3. CASE r # q
  <2>1. w \notin Guarded(r) /\ w \notin RunKinds \X {r}
    BY <1>1, <1>3, GuardedRows DEF PrepareRow
  <2>2. status'[r] = status[r]
    BY <1>0, <1>3, Types DEF Scanned
  <2> QED BY <1>0, <1>2, <2>1, <2>2, OthersSpare, RequestsKept, RequestsShow DEF Finalizable
<1>4. CASE r = q
  <2>1. row[w] = a /\ a # "closed"
    BY <1>0, <1>1, <1>4, RowsOfRun, RunAssumption DEF Orderly, HandKnows
  <2>2. \A b \in Handlers : hand[b].work = w => b = a
    BY <1>0, <1>1, <1>4, <2>1, RowsOfRun DEF Orderly, HandKnows
  <2>3. Fresh(r)
    <3>1. Unscanned(r)
      BY <1>1, <1>4, <2>1, <2>2 DEF Unscanned
    <3> QED BY <1>0, <3>1 DEF Orderly, UnscannedIsFresh
  <2>4. ~Finalizable(r)' /\ row'[EnrichRow(r)] = "none" /\ r \notin prepared'
    BY <1>0, <1>2, <2>3, RequestsKept DEF Fresh, Finalizable
  <2>5. ASSUME NEW b \in Handlers, hand'[b].work \in RunKinds \X {r}
        PROVE  row'[hand'[b].work] = b
    BY <1>0, <1>2, <2>5 DEF Orderly, HandKnows
  <2>6. CASE UNCHANGED status
    BY <2>3, <2>4, <2>5, <2>6, FreshIsOrderly DEF Fresh
  <2>7. CASE /\ status' = [status EXCEPT ![q] = "awaiting_prior_enrichment"]
             /\ hand'[a].at = "complete"
    <3>1. status'[r] = "awaiting_prior_enrichment"
      BY <1>0, <1>4, <2>7, Types
    <3>2. ~Unscanned(r)' /\ ~Asking(r)'
      BY <1>1, <1>2, <1>4, <2>2, <2>7 DEF Unscanned, Asking
    <3>3. UnscannedIsFresh(r)' /\ ParkedHasNothing(r)' /\ EnrichingHasARow(r)'
          /\ AskersAreOpen(r)' /\ CompleteHasNothingOpen(r)'
      BY <2>4, <3>1, <3>2 DEF UnscannedIsFresh, ParkedHasNothing, EnrichingHasARow,
         AskersAreOpen, CompleteHasNothingOpen
    <3>4. ASSUME NEW b \in Handlers PROVE HandKnows(b, r)'
      <4>1. "none" \notin Handlers
        BY RunAssumption
      <4>2. hand'[b].work # EnrichRow(r) /\ hand'[b].work # FinalizeRow(r)
        BY <2>4, <2>5, <4>1, RowsOfRun DEF Finalizable
      <4> QED BY <2>5, <4>2 DEF HandKnows
    <3> QED BY <3>3, <3>4 DEF Orderly
  <2> QED BY <1>0, <1>2, <2>6, <2>7, Types DEF Scanned, Hand
<1> QED BY <1>3, <1>4

LEMMA EnrichOrderly ==
    ASSUME Preparation, NEW a \in Handlers, NEW q \in EnrichmentRuns, Enrich(a, q),
           NEW r \in EnrichmentRuns \ troubled'
    PROVE  Orderly(r)'
<1> DEFINE w == EnrichRow(q)
<1>0. RunInvariant /\ Orderly(r) /\ UNCHANGED <<status, troubled, prepared, research>>
  BY DEF Preparation, Enrich, Smooth
<1>1. hand[a] = AtRest /\ row[w] = "pending"
  BY DEF Enrich, Skips, Picks, EnrichRow
<1>2. \A b \in Handlers \ {a} : hand'[b] = hand[b]
  BY <1>0, Types DEF Enrich, Skips
<1>3. \/ /\ status[q] # "enriching" /\ hand'[a] = AtRest
         /\ row' = [row EXCEPT ![w] = "closed"]
      \/ /\ status[q] = "enriching" /\ row' = [row EXCEPT ![w] = a]
         /\ \E todo : hand'[a] = [Doing(w, "enqueue") EXCEPT !.todo = todo]
  BY <1>0, <1>1, Types DEF Enrich, Skips, EnrichRow
<1>4. /\ hand[a].work = <<>> /\ hand'[a].next = {}
      /\ \/ hand'[a].work = <<>> /\ hand'[a].at = "rest"
         \/ /\ hand'[a].work = w /\ hand'[a].at = "enqueue"
            /\ row' = [row EXCEPT ![w] = a] /\ status[q] = "enriching"
  <2>1. /\ AtRest.work = <<>> /\ AtRest.next = {} /\ AtRest.at = "rest"
    BY DEF AtRest
  <2>2. ASSUME NEW t, hand'[a] = [Doing(w, "enqueue") EXCEPT !.todo = t]
        PROVE  hand'[a].at = "enqueue" /\ hand'[a].work = w /\ hand'[a].next = {}
    BY <2>2 DEF AtRest, Doing
  <2> HIDE DEF w
  <2> QED BY <1>1, <1>3, <2>1, <2>2
<1>5. <<>> \notin Guarded(r) /\ <<>> \notin RunKinds \X {r}
  BY DEF Guarded, PrepareRow, EnrichRow, FinalizeRow
<1>6. w \in RowKeys /\ "pending" \notin Handlers
      /\ \A k \in RunKinds : <<k, r>> # w => row'[<<k, r>>] = row[<<k, r>>]
  <2>1. w \in RowKeys /\ "pending" \notin Handlers
    BY KeysOfRows, RunAssumption DEF RunKinds, EnrichRow
  <2>2. \A k \in RunKinds : <<k, r>> \in RowKeys
    BY KeysOfRows
  <2> HIDE DEF w
  <2> QED BY <1>0, <1>3, <2>1, <2>2, Types
<1>7. CASE r # q
  <2>1. w \notin Guarded(r) /\ w \notin RunKinds \X {r} /\ \A k \in RunKinds : <<k, r>> # w
    BY <1>7, GuardedRows DEF EnrichRow
  <2> HIDE DEF w
  <2> QED BY <1>0, <1>2, <1>4, <1>5, <1>6, <2>1, OthersSpare, RequestsKept, RequestsShow
<1>8. CASE r = q
  <2>1. ~Unscanned(r) /\ status[r] # "awaiting_prior_enrichment"
    BY <1>0, <1>1, <1>8 DEF Orderly, UnscannedIsFresh, Fresh, ParkedHasNothing
  <2>2. row'[PrepareRow(r)] = row[PrepareRow(r)] /\ row'[FinalizeRow(r)] = row[FinalizeRow(r)]
    BY <1>6, KeysDiffer DEF PrepareRow, FinalizeRow, RunKinds
  <2>3. \A b \in Handlers : hand'[b].work # hand[b].work => b = a /\ hand'[b].work = w
    BY <1>2, <1>4
  <2>4. \A b \in Handlers : hand[b].work # w
    BY <1>0, <1>1, <1>6, <1>8, RowsOfRun, FreeRowHasNoHand
  <2>5. w # PrepareRow(r) /\ w # FinalizeRow(r) /\ <<>> # PrepareRow(r)
        /\ w # <<>> /\ <<>> # FinalizeRow(r)
    BY KeysDiffer DEF PrepareRow, FinalizeRow, EnrichRow
  <2>6. ~Unscanned(r)'
    BY <1>2, <1>4, <2>1, <2>2, <2>5 DEF Unscanned
  <2>7. Asking(r)' <=> Asking(r)
    BY <1>2, <1>4, <2>5 DEF Asking
  <2>8. Finalizable(r)' => Finalizable(r)
    BY <1>0, <1>2, <1>4, <2>2, RequestsKept DEF Finalizable
  <2>9. OpenRow(EnrichRow(r)) /\ ("closed" \notin Handlers) /\ ("none" \notin Handlers)
    BY <1>1, <1>8, RunAssumption DEF OpenRow
  <2>10. status[r] = "enriching" => OpenRow(EnrichRow(r))'
    <3>1. status[r] = "enriching" => row'[w] = a
      BY <1>0, <1>3, <1>6, <1>8, Types
    <3> QED BY <1>8, <2>9, <3>1 DEF OpenRow
  <2>11. EnrichingHasARow(r)' /\ AskersAreOpen(r)'
    BY <1>0, <2>7, <2>8, <2>10 DEF Orderly, EnrichingHasARow, AskersAreOpen
  <2>12. ~NothingOpen(r)
    BY <2>9 DEF NothingOpen
  <2>13. CompleteHasNothingOpen(r)'
    BY <1>0, <2>12 DEF Orderly, CompleteHasNothingOpen
  <2>14. ASSUME NEW b \in Handlers PROVE HandKnows(b, r)'
    <3>1. CASE b # a
      <4>1. hand'[b] = hand[b] /\ hand[b].work # EnrichRow(r)
        BY <1>2, <1>8, <2>4, <3>1
      <4>2. hand[b].work \in RunKinds \X {r} => row'[hand[b].work] = b
        BY <1>0, <1>6, <1>8, <4>1 DEF Orderly, HandKnows
      <4>3. ~(hand[b].work = FinalizeRow(r) /\ hand[b].at = "finalize")
        BY <1>0, <2>12 DEF Orderly, HandKnows
      <4> QED BY <4>1, <4>2, <4>3 DEF HandKnows
    <3>2. CASE b = a
      <4>1. hand'[a].work = w => row'[w] = a
        BY <1>0, <1>4, <1>6, <2>5, Types
      <4> QED BY <1>0, <1>4, <1>5, <1>8, <2>5, <3>2, <4>1 DEF HandKnows, Guarded
    <3> QED BY <3>1, <3>2
  <2> QED BY <1>0, <2>1, <2>6, <2>11, <2>13, <2>14 DEF Orderly, UnscannedIsFresh, ParkedHasNothing
<1> QED BY <1>7, <1>8

\* The row of run.prepare or run.enrich whose handler asks for companies.
LEMMA AskersHoldARow ==
    ASSUME Preparation, NEW a \in Handlers, hand[a].at = "enqueue",
           NEW r \in EnrichmentRuns \ troubled, hand[a].work[2] = r
    PROVE  /\ hand[a].work \in {PrepareRow(r), EnrichRow(r)}
           /\ row[hand[a].work] = a /\ OpenRow(hand[a].work) /\ ~NothingOpen(r)
           /\ hand[a].work = PrepareRow(r) => Asking(r)
           /\ hand[a].work = EnrichRow(r) => status[r] = "enriching"
           /\ ~Unscanned(r) /\ status[r] # "awaiting_prior_enrichment"
<1>0. RunInvariant /\ Orderly(r)
  BY DEF Preparation
<1>1. hand[a].work \in {PrepareRow(r), EnrichRow(r)}
  BY <1>0, Types DEF HandsFit, Fits, PrepareRow, EnrichRow
<1>2. row[hand[a].work] = a
  BY <1>0, <1>1, RowsOfRun DEF Orderly, HandKnows
<1>3. OpenRow(hand[a].work) /\ ~NothingOpen(r)
  BY <1>1, <1>2, RunAssumption DEF OpenRow, NothingOpen
<1>4. hand[a].work = PrepareRow(r) => Asking(r)
  BY DEF Asking
<1>5. hand[a].work = EnrichRow(r) => status[r] = "enriching"
  BY <1>0 DEF Orderly, HandKnows
<1>6. ~Unscanned(r)
  BY <1>0, <1>1, <1>3 DEF Orderly, UnscannedIsFresh, Unscanned, Fresh, OpenRow
<1>7. status[r] # "awaiting_prior_enrichment"
  BY <1>0, <1>1, <1>4, <1>5 DEF Orderly, ParkedHasNothing
<1> QED BY <1>1, <1>2, <1>3, <1>4, <1>5, <1>6, <1>7

LEMMA AskForOrderly ==
    ASSUME Preparation, NEW a \in Handlers, NEW c \in ResearchKeys, AskFor(a, c),
           NEW r \in EnrichmentRuns \ troubled'
    PROVE  Orderly(r)'
<1> DEFINE w == hand[a].work
           q == w[2]
<1>0. RunInvariant /\ Orderly(r) /\ UNCHANGED <<status, row, troubled, prepared>>
  BY DEF Preparation, AskFor, Smooth
<1>1. hand[a].at = "enqueue" /\ w \in {"prepare", "enrich"} \X EnrichmentRuns
  BY <1>0, Types DEF AskFor, HandsFit, Fits
<1>2. \A b \in Handlers : /\ hand'[b].work = hand[b].work /\ hand'[b].at = hand[b].at
                          /\ hand'[b].next = hand[b].next
  BY <1>0, Types DEF AskFor, Hand
<1>3. CASE r # q
  <2>1. Requests(r)' = Requests(r)
    <3>1. \A d \in ResearchKeys \ {c} : research'[d] = research[d]
      BY <1>0, Types DEF AskFor
    <3>2. research'[c].by \in {research[c].by, Append(research[c].by, q)}
      BY <1>0, Types DEF AskFor, ResearchJob
    <3>3. research[c].by \in Seq(EnrichmentRuns)
      BY <1>0, Types DEF ResearchJob
    <3>4. (\E n \in DOMAIN research'[c].by : research'[c].by[n] = r) <=>
          (\E n \in DOMAIN research[c].by : research[c].by[n] = r)
      <4> DEFINE by == research[c].by
      <4>1. /\ DOMAIN by = 1..Len(by) /\ DOMAIN Append(by, q) = 1..(Len(by) + 1)
            /\ Len(by) \in Nat /\ Append(by, q)[Len(by) + 1] = q
            /\ \A n \in 1..Len(by) : Append(by, q)[n] = by[n]
        BY <1>1, <3>3
      <4>2. (\E n \in DOMAIN Append(by, q) : Append(by, q)[n] = r) <=>
            (\E n \in DOMAIN by : by[n] = r)
        <5> HIDE DEF by, q
        <5> QED BY <1>3, <4>1
      <4> QED BY <3>2, <4>2
    <3> QED BY <3>1, <3>4 DEF Requests
  <2>2. Spares(r)
    BY <1>0, <1>2, <2>1 DEF Spares, Finalizable, Orderly, HandKnows
  <2> QED BY <1>0, <2>2, SparedIsOrderly
<1>4. CASE r = q
  <2>0. r \in EnrichmentRuns \ troubled
    BY <1>0
  <2>1. /\ w \in {PrepareRow(r), EnrichRow(r)} /\ OpenRow(w) /\ ~NothingOpen(r)
        /\ w = PrepareRow(r) => Asking(r)
        /\ w = EnrichRow(r) => status[r] = "enriching"
        /\ ~Unscanned(r) /\ status[r] # "awaiting_prior_enrichment"
    BY <1>1, <1>4, <2>0, AskersHoldARow
  <2>2. (Asking(r)' <=> Asking(r)) /\ (Unscanned(r)' <=> Unscanned(r))
    BY <1>0, <1>2 DEF Asking, Unscanned
  <2>3. UnscannedIsFresh(r)' /\ ParkedHasNothing(r)' /\ EnrichingHasARow(r)'
        /\ CompleteHasNothingOpen(r)'
    BY <1>0, <2>1, <2>2 DEF Orderly, UnscannedIsFresh, ParkedHasNothing,
       EnrichingHasARow, CompleteHasNothingOpen, OpenRow
  <2>4. AskersAreOpen(r)'
    BY <1>0, <2>1, <2>2 DEF AskersAreOpen, OpenRow
  <2>5. \A b \in Handlers : HandKnows(b, r)'
    BY <1>0, <1>2 DEF Orderly, HandKnows, NothingOpen, OpenRow
  <2> QED BY <2>3, <2>4, <2>5 DEF Orderly
<1> QED BY <1>3, <1>4

LEMMA AllAskedOrderly ==
    ASSUME Preparation, NEW a \in Handlers, AllAsked(a),
           NEW r \in EnrichmentRuns \ troubled'
    PROVE  Orderly(r)'
<1> DEFINE w == hand[a].work
           q == w[2]
           next == IF hand[a].asked = {} THEN {<<"finalize", q>>}
                   ELSE {<<"research", c>> : c \in hand[a].asked}
<1>0. RunInvariant /\ Orderly(r) /\ UNCHANGED <<row, research, troubled>>
  BY DEF Preparation, AllAsked
<1>1. hand[a].at = "enqueue" /\ w \in {"prepare", "enrich"} \X EnrichmentRuns
  BY <1>0, Types DEF AllAsked, HandsFit, Fits
<1>2. /\ \A b \in Handlers \ {a} : hand'[b] = hand[b]
      /\ hand'[a] = [Doing(w, "complete") EXCEPT !.next = next]
  BY <1>0, Types DEF AllAsked
<1>3. hand'[a].work = w /\ hand'[a].at = "complete" /\ hand'[a].next = next
  BY <1>2 DEF Doing, AtRest
<1>4. CASE r # q
  <2>1. w \notin Guarded(r) /\ w \notin RunKinds \X {r}
    BY <1>1, <1>4, GuardedRows
  <2>2. status'[r] = status[r] /\ (r \in prepared' <=> r \in prepared)
    BY <1>0, <1>4, Types DEF AllAsked
  <2>3. FinalizeRow(r) \notin next
    BY <1>4 DEF FinalizeRow
  <2> HIDE DEF next
  <2> QED BY <1>0, <1>2, <1>3, <2>1, <2>2, <2>3, OthersSpare, RequestsKept, RequestsShow
<1>5. CASE r = q
  <2>0. r \in EnrichmentRuns \ troubled
    BY <1>0
  <2>1. /\ w \in {PrepareRow(r), EnrichRow(r)} /\ row[w] = a /\ ~NothingOpen(r)
        /\ w = EnrichRow(r) => status[r] = "enriching"
        /\ ~Unscanned(r) /\ status[r] # "awaiting_prior_enrichment"
    BY <1>1, <1>5, <2>0, AskersHoldARow
  <2>2. r \in prepared' /\ status'[r] \in {status[r], "enriching"}
    BY <1>0, <1>5, Types DEF AllAsked
  <2>3. ~Unscanned(r)'
    <3>1. CASE w = PrepareRow(r)
      BY <1>3, <3>1 DEF Unscanned
    <3>2. CASE w # PrepareRow(r)
      BY <1>0, <1>2, <1>3, <2>1, <3>2 DEF Unscanned
    <3> QED BY <3>1, <3>2
  <2>4. ~NothingOpen(r) => status[r] # "complete"
    BY <1>0 DEF Orderly, CompleteHasNothingOpen
  <2>5. UnscannedIsFresh(r)' /\ ParkedHasNothing(r)' /\ EnrichingHasARow(r)'
        /\ AskersAreOpen(r)' /\ CompleteHasNothingOpen(r)'
    BY <2>1, <2>2, <2>3, <2>4 DEF UnscannedIsFresh, ParkedHasNothing, EnrichingHasARow,
       AskersAreOpen, CompleteHasNothingOpen
  <2>6. ASSUME NEW b \in Handlers PROVE HandKnows(b, r)'
    <3>1. hand'[b].work = hand[b].work
      BY <1>2, <1>3
    <3>2. hand[b].work \in RunKinds \X {r} => row'[hand[b].work] = b
      BY <1>0 DEF Orderly, HandKnows
    <3>3. hand[b].work = FinalizeRow(r) => hand'[b].at # "finalize"
      BY <1>0, <1>2, <1>3, <2>1 DEF Orderly, HandKnows
    <3>4. hand[b].work = EnrichRow(r) /\ hand'[b].at = "enqueue" => status'[r] = "enriching"
      BY <1>0, <1>2, <1>3, <2>2 DEF Orderly, HandKnows
    <3> QED BY <2>2, <3>1, <3>2, <3>3, <3>4 DEF HandKnows
  <2> QED BY <2>5, <2>6 DEF Orderly
<1> QED BY <1>4, <1>5

LEMMA ResearchClaimedOrderly ==
    ASSUME Preparation, NEW a \in Handlers, NEW c \in ResearchKeys, ResearchClaimed(a, c),
           NEW r \in EnrichmentRuns \ troubled'
    PROVE  Orderly(r)'
<1> DEFINE w == <<"research", c>>
<1>0. RunInvariant /\ Orderly(r) /\ UNCHANGED <<status, troubled, prepared>>
  BY DEF Preparation, ResearchClaimed, Smooth
<1>1. hand[a] = AtRest /\ row' = [row EXCEPT ![w] = a]
      /\ hand' = [hand EXCEPT ![a] = [Doing(w, "research") EXCEPT !.active = LiveRuns(c)]]
  BY DEF ResearchClaimed, Holds, Picks
<1>2. \A b \in Handlers \ {a} : hand'[b] = hand[b]
  BY <1>0, <1>1, Types
<1>3. hand[a].work = <<>> /\ hand'[a].work = w /\ hand'[a].next = {}
  <2>1. hand'[a] = [Doing(w, "research") EXCEPT !.active = LiveRuns(c)]
    BY <1>0, <1>1, Types
  <2>2. AtRest.work = <<>>
    BY DEF AtRest
  <2> HIDE DEF w
  <2>3. hand'[a].work = w /\ hand'[a].next = {}
    BY <2>1 DEF Doing, AtRest
  <2> QED BY <1>1, <2>2, <2>3
<1>4. <<>> \notin Guarded(r) /\ w \notin Guarded(r) /\ w \notin RunKinds \X {r}
  BY GuardedRows DEF Guarded, PrepareRow, EnrichRow, FinalizeRow, RunKinds
<1>5. \A k \in RunKinds : row'[<<k, r>>] = row[<<k, r>>]
  BY <1>0, <1>1, Types, KeysOfRows DEF RunKinds
<1>6. Requests(r)' = Requests(r)
  BY <1>0, Types DEF ResearchClaimed, Requests, ResearchJob
<1> HIDE DEF w
<1> QED BY <1>0, <1>2, <1>3, <1>4, <1>5, <1>6, OthersSpare, RequestsShow

\* Only a run that asked for the company is finalized after its research.
LEMMA FinalizesAskers ==
    ASSUME NEW r, NEW c \in ResearchKeys, <<"finalize", r>> \in Finalizes(c)
    PROVE  Finalizable(r)
BY DEF Finalizes, CompletedRuns, Finalizable

LEMMA FinishedJobRequests ==
    ASSUME RunInvariant, NEW c \in ResearchKeys, NEW s, research' = FinishedJob(c, s), NEW r
    PROVE  Requests(r)' = Requests(r)
BY Types DEF FinishedJob, Requests, ResearchJob

LEMMA ResearchSkippedOrderly ==
    ASSUME Preparation, NEW a \in Handlers, NEW c \in ResearchKeys, ResearchSkipped(a, c),
           NEW r \in EnrichmentRuns \ troubled'
    PROVE  Orderly(r)'
<1> DEFINE w == <<"research", c>>
           kids == IF research[c].state = "none" THEN {} ELSE Finalizes(c)
           shut == [row EXCEPT ![w] = "closed"]
<1>0. RunInvariant /\ Orderly(r) /\ UNCHANGED <<status, hand, troubled, prepared>>
  BY DEF Preparation, ResearchSkipped, Smooth
<1>1. row' = Enqueued(shut, kids, FALSE)
  BY DEF ResearchSkipped
<1>2. Requests(r)' = Requests(r)
  BY <1>0, FinishedJobRequests, RequestsKept DEF ResearchSkipped
<1>3. ASSUME NEW k \in RunKinds
      PROVE  \/ row'[<<k, r>>] = row[<<k, r>>]
             \/ k = "finalize" /\ Finalizable(r) /\ row[<<k, r>>] \notin Handlers
  <2>1. <<k, r>> \in RowKeys /\ shut[<<k, r>>] = row[<<k, r>>]
    BY <1>0, Types, KeysOfRows DEF RunKinds
  <2>2. <<k, r>> \in kids => k = "finalize" /\ Finalizable(r)
    BY FinalizesAskers DEF Finalizes
  <2>3. "none" \notin Handlers
    BY RunAssumption
  <2> HIDE DEF shut, kids
  <2> QED BY <1>1, <2>1, <2>2, <2>3 DEF Enqueued
<1> QED BY <1>0, <1>2, <1>3, RowStepIsOrderly, RequestsShow

\* The end of a research, and what is tried again, are no steps of a run.
LEMMA FinishesOrderly ==
    ASSUME RunInvariant, NEW a \in Handlers, hand[a].at = "research",
           NEW s, Finishes(a, s), UNCHANGED status,
           NEW r \in EnrichmentRuns, Orderly(r), r \in prepared' <=> r \in prepared
    PROVE  Orderly(r)'
<1> DEFINE w == hand[a].work
           c == w[2]
<1>1. w \in {"research"} \X ResearchKeys
  BY Types DEF HandsFit, Fits
<1>2. /\ \A b \in Handlers \ {a} : hand'[b] = hand[b]
      /\ hand'[a] = [Doing(w, "complete") EXCEPT !.next = Finalizes(c)]
  BY Types DEF Finishes
<1>3. hand'[a].work = w /\ hand'[a].next = Finalizes(c)
  BY <1>2 DEF Doing, AtRest
<1>4. w \notin Guarded(r) /\ w \notin RunKinds \X {r}
  BY <1>1, GuardedRows DEF RunKinds
<1>5. Requests(r)' = Requests(r)
  BY <1>1, FinishedJobRequests DEF Finishes
<1>6. \A k \in RunKinds : row'[<<k, r>>] = row[<<k, r>>]
  BY DEF Finishes
<1>7. FinalizeRow(r) \in hand'[a].next => Finalizable(r)
  BY <1>1, <1>3, FinalizesAskers DEF FinalizeRow
<1> QED BY <1>2, <1>3, <1>4, <1>5, <1>6, <1>7, OthersSpare, RequestsShow

LEMMA RetriesOrderly ==
    ASSUME RunInvariant, NEW a \in Handlers, hand[a].at = "research", Retries(a),
           UNCHANGED status, NEW r \in EnrichmentRuns, Orderly(r),
           r \in prepared' <=> r \in prepared, Requests(r)' = Requests(r)
    PROVE  Orderly(r)'
<1> DEFINE w == hand[a].work
<1>1. w \in {"research"} \X ResearchKeys
  BY Types DEF HandsFit, Fits
<1>2. hand'[a] = AtRest /\ \A b \in Handlers \ {a} : hand'[b] = hand[b]
  BY Types DEF Retries
<1>3. w # PrepareRow(r)
  BY <1>1 DEF PrepareRow
<1>4. \A k \in RunKinds : row'[<<k, r>>] = row[<<k, r>>]
  BY <1>1, Types DEF Retries, PutBack, RunKinds
<1> QED BY <1>2, <1>3, <1>4, StopsIsOrderly, RequestsShow

LEMMA ResearchedOrderly ==
    ASSUME Preparation, NEW a \in Handlers, Researched(a) \/ ResearchFails(a),
           NEW r \in EnrichmentRuns \ troubled'
    PROVE  Orderly(r)'
<1>0. RunInvariant /\ Orderly(r) /\ UNCHANGED <<status, prepared>> /\ hand[a].at = "research"
  BY DEF Preparation, Researched, ResearchFails, Smooth
<1>1. hand[a].work[2] \in ResearchKeys
  BY <1>0, Types DEF HandsFit, Fits
<1>2. CASE \E s : Finishes(a, s)
  BY <1>0, <1>2, FinishesOrderly
<1>3. CASE Retries(a) /\ UNCHANGED research
  BY <1>0, <1>3, RetriesOrderly, RequestsKept
<1>4. CASE research' = FinishedJob(hand[a].work[2], "pending") /\ Retries(a)
  BY <1>0, <1>1, <1>4, RetriesOrderly, FinishedJobRequests
<1> QED BY <1>2, <1>3, <1>4 DEF Researched, ResearchFails

LEMMA FinalizeOrderly ==
    ASSUME Preparation, NEW a \in Handlers, NEW q \in EnrichmentRuns, Finalize(a, q),
           NEW r \in EnrichmentRuns \ troubled'
    PROVE  Orderly(r)'
<1> DEFINE w == FinalizeRow(q)
<1>0. RunInvariant /\ Orderly(r) /\ UNCHANGED <<status, troubled, prepared, research>>
  BY DEF Preparation, Finalize, Smooth
<1>1. hand[a] = AtRest /\ row[w] = "pending"
  BY DEF Finalize, Skips, Picks, FinalizeRow
<1>2. \A b \in Handlers \ {a} : hand'[b] = hand[b]
  BY <1>0, Types DEF Finalize, Skips, Holds
<1>3. \/ hand'[a] = AtRest /\ row' = [row EXCEPT ![w] = "closed"]
      \/ /\ canFinalizeEnrichingRun(q)
         /\ hand'[a] = Doing(w, "finalize") /\ row' = [row EXCEPT ![w] = a]
  BY <1>0, <1>1, Types DEF Finalize, Skips, Holds, FinalizeRow
<1>4. /\ hand[a].work = <<>> /\ hand'[a].next = {}
      /\ \/ hand'[a].work = <<>> /\ hand'[a].at = "rest"
         \/ /\ hand'[a].work = w /\ hand'[a].at = "finalize"
            /\ row' = [row EXCEPT ![w] = a] /\ canFinalizeEnrichingRun(q)
  <2>1. /\ AtRest.work = <<>> /\ AtRest.next = {} /\ AtRest.at = "rest"
    BY DEF AtRest
  <2> HIDE DEF w
  <2>2. Doing(w, "finalize").at = "finalize" /\ Doing(w, "finalize").work = w
        /\ Doing(w, "finalize").next = {}
    BY DEF AtRest, Doing
  <2> QED BY <1>1, <1>3, <2>1, <2>2
<1>5. <<>> \notin Guarded(r) /\ <<>> \notin RunKinds \X {r}
  BY DEF Guarded, PrepareRow, EnrichRow, FinalizeRow
<1>6. w \in RowKeys /\ "pending" \notin Handlers
      /\ \A k \in RunKinds : <<k, r>> # w => row'[<<k, r>>] = row[<<k, r>>]
  <2>1. w \in RowKeys /\ "pending" \notin Handlers
    BY KeysOfRows, RunAssumption DEF RunKinds, FinalizeRow
  <2>2. \A k \in RunKinds : <<k, r>> \in RowKeys
    BY KeysOfRows
  <2> HIDE DEF w
  <2> QED BY <1>0, <1>3, <2>1, <2>2, Types
<1>7. CASE r # q
  <2>1. w \notin Guarded(r) /\ w \notin RunKinds \X {r} /\ \A k \in RunKinds : <<k, r>> # w
    BY <1>7, GuardedRows DEF FinalizeRow
  <2> HIDE DEF w
  <2> QED BY <1>0, <1>2, <1>4, <1>5, <1>6, <2>1, OthersSpare, RequestsKept, RequestsShow
<1>8. CASE r = q
  <2>1. row'[PrepareRow(r)] = row[PrepareRow(r)] /\ row'[EnrichRow(r)] = row[EnrichRow(r)]
    BY <1>6, KeysDiffer DEF PrepareRow, EnrichRow, RunKinds
  <2>2. Finalizable(r)
    BY <1>1, <1>8 DEF Finalizable
  <2>3. canFinalizeEnrichingRun(q) => NothingOpen(r)
    <3>1. SUFFICES ASSUME canFinalizeEnrichingRun(q) PROVE NothingOpen(r)
      OBVIOUS
    <3>2. ~OpenRow(PrepareRow(r)) /\ ~OpenRow(EnrichRow(r))
      BY <1>8, <3>1 DEF canFinalizeEnrichingRun, ScopeRows, RunKinds, PrepareRow, EnrichRow
    <3>3. ~Asking(r)
      <4>1. SUFFICES ASSUME NEW b \in Handlers, hand[b].work = PrepareRow(r) PROVE FALSE
        BY DEF Asking
      <4>2. row[PrepareRow(r)] = b
        BY <1>0, <4>1, RowsOfRun DEF Orderly, HandKnows
      <4> QED BY <3>2, <4>2, RunAssumption DEF OpenRow
    <3> QED BY <1>0, <2>2, <3>2, <3>3 DEF Orderly, AskersAreOpen, NothingOpen
  <2>4. w # PrepareRow(r) /\ w # EnrichRow(r)
        /\ \A b \in Handlers : hand[b].work # w
    BY <1>0, <1>1, <1>6, <1>8, RowsOfRun, FreeRowHasNoHand, KeysDiffer
  <2>5. Unscanned(r)' => Unscanned(r)
    BY <1>2, <1>4, <1>5, <2>1 DEF Unscanned, Guarded
  <2>6. Asking(r)' <=> Asking(r)
    BY <1>2, <1>4, <1>5, <2>4 DEF Asking, Guarded
  <2>7. ASSUME NEW b \in Handlers PROVE HandKnows(b, r)'
    <3>1. NothingOpen(r)' <=> NothingOpen(r)
      BY <1>0, <2>1 DEF NothingOpen, OpenRow
    <3>2. CASE b # a
      <4>1. hand'[b] = hand[b]
        BY <1>2, <3>2
      <4>2. hand[b].work \in RunKinds \X {r} => row'[hand[b].work] = b
        BY <1>0, <1>6, <2>4 DEF Orderly, HandKnows
      <4> QED BY <1>0, <3>1, <4>1, <4>2 DEF Orderly, HandKnows
    <3>3. CASE b = a
      <4>0. w # <<>>
        BY DEF FinalizeRow
      <4>1. hand'[a].work = w => row'[w] = a
        <5> HIDE DEF w
        <5> QED BY <1>0, <1>4, <1>6, <4>0, Types
      <4>2. <<>> # EnrichRow(r) /\ <<>> # FinalizeRow(r)
        BY <1>5 DEF Guarded
      <4> QED BY <1>4, <1>5, <1>8, <2>3, <2>4, <3>1, <3>3, <4>1, <4>2 DEF HandKnows
    <3> QED BY <3>2, <3>3
  <2> QED BY <1>0, <2>1, <2>2, <2>5, <2>6, <2>7, KeptIsOrderly DEF SameUse
<1> QED BY <1>7, <1>8

LEMMA FinalizeWritesOrderly ==
    ASSUME Preparation, NEW a \in Handlers, FinalizeWrites(a),
           NEW r \in EnrichmentRuns \ troubled'
    PROVE  Orderly(r)'
<1> DEFINE w == hand[a].work
           q == w[2]
<1>0. RunInvariant /\ Orderly(r) /\ UNCHANGED <<row, research, troubled, prepared>>
  BY DEF Preparation, FinalizeWrites, Smooth
<1>1. w = FinalizeRow(q) /\ hand[a].at = "finalize"
  BY <1>0, Types DEF FinalizeWrites, HandsFit, Fits, FinalizeRow
<1>2. /\ \A b \in Handlers \ {a} : hand'[b] = hand[b]
      /\ hand'[a].work = w /\ hand'[a].next = hand[a].next /\ hand'[a].at = "complete"
  BY <1>0, Types DEF FinalizeWrites, Hand
<1>3. CASE r # q
  <2>1. w \notin Guarded(r) /\ w \notin RunKinds \X {r}
    BY <1>1, <1>3, GuardedRows DEF FinalizeRow
  <2>2. status'[r] = status[r]
    BY <1>0, <1>3, Types DEF FinalizeWrites
  <2> QED BY <1>0, <1>2, <2>1, <2>2, OthersSpare, RequestsKept, RequestsShow DEF Finalizable
<1>4. CASE r = q
  <2>1. NothingOpen(r)
    BY <1>0, <1>1, <1>4 DEF Orderly, HandKnows
  <2>2. status'[r] \in {"cancelled", "complete"}
    BY <1>0, <1>4, Types DEF FinalizeWrites
  <2>3. w # PrepareRow(r) /\ w # EnrichRow(r)
    BY <1>1, KeysDiffer
  <2>4. ~Unscanned(r)'
    <3>1. ~Unscanned(r)
      BY <1>0, <2>1 DEF Orderly, UnscannedIsFresh, Fresh, NothingOpen
    <3> QED BY <1>0, <1>2, <2>3, <3>1 DEF Unscanned
  <2>5. NothingOpen(r)'
    BY <1>0, <2>1 DEF NothingOpen, OpenRow
  <2>6. UnscannedIsFresh(r)' /\ ParkedHasNothing(r)' /\ EnrichingHasARow(r)'
        /\ AskersAreOpen(r)' /\ CompleteHasNothingOpen(r)'
    BY <2>2, <2>4, <2>5 DEF UnscannedIsFresh, ParkedHasNothing, EnrichingHasARow,
       AskersAreOpen, CompleteHasNothingOpen, NothingOpen
  <2>7. ASSUME NEW b \in Handlers PROVE HandKnows(b, r)'
    <3>1. hand'[b].work = hand[b].work
      BY <1>2
    <3>2. hand[b].work \in RunKinds \X {r} => row'[hand[b].work] = b
      BY <1>0 DEF Orderly, HandKnows
    <3>3. hand[b].work # EnrichRow(r)
      BY <1>0, <2>1, RowsOfRun, RunAssumption DEF Orderly, HandKnows, NothingOpen, OpenRow
    <3> QED BY <2>5, <3>1, <3>2, <3>3 DEF HandKnows
  <2> QED BY <2>6, <2>7 DEF Orderly
<1> QED BY <1>3, <1>4

LEMMA CompleteOrderly ==
    ASSUME Preparation, NEW a \in Handlers, Complete(a),
           NEW r \in EnrichmentRuns \ troubled'
    PROVE  Orderly(r)'
<1> DEFINE w == hand[a].work
           kids == {k \in hand[a].next : k[1] = "research"}
           shut == [row EXCEPT ![w] = "closed"]
           some == Enqueued(shut, kids, TRUE)
<1>0. RunInvariant /\ Orderly(r) /\ UNCHANGED <<status, research, troubled, prepared>>
  BY DEF Preparation, Complete, Smooth
<1>1. hand[a].at = "complete" /\ w \in RowKeys
  BY <1>0, Types DEF Complete, HandsFit, Fits
<1>2. hand'[a] = AtRest /\ \A b \in Handlers \ {a} : hand'[b] = hand[b]
  BY <1>0, Types DEF Complete
<1>3. /\ row[w] = a => row' = Enqueued(some, hand[a].next \ kids, FALSE)
      /\ row[w] # a => row' = row
  BY DEF Complete
\* The rows of the run: its own is closed, that of run.finalize perhaps up.
<1>4. ASSUME NEW k \in RunKinds
      PROVE  \/ row'[<<k, r>>] = row[<<k, r>>]
             \/ /\ <<k, r>> = w /\ row[w] = a
                /\ row'[<<k, r>>] = "closed"
             \/ k = "finalize" /\ Finalizable(r) /\ row[<<k, r>>] = "none"
  <2>1. <<k, r>> \in RowKeys /\ <<k, r>> \notin kids
    BY KeysOfRows DEF RunKinds
  <2>2. <<k, r>> \in hand[a].next => k = "finalize" /\ Finalizable(r)
    BY <2>1 DEF Preparation, NextIsKnown, Finalizable, FinalizeRow
  <2>3. shut[<<k, r>>] = IF <<k, r>> = w THEN "closed" ELSE row[<<k, r>>]
    BY <1>0, <2>1, Types
  <2>4. some[<<k, r>>] = shut[<<k, r>>]
    <3> HIDE DEF shut, kids
    <3> QED BY <2>1 DEF Enqueued
  <2> HIDE DEF shut, kids, some, w
  <2> QED BY <1>3, <2>1, <2>2, <2>3, <2>4 DEF Enqueued
<1>5. a # "none" /\ a # "closed" /\ "none" \notin Handlers
  BY RunAssumption
<1>6. CASE w # PrepareRow(r) /\ w # EnrichRow(r)
  <2>1. ASSUME NEW k \in RunKinds
        PROVE  \/ row'[<<k, r>>] = row[<<k, r>>]
               \/ /\ row[<<k, r>>] \notin Handlers \ {a}
                  /\ \/ k \in {"process", "extract"} \/ SameUse(<<k, r>>)
                     \/ k = "finalize" /\ Finalizable(r)
    <3>1. CASE <<k, r>> = w /\ row[w] = a
      <4>1. k \in {"process", "extract", "finalize"}
        BY <1>6, <3>1 DEF PrepareRow, EnrichRow, RunKinds
      <4>2. k = "finalize" => Finalizable(r)
        BY <1>5, <3>1 DEF Finalizable, FinalizeRow
      <4> QED BY <3>1, <4>1, <4>2
    <3> QED BY <1>4, <1>5, <3>1
  <2> HIDE DEF w
  <2> QED BY <1>0, <1>2, <1>6, <2>1, StopsIsOrderly, RequestsKept, RequestsShow DEF w
<1>7. CASE w = PrepareRow(r) \/ w = EnrichRow(r)
  <2>1. row[w] = a /\ row'[w] = "closed"
    <3>1. row[w] = a
      BY <1>0, <1>7, RowsOfRun DEF Orderly, HandKnows
    <3> QED BY <1>4, <1>5, <1>7, <3>1, Types, <1>0, <1>3, <1>1
            DEF PrepareRow, EnrichRow, RunKinds, Enqueued
  <2>2. ASSUME NEW b \in Handlers PROVE b # a => hand[b].work # w /\ hand'[b] = hand[b]
    BY <1>0, <1>2, <1>7, <2>1, RowsOfRun DEF Orderly, HandKnows
  <2>3. /\ w = PrepareRow(r) => row'[EnrichRow(r)] = row[EnrichRow(r)]
        /\ w = EnrichRow(r) => row'[PrepareRow(r)] = row[PrepareRow(r)]
        /\ row'[FinalizeRow(r)] # "none" => Finalizable(r)
    BY <1>4, <1>5, <1>7, KeysDiffer
       DEF PrepareRow, EnrichRow, FinalizeRow, RunKinds, Finalizable
  <2>4. hand'[a].at = "rest" /\ hand'[a].work = <<>> /\ hand'[a].next = {}
    BY <1>2 DEF AtRest
  <2>5. Finalizable(r)' => Finalizable(r)
    BY <1>0, <1>2, <2>3, <2>4, RequestsKept DEF Finalizable
  <2>6. <<>> # PrepareRow(r) /\ <<>> # EnrichRow(r) /\ <<>> # FinalizeRow(r)
        /\ <<>> \notin RunKinds \X {r}
    BY DEF PrepareRow, EnrichRow, FinalizeRow
  <2>7. ~Unscanned(r)'
    <3>1. CASE w = PrepareRow(r)
      BY <2>1, <3>1 DEF Unscanned
    <3>2. CASE w = EnrichRow(r)
      <4>1. ~Unscanned(r)
        BY <1>0, <1>5, <2>1, <3>2 DEF Orderly, UnscannedIsFresh, Fresh
      <4>2. row'[PrepareRow(r)] = row[PrepareRow(r)]
        BY <2>3, <3>2
      <4> QED BY <1>2, <2>4, <2>6, <3>2, <4>1, <4>2, KeysDiffer DEF Unscanned
    <3> QED BY <1>7, <3>1, <3>2
  <2>8. Asking(r)' <=> Asking(r)
    <3>1. ASSUME NEW b \in Handlers
          PROVE  (hand'[b].at = "enqueue" /\ hand'[b].work = PrepareRow(r)) <=>
                 (hand[b].at = "enqueue" /\ hand[b].work = PrepareRow(r))
      BY <1>1, <1>2, <2>4
    <3> QED BY <3>1 DEF Asking
  <2>9. w = EnrichRow(r) => r \in prepared
    BY <1>0, <1>1 DEF Orderly, HandKnows
  <2>10. w = PrepareRow(r) => ~Asking(r)
    BY <1>1, <2>2 DEF Asking
  <2>11. NothingOpen(r)' <=> r \in prepared /\ (w = EnrichRow(r) => ~OpenRow(PrepareRow(r)))
                              /\ (w = PrepareRow(r) => ~OpenRow(EnrichRow(r)))
    BY <1>0, <1>7, <2>1, <2>3, KeysDiffer DEF NothingOpen, OpenRow
  <2>12. NothingOpen(r) => NothingOpen(r)'
    BY <2>11 DEF NothingOpen
  <2>13. UnscannedIsFresh(r)' /\ CompleteHasNothingOpen(r)'
    BY <1>0, <2>7, <2>12 DEF UnscannedIsFresh, Orderly, CompleteHasNothingOpen
  <2>14. ParkedHasNothing(r)'
    BY <1>0, <2>3, <2>5, <2>8, <2>9 , <1>7 DEF Orderly, ParkedHasNothing
  <2>15. EnrichingHasARow(r)' /\ AskersAreOpen(r)'
    BY <1>0, <1>7, <2>3, <2>5, <2>8, <2>9, <2>10
       DEF Orderly, EnrichingHasARow, AskersAreOpen, OpenRow
  <2>16. ASSUME NEW b \in Handlers PROVE HandKnows(b, r)'
    <3>1. CASE b = a
      BY <2>4, <2>6, <3>1 DEF HandKnows
    <3>2. CASE b # a
      <4>1. hand'[b] = hand[b] /\ hand[b].work # w
        BY <2>2, <3>2
      <4>2. hand[b].work \in RunKinds \X {r} => row'[hand[b].work] = b
        <5>1. SUFFICES ASSUME hand[b].work \in RunKinds \X {r} PROVE row'[hand[b].work] = b
          OBVIOUS
        <5>2. PICK k \in RunKinds : hand[b].work = <<k, r>>
          BY <5>1
        <5>3. row[<<k, r>>] = b /\ <<k, r>> # w
          BY <1>0, <4>1, <5>1, <5>2 DEF Orderly, HandKnows
        <5>4. row'[<<k, r>>] = row[<<k, r>>]
          BY <1>4, <1>5, <5>3
        <5> QED BY <5>2, <5>3, <5>4
      <4> QED BY <1>0, <2>12, <4>1, <4>2 DEF Orderly, HandKnows
    <3> QED BY <3>1, <3>2
  <2> QED BY <2>13, <2>14, <2>15, <2>16 DEF Orderly
<1> QED BY <1>6, <1>7

LEMMA DecideOrderly ==
    ASSUME Preparation, NEW q \in EnrichmentRuns, Decide(q),
           NEW r \in EnrichmentRuns \ troubled'
    PROVE  Orderly(r)'
<1>0. RunInvariant /\ Orderly(r) /\ UNCHANGED <<hand, research, troubled, prepared>>
  BY DEF Preparation, Decide, Smooth
<1>1. row' = Enqueued(row, {EnrichRow(q)}, TRUE)
  BY DEF Decide, EnrichRow
<1>2. \A k \in RunKinds : <<k, r>> # EnrichRow(q) => row'[<<k, r>>] = row[<<k, r>>]
  BY <1>1, KeysOfRows DEF Enqueued
<1>3. CASE r # q
  <2>1. \A k \in RunKinds : row'[<<k, r>>] = row[<<k, r>>]
    BY <1>2, <1>3 DEF EnrichRow
  <2>2. status'[r] = status[r]
    BY <1>0, <1>3, Types DEF Decide
  <2> QED BY <1>0, <2>1, <2>2, RowStepIsOrderly, RequestsKept, RequestsShow
<1>4. CASE r = q
  <2>1. status[r] = "awaiting_prior_enrichment" /\ status'[r] = "enriching"
    BY <1>0, <1>4, Types DEF Decide
  <2>2. r \notin prepared /\ row[EnrichRow(r)] = "none" /\ ~Finalizable(r)
    BY <1>0, <2>1 DEF Orderly, ParkedHasNothing
  <2>3. row'[EnrichRow(r)] = "pending"
    BY <1>1, <1>4, <2>2, KeysOfRows DEF Enqueued, EnrichRow, RunKinds
  <2>4. row'[PrepareRow(r)] = row[PrepareRow(r)] /\ row'[FinalizeRow(r)] = row[FinalizeRow(r)]
    BY <1>2, KeysDiffer DEF PrepareRow, FinalizeRow, RunKinds
  <2>5. ~Finalizable(r)'
    BY <1>0, <2>2, <2>4, RequestsKept DEF Finalizable
  <2>6. ~Unscanned(r)'
    <3>1. ~Unscanned(r)
      BY <1>0, <2>1 DEF Orderly, UnscannedIsFresh, Fresh
    <3> QED BY <1>0, <2>4, <3>1 DEF Unscanned
  <2>7. "none" \notin Handlers
    BY RunAssumption
  <2>8. ASSUME NEW b \in Handlers PROVE HandKnows(b, r)'
    <3>1. hand[b].work # EnrichRow(r) /\ hand[b].work # FinalizeRow(r)
      BY <1>0, <2>2, <2>7, RowsOfRun, FreeRowHasNoHand DEF Finalizable
    <3>2. hand[b].work \in RunKinds \X {r} => row'[hand[b].work] = b
      BY <1>0, <1>2, <1>4, <3>1 DEF Orderly, HandKnows
    <3> QED BY <1>0, <3>1, <3>2 DEF HandKnows
  <2>9. UnscannedIsFresh(r)' /\ ParkedHasNothing(r)' /\ EnrichingHasARow(r)'
        /\ AskersAreOpen(r)' /\ CompleteHasNothingOpen(r)'
    BY <2>1, <2>3, <2>5, <2>6 DEF UnscannedIsFresh, ParkedHasNothing, EnrichingHasARow,
       AskersAreOpen, CompleteHasNothingOpen, OpenRow
  <2> QED BY <2>8, <2>9 DEF Orderly
<1> QED BY <1>3, <1>4

LEMMA CancelRunOrderly ==
    ASSUME Preparation, NEW q \in EnrichmentRuns, CancelRun(q),
           NEW r \in EnrichmentRuns \ troubled'
    PROVE  Orderly(r)'
<1>0. RunInvariant /\ Orderly(r) /\ UNCHANGED <<hand, row, prepared>> /\ r # q
  BY DEF Preparation, CancelRun
<1>1. status'[r] = status[r]
  BY <1>0, Types DEF CancelRun
<1>2. Requests(r)' \subseteq Requests(r)
  BY <1>0, Types DEF CancelRun, Requests
<1> QED BY <1>0, <1>1, <1>2, RowStepIsOrderly, RequestsShow

LEMMA CancelScopeOrderly ==
    ASSUME Preparation, NEW q \in EnrichmentRuns, CancelScope(q),
           NEW r \in EnrichmentRuns \ troubled'
    PROVE  Orderly(r)'
<1>0. RunInvariant /\ Orderly(r) /\ UNCHANGED <<hand, status, research, prepared>> /\ r # q
  BY DEF Preparation, CancelScope, Smooth
<1>1. ASSUME NEW k \in RunKinds PROVE row'[<<k, r>>] = row[<<k, r>>]
  <2>1. <<k, r>> \in RowKeys /\ <<k, r>> \notin ScopeRows(q) \cup {<<"finalize", q>>}
    BY <1>0, KeysOfRows DEF ScopeRows, RunKinds
  <2> QED BY <2>1 DEF CancelScope
<1> QED BY <1>0, <1>1, RowStepIsOrderly, RequestsKept, RequestsShow

LEMMA GivesUpOrderly ==
    ASSUME Preparation, NEW q \in EnrichmentRuns, PrepareGivesUp(q) \/ FinalizeGivesUp(q),
           NEW r \in EnrichmentRuns \ troubled'
    PROVE  Orderly(r)'
<1>0. RunInvariant /\ Orderly(r) /\ UNCHANGED <<hand, research, prepared>> /\ r # q
  BY DEF Preparation, PrepareGivesUp, FinalizeGivesUp
<1>1. status'[r] = status[r]
  BY <1>0, Types DEF PrepareGivesUp, FinalizeGivesUp
<1>2. \A k \in RunKinds : row'[<<k, r>>] = row[<<k, r>>]
  BY <1>0, Types, KeysOfRows DEF PrepareGivesUp, FinalizeGivesUp
<1> QED BY <1>0, <1>1, <1>2, RowStepIsOrderly, RequestsKept, RequestsShow

LEMMA ResearchSweptOrderly ==
    ASSUME Preparation, NEW c \in ResearchKeys,
           ResetInFlight(c) \/ DispatchPending(c) \/ Ages(c),
           NEW r \in EnrichmentRuns \ troubled'
    PROVE  Orderly(r)'
<1>0. RunInvariant /\ Orderly(r) /\ UNCHANGED <<hand, status, prepared>>
  BY DEF Preparation, ResetInFlight, DispatchPending, Ages, Swept, Smooth
<1>1. Requests(r)' = Requests(r)
  <2>1. CASE ResetInFlight(c)
    BY <1>0, <2>1, FinishedJobRequests DEF ResetInFlight
  <2>2. CASE DispatchPending(c)
    BY <2>2, RequestsKept DEF DispatchPending
  <2>3. CASE Ages(c)
    <3>1. \A d \in ResearchKeys : research'[d].by = research[d].by
      BY <1>0, <2>3, Types DEF Ages, ResearchJob
    <3> QED BY <3>1 DEF Requests
  <2> QED BY <2>1, <2>2, <2>3
<1>2. \A k \in RunKinds : row'[<<k, r>>] = row[<<k, r>>]
  BY KeysOfRows DEF ResetInFlight, DispatchPending, Ages, Enqueued, RunKinds
<1> QED BY <1>0, <1>1, <1>2, RowStepIsOrderly, RequestsShow

LEMMA ProcessInterruptedOrderly ==
    ASSUME Preparation, NEW q \in EnrichmentRuns, ProcessInterrupted(q),
           NEW r \in EnrichmentRuns \ troubled'
    PROVE  Orderly(r)'
<1>0. RunInvariant /\ Orderly(r) /\ UNCHANGED <<hand, status, research, prepared>>
  BY DEF Preparation, ProcessInterrupted, Swept, Smooth
<1>1. \A k \in RunKinds : \/ row'[<<k, r>>] = row[<<k, r>>]
                          \/ k = "process" /\ row[<<k, r>>] \notin Handlers
  BY KeysOfRows, RunAssumption DEF ProcessInterrupted, Enqueued
<1> QED BY <1>0, <1>1, RowStepIsOrderly, RequestsKept, RequestsShow

LEMMA FinalizeTerminalOrderly ==
    ASSUME Preparation, NEW q \in EnrichmentRuns, FinalizeTerminal(q),
           NEW r \in EnrichmentRuns \ troubled'
    PROVE  Orderly(r)'
<1>0. RunInvariant /\ Orderly(r) /\ UNCHANGED <<hand, status, research, prepared>>
  BY DEF Preparation, FinalizeTerminal, Swept, Smooth
<1>1. row' = Enqueued(row, {FinalizeRow(q)}, TRUE)
  BY DEF FinalizeTerminal, FinalizeRow
<1>2. \A k \in RunKinds : <<k, r>> # FinalizeRow(q) => row'[<<k, r>>] = row[<<k, r>>]
  BY <1>1, KeysOfRows DEF Enqueued
<1>3. CASE r # q
  <2>1. \A k \in RunKinds : row'[<<k, r>>] = row[<<k, r>>]
    BY <1>2, <1>3 DEF FinalizeRow
  <2> QED BY <1>0, <2>1, RowStepIsOrderly, RequestsKept, RequestsShow
\* An enriching run without an open row has asked for all its companies.
<1>4. CASE r = q
  <2>1. status[r] = "enriching" /\ ~OpenRow(EnrichRow(r)) /\ ~OpenRow(FinalizeRow(r))
    BY <1>4 DEF FinalizeTerminal, canFinalizeEnrichingRun, ScopeRows, RunKinds, EnrichRow,
       FinalizeRow
  <2>2. r \in prepared
    BY <1>0, <2>1 DEF Orderly, EnrichingHasARow
  <2>3. row'[PrepareRow(r)] = row[PrepareRow(r)] /\ row'[EnrichRow(r)] = row[EnrichRow(r)]
    BY <1>2, KeysDiffer DEF PrepareRow, EnrichRow, RunKinds
  <2>4. ~Unscanned(r)'
    <3>1. ~Unscanned(r)
      BY <1>0, <2>1 DEF Orderly, UnscannedIsFresh, Fresh
    <3> QED BY <1>0, <2>3, <3>1 DEF Unscanned
  <2>5. ASSUME NEW b \in Handlers PROVE HandKnows(b, r)'
    <3>1. row[FinalizeRow(r)] \notin Handlers
      BY <2>1, RunAssumption DEF OpenRow
    <3>2. hand[b].work # FinalizeRow(r)
      BY <1>0, <3>1, RowsOfRun, FreeRowHasNoHand
    <3>3. hand[b].work \in RunKinds \X {r} => row'[hand[b].work] = b
      BY <1>0, <1>2, <1>4, <3>2 DEF Orderly, HandKnows
    <3> QED BY <1>0, <3>2, <3>3 DEF Orderly, HandKnows
  <2>6. UnscannedIsFresh(r)' /\ ParkedHasNothing(r)' /\ EnrichingHasARow(r)'
        /\ AskersAreOpen(r)' /\ CompleteHasNothingOpen(r)'
    BY <1>0, <2>1, <2>2, <2>4 DEF UnscannedIsFresh, ParkedHasNothing, EnrichingHasARow,
       AskersAreOpen, CompleteHasNothingOpen
  <2> QED BY <2>5, <2>6 DEF Orderly
<1> QED BY <1>3, <1>4

LEMMA ReclaimsOrderly ==
    ASSUME Preparation, NEW w \in RowKeys, Reclaims(w),
           NEW r \in EnrichmentRuns \ troubled'
    PROVE  Orderly(r)'
<1>0. RunInvariant /\ Orderly(r) /\ UNCHANGED <<hand, status, research, prepared>>
  BY DEF Preparation, Reclaims, Swept, Smooth
<1>1. \A k \in RunKinds : \/ row'[<<k, r>>] = row[<<k, r>>]
                          \/ row[<<k, r>>] \notin Handlers /\ SameUse(<<k, r>>)
  BY <1>0, Types, KeysOfRows, RunAssumption DEF Reclaims, SameUse
<1> QED BY <1>0, <1>1, RowStepIsOrderly, RequestsKept, RequestsShow

LEMMA CrashHandlerOrderly ==
    ASSUME Preparation, NEW a \in Handlers, CrashHandler(a),
           NEW r \in EnrichmentRuns \ troubled'
    PROVE  Orderly(r)'
<1> DEFINE w == hand[a].work
<1>0. RunInvariant /\ Orderly(r) /\ UNCHANGED <<status, research, prepared>>
  BY DEF Preparation, CrashHandler
<1>1. hand'[a] = AtRest /\ \A b \in Handlers \ {a} : hand'[b] = hand[b]
  BY <1>0, Types DEF CrashHandler
<1>2. /\ row' = IF row[w] = a THEN [row EXCEPT ![w] = Dead] ELSE row
      /\ w[1] = "prepare" /\ hand[a].at # "scan" => r \notin OfRun(w)
  BY DEF CrashHandler
<1>3. \A k \in RunKinds : \/ row'[<<k, r>>] = row[<<k, r>>]
                          \/ /\ <<k, r>> = w /\ row[w] = a
                             /\ row[<<k, r>>] \notin Handlers \ {a} /\ SameUse(<<k, r>>)
  BY <1>0, <1>2, Types, KeysOfRows, RunAssumption DEF SameUse
<1>4. CASE w # PrepareRow(r)
  BY <1>0, <1>1, <1>3, <1>4, StopsIsOrderly, RequestsKept, RequestsShow
<1>5. CASE w = PrepareRow(r)
  <2>1. hand[a].at = "scan"
    BY <1>2, <1>5 DEF PrepareRow, OfRun, RunKinds
  <2>2. row[w] = a /\ a # "closed"
    BY <1>0, <1>5, RowsOfRun, RunAssumption DEF Orderly, HandKnows
  <2>3. \A b \in Handlers : hand[b].work = w => b = a
    BY <1>0, <1>5, <2>2, RowsOfRun DEF Orderly, HandKnows
  <2>4. Fresh(r)
    <3>1. Unscanned(r)
      BY <1>5, <2>1, <2>2, <2>3 DEF Unscanned
    <3> QED BY <1>0, <3>1 DEF Orderly, UnscannedIsFresh
  <2>5. row'[EnrichRow(r)] = row[EnrichRow(r)] /\ row'[FinalizeRow(r)] = row[FinalizeRow(r)]
    BY <1>3, <1>5, KeysDiffer DEF EnrichRow, FinalizeRow, RunKinds
  <2>6. hand'[a].work = <<>> /\ hand'[a].next = {} /\ <<>> \notin RunKinds \X {r}
    BY <1>1 DEF AtRest
  <2>7. Fresh(r)'
    BY <1>0, <1>1, <2>4, <2>5, <2>6, RequestsKept DEF Fresh, Finalizable
  <2>8. ASSUME NEW b \in Handlers, hand'[b].work \in RunKinds \X {r}
        PROVE  row'[hand'[b].work] = b
    <3>1. b # a /\ hand'[b] = hand[b]
      BY <1>1, <2>6, <2>8
    <3>2. PICK k \in RunKinds : hand[b].work = <<k, r>>
      BY <2>8, <3>1
    <3>3. row[<<k, r>>] = b /\ <<k, r>> # w
      BY <1>0, <2>3, <2>8, <3>1, <3>2 DEF Orderly, HandKnows
    <3> QED BY <1>3, <3>1, <3>2, <3>3
  <2> QED BY <2>7, <2>8, FreshIsOrderly
<1> QED BY <1>4, <1>5

\* A run in trouble has left the promise.
LEMMA TroubleOrderly ==
    ASSUME Preparation, NEW a \in Handlers, LosesRow(a) \/ Throws(a),
           NEW r \in EnrichmentRuns \ troubled'
    PROVE  Orderly(r)'
<1> DEFINE w == hand[a].work
<1>0. RunInvariant /\ Orderly(r) /\ UNCHANGED <<research, prepared>>
  BY DEF Preparation, LosesRow, Throws
<1>1. r \notin OfRun(w) /\ hand[a] # AtRest
  BY DEF LosesRow, Throws
<1>2. w \in RowKeys
  BY <1>0, <1>1, Types DEF HandsFit, Fits, Hand
<1>3. \A k \in RunKinds : <<k, r>> # w
  BY <1>1 DEF OfRun
<1>4. \A k \in RunKinds : row'[<<k, r>>] = row[<<k, r>>]
  BY <1>0, <1>3, Types, KeysOfRows DEF LosesRow, Throws, PutBack
<1>5. status'[r] = status[r]
  <2>1. CASE w[1] \in MarkedKinds
    <3>1. w[1] \in RunKinds
      BY <2>1 DEF MarkedKinds, RunKinds
    <3>2. w[2] # r
      BY <1>1, <3>1 DEF OfRun
    <3> QED BY <1>0, <3>2, Types DEF LosesRow, Throws
  <2>2. CASE w[1] \notin MarkedKinds
    BY <2>2 DEF LosesRow, Throws
  <2> QED BY <2>1, <2>2
<1>6. CASE LosesRow(a)
  <2>1. UNCHANGED hand
    BY <1>6 DEF LosesRow
  <2> QED BY <1>0, <1>4, <1>5, <2>1, RowStepIsOrderly, RequestsKept, RequestsShow
<1>7. CASE Throws(a)
  <2>1. hand'[a] = AtRest /\ \A b \in Handlers \ {a} : hand'[b] = hand[b]
    BY <1>0, <1>7, Types DEF Throws
  <2>2. w # PrepareRow(r)
    BY <1>3 DEF PrepareRow, RunKinds
  <2> QED BY <1>0, <1>4, <1>5, <2>1, <2>2, StopsIsOrderly, RequestsKept, RequestsShow
<1> QED BY <1>6, <1>7

-----------------------------------------------------------------------------
\* The other parts of the invariant.

LEMMA NextStaysKnown ==
    ASSUME Preparation, [RunNext]_runVars PROVE NextIsKnown'
<1>0. RunInvariant /\ NextIsKnown
  BY DEF Preparation
<1>1. SUFFICES ASSUME NEW a \in Handlers
               PROVE  \A k \in hand'[a].next : k[1] \in {"finalize", "research"}
  BY DEF NextIsKnown
<1> DEFINE Known == \/ hand'[a].next = hand[a].next \/ hand'[a].next = {}
                    \/ \A k \in hand'[a].next : k[1] \in {"finalize", "research"}
<1>2. AtRest.next = {} /\ \A w, at : Doing(w, at).next = {}
  BY DEF AtRest, Doing
<1>3. ASSUME NEW b \in Handlers, NEW w \in RowKeys, Begins(b, w) PROVE Known
  <2>0. ASSUME NEW v, NEW at, NEW t
        PROVE  /\ [Doing(v, at) EXCEPT !.todo = t].next = {}
               /\ [Doing(v, at) EXCEPT !.active = t].next = {}
    BY DEF Doing, AtRest
  <2>1. ASSUME NEW h, h.next = {}, UNCHANGED hand \/ hand' = [hand EXCEPT ![b] = h]
        PROVE  Known
    BY <1>0, <2>1, Types
  <2> HIDE DEF Known
  <2>2. ASSUME NEW r \in EnrichmentRuns, Process(b, r) PROVE Known
    BY <1>2, <2>1, <2>2 DEF Process, Skips
  <2>3. ASSUME NEW r \in EnrichmentRuns, Extract(b, r) PROVE Known
    BY <1>2, <2>1, <2>3 DEF Extract, Skips, Holds
  <2>4. ASSUME NEW r \in EnrichmentRuns, Prepare(b, r) PROVE Known
    BY <1>2, <2>1, <2>4 DEF Prepare, Skips, Holds
  <2>5. ASSUME NEW r \in EnrichmentRuns, Finalize(b, r) PROVE Known
    BY <1>2, <2>1, <2>5 DEF Finalize, Skips, Holds
  <2>6. ASSUME NEW r \in EnrichmentRuns, Enrich(b, r) PROVE Known
    <3>1. CASE UNCHANGED hand
      BY <1>2, <2>1, <3>1
    <3>2. ASSUME NEW t, hand' = [hand EXCEPT ![b] = [Doing(<<"enrich", r>>, "enqueue")
                                                       EXCEPT !.todo = t]]
          PROVE  Known
      BY <2>0, <2>1, <3>2
    <3> QED BY <2>6, <3>1, <3>2 DEF Enrich, Skips
  <2>7. ASSUME NEW c \in ResearchKeys, ResearchClaimed(b, c) PROVE Known
    <3>1. hand' = [hand EXCEPT ![b] = [Doing(<<"research", c>>, "research")
                                         EXCEPT !.active = LiveRuns(c)]]
      BY <2>7 DEF ResearchClaimed, Holds
    <3> QED BY <2>0, <2>1, <3>1
  <2>8. ASSUME NEW c \in ResearchKeys, ResearchSkipped(b, c) PROVE Known
    BY <1>2, <2>1, <2>8 DEF ResearchSkipped
  <2> QED BY <1>3, <2>2, <2>3, <2>4, <2>5, <2>6, <2>7, <2>8 DEF Begins
<1>4. ASSUME NEW b \in Handlers, Goes(b) \/ ResearchFails(b) PROVE Known
  <2>1. CASE \/ Extracted(b) \/ Complete(b) \/ Retries(b)
    BY <1>0, <1>2, <2>1, Types DEF Extracted, Complete, Retries
  <2>2. CASE Scanned(b) \/ FinalizeWrites(b) \/ \E c \in ResearchKeys : AskFor(b, c)
    <3>1. hand'[a].next = hand[a].next
      <4>1. CASE Scanned(b)
        BY <1>0, <4>1, Types DEF Scanned, Asks, Hand
      <4>2. CASE FinalizeWrites(b)
        BY <1>0, <4>2, Types DEF FinalizeWrites, Hand
      <4>3. ASSUME NEW c \in ResearchKeys, AskFor(b, c) PROVE hand'[a].next = hand[a].next
        BY <1>0, <4>3, Types DEF AskFor, Hand
      <4> QED BY <2>2, <4>1, <4>2, <4>3
    <3> QED BY <3>1
  <2>3. CASE AllAsked(b)
    <3> DEFINE next == IF hand[b].asked = {} THEN {<<"finalize", hand[b].work[2]>>}
                       ELSE {<<"research", c>> : c \in hand[b].asked}
    <3>1. hand' = [hand EXCEPT ![b] = [Doing(hand[b].work, "complete") EXCEPT !.next = next]]
      BY <1>0, <2>3, Types DEF AllAsked
    <3>2. [Doing(hand[b].work, "complete") EXCEPT !.next = next].next = next
      BY DEF Doing, AtRest
    <3>3. \A k \in next : k[1] \in {"finalize", "research"}
      OBVIOUS
    <3> HIDE DEF next
    <3> QED BY <1>0, <3>1, <3>2, <3>3, Types
  <2>4. CASE \E s : Finishes(b, s)
    <3> DEFINE next == Finalizes(hand[b].work[2])
    <3>1. hand' = [hand EXCEPT ![b] = [Doing(hand[b].work, "complete") EXCEPT !.next = next]]
      BY <1>0, <2>4, Types DEF Finishes
    <3>2. [Doing(hand[b].work, "complete") EXCEPT !.next = next].next = next
      BY DEF Doing, AtRest
    <3>3. \A k \in next : k[1] \in {"finalize", "research"}
      BY DEF Finalizes
    <3> HIDE DEF next
    <3> QED BY <1>0, <3>1, <3>2, <3>3, Types
  <2> QED BY <1>4, <2>1, <2>2, <2>3, <2>4 DEF Goes, Researched, ResearchFails
<1>5. ASSUME UNCHANGED hand PROVE Known
  BY <1>5
<1>6. ASSUME NEW b \in Handlers, CrashHandler(b) \/ Throws(b) PROVE Known
  BY <1>0, <1>2, <1>6, Types DEF CrashHandler, Throws
<1>7. Known
  <2> HIDE DEF Known
  <2> QED BY <1>3, <1>4, <1>5, <1>6
          DEF RunNext, PrepareGivesUp, FinalizeGivesUp, Decide, CancelRun, CancelScope,
              Reconcile, ResetInFlight, DispatchPending, FinalizeTerminal,
              ProcessInterrupted, Swept, WeekPasses, Ages, Reclaims, LosesRow, runVars
<1> QED BY <1>0, <1>7 DEF NextIsKnown

LEMMA MarksStay ==
    ASSUME Preparation, [RunNext]_runVars
    PROVE  troubled \subseteq troubled' /\ cancelling' \subseteq troubled'
<1>0. cancelling \subseteq troubled
  BY DEF Preparation
<1>1. CASE UNCHANGED <<troubled, cancelling>>
  BY <1>0, <1>1
<1>2. CASE \E b \in Handlers : CrashHandler(b) \/ LosesRow(b) \/ Throws(b)
  BY <1>0, <1>2 DEF CrashHandler, LosesRow, Throws
<1>3. CASE \E q \in EnrichmentRuns :
              CancelRun(q) \/ CancelScope(q) \/ PrepareGivesUp(q) \/ FinalizeGivesUp(q)
  BY <1>0, <1>3 DEF CancelRun, CancelScope, PrepareGivesUp, FinalizeGivesUp, Smooth
<1>4. ASSUME NEW b \in Handlers, NEW w \in RowKeys, Begins(b, w)
      PROVE  UNCHANGED <<troubled, cancelling>>
  BY <1>4 DEF Begins, Process, Extract, Prepare, Enrich, Finalize, ResearchClaimed,
     ResearchSkipped, Smooth
<1>5. ASSUME NEW b \in Handlers, Goes(b) \/ ResearchFails(b)
      PROVE  UNCHANGED <<troubled, cancelling>>
  BY <1>5 DEF Goes, Extracted, Scanned, AskFor, AllAsked, Researched, FinalizeWrites,
     Complete, ResearchFails, Smooth
<1>6. CASE \/ Reconcile \/ (\E c \in ResearchKeys : Ages(c))
           \/ (\E w \in RowKeys : Reclaims(w)) \/ UNCHANGED runVars
           \/ (\E q \in EnrichmentRuns : Decide(q) \/ WeekPasses(q))
  BY <1>1, <1>6 DEF Reconcile, ResetInFlight, DispatchPending, FinalizeTerminal,
     ProcessInterrupted, Swept, WeekPasses, Ages, Reclaims, Decide, Smooth, runVars
<1> QED BY <1>1, <1>2, <1>3, <1>4, <1>5, <1>6 DEF RunNext

LEMMA UnmovedOrderly ==
    ASSUME Preparation, UNCHANGED runVars \/ (\E q \in EnrichmentRuns : WeekPasses(q)),
           NEW r \in EnrichmentRuns \ troubled'
    PROVE  Orderly(r)'
<1>1. Orderly(r) /\ UNCHANGED <<hand, status, prepared, row, research>>
  BY DEF Preparation, WeekPasses, runVars
<1> QED BY <1>1, RowStepIsOrderly, RequestsKept, RequestsShow

LEMMA PreparationKept == Preparation /\ [RunNext]_runVars => Preparation'
<1>1. SUFFICES ASSUME Preparation, [RunNext]_runVars PROVE Preparation'
  OBVIOUS
<1>2. RunInvariant' /\ NextIsKnown' /\ (cancelling \subseteq troubled)'
  BY <1>1, RunInvariantKept, NextStaysKnown, MarksStay DEF Preparation
<1>3. ASSUME NEW r \in EnrichmentRuns \ troubled' PROVE Orderly(r)'
  <2>1. ASSUME NEW a \in Handlers, NEW w \in RowKeys, Begins(a, w) PROVE Orderly(r)'
    BY <1>1, <1>3, <2>1, ProcessOrderly, ExtractOrderly, PrepareOrderly, EnrichOrderly,
       FinalizeOrderly, ResearchClaimedOrderly, ResearchSkippedOrderly DEF Begins
  <2>2. ASSUME NEW a \in Handlers, Goes(a) PROVE Orderly(r)'
    BY <1>1, <1>3, <2>2, ExtractedOrderly, ScannedOrderly, AskForOrderly, AllAskedOrderly,
       ResearchedOrderly, FinalizeWritesOrderly, CompleteOrderly DEF Goes
  <2>3. ASSUME NEW q \in EnrichmentRuns,
               \/ PrepareGivesUp(q) \/ FinalizeGivesUp(q)
               \/ Decide(q) \/ CancelRun(q) \/ CancelScope(q)
        PROVE  Orderly(r)'
    BY <1>1, <1>3, <2>3, GivesUpOrderly, DecideOrderly, CancelRunOrderly, CancelScopeOrderly
  <2>4. CASE \/ Reconcile \/ (\E c \in ResearchKeys : Ages(c))
             \/ (\E w \in RowKeys : Reclaims(w))
    BY <1>1, <1>3, <2>4, ResearchSweptOrderly, ProcessInterruptedOrderly,
       FinalizeTerminalOrderly, ReclaimsOrderly DEF Reconcile
  <2>5. ASSUME NEW a \in Handlers,
               ResearchFails(a) \/ CrashHandler(a) \/ LosesRow(a) \/ Throws(a)
        PROVE  Orderly(r)'
    BY <1>1, <1>3, <2>5, ResearchedOrderly, CrashHandlerOrderly, TroubleOrderly
  <2> QED BY <1>1, <1>3, <2>1, <2>2, <2>3, <2>4, <2>5, UnmovedOrderly DEF RunNext
<1> QED BY <1>2, <1>3 DEF Preparation

LEMMA PreparationAtFirst == RunInit => Preparation
<1>1. SUFFICES ASSUME RunInit PROVE Preparation
  OBVIOUS
<1>2. RunInvariant /\ cancelling \subseteq troubled
  BY <1>1, RunInvariantAtFirst DEF RunInit
<1>3. \A a \in Handlers : hand[a].work = <<>> /\ hand[a].next = {}
  BY <1>1 DEF RunInit, AtRest
<1>4. NextIsKnown
  BY <1>3 DEF NextIsKnown
<1>5. ASSUME NEW r \in EnrichmentRuns PROVE Orderly(r)
  <2>1. /\ status[r] = "queued" /\ prepared = {} /\ Requests(r) = {}
        /\ row[EnrichRow(r)] = "none" /\ row[FinalizeRow(r)] = "none"
    <3>1. status[r] = "queued" /\ prepared = {}
      BY <1>1 DEF RunInit
    <3>2. Requests(r) = {}
      <4>1. \A c \in ResearchKeys : research[c].by = <<>>
        BY <1>1 DEF RunInit
      <4> QED BY <4>1 DEF Requests
    <3>3. EnrichRow(r) \in RowKeys /\ FinalizeRow(r) \in RowKeys
      BY KeysOfRows DEF EnrichRow, FinalizeRow, RunKinds
    <3>4. EnrichRow(r)[1] # "process" /\ FinalizeRow(r)[1] # "process"
      BY DEF EnrichRow, FinalizeRow
    <3> HIDE DEF EnrichRow, FinalizeRow
    <3>5. row[EnrichRow(r)] = "none" /\ row[FinalizeRow(r)] = "none"
      BY <1>1, <3>3, <3>4 DEF RunInit
    <3> QED BY <3>1, <3>2, <3>5
  <2>2. Fresh(r)
    BY <1>3, <2>1 DEF Fresh, Finalizable
  <2>3. <<>> \notin RunKinds \X {r} /\ <<>> # EnrichRow(r) /\ <<>> # FinalizeRow(r)
    BY DEF EnrichRow, FinalizeRow
  <2>4. \A a \in Handlers : HandKnows(a, r)
    BY <1>3, <2>3 DEF HandKnows
  <2> QED BY <2>1, <2>2, <2>4 DEF Orderly, UnscannedIsFresh, ParkedHasNothing,
          EnrichingHasARow, AskersAreOpen, CompleteHasNothingOpen, Fresh
<1> QED BY <1>2, <1>4, <1>5 DEF Preparation

LEMMA PreparationHolds == RunSpec => []Preparation
BY PreparationAtFirst, PreparationKept, PTL DEF RunSpec

-----------------------------------------------------------------------------
\* No run is complete before all its companies were asked for: the status that
\* invites the sweep is never without an open row or the asking behind it.
THEOREM RunsArePreparedBeforeComplete == RunSpec => []PreparedBeforeComplete
<1>1. Preparation => PreparedBeforeComplete
  BY DEF Preparation, PreparedBeforeComplete, Orderly, CompleteHasNothingOpen, NothingOpen
<1> QED BY <1>1, PreparationHolds, PTL

\* A run that is complete has no row left that could open or fail it: the scan
\* is behind it, and run.finalize took turns with everything that asks.
THEOREM FinishedRunsStay == RunSpec => FinishedRunStays
<1>1. ASSUME Preparation, [RunNext]_runVars,
             NEW r \in EnrichmentRuns \ troubled', status[r] = "complete"
      PROVE  status'[r] = "complete"
  <2>0. RunInvariant /\ Orderly(r) /\ NothingOpen(r)
    BY <1>1, MarksStay DEF Preparation, Orderly, CompleteHasNothingOpen
  <2>1. CASE UNCHANGED status
    BY <1>1, <2>1
  <2>2. ASSUME NEW a \in Handlers, NEW w \in RowKeys, Begins(a, w) PROVE status'[r] = "complete"
    BY <1>1, <2>0, <2>2, Types DEF Begins, Process, Over, Extract, Prepare, Enrich, Finalize,
       ResearchClaimed, ResearchSkipped
  <2>3. ASSUME NEW a \in Handlers, Scanned(a) PROVE status'[r] = "complete"
    <3>1. CASE hand[a].work[2] # r
      BY <1>1, <2>0, <2>3, <3>1, Types DEF Scanned
    <3>2. CASE hand[a].work[2] = r
      <4>1. hand[a].work = PrepareRow(r)
        BY <2>0, <2>3, <3>2, Types DEF Scanned, HandsFit, Fits, PrepareRow
      <4>2. row[PrepareRow(r)] = a
        BY <2>0, <4>1, RowsOfRun DEF Orderly, HandKnows
      <4> QED BY <2>0, <4>2, RunAssumption DEF NothingOpen, OpenRow
    <3> QED BY <3>1, <3>2
  <2>4. ASSUME NEW a \in Handlers, AllAsked(a) PROVE status'[r] = "complete"
    <3>1. CASE hand[a].work[2] # r
      BY <1>1, <2>0, <2>4, <3>1, Types DEF AllAsked
    <3>2. CASE hand[a].work[2] = r
      BY <1>1, <2>0, <2>4, <3>2, AskersHoldARow DEF AllAsked
    <3> QED BY <3>1, <3>2
  <2>5. ASSUME NEW a \in Handlers, FinalizeWrites(a) PROVE status'[r] = "complete"
    BY <1>1, <2>0, <2>5, Types DEF FinalizeWrites
  <2>6. ASSUME NEW q \in EnrichmentRuns,
               \/ PrepareGivesUp(q) \/ FinalizeGivesUp(q)
               \/ Decide(q) \/ CancelRun(q) \/ CancelScope(q)
        PROVE  status'[r] = "complete"
    BY <1>1, <2>0, <2>6, Types DEF PrepareGivesUp, FinalizeGivesUp, Decide, CancelRun,
       CancelScope
  <2>7. ASSUME NEW a \in Handlers, Throws(a) PROVE status'[r] = "complete"
    BY <1>1, <2>0, <2>7, Types DEF Throws, OfRun, MarkedKinds, RunKinds
  <2> QED BY <1>1, <2>1, <2>2, <2>3, <2>4, <2>5, <2>6, <2>7
          DEF RunNext, Goes, Extracted, AskFor, Researched, Complete, Reconcile,
              ResetInFlight, DispatchPending, FinalizeTerminal, ProcessInterrupted, Swept,
              WeekPasses, Ages, Reclaims, ResearchFails, CrashHandler, LosesRow, runVars
<1>2. Preparation /\ [RunNext]_runVars =>
        [\A r \in EnrichmentRuns \ troubled' :
           status[r] = "complete" => status'[r] = "complete"]_runVars
  BY <1>1
<1> QED BY <1>2, PreparationHolds, PTL DEF RunSpec, FinishedRunStays

=============================================================================
