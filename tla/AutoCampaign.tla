----------------------------- MODULE AutoCampaign -----------------------------
(***************************************************************************)
(* The daily cycle of the auto campaigns: auto.cycle searches for people,  *)
(* pays to enrich those nobody has stored, and attaches the verified ones  *)
(* to the campaign until the quota of the day is met, widening the search  *)
(* when a page comes back empty.  The campaign's row carries the cursor    *)
(* from cycle to cycle; the user edits the same row.                       *)
(*                                                                         *)
(* A cycle keeps what it has read (its snapshot of the campaign, the       *)
(* people known, the day) and writes between awaits of the database and    *)
(* the provider.  The people are numbered as the search returns them.      *)
(* Drafting and sending of those attached belong to other modules.         *)
(***************************************************************************)
EXTENDS Integers, FiniteSets

CONSTANTS
    Campaigns,
    Crowd,          \* how many people the search can find
    Reach,          \* per person: the expansion step from which on it is found
    Verified,       \* people whose enrichment returns a verified email
    Mailed,         \* people whose address is in the send queue already
    Quota,          \* per campaign: emails_per_day
    LastDay,
    Weekdays,
    Cycles,     \* executions of auto.cycle at a time
    PerPage,        \* APOLLO_SEARCH_PER_PAGE
    Batch,          \* APOLLO_ENRICH_BATCH
    MaxPages,       \* APOLLO_MAX_SEARCH_PAGES_PER_CYCLE
    MaxStep,        \* MAX_EXPANSION_STEP
    ThinDays,       \* THIN_DAYS_BEFORE_EXHAUST
    MaxFailures,     \* bound: errors, crashes and lapses
    MaxEdits        \* bound: requests of the user

People == 1..Crowd     \* in the order of the search
Days   == 1..LastDay

ASSUME CampaignAssumption ==
    /\ Crowd \in Nat /\ LastDay \in Nat \ {0}
    /\ Reach \in [People -> 0..MaxStep]
    /\ Verified \subseteq People /\ Mailed \subseteq People /\ Weekdays \subseteq Days
    /\ Quota \in [Campaigns -> Nat \ {0}]
    /\ PerPage \in Nat \ {0} /\ Batch \in Nat \ {0} /\ MaxPages \in Nat \ {0}
    /\ MaxStep \in Nat /\ ThinDays \in Nat \ {0}
    /\ MaxFailures \in Nat /\ MaxEdits \in Nat
    /\ Campaigns # {} /\ IsFiniteSet(Cycles)
    /\ {"none", "pending", "closed"} \cap Cycles = {}

VARIABLES
    campaign,     \* the rows of outreach.campaigns
    stored,       \* people with a row in outreach.leads
    attached,     \* campaign_leads: the day a person was sourced on, or 0
    cycleRow,     \* the orchestration rows, per campaign and day
    cycle,        \* the executions of runAutoCampaignCycle
    patch,        \* the request of updateAutoCampaign under way
    today,
    failures, edits,
    paid,         \* history: how often a person was enriched
    lost,         \* history: how often what was paid for was not stored
    overlapped,   \* history: an execution lost its row while it ran
    disturbed     \* history: what interfered with a cycle of a campaign

campaignVars == <<campaign, stored, attached, cycleRow, cycle, patch, today,
                  failures, edits, paid, lost, overlapped, disturbed>>

-----------------------------------------------------------------------------
AutoStatus == {"pending_sender", "live", "paused", "exhausted", "error"}
NextCycle  == {"null", "later", "due"}
Versions   == 0..MaxEdits

Campaign == [auto : AutoStatus, archived : BOOLEAN, next : NextCycle,
             targeting : Versions,          \* lead_attributes
             params : Versions \cup {-1},   \* apollo_search_params: of which targeting
             page : Nat, step : 0..MaxStep, thin : Nat]
Unmapped == -1
Nobody   == 0

CycleAt == {"idle", "sender", "count", "map", "known", "missing", "search", "enrich",
            "store", "attach", "widen", "final", "catch", "done"}
Cycle == [at : CycleAt, of : Campaigns, day : Days, today : Days,
          base : Campaign,                   \* the campaign as it was loaded
          params : Versions \cup {-1}, page : Nat, step : 0..MaxStep,
          known : SUBSET People, remaining : Int,
          todo : SUBSET People, leftover : BOOLEAN, full : BOOLEAN, pages : Nat,
          got : SUBSET People,               \* enriched and not yet stored
          who : People \cup {Nobody},        \* stored and not yet attached
          dry : BOOLEAN]                     \* inventoryExhausted

\* A cycle open at midnight, one that ended in an error, an edit under a cycle.
Interference == {"midnight", "error", "edit"}

Patch == [at : {"idle", "read"}, of : Campaigns, seen : Campaign]

NewCampaign == [auto |-> "live", archived |-> FALSE, targeting |-> 0,
                next |-> IF 1 \in Weekdays THEN "due" ELSE "later",
                params |-> Unmapped, page |-> 1, step |-> 0, thin |-> 0]
AnyCampaign == CHOOSE c \in Campaigns : TRUE
Resting == [at |-> "idle", of |-> AnyCampaign, day |-> 1, today |-> 1,
            base |-> NewCampaign, params |-> Unmapped, page |-> 1, step |-> 0,
            known |-> {}, remaining |-> 0, todo |-> {}, leftover |-> FALSE,
            full |-> FALSE, pages |-> 0, got |-> {}, who |-> Nobody, dry |-> FALSE]
NoPatch == [at |-> "idle", of |-> AnyCampaign, seen |-> NewCampaign]

CampaignTypeOK ==
    /\ campaign \in [Campaigns -> Campaign]
    /\ stored \subseteq People
    /\ attached \in [Campaigns -> [People -> Days \cup {0}]]
    /\ cycleRow \in [Campaigns \X Days -> {"none", "pending", "closed"} \cup Cycles]
    /\ cycle \in [Cycles -> Cycle]
    /\ patch \in Patch
    /\ today \in Days
    /\ failures \in 0..MaxFailures /\ edits \in 0..MaxEdits
    /\ paid \in [People -> Nat] /\ lost \in [People -> Nat]
    /\ overlapped \in BOOLEAN /\ disturbed \in [Campaigns -> SUBSET Interference]

CampaignInit ==
    /\ campaign = [c \in Campaigns |-> NewCampaign]
    /\ stored = {}
    /\ attached = [c \in Campaigns |-> [p \in People |-> 0]]
    /\ cycleRow = [r \in Campaigns \X Days |-> "none"]
    /\ cycle = [e \in Cycles |-> Resting]
    /\ patch = NoPatch
    /\ today = 1
    /\ failures = 0 /\ edits = 0
    /\ paid = [p \in People |-> 0] /\ lost = [p \in People |-> 0]
    /\ overlapped = FALSE /\ disturbed = [c \in Campaigns |-> {}]

-----------------------------------------------------------------------------
\* loadAttachedOnNyDate
Attached(c, d) == Cardinality({p \in People : attached[c][p] = d})

CycleAtStep(e, at) == cycle[e].at = at
OfCycle(e)       == cycle[e].of
RowOfCycle(e)      == <<cycle[e].of, cycle[e].day>>
Busy(c)     == \E e \in Cycles : cycle[e].at # "idle" /\ OfCycle(e) = c
CycleIs(e, c)       == cycle' = [cycle EXCEPT ![e] = c]
CycleTo(e, at)   == CycleIs(e, [cycle[e] EXCEPT !.at = at])

Fails    == failures < MaxFailures /\ failures' = failures + 1
NothingFails  == UNCHANGED failures
NobodyElse == UNCHANGED <<patch, today, edits>>
History    == UNCHANGED <<paid, lost, overlapped, disturbed>>

\* An edit of the user
Disturbs(c) ==
    disturbed' = IF Busy(c) THEN [disturbed EXCEPT ![c] = @ \cup {"edit"}] ELSE disturbed

\* The handler returns: its row is closed if the execution still has it.
Returns(e) ==
    /\ CycleIs(e, Resting)
    /\ cycleRow' = [cycleRow EXCEPT ![RowOfCycle(e)] = IF @ = e THEN "closed" ELSE @]

\* updateAutoCursor: the columns that are not named keep their values.
Cursor(c, row) == campaign' = [campaign EXCEPT ![c] = row]

\* The row of the cycle's campaign with the cursor of the execution c.
Moved(c) == [campaign[c.of] EXCEPT !.page = c.page, !.params = c.params, !.step = c.step]

Thrown(e) == lost' = [p \in People |-> IF p \in cycle[e].got THEN lost[p] + 1 ELSE lost[p]]

-----------------------------------------------------------------------------
(***************************************************************************)
(* The row: enqueued by the reconciler or the API, taken, and the first    *)
(* checks of runAutoCampaignCycle.                                         *)
(***************************************************************************)
ShortOf(c) == today \in Weekdays /\ Attached(c, today) < Quota[c]

\* loadDueLiveAutoCampaigns
Due(c) ==
    /\ campaign[c].auto = "live" /\ ~campaign[c].archived
    /\ campaign[c].next = "due" \/ ShortOf(c)

\* enqueueAutoCycleJob: revives a row that ended, is absorbed by one that is open.
CycleEnqueued(c) ==
    [cycleRow EXCEPT ![<<c, today>>] = IF @ \in {"none", "closed"} THEN "pending" ELSE @]

EnqueueDue(c) ==
    /\ Due(c) /\ cycleRow[<<c, today>>] \in {"none", "closed"}
    /\ cycleRow' = CycleEnqueued(c)
    /\ UNCHANGED <<campaign, stored, attached, cycle>> /\ NothingFails /\ NobodyElse /\ History

\* The lane of auto.cycle has a limit of one.
TakeRow(e, r) ==
    /\ cycle[e] = Resting /\ cycleRow[r] = "pending"
    /\ \A s \in DOMAIN cycleRow : cycleRow[s] \notin Cycles
    /\ IF campaign[r[1]].auto = "live"
       THEN /\ cycleRow' = [cycleRow EXCEPT ![r] = e]
            /\ CycleIs(e, [Resting EXCEPT !.at = "sender", !.of = r[1], !.day = r[2],
                                       !.base = campaign[r[1]]])
       ELSE cycleRow' = [cycleRow EXCEPT ![r] = "closed"] /\ UNCHANGED cycle
    /\ UNCHANGED <<campaign, stored, attached>> /\ NothingFails /\ NobodyElse /\ History

SenderMissing(e) ==
    /\ CycleAtStep(e, "sender")
    /\ Fails
    /\ Cursor(OfCycle(e), [campaign[OfCycle(e)] EXCEPT !.page = cycle[e].base.page,
                                                       !.auto = "pending_sender"])
    /\ Returns(e)
    /\ UNCHANGED <<stored, attached>> /\ NobodyElse /\ History

SenderReady(e) ==
    /\ CycleAtStep(e, "sender")
    /\ CycleIs(e, [cycle[e] EXCEPT !.at = "count", !.today = today])
    /\ UNCHANGED <<campaign, stored, attached, cycleRow>> /\ NothingFails /\ NobodyElse /\ History

\* The quota is met already.
AlreadyFilled(e) ==
    /\ CycleAtStep(e, "count")
    /\ Attached(OfCycle(e), cycle[e].today) >= Quota[OfCycle(e)]
    /\ Cursor(OfCycle(e), [campaign[OfCycle(e)] EXCEPT !.page = cycle[e].base.page,
                               !.next = "later", !.thin = 0, !.auto = "live"])
    /\ Returns(e)
    /\ UNCHANGED <<stored, attached>> /\ NothingFails /\ NobodyElse /\ History

NotFilled(e) ==
    /\ CycleAtStep(e, "count")
    /\ Attached(OfCycle(e), cycle[e].today) < Quota[OfCycle(e)]
    /\ CycleTo(e, "map")
    /\ UNCHANGED <<campaign, stored, attached, cycleRow>> /\ NothingFails /\ NobodyElse /\ History

-----------------------------------------------------------------------------
(***************************************************************************)
(* The search.                                                             *)
(***************************************************************************)

\* The filters are mapped from the targeting and saved, or resumed.
MapFilters(e) ==
    /\ CycleAtStep(e, "map")
    /\ LET b == cycle[e].base
           new == IF b.params = Unmapped THEN b.targeting ELSE b.params
       IN  /\ CycleIs(e, [cycle[e] EXCEPT !.at = "known", !.params = new, !.page = b.page,
                                       !.step = b.step])
           /\ IF b.params = Unmapped
              THEN Cursor(OfCycle(e), [campaign[OfCycle(e)] EXCEPT !.page = b.page, !.params = new])
              ELSE UNCHANGED campaign
    /\ UNCHANGED <<stored, attached, cycleRow>> /\ NothingFails /\ NobodyElse /\ History

\* How many the campaign needs today by what the database says now.
Missing(c) == Quota[c.of] - Attached(c.of, c.today)

\* loadKnownApolloIds ...
ReadKnown(e) ==
    /\ CycleAtStep(e, "known")
    /\ CycleIs(e, [cycle[e] EXCEPT !.at = "missing", !.known = stored])
    /\ UNCHANGED <<campaign, stored, attached, cycleRow>> /\ NothingFails /\ NobodyElse /\ History

\* ... and then how many are missing today.
CountMissing(e) ==
    /\ CycleAtStep(e, "missing")
    /\ LET c == cycle[e] IN
       CycleIs(e, [c EXCEPT !.remaining = Missing(c),
                         !.at = IF Missing(c) > 0 /\ c.step <= MaxStep THEN "search" ELSE "final"])
    /\ UNCHANGED <<campaign, stored, attached, cycleRow>> /\ NothingFails /\ NobodyElse /\ History

\* The first n of them, in the order of the search
FirstOf(n, them) == {p \in them : Cardinality({q \in them : q <= p}) <= n}

\* searchPeople: a page of those whom the filters of this step find.
Hits(step, page) ==
    LET found == {p \in People : Reach[p] <= step}
    IN  FirstOf(page * PerPage, found) \ FirstOf((page - 1) * PerPage, found)

GotVerified(c) == Cardinality(c.got \cap Verified)

\* selectIdsToEnrich: the first of the page that nobody has stored, up to the quota.
Search(e) ==
    /\ CycleAtStep(e, "search")
    /\ LET c    == cycle[e]
           hits == Hits(c.step, c.page)
           new  == hits \ c.known
           todo == FirstOf(c.remaining - GotVerified(c), new)
       IN  CycleIs(e, IF hits = {}
               THEN [c EXCEPT !.at = "store", !.dry = TRUE]
               ELSE [c EXCEPT !.at = "enrich", !.todo = todo, !.pages = @ + 1,
                              !.leftover = todo # new, !.full = Cardinality(hits) = PerPage])
    /\ UNCHANGED <<campaign, stored, attached, cycleRow>> /\ NothingFails /\ NobodyElse /\ History

\* The end of a page: enough, the last page, the page budget, or the next search.
\* The page is left behind when nobody new is left on it.
PageDone(c) ==
    IF GotVerified(c) >= c.remaining THEN [c EXCEPT !.at = "store", !.todo = {}]
    ELSE IF ~c.full /\ ~c.leftover THEN [c EXCEPT !.at = "store", !.dry = TRUE]
    ELSE [c EXCEPT !.page = IF c.leftover THEN @ ELSE @ + 1,
                   !.at = IF c.pages = MaxPages THEN "store" ELSE "search"]

\* Mutant: those enriched are not remembered as known.
EnrichBatchForgets(e) ==
    /\ CycleAtStep(e, "enrich")
    /\ LET c     == cycle[e]
           them  == FirstOf(Batch, c.todo)
           after == [c EXCEPT !.todo = @ \ them, !.got = @ \cup them]
       IN  /\ CycleIs(e, IF after.todo = {} \/ GotVerified(after) >= c.remaining
                      THEN PageDone(after) ELSE after)
           /\ paid' = [p \in People |-> IF p \in them THEN paid[p] + 1 ELSE paid[p]]
    /\ UNCHANGED <<campaign, stored, attached, cycleRow, lost, overlapped, disturbed>>
    /\ NothingFails /\ NobodyElse

\* enrichPeople of one batch, which is paid for.
EnrichBatch(e) ==
    /\ CycleAtStep(e, "enrich")
    /\ LET c     == cycle[e]
           them  == FirstOf(Batch, c.todo)
           after == [c EXCEPT !.todo = @ \ them, !.known = @ \cup them, !.got = @ \cup them]
       IN  /\ CycleIs(e, IF after.todo = {} \/ GotVerified(after) >= c.remaining
                      THEN PageDone(after) ELSE after)
           /\ paid' = [p \in People |-> IF p \in them THEN paid[p] + 1 ELSE paid[p]]
    /\ UNCHANGED <<campaign, stored, attached, cycleRow, lost, overlapped, disturbed>>
    /\ NothingFails /\ NobodyElse

-----------------------------------------------------------------------------
(***************************************************************************)
(* What was found is stored, and the cursor moves.                         *)
(***************************************************************************)

\* persistEnrichedApolloPeople, person by person: those without a verified address,
\* or with one that is being mailed, are stored and not attached.
StorePerson(e, p) ==
    /\ CycleAtStep(e, "store") /\ p \in cycle[e].got
    /\ stored' = stored \cup {p}
    /\ CycleIs(e, IF p \in Verified \ Mailed
               THEN [cycle[e] EXCEPT !.got = @ \ {p}, !.at = "attach", !.who = p]
               ELSE [cycle[e] EXCEPT !.got = @ \ {p}])
    /\ UNCHANGED <<campaign, attached, cycleRow>> /\ NothingFails /\ NobodyElse /\ History

\* sourced_on is the day of the call, not that of the cycle.
AttachPerson(e) ==
    /\ CycleAtStep(e, "attach")
    /\ attached' = [attached EXCEPT ![OfCycle(e)][cycle[e].who] = IF @ = 0 THEN today ELSE @]
    /\ CycleIs(e, [cycle[e] EXCEPT !.at = "store", !.who = Nobody])
    /\ UNCHANGED <<campaign, stored, cycleRow>> /\ NothingFails /\ NobodyElse /\ History

\* Mutant: what was attached does not count.
RecountKeepsQuota(e) ==
    /\ CycleAtStep(e, "store") /\ cycle[e].got = {}
    /\ LET c == cycle[e] IN
       CycleIs(e, [c EXCEPT
           !.pages = 0, !.todo = {}, !.leftover = FALSE, !.full = FALSE,
           !.at = IF c.remaining > 0 /\ c.dry /\ c.step < MaxStep THEN "widen" ELSE "final"])
    /\ Cursor(OfCycle(e), Moved(cycle[e]))
    /\ UNCHANGED <<stored, attached, cycleRow>> /\ NothingFails /\ NobodyElse /\ History

\* The cursor is written when all are stored.
Recount(e) ==
    /\ CycleAtStep(e, "store") /\ cycle[e].got = {}
    /\ LET c == cycle[e] IN
       CycleIs(e, [c EXCEPT
           !.pages = 0, !.todo = {}, !.leftover = FALSE, !.full = FALSE,
           !.remaining = Missing(c),
           !.at = IF Missing(c) > 0 /\ c.dry /\ c.step < MaxStep THEN "widen" ELSE "final"])
    /\ Cursor(OfCycle(e), Moved(cycle[e]))
    /\ UNCHANGED <<stored, attached, cycleRow>> /\ NothingFails /\ NobodyElse /\ History

\* Mutant: the widened search goes on at the page of the last.
WidenFromHere(e) ==
    /\ CycleAtStep(e, "widen")
    /\ LET c == [cycle[e] EXCEPT !.at = "search", !.step = @ + 1, !.dry = FALSE]
       IN  CycleIs(e, c) /\ Cursor(OfCycle(e), Moved(c))
    /\ UNCHANGED <<stored, attached, cycleRow>> /\ NothingFails /\ NobodyElse /\ History

\* An inventory that ran dry is widened and searched from its first page.
Widen(e) ==
    /\ CycleAtStep(e, "widen")
    /\ LET c == [cycle[e] EXCEPT !.at = "search", !.step = @ + 1, !.page = 1, !.dry = FALSE]
       IN  CycleIs(e, c) /\ Cursor(OfCycle(e), Moved(c))
    /\ UNCHANGED <<stored, attached, cycleRow>> /\ NothingFails /\ NobodyElse /\ History

\* The row as the end of the cycle leaves it, with the count of thin cycles.
Concluded(c, thin) ==
    LET filled == Missing(c) <= 0
    IN  IF ~filled /\ c.dry /\ c.step = MaxStep /\ thin >= ThinDays
        THEN [Moved(c) EXCEPT !.thin = thin, !.auto = "exhausted"]
        ELSE [Moved(c) EXCEPT !.thin = thin, !.auto = "live",
                              !.next = IF filled THEN "later" ELSE "due"]

\* Mutant: thin cycles are not counted.
FinalForgetsThin(e) ==
    /\ CycleAtStep(e, "final")
    /\ Cursor(OfCycle(e), Concluded(cycle[e], IF Missing(cycle[e]) <= 0 THEN 0 ELSE cycle[e].base.thin))
    /\ CycleTo(e, "done")
    /\ UNCHANGED <<stored, attached, cycleRow>> /\ NothingFails /\ NobodyElse /\ History

\* The end of the cycle writes the status along with the cursor.
Final(e) ==
    /\ CycleAtStep(e, "final")
    /\ LET c    == cycle[e]
           thin == IF Missing(c) <= 0 THEN 0
                   ELSE IF c.dry /\ c.step = MaxStep THEN c.base.thin + 1 ELSE c.base.thin
       IN  Cursor(OfCycle(e), Concluded(c, thin))
    /\ CycleTo(e, "done")
    /\ UNCHANGED <<stored, attached, cycleRow>> /\ NothingFails /\ NobodyElse /\ History

Done(e) ==
    /\ CycleAtStep(e, "done")
    /\ Returns(e)
    /\ UNCHANGED <<campaign, stored, attached>> /\ NothingFails /\ NobodyElse /\ History

-----------------------------------------------------------------------------
(***************************************************************************)
(* Errors, crashes and lapses.                                             *)
(***************************************************************************)

\* An error of the provider, the model, the database or the drafting that follows:
\* what has been paid for and not stored is gone.
Errs(e) ==
    /\ cycle[e].at \in CycleAt \ {"idle", "sender", "count", "catch"}
    /\ Fails
    /\ Thrown(e)
    /\ CycleIs(e, [cycle[e] EXCEPT !.at = "catch", !.got = {}, !.who = Nobody])
    /\ UNCHANGED <<campaign, stored, attached, cycleRow, paid, overlapped, disturbed>> /\ NobodyElse

\* The catch block puts the page back and throws: another attempt, or none.
Catch(e) ==
    /\ CycleAtStep(e, "catch")
    /\ Cursor(OfCycle(e), [campaign[OfCycle(e)] EXCEPT !.page = cycle[e].base.page,
                               !.auto = "error", !.next = "later"])
    /\ CycleIs(e, Resting)
    /\ \E s \in {"pending", "closed"} : cycleRow' = [cycleRow EXCEPT ![RowOfCycle(e)] = IF @ = e THEN s ELSE @]
    /\ disturbed' = [disturbed EXCEPT ![OfCycle(e)] = @ \cup {"error"}]
    /\ UNCHANGED <<stored, attached, paid, lost, overlapped>> /\ NothingFails /\ NobodyElse

\* A crash, or an error before the try block.
CycleCrashes(e) ==
    /\ cycle[e].at # "idle" /\ Fails
    /\ Thrown(e)
    /\ CycleIs(e, Resting)
    /\ \E s \in {"pending", "closed"} : cycleRow' = [cycleRow EXCEPT ![RowOfCycle(e)] = IF @ = e THEN s ELSE @]
    /\ UNCHANGED <<campaign, stored, attached, paid, overlapped, disturbed>> /\ NobodyElse

\* The lease runs out under an execution that goes on.
RowLapses(e) ==
    /\ cycle[e].at # "idle" /\ cycleRow[RowOfCycle(e)] = e /\ Fails
    /\ cycleRow' = [cycleRow EXCEPT ![RowOfCycle(e)] = "pending"]
    /\ overlapped' = TRUE
    /\ UNCHANGED <<campaign, stored, attached, cycle, paid, lost, disturbed>> /\ NobodyElse

\* Midnight in New York: the next cycle falls due in the morning of a weekday.
NewDay ==
    /\ today + 1 \in Days
    /\ today' = today + 1
    /\ campaign' = [c \in Campaigns |-> IF campaign[c].next = "later" /\ today + 1 \in Weekdays
                        THEN [campaign[c] EXCEPT !.next = "due"] ELSE campaign[c]]
    /\ disturbed' = [c \in Campaigns |->
                        IF Busy(c) THEN disturbed[c] \cup {"midnight"} ELSE disturbed[c]]
    /\ UNCHANGED <<stored, attached, cycleRow, cycle, patch, edits, paid, lost, overlapped>>
    /\ NothingFails

-----------------------------------------------------------------------------
(***************************************************************************)
(* The user.                                                               *)
(***************************************************************************)

\* updateAutoCampaign reads the campaign ...
PatchRead(c) ==
    /\ patch = NoPatch /\ edits < MaxEdits
    /\ patch' = [at |-> "read", of |-> c, seen |-> campaign[c]]
    /\ edits' = edits + 1
    /\ UNCHANGED <<campaign, stored, attached, cycleRow, cycle, today>> /\ NothingFails /\ History

\* The status that is asked for, as it is written
Wanted(auto, ready) ==
    LET s == IF auto = "keep" THEN patch.seen.auto ELSE auto
    IN  IF s = "live" /\ ~ready THEN "pending_sender" ELSE s

\* The row with a new status
Switched(c, s) ==
    [campaign[c] EXCEPT !.auto = s, !.next = IF s # "live" THEN "null"
                                    ELSE IF today \in Weekdays THEN "due" ELSE "later"]

\* Mutant: new targeting keeps the old filters.
Retargeted(row) == [row EXCEPT !.targeting = edits, !.page = 1, !.step = 0, !.thin = 0]

\* New targeting starts a new search, with filters that are to be mapped.
StartsOver(row) ==
    [row EXCEPT !.targeting = edits, !.params = Unmapped, !.page = 1, !.step = 0, !.thin = 0]

\* ... and writes all of it: a status, or new targeting of a campaign that is not live.
PatchWrite(auto, ready, retarget) ==
    LET c == patch.of
        s == Wanted(auto, ready)
    IN
    /\ patch.at = "read"
    /\ ~patch.seen.archived
    /\ retarget => patch.seen.auto # "live"
    /\ Cursor(c, IF retarget THEN StartsOver(Switched(c, s)) ELSE Switched(c, s))
    /\ cycleRow' = IF s = "live" /\ today \in Weekdays THEN CycleEnqueued(c) ELSE cycleRow
    /\ patch' = NoPatch
    /\ Disturbs(c)
    /\ UNCHANGED <<stored, attached, cycle, today, edits, paid, lost, overlapped>> /\ NothingFails

PatchRefused ==
    /\ patch.at = "read"
    /\ patch' = NoPatch
    /\ UNCHANGED <<campaign, stored, attached, cycleRow, cycle, today, edits>> /\ NothingFails /\ History

\* updateCampaign with status 'archived'
Archive(c) ==
    /\ ~campaign[c].archived /\ edits < MaxEdits
    /\ Cursor(c, [campaign[c] EXCEPT !.archived = TRUE, !.auto = "paused", !.next = "null"])
    /\ edits' = edits + 1
    /\ Disturbs(c)
    /\ UNCHANGED <<stored, attached, cycleRow, cycle, patch, today, paid, lost, overlapped>> /\ NothingFails

-----------------------------------------------------------------------------
CycleWorks(e) ==
    \/ SenderReady(e) \/ AlreadyFilled(e) \/ NotFilled(e) \/ MapFilters(e) \/ ReadKnown(e)
    \/ CountMissing(e) \/ Search(e) \/ EnrichBatch(e) \/ (\E p \in People : StorePerson(e, p))
    \/ AttachPerson(e) \/ Recount(e) \/ Widen(e) \/ Final(e) \/ Done(e) \/ Catch(e)

CycleFails(e) == SenderMissing(e) \/ Errs(e) \/ CycleCrashes(e) \/ RowLapses(e)

TakesRow(r) == \E e \in Cycles : TakeRow(e, r)

Edits ==
    \/ \E c \in Campaigns : PatchRead(c) \/ Archive(c)
    \/ \E auto \in {"keep", "live", "paused"}, ready, retarget \in BOOLEAN :
           PatchWrite(auto, ready, retarget)
    \/ PatchRefused

CampaignNext ==
    \/ \E e \in Cycles : CycleWorks(e) \/ CycleFails(e)
    \/ \E r \in Campaigns \X Days : TakesRow(r)
    \/ \E c \in Campaigns : EnqueueDue(c)
    \/ NewDay \/ Edits

CampaignSpec == CampaignInit /\ [][CampaignNext]_campaignVars

\* Handlers go on, rows are taken, the reconciler comes round.
CampaignFairness ==
    /\ \A e \in Cycles : WF_campaignVars(CycleWorks(e))
    /\ \A r \in Campaigns \X Days : SF_campaignVars(TakesRow(r))
    /\ \A c \in Campaigns : WF_campaignVars(EnqueueDue(c))

FairCampaigns == CampaignSpec /\ CampaignFairness

-----------------------------------------------------------------------------
\* How many executions may work from one state of the tables.
AtOnce == IF overlapped THEN Cardinality(Cycles) ELSE 1

\* A day sources no more people for a campaign than its quota, however often the
\* cycle runs and the search is widened; an execution that outlives its lease can
\* add the quota it has read as missing.
QuotaKept ==
    \A c \in Campaigns, d \in Days :
        "midnight" \in disturbed[c] \/ Attached(c, d) <= AtOnce * Quota[c]

\* "Never enrich someone already stored": nobody is paid for twice, but for what an
\* error or a crash lost between the payment and the store, and by the execution
\* that took over from one that goes on.
PaidOnce == \A p \in People : paid[p] <= AtOnce + lost[p]

\* A campaign is given up as exhausted only when all that its widest search finds
\* was looked at, unless the catch block put an old page back or an execution that
\* had lost its row did.
ExhaustedMeansSearched ==
    \A c \in Campaigns :
        campaign[c].auto = "exhausted" => "error" \in disturbed[c] \/ overlapped \/ stored = People

\* The search follows the targeting the user sees, unless it was changed under a cycle.
SearchFollowsTargeting ==
    \A c \in Campaigns :
        \/ campaign[c].params \in {Unmapped, campaign[c].targeting}
        \/ "edit" \in disturbed[c]

\* The reconciler and the cycle do not leave a live campaign short of its quota: it is
\* filled on that day, found exhausted, or stopped by the user or an error.
CampaignIsServed ==
    \A c \in Campaigns, d \in Weekdays :
        (today = d /\ campaign[c].auto = "live" /\ ~campaign[c].archived)
            ~> (today # d \/ Attached(c, d) >= Quota[c]
                \/ campaign[c].auto # "live" \/ campaign[c].archived)
=============================================================================
