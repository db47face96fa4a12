---------------------------- MODULE DraftingProofs ----------------------------
(***************************************************************************)
(* What the drafting pipeline keeps for any number of items, companies,    *)
(* handlers and faults: an item has one execution, a company one research, *)
(* a draft is of the research its item has, and the money of open jobs is  *)
(* reserved.                                                               *)
(*                                                                         *)
(* First the books, which are about jobs and runs; then the types; then    *)
(* the custody of an item by its handler, and the leases that rest on it;  *)
(* last the drafts, which rest on both.                                    *)
(***************************************************************************)
EXTENDS DraftingProperties, FiniteSetTheorems, TLAPS

LEMMA KeyParts ==
    ASSUME NEW k \in Keys
    PROVE  /\ ItemOf(k) \in Items /\ k[2] \in JobKind /\ k[3] \in Nat
           /\ k = <<ItemOf(k), k[2], k[3]>>
BY DEF Keys, ItemOf

LEMMA KeysAre ==
    ASSUME NEW i \in Items, NEW kind \in JobKind, NEW n \in Nat
    PROVE  /\ <<i, kind, n>> \in Keys /\ ItemOf(<<i, kind, n>>) = i
           /\ <<i, kind, n>>[2] = kind /\ <<i, kind, n>>[3] = n
BY DEF Keys, ItemOf

-----------------------------------------------------------------------------
\* The books: what open jobs may spend is reserved on their runs.

Charged(jb, r) ==
    {k \in DOMAIN jb : jb[k].status \in OpenStatus /\ jb[k].run = r /\ jb[k].res = 1}

JobsOK(jb) ==
    /\ IsFiniteSet(DOMAIN jb) /\ DOMAIN jb \subseteq Keys
    /\ \A k \in DOMAIN jb : jb[k] \in Job

Books(jb, rn) ==
    /\ JobsOK(jb)
    /\ rn \in [RunIds -> Run]
    /\ \A r \in RunIds : Cardinality(Charged(jb, r)) <= rn[r].reserved

\* The same jobs, some of them closed: those that are open are what they were.
Lighter(jb, jb2) ==
    /\ DOMAIN jb2 = DOMAIN jb
    /\ \A k \in DOMAIN jb :
          /\ jb2[k] \in Job
          /\ jb2[k].status \in OpenStatus =>
                /\ jb[k].status \in OpenStatus
                /\ jb2[k].run = jb[k].run /\ jb2[k].res = jb[k].res
                /\ jb2[k].rr = jb[k].rr /\ jb2[k].dr = jb[k].dr

LEMMA ChargedCounts ==
    ASSUME NEW jb, NEW r, JobsOK(jb)
    PROVE  /\ IsFiniteSet(Charged(jb, r)) /\ Cardinality(Charged(jb, r)) \in Nat
           /\ \A S \in SUBSET Charged(jb, r) :
                  IsFiniteSet(S) /\ Cardinality(S) \in Nat
                  /\ Cardinality(S) <= Cardinality(Charged(jb, r))
<1>1. Charged(jb, r) \subseteq DOMAIN jb /\ IsFiniteSet(DOMAIN jb)
  BY DEF Charged, JobsOK
<1>2. IsFiniteSet(Charged(jb, r))
  BY <1>1, FS_Subset
<1> QED
  BY <1>2, FS_Subset, FS_CardinalityType

LEMMA LighterBooks ==
    ASSUME NEW jb, NEW jb2, NEW rn, Books(jb, rn), Lighter(jb, jb2)
    PROVE  Books(jb2, rn)
<1>1. JobsOK(jb2)
  BY DEF Books, JobsOK, Lighter
<1>2. ASSUME NEW r \in RunIds PROVE Cardinality(Charged(jb2, r)) <= rn[r].reserved
  <2>1. Charged(jb2, r) \subseteq Charged(jb, r)
    BY DEF Charged, Lighter
  <2>2. /\ Cardinality(Charged(jb2, r)) <= Cardinality(Charged(jb, r))
        /\ Cardinality(Charged(jb2, r)) \in Nat /\ Cardinality(Charged(jb, r)) \in Nat
    BY <2>1, ChargedCounts DEF Books
  <2>3. rn[r].reserved \in Nat /\ Cardinality(Charged(jb, r)) <= rn[r].reserved
    BY DEF Books, Run
  <2> QED
    BY <2>2, <2>3
<1> QED
  BY <1>1, <1>2 DEF Books

LEMMA LighterChain ==
    ASSUME NEW jb, NEW jb2, NEW jb3, Lighter(jb, jb2), Lighter(jb2, jb3)
    PROVE  Lighter(jb, jb3)
BY DEF Lighter

\* A run with other columns than the reservation changed keeps the books.
LEMMA SameReservations ==
    ASSUME NEW jb, NEW rn, NEW rn2, Books(jb, rn), rn2 \in [RunIds -> Run],
           \A r \in RunIds : rn2[r].reserved = rn[r].reserved
    PROVE  Books(jb, rn2)
BY DEF Books

LEMMA FinalizedBooks ==
    ASSUME NEW it, NEW jb, NEW rn, Books(jb, rn)
    PROVE  Books(jb, Finalized(it, jb, rn))
<1> DEFINE rn2 == Finalized(it, jb, rn)
<1>1. \A r \in RunIds : rn2[r] = rn[r] \/ rn2[r] = [rn[r] EXCEPT !.status = "closed"]
  BY DEF Finalized
<1>2. \A r \in RunIds : rn[r] \in Run
  BY DEF Books
<1>3. \A r \in RunIds : rn2[r] \in Run /\ rn2[r].reserved = rn[r].reserved
  BY <1>1, <1>2 DEF Run
<1>4. rn2 \in [RunIds -> Run]
  BY <1>3 DEF Finalized
<1> HIDE DEF rn2
<1>5. Books(jb, rn2)
  BY <1>3, <1>4, SameReservations
<1> QED
  BY <1>5 DEF rn2

-----------------------------------------------------------------------------
\* One more open job, with its reservation.
LEMMA ChargedMore ==
    ASSUME NEW jb, NEW k \in Keys, NEW job \in Job, JobsOK(jb), k \notin DOMAIN jb
    PROVE  /\ JobsOK(With(jb, k, job))
           /\ \A r \in RunIds :
                Cardinality(Charged(With(jb, k, job), r))
                    <= Cardinality(Charged(jb, r)) + (IF job.run = r THEN 1 ELSE 0)
<1> DEFINE jb2 == With(jb, k, job)
<1>1. DOMAIN jb2 = DOMAIN jb \cup {k}
  BY DEF With
<1>2. jb2[k] = job /\ \A x \in DOMAIN jb : jb2[x] = jb[x]
  BY DEF With
<1>3. IsFiniteSet(DOMAIN jb \cup {k})
  BY FS_AddElement DEF JobsOK
<1>4. JobsOK(jb2)
  BY <1>1, <1>2, <1>3 DEF JobsOK
<1> HIDE DEF jb2
<1>5. ASSUME NEW r \in RunIds
      PROVE  Cardinality(Charged(jb2, r))
                <= Cardinality(Charged(jb, r)) + (IF job.run = r THEN 1 ELSE 0)
  <2>1. job.run = r => Charged(jb2, r) \subseteq Charged(jb, r) \cup {k}
    BY <1>1, <1>2 DEF Charged
  <2>2. job.run # r => Charged(jb2, r) \subseteq Charged(jb, r)
    BY <1>1, <1>2 DEF Charged
  <2>3. /\ IsFiniteSet(Charged(jb, r)) /\ Cardinality(Charged(jb, r)) \in Nat
        /\ IsFiniteSet(Charged(jb2, r)) /\ Cardinality(Charged(jb2, r)) \in Nat
    BY <1>4, ChargedCounts
  <2>4. k \notin Charged(jb, r)
    BY DEF Charged
  <2>5. /\ IsFiniteSet(Charged(jb, r) \cup {k})
        /\ Cardinality(Charged(jb, r) \cup {k}) = Cardinality(Charged(jb, r)) + 1
    BY <2>3, <2>4, FS_AddElement
  <2>6. job.run = r => Cardinality(Charged(jb2, r)) <= Cardinality(Charged(jb, r)) + 1
    BY <2>1, <2>5, FS_Subset
  <2>7. job.run # r => Cardinality(Charged(jb2, r)) <= Cardinality(Charged(jb, r))
    BY <2>2, <2>3, FS_Subset
  <2> QED
    BY <2>3, <2>6, <2>7
<1> QED
  BY <1>4, <1>5 DEF jb2

LEMMA QueueKeepsBooks ==
    ASSUME NEW k \in Keys, NEW r \in RunIds, NEW job \in Job,
           job.run = r, Books(jobs, runs)
    PROVE  Books(JobsAfterQueue(k, r, job), RunsAfterQueue(k, r))
<1>1. CASE ~JobInserted(k, r)
  BY <1>1 DEF JobsAfterQueue, RunsAfterQueue
<1>2. CASE JobInserted(k, r)
  <2> DEFINE jb2 == With(jobs, k, job)
             rn2 == [runs EXCEPT ![r].reserved = @ + 1]
  <2>1. JobsAfterQueue(k, r, job) = jb2 /\ RunsAfterQueue(k, r) = rn2
    BY <1>2 DEF JobsAfterQueue, RunsAfterQueue
  <2>2. k \notin DOMAIN jobs
    BY <1>2 DEF JobInserted
  <2>3. /\ JobsOK(jb2)
        /\ \A s \in RunIds :
             Cardinality(Charged(jb2, s))
                 <= Cardinality(Charged(jobs, s)) + (IF r = s THEN 1 ELSE 0)
    BY <2>2, ChargedMore DEF Books
  <2>4. /\ rn2 \in [RunIds -> Run]
        /\ \A s \in RunIds : rn2[s].reserved = runs[s].reserved + (IF r = s THEN 1 ELSE 0)
    BY DEF Books, Run
  <2>5. \A s \in RunIds : /\ Cardinality(Charged(jobs, s)) <= runs[s].reserved
                          /\ runs[s].reserved \in Nat
                          /\ Cardinality(Charged(jobs, s)) \in Nat
    BY ChargedCounts DEF Books, Run
  <2> HIDE DEF jb2, rn2
  <2>5a. \A s \in RunIds : Cardinality(Charged(jb2, s)) \in Nat
    BY <2>3, ChargedCounts
  <2>6. ASSUME NEW s \in RunIds PROVE Cardinality(Charged(jb2, s)) <= rn2[s].reserved
    BY <2>3, <2>4, <2>5, <2>5a
  <2> QED
    BY <2>1, <2>3, <2>4, <2>6 DEF Books
<1> QED
  BY <1>1, <1>2

\* A job that is finished takes its reservation along.
LEMMA FinishKeepsBooks ==
    ASSUME NEW k \in DOMAIN jobs, Books(jobs, runs)
    PROVE  Books(FinishedJobs(k), FinishedRuns(k))
<1>1. CASE jobs[k].status \notin OpenStatus
  BY <1>1 DEF FinishedJobs, FinishedRuns
<1>2. CASE jobs[k].status \in OpenStatus
  <2> DEFINE jb2 == [jobs EXCEPT ![k] = Closed(@)]
             r   == jobs[k].run
             rn2 == [runs EXCEPT ![r].reserved = Less(@, jobs[k].res)]
  <2>1. FinishedJobs(k) = jb2 /\ FinishedRuns(k) = rn2
    BY <1>2 DEF FinishedJobs, FinishedRuns
  <2>2. jobs[k] \in Job /\ r \in RunIds
    BY DEF Books, JobsOK, Job
  <2>3. Closed(jobs[k]) \in Job /\ Closed(jobs[k]).status = "closed"
    BY <2>2 DEF Closed, Job, JobStatus
  <2>4. jb2[k].status = "closed" /\ \A x \in DOMAIN jobs \ {k} : jb2[x] = jobs[x]
    BY <2>3
  <2>5. DOMAIN jb2 = DOMAIN jobs /\ JobsOK(jb2)
    BY <2>3 DEF Books, JobsOK
  <2>6. /\ rn2 \in [RunIds -> Run]
        /\ rn2[r].reserved = Less(runs[r].reserved, jobs[k].res)
        /\ \A s \in RunIds \ {r} : rn2[s] = runs[s]
    BY <2>2 DEF Books, Run, Job, Less
  <2>7. \A s \in RunIds : /\ Cardinality(Charged(jobs, s)) <= runs[s].reserved
                          /\ runs[s].reserved \in Nat
    BY DEF Books, Run
  <2>8. "closed" \notin OpenStatus
    BY DEF OpenStatus
  <2>8a. jobs[k].res \in {0, 1}
    BY <2>2 DEF Job
  <2> HIDE DEF jb2, rn2
  <2>9. ASSUME NEW s \in RunIds PROVE Cardinality(Charged(jb2, s)) <= rn2[s].reserved
    <3>1. Charged(jb2, s) \subseteq Charged(jobs, s) \ {k}
      BY <2>4, <2>5, <2>8 DEF Charged
    <3>2. /\ IsFiniteSet(Charged(jobs, s)) /\ Cardinality(Charged(jobs, s)) \in Nat
          /\ Cardinality(Charged(jb2, s)) \in Nat
      BY <2>5, ChargedCounts DEF Books
    <3>3. Cardinality(Charged(jb2, s)) <= Cardinality(Charged(jobs, s))
      BY <3>1, <3>2, FS_Subset
    <3>4. CASE s # r \/ jobs[k].res = 0
      BY <2>2, <2>6, <2>7, <3>2, <3>3, <3>4 DEF Less
    <3>5. CASE s = r /\ jobs[k].res = 1
      <4>1. k \in Charged(jobs, s)
        BY <1>2, <3>5 DEF Charged
      <4>2. /\ IsFiniteSet(Charged(jobs, s) \ {k})
            /\ Cardinality(Charged(jobs, s) \ {k}) = Cardinality(Charged(jobs, s)) - 1
        BY <3>2, <4>1, FS_RemoveElement
      <4>3. Cardinality(Charged(jb2, s)) <= Cardinality(Charged(jobs, s)) - 1
        BY <3>1, <4>2, FS_Subset
      <4>4. rn2[s].reserved = Less(runs[s].reserved, 1)
        BY <2>6, <3>5
      <4> QED
        BY <2>7, <3>2, <4>3, <4>4 DEF Less
    <3> QED
      BY <2>8a, <3>4, <3>5
  <2> QED
    BY <2>1, <2>5, <2>6, <2>9 DEF Books
<1> QED
  BY <1>1, <1>2

-----------------------------------------------------------------------------
\* The invariant.

OfItem(a)      == ItemOf(ag[a].job)
Busy(a)        == ag[a].at # "idle"
ResearchStates == {"queued_research", "waiting_company_research", "researching",
                   "failed_research", "budget_paused"}
RepairStates   == {"repairing", "failed_write"}

\* Before a research has been saved, given up or handed to the next
Researching(a) ==
    \/ ag[a].at \in {"lease", "park", "provider", "fail"}
    \/ ag[a].at \in {"yield", "wake"} /\ ag[a].then # "finish"
Engaged(a) == Researching(a) \/ ag[a].at = "write"

InHand == \A a \in Agents : Busy(a) => ag[a].job \in DOMAIN jobs

\* An open write or repair says in its key which revision it is for.
KeysSay ==
    \A k \in OpenJobs : /\ k[2] = "write"  => jobs[k].rr = k[3]
                        /\ k[2] = "repair" => jobs[k].dr = k[3]

\* Nobody has a draft revision that is still to come.
DraftsPast ==
    /\ \A a \in Agents : Busy(a) => ag[a].dr <= item[OfItem(a)].dr
    /\ \A k \in DOMAIN jobs : k[2] = "repair" => k[3] <= item[ItemOf(k)].dr

\* Where a handler stands says what it works on and whether it has the lease.
PlacedAt(x) ==
    /\ x.at \in {"lease", "park", "provider", "fail", "yield", "wake"} => IsResearch(x.job)
    /\ x.at = "write" => ~IsResearch(x.job)
    /\ x.own => x.at \in {"provider", "yield"}
    /\ x.at = "yield" => x.own
    /\ x.then = "provider" => x.at \in {"provider", "yield", "wake"}
    /\ x.at = "provider" /\ x.own => x.then = "provider"
Placed == \A a \in Agents : PlacedAt(ag[a])

\* The claims of a handler on its item: the row, the job and for research the lock.
Kept(a) ==
    LET k == ag[a].job IN
    /\ a \notin asleep
    /\ jobs[k].row = a /\ jobs[k].status = "in_flight"
    /\ IsResearch(k) => lock[ItemOf(k)] = a

\* While it is engaged the item is in a state that is its own.
InPlace(a) ==
    LET k == ag[a].job
        i == item[OfItem(a)]
    IN
    /\ Researching(a) => i.state \in ResearchStates
    /\ ag[a].at = "lease" \/ (ag[a].at = "provider" /\ ag[a].own) => i.tries = 0
    /\ ag[a].at = "write" =>
          IF k[2] = "repair" THEN i.state = "repairing" /\ k[3] = i.dr
                             ELSE i.state = "writing" /\ k[3] = i.rr

Custody ==
    \A a \in Agents : Busy(a) /\ OfItem(a) \notin disowned => Kept(a) /\ InPlace(a)

\* A draft that a repair is open for is not written afresh.
RepairsStand ==
    \A k \in OpenJobs :
        (k[2] = "repair" /\ ItemOf(k) \notin disowned /\ k[3] = item[ItemOf(k)].dr)
            => item[ItemOf(k)].state \in RepairStates

\* Whoever thinks it has the lease of its company has it.
Undisturbed(c) == \A i \in disowned : CompanyOf[i] # c
LeasesHeld ==
    \A a \in Agents :
        (Busy(a) /\ ag[a].own /\ Undisturbed(CompanyOf[OfItem(a)])) =>
            lease[CompanyOf[OfItem(a)]] = [status |-> "researching", owner |-> OfItem(a)]

\* What is known of the packets of a company while one of its items is researched,
\* or about to be without the lease.
Looks(a) ==
    ag[a].at = "provider" \/ (ag[a].at \in {"yield", "wake"} /\ ag[a].then = "provider")
Around(a) ==
    \/ \E j \in Siblings(OfItem(a)) : item[j].tries > 0
    \/ IF ag[a].at = "provider" /\ ag[a].own
       THEN item[OfItem(a)].packet # "none" \/ ~Reusable(OfItem(a))
       ELSE item[OfItem(a)].tries > 0 \/ Reusable(OfItem(a))
LooksAround == disowned = {} => \A a \in Agents : Looks(a) => Around(a)

DraftingInvariant ==
    /\ DraftingTypeOK
    /\ Books(jobs, runs)
    /\ InHand
    /\ KeysSay
    /\ DraftsPast
    /\ Placed
    /\ Custody
    /\ RepairsStand
    /\ LeasesHeld
    /\ LooksAround

-----------------------------------------------------------------------------
\* What the invariant says of two handlers.

LEMMA HandlerFacts ==
    ASSUME DraftingInvariant, NEW a \in Agents, Busy(a)
    PROVE  /\ ag[a].job \in DOMAIN jobs /\ ag[a].job \in Keys
           /\ OfItem(a) \in Items /\ CompanyOf[OfItem(a)] \in Companies
           /\ jobs[ag[a].job] \in Job
           /\ ag[a] \in Activity
<1>1. ag[a].job \in DOMAIN jobs
  BY DEF DraftingInvariant, InHand
<1>2. ag[a].job \in Keys /\ jobs[ag[a].job] \in Job
  BY <1>1 DEF DraftingInvariant, Books, JobsOK
<1>3. OfItem(a) \in Items
  BY <1>2, KeyParts DEF OfItem
<1> QED
  BY <1>1, <1>2, <1>3, DraftingAssumption
     DEF DraftingInvariant, DraftingTypeOK, WorkerTypeOK

LEMMA KeysApart ==
    ASSUME DraftingInvariant, NEW a \in Agents, NEW b \in Agents, Busy(a), Busy(b),
           OfItem(b) \notin disowned, ag[a].job = ag[b].job
    PROVE  a = b
BY DEF DraftingInvariant, Custody, Kept, OfItem

LEMMA LocksApart ==
    ASSUME DraftingInvariant, NEW a \in Agents, NEW b \in Agents, Busy(a), Busy(b),
           OfItem(a) = OfItem(b), OfItem(b) \notin disowned,
           IsResearch(ag[a].job), IsResearch(ag[b].job)
    PROVE  a = b
BY DEF DraftingInvariant, Custody, Kept, OfItem

LEMMA EngagedApart ==
    ASSUME DraftingInvariant, NEW a \in Agents, NEW b \in Agents, Engaged(a), Engaged(b),
           OfItem(a) = OfItem(b), OfItem(b) \notin disowned
    PROVE  a = b
<1>1. Busy(a) /\ Busy(b)
  BY DEF Engaged, Researching, Busy
<1>2. InPlace(a) /\ InPlace(b)
  BY <1>1 DEF DraftingInvariant, Custody
<1>3. CASE Researching(a) /\ Researching(b)
  <2>1. IsResearch(ag[a].job) /\ IsResearch(ag[b].job)
    BY <1>3 DEF DraftingInvariant, Placed, PlacedAt, Researching
  <2> QED
    BY <1>1, <2>1, LocksApart
<1>4. CASE ag[a].at = "write" /\ ag[b].at = "write"
  <2>1. ag[a].job \in Keys /\ ag[b].job \in Keys
    BY <1>1, HandlerFacts
  <2>2. ~IsResearch(ag[a].job) /\ ~IsResearch(ag[b].job)
    BY <1>4 DEF DraftingInvariant, Placed, PlacedAt
  <2>3. ag[a].job[2] \in {"write", "repair"} /\ ag[b].job[2] \in {"write", "repair"}
    BY <2>1, <2>2, KeyParts DEF IsResearch, JobKind
  <2>4. ag[a].job[2] = ag[b].job[2] /\ ag[a].job[3] = ag[b].job[3]
    BY <1>2, <1>4, <2>3 DEF InPlace
  <2>5. ag[a].job = ag[b].job
    BY <2>1, <2>4, KeyParts DEF OfItem
  <2> QED
    BY <1>1, <2>5, KeysApart
<1>5. CASE Researching(a) /\ ag[b].at = "write"
  BY <1>2, <1>5 DEF InPlace, ResearchStates
<1>6. CASE ag[a].at = "write" /\ Researching(b)
  BY <1>2, <1>6 DEF InPlace, ResearchStates
<1> QED
  BY <1>3, <1>4, <1>5, <1>6 DEF Engaged

LEMMA ExecutesIsEngaged ==
    ASSUME NEW a, NEW i, Executes(a, i)
    PROVE  Engaged(a) /\ Busy(a) /\ OfItem(a) = i
BY DEF Executes, Engaged, Researching, Busy, OfItem

LEMMA InvariantImplies ==
    DraftingInvariant => /\ OneExecutionPerItem /\ SingleFlight /\ PacketIsReused
                         /\ ReservationsCoverOpenJobs
<1> SUFFICES ASSUME DraftingInvariant
             PROVE  /\ OneExecutionPerItem /\ SingleFlight /\ PacketIsReused
                    /\ ReservationsCoverOpenJobs
  OBVIOUS
<1>1. OneExecutionPerItem
  BY EngagedApart, ExecutesIsEngaged DEF OneExecutionPerItem
<1>2. SingleFlight
  <2> SUFFICES ASSUME NEW c \in Companies, \A i \in disowned : CompanyOf[i] # c,
                      NEW a \in Agents, NEW b \in Agents, Researches(a, c), Researches(b, c)
               PROVE  a = b
    BY DEF SingleFlight
  <2>1. /\ Busy(a) /\ Busy(b) /\ Engaged(a) /\ Engaged(b)
        /\ ag[a].own /\ ag[b].own
        /\ CompanyOf[OfItem(a)] = c /\ CompanyOf[OfItem(b)] = c
    BY DEF Researches, Busy, Engaged, Researching, Company, OfItem
  <2>2. Undisturbed(c)
    BY DEF Undisturbed
  <2>3. /\ lease[c] = [status |-> "researching", owner |-> OfItem(a)]
        /\ lease[c] = [status |-> "researching", owner |-> OfItem(b)]
    BY <2>1, <2>2 DEF DraftingInvariant, LeasesHeld
  <2>4. OfItem(a) = OfItem(b)
    BY <2>3
  <2>5. OfItem(b) \notin disowned
    BY <2>1
  <2> QED
    BY <2>1, <2>4, <2>5, EngagedApart
<1>3. PacketIsReused
  BY DEF DraftingInvariant, LooksAround, Looks, Around, PacketIsReused, OfItem
<1>4. ReservationsCoverOpenJobs
  <2>1. \A r \in RunIds : OpenReservations(r) = Cardinality(Charged(jobs, r))
    <3>1. \A r \in RunIds :
            {k \in OpenJobs : jobs[k].run = r /\ jobs[k].res = 1} = Charged(jobs, r)
      BY DEF OpenJobs, Charged
    <3> QED
      BY <3>1 DEF OpenReservations
  <2>2. \A r \in RunIds : /\ Cardinality(Charged(jobs, r)) <= runs[r].reserved
                          /\ Cardinality(Charged(jobs, r)) \in Nat
                          /\ runs[r].reserved \in Nat
    BY ChargedCounts DEF DraftingInvariant, Books, Run
  <2> QED
    BY <2>1, <2>2 DEF ReservationsCoverOpenJobs
<1> QED
  BY <1>1, <1>2, <1>3, <1>4

-----------------------------------------------------------------------------
\* What a step does to the jobs, the items and the bystanders.

\* An open job is what it was, or new and says in its key what it is for.
Inherits(x) ==
    /\ x \in DOMAIN jobs
    /\ jobs'[x].status \in OpenStatus => /\ jobs[x].status \in OpenStatus
                                         /\ jobs'[x].rr = jobs[x].rr
                                         /\ jobs'[x].dr = jobs[x].dr
Fresh(x) ==
    /\ jobs'[x].status \in OpenStatus =>
          /\ x[2] = "write"  => jobs'[x].rr = x[3]
          /\ x[2] = "repair" => /\ jobs'[x].dr = x[3]
                                /\ item'[ItemOf(x)].state = "repairing"
    /\ x[2] = "repair" => x[3] <= item'[ItemOf(x)].dr
JobsFollow ==
    /\ DOMAIN jobs \subseteq DOMAIN jobs'
    /\ \A x \in DOMAIN jobs' : Inherits(x) \/ Fresh(x)

ItemsGrow == \A j \in Items : item'[j].dr >= item[j].dr

\* A draft that may still be repaired stays so.
Settles(j) ==
    \/ item[j].state \in RepairStates => item'[j].state \in RepairStates
    \/ item'[j].dr > item[j].dr
    \/ OpenJobsOf(j) = {}
    \/ j \in disowned'

Follows ==
    /\ JobsFollow
    /\ ItemsGrow
    /\ \A j \in Items : Settles(j)
    /\ disowned \subseteq disowned'

LEMMA JobsKeep ==
    ASSUME DraftingInvariant, Follows, Books(jobs', runs'), item' \in [Items -> Item]
    PROVE  /\ KeysSay'
           /\ RepairsStand'
           /\ \A k \in DOMAIN jobs' : k[2] = "repair" => k[3] <= item'[ItemOf(k)].dr
<1>1. \A k \in DOMAIN jobs' : k \in Keys /\ ItemOf(k) \in Items /\ k[3] \in Nat
  BY KeyParts DEF Books, JobsOK
<1>2. \A j \in Items : item[j].dr \in Nat /\ item'[j].dr \in Nat
  BY DEF DraftingInvariant, DraftingTypeOK, StoreTypeOK, Item
<1>3. KeysSay'
  BY DEF DraftingInvariant, KeysSay, Follows, JobsFollow, Inherits, Fresh, OpenJobs
<1>4. \A k \in DOMAIN jobs' : k[2] = "repair" => k[3] <= item'[ItemOf(k)].dr
  <2> SUFFICES ASSUME NEW k \in DOMAIN jobs', k[2] = "repair"
               PROVE  k[3] <= item'[ItemOf(k)].dr
    OBVIOUS
  <2>1. CASE k \in DOMAIN jobs
    <3>1. k[3] <= item[ItemOf(k)].dr
      BY <2>1 DEF DraftingInvariant, DraftsPast
    <3>2. item[ItemOf(k)].dr <= item'[ItemOf(k)].dr
      BY <1>1 DEF Follows, ItemsGrow
    <3> QED
      BY <1>1, <1>2, <3>1, <3>2
  <2>2. CASE k \notin DOMAIN jobs
    BY <2>2 DEF Follows, JobsFollow, Inherits, Fresh
  <2> QED
    BY <2>1, <2>2
<1>5. RepairsStand'
  <2> SUFFICES ASSUME NEW k \in OpenJobs', k[2] = "repair", ItemOf(k) \notin disowned',
                      k[3] = item'[ItemOf(k)].dr
               PROVE  item'[ItemOf(k)].state \in RepairStates
    BY DEF RepairsStand
  <2>0. k \in DOMAIN jobs' /\ jobs'[k].status \in OpenStatus
    BY DEF OpenJobs
  <2>1. CASE Fresh(k)
    BY <2>0, <2>1 DEF Fresh, RepairStates
  <2>2. CASE Inherits(k)
    <3>1. k \in OpenJobs
      BY <2>0, <2>2 DEF Inherits, OpenJobs
    <3>2. ItemOf(k) \notin disowned
      BY DEF Follows
    <3>3. OpenJobsOf(ItemOf(k)) # {}
      BY <3>1 DEF OpenJobsOf
    <3>4. k[3] <= item[ItemOf(k)].dr
      BY <2>2 DEF Inherits, DraftingInvariant, DraftsPast
    <3>5. item'[ItemOf(k)].dr = item[ItemOf(k)].dr
      <4>1. item'[ItemOf(k)].dr >= item[ItemOf(k)].dr
        BY <1>1, <2>0 DEF Follows, ItemsGrow
      <4> QED
        BY <1>1, <1>2, <2>0, <3>4, <4>1
    <3>6. item[ItemOf(k)].state \in RepairStates
      BY <3>1, <3>2, <3>5 DEF DraftingInvariant, RepairsStand
    <3>7. Settles(ItemOf(k))
      BY <1>1, <2>0 DEF Follows
    <3>8. ~(item'[ItemOf(k)].dr > item[ItemOf(k)].dr)
      BY <1>1, <1>2, <2>0, <3>5
    <3> QED
      BY <3>3, <3>6, <3>7, <3>8 DEF Settles
  <2> QED
    BY <2>0, <2>1, <2>2 DEF Follows, JobsFollow
<1> QED
  BY <1>3, <1>4, <1>5

\* The item stays, or in research as it was.
Gentle(j) ==
    /\ item'[j].tries = item[j].tries
    /\ \/ /\ item'[j].state = item[j].state
          /\ item'[j].rr = item[j].rr /\ item'[j].dr = item[j].dr
       \/ item[j].state \in ResearchStates /\ item'[j].state \in ResearchStates

\* One handler whose claims a step of others leaves alone.
LEMMA BystanderKeeps ==
    ASSUME DraftingInvariant, NEW b \in Agents, Busy(b), OfItem(b) \notin disowned,
           ag'[b] = ag[b], b \notin asleep',
           jobs'[ag[b].job].row = b, jobs'[ag[b].job].status = "in_flight",
           IsResearch(ag[b].job) => lock'[OfItem(b)] = b,
           Gentle(OfItem(b)) \/ ~Engaged(b)
    PROVE  Kept(b)' /\ InPlace(b)'
<1>1. Kept(b)'
  BY DEF Kept, OfItem
<1>2. InPlace(b)
  BY DEF DraftingInvariant, Custody
<1>3. InPlace(b)'
  BY <1>2 DEF InPlace, Gentle, Engaged, Researching, OfItem, ResearchStates
<1> QED
  BY <1>1, <1>3

\* What a handler a with the job k in hand does.
Alone(a, j) == \A b \in Agents \ {a} : Engaged(b) /\ OfItem(b) = j => j \in disowned

HandlerStep(a, k) ==
    /\ Books(jobs', runs')
    /\ item' \in [Items -> Item] /\ lock' \in [Items -> Holder \cup {Null}]
    /\ lease' \in [Companies -> Lease]
    /\ ag' \in [Agents -> Activity]
    /\ \A b \in Agents \ {a} : ag'[b] = ag[b]
    /\ Follows
    /\ \A x \in DOMAIN jobs \ {k} : jobs[x].row \notin {"none", "queued"} => jobs'[x] = jobs[x]
    /\ \A j \in Items : lock[j] \in {a, Null} \/ lock'[j] = lock[j]
    /\ \A j \in Items : Gentle(j) \/ Alone(a, j)
    /\ UNCHANGED <<latest, ws, asleep, disowned>>
    /\ faults' \in 0..MaxFaults
    /\ UNCHANGED sweep

\* What becomes of the handler itself
Actor(a, k) ==
    /\ PlacedAt(ag'[a])
    /\ \/ ag'[a].at = "idle"
       \/ /\ ag'[a].job = k
          /\ ag'[a].dr <= item'[ItemOf(k)].dr
          /\ ItemOf(k) \notin disowned => Kept(a)' /\ InPlace(a)'

LEMMA HandlerKeeps ==
    ASSUME DraftingInvariant, NEW a \in Agents, NEW k \in DOMAIN jobs,
           HandlerStep(a, k), Actor(a, k), LeasesHeld', LooksAround',
           \A b \in Agents \ {a} : Busy(b) /\ OfItem(b) \notin disowned => ag[b].job # k
    PROVE  DraftingInvariant'
<1>1. KeysSay' /\ RepairsStand'
      /\ \A x \in DOMAIN jobs' : x[2] = "repair" => x[3] <= item'[ItemOf(x)].dr
  BY JobsKeep DEF HandlerStep
<1>2. DraftingTypeOK'
  <2>1. StoreTypeOK'
    BY DEF HandlerStep, StoreTypeOK, Books, JobsOK, DraftingInvariant, DraftingTypeOK
  <2>2. WorkerTypeOK'
    BY DEF HandlerStep, WorkerTypeOK, DraftingInvariant, DraftingTypeOK
  <2>3. SweepTypeOK'
    BY DEF HandlerStep, SweepTypeOK, DraftingInvariant, DraftingTypeOK
  <2> QED
    BY <2>1, <2>2, <2>3 DEF DraftingTypeOK
<1>3. InHand'
  BY DEF HandlerStep, Actor, Follows, JobsFollow, DraftingInvariant, InHand, Busy
<1>4. DraftsPast'
  <2> SUFFICES ASSUME NEW b \in Agents, Busy(b)'
               PROVE  ag'[b].dr <= item'[ItemOf(ag'[b].job)].dr
    BY <1>1 DEF DraftsPast, OfItem
  <2>1. CASE b = a
    BY <2>1 DEF Actor, Busy
  <2>2. CASE b # a
    <3>1. Busy(b) /\ ag'[b] = ag[b]
      BY <2>2 DEF HandlerStep, Busy
    <3>2. OfItem(b) \in Items /\ ag[b].dr \in Nat
      BY <3>1, HandlerFacts DEF Activity
    <3>3. ag[b].dr <= item[OfItem(b)].dr /\ item[OfItem(b)].dr <= item'[OfItem(b)].dr
      BY <3>1, <3>2 DEF DraftingInvariant, DraftsPast, HandlerStep, Follows, ItemsGrow
    <3>4. item[OfItem(b)].dr \in Nat /\ item'[OfItem(b)].dr \in Nat
      BY <3>2 DEF DraftingInvariant, DraftingTypeOK, StoreTypeOK, HandlerStep, Item
    <3> QED
      BY <3>1, <3>2, <3>3, <3>4 DEF OfItem
  <2> QED
    BY <2>1, <2>2
<1>5. Placed'
  <2> SUFFICES ASSUME NEW b \in Agents PROVE PlacedAt(ag'[b])
    BY DEF Placed
  <2> QED
    BY DEF HandlerStep, Actor, DraftingInvariant, Placed
<1>6. Custody'
  <2> SUFFICES ASSUME NEW b \in Agents, Busy(b)', OfItem(b)' \notin disowned'
               PROVE  Kept(b)' /\ InPlace(b)'
    BY DEF Custody
  <2>1. CASE b = a
    BY <2>1 DEF Actor, Busy, OfItem, HandlerStep
  <2>2. CASE b # a
    <3>1. Busy(b) /\ ag'[b] = ag[b] /\ OfItem(b) \notin disowned /\ b \notin asleep'
      BY <2>2 DEF HandlerStep, Busy, OfItem, DraftingInvariant, Custody, Kept
    <3>2. Kept(b) /\ ag[b].job \in DOMAIN jobs /\ OfItem(b) \in Items
      BY <3>1, HandlerFacts DEF DraftingInvariant, Custody
    <3>3. b \notin {"none", "queued"} /\ b # Null
      BY DraftingAssumption
    <3>4. jobs'[ag[b].job] = jobs[ag[b].job]
      BY <2>2, <3>1, <3>2, <3>3 DEF HandlerStep, Kept
    <3>5. IsResearch(ag[b].job) => lock'[OfItem(b)] = b
      BY <2>2, <3>2, <3>3 DEF HandlerStep, Kept, OfItem
    <3>6. Gentle(OfItem(b)) \/ ~Engaged(b)
      BY <2>2, <3>1, <3>2 DEF HandlerStep, Alone
    <3> QED
      BY <3>1, <3>2, <3>4, <3>5, <3>6, BystanderKeeps DEF Kept
  <2> QED
    BY <2>1, <2>2
<1> QED
  BY <1>1, <1>2, <1>3, <1>4, <1>5, <1>6 DEF HandlerStep, DraftingInvariant

-----------------------------------------------------------------------------
\* Leases and packets where nothing happens to them.

LEMMA LeasesSame ==
    ASSUME DraftingInvariant, disowned \subseteq disowned', lease' = lease,
           \A a \in Agents : ag'[a].at # "idle" /\ ag'[a].own =>
               Busy(a) /\ ag[a].own /\ ag'[a].job = ag[a].job
    PROVE  LeasesHeld'
BY DEF LeasesHeld, DraftingInvariant, Busy, OfItem, Undisturbed

LEMMA AroundSame ==
    ASSUME DraftingInvariant, NEW b \in Agents, Busy(b), Around(b),
           ag'[b].job = ag[b].job, ag'[b].at = ag[b].at, ag'[b].own = ag[b].own,
           \A j \in Items : item'[j].packet = item[j].packet /\ item'[j].tries = item[j].tries
    PROVE  Around(b)'
<1>1. OfItem(b)' = OfItem(b)
  BY DEF OfItem
<1>2. OfItem(b) \in Items /\ Siblings(OfItem(b)) \subseteq Items
  BY HandlerFacts DEF Siblings
<1>3. Reusable(OfItem(b))' <=> Reusable(OfItem(b))
  BY <1>1, <1>2 DEF Reusable, Siblings
<1>4. (\E j \in Siblings(OfItem(b))' : item'[j].tries > 0)
        <=> \E j \in Siblings(OfItem(b)) : item[j].tries > 0
  BY <1>1, <1>2 DEF Siblings
<1> QED
  BY <1>1, <1>2, <1>3, <1>4 DEF Around

LEMMA LooksSame ==
    ASSUME DraftingInvariant, disowned \subseteq disowned',
           \A j \in Items : item'[j].packet = item[j].packet /\ item'[j].tries = item[j].tries,
           \A a \in Agents : Looks(a)' =>
               Looks(a) /\ ag'[a].own = ag[a].own /\ ag'[a].job = ag[a].job
                        /\ ag'[a].at = ag[a].at
    PROVE  LooksAround'
<1> SUFFICES ASSUME disowned' = {}, NEW a \in Agents, Looks(a)'
             PROVE  Around(a)'
  BY DEF LooksAround
<1>1. Looks(a) /\ ag'[a].own = ag[a].own /\ ag'[a].job = ag[a].job /\ ag'[a].at = ag[a].at
  OBVIOUS
<1>2. Around(a) /\ Busy(a)
  BY <1>1 DEF DraftingInvariant, LooksAround, Looks, Busy
<1> QED
  BY <1>1, <1>2, AroundSame

-----------------------------------------------------------------------------
\* The jobs of a step that closes some, and gives rows away.

LEMMA LighterFollow ==
    ASSUME Lighter(jobs, jobs')
    PROVE  JobsFollow
BY DEF Lighter, JobsFollow, Inherits

LEMMA JobFields ==
    ASSUME NEW j \in Job, NEW x \in {"none", "queued"} \cup Holder
    PROVE  /\ [j EXCEPT !.row = x] \in Job
           /\ [j EXCEPT !.row = x].row = x
           /\ [j EXCEPT !.row = x].status = j.status
           /\ [j EXCEPT !.row = x].run = j.run /\ [j EXCEPT !.row = x].res = j.res
           /\ [j EXCEPT !.row = x].rr = j.rr /\ [j EXCEPT !.row = x].dr = j.dr
           /\ [j EXCEPT !.row = x].att = j.att /\ [j EXCEPT !.row = x].due = j.due
           /\ [j EXCEPT !.row = x].manual = j.manual
BY DEF Job

LEMMA ClosedFields ==
    ASSUME NEW j \in Job
    PROVE  Closed(j) \in Job /\ Closed(j).status = "closed" /\ Closed(j).row = j.row
BY DEF Job, Closed, JobStatus

LEMMA RowLighter ==
    ASSUME NEW jb, JobsOK(jb), NEW k, NEW x \in {"none", "queued"} \cup Holder
    PROVE  /\ Lighter(jb, [jb EXCEPT ![k].row = x])
           /\ JobsOK([jb EXCEPT ![k].row = x])
<1> DEFINE jb2 == [jb EXCEPT ![k].row = x]
<1>1. \A y \in DOMAIN jb : jb2[y] = jb[y] \/ jb2[y] = [jb[y] EXCEPT !.row = x]
  OBVIOUS
<1>2. DOMAIN jb2 = DOMAIN jb
  OBVIOUS
<1>3. \A y \in DOMAIN jb : jb[y] \in Job
  BY DEF JobsOK
<1> HIDE DEF jb2
<1>3a. ASSUME NEW y \in DOMAIN jb
       PROVE  /\ jb2[y] \in Job
              /\ jb2[y].status = jb[y].status /\ jb2[y].run = jb[y].run
              /\ jb2[y].res = jb[y].res /\ jb2[y].rr = jb[y].rr /\ jb2[y].dr = jb[y].dr
  <2>1. CASE jb2[y] = jb[y]
    BY <1>3, <2>1
  <2>2. CASE jb2[y] = [jb[y] EXCEPT !.row = x]
    BY <1>3, <2>2, JobFields
  <2> QED
    BY <1>1, <2>1, <2>2
<1>4. Lighter(jb, jb2)
  BY <1>2, <1>3a DEF Lighter
<1>5. JobsOK(jb2)
  BY <1>2, <1>4 DEF Lighter, JobsOK
<1> QED
  BY <1>4, <1>5 DEF jb2

LEMMA DispatchedLighter ==
    ASSUME NEW jb, JobsOK(jb), NEW ks
    PROVE  /\ Lighter(jb, Dispatched(jb, ks)) /\ JobsOK(Dispatched(jb, ks))
           /\ \A y \in DOMAIN jb : jb[y].row # "none" => Dispatched(jb, ks)[y] = jb[y]
<1> DEFINE jb2 == Dispatched(jb, ks)
<1>1. \A y \in DOMAIN jb : \/ jb2[y] = jb[y]
                           \/ jb[y].row = "none" /\ jb2[y] = [jb[y] EXCEPT !.row = "queued"]
  BY DEF Dispatched
<1>2. DOMAIN jb2 = DOMAIN jb
  BY DEF Dispatched
<1>3. \A y \in DOMAIN jb : jb[y] \in Job
  BY DEF JobsOK
<1> HIDE DEF jb2
<1>3a. ASSUME NEW y \in DOMAIN jb
       PROVE  /\ jb2[y] \in Job
              /\ jb2[y].status = jb[y].status /\ jb2[y].run = jb[y].run
              /\ jb2[y].res = jb[y].res /\ jb2[y].rr = jb[y].rr /\ jb2[y].dr = jb[y].dr
  <2>1. CASE jb2[y] = jb[y]
    BY <1>3, <2>1
  <2>2. CASE jb2[y] = [jb[y] EXCEPT !.row = "queued"]
    BY <1>3, <2>2, JobFields
  <2> QED
    BY <1>1, <2>1, <2>2
<1>4. Lighter(jb, jb2)
  BY <1>2, <1>3a DEF Lighter
<1>5. JobsOK(jb2)
  BY <1>2, <1>4 DEF Lighter, JobsOK
<1> QED
  BY <1>1, <1>4, <1>5 DEF jb2

LEMMA CompletedLighter ==
    ASSUME NEW a, NEW k, NEW jb, NEW ks, JobsOK(jb), Completed(a, k, jb, ks)
    PROVE  /\ Lighter(jb, jobs') /\ JobsOK(jobs')
           /\ \A y \in DOMAIN jb \ {k} : jb[y].row # "none" => jobs'[y] = jb[y]
           /\ ag' = [ag EXCEPT ![a] = Idle]
<1>1. CASE jb[k].row # a
  <2>1. jobs' = jb
    BY <1>1 DEF Completed
  <2>2. Lighter(jb, jb)
    BY DEF Lighter, JobsOK
  <2> QED
    BY <2>1, <2>2 DEF Completed
<1>2. CASE jb[k].row = a
  <2> DEFINE jb2 == Dispatched(jb, ks)
  <2>1. jobs' = [jb2 EXCEPT ![k].row = "none"]
    BY <1>2 DEF Completed
  <2>2. /\ Lighter(jb, jb2) /\ JobsOK(jb2)
        /\ \A y \in DOMAIN jb : jb[y].row # "none" => jb2[y] = jb[y]
    BY DispatchedLighter
  <2> HIDE DEF jb2
  <2>3. Lighter(jb2, jobs') /\ JobsOK(jobs')
    BY <2>1, <2>2, RowLighter
  <2>4. Lighter(jb, jobs')
    BY <2>2, <2>3, LighterChain
  <2>5. \A y \in DOMAIN jb2 \ {k} : jobs'[y] = jb2[y]
    BY <2>1
  <2> QED
    BY <2>2, <2>3, <2>4, <2>5 DEF Completed, Lighter
<1> QED
  BY <1>1, <1>2

LEMMA ClosedLighter ==
    ASSUME NEW jb, JobsOK(jb), NEW k
    PROVE  /\ Lighter(jb, [jb EXCEPT ![k] = Closed(@)])
           /\ JobsOK([jb EXCEPT ![k] = Closed(@)])
<1> DEFINE jb2 == [jb EXCEPT ![k] = Closed(@)]
<1>1. \A y \in DOMAIN jb : jb2[y] = jb[y] \/ jb2[y] = Closed(jb[y])
  OBVIOUS
<1>2. DOMAIN jb2 = DOMAIN jb
  OBVIOUS
<1>3. \A y \in DOMAIN jb : jb[y] \in Job
  BY DEF JobsOK
<1>4. "closed" \notin OpenStatus
  BY DEF OpenStatus
<1> HIDE DEF jb2
<1>4a. ASSUME NEW y \in DOMAIN jb, jb2[y] # jb[y]
       PROVE  jb2[y] \in Job /\ jb2[y].status = "closed"
  BY <1>1, <1>3, <1>4a, ClosedFields
<1>5. Lighter(jb, jb2)
  BY <1>2, <1>3, <1>4, <1>4a DEF Lighter
<1>6. JobsOK(jb2)
  BY <1>2, <1>5 DEF Lighter, JobsOK
<1> QED
  BY <1>5, <1>6 DEF jb2

LEMMA FinishedLighter ==
    ASSUME NEW k, JobsOK(jobs)
    PROVE  /\ Lighter(jobs, FinishedJobs(k)) /\ JobsOK(FinishedJobs(k))
           /\ \A y \in DOMAIN jobs \ {k} : FinishedJobs(k)[y] = jobs[y]
<1>1. Lighter(jobs, jobs)
  BY DEF Lighter, JobsOK
<1> QED
  BY <1>1, ClosedLighter DEF FinishedJobs

-----------------------------------------------------------------------------
\* Claims: the handler takes a row that is queued, which nobody holds.

LEMMA QueuedIsNobodys ==
    ASSUME DraftingInvariant, NEW k \in DOMAIN jobs, jobs[k].row \in {"none", "queued", Gone}
    PROVE  \A b \in Agents : Busy(b) /\ OfItem(b) \notin disowned => ag[b].job # k
BY DraftingAssumption DEF DraftingInvariant, Custody, Kept

\* The parts of a step that are the same for all handlers that leave the items alone
LEMMA QuietStep ==
    ASSUME DraftingInvariant, NEW a \in Agents, NEW k \in DOMAIN jobs,
           Lighter(jobs, jobs'), Books(jobs', runs'),
           \A x \in DOMAIN jobs \ {k} : jobs[x].row \notin {"none", "queued"} => jobs'[x] = jobs[x],
           ag' \in [Agents -> Activity], \A b \in Agents \ {a} : ag'[b] = ag[b],
           lock' \in [Items -> Holder \cup {Null}],
           \A j \in Items : lock[j] \in {a, Null} \/ lock'[j] = lock[j],
           lease' \in [Companies -> Lease],
           UNCHANGED <<item, latest, ws, asleep, disowned, sweep>>, faults' \in 0..MaxFaults
    PROVE  HandlerStep(a, k)
<1>1. JobsFollow
  BY LighterFollow
<1>2. ItemsGrow
  BY DEF ItemsGrow, DraftingInvariant, DraftingTypeOK, StoreTypeOK, Item
<1>3. \A j \in Items : Settles(j) /\ Gentle(j)
  BY DEF Settles, Gentle
<1>4. item' \in [Items -> Item]
  BY DEF DraftingInvariant, DraftingTypeOK, StoreTypeOK
<1> QED
  BY <1>1, <1>2, <1>3, <1>4 DEF HandlerStep, Follows

\* A handler that comes to its end
LEMMA IdleIsPlaced == PlacedAt(Idle) /\ Idle \in Activity /\ Idle.at = "idle"
BY DEF PlacedAt, Idle, Activity, At

LEMMA UnlockedTypes ==
    ASSUME DraftingInvariant, NEW a \in Agents
    PROVE  /\ Unlocked(a) \in [Items -> Holder \cup {Null}]
           /\ \A j \in Items : lock[j] \in {a, Null} \/ Unlocked(a)[j] = lock[j]
BY DEF Unlocked, DraftingInvariant, DraftingTypeOK, StoreTypeOK

LEMMA EndKeeps ==
    ASSUME DraftingInvariant, NEW a \in Agents, NEW k \in DOMAIN jobs,
           Lighter(jobs, jobs'), Books(jobs', runs'),
           \A x \in DOMAIN jobs \ {k} : jobs[x].row \notin {"none", "queued"} => jobs'[x] = jobs[x],
           ag' = [ag EXCEPT ![a] = Idle], lock' \in {lock, Unlocked(a)}, lease' = lease,
           UNCHANGED <<item, latest, ws, asleep, disowned, sweep>>, faults' \in 0..MaxFaults,
           \A b \in Agents \ {a} : Busy(b) /\ OfItem(b) \notin disowned => ag[b].job # k
    PROVE  DraftingInvariant'
<1>1. /\ ag' \in [Agents -> Activity] /\ ag'[a] = Idle
      /\ \A b \in Agents \ {a} : ag'[b] = ag[b]
  BY IdleIsPlaced DEF DraftingInvariant, DraftingTypeOK, WorkerTypeOK
<1>2. /\ lock' \in [Items -> Holder \cup {Null}]
      /\ \A j \in Items : lock[j] \in {a, Null} \/ lock'[j] = lock[j]
  BY UnlockedTypes DEF DraftingInvariant, DraftingTypeOK, StoreTypeOK
<1>3. lease' \in [Companies -> Lease]
  BY DEF DraftingInvariant, DraftingTypeOK, StoreTypeOK
<1>4. HandlerStep(a, k)
  BY <1>1, <1>2, <1>3, QuietStep
<1>5. Actor(a, k)
  BY <1>1, IdleIsPlaced DEF Actor
<1>6. LeasesHeld'
  <2>1. \A b \in Agents : ag'[b].at # "idle" => ag'[b] = ag[b]
    BY <1>1, IdleIsPlaced
  <2> QED
    BY <2>1, LeasesSame DEF Busy
<1>7. LooksAround'
  <2>1. \A b \in Agents : Looks(b)' => ag'[b] = ag[b]
    BY <1>1, IdleIsPlaced DEF Looks
  <2> QED
    BY <2>1, LooksSame DEF Looks
<1> QED
  BY <1>4, <1>5, <1>6, <1>7, HandlerKeeps

LEMMA FaultsStay ==
    ASSUME DraftingInvariant, faults' = faults \/ Fault
    PROVE  faults' \in 0..MaxFaults
BY DraftingAssumption DEF DraftingInvariant, DraftingTypeOK, WorkerTypeOK, Fault

LEMMA TakenRows ==
    ASSUME DraftingInvariant, NEW a \in Agents, NEW k \in DOMAIN jobs
    PROVE  /\ Lighter(jobs, JobsTaken(a, k)) /\ JobsOK(JobsTaken(a, k))
           /\ Books(JobsTaken(a, k), runs)
           /\ \A y \in DOMAIN jobs \ {k} : JobsTaken(a, k)[y] = jobs[y]
           /\ JobsTaken(a, k)[k] = [jobs[k] EXCEPT !.row = a]
<1>1. a \in {"none", "queued"} \cup Holder
  BY DEF Holder
<1>2. Lighter(jobs, JobsTaken(a, k)) /\ JobsOK(JobsTaken(a, k))
  BY <1>1, RowLighter DEF JobsTaken, DraftingInvariant, Books
<1> QED
  BY <1>2, LighterBooks DEF JobsTaken, DraftingInvariant

LEMMA ClaimMissKeeps ==
    ASSUME DraftingInvariant, NEW a \in Agents, NEW k \in DOMAIN jobs, ClaimMiss(a, k),
           UNCHANGED sweep
    PROVE  DraftingInvariant'
<1> DEFINE jb == JobsTaken(a, k)
<1>1. \E ks : Completed(a, k, jb, ks)
  BY DEF ClaimMiss
<1>2. /\ Lighter(jobs, jb) /\ JobsOK(jb) /\ Books(jb, runs)
      /\ \A y \in DOMAIN jobs \ {k} : jb[y] = jobs[y]
  BY TakenRows
<1> HIDE DEF jb
<1>3. /\ Lighter(jb, jobs') /\ ag' = [ag EXCEPT ![a] = Idle]
      /\ \A y \in DOMAIN jb \ {k} : jb[y].row # "none" => jobs'[y] = jb[y]
  BY <1>1, <1>2, CompletedLighter
<1>4. DOMAIN jb = DOMAIN jobs
  BY <1>2 DEF Lighter
<1>5. Lighter(jobs, jobs') /\ Books(jobs', runs)
  BY <1>2, <1>3, LighterChain, LighterBooks
<1>6. \A y \in DOMAIN jobs \ {k} : jobs[y].row \notin {"none", "queued"} => jobs'[y] = jobs[y]
  BY <1>2, <1>3, <1>4
<1>7. \A b \in Agents \ {a} : Busy(b) /\ OfItem(b) \notin disowned => ag[b].job # k
  BY QueuedIsNobodys DEF ClaimMiss, Takes
<1>8. UNCHANGED <<item, lock, runs, lease, latest, ws, asleep, disowned>>
      /\ faults' \in 0..MaxFaults
  BY FaultsStay DEF ClaimMiss, OthersUnchanged
<1> QED
  BY <1>3, <1>5, <1>6, <1>7, <1>8, EndKeeps

LEMMA ClaimRefusedKeeps ==
    ASSUME DraftingInvariant, NEW a \in Agents, NEW k \in DOMAIN jobs,
           ClaimRefused(a, k) \/ ClaimBarred(a, k),
           UNCHANGED sweep
    PROVE  DraftingInvariant'
<1> DEFINE jt == JobsTaken(a, k)
           jb == [jt EXCEPT ![k] = Closed(@)]
<1>1. Completed(a, k, jb, {})
  BY DEF ClaimRefused, ClaimBarred
<1>2. /\ Lighter(jobs, jt) /\ JobsOK(jt) /\ Books(jt, runs)
      /\ \A y \in DOMAIN jobs \ {k} : jt[y] = jobs[y]
      /\ jt[k] = [jobs[k] EXCEPT !.row = a]
  BY TakenRows
<1> HIDE DEF jt
<1>3. /\ Lighter(jt, jb) /\ JobsOK(jb) /\ DOMAIN jt = DOMAIN jobs
      /\ \A y \in DOMAIN jobs \ {k} : jb[y] = jobs[y]
  BY <1>2, ClosedLighter DEF Lighter
<1>4. Lighter(jobs, jb) /\ Books(jb, runs) /\ DOMAIN jb = DOMAIN jobs
  <2>1. Lighter(jobs, jb) /\ Books(jb, runs)
    BY <1>2, <1>3, LighterChain, LighterBooks
  <2>2. DOMAIN jb = DOMAIN jt
    OBVIOUS
  <2> QED
    BY <1>3, <2>1, <2>2
<1>4a. jb[k] = Closed([jobs[k] EXCEPT !.row = a])
  BY <1>2, <1>3
<1> HIDE DEF jb
<1>5. /\ Lighter(jb, jobs') /\ ag' = [ag EXCEPT ![a] = Idle]
      /\ \A y \in DOMAIN jb \ {k} : jb[y].row # "none" => jobs'[y] = jb[y]
  BY <1>1, <1>3, CompletedLighter
<1>6. Lighter(jobs, jobs') /\ Books(jobs', runs)
  BY <1>4, <1>5, LighterChain, LighterBooks
<1>7. \A y \in DOMAIN jobs \ {k} : jobs[y].row \notin {"none", "queued"} => jobs'[y] = jobs[y]
  BY <1>3, <1>4, <1>5
<1>8. \A b \in Agents \ {a} : Busy(b) /\ OfItem(b) \notin disowned => ag[b].job # k
  BY QueuedIsNobodys DEF ClaimRefused, ClaimBarred, Takes
<1>9. UNCHANGED <<item, lock, lease, latest, ws, asleep, disowned>> /\ faults' \in 0..MaxFaults
  BY FaultsStay DEF ClaimRefused, ClaimBarred, OthersUnchanged
<1>10. Books(jobs', runs')
  <2>1. CASE ClaimRefused(a, k)
    BY <1>6, <2>1 DEF ClaimRefused
  <2>2. CASE ClaimBarred(a, k)
    <3>1. jobs[k].status \in OpenStatus /\ runs' = FinishedRuns(k)
      BY <2>2 DEF ClaimBarred, Claimable
    <3>2. Books(FinishedJobs(k), runs')
      BY <3>1, FinishKeepsBooks DEF DraftingInvariant
    <3>3. FinishedJobs(k) = [jobs EXCEPT ![k] = Closed(@)]
      BY <3>1 DEF FinishedJobs
    <3>4. Lighter(FinishedJobs(k), jb)
      <4>1. /\ DOMAIN FinishedJobs(k) = DOMAIN jobs
            /\ FinishedJobs(k)[k] = Closed(jobs[k])
            /\ \A y \in DOMAIN jobs \ {k} : FinishedJobs(k)[y] = jobs[y]
        BY <3>3
      <4>2. /\ [jobs[k] EXCEPT !.row = a] \in Job /\ jobs[k] \in Job
        BY JobFields DEF Holder, DraftingInvariant, Books, JobsOK
      <4>3. jb[k] \in Job /\ jb[k].status = "closed"
        BY <1>4a, <4>2, ClosedFields
      <4>4. "closed" \notin OpenStatus
        BY DEF OpenStatus
      <4>5. \A y \in DOMAIN jobs : jobs[y] \in Job
        BY DEF DraftingInvariant, Books, JobsOK
      <4> QED
        BY <1>3, <1>4, <4>1, <4>3, <4>4, <4>5 DEF Lighter
    <3> QED
      BY <1>5, <3>2, <3>4, LighterBooks
  <2> QED
    BY <2>1, <2>2
<1> QED
  BY <1>5, <1>6, <1>7, <1>8, <1>9, <1>10, EndKeeps

Taken(j, a) == [j EXCEPT !.row = a, !.status = "in_flight", !.due = FALSE, !.att = @ + 1]

LEMMA TakenFields ==
    ASSUME NEW j \in Job, NEW a \in Agents
    PROVE  LET x == Taken(j, a) IN
           /\ x \in Job /\ x.row = a /\ x.status = "in_flight"
           /\ x.run = j.run /\ x.res = j.res /\ x.rr = j.rr /\ x.dr = j.dr
<1> DEFINE y == [j EXCEPT !.row = a]
           z == [y EXCEPT !.status = "in_flight", !.due = FALSE]
<1>1. y \in Job /\ y.row = a /\ y.run = j.run /\ y.res = j.res /\ y.rr = j.rr /\ y.dr = j.dr
      /\ y.att = j.att
  BY JobFields DEF Holder
<1> HIDE DEF y
<1>2. z \in Job /\ z.row = a /\ z.run = j.run /\ z.res = j.res /\ z.rr = j.rr /\ z.dr = j.dr
      /\ z.status = "in_flight" /\ z.att = j.att
  BY <1>1 DEF Job, JobStatus, OpenStatus
<1>3. Taken(j, a) = [z EXCEPT !.att = j.att + 1]
  BY DEF y, z, Job, Taken
<1> HIDE DEF z
<1>4. j.att + 1 \in Nat
  BY DEF Job
<1>5. \A x : x = [z EXCEPT !.att = j.att + 1] =>
         /\ x \in Job /\ x.row = a /\ x.status = "in_flight"
         /\ x.run = j.run /\ x.res = j.res /\ x.rr = j.rr /\ x.dr = j.dr
  BY <1>2, <1>4 DEF Job
<1> QED
  BY <1>3, <1>5

LEMMA ClaimTakenKeeps ==
    ASSUME DraftingInvariant, NEW a \in Agents, NEW k \in DOMAIN jobs, ClaimTaken(a, k),
           UNCHANGED sweep
    PROVE  DraftingInvariant'
<1> DEFINE x == [Idle EXCEPT !.at = "begin", !.job = k]
           i == ItemOf(k)
<1>1. k \in Keys /\ i \in Items /\ jobs[k] \in Job /\ JobsOK(jobs)
  BY KeyParts DEF DraftingInvariant, Books, JobsOK
<1>2. /\ x \in Activity /\ x.at = "begin" /\ x.job = k /\ x.dr = 0 /\ ~x.own
      /\ x.then = "finish"
  BY <1>1 DEF Idle, Activity, At
<1> HIDE DEF x
<1>3. /\ ag' \in [Agents -> Activity] /\ ag'[a] = x
      /\ \A b \in Agents \ {a} : ag'[b] = ag[b]
  BY <1>2 DEF ClaimTaken, x, DraftingInvariant, DraftingTypeOK, WorkerTypeOK
<1>4. /\ DOMAIN jobs' = DOMAIN jobs /\ \A y \in DOMAIN jobs \ {k} : jobs'[y] = jobs[y]
      /\ jobs'[k] = [jobs[k] EXCEPT !.row = a, !.status = "in_flight", !.due = FALSE,
                                    !.att = @ + 1]
  BY DEF ClaimTaken, JobsTaken
<1>5. /\ jobs'[k] \in Job /\ jobs'[k].row = a /\ jobs'[k].status = "in_flight"
      /\ jobs'[k].run = jobs[k].run /\ jobs'[k].res = jobs[k].res
      /\ jobs'[k].rr = jobs[k].rr /\ jobs'[k].dr = jobs[k].dr
  <2>1. jobs'[k] = Taken(jobs[k], a)
    BY <1>4 DEF Taken
  <2> QED
    BY <1>1, <2>1, TakenFields
<1>6. Lighter(jobs, jobs')
  BY <1>1, <1>4, <1>5 DEF Lighter, JobsOK, ClaimTaken, Claimable
<1>7. Books(jobs', runs')
  BY <1>6, LighterBooks DEF DraftingInvariant, ClaimTaken
<1>8. /\ lock' \in [Items -> Holder \cup {Null}]
      /\ \A j \in Items : lock[j] \in {a, Null} \/ lock'[j] = lock[j]
      /\ IsResearch(k) => lock'[i] = a
  BY <1>1 DEF ClaimTaken, DraftingInvariant, DraftingTypeOK, StoreTypeOK, Holder
<1>9. /\ UNCHANGED <<item, lease, latest, ws, asleep, disowned>>
      /\ faults' \in 0..MaxFaults /\ lease' \in [Companies -> Lease]
  BY FaultsStay DEF ClaimTaken, OthersUnchanged, DraftingInvariant, DraftingTypeOK, StoreTypeOK
<1>10. HandlerStep(a, k)
  BY <1>3, <1>4, <1>6, <1>7, <1>8, <1>9, QuietStep
<1>11. Actor(a, k)
  <2>1. PlacedAt(ag'[a])
    BY <1>2, <1>3 DEF PlacedAt
  <2>2. ag'[a].dr <= item'[i].dr
    BY <1>1, <1>2, <1>3, <1>9 DEF DraftingInvariant, DraftingTypeOK, StoreTypeOK, Item
  <2>3. Kept(a)' /\ InPlace(a)'
    BY <1>2, <1>3, <1>5, <1>8, <1>9 DEF ClaimTaken, Takes, Step, Kept, InPlace, Researching
  <2> QED
    BY <1>2, <1>3, <2>1, <2>2, <2>3 DEF Actor
<1>12. LeasesHeld'
  <2>1. \A b \in Agents : ag'[b].own => ag'[b] = ag[b]
    BY <1>2, <1>3
  <2> QED
    BY <1>9, <2>1, LeasesSame DEF Busy
<1>13. LooksAround'
  <2>1. \A b \in Agents : Looks(b)' => ag'[b] = ag[b]
    BY <1>2, <1>3 DEF Looks
  <2> QED
    BY <1>9, <2>1, LooksSame DEF Looks
<1>14. \A b \in Agents \ {a} : Busy(b) /\ OfItem(b) \notin disowned => ag[b].job # k
  BY QueuedIsNobodys DEF ClaimTaken, Takes
<1> QED
  BY <1>10, <1>11, <1>12, <1>13, <1>14, HandlerKeeps

-----------------------------------------------------------------------------
\* A handler that leaves the tables alone but for its item.

LEMMA HandsApart ==
    ASSUME DraftingInvariant, NEW a \in Agents, Busy(a)
    PROVE  \A b \in Agents \ {a} : Busy(b) /\ OfItem(b) \notin disowned => ag[b].job # ag[a].job
BY KeysApart

LEMMA BeginSkippedKeeps ==
    ASSUME DraftingInvariant, NEW a \in Agents, BeginSkipped(a), UNCHANGED sweep
    PROVE  DraftingInvariant'
<1> DEFINE k == ag[a].job
<1>1. Busy(a) /\ k \in DOMAIN jobs /\ JobsOK(jobs)
  BY HandlerFacts DEF BeginSkipped, Step, Busy, DraftingInvariant, Books
<1>2. \E jb : /\ Completed(a, k, jb, {}) /\ Lighter(jobs, jb) /\ JobsOK(jb)
              /\ Books(jb, runs')
              /\ \A y \in DOMAIN jobs \ {k} : jb[y] = jobs[y]
  <2>1. CASE jobs[k].status = "in_flight"
    <3>1. Completed(a, k, FinishedJobs(k), {}) /\ runs' = FinishedRuns(k)
      BY <2>1 DEF BeginSkipped
    <3> QED
      BY <1>1, <3>1, FinishedLighter, FinishKeepsBooks DEF DraftingInvariant
  <2>2. CASE jobs[k].status # "in_flight"
    <3>1. Completed(a, k, jobs, {}) /\ runs' = runs
      BY <2>2 DEF BeginSkipped
    <3>2. Lighter(jobs, jobs)
      BY <1>1 DEF Lighter, JobsOK
    <3> QED
      BY <1>1, <3>1, <3>2 DEF DraftingInvariant
  <2> QED
    BY <2>1, <2>2
<1>3. PICK jb : /\ Completed(a, k, jb, {}) /\ Lighter(jobs, jb) /\ JobsOK(jb)
                /\ Books(jb, runs')
                /\ \A y \in DOMAIN jobs \ {k} : jb[y] = jobs[y]
  BY <1>2
<1>4. /\ Lighter(jb, jobs') /\ ag' = [ag EXCEPT ![a] = Idle]
      /\ \A y \in DOMAIN jb \ {k} : jb[y].row # "none" => jobs'[y] = jb[y]
  BY <1>3, CompletedLighter
<1>5. Lighter(jobs, jobs') /\ Books(jobs', runs')
  BY <1>3, <1>4, LighterChain, LighterBooks
<1>5a. DOMAIN jb = DOMAIN jobs
  BY <1>3 DEF Lighter
<1>6. \A y \in DOMAIN jobs \ {k} : jobs[y].row \notin {"none", "queued"} => jobs'[y] = jobs[y]
  BY <1>3, <1>4, <1>5a
<1>7. /\ UNCHANGED <<item, lease, latest, ws, asleep, disowned>> /\ faults' \in 0..MaxFaults
      /\ lock' = Unlocked(a)
  BY FaultsStay DEF BeginSkipped, OthersUnchanged
<1> QED
  BY <1>1, <1>4, <1>5, <1>6, <1>7, EndKeeps, HandsApart

LEMMA FinishKeeps ==
    ASSUME DraftingInvariant, NEW a \in Agents, Finish(a), UNCHANGED sweep
    PROVE  DraftingInvariant'
<1> DEFINE k == ag[a].job
           jb == FinishedJobs(k)
<1>1. Busy(a) /\ k \in DOMAIN jobs /\ JobsOK(jobs)
  BY HandlerFacts DEF Finish, Step, Busy, DraftingInvariant, Books
<1>2. Completed(a, k, jb, ag[a].next) /\ runs' = FinishedRuns(k)
  BY DEF Finish
<1>3. /\ Lighter(jobs, jb) /\ JobsOK(jb) /\ Books(jb, runs')
      /\ \A y \in DOMAIN jobs \ {k} : jb[y] = jobs[y]
  BY <1>1, <1>2, FinishedLighter, FinishKeepsBooks DEF DraftingInvariant
<1> HIDE DEF jb
<1>4. /\ Lighter(jb, jobs') /\ ag' = [ag EXCEPT ![a] = Idle]
      /\ \A y \in DOMAIN jb \ {k} : jb[y].row # "none" => jobs'[y] = jb[y]
  BY <1>2, <1>3, CompletedLighter
<1>5. Lighter(jobs, jobs') /\ Books(jobs', runs')
  BY <1>3, <1>4, LighterChain, LighterBooks
<1>5a. DOMAIN jb = DOMAIN jobs
  BY <1>3 DEF Lighter
<1>6. \A y \in DOMAIN jobs \ {k} : jobs[y].row \notin {"none", "queued"} => jobs'[y] = jobs[y]
  BY <1>3, <1>4, <1>5a
<1>7. /\ UNCHANGED <<item, lease, latest, ws, asleep, disowned>> /\ faults' \in 0..MaxFaults
      /\ lock' = Unlocked(a)
  BY FaultsStay DEF Finish, OthersUnchanged
<1> QED
  BY <1>1, <1>4, <1>5, <1>6, <1>7, EndKeeps, HandsApart

LEMMA CompletionLostKeeps ==
    ASSUME DraftingInvariant, NEW a \in Agents, CompletionLost(a)
    PROVE  DraftingInvariant'
<1> DEFINE k == ag[a].job
           jb == FinishedJobs(k)
<1>1. Busy(a) /\ k \in DOMAIN jobs /\ JobsOK(jobs)
  BY HandlerFacts DEF CompletionLost, Busy, DraftingInvariant, Books
<1>2. runs' = FinishedRuns(k)
  BY DEF CompletionLost
<1>3. /\ Lighter(jobs, jb) /\ JobsOK(jb) /\ Books(jb, runs')
      /\ \A y \in DOMAIN jobs \ {k} : jb[y] = jobs[y]
  BY <1>1, <1>2, FinishedLighter, FinishKeepsBooks DEF DraftingInvariant
<1>4. PICK x \in {"none", "queued"} \cup Holder : jobs' = [jb EXCEPT ![k].row = x]
  <2>1. DOMAIN jb = DOMAIN jobs
    BY <1>3 DEF Lighter
  <2>2. jb[k].row \in {"none", "queued"} \cup Holder
    BY <1>1, <1>3, <2>1 DEF JobsOK, Job
  <2>3. Gone \in Holder
    BY DEF Holder
  <2> QED
    BY <2>2, <2>3 DEF CompletionLost
<1> HIDE DEF jb
<1>5. Lighter(jb, jobs') /\ \A y \in DOMAIN jb \ {k} : jobs'[y] = jb[y]
  BY <1>3, <1>4, RowLighter
<1>6. Lighter(jobs, jobs') /\ Books(jobs', runs')
  BY <1>3, <1>5, LighterChain, LighterBooks
<1>6a. DOMAIN jb = DOMAIN jobs
  BY <1>3 DEF Lighter
<1>7. \A y \in DOMAIN jobs \ {k} : jobs[y].row \notin {"none", "queued"} => jobs'[y] = jobs[y]
  BY <1>3, <1>5, <1>6a
<1>8. /\ UNCHANGED <<item, lease, latest, ws, asleep, disowned, sweep>>
      /\ faults' \in 0..MaxFaults /\ lock' = Unlocked(a) /\ ag' = [ag EXCEPT ![a] = Idle]
  BY FaultsStay DEF CompletionLost
<1> QED
  BY <1>1, <1>6, <1>7, <1>8, EndKeeps, HandsApart

LEMMA PressureKeeps ==
    ASSUME DraftingInvariant, NEW a \in Agents, Pressure(a), UNCHANGED sweep
    PROVE  DraftingInvariant'
<1> DEFINE k == ag[a].job
           jb == DeferredJobs(k)
<1>1. Busy(a) /\ k \in DOMAIN jobs /\ JobsOK(jobs) /\ jobs[k] \in Job
  BY HandlerFacts DEF Pressure, Busy, DraftingInvariant, Books
<1>2. Completed(a, k, jb, {k}) /\ runs' = runs
  BY DEF Pressure
<1>3. /\ DOMAIN jb = DOMAIN jobs /\ \A y \in DOMAIN jobs \ {k} : jb[y] = jobs[y]
      /\ jb[k] = jobs[k] \/ (/\ jobs[k].status = "in_flight"
                             /\ jb[k] = [jobs[k] EXCEPT !.status = "pending", !.due = FALSE])
  BY <1>1 DEF DeferredJobs
<1>4. /\ jb[k] \in Job /\ jb[k].run = jobs[k].run /\ jb[k].res = jobs[k].res
      /\ jb[k].rr = jobs[k].rr /\ jb[k].dr = jobs[k].dr
      /\ jb[k].status \in OpenStatus => jobs[k].status \in OpenStatus
  BY <1>1, <1>3 DEF Job, JobStatus, OpenStatus
<1> HIDE DEF jb
<1>5. Lighter(jobs, jb) /\ JobsOK(jb)
  BY <1>1, <1>3, <1>4 DEF Lighter, JobsOK
<1>6. /\ Lighter(jb, jobs') /\ ag' = [ag EXCEPT ![a] = Idle]
      /\ \A y \in DOMAIN jb \ {k} : jb[y].row # "none" => jobs'[y] = jb[y]
  BY <1>2, <1>5, CompletedLighter
<1>7. Lighter(jobs, jobs') /\ Books(jobs', runs')
  BY <1>2, <1>5, <1>6, LighterChain, LighterBooks DEF DraftingInvariant
<1>8. \A y \in DOMAIN jobs \ {k} : jobs[y].row \notin {"none", "queued"} => jobs'[y] = jobs[y]
  BY <1>3, <1>6
<1>9. /\ UNCHANGED <<item, lease, latest, ws, asleep, disowned>> /\ faults' \in 0..MaxFaults
      /\ lock' = Unlocked(a)
  BY FaultsStay DEF Pressure
<1> QED
  BY <1>1, <1>6, <1>7, <1>8, <1>9, EndKeeps, HandsApart

-----------------------------------------------------------------------------
\* A handler in the middle of its job.

RowsStay ==
    \A x \in DOMAIN jobs : jobs[x].row \notin {"none", "queued"} => jobs'[x] = jobs[x]

ItemsStep(a) ==
    /\ item' \in [Items -> Item] /\ ItemsGrow
    /\ \A j \in Items : Settles(j) /\ (Gentle(j) \/ Alone(a, j))

Rest ==
    /\ UNCHANGED <<lock, latest, ws, asleep, disowned, sweep>>
    /\ faults' \in 0..MaxFaults /\ lease' \in [Companies -> Lease]

LEMMA OwnKeeps ==
    ASSUME DraftingInvariant, NEW a \in Agents, Busy(a),
           NEW y \in Activity, ag' = [ag EXCEPT ![a] = y], y.job = ag[a].job, PlacedAt(y),
           y.dr <= item'[OfItem(a)].dr, OfItem(a) \notin disowned => InPlace(a)',
           JobsFollow, RowsStay, Books(jobs', runs'), ItemsStep(a), Rest,
           LeasesHeld', LooksAround'
    PROVE  DraftingInvariant'
<1> DEFINE k == ag[a].job
<1>1. k \in DOMAIN jobs /\ OfItem(a) = ItemOf(k)
  BY HandlerFacts DEF OfItem
<1>2. /\ ag' \in [Agents -> Activity] /\ ag'[a] = y
      /\ \A b \in Agents \ {a} : ag'[b] = ag[b]
  BY DEF DraftingInvariant, DraftingTypeOK, WorkerTypeOK
<1>3. HandlerStep(a, k)
  BY <1>2 DEF HandlerStep, Follows, ItemsStep, Rest, RowsStay, DraftingInvariant,
              DraftingTypeOK, StoreTypeOK
<1>4. OfItem(a) \notin disowned => Kept(a)'
  <2> SUFFICES ASSUME OfItem(a) \notin disowned PROVE Kept(a)'
    OBVIOUS
  <2>1. Kept(a)
    BY DEF DraftingInvariant, Custody
  <2>2. jobs[k].row = a /\ a \notin {"none", "queued"}
    BY <2>1, DraftingAssumption DEF Kept
  <2>3. jobs'[k] = jobs[k]
    BY <1>1, <2>2 DEF RowsStay
  <2> QED
    BY <1>2, <2>1, <2>3 DEF Kept, Rest
<1>5. Actor(a, k)
  BY <1>1, <1>2, <1>4 DEF Actor
<1> QED
  BY <1>1, <1>3, <1>5, HandlerKeeps, HandsApart

LEMMA OwnItem ==
    ASSUME DraftingInvariant, NEW a \in Agents, NEW i \in Items, item' \in [Items -> Item],
           \A j \in Items \ {i} : item'[j] = item[j],
           item'[i].dr >= item[i].dr, Settles(i), Gentle(i) \/ Alone(a, i)
    PROVE  ItemsStep(a)
<1>1. \A j \in Items : item[j].dr >= item[j].dr
  BY DEF DraftingInvariant, DraftingTypeOK, StoreTypeOK, Item
<1>2. ItemsGrow
  BY <1>1 DEF ItemsGrow
<1>3. \A j \in Items \ {i} : Settles(j) /\ Gentle(j)
  BY DEF Settles, Gentle
<1> QED
  BY <1>2, <1>3 DEF ItemsStep

LEMMA SameItems ==
    ASSUME DraftingInvariant, NEW a \in Agents, item' = item
    PROVE  ItemsStep(a)
<1>1. \A j \in Items : item[j].dr >= item[j].dr
  BY DEF DraftingInvariant, DraftingTypeOK, StoreTypeOK, Item
<1> QED
  BY <1>1 DEF ItemsStep, ItemsGrow, Settles, Gentle, DraftingInvariant, DraftingTypeOK,
              StoreTypeOK

LEMMA SameJobs ==
    ASSUME DraftingInvariant, jobs' = jobs
    PROVE  JobsFollow /\ RowsStay
BY DEF JobsFollow, RowsStay, Inherits

LEMMA EngagedIsAlone ==
    ASSUME DraftingInvariant, NEW a \in Agents, Engaged(a)
    PROVE  Alone(a, OfItem(a))
BY EngagedApart DEF Alone

\* A handler that has come to the end of its work on the item
Ended(a, at, next) == [Idle EXCEPT !.at = at, !.job = ag[a].job, !.next = next]

LEMMA EndFacts ==
    ASSUME DraftingInvariant, NEW a \in Agents, Busy(a), NEW at \in {"finish", "fail"},
           NEW next \in SUBSET Keys
    PROVE  LET y == Ended(a, at, next) IN
           /\ y \in Activity /\ y.at = at /\ y.job = ag[a].job /\ y.own = FALSE
           /\ y.dr = 0 /\ y.then = "finish"
<1>1. ag[a].job \in Keys
  BY HandlerFacts
<1> QED
  BY <1>1 DEF Ended, Idle, Activity, At

LEMMA EndsKeeps ==
    ASSUME DraftingInvariant, NEW a \in Agents, Busy(a), NEW at \in {"finish", "fail"},
           NEW next \in SUBSET Keys, Ends(a, at, next),
           at = "fail" => /\ IsResearch(ag[a].job)
                          /\ OfItem(a) \notin disowned => item'[OfItem(a)].state \in ResearchStates,
           \A j \in Items : item'[j].packet = item[j].packet /\ item'[j].tries = item[j].tries,
           JobsFollow, RowsStay, Books(jobs', runs'), ItemsStep(a), Rest, lease' = lease
    PROVE  DraftingInvariant'
<1> DEFINE y == Ended(a, at, next)
<1>1. ag' = [ag EXCEPT ![a] = y]
  BY DEF Ends, Ended
<1>2. /\ y \in Activity /\ y.at = at /\ y.job = ag[a].job /\ y.own = FALSE
      /\ y.dr = 0 /\ y.then = "finish"
  BY EndFacts
<1> HIDE DEF y
<1>3. ag'[a] = y /\ \A b \in Agents \ {a} : ag'[b] = ag[b]
  BY <1>1 DEF DraftingInvariant, DraftingTypeOK, WorkerTypeOK
<1>4. PlacedAt(y)
  BY <1>2 DEF PlacedAt
<1>5. y.dr <= item'[OfItem(a)].dr
  BY <1>2, HandlerFacts DEF ItemsStep, Item
<1>6. OfItem(a) \notin disowned => InPlace(a)'
  <2>1. OfItem(a)' = OfItem(a)
    BY <1>2, <1>3 DEF OfItem
  <2> QED
    BY <1>2, <1>3, <2>1 DEF InPlace, Researching
<1>7. LeasesHeld'
  <2>1. \A b \in Agents : ag'[b].own => ag'[b] = ag[b]
    BY <1>2, <1>3
  <2> QED
    BY <2>1, LeasesSame DEF Busy, Rest
<1>8. LooksAround'
  <2>1. \A b \in Agents : Looks(b)' => ag'[b] = ag[b]
    BY <1>2, <1>3 DEF Looks
  <2> QED
    BY <2>1, LooksSame DEF Looks, Rest
<1> QED
  BY <1>1, <1>2, <1>4, <1>5, <1>6, <1>7, <1>8, OwnKeeps

\* The item is moved, and the runs it leaves idle are finalized.
Moved(i, s, e) == [item[i] EXCEPT !.err = e, !.state = s]

LEMMA MovedFacts ==
    ASSUME DraftingInvariant, NEW i \in Items, NEW s \in ItemState, NEW e \in ErrorCode
    PROVE  LET x == Moved(i, s, e) IN
           /\ x \in Item /\ x.state = s /\ x.rr = item[i].rr /\ x.dr = item[i].dr
           /\ x.packet = item[i].packet /\ x.tries = item[i].tries
<1>1. item[i] \in Item
  BY DEF DraftingInvariant, DraftingTypeOK, StoreTypeOK
<1> QED
  BY <1>1 DEF Item, Moved

LEMMA RestSame ==
    ASSUME DraftingInvariant, UNCHANGED <<lock, lease>>, OthersUnchanged \/ FaultOthers,
           UNCHANGED sweep
    PROVE  Rest /\ lease' = lease
BY FaultsStay DEF Rest, OthersUnchanged, FaultOthers, DraftingInvariant, DraftingTypeOK,
                  StoreTypeOK

LEMMA ConflictKeeps ==
    ASSUME DraftingInvariant, NEW a \in Agents, Busy(a), Conflict(a),
           UNCHANGED <<item, jobs, runs, lock, lease, sweep>>, OthersUnchanged \/ FaultOthers
    PROVE  DraftingInvariant'
<1>1. Ends(a, "finish", {})
  BY DEF Conflict
<1>2. Rest /\ lease' = lease
  BY RestSame
<1>3. Books(jobs', runs')
  BY DEF DraftingInvariant
<1> QED
  BY <1>1, <1>2, <1>3, SameItems, SameJobs, EndsKeeps

LEMMA MoveEndsKeeps ==
    ASSUME DraftingInvariant, NEW a \in Agents, Busy(a), NEW i \in Items, i = OfItem(a),
           NEW x \in Item, item' \in [Items -> Item], item'[i] = x,
           \A j \in Items \ {i} : item'[j] = item[j],
           x.packet = item[i].packet, x.tries = item[i].tries, x.dr >= item[i].dr,
           Settles(i), Gentle(i) \/ Alone(a, i),
           jobs' = jobs, runs' = Finalized(item', jobs, runs), Ends(a, "finish", {}),
           UNCHANGED <<lock, lease, sweep>>, OthersUnchanged \/ FaultOthers
    PROVE  DraftingInvariant'
<1>2. Rest /\ lease' = lease
  BY RestSame
<1>3. Books(jobs', runs')
  BY FinalizedBooks DEF DraftingInvariant
<1>4. ItemsStep(a)
  BY OwnItem
<1>5. \A j \in Items : item'[j].packet = item[j].packet /\ item'[j].tries = item[j].tries
  OBVIOUS
<1> QED
  BY <1>2, <1>3, <1>4, <1>5, SameJobs, EndsKeeps

\* The moves of an item at the end of a failed or parked research
LEMMA ResearchMoves ==
    ASSUME DraftingInvariant, NEW a \in Agents, Busy(a), NEW i \in Items, i = OfItem(a),
           NEW x \in Item, item' = [item EXCEPT ![i] = x],
           x.packet = item[i].packet, x.tries = item[i].tries, x.dr = item[i].dr,
           CanMove(i, x.state),
           x.state \in {"failed_research", "waiting_company_research", "researching"},
           jobs' = jobs, runs' = Finalized(item', jobs, runs), Ends(a, "finish", {}),
           UNCHANGED <<lock, lease, sweep>>, OthersUnchanged
    PROVE  DraftingInvariant'
<1>1. /\ item[i] \in Item /\ item'[i] = x /\ item' \in [Items -> Item]
      /\ \A j \in Items \ {i} : item'[j] = item[j]
  BY DEF DraftingInvariant, DraftingTypeOK, StoreTypeOK
<1>2. item[i].state \in ResearchStates /\ x.state \in ResearchStates
  BY DEF CanMove, Allowed, ResearchStates
<1>3. Gentle(i)
  BY <1>1, <1>2 DEF Gentle
<1>4. Settles(i)
  BY <1>2 DEF Settles, ResearchStates, RepairStates
<1>5. x.dr >= item[i].dr
  BY <1>1 DEF Item
<1> QED
  BY <1>1, <1>3, <1>4, <1>5, MoveEndsKeeps

LEMMA StateFacts ==
    ASSUME DraftingInvariant, NEW i \in Items, NEW s \in ItemState,
           NEW x, x = [item[i] EXCEPT !.state = s]
    PROVE  /\ x \in Item /\ x.state = s /\ x.rr = item[i].rr /\ x.dr = item[i].dr
           /\ x.packet = item[i].packet /\ x.tries = item[i].tries
<1>1. item[i] \in Item
  BY DEF DraftingInvariant, DraftingTypeOK, StoreTypeOK
<1> QED
  BY <1>1 DEF Item

LEMMA StateNames ==
    /\ {"failed_research", "waiting_company_research", "researching", "queued_research",
        "queued_write", "writing", "repairing", "ready_for_review", "failed_write",
        "budget_paused"} \subseteq ItemState
    /\ {"research_provider_error", "empty_research_brief", "empty_research_brief_retry",
        "hard_lint_after_repair", "none"} \subseteq ErrorCode
BY DEF ItemState, IdleStates, RUNNING_STATES, ErrorCode

LEMMA BeginBarredKeeps ==
    ASSUME DraftingInvariant, NEW a \in Agents, BeginBarred(a), UNCHANGED sweep
    PROVE  DraftingInvariant'
<1> DEFINE k == ag[a].job
           i == ItemOf(k)
<1>1. Busy(a) /\ i \in Items /\ i = OfItem(a)
  BY HandlerFacts DEF BeginBarred, Step, Busy, OfItem
<1>2. CASE CanMove(i, "failed_research")
  <2>1. PICK x : x = Moved(i, "failed_research", "empty_research_brief")
    OBVIOUS
  <2>2. /\ x \in Item /\ x.state = "failed_research" /\ x.dr = item[i].dr
        /\ x.packet = item[i].packet /\ x.tries = item[i].tries
    BY <1>1, <2>1, StateNames, MovedFacts
  <2>3. /\ item' = [item EXCEPT ![i] = x] /\ jobs' = jobs
        /\ runs' = Finalized(item', jobs, runs) /\ Ends(a, "finish", {})
        /\ UNCHANGED <<lock, lease>> /\ OthersUnchanged
    BY <1>2, <2>1 DEF BeginBarred, Moved
  <2> QED
    BY <1>1, <1>2, <2>2, <2>3, ResearchMoves
<1>3. CASE ~CanMove(i, "failed_research")
  BY <1>1, <1>3, ConflictKeeps DEF BeginBarred
<1> QED
  BY <1>2, <1>3

LEMMA FailKeeps ==
    ASSUME DraftingInvariant, NEW a \in Agents, Fail(a), UNCHANGED sweep
    PROVE  DraftingInvariant'
<1> DEFINE k == ag[a].job
           i == ItemOf(k)
<1>1. Busy(a) /\ i \in Items /\ i = OfItem(a)
  BY HandlerFacts DEF Fail, Step, Busy, OfItem
<1>2. CASE CanMove(i, "failed_research")
  <2>1. PICK x : x = Moved(i, "failed_research", "research_provider_error")
    OBVIOUS
  <2>2. /\ x \in Item /\ x.state = "failed_research" /\ x.dr = item[i].dr
        /\ x.packet = item[i].packet /\ x.tries = item[i].tries
    BY <1>1, <2>1, StateNames, MovedFacts
  <2>3. /\ item' = [item EXCEPT ![i] = x] /\ jobs' = jobs
        /\ runs' = Finalized(item', jobs, runs) /\ Ends(a, "finish", {})
        /\ UNCHANGED <<lock, lease>> /\ OthersUnchanged
    BY <1>2, <2>1 DEF Fail, Moved
  <2> QED
    BY <1>1, <1>2, <2>2, <2>3, ResearchMoves
<1>3. CASE ~CanMove(i, "failed_research")
  BY <1>1, <1>3, ConflictKeeps DEF Fail
<1> QED
  BY <1>2, <1>3

LEMMA ParkKeeps ==
    ASSUME DraftingInvariant, NEW a \in Agents, Park(a), UNCHANGED sweep
    PROVE  DraftingInvariant'
<1> DEFINE k == ag[a].job
           i == ItemOf(k)
<1>1. Busy(a) /\ i \in Items /\ i = OfItem(a)
  BY HandlerFacts DEF Park, Step, Busy, OfItem
<1>2. CASE CanMove(i, "waiting_company_research")
  <2>1. PICK x : x = [item[i] EXCEPT !.state = "waiting_company_research"]
    OBVIOUS
  <2>2. /\ x \in Item /\ x.state = "waiting_company_research" /\ x.dr = item[i].dr
        /\ x.packet = item[i].packet /\ x.tries = item[i].tries
    BY <1>1, <2>1, StateNames, StateFacts
  <2>3. /\ item' = [item EXCEPT ![i] = x] /\ jobs' = jobs
        /\ runs' = Finalized(item', jobs, runs) /\ Ends(a, "finish", {})
        /\ UNCHANGED <<lock, lease>> /\ OthersUnchanged
    BY <1>2, <2>1 DEF Park
  <2> QED
    BY <1>1, <1>2, <2>2, <2>3, ResearchMoves
<1>3. CASE ~CanMove(i, "waiting_company_research")
  <2>1. Ends(a, "fail", {}) /\ UNCHANGED <<item, jobs, runs, lock, lease>> /\ OthersUnchanged
    BY <1>3 DEF Park
  <2>2. Rest /\ lease' = lease
    BY <2>1, RestSame
  <2>3. Books(jobs', runs')
    BY <2>1 DEF DraftingInvariant
  <2>4. IsResearch(k)
    BY DEF DraftingInvariant, Placed, PlacedAt, Park, Step
  <2>5. i \notin disowned => item[i].state \in ResearchStates
    BY <1>1 DEF DraftingInvariant, Custody, InPlace, Researching, Park, Step
  <2> QED
    BY <1>1, <2>1, <2>2, <2>3, <2>4, <2>5, SameItems, SameJobs, EndsKeeps
<1> QED
  BY <1>2, <1>3

-----------------------------------------------------------------------------
\* Writing.

LEMMA WritesAlone ==
    ASSUME DraftingInvariant, NEW a \in Agents, Step(a, "write")
    PROVE  /\ Busy(a) /\ OfItem(a) \in Items /\ Alone(a, OfItem(a))
           /\ ag[a].job \in DOMAIN jobs /\ ag[a].job \in Keys /\ jobs[ag[a].job] \in Job
           /\ item[OfItem(a)] \in Item /\ ag[a].rr \in Nat /\ ag[a].dr \in Nat
<1>1. Busy(a) /\ Engaged(a)
  BY DEF Step, Busy, Engaged
<1> QED
  BY <1>1, HandlerFacts, EngagedIsAlone
     DEF Activity, DraftingInvariant, DraftingTypeOK, StoreTypeOK

LEMMA DraftedFacts ==
    ASSUME DraftingInvariant, NEW a \in Agents, NEW i \in Items, NEW s \in ItemState
    PROVE  LET x == Drafted(a, i, s) IN
           /\ x \in Item /\ x.state = s /\ x.rr = item[i].rr /\ x.dr = item[i].dr + 1
           /\ x.packet = item[i].packet /\ x.tries = item[i].tries /\ x.dr >= item[i].dr
<1> DEFINE x == Drafted(a, i, s)
<1>1. item[i] \in Item /\ ag[a].rr \in Nat
  BY DEF DraftingInvariant, DraftingTypeOK, StoreTypeOK, WorkerTypeOK, Activity
<1>2. item[i].dr + 1 \in Nat
  BY <1>1 DEF Item
<1>3. x = [item[i] EXCEPT !.dr = item[i].dr + 1, !.from = ag[a].rr, !.state = s]
  BY DEF Drafted
<1>4. /\ x \in Item /\ x.state = s /\ x.rr = item[i].rr /\ x.dr = item[i].dr + 1
      /\ x.packet = item[i].packet /\ x.tries = item[i].tries
  BY <1>1, <1>2, <1>3 DEF Item
<1>5. item[i].dr + 1 >= item[i].dr
  BY <1>1 DEF Item
<1> HIDE DEF x
<1>6. x.dr >= item[i].dr
  BY <1>4, <1>5
<1> QED
  BY <1>4, <1>6 DEF x

LEMMA DraftEndsKeeps ==
    ASSUME DraftingInvariant, NEW a \in Agents, Step(a, "write"), NEW i \in Items, i = OfItem(a),
           NEW x \in Item, item' \in [Items -> Item], item'[i] = x,
           \A j \in Items \ {i} : item'[j] = item[j],
           x.packet = item[i].packet, x.tries = item[i].tries,
           \/ x.dr = item[i].dr + 1
           \/ x.dr = item[i].dr /\ x.state = "failed_write",
           jobs' = jobs, runs' = Finalized(item', jobs, runs), Ends(a, "finish", {}),
           UNCHANGED <<lock, lease, sweep>>, OthersUnchanged \/ FaultOthers
    PROVE  DraftingInvariant'
<1>1. Busy(a) /\ Alone(a, i) /\ item[i].dr \in Nat
  BY WritesAlone DEF Item
<1>2. x.dr >= item[i].dr
  BY <1>1
<1>3. Settles(i)
  BY <1>1 DEF Settles, RepairStates
<1> QED
  BY <1>1, <1>2, <1>3, MoveEndsKeeps

LEMMA DraftReadyKeeps ==
    ASSUME DraftingInvariant, NEW a \in Agents, DraftReady(a), UNCHANGED sweep
    PROVE  DraftingInvariant'
<1> DEFINE i == ItemOf(ag[a].job)
<1>1. Step(a, "write") /\ Busy(a) /\ i \in Items /\ i = OfItem(a)
  BY WritesAlone DEF DraftReady, OfItem
<1>2. CASE CanMove(i, "ready_for_review")
  <2>1. PICK x : x = Drafted(a, i, "ready_for_review")
    OBVIOUS
  <2>2. /\ x \in Item /\ x.dr = item[i].dr + 1
        /\ x.packet = item[i].packet /\ x.tries = item[i].tries
    BY <1>1, <2>1, StateNames, DraftedFacts
  <2>3. item' = [item EXCEPT ![i] = x]
    BY <1>2, <2>1 DEF DraftReady, WithDraft
  <2>4. /\ jobs' = jobs
        /\ runs' = Finalized(item', jobs, runs) /\ Ends(a, "finish", {})
        /\ UNCHANGED <<lock, lease>> /\ OthersUnchanged
    BY <1>2 DEF DraftReady
  <2>5. /\ item' \in [Items -> Item] /\ item'[i] = x
        /\ \A j \in Items \ {i} : item'[j] = item[j]
    BY <1>1, <2>2, <2>3 DEF DraftingInvariant, DraftingTypeOK, StoreTypeOK
  <2> QED
    BY <1>1, <2>2, <2>4, <2>5, DraftEndsKeeps
<1>3. CASE ~CanMove(i, "ready_for_review")
  BY <1>1, <1>3, ConflictKeeps DEF DraftReady
<1> QED
  BY <1>2, <1>3

LEMMA DraftRejectedKeeps ==
    ASSUME DraftingInvariant, NEW a \in Agents, DraftRejected(a), UNCHANGED sweep
    PROVE  DraftingInvariant'
<1> DEFINE i == ItemOf(ag[a].job)
           it == WithDraft(a, i, "failed_write")
<1>1. Step(a, "write") /\ Busy(a) /\ i \in Items /\ i = OfItem(a)
  BY WritesAlone DEF DraftRejected, OfItem
<1>2. CASE CanMove(i, "failed_write")
  <2>1. PICK x : x = Drafted(a, i, "failed_write")
    OBVIOUS
  <2>2. /\ x \in Item /\ x.dr = item[i].dr + 1 /\ x.state = "failed_write"
        /\ x.packet = item[i].packet /\ x.tries = item[i].tries
    BY <1>1, <2>1, StateNames, DraftedFacts
  <2>3. PICK y : y = [x EXCEPT !.err = "hard_lint_after_repair"]
    OBVIOUS
  <2>4. /\ y \in Item /\ y.dr = item[i].dr + 1 /\ y.state = "failed_write"
        /\ y.packet = item[i].packet /\ y.tries = item[i].tries
    BY <2>2, <2>3 DEF Item, ErrorCode
  <2>5. it = [item EXCEPT ![i] = x]
    BY <2>1 DEF WithDraft
  <2>6. item' = [it EXCEPT ![i].err = "hard_lint_after_repair"]
    BY <1>2 DEF DraftRejected
  <2>7. /\ jobs' = jobs
        /\ runs' = Finalized(item', jobs, runs) /\ Ends(a, "finish", {})
        /\ UNCHANGED <<lock, lease>> /\ FaultOthers
    BY <1>2 DEF DraftRejected
  <2> HIDE DEF it
  <2>8. /\ item' \in [Items -> Item] /\ item'[i] = y
        /\ \A j \in Items \ {i} : item'[j] = item[j]
    BY <1>1, <2>2, <2>3, <2>4, <2>5, <2>6 DEF DraftingInvariant, DraftingTypeOK, StoreTypeOK
  <2> QED
    BY <1>1, <2>4, <2>7, <2>8, DraftEndsKeeps
<1>3. CASE ~CanMove(i, "failed_write")
  BY <1>1, <1>3, ConflictKeeps DEF DraftRejected
<1> QED
  BY <1>2, <1>3

LEMMA WriteErrorKeeps ==
    ASSUME DraftingInvariant, NEW a \in Agents, WriteError(a), UNCHANGED sweep
    PROVE  DraftingInvariant'
<1> DEFINE i == ItemOf(ag[a].job)
<1>1. Step(a, "write") /\ Busy(a) /\ i \in Items /\ i = OfItem(a)
  BY WritesAlone DEF WriteError, OfItem
<1>2. CASE CanMove(i, "failed_write")
  <2>1. PICK x : x = [item[i] EXCEPT !.state = "failed_write"]
    OBVIOUS
  <2>2. /\ x \in Item /\ x.dr = item[i].dr /\ x.state = "failed_write"
        /\ x.packet = item[i].packet /\ x.tries = item[i].tries
    BY <1>1, <2>1, StateNames, StateFacts
  <2>3. item' = [item EXCEPT ![i] = x]
    BY <1>2, <2>1 DEF WriteError
  <2>4. /\ jobs' = jobs
        /\ runs' = Finalized(item', jobs, runs) /\ Ends(a, "finish", {})
        /\ UNCHANGED <<lock, lease>> /\ FaultOthers
    BY <1>2 DEF WriteError
  <2>5. /\ item' \in [Items -> Item] /\ item'[i] = x
        /\ \A j \in Items \ {i} : item'[j] = item[j]
    BY <1>1, <2>2, <2>3 DEF DraftingInvariant, DraftingTypeOK, StoreTypeOK
  <2> QED
    BY <1>1, <2>2, <2>4, <2>5, DraftEndsKeeps
<1>3. CASE ~CanMove(i, "failed_write")
  BY <1>1, <1>3, ConflictKeeps DEF WriteError
<1> QED
  BY <1>2, <1>3

\* A job is queued, and perhaps dispatched.
LEMMA NewJobFacts ==
    ASSUME NEW r \in RunIds, NEW rr \in Nat \cup {Null}, NEW dr \in Nat \cup {Null},
           NEW due \in BOOLEAN, NEW row \in {"none", "queued"}
    PROVE  LET j == NewJob(r, rr, dr, due, row) IN
           j \in Job /\ j.run = r /\ j.rr = rr /\ j.dr = dr
BY DEF NewJob, Job, JobStatus, OpenStatus

LEMMA QueueFollows ==
    ASSUME DraftingInvariant, NEW k \in Keys, NEW r \in RunIds, NEW job \in Job, job.run = r,
           k[2] = "write" => job.rr = k[3],
           k[2] = "repair" => /\ job.dr = k[3] /\ k[3] <= item'[ItemOf(k)].dr
                              /\ item'[ItemOf(k)].state = "repairing",
           jobs' = JobsAfterQueue(k, r, job)
              \/ \E ks : jobs' = Dispatched(JobsAfterQueue(k, r, job), ks)
    PROVE  JobsFollow /\ RowsStay /\ Books(jobs', RunsAfterQueue(k, r))
<1> DEFINE jb == JobsAfterQueue(k, r, job)
<1>1. Books(jb, RunsAfterQueue(k, r))
  BY QueueKeepsBooks DEF DraftingInvariant
<1>2. \/ jb = jobs
      \/ /\ k \notin DOMAIN jobs /\ DOMAIN jb = DOMAIN jobs \cup {k}
         /\ jb[k] = job /\ \A x \in DOMAIN jobs : jb[x] = jobs[x]
  BY DEF JobsAfterQueue, JobInserted, With
<1>3. JobsOK(jb)
  BY <1>1 DEF Books
<1> HIDE DEF jb
<1>4. /\ Lighter(jb, jobs')
      /\ \A y \in DOMAIN jb : jb[y].row # "none" => jobs'[y] = jb[y]
  <2>1. CASE jobs' = jb
    BY <1>3, <2>1 DEF Lighter, JobsOK
  <2>2. CASE \E ks : jobs' = Dispatched(jb, ks)
    BY <1>3, <2>2, DispatchedLighter
  <2> QED
    BY <2>1, <2>2 DEF jb
<1>5. Books(jobs', RunsAfterQueue(k, r))
  BY <1>1, <1>4, LighterBooks
<1>6. DOMAIN jobs' = DOMAIN jb /\ DOMAIN jobs \subseteq DOMAIN jb
      /\ \A x \in DOMAIN jobs : jb[x] = jobs[x]
  BY <1>2, <1>4 DEF Lighter
<1>7. RowsStay
  BY <1>4, <1>6 DEF RowsStay
<1>8. ASSUME NEW x \in DOMAIN jobs' PROVE Inherits(x) \/ Fresh(x)
  <2>1. CASE x \in DOMAIN jobs
    BY <1>4, <1>6, <2>1 DEF Inherits, Lighter
  <2>2. CASE x \notin DOMAIN jobs
    <3>1. x = k /\ jb[k] = job
      BY <1>2, <1>6, <2>2
    <3>2. jobs'[k].status \in OpenStatus => jobs'[k].rr = job.rr /\ jobs'[k].dr = job.dr
      BY <1>4, <1>6, <3>1 DEF Lighter
    <3> QED
      BY <3>1, <3>2 DEF Fresh
  <2> QED
    BY <2>1, <2>2
<1> QED
  BY <1>5, <1>6, <1>7, <1>8 DEF JobsFollow

LEMMA DraftToRepairKeeps ==
    ASSUME DraftingInvariant, NEW a \in Agents, DraftToRepair(a), UNCHANGED sweep
    PROVE  DraftingInvariant'
<1> DEFINE k == ag[a].job
           i == ItemOf(k)
           r == jobs[k].run
           n == ag[a].dr + 1
           q == <<i, "repair", n>>
           job == NewJob(r, ag[a].rr, n, TRUE, "none")
<1>1. /\ Step(a, "write") /\ Busy(a) /\ i \in Items /\ i = OfItem(a) /\ Alone(a, i)
      /\ jobs[k] \in Job /\ item[i] \in Item /\ ag[a].rr \in Nat /\ ag[a].dr \in Nat
  BY WritesAlone DEF DraftToRepair, OfItem
<1>2. CASE CanMove(i, "repairing")
  <2>1. PICK x : x = Drafted(a, i, "repairing")
    OBVIOUS
  <2>2. /\ x \in Item /\ x.dr = item[i].dr + 1 /\ x.state = "repairing"
        /\ x.packet = item[i].packet /\ x.tries = item[i].tries /\ x.dr >= item[i].dr
    BY <1>1, <2>1, StateNames, DraftedFacts
  <2>3. item' = [item EXCEPT ![i] = x]
    BY <1>2, <2>1 DEF DraftToRepair, WithDraft
  <2>4. /\ jobs' = JobsAfterQueue(q, r, job) /\ runs' = RunsAfterQueue(q, r)
        /\ Ends(a, "finish", IF Queued(q, r) THEN {q} ELSE {})
        /\ UNCHANGED <<lock, lease>> /\ FaultOthers
    BY <1>2 DEF DraftToRepair
  <2>5. /\ item' \in [Items -> Item] /\ item'[i] = x
        /\ \A j \in Items \ {i} : item'[j] = item[j]
    BY <1>1, <2>2, <2>3 DEF DraftingInvariant, DraftingTypeOK, StoreTypeOK
  <2>6. /\ q \in Keys /\ ItemOf(q) = i /\ q[2] = "repair" /\ q[3] = n /\ n \in Nat
    BY <1>1, KeysAre DEF JobKind
  <2>7. job \in Job /\ job.run = r /\ job.dr = n /\ r \in RunIds
    <3>1. r \in RunIds
      BY <1>1 DEF Job
    <3>2. n \in Nat \cup {Null} /\ ag[a].rr \in Nat \cup {Null}
      BY <1>1, <2>6
    <3> HIDE DEF n, r
    <3>3. NewJob(r, ag[a].rr, n, TRUE, "none") \in Job
      BY <3>1, <3>2, NewJobFacts
    <3>4. job.run = r /\ job.dr = n
      BY DEF NewJob
    <3> QED
      BY <3>1, <3>3, <3>4
  <2>8. n <= item'[i].dr
    <3>1. ag[a].dr <= item[i].dr
      BY <1>1 DEF DraftingInvariant, DraftsPast
    <3>2. item[i].dr \in Nat /\ item'[i].dr = item[i].dr + 1
      BY <1>1, <2>2, <2>5 DEF Item
    <3> QED
      BY <1>1, <3>1, <3>2
  <2> HIDE DEF q, job, n
  <2>9. JobsFollow /\ RowsStay /\ Books(jobs', runs')
    <3>1. item'[ItemOf(q)].state = "repairing" /\ q[3] <= item'[ItemOf(q)].dr
          /\ q[2] # "write" /\ job.dr = q[3]
      BY <2>2, <2>5, <2>6, <2>7, <2>8
    <3> QED
      BY <2>4, <2>6, <2>7, <3>1, QueueFollows
  <2>10. Settles(i)
    BY <2>2, <2>5 DEF Settles, RepairStates
  <2>11. ItemsStep(a)
    BY <1>1, <2>2, <2>5, <2>10, OwnItem
  <2>12. Rest /\ lease' = lease
    BY <2>4, RestSame
  <2>13. \A j \in Items : item'[j].packet = item[j].packet /\ item'[j].tries = item[j].tries
    BY <2>2, <2>5
  <2>14. PICK next \in SUBSET Keys : Ends(a, "finish", next)
    BY <2>4, <2>6
  <2> QED
    BY <1>1, <2>9, <2>11, <2>12, <2>13, <2>14, EndsKeeps
<1>3. CASE ~CanMove(i, "repairing")
  BY <1>1, <1>3, ConflictKeeps DEF DraftToRepair
<1> QED
  BY <1>2, <1>3

\* Nobody else has the item when a write or a repair begins: another one would
\* have the same key, and a draft that has a repair is not written again.
LEMMA WritesApart ==
    ASSUME DraftingInvariant, NEW a \in Agents, Busy(a), NEW to \in {"writing", "repairing"},
           to = IF ag[a].job[2] = "repair" THEN "repairing" ELSE "writing",
           ~IsResearch(ag[a].job), jobs[ag[a].job].status = "in_flight", ~Stale(ag[a].job),
           item[OfItem(a)].state = to \/ CanMove(OfItem(a), to)
    PROVE  /\ Alone(a, OfItem(a))
           /\ ag[a].job[2] = "write" => ag[a].job[3] = item[OfItem(a)].rr
           /\ ag[a].job[2] = "repair" => ag[a].job[3] = item[OfItem(a)].dr
           /\ ag[a].job[2] \in {"write", "repair"}
<1> DEFINE k == ag[a].job
           i == OfItem(a)
<1>1. k \in Keys /\ k \in DOMAIN jobs /\ i = ItemOf(k) /\ k[3] \in Nat
  BY HandlerFacts, KeyParts DEF OfItem
<1>2. k[2] \in {"write", "repair"}
  BY <1>1, KeyParts DEF IsResearch, ResearchKinds, JobKind
<1>3. k \in OpenJobs
  BY <1>1 DEF OpenJobs, OpenStatus
<1>4. k[2] = "write" => k[3] = item[i].rr
  BY <1>1, <1>3, DraftingAssumption DEF DraftingInvariant, KeysSay, Stale
<1>5. k[2] = "repair" => k[3] = item[i].dr
  BY <1>1, <1>3, DraftingAssumption DEF DraftingInvariant, KeysSay, Stale
<1>6. ASSUME NEW b \in Agents \ {a}, Engaged(b), OfItem(b) = i, i \notin disowned
      PROVE  FALSE
  <2>1. Busy(b) /\ InPlace(b) /\ ag[b].job \in Keys
    BY <1>6, HandlerFacts DEF Engaged, Researching, Busy, DraftingInvariant, Custody
  <2>2. item[i].state \in {"writing", "queued_write", "repairing"}
    BY DEF CanMove, Allowed
  <2>3. ag[b].at = "write"
    BY <1>6, <2>1, <2>2 DEF Engaged, InPlace, ResearchStates
  <2>4. ag[b].job[2] \in {"write", "repair"}
    BY <2>1, <2>3, KeyParts
       DEF DraftingInvariant, Placed, PlacedAt, IsResearch, ResearchKinds, JobKind
  <2>5. IF ag[b].job[2] = "repair"
        THEN item[i].state = "repairing" /\ ag[b].job[3] = item[i].dr
        ELSE item[i].state = "writing" /\ ag[b].job[3] = item[i].rr
    BY <1>6, <2>1, <2>3 DEF InPlace
  <2>6. CASE ag[b].job[2] = k[2]
    <3>1. ag[b].job[3] = k[3]
      BY <1>2, <1>4, <1>5, <2>4, <2>5, <2>6
    <3>2. ag[b].job = k
      BY <1>1, <1>6, <2>1, <2>6, <3>1, KeyParts DEF OfItem
    <3> QED
      BY <1>6, <2>1, <3>2, KeysApart
  <2>7. CASE ag[b].job[2] = "write" /\ k[2] = "repair"
    <3>1. item[i].state = "writing"
      BY <2>5, <2>7
    <3>2. item[i].state \in RepairStates
      BY <1>1, <1>3, <1>5, <1>6, <2>7 DEF DraftingInvariant, RepairsStand
    <3> QED
      BY <3>1, <3>2 DEF RepairStates
  <2>8. CASE ag[b].job[2] = "repair" /\ k[2] = "write"
    BY <2>5, <2>8 DEF CanMove, Allowed
  <2> QED
    BY <1>2, <2>4, <2>6, <2>7, <2>8
<1> QED
  BY <1>2, <1>4, <1>5, <1>6 DEF Alone

LEMMA BeginWriteKeeps ==
    ASSUME DraftingInvariant, NEW a \in Agents, BeginWrite(a), UNCHANGED sweep
    PROVE  DraftingInvariant'
<1> DEFINE k == ag[a].job
           i == ItemOf(k)
           to == IF k[2] = "repair" THEN "repairing" ELSE "writing"
<1>1. Busy(a) /\ i \in Items /\ i = OfItem(a) /\ ag[a] \in Activity /\ item[i] \in Item
  BY HandlerFacts DEF BeginWrite, Step, Busy, OfItem, DraftingInvariant, DraftingTypeOK,
                      StoreTypeOK
<1>2. CASE item[i].state = to \/ CanMove(i, to)
  <2>1. /\ Alone(a, i) /\ k[2] \in {"write", "repair"}
        /\ k[2] = "write" => k[3] = item[i].rr
        /\ k[2] = "repair" => k[3] = item[i].dr
    <3>1. to \in {"writing", "repairing"}
      OBVIOUS
    <3> QED
      BY <1>1, <1>2, <3>1, WritesApart DEF BeginWrite
  <2>2. PICK x : x = [item[i] EXCEPT !.state = to]
    OBVIOUS
  <2>3. /\ x \in Item /\ x.state = to /\ x.rr = item[i].rr /\ x.dr = item[i].dr
        /\ x.packet = item[i].packet /\ x.tries = item[i].tries
    <3>1. to \in ItemState
      BY StateNames
    <3> QED
      BY <1>1, <2>2, <3>1, StateFacts
  <2>4. PICK y : y = [ag[a] EXCEPT !.at = "write", !.rr = item[i].rr, !.dr = item[i].dr]
    OBVIOUS
  <2>5. /\ y \in Activity /\ y.at = "write" /\ y.job = k /\ y.dr = item[i].dr
        /\ y.own = ag[a].own /\ y.then = ag[a].then
    BY <1>1, <2>4 DEF Activity, At, Item
  <2>6. item' = [item EXCEPT ![i] = x] /\ ag' = [ag EXCEPT ![a] = y]
    BY <1>2, <2>2, <2>4 DEF BeginWrite
  <2>7. UNCHANGED <<jobs, runs, lock, lease>> /\ OthersUnchanged
        /\ ~IsResearch(k) /\ ag[a].at = "begin"
    BY DEF BeginWrite, Step
  <2> HIDE DEF to
  <2>8. /\ item' \in [Items -> Item] /\ item'[i] = x
        /\ \A j \in Items \ {i} : item'[j] = item[j]
        /\ ag'[a] = y /\ \A b \in Agents \ {a} : ag'[b] = ag[b]
    BY <1>1, <2>3, <2>6 DEF DraftingInvariant, DraftingTypeOK, StoreTypeOK, WorkerTypeOK
  <2>9. Settles(i)
    <3>1. CASE to = "repairing"
      BY <2>3, <2>8, <3>1 DEF Settles, RepairStates
    <3>2. CASE to = "writing"
      <4>1. item[i].state \in {"writing", "queued_write"}
        BY <1>2, <3>2 DEF CanMove, Allowed
      <4> QED
        BY <4>1 DEF Settles, RepairStates
    <3> QED
      BY <3>1, <3>2 DEF to
  <2>10. x.dr >= item[i].dr
    BY <1>1, <2>3 DEF Item
  <2>11. ItemsStep(a)
    BY <1>1, <2>1, <2>8, <2>9, <2>10, OwnItem
  <2>12. Rest /\ lease' = lease
    BY <2>7, RestSame
  <2>13. ag[a].own = FALSE /\ ag[a].then # "provider"
    BY <1>1, <2>7 DEF DraftingInvariant, Placed, PlacedAt, Activity
  <2>14. PlacedAt(y)
    BY <2>5, <2>7, <2>13 DEF PlacedAt
  <2>15. InPlace(a)'
    BY <2>1, <2>3, <2>5, <2>8 DEF InPlace, Researching, OfItem, to
  <2>16. LeasesHeld'
    <3>1. \A b \in Agents : ag'[b].own => ag'[b] = ag[b]
      BY <2>5, <2>8, <2>13
    <3> QED
      BY <2>12, <3>1, LeasesSame DEF Busy, Rest
  <2>17. LooksAround'
    <3>1. \A b \in Agents : Looks(b)' => ag'[b] = ag[b]
      BY <2>5, <2>8 DEF Looks
    <3>2. \A j \in Items : item'[j].packet = item[j].packet /\ item'[j].tries = item[j].tries
      BY <2>3, <2>8
    <3> QED
      BY <2>12, <3>1, <3>2, LooksSame DEF Looks, Rest
  <2>18. JobsFollow /\ RowsStay /\ Books(jobs', runs')
    BY <2>7, SameJobs DEF DraftingInvariant
  <2>19. y.dr <= item'[OfItem(a)].dr
    BY <1>1, <2>3, <2>5, <2>8, <2>10 DEF Item
  <2> QED
    BY <1>1, <2>5, <2>6, <2>11, <2>12, <2>14, <2>15, <2>16, <2>17, <2>18, <2>19, OwnKeeps
<1>3. CASE ~(item[i].state = to \/ CanMove(i, to))
  BY <1>1, <1>3, ConflictKeeps DEF BeginWrite
<1> QED
  BY <1>2, <1>3

-----------------------------------------------------------------------------
\* Research.

LEMMA ReusableSame ==
    ASSUME NEW i \in Items, \A j \in Items : item'[j].packet = item[j].packet
    PROVE  Reusable(i)' <=> Reusable(i)
BY DEF Reusable, Siblings

LEMMA LooksButOne ==
    ASSUME DraftingInvariant, disowned \subseteq disowned', NEW a \in Agents,
           \A j \in Items : item'[j].packet = item[j].packet /\ item'[j].tries = item[j].tries,
           \A b \in Agents \ {a} : ag'[b] = ag[b],
           disowned' = {} /\ Looks(a)' => Around(a)'
    PROVE  LooksAround'
<1> SUFFICES ASSUME disowned' = {}, NEW b \in Agents, Looks(b)', b # a
             PROVE  Around(b)'
  BY DEF LooksAround
<1>1. ag'[b] = ag[b]
  OBVIOUS
<1>2. Looks(b) /\ Around(b) /\ Busy(b)
  BY <1>1 DEF DraftingInvariant, LooksAround, Looks, Busy
<1> QED
  BY <1>1, <1>2, AroundSame

LEMMA BeginKeeps ==
    ASSUME DraftingInvariant, NEW a \in Agents, Begin(a), UNCHANGED sweep
    PROVE  DraftingInvariant'
<1> DEFINE k == ag[a].job
           i == ItemOf(k)
           at == IF item[i].tries > 0 \/ Reusable(i) THEN "provider" ELSE "lease"
<1>1. Busy(a) /\ i \in Items /\ i = OfItem(a) /\ ag[a] \in Activity /\ item[i] \in Item
  BY HandlerFacts DEF Begin, Step, Busy, OfItem, DraftingInvariant, DraftingTypeOK, StoreTypeOK
<1>2. CASE CanMove(i, "researching")
  <2>1. PICK x : x = [item[i] EXCEPT !.state = "researching"]
    OBVIOUS
  <2>2. /\ x \in Item /\ x.state = "researching" /\ x.rr = item[i].rr /\ x.dr = item[i].dr
        /\ x.packet = item[i].packet /\ x.tries = item[i].tries
    BY <1>1, <2>1, StateNames, StateFacts
  <2>3. PICK m \in BOOLEAN : m = Manual(k)
    BY DEF Manual
  <2>4. PICK y : y = [ag[a] EXCEPT !.at = at, !.manual = m, !.rr = item[i].rr, !.dr = item[i].dr]
    OBVIOUS
  <2>5. at \in {"provider", "lease"}
    OBVIOUS
  <2>6. /\ item' = [item EXCEPT ![i] = x] /\ ag' = [ag EXCEPT ![a] = y]
    BY <1>2, <2>1, <2>3, <2>4 DEF Begin
  <2>7. UNCHANGED <<jobs, runs, lock, lease>> /\ OthersUnchanged
        /\ IsResearch(k) /\ ag[a].at = "begin"
    BY DEF Begin, Step
  <2>8. at = "provider" <=> item[i].tries > 0 \/ Reusable(i)
    OBVIOUS
  <2> HIDE DEF at
  <2>9. /\ y \in Activity /\ y.at = at /\ y.job = k /\ y.dr = item[i].dr
        /\ y.own = ag[a].own /\ y.then = ag[a].then
    BY <1>1, <2>4, <2>5 DEF Activity, At, Item
  <2>10. /\ item' \in [Items -> Item] /\ item'[i] = x
         /\ \A j \in Items \ {i} : item'[j] = item[j]
         /\ ag'[a] = y /\ \A b \in Agents \ {a} : ag'[b] = ag[b]
    BY <1>1, <2>2, <2>6 DEF DraftingInvariant, DraftingTypeOK, StoreTypeOK, WorkerTypeOK
  <2>11. item[i].state \in ResearchStates /\ x.state \in ResearchStates
    BY <1>2, <2>2 DEF CanMove, Allowed, ResearchStates
  <2>12. Gentle(i) /\ Settles(i)
    BY <2>2, <2>10, <2>11 DEF Gentle, Settles, ResearchStates, RepairStates
  <2>13. x.dr >= item[i].dr
    BY <1>1, <2>2 DEF Item
  <2>14. ItemsStep(a)
    BY <1>1, <2>10, <2>12, <2>13, OwnItem
  <2>15. Rest /\ lease' = lease
    BY <2>7, RestSame
  <2>16. ag[a].own = FALSE /\ ag[a].then # "provider"
    BY <1>1, <2>7 DEF DraftingInvariant, Placed, PlacedAt, Activity
  <2>17. PlacedAt(y)
    BY <2>5, <2>7, <2>9, <2>16 DEF PlacedAt
  <2>18. InPlace(a)'
    <3>1. at = "lease" => item[i].tries = 0
      BY <1>1, <2>8 DEF Item
    <3>2. OfItem(a)' = i
      BY <2>9, <2>10 DEF OfItem
    <3> QED
      BY <2>2, <2>5, <2>9, <2>10, <2>11, <2>16, <3>1, <3>2 DEF InPlace, Researching
  <2>19. LeasesHeld'
    <3>1. \A b \in Agents : ag'[b].own => ag'[b] = ag[b]
      BY <2>9, <2>10, <2>16
    <3> QED
      BY <2>15, <3>1, LeasesSame DEF Busy, Rest
  <2>20. \A j \in Items : item'[j].packet = item[j].packet /\ item'[j].tries = item[j].tries
    BY <2>2, <2>10
  <2>21. LooksAround'
    <3>1. Looks(a)' => Around(a)'
      <4> SUFFICES ASSUME Looks(a)' PROVE Around(a)'
        OBVIOUS
      <4>1. at = "provider"
        BY <2>5, <2>9, <2>10 DEF Looks
      <4>2. PICK j \in Items : j = i
        BY <1>1
      <4>3. item'[j].tries > 0 \/ Reusable(j)'
        BY <1>1, <2>8, <2>20, <4>1, <4>2, ReusableSame
      <4>4. OfItem(a)' = j /\ ag'[a].own = FALSE
        BY <2>9, <2>10, <2>16, <4>2 DEF OfItem
      <4> QED
        BY <4>3, <4>4 DEF Around
    <3> QED
      BY <2>10, <2>15, <2>20, <3>1, LooksButOne DEF Rest
  <2>22. JobsFollow /\ RowsStay /\ Books(jobs', runs')
    BY <2>7, SameJobs DEF DraftingInvariant
  <2>23. y.dr <= item'[OfItem(a)].dr
    BY <1>1, <2>2, <2>9, <2>10, <2>13 DEF Item
  <2> QED
    BY <1>1, <2>6, <2>9, <2>14, <2>15, <2>17, <2>18, <2>19, <2>21, <2>22, <2>23, OwnKeeps
<1>3. CASE ~CanMove(i, "researching")
  BY <1>1, <1>3, ConflictKeeps DEF Begin
<1> QED
  BY <1>2, <1>3

\* A handler that leaves the items, jobs and runs alone
LEMMA AgentKeeps ==
    ASSUME DraftingInvariant, NEW a \in Agents, Busy(a), NEW y \in Activity,
           ag' = [ag EXCEPT ![a] = y], y.job = ag[a].job, y.dr = ag[a].dr, PlacedAt(y),
           OfItem(a) \notin disowned => InPlace(a)',
           UNCHANGED <<item, jobs, runs, lock, latest, ws, asleep, disowned, sweep>>,
           faults' \in 0..MaxFaults, lease' \in [Companies -> Lease],
           LeasesHeld', disowned = {} /\ Looks(a)' => Around(a)'
    PROVE  DraftingInvariant'
<1>1. y.dr <= item'[OfItem(a)].dr
  BY DEF DraftingInvariant, DraftsPast
<1>2. \A b \in Agents \ {a} : ag'[b] = ag[b]
  OBVIOUS
<1>3. LooksAround'
  BY <1>2, LooksButOne
<1>4. ItemsStep(a) /\ JobsFollow /\ RowsStay /\ Books(jobs', runs') /\ Rest
  BY SameItems, SameJobs DEF DraftingInvariant, Rest
<1> QED
  BY <1>1, <1>3, <1>4, OwnKeeps

LEMMA ResearchErrorKeeps ==
    ASSUME DraftingInvariant, NEW a \in Agents, ResearchError(a), UNCHANGED sweep
    PROVE  DraftingInvariant'
<1> DEFINE i == OfItem(a)
           at == IF ag[a].own THEN "yield" ELSE "fail"
<1>1. Busy(a) /\ i \in Items /\ ag[a] \in Activity /\ ag[a].at = "provider"
  BY HandlerFacts DEF ResearchError, Step, Busy
<1>2. PICK y : y = [ag[a] EXCEPT !.at = at, !.then = "fail"]
  OBVIOUS
<1>3. at \in {"yield", "fail"} /\ (at = "yield" <=> ag[a].own = TRUE)
  BY <1>1 DEF Activity
<1>4. ag' = [ag EXCEPT ![a] = y]
  BY <1>2 DEF ResearchError
<1> HIDE DEF at
<1>5. /\ y \in Activity /\ y.at = at /\ y.job = ag[a].job /\ y.dr = ag[a].dr
      /\ y.own = ag[a].own /\ y.then = "fail"
  BY <1>1, <1>2, <1>3 DEF Activity, At
<1>6. ag'[a] = y /\ \A b \in Agents \ {a} : ag'[b] = ag[b]
  BY <1>4 DEF DraftingInvariant, DraftingTypeOK, WorkerTypeOK
<1>7. UNCHANGED <<item, jobs, runs, lock, lease, latest, ws, asleep, disowned>>
      /\ faults' \in 0..MaxFaults /\ lease' \in [Companies -> Lease]
  BY FaultsStay DEF ResearchError, tables, DraftingInvariant, DraftingTypeOK, StoreTypeOK
<1>8. PlacedAt(y)
  <2>1. IsResearch(ag[a].job)
    BY <1>1 DEF DraftingInvariant, Placed, PlacedAt
  <2> QED
    BY <1>1, <1>3, <1>5, <2>1 DEF PlacedAt, Activity
<1>9. i \notin disowned => InPlace(a)'
  <2> SUFFICES ASSUME i \notin disowned PROVE InPlace(a)'
    OBVIOUS
  <2>1. InPlace(a)
    BY <1>1 DEF DraftingInvariant, Custody
  <2>2. item[i].state \in ResearchStates
    BY <1>1, <2>1 DEF InPlace, Researching
  <2>3. OfItem(a)' = i
    BY <1>5, <1>6 DEF OfItem
  <2> QED
    BY <1>3, <1>5, <1>6, <1>7, <2>2, <2>3 DEF InPlace, Researching
<1>10. LeasesHeld'
  BY <1>1, <1>5, <1>6, <1>7, LeasesSame DEF Busy
<1>11. ~Looks(a)'
  BY <1>3, <1>5, <1>6 DEF Looks
<1> QED
  BY <1>1, <1>4, <1>5, <1>7, <1>8, <1>9, <1>10, <1>11, AgentKeeps

\* Two handlers with the lease of a company are one.
LEMMA OwnersApart ==
    ASSUME DraftingInvariant, NEW a \in Agents, NEW b \in Agents, Busy(a), Busy(b),
           IsResearch(ag[a].job), ag[b].own, OfItem(a) = OfItem(b), OfItem(b) \notin disowned
    PROVE  a = b
<1>1. IsResearch(ag[b].job)
  BY DEF DraftingInvariant, Placed, PlacedAt
<1> QED
  BY <1>1, LocksApart

LEMMA ClaimLeaseKeeps ==
    ASSUME DraftingInvariant, NEW a \in Agents, ClaimLease(a), UNCHANGED sweep
    PROVE  DraftingInvariant'
<1> PICK i : i = OfItem(a)
  OBVIOUS
<1>1. /\ Busy(a) /\ i \in Items /\ ag[a] \in Activity /\ ag[a].at = "lease"
      /\ CompanyOf[i] \in Companies
  BY HandlerFacts DEF ClaimLease, Step, Busy
<1>2. UNCHANGED <<item, jobs, runs, lock, latest, ws, asleep, disowned>>
      /\ faults' \in 0..MaxFaults
  BY FaultsStay DEF ClaimLease, OthersUnchanged
<1>3. IsResearch(ag[a].job) /\ ag[a].own = FALSE /\ ag[a].then # "provider"
  BY <1>1 DEF DraftingInvariant, Placed, PlacedAt, Activity
<1>4. i \notin disowned => item[i].state \in ResearchStates /\ item[i].tries = 0
  BY <1>1 DEF DraftingInvariant, Custody, InPlace, Researching
<1>5. CASE LeaseFree(i)
  <2> DEFINE at == IF Reusable(i) THEN "yield" ELSE "provider"
  <2>1. PICK y : y = [ag[a] EXCEPT !.own = TRUE, !.then = "provider", !.at = at]
    OBVIOUS
  <2>2. ag' = [ag EXCEPT ![a] = y] /\ LeaseTaken(i)
    BY <1>5, <2>1 DEF ClaimLease, OfItem
  <2>3. at \in {"yield", "provider"} /\ (at = "yield" <=> Reusable(i))
    OBVIOUS
  <2> HIDE DEF at
  <2>4. /\ y \in Activity /\ y.at = at /\ y.job = ag[a].job /\ y.dr = ag[a].dr
        /\ y.own = TRUE /\ y.then = "provider"
    BY <1>1, <2>1, <2>3 DEF Activity, At
  <2>5. ag'[a] = y /\ \A b \in Agents \ {a} : ag'[b] = ag[b]
    BY <2>2 DEF DraftingInvariant, DraftingTypeOK, WorkerTypeOK
  <2>6. OfItem(a)' = i
    BY <2>4, <2>5 DEF OfItem
  <2>7. PlacedAt(y)
    BY <1>3, <2>3, <2>4 DEF PlacedAt
  <2>8. i \notin disowned => InPlace(a)'
    BY <1>2, <1>4, <2>3, <2>4, <2>5, <2>6 DEF InPlace, Researching
  <2>9. /\ lease' \in [Companies -> Lease]
        /\ lease'[CompanyOf[i]] = [status |-> "researching", owner |-> i]
        /\ \A c \in Companies \ {CompanyOf[i]} : lease'[c] = lease[c]
    BY <1>1, <2>2 DEF LeaseTaken, Lease, DraftingInvariant, DraftingTypeOK, StoreTypeOK
  <2>10. LeasesHeld'
    <3> SUFFICES ASSUME NEW b \in Agents, Busy(b)', ag'[b].own,
                        Undisturbed(CompanyOf[OfItem(b)'])
                 PROVE  lease'[CompanyOf[OfItem(b)']] =
                            [status |-> "researching", owner |-> OfItem(b)']
      BY <1>2 DEF LeasesHeld, Undisturbed
    <3>1. CASE b = a
      BY <2>6, <2>9, <3>1
    <3>2. CASE b # a
      <4>1. ag'[b] = ag[b] /\ Busy(b) /\ OfItem(b)' = OfItem(b)
        BY <2>5, <3>2 DEF Busy, OfItem
      <4>2. lease[CompanyOf[OfItem(b)]] = [status |-> "researching", owner |-> OfItem(b)]
        BY <4>1 DEF DraftingInvariant, LeasesHeld
      <4>3. OfItem(b) \in Items /\ OfItem(b) \notin disowned
            /\ CompanyOf[OfItem(b)] \in Companies
        BY <4>1, HandlerFacts DEF Undisturbed
      <4>4. CASE CompanyOf[OfItem(b)] # CompanyOf[i]
        BY <2>9, <4>1, <4>2, <4>3, <4>4
      <4>5. CASE CompanyOf[OfItem(b)] = CompanyOf[i]
        <5>1. OfItem(b) = i
          BY <1>5, <4>2, <4>5 DEF LeaseFree
        <5> QED
          BY <1>1, <1>3, <3>2, <4>1, <4>3, <5>1, OwnersApart
      <4> QED
        BY <4>4, <4>5
    <3> QED
      BY <3>1, <3>2
  <2>11. Looks(a)' => Around(a)'
    <3>1. Reusable(i)' <=> Reusable(i)
      BY <1>1, <1>2, ReusableSame
    <3> QED
      BY <2>3, <2>4, <2>5, <2>6, <3>1 DEF Around
  <2> QED
    BY <1>1, <1>2, <2>2, <2>4, <2>7, <2>8, <2>9, <2>10, <2>11, AgentKeeps
<1>6. CASE ~LeaseFree(i)
  <2>1. PICK y : y = [ag[a] EXCEPT !.at = "park"]
    OBVIOUS
  <2>2. ag' = [ag EXCEPT ![a] = y] /\ lease' = lease
    BY <1>6, <2>1 DEF ClaimLease, OfItem, Goto
  <2>3. /\ y \in Activity /\ y.at = "park" /\ y.job = ag[a].job /\ y.dr = ag[a].dr
        /\ y.own = FALSE /\ y.then = ag[a].then
    BY <1>1, <1>3, <2>1 DEF Activity, At
  <2>4. ag'[a] = y /\ \A b \in Agents \ {a} : ag'[b] = ag[b]
    BY <2>2 DEF DraftingInvariant, DraftingTypeOK, WorkerTypeOK
  <2>5. OfItem(a)' = i
    BY <2>3, <2>4 DEF OfItem
  <2>6. PlacedAt(y)
    BY <1>3, <2>3 DEF PlacedAt
  <2>7. i \notin disowned => InPlace(a)'
    BY <1>2, <1>4, <2>3, <2>4, <2>5 DEF InPlace, Researching
  <2>8. LeasesHeld'
    <3>1. \A b \in Agents : ag'[b].own => ag'[b] = ag[b]
      BY <2>3, <2>4
    <3> QED
      BY <1>2, <2>2, <3>1, LeasesSame DEF Busy
  <2>9. ~Looks(a)' /\ lease' \in [Companies -> Lease]
    BY <2>2, <2>3, <2>4 DEF Looks, DraftingInvariant, DraftingTypeOK, StoreTypeOK
  <2> QED
    BY <1>1, <1>2, <2>2, <2>3, <2>6, <2>7, <2>8, <2>9, AgentKeeps
<1> QED
  BY <1>5, <1>6

\* What is read of the parked.
LEMMA FoundFacts ==
    ASSUME DraftingInvariant, NEW c \in Companies
    PROVE  Found(c) \in SUBSET Sighting
<1> SUFFICES ASSUME NEW j \in Parked(c)
             PROVE  <<j, item[j].rr, item[j].dr>> \in Sighting
  BY DEF Found
<1>1. j \in Items
  BY DEF Parked
<1>2. item[j].rr \in Nat /\ item[j].dr \in Nat
  BY <1>1 DEF DraftingInvariant, DraftingTypeOK, StoreTypeOK, Item
<1> QED
  BY <1>1, <1>2 DEF Sighting

LEMMA YieldKeeps ==
    ASSUME DraftingInvariant, NEW a \in Agents, Yield(a), UNCHANGED sweep
    PROVE  DraftingInvariant'
<1> PICK i : i = OfItem(a)
  OBVIOUS
<1> DEFINE p == Found(CompanyOf[i])
           at == IF p = {} THEN ag[a].then ELSE "wake"
<1>1. /\ Busy(a) /\ i \in Items /\ ag[a] \in Activity /\ ag[a].at = "yield"
      /\ CompanyOf[i] \in Companies
  BY HandlerFacts DEF Yield, Step, Busy
<1>2. UNCHANGED <<item, jobs, runs, lock, latest, ws, asleep, disowned>>
      /\ faults' \in 0..MaxFaults
  BY FaultsStay DEF Yield, OthersUnchanged
<1>3. IsResearch(ag[a].job) /\ ag[a].own = TRUE
  BY <1>1 DEF DraftingInvariant, Placed, PlacedAt, Activity
<1>4. i \notin disowned /\ ag[a].then # "finish" => item[i].state \in ResearchStates
  BY <1>1 DEF DraftingInvariant, Custody, InPlace, Researching
<1>5. PICK y : y = [ag[a] EXCEPT !.own = FALSE, !.wake = p, !.at = at]
  OBVIOUS
<1>6. ag' = [ag EXCEPT ![a] = y] /\ LeaseFinished(i)
  BY <1>5 DEF Yield, OfItem
<1>7. p \in SUBSET Sighting
  BY <1>1, FoundFacts
<1>8. at \in {ag[a].then, "wake"} /\ ag[a].then \in {"finish", "fail", "provider"}
  BY <1>1 DEF Activity
<1> HIDE DEF at, p
<1>9. /\ y \in Activity /\ y.at = at /\ y.job = ag[a].job /\ y.dr = ag[a].dr
      /\ y.own = FALSE /\ y.then = ag[a].then
  BY <1>1, <1>5, <1>7, <1>8 DEF Activity, At
<1>10. ag'[a] = y /\ \A b \in Agents \ {a} : ag'[b] = ag[b]
  BY <1>6 DEF DraftingInvariant, DraftingTypeOK, WorkerTypeOK
<1>11. OfItem(a)' = i
  BY <1>9, <1>10 DEF OfItem
<1>12. PlacedAt(y)
  BY <1>3, <1>8, <1>9 DEF PlacedAt
<1>13. i \notin disowned => InPlace(a)'
  BY <1>2, <1>4, <1>8, <1>9, <1>10, <1>11 DEF InPlace, Researching
<1>14. /\ lease' \in [Companies -> Lease]
       /\ lease[CompanyOf[i]].owner # i => lease'[CompanyOf[i]] = lease[CompanyOf[i]]
       /\ \A c \in Companies \ {CompanyOf[i]} : lease'[c] = lease[c]
  BY <1>1, <1>6 DEF LeaseFinished, Lease, DraftingInvariant, DraftingTypeOK, StoreTypeOK
<1>15. LeasesHeld'
  <2> SUFFICES ASSUME NEW b \in Agents, Busy(b)', ag'[b].own,
                      Undisturbed(CompanyOf[OfItem(b)'])
               PROVE  lease'[CompanyOf[OfItem(b)']] =
                          [status |-> "researching", owner |-> OfItem(b)']
    BY <1>2 DEF LeasesHeld, Undisturbed
  <2>1. b # a
    BY <1>9, <1>10
  <2>2. ag'[b] = ag[b] /\ Busy(b) /\ OfItem(b)' = OfItem(b)
    BY <1>10, <2>1 DEF Busy, OfItem
  <2>3. lease[CompanyOf[OfItem(b)]] = [status |-> "researching", owner |-> OfItem(b)]
    BY <2>2 DEF DraftingInvariant, LeasesHeld
  <2>4. OfItem(b) \in Items /\ OfItem(b) \notin disowned
        /\ CompanyOf[OfItem(b)] \in Companies
    BY <2>2, HandlerFacts DEF Undisturbed
  <2>5. OfItem(b) # i
    BY <1>1, <1>3, <2>1, <2>2, <2>4, OwnersApart
  <2>6. CASE CompanyOf[OfItem(b)] # CompanyOf[i]
    BY <1>14, <2>2, <2>3, <2>4, <2>6
  <2>7. CASE CompanyOf[OfItem(b)] = CompanyOf[i]
    BY <1>14, <2>2, <2>3, <2>5, <2>7
  <2> QED
    BY <2>6, <2>7
<1>16. disowned = {} /\ Looks(a)' => Around(a)'
  <2> SUFFICES ASSUME disowned = {}, Looks(a)' PROVE Around(a)'
    OBVIOUS
  <2>1. ag[a].then = "provider"
    BY <1>8, <1>9, <1>10 DEF Looks
  <2>2. Around(a)
    BY <1>1, <2>1 DEF DraftingInvariant, LooksAround, Looks
  <2>3. Reusable(i)' <=> Reusable(i)
    BY <1>1, <1>2, ReusableSame
  <2>4. \/ \E j \in Siblings(i) : item[j].tries > 0
        \/ item[i].tries > 0 \/ Reusable(i)
    BY <1>1, <2>2 DEF Around
  <2>5. \/ \E j \in Siblings(i) : item'[j].tries > 0
        \/ item'[i].tries > 0 \/ Reusable(i)'
    BY <1>2, <2>3, <2>4
  <2>6. Siblings(i)' = Siblings(i)
    BY DEF Siblings
  <2> QED
    BY <1>9, <1>10, <1>11, <2>5, <2>6 DEF Around
<1> QED
  BY <1>1, <1>2, <1>6, <1>9, <1>12, <1>13, <1>14, <1>15, <1>16, AgentKeeps

\* The wake of a parked item, by a handler or a sweep
LEMMA WakeFacts ==
    ASSUME DraftingInvariant, NEW p \in Sighting, WakeParked(p)
    PROVE  /\ JobsFollow /\ RowsStay /\ Books(jobs', runs')
           /\ item' \in [Items -> Item] /\ ItemsGrow
           /\ \A i \in Items : /\ Settles(i) /\ Gentle(i)
                               /\ item'[i].packet = item[i].packet /\ item'[i].tries = item[i].tries
<1> PICK j : j = p[1]
  OBVIOUS
<1> DEFINE k   == WakeKey(p)
           job == NewJob(latest, p[2], p[3], TRUE, "none")
           ks  == IF Queued(k, latest) THEN {k} ELSE {}
<1>0. j \in Items /\ p[2] \in Nat /\ p[3] \in Nat
  BY DEF Sighting
<1>1. item[j] \in Item /\ latest \in RunIds /\ item[j].rr \in Nat /\ item[j].dr \in Nat
  BY <1>0 DEF DraftingInvariant, DraftingTypeOK, StoreTypeOK, Item
<1>2. k \in Keys /\ k[2] = "wake" /\ ItemOf(k) = j
  BY <1>0, KeysAre DEF WakeKey, JobKind, ResearchKinds
<1>3. job \in Job /\ job.run = latest
  <2>1. p[2] \in Nat \cup {Null} /\ p[3] \in Nat \cup {Null}
    BY <1>0
  <2>2. NewJob(latest, p[2], p[3], TRUE, "none") \in Job
    BY <1>1, <2>1, NewJobFacts
  <2> QED
    BY <2>2 DEF NewJob
<1>4. PICK x : x = [item[j] EXCEPT !.state = "queued_research"]
  OBVIOUS
<1>5. /\ x \in Item /\ x.state = "queued_research" /\ x.rr = item[j].rr /\ x.dr = item[j].dr
      /\ x.packet = item[j].packet /\ x.tries = item[j].tries
  BY <1>0, <1>1, <1>4, StateNames, StateFacts
<1>6. item' = [item EXCEPT ![j] = x] /\ CanMove(j, "queued_research")
  BY <1>4 DEF WakeParked
<1>7. jobs' = Dispatched(JobsAfterQueue(k, latest, job), ks)
  BY DEF WakeParked
<1>8. runs' = Finalized(item', JobsAfterQueue(k, latest, job), RunsAfterQueue(k, latest))
  BY DEF WakeParked
<1> HIDE DEF k, job, ks
<1>9. JobsFollow /\ RowsStay /\ Books(jobs', RunsAfterQueue(k, latest))
  BY <1>1, <1>2, <1>3, <1>7, QueueFollows
<1>10. Books(jobs', runs')
  <2>1. /\ runs' \in [RunIds -> Run]
        /\ \A r \in RunIds : runs'[r].reserved = RunsAfterQueue(k, latest)[r].reserved
    <3>1. Books(JobsAfterQueue(k, latest, job), RunsAfterQueue(k, latest))
      BY <1>1, <1>2, <1>3, QueueKeepsBooks DEF DraftingInvariant
    <3>2. Books(JobsAfterQueue(k, latest, job), runs')
      BY <1>8, <3>1, FinalizedBooks
    <3>3. ASSUME NEW r \in RunIds
          PROVE  runs'[r].reserved = RunsAfterQueue(k, latest)[r].reserved
      BY <1>8, <3>1 DEF Finalized, Books, Run
    <3> QED
      BY <3>2, <3>3 DEF Books
  <2> QED
    BY <1>9, <2>1, SameReservations
<1>11. /\ item' \in [Items -> Item] /\ item'[j] = x
       /\ \A i \in Items \ {j} : item'[i] = item[i]
  BY <1>0, <1>1, <1>5, <1>6 DEF DraftingInvariant, DraftingTypeOK, StoreTypeOK
<1>12. item[j].state \in ResearchStates /\ x.state \in ResearchStates
  BY <1>5, <1>6 DEF CanMove, Allowed, ResearchStates
<1>13. Gentle(j) /\ Settles(j)
  BY <1>5, <1>11, <1>12 DEF Gentle, Settles, ResearchStates, RepairStates
<1>14. x.dr >= item[j].dr
  BY <1>1, <1>5
<1>15. ItemsGrow
  BY <1>11, <1>14 DEF ItemsGrow, DraftingInvariant, DraftingTypeOK, StoreTypeOK, Item
<1>16. ASSUME NEW i \in Items
       PROVE  /\ Settles(i) /\ Gentle(i)
              /\ item'[i].packet = item[i].packet /\ item'[i].tries = item[i].tries
  <2>1. CASE i = j
    BY <1>5, <1>11, <1>13, <2>1
  <2>2. CASE i # j
    BY <1>11, <2>2 DEF Settles, Gentle
  <2> QED
    BY <2>1, <2>2
<1> QED
  BY <1>9, <1>10, <1>11, <1>15, <1>16

LEMMA WakeKeeps ==
    ASSUME DraftingInvariant, NEW a \in Agents, NEW p \in ag[a].wake, Wake(a, p),
           UNCHANGED sweep
    PROVE  DraftingInvariant'
<1> PICK i : i = OfItem(a)
  OBVIOUS
<1>1. Busy(a) /\ i \in Items /\ ag[a] \in Activity /\ ag[a].at = "wake"
  BY HandlerFacts DEF Wake, Step, Busy
<1>2. UNCHANGED <<lock, lease>> /\ OthersUnchanged
  BY DEF Wake
<1>3. Rest /\ lease' = lease
  BY <1>2, RestSame
<1>4. IsResearch(ag[a].job) /\ ag[a].own = FALSE /\ ag[a].then \in {"finish", "fail", "provider"}
  BY <1>1 DEF DraftingInvariant, Placed, PlacedAt, Activity
<1>5. i \notin disowned /\ ag[a].then # "finish" => item[i].state \in ResearchStates
  BY <1>1 DEF DraftingInvariant, Custody, InPlace, Researching
<1>6. CASE /\ WakeParked(p)
           /\ ag' = [ag EXCEPT ![a].wake = @ \ {p},
                  ![a].at = IF ag[a].wake = {p} THEN ag[a].then ELSE "wake"]
  <2> DEFINE at == IF ag[a].wake = {p} THEN ag[a].then ELSE "wake"
  <2>1. /\ JobsFollow /\ RowsStay /\ Books(jobs', runs')
        /\ item' \in [Items -> Item] /\ ItemsGrow
        /\ \A l \in Items : /\ Settles(l) /\ Gentle(l)
                            /\ item'[l].packet = item[l].packet /\ item'[l].tries = item[l].tries
    BY <1>1, <1>6, WakeFacts DEF Activity
  <2>2. ItemsStep(a)
    BY <2>1 DEF ItemsStep
  <2>3. at \in {ag[a].then, "wake"}
    OBVIOUS
  <2>4. PICK y : y = [ag[a] EXCEPT !.wake = ag[a].wake \ {p}, !.at = at]
    OBVIOUS
  <2>5. ag' = [ag EXCEPT ![a] = y]
    BY <1>6, <2>4
  <2> HIDE DEF at
  <2>6. /\ y \in Activity /\ y.at = at /\ y.job = ag[a].job /\ y.dr = ag[a].dr
        /\ y.own = FALSE /\ y.then = ag[a].then
    BY <1>1, <1>4, <2>3, <2>4 DEF Activity, At
  <2>7. ag'[a] = y /\ \A b \in Agents \ {a} : ag'[b] = ag[b]
    BY <2>5 DEF DraftingInvariant, DraftingTypeOK, WorkerTypeOK
  <2>8. OfItem(a)' = i
    BY <2>6, <2>7 DEF OfItem
  <2>9. PlacedAt(y)
    BY <1>4, <2>3, <2>6 DEF PlacedAt
  <2>10. i \notin disowned => InPlace(a)'
    <3>1. Gentle(i)
      BY <1>1, <2>1
    <3> QED
      BY <1>4, <1>5, <2>3, <2>6, <2>7, <2>8, <3>1 DEF InPlace, Researching, Gentle, ResearchStates
  <2>11. LeasesHeld'
    <3>1. \A b \in Agents : ag'[b].own => ag'[b] = ag[b]
      BY <2>6, <2>7
    <3> QED
      BY <1>3, <3>1, LeasesSame DEF Busy, Rest
  <2>12. disowned = {} /\ Looks(a)' => Around(a)'
    <3> SUFFICES ASSUME disowned = {}, Looks(a)' PROVE Around(a)'
      OBVIOUS
    <3>1. ag[a].then = "provider"
      BY <1>4, <2>3, <2>6, <2>7 DEF Looks
    <3>2. Around(a)
      BY <1>1, <3>1 DEF DraftingInvariant, LooksAround, Looks
    <3>3. Reusable(i)' <=> Reusable(i)
      BY <1>1, <2>1, ReusableSame
    <3>4. \/ \E l \in Siblings(i) : item[l].tries > 0
          \/ item[i].tries > 0 \/ Reusable(i)
      BY <1>1, <3>2 DEF Around
    <3>5. Siblings(i) \subseteq Items
      BY DEF Siblings
    <3>6. \/ \E l \in Siblings(i) : item'[l].tries > 0
          \/ item'[i].tries > 0 \/ Reusable(i)'
      BY <1>1, <2>1, <3>3, <3>4, <3>5
    <3>7. Siblings(i)' = Siblings(i)
      BY DEF Siblings
    <3> QED
      BY <2>6, <2>7, <2>8, <3>6, <3>7 DEF Around
  <2>13. LooksAround'
    BY <1>3, <2>1, <2>7, <2>12, LooksButOne DEF Rest
  <2>14. y.dr <= item'[OfItem(a)].dr
    <3>1. ag[a].dr <= item[i].dr /\ item'[i].dr >= item[i].dr
      BY <1>1, <2>1 DEF DraftingInvariant, DraftsPast, ItemsGrow
    <3>2. ag[a].dr \in Nat /\ item[i].dr \in Nat /\ item'[i].dr \in Nat
      BY <1>1, <2>1 DEF Activity, DraftingInvariant, DraftingTypeOK, StoreTypeOK, Item
    <3> QED
      BY <2>6, <3>1, <3>2
  <2> QED
    BY <1>1, <1>3, <2>1, <2>2, <2>5, <2>6, <2>9, <2>10, <2>11, <2>13, <2>14, OwnKeeps
<1>7. CASE /\ IF ag[a].then = "provider" THEN Ends(a, "fail", {}) ELSE Conflict(a)
           /\ UNCHANGED <<item, jobs, runs>>
  <2>1. CASE ag[a].then = "provider"
    <3>1. Ends(a, "fail", {}) /\ Books(jobs', runs')
      BY <1>7, <2>1 DEF DraftingInvariant
    <3> QED
      BY <1>1, <1>3, <1>4, <1>5, <1>7, <2>1, <3>1, SameItems, SameJobs, EndsKeeps
  <2>2. CASE ag[a].then # "provider"
    BY <1>1, <1>2, <1>7, <2>2, ConflictKeeps
  <2> QED
    BY <2>1, <2>2
<1> QED
  BY <1>6, <1>7 DEF Wake

-----------------------------------------------------------------------------
\* A packet is saved, usable or empty.

LEMMA LooksAroundSaved ==
    ASSUME DraftingInvariant, NEW a \in Agents, ag[a].at = "provider", NEW i \in Items,
           i = OfItem(a), disowned = {}, disowned' = {},
           item' \in [Items -> Item], \A j \in Items \ {i} : item'[j] = item[j],
           \/ item'[i].packet = "usable" /\ item'[i].tries = item[i].tries
           \/ item'[i].tries = item[i].tries + 1,
           ~Looks(a)', \A b \in Agents \ {a} : ag'[b] = ag[b]
    PROVE  LooksAround'
<1> SUFFICES ASSUME NEW b \in Agents, Looks(b)', b # a
             PROVE  Around(b)'
  BY DEF LooksAround
<1> PICK l : l = OfItem(b)
  OBVIOUS
<1>1. ag'[b] = ag[b] /\ Looks(b) /\ Busy(b) /\ Around(b) /\ OfItem(b)' = l
  BY DEF DraftingInvariant, LooksAround, Looks, Busy, OfItem
<1>2. Engaged(a) /\ Engaged(b) /\ Busy(a)
  BY <1>1 DEF Engaged, Researching, Looks, Busy
<1>3. l \in Items /\ l # i
  BY <1>1, <1>2, HandlerFacts, EngagedApart
<1>4. item'[l] = item[l] /\ Siblings(l)' = Siblings(l)
  BY <1>3 DEF Siblings
<1>5. \A j \in Items : item[j].tries \in Nat /\ item'[j].tries \in Nat
  BY DEF DraftingInvariant, DraftingTypeOK, StoreTypeOK, Item
<1>6. \A j \in Items : item[j].tries > 0 => item'[j].tries > 0
  BY <1>5
<1>7. CASE \E j \in Siblings(l) : item[j].tries > 0
  <2>1. \E j \in Siblings(l) : item'[j].tries > 0
    BY <1>6, <1>7 DEF Siblings
  <2> QED
    BY <1>1, <1>4, <2>1 DEF Around
<1>8. CASE /\ ~ \E j \in Siblings(l) : item[j].tries > 0
           /\ i \notin Siblings(l)
  <2>1. \A j \in Siblings(l) : item'[j] = item[j]
    BY <1>8 DEF Siblings
  <2>2. Reusable(l)' <=> Reusable(l)
    BY <1>4, <2>1 DEF Reusable
  <2> QED
    BY <1>1, <1>4, <1>8, <2>2 DEF Around
<1>9. CASE i \in Siblings(l) /\ item'[i].tries = item[i].tries + 1
  <2>1. item'[i].tries > 0
    BY <1>5, <1>9
  <2> QED
    BY <1>1, <1>4, <1>9, <2>1 DEF Around
<1>10. CASE /\ ~ \E j \in Siblings(l) : item[j].tries > 0
            /\ i \in Siblings(l)
            /\ item'[i].packet = "usable" /\ item'[i].tries = item[i].tries
  <2>1. Reusable(l)'
    BY <1>4, <1>10 DEF Reusable
  <2>2. CASE ~(ag[b].at = "provider" /\ ag[b].own)
    BY <1>1, <2>1, <2>2 DEF Around
  <2>3. CASE ag[b].at = "provider" /\ ag[b].own
    <3>1. item[l].packet # "none" \/ ~Reusable(l)
      BY <1>1, <1>10, <2>3 DEF Around
    <3>2. CASE item[l].packet # "none"
      BY <1>1, <1>4, <2>3, <3>2 DEF Around
    <3>3. CASE item[l].packet = "none" /\ ~Reusable(l)
      <4>1. ag[a].own => FALSE
        <5>1. CompanyOf[i] = CompanyOf[l] /\ Undisturbed(CompanyOf[l])
          BY <1>10 DEF Siblings, Undisturbed
        <5>2. ag[a].own => lease[CompanyOf[i]] = [status |-> "researching", owner |-> i]
          BY <1>2, <5>1 DEF DraftingInvariant, LeasesHeld
        <5>3. lease[CompanyOf[l]] = [status |-> "researching", owner |-> l]
          BY <1>1, <2>3, <5>1 DEF DraftingInvariant, LeasesHeld
        <5> QED
          BY <1>3, <5>1, <5>2, <5>3
      <4>2. Around(a)
        BY DEF DraftingInvariant, LooksAround, Looks
      <4>3. PICK j \in Siblings(i) \cup {i} :
               item[j].tries > 0 \/ (j \in Siblings(i) /\ item[j].packet = "usable")
        BY <4>1, <4>2 DEF Around, Reusable
      <4>4. j = l \/ j \in Siblings(l)
        BY <1>3, <1>10, <4>3 DEF Siblings
      <4>5. item[l].tries = 0
        BY <1>1, <1>2, <2>3 DEF DraftingInvariant, Custody, InPlace
      <4>6. CASE j = l
        BY <1>5, <1>3, <3>3, <4>3, <4>5, <4>6
      <4>7. CASE j \in Siblings(l)
        BY <1>10, <3>3, <4>3, <4>7 DEF Reusable
      <4> QED
        BY <4>4, <4>6, <4>7
    <3> QED
      BY <3>1, <3>2, <3>3
  <2> QED
    BY <2>2, <2>3
<1> QED
  BY <1>7, <1>8, <1>9, <1>10

LEMMA SaveKeeps ==
    ASSUME DraftingInvariant, NEW a \in Agents, Step(a, "provider"), NEW i \in Items,
           i = OfItem(a), NEW x \in Item, item' \in [Items -> Item], item'[i] = x,
           \A j \in Items \ {i} : item'[j] = item[j], x.dr = item[i].dr,
           \/ x.packet = "usable" /\ x.tries = item[i].tries
           \/ x.tries = item[i].tries + 1,
           NEW next \in SUBSET Keys, AfterSave(a, next),
           JobsFollow, RowsStay, Books(jobs', runs'), Rest, lease' = lease
    PROVE  DraftingInvariant'
<1> DEFINE at == IF ag[a].own THEN "yield" ELSE "finish"
<1>1. /\ Busy(a) /\ Engaged(a) /\ ag[a] \in Activity /\ ag[a].at = "provider"
      /\ ag[a].job \in Keys /\ item[i] \in Item
  BY HandlerFacts DEF Step, Busy, Engaged, Researching, DraftingInvariant, DraftingTypeOK,
                      StoreTypeOK
<1>2. IsResearch(ag[a].job) /\ ag[a].own \in BOOLEAN
  BY <1>1 DEF DraftingInvariant, Placed, PlacedAt, Activity
<1>3. i \notin disowned => item[i].state \in ResearchStates
  BY <1>1 DEF DraftingInvariant, Custody, InPlace, Researching
<1>4. PICK y : y = [Idle EXCEPT !.at = at, !.job = ag[a].job, !.own = ag[a].own, !.next = next]
  OBVIOUS
<1>5. ag' = [ag EXCEPT ![a] = y]
  BY <1>4 DEF AfterSave
<1>6. at \in {"yield", "finish"} /\ (at = "yield" <=> ag[a].own = TRUE)
  BY <1>2
<1> HIDE DEF at
<1>7. /\ y \in Activity /\ y.at = at /\ y.job = ag[a].job /\ y.own = ag[a].own /\ y.dr = 0
      /\ y.then = "finish"
  BY <1>1, <1>2, <1>4, <1>6 DEF Idle, Activity, At
<1>8. ag'[a] = y /\ \A b \in Agents \ {a} : ag'[b] = ag[b]
  BY <1>5 DEF DraftingInvariant, DraftingTypeOK, WorkerTypeOK
<1>9. PlacedAt(y)
  BY <1>2, <1>6, <1>7 DEF PlacedAt
<1>10. InPlace(a)'
  BY <1>6, <1>7, <1>8 DEF InPlace, Researching
<1>11. Settles(i)
  BY <1>3 DEF Settles, ResearchStates, RepairStates, Rest
<1>12. x.dr >= item[i].dr
  BY <1>1 DEF Item
<1>13. ItemsStep(a)
  BY <1>1, <1>11, <1>12, OwnItem, EngagedIsAlone
<1>14. LeasesHeld'
  BY <1>1, <1>7, <1>8, LeasesSame DEF Busy, Rest
<1>15. LooksAround'
  <2>1. ~Looks(a)'
    BY <1>6, <1>7, <1>8 DEF Looks
  <2>2. CASE disowned = {}
    BY <1>1, <1>8, <2>1, <2>2, LooksAroundSaved DEF Rest
  <2>3. CASE disowned # {}
    BY <2>3 DEF LooksAround, Rest
  <2> QED
    BY <2>2, <2>3
<1>16. y.dr <= item'[OfItem(a)].dr
  BY <1>7 DEF Item
<1> QED
  BY <1>1, <1>5, <1>7, <1>9, <1>10, <1>13, <1>14, <1>15, <1>16, OwnKeeps

LEMMA ResearchedFacts ==
    ASSUME DraftingInvariant, NEW i \in Items
    PROVE  LET x == PacketSaved(i) IN
           /\ x \in Item /\ x.packet = "usable" /\ x.tries = item[i].tries /\ x.dr = item[i].dr
<1> DEFINE e == IF item[i].err \in {"empty_research_brief", "empty_research_brief_retry"}
                THEN "none" ELSE item[i].err
           n == item[i].rr + 1
<1>1. item[i] \in Item
  BY DEF DraftingInvariant, DraftingTypeOK, StoreTypeOK
<1>2. e \in ErrorCode /\ n \in Nat
  BY <1>1 DEF Item, ErrorCode
<1>3. PacketSaved(i) = [item[i] EXCEPT !.rr = n, !.packet = "usable", !.state = "queued_write",
                                      !.err = e]
  BY <1>1 DEF PacketSaved, Item
<1> HIDE DEF e, n
<1> QED
  BY <1>1, <1>2, <1>3, StateNames DEF Item

LEMMA FoundEmptyFacts ==
    ASSUME DraftingInvariant, NEW i \in Items, NEW to \in ItemState, NEW again \in BOOLEAN
    PROVE  LET x == FoundEmpty(i, to, again) IN
           /\ x \in Item /\ x.tries = item[i].tries + 1 /\ x.dr = item[i].dr
<1> DEFINE e == IF again THEN "empty_research_brief_retry" ELSE "empty_research_brief"
           n == item[i].rr + 1
           m == item[i].tries + 1
<1>1. item[i] \in Item
  BY DEF DraftingInvariant, DraftingTypeOK, StoreTypeOK
<1>2. e \in ErrorCode /\ n \in Nat /\ m \in Nat
  BY <1>1 DEF Item, ErrorCode
<1>3. FoundEmpty(i, to, again) = [item[i] EXCEPT !.rr = n, !.packet = "empty", !.tries = m,
                                                 !.state = to, !.err = e]
  BY <1>1 DEF FoundEmpty, Item
<1>4. \A x : x = [item[i] EXCEPT !.rr = n, !.packet = "empty", !.tries = m,
                                 !.state = to, !.err = e] =>
               x \in Item /\ x.tries = m /\ x.dr = item[i].dr
  <2> HIDE DEF e, n, m
  <2> QED
    BY <1>1, <1>2 DEF Item
<1> QED
  BY <1>3, <1>4

LEMMA ResearchUsableKeeps ==
    ASSUME DraftingInvariant, NEW a \in Agents, ResearchUsable(a), UNCHANGED sweep
    PROVE  DraftingInvariant'
<1> DEFINE k == ag[a].job
           i == ItemOf(k)
           r == jobs[k].run
           n == ag[a].rr + 1
           w == <<i, "write", n>>
           job == NewJob(r, n, ag[a].dr, TRUE, "none")
           jb == JobsAfterQueue(w, r, job)
<1>1. /\ Busy(a) /\ Step(a, "provider") /\ i \in Items /\ i = OfItem(a)
      /\ ag[a].rr \in Nat /\ ag[a].dr \in Nat /\ jobs[k] \in Job /\ r \in RunIds
  BY HandlerFacts DEF ResearchUsable, Step, Busy, OfItem, Activity, Job
<1>2. CASE Queued(w, r) /\ CanMove(i, "queued_write")
  <2>1. PICK x : x = PacketSaved(i)
    OBVIOUS
  <2>2. /\ x \in Item /\ x.packet = "usable" /\ x.tries = item[i].tries /\ x.dr = item[i].dr
    BY <1>1, <2>1, ResearchedFacts
  <2>3. /\ item' = [item EXCEPT ![i] = x] /\ jobs' = jb
        /\ runs' = Finalized(item', jb, RunsAfterQueue(w, r)) /\ AfterSave(a, {w})
        /\ UNCHANGED <<lock, lease>> /\ OthersUnchanged
    BY <1>2, <2>1 DEF ResearchUsable
  <2>4. /\ item' \in [Items -> Item] /\ item'[i] = x
        /\ \A j \in Items \ {i} : item'[j] = item[j]
    BY <1>1, <2>2, <2>3 DEF DraftingInvariant, DraftingTypeOK, StoreTypeOK
  <2>5. w \in Keys /\ w[2] = "write" /\ w[3] = n /\ n \in Nat
    BY <1>1, KeysAre DEF JobKind
  <2>6. job \in Job /\ job.run = r /\ job.rr = n
    <3>1. n \in Nat \cup {Null} /\ ag[a].dr \in Nat \cup {Null}
      BY <1>1, <2>5
    <3> HIDE DEF n, r
    <3>2. NewJob(r, n, ag[a].dr, TRUE, "none") \in Job
      BY <1>1, <3>1, NewJobFacts
    <3>3. job.run = r /\ job.rr = n
      BY DEF NewJob
    <3> QED
      BY <3>2, <3>3
  <2> HIDE DEF w, job, n
  <2>7. JobsFollow /\ RowsStay /\ Books(jobs', RunsAfterQueue(w, r))
    BY <1>1, <2>3, <2>5, <2>6, QueueFollows
  <2>8. Books(jobs', runs')
    BY <2>3, <2>7, FinalizedBooks
  <2>9. Rest /\ lease' = lease
    BY <2>3, RestSame
  <2> QED
    BY <1>1, <2>2, <2>3, <2>4, <2>5, <2>7, <2>8, <2>9, SaveKeeps
<1>3. CASE ~(Queued(w, r) /\ CanMove(i, "queued_write"))
  BY <1>1, <1>3, ConflictKeeps DEF ResearchUsable
<1> QED
  BY <1>2, <1>3

LEMMA ResearchEmptyKeeps ==
    ASSUME DraftingInvariant, NEW a \in Agents, ResearchEmpty(a), UNCHANGED sweep
    PROVE  DraftingInvariant'
<1> DEFINE k == ag[a].job
           i == ItemOf(k)
           r == jobs[k].run
           q == <<i, "retry", 0>>
           n == ag[a].rr + 1
           job == NewJob(r, n, ag[a].dr, FALSE, "none")
           again == ~ag[a].manual /\ item[i].tries + 1 < 2
           queue == again /\ Queued(q, r)
           jb == IF again THEN JobsAfterQueue(q, r, job) ELSE jobs
           rn == IF again THEN RunsAfterQueue(q, r) ELSE runs
           to == IF queue THEN "queued_research" ELSE "failed_research"
           next == IF queue THEN {q} ELSE {}
<1>1. /\ Busy(a) /\ Step(a, "provider") /\ i \in Items /\ i = OfItem(a)
      /\ ag[a].rr \in Nat /\ ag[a].dr \in Nat /\ jobs[k] \in Job /\ r \in RunIds
  BY HandlerFacts DEF ResearchEmpty, Step, Busy, OfItem, Activity, Job
<1>2. CASE CanMove(i, to)
  <2>1. PICK x : x = FoundEmpty(i, to, again)
    OBVIOUS
  <2>2. to \in ItemState /\ again \in BOOLEAN
    BY StateNames
  <2>3. /\ item' = [item EXCEPT ![i] = x] /\ jobs' = jb
        /\ runs' = Finalized(item', jb, rn) /\ AfterSave(a, next)
        /\ UNCHANGED <<lock, lease>> /\ FaultOthers
    BY <1>2, <2>1 DEF ResearchEmpty
  <2>4. q \in Keys /\ q[2] = "retry"
    BY <1>1, KeysAre DEF JobKind, ResearchKinds
  <2>5. next \in SUBSET Keys
    BY <2>4
  <2>6. job \in Job /\ job.run = r
    <3>1. n \in Nat \cup {Null} /\ ag[a].dr \in Nat \cup {Null}
      BY <1>1
    <3> HIDE DEF n, r
    <3>2. NewJob(r, n, ag[a].dr, FALSE, "none") \in Job
      BY <1>1, <3>1, NewJobFacts
    <3>3. job.run = r
      BY DEF NewJob
    <3> QED
      BY <3>2, <3>3
  <2> HIDE DEF q, job, n
  <2>7. JobsFollow /\ RowsStay /\ Books(jobs', rn)
    <3>1. CASE again
      BY <1>1, <2>3, <2>4, <2>6, <3>1, QueueFollows
    <3>2. CASE ~again
      BY <2>3, <3>2, SameJobs DEF DraftingInvariant
    <3> QED
      BY <3>1, <3>2
  <2> HIDE DEF again, queue, to, next, rn, jb
  <2>8. /\ x \in Item /\ x.tries = item[i].tries + 1 /\ x.dr = item[i].dr
    BY <1>1, <2>1, <2>2, FoundEmptyFacts
  <2>9. /\ item' \in [Items -> Item] /\ item'[i] = x
        /\ \A j \in Items \ {i} : item'[j] = item[j]
    BY <1>1, <2>3, <2>8 DEF DraftingInvariant, DraftingTypeOK, StoreTypeOK
  <2>10. Books(jobs', runs')
    BY <2>3, <2>7, FinalizedBooks
  <2>11. Rest /\ lease' = lease
    BY <2>3, RestSame
  <2> QED
    BY <1>1, <2>3, <2>5, <2>7, <2>8, <2>9, <2>10, <2>11, SaveKeeps
<1>3. CASE ~CanMove(i, to)
  BY <1>1, <1>3, ConflictKeeps DEF ResearchEmpty
<1> QED
  BY <1>2, <1>3

LEMMA WorkKeeps ==
    ASSUME DraftingInvariant, Handling
    PROVE  DraftingInvariant'
<1>1. PICK a \in Agents : Work(a) /\ UNCHANGED sweep
  BY DEF Handling
<1>2. ASSUME NEW k \in DOMAIN jobs, Claim(a, k) PROVE DraftingInvariant'
  BY <1>1, <1>2, ClaimMissKeeps, ClaimRefusedKeeps, ClaimTakenKeeps DEF Claim
<1>3. CASE BeginSkipped(a) \/ Finish(a)
  BY <1>1, <1>3, BeginSkippedKeeps, FinishKeeps
<1>4. CASE Research(a)
  BY <1>1, <1>4, BeginBarredKeeps, BeginKeeps, ClaimLeaseKeeps, ParkKeeps, ResearchUsableKeeps,
     ResearchEmptyKeeps, ResearchErrorKeeps, FailKeeps, YieldKeeps, WakeKeeps DEF Research
<1>5. CASE Write(a)
  BY <1>1, <1>5, BeginWriteKeeps, DraftReadyKeeps, DraftToRepairKeeps, DraftRejectedKeeps,
     WriteErrorKeeps DEF Write
<1> QED
  BY <1>1, <1>2, <1>3, <1>4, <1>5 DEF Work, Handle

-----------------------------------------------------------------------------
\* What others do: sweeps, time, faults and the user.

LEMMA OthersKeep ==
    ASSUME DraftingInvariant, Books(jobs', runs'), Follows,
           item' \in [Items -> Item], lock' \in [Items -> Holder \cup {Null}],
           lease' \in [Companies -> Lease], latest' \in RunIds, ws' \in {"active", "paused"},
           asleep' \in SUBSET Agents, faults' \in 0..MaxFaults, disowned' \in SUBSET Items,
           SweepTypeOK',
           ag' \in [Agents -> Activity],
           \A b \in Agents : ag'[b] = ag[b] \/ ag'[b] = Idle,
           \A b \in Agents :
              (ag'[b] = ag[b] /\ Busy(b) /\ OfItem(b) \notin disowned') =>
                  /\ b \notin asleep'
                  /\ jobs'[ag[b].job].row = b /\ jobs'[ag[b].job].status = "in_flight"
                  /\ IsResearch(ag[b].job) => lock'[OfItem(b)] = b
                  /\ Gentle(OfItem(b)) \/ ~Engaged(b),
           \A j \in Items : item'[j].packet = item[j].packet /\ item'[j].tries = item[j].tries,
           LeasesHeld'
    PROVE  DraftingInvariant'
<1>1. KeysSay' /\ RepairsStand'
      /\ \A x \in DOMAIN jobs' : x[2] = "repair" => x[3] <= item'[ItemOf(x)].dr
  BY JobsKeep
<1>2. DraftingTypeOK'
  <2>1. StoreTypeOK'
    BY DEF StoreTypeOK, Books, JobsOK
  <2>2. WorkerTypeOK'
    BY DEF WorkerTypeOK
  <2> QED
    BY <2>1, <2>2 DEF DraftingTypeOK
<1>3. ASSUME NEW b \in Agents, Busy(b)' PROVE ag'[b] = ag[b] /\ Busy(b) /\ OfItem(b)' = OfItem(b)
  <2>1. ag'[b] # Idle
    BY <1>3, IdleIsPlaced DEF Busy
  <2>2. ag'[b] = ag[b]
    BY <2>1
  <2> QED
    BY <1>3, <2>2 DEF Busy, OfItem
<1>4. InHand'
  <2> SUFFICES ASSUME NEW b \in Agents, Busy(b)' PROVE ag'[b].job \in DOMAIN jobs'
    BY DEF InHand
  <2> QED
    BY <1>3 DEF DraftingInvariant, InHand, Follows, JobsFollow
<1>5. DraftsPast'
  <2> SUFFICES ASSUME NEW b \in Agents, Busy(b)'
               PROVE  ag'[b].dr <= item'[OfItem(b)'].dr
    BY <1>1 DEF DraftsPast
  <2>1. Busy(b) /\ ag'[b] = ag[b] /\ OfItem(b)' = OfItem(b)
    BY <1>3
  <2>2. OfItem(b) \in Items /\ ag[b].dr \in Nat
    BY <2>1, HandlerFacts DEF Activity
  <2>3. ag[b].dr <= item[OfItem(b)].dr /\ item[OfItem(b)].dr <= item'[OfItem(b)].dr
    BY <2>1, <2>2 DEF DraftingInvariant, DraftsPast, Follows, ItemsGrow
  <2>4. item[OfItem(b)].dr \in Nat /\ item'[OfItem(b)].dr \in Nat
    BY <2>2 DEF DraftingInvariant, DraftingTypeOK, StoreTypeOK, Item
  <2> QED
    BY <2>1, <2>2, <2>3, <2>4
<1>6. Placed'
  BY IdleIsPlaced DEF Placed, DraftingInvariant
<1>7. Custody'
  <2> SUFFICES ASSUME NEW b \in Agents, Busy(b)', OfItem(b)' \notin disowned'
               PROVE  Kept(b)' /\ InPlace(b)'
    BY DEF Custody
  <2>1. Busy(b) /\ ag'[b] = ag[b] /\ OfItem(b) \notin disowned'
    BY <1>3
  <2>2. OfItem(b) \notin disowned
    BY <2>1 DEF Follows
  <2> QED
    BY <2>1, <2>2, BystanderKeeps
<1>8. LooksAround'
  <2>1. \A b \in Agents : Looks(b)' => ag'[b] = ag[b]
    BY <1>3 DEF Looks, Busy
  <2> QED
    BY <2>1, LooksSame DEF Looks, Follows
<1> QED
  BY <1>1, <1>2, <1>4, <1>5, <1>6, <1>7, <1>8 DEF DraftingInvariant

\* What the invariant says of a bystander
LEMMA BystanderFacts ==
    ASSUME DraftingInvariant, NEW b \in Agents, Busy(b), OfItem(b) \notin disowned
    PROVE  /\ b \notin asleep /\ b # Gone /\ b # Null /\ b \notin {"none", "queued"}
           /\ ag[b].job \in DOMAIN jobs /\ OfItem(b) \in Items
           /\ jobs[ag[b].job].row = b /\ jobs[ag[b].job].status = "in_flight"
           /\ IsResearch(ag[b].job) => lock[OfItem(b)] = b
           /\ OpenJobsOf(OfItem(b)) # {}
<1>1. Kept(b) /\ ag[b].job \in DOMAIN jobs /\ OfItem(b) \in Items
  BY HandlerFacts DEF DraftingInvariant, Custody
<1>2. ag[b].job \in OpenJobsOf(OfItem(b))
  BY <1>1 DEF Kept, OpenJobsOf, OpenJobs, OpenStatus, OfItem
<1> QED
  BY <1>1, <1>2, DraftingAssumption DEF Kept, OfItem

\* A step that leaves the items and the handlers alone
LEMMA TablesKeep ==
    ASSUME DraftingInvariant, Lighter(jobs, jobs'), Books(jobs', runs'),
           UNCHANGED <<item, ag, disowned>>,
           lock' \in [Items -> Holder \cup {Null}], lease' = lease, latest' \in RunIds,
           ws' \in {"active", "paused"}, asleep' \in SUBSET asleep, faults' = faults, SweepTypeOK',
           \A b \in Agents : Busy(b) /\ OfItem(b) \notin disowned =>
                  /\ jobs'[ag[b].job].row = b /\ jobs'[ag[b].job].status = "in_flight"
                  /\ IsResearch(ag[b].job) => lock'[OfItem(b)] = b
    PROVE  DraftingInvariant'
<1>1. \A j \in Items : item[j].dr >= item[j].dr
  BY DEF DraftingInvariant, DraftingTypeOK, StoreTypeOK, Item
<1>2. Follows
  BY <1>1, LighterFollow DEF Follows, ItemsGrow, Settles
<1>3. /\ item' \in [Items -> Item] /\ lease' \in [Companies -> Lease]
      /\ asleep' \in SUBSET Agents /\ faults' \in 0..MaxFaults /\ disowned' \in SUBSET Items
      /\ ag' \in [Agents -> Activity]
  BY DEF DraftingInvariant, DraftingTypeOK, StoreTypeOK, WorkerTypeOK
<1>4. LeasesHeld'
  BY LeasesSame DEF Busy
<1>5. \A b \in Agents :
         (ag'[b] = ag[b] /\ Busy(b) /\ OfItem(b) \notin disowned') =>
             /\ b \notin asleep'
             /\ jobs'[ag[b].job].row = b /\ jobs'[ag[b].job].status = "in_flight"
             /\ IsResearch(ag[b].job) => lock'[OfItem(b)] = b
             /\ Gentle(OfItem(b)) \/ ~Engaged(b)
  BY BystanderFacts DEF Gentle
<1> QED
  BY <1>2, <1>3, <1>4, <1>5, OthersKeep

\* The same for the parts that most steps leave as they are
LEMMA TypesNow ==
    ASSUME DraftingInvariant
    PROVE  /\ lock \in [Items -> Holder \cup {Null}] /\ latest \in RunIds
           /\ ws \in {"active", "paused"} /\ SweepTypeOK /\ JobsOK(jobs) /\ Books(jobs, runs)
           /\ runs \in [RunIds -> Run] /\ asleep \in SUBSET asleep /\ Lighter(jobs, jobs)
           /\ \A k \in DOMAIN jobs : jobs[k] \in Job
BY DEF DraftingInvariant, DraftingTypeOK, StoreTypeOK, Books, JobsOK, Lighter

LEMMA OneJobKeeps ==
    ASSUME DraftingInvariant, NEW k \in DOMAIN jobs, NEW x \in Job, jobs' = [jobs EXCEPT ![k] = x],
           x.run = jobs[k].run, x.res = jobs[k].res, x.rr = jobs[k].rr, x.dr = jobs[k].dr,
           x.status \in OpenStatus => jobs[k].status \in OpenStatus,
           UNCHANGED <<item, lock, runs, latest, ws, lease, worker, sweep>>,
           \/ x.row = jobs[k].row /\ x.status = jobs[k].status
           \/ \A b \in Agents : Busy(b) /\ OfItem(b) \notin disowned => ag[b].job # k
    PROVE  DraftingInvariant'
<1>1. DOMAIN jobs' = DOMAIN jobs /\ jobs'[k] = x /\ \A y \in DOMAIN jobs \ {k} : jobs'[y] = jobs[y]
  OBVIOUS
<1>2. Lighter(jobs, jobs')
  BY <1>1, TypesNow DEF Lighter
<1>3. Books(jobs', runs')
  BY <1>2, TypesNow, LighterBooks
<1>4. UNCHANGED <<ag, asleep, faults, disowned>>
  BY DEF worker
<1>5. \A b \in Agents : Busy(b) /\ OfItem(b) \notin disowned =>
                  /\ jobs'[ag[b].job].row = b /\ jobs'[ag[b].job].status = "in_flight"
                  /\ IsResearch(ag[b].job) => lock'[OfItem(b)] = b
  BY <1>1, BystanderFacts
<1>6. SweepTypeOK'
  BY TypesNow DEF SweepTypeOK
<1> QED
  BY <1>2, <1>3, <1>4, <1>5, <1>6, TypesNow, TablesKeep

LEMMA DeadIsNobodys ==
    ASSUME DraftingInvariant, NEW k \in DOMAIN jobs,
           DeadRow(k) \/ jobs[k].row \in {"none", "queued"} \/ jobs[k].status # "in_flight"
    PROVE  \A b \in Agents : Busy(b) /\ OfItem(b) \notin disowned => ag[b].job # k
BY BystanderFacts DEF DeadRow

LEMMA TransportKeeps ==
    ASSUME DraftingInvariant, Transport
    PROVE  DraftingInvariant'
<1>1. PICK k \in DOMAIN jobs : Reap(k) \/ ResetBacking(k) \/ Reclaim(k)
  BY DEF Transport
<1>2. jobs[k] \in Job
  BY TypesNow
<1>3. CASE Reap(k)
  <2>1. PICK x : x = [jobs[k] EXCEPT !.row = "queued"]
    OBVIOUS
  <2>2. /\ x \in Job /\ x.status = jobs[k].status /\ x.run = jobs[k].run
        /\ x.res = jobs[k].res /\ x.rr = jobs[k].rr /\ x.dr = jobs[k].dr
    BY <1>2, <2>1 DEF Job
  <2>3. jobs' = [jobs EXCEPT ![k] = x]
    BY <1>3, <2>1 DEF Reap
  <2> QED
    BY <1>3, <2>2, <2>3, DeadIsNobodys, OneJobKeeps DEF Reap
<1>4. CASE ResetBacking(k)
  <2>1. jobs' = Dispatched(jobs, {k})
    BY <1>4 DEF ResetBacking
  <2>2. Lighter(jobs, jobs') /\ \A y \in DOMAIN jobs : jobs[y].row # "none" => jobs'[y] = jobs[y]
    BY <2>1, TypesNow, DispatchedLighter
  <2>3. UNCHANGED <<item, lock, runs, latest, ws, lease, ag, asleep, faults, disowned, sweep>>
    BY <1>4 DEF ResetBacking, worker
  <2>4. Books(jobs', runs')
    BY <2>2, <2>3, TypesNow, LighterBooks
  <2>5. \A b \in Agents : Busy(b) /\ OfItem(b) \notin disowned =>
                  /\ jobs'[ag[b].job].row = b /\ jobs'[ag[b].job].status = "in_flight"
                  /\ IsResearch(ag[b].job) => lock'[OfItem(b)] = b
    BY <2>2, <2>3, BystanderFacts
  <2>6. SweepTypeOK'
    BY <2>3, TypesNow DEF SweepTypeOK
  <2> QED
    BY <2>2, <2>3, <2>4, <2>5, <2>6, TypesNow, TablesKeep
<1>5. CASE Reclaim(k)
  <2>1. PICK x : x = [jobs[k] EXCEPT !.status = "pending", !.due = TRUE, !.row = "queued"]
    OBVIOUS
  <2>2. /\ x \in Job /\ x.run = jobs[k].run
        /\ x.res = jobs[k].res /\ x.rr = jobs[k].rr /\ x.dr = jobs[k].dr
    BY <1>2, <2>1 DEF Job, JobStatus, OpenStatus
  <2>3. jobs' = [jobs EXCEPT ![k] = x] /\ jobs[k].status \in OpenStatus
    BY <1>5, <2>1 DEF Reclaim, OpenStatus
  <2> QED
    BY <1>5, <2>2, <2>3, DeadIsNobodys, OneJobKeeps DEF Reclaim
<1> QED
  BY <1>1, <1>3, <1>4, <1>5

\* A step that changes neither the jobs nor what the handlers rely on
LEMMA RestKeeps ==
    ASSUME DraftingInvariant, UNCHANGED <<item, jobs, ag, disowned, lease, faults>>,
           Books(jobs, runs'), latest' \in RunIds, ws' \in {"active", "paused"},
           asleep' \in SUBSET asleep, SweepTypeOK',
           lock' \in [Items -> Holder \cup {Null}],
           \A i \in Items : lock[i] = Gone \/ lock[i] \in asleep \/ lock'[i] = lock[i]
    PROVE  DraftingInvariant'
<1>1. \A b \in Agents : Busy(b) /\ OfItem(b) \notin disowned =>
                  /\ jobs'[ag[b].job].row = b /\ jobs'[ag[b].job].status = "in_flight"
                  /\ IsResearch(ag[b].job) => lock'[OfItem(b)] = b
  BY BystanderFacts
<1>2. Lighter(jobs, jobs') /\ Books(jobs', runs')
  BY TypesNow
<1> QED
  BY <1>1, <1>2, TablesKeep

LEMMA SweepReadKeeps ==
    ASSUME DraftingInvariant,
           \/ \E i \in Items : StrandedRead(i)
           \/ \E c \in Companies : OrphanRead(c)
    PROVE  DraftingInvariant'
<1>1. UNCHANGED <<item, jobs, ag, disowned, lease, faults, runs, latest, ws, asleep, lock>>
  BY DEF StrandedRead, OrphanRead, tables, worker
<1>2. SweepTypeOK'
  <2>1. ASSUME NEW i \in Items, StrandedRead(i) PROVE SweepTypeOK'
    <3>1. STRANDED_IDLE_MAP[item[i].state] \in {"failed_research", "failed_write"}
      BY <2>1 DEF StrandedRead, StrandedItems, STRANDED_IDLE_MAP
    <3> QED
      BY <2>1, <3>1, StateNames DEF StrandedRead, SweepTypeOK, NoSweep
  <2>2. ASSUME NEW c \in Companies, OrphanRead(c) PROVE SweepTypeOK'
    <3>1. Found(c) \in SUBSET Sighting
      BY FoundFacts
    <3>2. sweep' = [do |-> "wake", items |-> {}, to |-> "failed_research", found |-> Found(c)]
      BY <2>2 DEF OrphanRead, NoSweep
    <3> QED
      BY <3>1, <3>2, StateNames DEF SweepTypeOK
  <2> QED
    BY <2>1, <2>2
<1> QED
  BY <1>1, <1>2, TypesNow, RestKeeps

LEMMA UpkeepKeeps ==
    ASSUME DraftingInvariant, Upkeep
    PROVE  DraftingInvariant'
<1>1. ASSUME NEW r \in RunIds, RunPasses(r) PROVE DraftingInvariant'
  <2>1. /\ DOMAIN jobs' = DOMAIN jobs
        /\ \A y \in DOMAIN jobs : \/ jobs[y].run # r /\ jobs'[y] = jobs[y]
                                  \/ jobs[y].run = r /\ jobs'[y] = [jobs[y] EXCEPT !.run = "past"]
    BY <1>1 DEF RunPasses
  <2>2. ASSUME NEW y \in DOMAIN jobs
        PROVE  /\ jobs'[y] \in Job /\ jobs'[y].status = jobs[y].status /\ jobs'[y].row = jobs[y].row
               /\ jobs'[y].status \in OpenStatus => jobs[y].run # r /\ jobs'[y] = jobs[y]
    <3>1. jobs[y] \in Job
      BY TypesNow
    <3>2. jobs[y].status \in OpenStatus => jobs[y].run # r
      BY <1>1 DEF RunPasses, OpenJobs
    <3>3. CASE jobs'[y] = jobs[y]
      BY <3>1, <3>2, <3>3
    <3>4. CASE jobs'[y] = [jobs[y] EXCEPT !.run = "past"] /\ jobs[y].run = r
      BY <3>1, <3>2, <3>4 DEF Job, RunIds
    <3> QED
      BY <2>1, <3>3, <3>4
  <2>3. Lighter(jobs, jobs')
    BY <2>1, <2>2 DEF Lighter
  <2>4. Books(jobs', runs')
    <3>1. Books(jobs', runs)
      BY <2>3, TypesNow, LighterBooks
    <3>2. /\ runs' \in [RunIds -> Run] /\ runs'[r].reserved = 0
          /\ \A s \in RunIds \ {r} : runs'[s] = runs[s]
      BY <1>1, TypesNow DEF RunPasses, NoRun, Run
    <3>3. Charged(jobs', r) = {}
      BY <2>1, <2>2 DEF Charged
    <3>4. Cardinality(Charged(jobs', r)) <= runs'[r].reserved
      BY <3>2, <3>3, FS_EmptySet
    <3> QED
      BY <3>1, <3>2, <3>4 DEF Books
  <2>5. UNCHANGED <<item, lock, ws, lease, ag, asleep, faults, disowned, sweep>>
        /\ latest' \in RunIds
    BY <1>1, TypesNow DEF RunPasses, worker, RunIds
  <2>6. \A b \in Agents : Busy(b) /\ OfItem(b) \notin disowned =>
                  /\ jobs'[ag[b].job].row = b /\ jobs'[ag[b].job].status = "in_flight"
                  /\ IsResearch(ag[b].job) => lock'[OfItem(b)] = b
    BY <2>2, <2>5, BystanderFacts
  <2>7. SweepTypeOK'
    BY <2>5, TypesNow DEF SweepTypeOK
  <2> QED
    BY <2>3, <2>4, <2>5, <2>6, <2>7, TypesNow, TablesKeep
<1>2. CASE Recompute
  <2>1. UNCHANGED <<item, lock, jobs, latest, ws, lease, ag, asleep, faults, disowned, sweep>>
    BY <1>2 DEF Recompute, worker
  <2>2. Books(jobs, runs')
    <3>1. \A r \in RunIds : OpenReservations(r) = Cardinality(Charged(jobs, r))
      <4>1. \A r \in RunIds :
              {k \in OpenJobs : jobs[k].run = r /\ jobs[k].res = 1} = Charged(jobs, r)
        BY DEF OpenJobs, Charged
      <4> QED
        BY <4>1 DEF OpenReservations
    <3>2. runs' = [r \in RunIds |-> IF runs[r].status = "active"
                                    THEN [runs[r] EXCEPT !.reserved = OpenReservations(r)]
                                    ELSE runs[r]]
      BY <1>2 DEF Recompute
    <3>3. ASSUME NEW r \in RunIds
          PROVE  runs'[r] \in Run /\ Cardinality(Charged(jobs, r)) <= runs'[r].reserved
      <4>1. PICK n : n = Cardinality(Charged(jobs, r))
        OBVIOUS
      <4>2. n \in Nat /\ runs[r] \in Run /\ n <= runs[r].reserved
        BY <4>1, TypesNow, ChargedCounts DEF Books
      <4>3. runs'[r] = [runs[r] EXCEPT !.reserved = n] \/ runs'[r] = runs[r]
        BY <3>1, <3>2, <4>1
      <4>4. n <= n
        BY <4>2
      <4> QED
        BY <4>1, <4>2, <4>3, <4>4 DEF Run
    <3>4. runs' \in [RunIds -> Run]
      BY <3>2, <3>3
    <3> QED
      BY <3>3, <3>4, TypesNow DEF Books
  <2>3. SweepTypeOK'
    BY <2>1, TypesNow DEF SweepTypeOK
  <2> QED
    BY <2>1, <2>2, <2>3, TypesNow, RestKeeps
<1>3. CASE FinalizeIdle
  <2>1. UNCHANGED <<item, lock, jobs, latest, ws, lease, ag, asleep, faults, disowned, sweep>>
    BY <1>3 DEF FinalizeIdle, worker
  <2>2. Books(jobs, runs')
    BY <1>3, TypesNow, FinalizedBooks DEF FinalizeIdle
  <2>3. SweepTypeOK'
    BY <2>1, TypesNow DEF SweepTypeOK
  <2> QED
    BY <2>1, <2>2, <2>3, TypesNow, RestKeeps
<1> QED
  BY <1>1, <1>2, <1>3 DEF Upkeep

LEMMA ResumeKeeps ==
    ASSUME DraftingInvariant, Resume
    PROVE  DraftingInvariant'
<1>1. UNCHANGED <<item, lock, jobs, runs, latest, lease, ag, asleep, faults, disowned, sweep>>
      /\ ws' = "active"
  BY DEF Resume, worker
<1>2. SweepTypeOK'
  BY <1>1, TypesNow DEF SweepTypeOK
<1> QED
  BY <1>1, <1>2, TypesNow, RestKeeps

-----------------------------------------------------------------------------
\* Time and faults.

\* Sweeps and faults that touch no job
LEMMA FollowsSame ==
    ASSUME DraftingInvariant, UNCHANGED <<item, jobs>>, disowned \subseteq disowned'
    PROVE  Follows /\ item' \in [Items -> Item] /\ \A j \in Items : Gentle(j)
<1>1. \A j \in Items : item[j].dr >= item[j].dr
  BY DEF DraftingInvariant, DraftingTypeOK, StoreTypeOK, Item
<1> QED
  BY <1>1, SameJobs DEF Follows, ItemsGrow, Settles, Gentle, DraftingInvariant, DraftingTypeOK,
                        StoreTypeOK

\* A lease is closed of which the owner, if it still relies on it, is disowned now.
LEMMA LeaseClosedKeeps ==
    ASSUME DraftingInvariant, NEW c \in Companies,
           lease' = [lease EXCEPT ![c].status = "closed"],
           UNCHANGED <<item, lock, jobs, runs, latest, ws, ag, asleep, sweep>>,
           faults' \in 0..MaxFaults, disowned' \in SUBSET Items, disowned \subseteq disowned',
           \A b \in Agents :
              ~(/\ Busy(b) /\ ag[b].own /\ CompanyOf[OfItem(b)] = c
                /\ OfItem(b) = lease[c].owner /\ lease[c].status = "researching"
                /\ \A i \in disowned' : CompanyOf[i] # c)
    PROVE  DraftingInvariant'
<1>1. /\ lease' \in [Companies -> Lease]
      /\ \A d \in Companies \ {c} : lease'[d] = lease[d]
  BY DEF DraftingInvariant, DraftingTypeOK, StoreTypeOK, Lease
<1>2. LeasesHeld'
  <2> SUFFICES ASSUME NEW b \in Agents, Busy(b), ag[b].own,
                      \A i \in disowned' : CompanyOf[i] # CompanyOf[OfItem(b)]
               PROVE  lease'[CompanyOf[OfItem(b)]] =
                          [status |-> "researching", owner |-> OfItem(b)]
    BY DEF LeasesHeld, Undisturbed, Busy, OfItem
  <2>1. lease[CompanyOf[OfItem(b)]] = [status |-> "researching", owner |-> OfItem(b)]
    BY DEF DraftingInvariant, LeasesHeld, Undisturbed
  <2>2. CompanyOf[OfItem(b)] \in Companies
    BY HandlerFacts
  <2>3. CompanyOf[OfItem(b)] # c
    BY <2>1
  <2> QED
    BY <1>1, <2>1, <2>2, <2>3
<1>3. Follows /\ item' \in [Items -> Item] /\ \A j \in Items : Gentle(j)
  BY FollowsSame
<1>4. /\ ag' \in [Agents -> Activity] /\ asleep' \in SUBSET Agents /\ SweepTypeOK'
      /\ Books(jobs', runs') /\ lock' \in [Items -> Holder \cup {Null}]
      /\ latest' \in RunIds /\ ws' \in {"active", "paused"}
  BY TypesNow DEF DraftingInvariant, DraftingTypeOK, WorkerTypeOK, SweepTypeOK
<1>5. \A b \in Agents :
         (ag'[b] = ag[b] /\ Busy(b) /\ OfItem(b) \notin disowned') =>
             /\ b \notin asleep'
             /\ jobs'[ag[b].job].row = b /\ jobs'[ag[b].job].status = "in_flight"
             /\ IsResearch(ag[b].job) => lock'[OfItem(b)] = b
             /\ Gentle(OfItem(b)) \/ ~Engaged(b)
  BY <1>3, BystanderFacts
<1> QED
  BY <1>1, <1>2, <1>3, <1>4, <1>5, OthersKeep

LEMMA LeaseLapsesKeeps ==
    ASSUME DraftingInvariant, NEW c \in Companies, LeaseLapses(c)
    PROVE  DraftingInvariant'
<1>1. UNCHANGED <<item, lock, jobs, runs, latest, ws, ag, asleep, faults, disowned, sweep>>
      /\ lease' = [lease EXCEPT ![c].status = "closed"]
  BY DEF LeaseLapses, worker
<1>2. faults' \in 0..MaxFaults /\ disowned' \in SUBSET Items /\ disowned \subseteq disowned'
  BY <1>1 DEF DraftingInvariant, DraftingTypeOK, WorkerTypeOK
<1>3. ASSUME NEW b \in Agents, Busy(b), ag[b].own, CompanyOf[OfItem(b)] = c,
             OfItem(b) = lease[c].owner, \A i \in disowned' : CompanyOf[i] # c
      PROVE  FALSE
  <2>1. OfItem(b) \notin disowned
    BY <1>1, <1>3
  <2>2. b \notin asleep
    BY <1>3, <2>1, BystanderFacts
  <2>3. ag[b].at \in {"provider", "yield"}
    BY <1>3 DEF DraftingInvariant, Placed, PlacedAt
  <2>4. Renews(b, c)
    BY <1>3, <2>2, <2>3 DEF Renews, OfItem
  <2> QED
    BY <2>4 DEF LeaseLapses
<1> QED
  BY <1>1, <1>2, <1>3, LeaseClosedKeeps

LEMMA OverageKeeps ==
    ASSUME DraftingInvariant, NEW c \in Companies, Overage(c)
    PROVE  DraftingInvariant'
<1>1. UNCHANGED <<item, lock, jobs, runs, latest, ws, ag, asleep, sweep>>
      /\ lease' = [lease EXCEPT ![c].status = "closed"]
      /\ disowned' = disowned \cup {lease[c].owner}
  BY DEF Overage
<1>2. faults' \in 0..MaxFaults
  BY FaultsStay DEF Overage
<1>3. lease[c].owner \in Items
  <2>1. PICK a \in Agents : Renews(a, c)
    BY DEF Overage
  <2>2. Busy(a) /\ OfItem(a) = lease[c].owner
    BY <2>1 DEF Renews, Busy, OfItem
  <2> QED
    BY <2>2, HandlerFacts
<1>4. disowned' \in SUBSET Items /\ disowned \subseteq disowned'
  BY <1>1, <1>3 DEF DraftingInvariant, DraftingTypeOK, WorkerTypeOK
<1>5. \A b \in Agents :
         ~(/\ Busy(b) /\ ag[b].own /\ CompanyOf[OfItem(b)] = c
           /\ OfItem(b) = lease[c].owner /\ lease[c].status = "researching"
           /\ \A i \in disowned' : CompanyOf[i] # c)
  BY <1>1
<1> QED
  BY <1>1, <1>2, <1>4, <1>5, LeaseClosedKeeps

LEMMA TimeKeeps ==
    ASSUME DraftingInvariant, Time
    PROVE  DraftingInvariant'
<1>1. ASSUME NEW i \in Items, LockLapses(i) PROVE DraftingInvariant'
  <2>1. UNCHANGED <<item, jobs, runs, latest, ws, lease, ag, asleep, faults, disowned, sweep>>
        /\ lock' = [lock EXCEPT ![i] = Null]
    BY <1>1 DEF LockLapses, worker
  <2>2. /\ lock' \in [Items -> Holder \cup {Null}]
        /\ \A j \in Items : lock[j] = Gone \/ lock[j] \in asleep \/ lock'[j] = lock[j]
    BY <1>1, <2>1, TypesNow DEF LockLapses
  <2>3. SweepTypeOK'
    BY <2>1, TypesNow DEF SweepTypeOK
  <2> QED
    BY <2>1, <2>2, <2>3, TypesNow, RestKeeps
<1>2. ASSUME NEW k \in DOMAIN jobs, FallsSilent(k) \/ ComesDue(k) PROVE DraftingInvariant'
  <2>1. PICK x : x = [jobs[k] EXCEPT !.due = TRUE]
    OBVIOUS
  <2>2. jobs[k] \in Job
    BY TypesNow
  <2>3. /\ x \in Job /\ x.status = jobs[k].status /\ x.run = jobs[k].run /\ x.row = jobs[k].row
        /\ x.res = jobs[k].res /\ x.rr = jobs[k].rr /\ x.dr = jobs[k].dr
    BY <2>1, <2>2 DEF Job
  <2>4. jobs' = [jobs EXCEPT ![k] = x]
        /\ UNCHANGED <<item, lock, runs, latest, ws, lease, worker, sweep>>
    BY <1>2, <2>1 DEF FallsSilent, ComesDue
  <2> QED
    BY <2>3, <2>4, OneJobKeeps
<1>3. ASSUME NEW a \in Agents, WakeUp(a) PROVE DraftingInvariant'
  <2>1. UNCHANGED <<item, lock, jobs, runs, latest, ws, lease, ag, faults, disowned, sweep>>
        /\ asleep' \in SUBSET asleep
    BY <1>3 DEF WakeUp, tables
  <2>2. SweepTypeOK'
    BY <2>1, TypesNow DEF SweepTypeOK
  <2> QED
    BY <2>1, <2>2, TypesNow, RestKeeps
<1> QED
  BY <1>1, <1>2, <1>3, LeaseLapsesKeeps DEF Time

LEMMA SleepKeeps ==
    ASSUME DraftingInvariant, NEW a \in Agents, Sleep(a)
    PROVE  DraftingInvariant'
<1>1. UNCHANGED <<item, lock, jobs, runs, latest, ws, lease, ag, sweep>>
      /\ asleep' = asleep \cup {a}
      /\ disowned' = disowned \cup {i \in Items : Works(a, i)}
  BY DEF Sleep, tables
<1>2. faults' \in 0..MaxFaults
  BY FaultsStay DEF Sleep
<1>3. disowned' \in SUBSET Items /\ disowned \subseteq disowned'
  BY <1>1 DEF DraftingInvariant, DraftingTypeOK, WorkerTypeOK
<1>4. Follows /\ item' \in [Items -> Item] /\ \A j \in Items : Gentle(j)
  BY <1>1, <1>3, FollowsSame
<1>5. /\ ag' \in [Agents -> Activity] /\ asleep' \in SUBSET Agents /\ SweepTypeOK'
      /\ Books(jobs', runs') /\ lock' \in [Items -> Holder \cup {Null}]
      /\ latest' \in RunIds /\ ws' \in {"active", "paused"} /\ lease' \in [Companies -> Lease]
  BY <1>1, TypesNow DEF DraftingInvariant, DraftingTypeOK, WorkerTypeOK, StoreTypeOK, SweepTypeOK
<1>6. LeasesHeld'
  BY <1>1, <1>3, LeasesSame DEF Busy
<1>7. Busy(a) => OfItem(a) \in disowned'
  <2>1. ASSUME Busy(a) PROVE Works(a, OfItem(a)) /\ OfItem(a) \in Items
    BY <2>1, HandlerFacts DEF Works, Body, Fenced, Busy, Activity, At, OfItem
  <2> QED
    BY <1>1, <2>1
<1>8. \A b \in Agents :
         (ag'[b] = ag[b] /\ Busy(b) /\ OfItem(b) \notin disowned') =>
             /\ b \notin asleep'
             /\ jobs'[ag[b].job].row = b /\ jobs'[ag[b].job].status = "in_flight"
             /\ IsResearch(ag[b].job) => lock'[OfItem(b)] = b
             /\ Gentle(OfItem(b)) \/ ~Engaged(b)
  BY <1>1, <1>3, <1>4, <1>7, BystanderFacts
<1> QED
  BY <1>1, <1>2, <1>3, <1>4, <1>5, <1>6, <1>8, OthersKeep

LEMMA CrashKeeps ==
    ASSUME DraftingInvariant, NEW a \in Agents, Crash(a)
    PROVE  DraftingInvariant'
<1>1. UNCHANGED <<item, runs, latest, ws, lease, disowned, sweep>>
      /\ ag' = [ag EXCEPT ![a] = Idle] /\ asleep' = asleep \ {a}
      /\ lock' = [i \in Items |-> IF lock[i] = a THEN Gone ELSE lock[i]]
  BY DEF Crash
<1>2. /\ DOMAIN jobs' = DOMAIN jobs
      /\ \A y \in DOMAIN jobs : \/ jobs[y].row # a /\ jobs'[y] = jobs[y]
                                \/ jobs[y].row = a /\ jobs'[y] = [jobs[y] EXCEPT !.row = Gone]
  BY DEF Crash
<1>3. Gone \in {"none", "queued"} \cup Holder
  BY DEF Holder
<1>4. ASSUME NEW y \in DOMAIN jobs
      PROVE  /\ jobs'[y] \in Job /\ jobs'[y].status = jobs[y].status
             /\ jobs'[y].run = jobs[y].run /\ jobs'[y].res = jobs[y].res
             /\ jobs'[y].rr = jobs[y].rr /\ jobs'[y].dr = jobs[y].dr
  <2>1. jobs[y] \in Job
    BY TypesNow
  <2>2. CASE jobs'[y] = jobs[y]
    BY <2>1, <2>2
  <2>3. CASE jobs'[y] = [jobs[y] EXCEPT !.row = Gone]
    BY <1>3, <2>1, <2>3, JobFields
  <2> QED
    BY <1>2, <2>2, <2>3
<1>5. Lighter(jobs, jobs')
  BY <1>2, <1>4 DEF Lighter
<1>6. Books(jobs', runs')
  BY <1>1, <1>5, TypesNow, LighterBooks
<1>7. faults' \in 0..MaxFaults
  BY FaultsStay DEF Crash
<1>8. \A j \in Items : item[j].dr >= item[j].dr
  BY DEF DraftingInvariant, DraftingTypeOK, StoreTypeOK, Item
<1>9. Follows
  BY <1>1, <1>5, <1>8, LighterFollow DEF Follows, ItemsGrow, Settles
<1>10. /\ ag' \in [Agents -> Activity] /\ ag'[a] = Idle
       /\ \A b \in Agents \ {a} : ag'[b] = ag[b]
  BY <1>1, IdleIsPlaced DEF DraftingInvariant, DraftingTypeOK, WorkerTypeOK
<1>11. /\ asleep' \in SUBSET Agents /\ SweepTypeOK' /\ disowned' \in SUBSET Items
       /\ lock' \in [Items -> Holder \cup {Null}] /\ item' \in [Items -> Item]
       /\ latest' \in RunIds /\ ws' \in {"active", "paused"} /\ lease' \in [Companies -> Lease]
  BY <1>1, TypesNow DEF DraftingInvariant, DraftingTypeOK, WorkerTypeOK, StoreTypeOK, SweepTypeOK,
                        Holder
<1>12. LeasesHeld'
  <2>1. \A b \in Agents : ag'[b].at # "idle" => ag'[b] = ag[b]
    BY <1>10, IdleIsPlaced
  <2> QED
    BY <1>1, <2>1, LeasesSame DEF Busy
<1>13. \A b \in Agents :
         (ag'[b] = ag[b] /\ Busy(b) /\ OfItem(b) \notin disowned') =>
             /\ b \notin asleep'
             /\ jobs'[ag[b].job].row = b /\ jobs'[ag[b].job].status = "in_flight"
             /\ IsResearch(ag[b].job) => lock'[OfItem(b)] = b
             /\ Gentle(OfItem(b)) \/ ~Engaged(b)
  <2> SUFFICES ASSUME NEW b \in Agents, ag'[b] = ag[b], Busy(b), OfItem(b) \notin disowned
               PROVE  /\ b \notin asleep'
                      /\ jobs'[ag[b].job].row = b /\ jobs'[ag[b].job].status = "in_flight"
                      /\ IsResearch(ag[b].job) => lock'[OfItem(b)] = b
                      /\ Gentle(OfItem(b))
    BY <1>1
  <2>1. b # a
    BY <1>10, IdleIsPlaced DEF Busy
  <2>2. Gentle(OfItem(b))
    BY <1>1 DEF Gentle
  <2>3. /\ b \notin asleep /\ ag[b].job \in DOMAIN jobs /\ OfItem(b) \in Items
        /\ jobs[ag[b].job].row = b /\ jobs[ag[b].job].status = "in_flight"
        /\ IsResearch(ag[b].job) => lock[OfItem(b)] = b
    BY BystanderFacts
  <2>4. jobs'[ag[b].job] = jobs[ag[b].job]
    BY <1>2, <2>1, <2>3
  <2> QED
    BY <1>1, <2>1, <2>2, <2>3, <2>4
<1>14. \A j \in Items : item'[j].packet = item[j].packet /\ item'[j].tries = item[j].tries
  BY <1>1
<1>15. \A b \in Agents : ag'[b] = ag[b] \/ ag'[b] = Idle
  BY <1>10
<1> QED
  BY <1>6, <1>7, <1>9, <1>10, <1>11, <1>12, <1>13, <1>14, <1>15, OthersKeep

LEMMA PauseKeeps ==
    ASSUME DraftingInvariant, Pause
    PROVE  DraftingInvariant'
<1>1. UNCHANGED <<item, runs, latest, lease, ag, asleep, sweep>>
      /\ ws' = "paused" /\ lock' = [i \in Items |-> Null]
      /\ jobs' = [k \in DOMAIN jobs |-> [Closed(jobs[k]) EXCEPT !.row = "none"]]
      /\ disowned' = disowned \cup {i \in Items : \E a \in Agents : Works(a, i)}
  BY DEF Pause
<1>2. ASSUME NEW k \in DOMAIN jobs PROVE jobs'[k] \in Job /\ jobs'[k].status \notin OpenStatus
  <2>1. PICK x : x = Closed(jobs[k])
    OBVIOUS
  <2>2. x \in Job /\ x.status = "closed"
    BY <2>1, TypesNow, ClosedFields
  <2>3. jobs'[k] = [x EXCEPT !.row = "none"]
    BY <1>1, <2>1
  <2>4. jobs'[k] \in Job /\ jobs'[k].status = "closed"
    BY <2>2, <2>3, JobFields
  <2> QED
    BY <2>4 DEF OpenStatus
<1>3. Lighter(jobs, jobs')
  BY <1>1, <1>2 DEF Lighter
<1>4. Books(jobs', runs')
  BY <1>1, <1>3, TypesNow, LighterBooks
<1>5. faults' \in 0..MaxFaults
  BY FaultsStay DEF Pause
<1>6. disowned' \in SUBSET Items /\ disowned \subseteq disowned'
  BY <1>1 DEF DraftingInvariant, DraftingTypeOK, WorkerTypeOK
<1>7. \A j \in Items : item[j].dr >= item[j].dr
  BY DEF DraftingInvariant, DraftingTypeOK, StoreTypeOK, Item
<1>8. Follows
  BY <1>1, <1>3, <1>6, <1>7, LighterFollow DEF Follows, ItemsGrow, Settles
<1>9. /\ asleep' \in SUBSET Agents /\ SweepTypeOK' /\ ag' \in [Agents -> Activity]
      /\ lock' \in [Items -> Holder \cup {Null}] /\ item' \in [Items -> Item]
      /\ latest' \in RunIds /\ ws' \in {"active", "paused"} /\ lease' \in [Companies -> Lease]
  BY <1>1, TypesNow DEF DraftingInvariant, DraftingTypeOK, WorkerTypeOK, StoreTypeOK, SweepTypeOK
<1>10. LeasesHeld'
  BY <1>1, <1>6, LeasesSame DEF Busy
<1>11. \A b \in Agents : Busy(b) => OfItem(b) \in disowned'
  <2>1. ASSUME NEW b \in Agents, Busy(b) PROVE Works(b, OfItem(b)) /\ OfItem(b) \in Items
    BY <2>1, HandlerFacts DEF Works, Body, Fenced, Busy, Activity, At, OfItem
  <2> QED
    BY <1>1, <2>1
<1>12. \A j \in Items : item'[j].packet = item[j].packet /\ item'[j].tries = item[j].tries
  BY <1>1
<1> QED
  BY <1>1, <1>4, <1>5, <1>6, <1>8, <1>9, <1>10, <1>11, <1>12, OthersKeep

LEMMA FaultsKeep ==
    ASSUME DraftingInvariant, Faults
    PROVE  DraftingInvariant'
BY PressureKeeps, CrashKeeps, CompletionLostKeeps, SleepKeeps, OverageKeeps, PauseKeeps DEF Faults

-----------------------------------------------------------------------------
\* Sweeps that act, and the retries.

LEMMA ResetStrandedKeeps ==
    ASSUME DraftingInvariant, ResetStranded
    PROVE  DraftingInvariant'
<1>1. UNCHANGED <<lock, jobs, runs, latest, ws, lease, ag, asleep, faults>>
      /\ disowned' = disowned \cup {i \in sweep.items : OpenJobsOf(i) # {}}
      /\ sweep' = NoSweep
  BY DEF ResetStranded
<1>2. sweep.items \subseteq Items /\ sweep.to \in ItemState
  BY TypesNow DEF SweepTypeOK
<1>3. ASSUME NEW j \in Items
      PROVE  /\ item'[j] \in Item /\ item'[j].dr = item[j].dr
             /\ item'[j].packet = item[j].packet /\ item'[j].tries = item[j].tries
             /\ j \notin sweep.items => item'[j] = item[j]
  <2>1. PICK e : e = IF item[j].err = "none" THEN "stranded_after_interrupt" ELSE item[j].err
    OBVIOUS
  <2>2. item[j] \in Item
    BY DEF DraftingInvariant, DraftingTypeOK, StoreTypeOK
  <2>3. e \in ErrorCode
    BY <2>1, <2>2 DEF Item, ErrorCode
  <2>4. item'[j] = IF j \in sweep.items THEN [item[j] EXCEPT !.state = sweep.to, !.err = e]
                   ELSE item[j]
    BY <2>1 DEF ResetStranded
  <2> QED
    BY <1>2, <2>2, <2>3, <2>4 DEF Item
<1>4. item' \in [Items -> Item]
  BY <1>3 DEF ResetStranded
<1>5. disowned' \in SUBSET Items /\ disowned \subseteq disowned'
  BY <1>1, <1>2 DEF DraftingInvariant, DraftingTypeOK, WorkerTypeOK
<1>6. ASSUME NEW j \in Items PROVE item'[j].dr >= item[j].dr /\ Settles(j)
  <2>1. item[j].dr \in Nat /\ item'[j].dr = item[j].dr
    BY <1>3 DEF DraftingInvariant, DraftingTypeOK, StoreTypeOK, Item
  <2>2. Settles(j)
    BY <1>1, <1>3 DEF Settles
  <2> QED
    BY <2>1, <2>2
<1>7. Follows
  BY <1>1, <1>5, <1>6, SameJobs DEF Follows, ItemsGrow
<1>8. SweepTypeOK'
  BY <1>1, StateNames DEF SweepTypeOK, NoSweep
<1>9. /\ ag' \in [Agents -> Activity] /\ asleep' \in SUBSET Agents /\ faults' \in 0..MaxFaults
      /\ Books(jobs', runs') /\ lock' \in [Items -> Holder \cup {Null}]
      /\ latest' \in RunIds /\ ws' \in {"active", "paused"} /\ lease' \in [Companies -> Lease]
  BY <1>1, TypesNow DEF DraftingInvariant, DraftingTypeOK, WorkerTypeOK, StoreTypeOK
<1>10. LeasesHeld'
  BY <1>1, <1>5, LeasesSame DEF Busy
<1>11. \A b \in Agents :
         (ag'[b] = ag[b] /\ Busy(b) /\ OfItem(b) \notin disowned') =>
             /\ b \notin asleep'
             /\ jobs'[ag[b].job].row = b /\ jobs'[ag[b].job].status = "in_flight"
             /\ IsResearch(ag[b].job) => lock'[OfItem(b)] = b
             /\ Gentle(OfItem(b)) \/ ~Engaged(b)
  <2> SUFFICES ASSUME NEW b \in Agents, Busy(b), OfItem(b) \notin disowned'
               PROVE  /\ b \notin asleep
                      /\ jobs[ag[b].job].row = b /\ jobs[ag[b].job].status = "in_flight"
                      /\ IsResearch(ag[b].job) => lock[OfItem(b)] = b
                      /\ Gentle(OfItem(b))
    BY <1>1
  <2>1. /\ b \notin asleep /\ OfItem(b) \in Items
        /\ jobs[ag[b].job].row = b /\ jobs[ag[b].job].status = "in_flight"
        /\ IsResearch(ag[b].job) => lock[OfItem(b)] = b
        /\ OpenJobsOf(OfItem(b)) # {}
    BY <1>5, BystanderFacts
  <2>2. OfItem(b) \notin sweep.items
    BY <1>1, <2>1
  <2>3. item'[OfItem(b)] = item[OfItem(b)]
    BY <1>3, <2>1, <2>2
  <2> QED
    BY <2>1, <2>3 DEF Gentle
<1>12. \A j \in Items : item'[j].packet = item[j].packet /\ item'[j].tries = item[j].tries
  BY <1>3
<1> QED
  BY <1>1, <1>4, <1>5, <1>7, <1>8, <1>9, <1>10, <1>11, <1>12, OthersKeep

LEMMA SweepWakeKeeps ==
    ASSUME DraftingInvariant, NEW p \in sweep.found, SweepWake(p)
    PROVE  DraftingInvariant'
<1>1. UNCHANGED <<lock, latest, ws, lease, ag, asleep, faults, disowned>>
  BY DEF SweepWake, worker
<1>2. SweepTypeOK'
  <2>1. sweep' \in {NoSweep, [sweep EXCEPT !.found = sweep.found \ {p}]}
    BY DEF SweepWake
  <2> QED
    BY <2>1, TypesNow, StateNames DEF SweepTypeOK, NoSweep
<1>3. CASE WakeParked(p)
  <2>1. /\ JobsFollow /\ RowsStay /\ Books(jobs', runs')
        /\ item' \in [Items -> Item] /\ ItemsGrow
        /\ \A l \in Items : /\ Settles(l) /\ Gentle(l)
                            /\ item'[l].packet = item[l].packet /\ item'[l].tries = item[l].tries
    BY <1>3, TypesNow, WakeFacts DEF SweepTypeOK
  <2>2. Follows
    BY <1>1, <2>1 DEF Follows
  <2>3. /\ ag' \in [Agents -> Activity] /\ asleep' \in SUBSET Agents /\ faults' \in 0..MaxFaults
        /\ lock' \in [Items -> Holder \cup {Null}] /\ disowned' \in SUBSET Items
        /\ latest' \in RunIds /\ ws' \in {"active", "paused"} /\ lease' \in [Companies -> Lease]
    BY <1>1, TypesNow DEF DraftingInvariant, DraftingTypeOK, WorkerTypeOK, StoreTypeOK
  <2>4. LeasesHeld'
    BY <1>1, LeasesSame DEF Busy
  <2>5. \A b \in Agents :
         (ag'[b] = ag[b] /\ Busy(b) /\ OfItem(b) \notin disowned') =>
             /\ b \notin asleep'
             /\ jobs'[ag[b].job].row = b /\ jobs'[ag[b].job].status = "in_flight"
             /\ IsResearch(ag[b].job) => lock'[OfItem(b)] = b
             /\ Gentle(OfItem(b)) \/ ~Engaged(b)
    <3> SUFFICES ASSUME NEW b \in Agents, Busy(b), OfItem(b) \notin disowned
                 PROVE  /\ b \notin asleep
                        /\ jobs'[ag[b].job].row = b /\ jobs'[ag[b].job].status = "in_flight"
                        /\ IsResearch(ag[b].job) => lock[OfItem(b)] = b
                        /\ Gentle(OfItem(b))
      BY <1>1
    <3>1. /\ b \notin asleep /\ OfItem(b) \in Items /\ b \notin {"none", "queued"}
          /\ ag[b].job \in DOMAIN jobs
          /\ jobs[ag[b].job].row = b /\ jobs[ag[b].job].status = "in_flight"
          /\ IsResearch(ag[b].job) => lock[OfItem(b)] = b
      BY BystanderFacts
    <3>2. jobs'[ag[b].job] = jobs[ag[b].job]
      BY <2>1, <3>1 DEF RowsStay
    <3> QED
      BY <2>1, <3>1, <3>2
  <2> QED
    BY <1>1, <1>2, <2>1, <2>2, <2>3, <2>4, <2>5, OthersKeep
<1>4. CASE UNCHANGED <<item, jobs, runs>>
  BY <1>1, <1>2, <1>4, TypesNow, RestKeeps
<1> QED
  BY <1>3, <1>4 DEF SweepWake

\* The keys of a retry are as many as its items.
LEMMA KeysCount ==
    ASSUME NEW S, S \subseteq Items
    PROVE  LET keys == {ReconcileKey(i) : i \in S} IN
           /\ IsFiniteSet(keys) /\ Cardinality(keys) \in Nat
           /\ Cardinality(keys) <= Cardinality(S) /\ Cardinality(S) \in Nat
<1> DEFINE keys == {ReconcileKey(i) : i \in S}
           f == [i \in S |-> ReconcileKey(i)]
<1>1. IsFiniteSet(S)
  BY DraftingAssumption, FS_Subset
<1>2. f \in Surjection(S, keys)
  BY DEF Surjection
<1>3. IsFiniteSet(keys) /\ Cardinality(keys) <= Cardinality(S)
  BY <1>1, <1>2, FS_Surjection
<1> QED
  BY <1>1, <1>3, FS_CardinalityType

LEMMA ReconcileJobFacts ==
    ASSUME DraftingInvariant, NEW k \in Keys, NEW r \in RunIds, NEW mode
    PROVE  LET x == ReconcileJob(k, r, mode, "none") IN
           x \in Job /\ x.run = r
<1>1. CASE k \in DOMAIN jobs
  <2>1. jobs[k] \in Job
    BY <1>1, TypesNow
  <2>2. ReconcileJob(k, r, mode, "none") =
            [jobs[k] EXCEPT !.status = "pending", !.att = 0, !.due = TRUE, !.run = r]
    BY <1>1 DEF ReconcileJob
  <2>3. PICK x : x = [jobs[k] EXCEPT !.status = "pending", !.att = 0,
                                     !.due = TRUE, !.run = r]
    OBVIOUS
  <2>4. "pending" \in JobStatus
    BY DEF JobStatus, OpenStatus
  <2>5. x \in Job
    BY <2>1, <2>3, <2>4 DEF Job
  <2>6. x.run = r
    BY <2>1, <2>3 DEF Job
  <2> QED
    BY <2>2, <2>3, <2>5, <2>6
<1>2. CASE k \notin DOMAIN jobs
  <2>1. PICK m \in BOOLEAN : m = (mode = "human")
    OBVIOUS
  <2>2. PICK x : x = NewJob(r, Null, Null, TRUE, "none")
    OBVIOUS
  <2>3. x \in Job /\ x.run = r
    <3>1. NewJob(r, Null, Null, TRUE, "none") \in Job
      BY NewJobFacts
    <3> QED
      BY <2>2, <3>1 DEF NewJob
  <2>4. ReconcileJob(k, r, mode, "none") = [x EXCEPT !.manual = m]
    BY <1>2, <2>1, <2>2 DEF ReconcileJob
  <2> QED
    BY <2>3, <2>4 DEF Job
<1> QED
  BY <1>1, <1>2

\* Jobs revived or made for the run r, and the reservations that go with them
LEMMA RevivedBooks ==
    ASSUME DraftingInvariant, NEW r \in RunIds, NEW S, S \subseteq Items, NEW jb,
           DOMAIN jb = DOMAIN jobs \cup {ReconcileKey(i) : i \in S},
           \A k \in {ReconcileKey(i) : i \in S} : jb[k] \in Job /\ jb[k].run = r,
           \A k \in DOMAIN jobs \ {ReconcileKey(i) : i \in S} : jb[k] = jobs[k],
           NEW rn \in [RunIds -> Run], rn[r].reserved = runs[r].reserved + Cardinality(S),
           \A s \in RunIds \ {r} : rn[s].reserved = runs[s].reserved
    PROVE  Books(jb, rn)
<1> DEFINE keys == {ReconcileKey(i) : i \in S}
<1>1. /\ IsFiniteSet(keys) /\ Cardinality(keys) \in Nat
      /\ Cardinality(keys) <= Cardinality(S) /\ Cardinality(S) \in Nat
  BY KeysCount
<1>2. keys \subseteq Keys
  BY KeysAre DEF ReconcileKey, JobKind, ResearchKinds
<1> HIDE DEF keys
<1>3. /\ DOMAIN jb = DOMAIN jobs \cup keys
      /\ \A k \in keys : jb[k] \in Job /\ jb[k].run = r
      /\ \A k \in DOMAIN jobs \ keys : jb[k] = jobs[k]
  BY DEF keys
<1>3a. ASSUME NEW k \in DOMAIN jobs, k \notin keys PROVE jb[k] = jobs[k]
  <2>1. k \in DOMAIN jobs \ {ReconcileKey(i) : i \in S}
    BY <1>3a DEF keys
  <2> QED
    BY <2>1
<1>4. JobsOK(jb)
  <2>1. IsFiniteSet(DOMAIN jobs \cup keys)
    BY <1>1, TypesNow, FS_Union DEF JobsOK
  <2> QED
    BY <1>2, <1>3, <2>1, TypesNow DEF JobsOK
<1>5. ASSUME NEW s \in RunIds PROVE Cardinality(Charged(jb, s)) <= rn[s].reserved
  <2>1. /\ IsFiniteSet(Charged(jobs, s)) /\ Cardinality(Charged(jobs, s)) \in Nat
        /\ IsFiniteSet(Charged(jb, s)) /\ Cardinality(Charged(jb, s)) \in Nat
    BY <1>4, TypesNow, ChargedCounts
  <2>2. /\ Cardinality(Charged(jobs, s)) <= runs[s].reserved
        /\ runs[s].reserved \in Nat /\ rn[s].reserved \in Nat
    BY TypesNow DEF Books, Run
  <2>3. CASE s # r
    <3>1. Charged(jb, s) \subseteq Charged(jobs, s)
      BY <1>3, <2>3 DEF Charged
    <3>2. Cardinality(Charged(jb, s)) <= Cardinality(Charged(jobs, s))
      BY <2>1, <3>1, FS_Subset
    <3> QED
      BY <2>1, <2>2, <2>3, <3>2
  <2>4. CASE s = r
    <3>1. Charged(jb, s) \subseteq Charged(jobs, s) \cup keys
      <4> SUFFICES ASSUME NEW k \in Charged(jb, s), k \notin keys
                   PROVE  k \in Charged(jobs, s)
        OBVIOUS
      <4>1. k \in DOMAIN jb
        BY DEF Charged
      <4>2. k \in DOMAIN jobs
        BY <1>3, <4>1
      <4>3. k \in DOMAIN jobs \ keys
        BY <4>2
      <4>4. jb[k] = jobs[k]
        BY <1>3a, <4>2
      <4> QED
        BY <4>1, <4>2, <4>4 DEF Charged
    <3>2. /\ IsFiniteSet(Charged(jobs, s) \cup keys)
          /\ Cardinality(Charged(jobs, s) \cup keys)
               = Cardinality(Charged(jobs, s)) + Cardinality(keys)
                    - Cardinality(Charged(jobs, s) \cap keys)
      BY <1>1, <2>1, FS_Union
    <3>3. Cardinality(Charged(jobs, s) \cap keys) \in Nat
      BY <2>1, FS_Intersection, FS_CardinalityType
    <3>4. Cardinality(Charged(jb, s)) <= Cardinality(Charged(jobs, s) \cup keys)
      BY <3>1, <3>2, FS_Subset
    <3> QED
      BY <1>1, <2>1, <2>2, <2>4, <3>2, <3>3, <3>4
  <2> QED
    BY <2>3, <2>4
<1> QED
  BY <1>4, <1>5 DEF Books

LEMMA QueueIdleKeeps ==
    ASSUME DraftingInvariant, NEW mode, NEW override, NEW among, among \subseteq Items,
           NEW r \in RunIds, QueueIdle(mode, override, among, r), faults' \in 0..MaxFaults
    PROVE  DraftingInvariant'
<1> DEFINE all == {i \in among : Enqueueable(i, mode, override)}
<1>1. PICK funded \in SUBSET all :
         LET keys == {ReconcileKey(i) : i \in funded}
             it   == [i \in Items |->
                       IF i \in funded THEN [item[i] EXCEPT !.state = "queued_research"]
                       ELSE IF i \in all THEN [item[i] EXCEPT !.state = "budget_paused"]
                       ELSE item[i]]
             jb   == [k \in DOMAIN jobs \cup keys |->
                       IF k \in keys THEN ReconcileJob(k, r, mode, "none") ELSE jobs[k]]
             rn   == [runs EXCEPT ![r].reserved = @ + Cardinality(funded),
                                  ![r].status = IF @ = "none" THEN "active" ELSE @]
             new  == runs[r].status = "none" /\ funded # {}
         IN
         /\ item' = it
         /\ jobs' = Dispatched(jb, keys)
         /\ runs' = Finalized(it, jb, IF runs[r].status = "none" /\ ~new THEN runs ELSE rn)
         /\ latest' = IF new THEN r ELSE latest
  BY DEF QueueIdle
<1>2. UNCHANGED <<lock, ws, lease, ag, asleep, disowned, sweep>>
  BY DEF QueueIdle
<1>3. all \subseteq Items /\ \A i \in all : OpenJobsOf(i) = {}
  BY DEF Enqueueable
<1> HIDE DEF all
<1> DEFINE keys == {ReconcileKey(i) : i \in funded}
           jb   == [k \in DOMAIN jobs \cup keys |->
                       IF k \in keys THEN ReconcileJob(k, r, mode, "none") ELSE jobs[k]]
           rn   == [runs EXCEPT ![r].reserved = @ + Cardinality(funded),
                                ![r].status = IF @ = "none" THEN "active" ELSE @]
           rq   == IF runs[r].status = "none" /\ funded = {} THEN runs ELSE rn
<1>4. /\ jobs' = Dispatched(jb, keys) /\ runs' = Finalized(item', jb, rq)
      /\ latest' \in RunIds
  BY <1>1, TypesNow
<1>5. \A k \in keys : k \in Keys /\ k[2] = "reconcile" /\ ItemOf(k) \in funded
  BY <1>3, KeysAre DEF ReconcileKey, JobKind, ResearchKinds
<1>6. /\ DOMAIN jb = DOMAIN jobs \cup keys
      /\ \A k \in keys : jb[k] \in Job /\ jb[k].run = r
      /\ \A k \in DOMAIN jobs \ keys : jb[k] = jobs[k]
  <2>1. \A k \in keys : jb[k] = ReconcileJob(k, r, mode, "none")
    OBVIOUS
  <2>2. \A k \in DOMAIN jobs \ keys : jb[k] = jobs[k]
    OBVIOUS
  <2>3. DOMAIN jb = DOMAIN jobs \cup keys
    OBVIOUS
  <2> HIDE DEF jb, keys
  <2> QED
    BY <1>5, <2>1, <2>2, <2>3, ReconcileJobFacts
<1>7. Cardinality(funded) \in Nat
  BY <1>3, KeysCount
<1>8. /\ rn \in [RunIds -> Run]
      /\ rn[r].reserved = runs[r].reserved + Cardinality(funded)
      /\ \A s \in RunIds \ {r} : rn[s].reserved = runs[s].reserved
  <2>1. PICK n : n = runs[r].reserved + Cardinality(funded)
    OBVIOUS
  <2>2. PICK st : st = IF runs[r].status = "none" THEN "active" ELSE runs[r].status
    OBVIOUS
  <2>3. PICK x : x = [runs[r] EXCEPT !.reserved = n, !.status = st]
    OBVIOUS
  <2>4. runs[r] \in Run /\ n \in Nat /\ st \in {"none", "active", "closed"}
    BY <1>7, <2>1, <2>2, TypesNow DEF Run
  <2>5. x \in Run /\ x.reserved = n
    BY <2>3, <2>4 DEF Run
  <2>6. rn = [runs EXCEPT ![r] = x]
    BY <2>1, <2>2, <2>3, <2>4, TypesNow DEF Run
  <2> HIDE DEF rn
  <2> QED
    BY <2>1, <2>5, <2>6, TypesNow
<1>9. Books(jb, rq)
  <2>1. CASE runs[r].status = "none" /\ funded = {}
    <3>1. keys = {}
      BY <2>1
    <3>2. Lighter(jobs, jb)
      BY <1>6, <3>1, TypesNow DEF Lighter
    <3> QED
      BY <2>1, <3>2, TypesNow, LighterBooks
  <2>2. CASE ~(runs[r].status = "none" /\ funded = {})
    <3> HIDE DEF jb, rn
    <3>1. funded \subseteq Items
      BY <1>3
    <3>2. Books(jb, rn)
      BY <1>6, <1>8, <3>1, RevivedBooks
    <3> QED
      BY <2>2, <3>2
  <2> QED
    BY <2>1, <2>2
<1> HIDE DEF jb, rn, rq, keys
<1>10. /\ Lighter(jb, jobs')
       /\ \A y \in DOMAIN jb : jb[y].row # "none" => jobs'[y] = jb[y]
  BY <1>4, <1>9, DispatchedLighter DEF Books
<1>11. Books(jobs', runs')
  BY <1>4, <1>9, <1>10, FinalizedBooks, LighterBooks
<1>12. JobsFollow
  <2>1. DOMAIN jobs' = DOMAIN jobs \cup keys
    BY <1>6, <1>10 DEF Lighter
  <2>2. ASSUME NEW x \in DOMAIN jobs' PROVE Inherits(x) \/ Fresh(x)
    <3>1. CASE x \in keys
      BY <1>5, <3>1 DEF Fresh
    <3>2. CASE x \notin keys
      BY <1>6, <1>10, <2>1, <3>2 DEF Inherits, Lighter
    <3> QED
      BY <3>1, <3>2
  <2> QED
    BY <2>1, <2>2 DEF JobsFollow
<1>13. ASSUME NEW j \in Items
       PROVE  /\ item'[j] \in Item /\ item'[j].dr = item[j].dr
              /\ item'[j].packet = item[j].packet /\ item'[j].tries = item[j].tries
              /\ j \notin all => item'[j] = item[j]
  <2>1. \/ item'[j] = item[j]
        \/ j \in all /\ item'[j] = [item[j] EXCEPT !.state = "queued_research"]
        \/ j \in all /\ item'[j] = [item[j] EXCEPT !.state = "budget_paused"]
    BY <1>1
  <2>2. item[j] \in Item
    BY DEF DraftingInvariant, DraftingTypeOK, StoreTypeOK
  <2> QED
    BY <2>1, <2>2, StateNames DEF Item
<1>14. item' \in [Items -> Item]
  <2>1. DOMAIN item' = Items
    BY <1>1
  <2>2. item' = [i \in Items |-> item'[i]]
    BY <1>1
  <2> QED
    BY <1>13, <2>1, <2>2
<1>15. ASSUME NEW j \in Items PROVE item'[j].dr >= item[j].dr /\ Settles(j)
  <2>1. item[j].dr \in Nat
    BY DEF DraftingInvariant, DraftingTypeOK, StoreTypeOK, Item
  <2>2. Settles(j)
    BY <1>3, <1>13 DEF Settles
  <2> QED
    BY <1>13, <2>1, <2>2
<1>16. Follows
  BY <1>2, <1>12, <1>15 DEF Follows, ItemsGrow
<1>17. /\ ag' \in [Agents -> Activity] /\ asleep' \in SUBSET Agents /\ SweepTypeOK'
       /\ lock' \in [Items -> Holder \cup {Null}] /\ disowned' \in SUBSET Items
       /\ ws' \in {"active", "paused"} /\ lease' \in [Companies -> Lease]
  BY <1>2, TypesNow DEF DraftingInvariant, DraftingTypeOK, WorkerTypeOK, StoreTypeOK, SweepTypeOK
<1>18. LeasesHeld'
  BY <1>2, LeasesSame DEF Busy
<1>19. \A b \in Agents :
         (ag'[b] = ag[b] /\ Busy(b) /\ OfItem(b) \notin disowned') =>
             /\ b \notin asleep'
             /\ jobs'[ag[b].job].row = b /\ jobs'[ag[b].job].status = "in_flight"
             /\ IsResearch(ag[b].job) => lock'[OfItem(b)] = b
             /\ Gentle(OfItem(b)) \/ ~Engaged(b)
  <2> SUFFICES ASSUME NEW b \in Agents, Busy(b), OfItem(b) \notin disowned
               PROVE  /\ b \notin asleep
                      /\ jobs'[ag[b].job].row = b /\ jobs'[ag[b].job].status = "in_flight"
                      /\ IsResearch(ag[b].job) => lock[OfItem(b)] = b
                      /\ Gentle(OfItem(b))
    BY <1>2
  <2>1. /\ b \notin asleep /\ OfItem(b) \in Items /\ b \notin {"none", "queued"}
        /\ ag[b].job \in DOMAIN jobs
        /\ jobs[ag[b].job].row = b /\ jobs[ag[b].job].status = "in_flight"
        /\ IsResearch(ag[b].job) => lock[OfItem(b)] = b
        /\ OpenJobsOf(OfItem(b)) # {}
    BY BystanderFacts
  <2>2. OfItem(b) \notin all
    BY <1>3, <2>1
  <2>3. ag[b].job \notin keys
    BY <1>5, <2>2 DEF OfItem
  <2>4. jobs'[ag[b].job] = jobs[ag[b].job]
    BY <1>6, <1>10, <2>1, <2>3
  <2>5. Gentle(OfItem(b))
    BY <1>13, <2>1, <2>2 DEF Gentle
  <2> QED
    BY <2>1, <2>4, <2>5
<1>20. \A j \in Items : item'[j].packet = item[j].packet /\ item'[j].tries = item[j].tries
  BY <1>13
<1>21. \A b \in Agents : ag'[b] = ag[b] \/ ag'[b] = Idle
  BY <1>2
<1> QED
  BY <1>4, <1>11, <1>14, <1>16, <1>17, <1>18, <1>19, <1>20, <1>21, OthersKeep

LEMMA RetriesKeep ==
    ASSUME DraftingInvariant, SweepIdle \/ UserRetry
    PROVE  DraftingInvariant'
<1>1. CASE SweepIdle
  <2>1. QueueIdle("auto", FALSE, Items, "hour") /\ faults' \in 0..MaxFaults /\ "hour" \in RunIds
    BY <1>1, FaultsStay DEF SweepIdle, RunIds
  <2> QED
    BY <2>1, QueueIdleKeeps
<1>2. CASE UserRetry
  <2>1. faults' \in 0..MaxFaults /\ "rescue" \in RunIds
    BY <1>2, FaultsStay DEF UserRetry, Fault, RunIds
  <2>2. CASE QueueIdle("human", FALSE, Items, "rescue")
    BY <2>1, <2>2, QueueIdleKeeps
  <2>3. ASSUME NEW i \in Items, QueueIdle("human", TRUE, {i}, "rescue")
        PROVE  DraftingInvariant'
    <3>1. {i} \subseteq Items
      OBVIOUS
    <3> QED
      BY <2>1, <2>3, <3>1, QueueIdleKeeps
  <2> QED
    BY <1>2, <2>2, <2>3 DEF UserRetry
<1> QED
  BY <1>1, <1>2

-----------------------------------------------------------------------------
\* The initial states.

LEMMA ItemAtFacts ==
    ASSUME NEW stage \in Stages
    PROVE  /\ ItemAt(stage) \in Item
           /\ stage = "repair" => ItemAt(stage).state = "repairing" /\ ItemAt(stage).dr = 1
<1>1. PICK x : x = NewItem
  OBVIOUS
<1>2. x \in Item
  BY <1>1 DEF NewItem, Item, ItemState, RUNNING_STATES, ErrorCode
<1>3. CASE stage = "new"
  BY <1>1, <1>2, <1>3 DEF ItemAt
<1>4. CASE stage = "repair"
  <2>1. PICK y : y = [x EXCEPT !.state = "repairing", !.rr = 1, !.dr = 1,
                               !.packet = "usable", !.from = 1]
    OBVIOUS
  <2>2. y \in Item /\ y.state = "repairing" /\ y.dr = 1
    BY <1>2, <2>1, StateNames DEF Item
  <2>3. ItemAt(stage) = y
    BY <1>1, <1>4, <2>1 DEF ItemAt
  <2> QED
    BY <2>2, <2>3
<1>5. CASE stage = "empty"
  <2>1. PICK y : y = [x EXCEPT !.state = "failed_research", !.rr = 2, !.packet = "empty",
                               !.tries = 2, !.err = "empty_research_brief"]
    OBVIOUS
  <2>2. y \in Item
    BY <1>2, <2>1, StateNames DEF Item
  <2>3. ItemAt(stage) = y
    BY <1>1, <1>5, <2>1 DEF ItemAt
  <2> QED
    BY <1>5, <2>2, <2>3
<1> QED
  BY <1>3, <1>4, <1>5 DEF Stages

LEMMA KeyAtFacts ==
    ASSUME NEW i \in Items, NEW stage \in Stages
    PROVE  /\ KeyAt(i, stage) \in Keys /\ ItemOf(KeyAt(i, stage)) = i
           /\ KeyAt(i, stage)[2] # "write"
           /\ KeyAt(i, stage)[2] = "repair" => stage = "repair" /\ KeyAt(i, stage)[3] = 1
<1>1. {"start", "repair", "reconcile"} \subseteq JobKind
  BY DEF JobKind, ResearchKinds
<1>2. CASE stage = "new"
  BY <1>1, <1>2, KeysAre DEF KeyAt
<1>3. CASE stage = "repair"
  BY <1>1, <1>3, KeysAre DEF KeyAt
<1>4. CASE stage = "empty"
  BY <1>1, <1>4, KeysAre DEF KeyAt
<1> QED
  BY <1>2, <1>3, <1>4 DEF Stages

LEMMA JobAtFacts ==
    ASSUME NEW stage \in Stages, NEW row \in {"none", "queued"}
    PROVE  LET x == JobAt(stage, row) IN
           /\ x \in Job
           /\ x.status \in OpenStatus /\ x.res = 1 => stage = "repair" /\ x.run = "start"
           /\ stage = "repair" => x.dr = 1
<1>1. {"start", "past"} \subseteq RunIds
  BY DEF RunIds
<1>2. CASE stage = "new"
  <2>1. PICK x : x = NewJob("start", Null, Null, TRUE, row)
    OBVIOUS
  <2>2. x \in Job
    BY <1>1, <2>1, NewJobFacts
  <2>3. JobAt(stage, row) = [x EXCEPT !.res = 0]
    BY <1>2, <2>1 DEF JobAt
  <2> QED
    BY <1>2, <2>2, <2>3 DEF Job
<1>3. CASE stage = "repair"
  <2>1. PICK x : x = NewJob("start", 1, 1, TRUE, row)
    OBVIOUS
  <2>2. x \in Job
    BY <1>1, <2>1, NewJobFacts
  <2>3. x.run = "start" /\ x.dr = 1
    BY <2>1 DEF NewJob
  <2>4. JobAt(stage, row) = x
    BY <1>3, <2>1 DEF JobAt
  <2> QED
    BY <1>3, <2>2, <2>3, <2>4
<1>4. CASE stage = "empty"
  <2>1. PICK x : x = NewJob("past", Null, Null, FALSE, "none")
    OBVIOUS
  <2>2. x \in Job
    BY <1>1, <2>1, NewJobFacts
  <2>3. JobAt(stage, row) = Closed(x)
    BY <1>4, <2>1 DEF JobAt
  <2> QED
    BY <1>4, <2>2, <2>3, ClosedFields DEF OpenStatus
<1> QED
  BY <1>2, <1>3, <1>4 DEF Stages

LEMMA InitialState == Init => DraftingInvariant
<1> SUFFICES ASSUME Init PROVE DraftingInvariant
  OBVIOUS
<1>1. PICK stage \in [Items -> Stages], row \in {"none", "queued"} :
        /\ item = [i \in Items |-> ItemAt(stage[i])]
        /\ jobs = [k \in {[j \in Items |-> KeyAt(j, stage[j])][i] : i \in Items} |->
                      JobAt(stage[ItemOf(k)], row)]
        /\ runs = [r \in RunIds |->
             CASE r = "start" -> [status |-> "active",
                                  reserved |-> Cardinality({i \in Items : stage[i] = "repair"})]
               [] r = "past"  -> [NoRun EXCEPT !.status = "closed"]
               [] OTHER       -> NoRun]
  BY DEF Init
<1>2. /\ lock = [i \in Items |-> Null] /\ latest = "start" /\ ws = "active"
      /\ lease = [c \in Companies |-> [status |-> "none", owner |-> Null]]
      /\ ag = [a \in Agents |-> Idle] /\ asleep = {} /\ faults = 0 /\ disowned = {}
      /\ sweep = NoSweep
  BY DEF Init
<1>3. \A a \in Agents : ag[a] = Idle /\ ~Busy(a) /\ ag[a] \in Activity /\ PlacedAt(ag[a])
                        /\ ~Looks(a)
  <2>1. \A a \in Agents : ag[a] = Idle
    BY <1>2
  <2>2. Idle.at = "idle" /\ Idle \in Activity /\ PlacedAt(Idle)
    BY IdleIsPlaced
  <2> QED
    BY <2>1, <2>2 DEF Busy, Looks
<1>4. \A i \in Items : /\ item[i] \in Item
                       /\ stage[i] = "repair" => item[i].state = "repairing" /\ item[i].dr = 1
  BY <1>1, ItemAtFacts
<1> DEFINE keys == {KeyAt(i, stage[i]) : i \in Items}
           reps == {i \in Items : stage[i] = "repair"}
<1>5. DOMAIN jobs = keys
  BY <1>1
<1>6. \A k \in keys : /\ k \in Keys /\ ItemOf(k) \in Items /\ k = KeyAt(ItemOf(k), stage[ItemOf(k)])
                      /\ k[2] # "write"
                      /\ k[2] = "repair" => stage[ItemOf(k)] = "repair" /\ k[3] = 1
  BY KeyAtFacts
<1>7. ASSUME NEW k \in keys
      PROVE  /\ jobs[k] \in Job
             /\ jobs[k].status \in OpenStatus /\ jobs[k].res = 1
                   => stage[ItemOf(k)] = "repair" /\ jobs[k].run = "start"
             /\ stage[ItemOf(k)] = "repair" => jobs[k].dr = 1
  <2>1. jobs[k] = JobAt(stage[ItemOf(k)], row)
    BY <1>1
  <2>2. stage[ItemOf(k)] \in Stages
    BY <1>6
  <2> HIDE DEF keys
  <2> QED
    BY <2>1, <2>2, JobAtFacts
<1>8. IsFiniteSet(keys)
  <2> DEFINE f == [i \in Items |-> KeyAt(i, stage[i])]
  <2>1. f \in Surjection(Items, keys)
    BY DEF Surjection
  <2> QED
    BY <2>1, DraftingAssumption, FS_Surjection
<1>9. IsFiniteSet(reps) /\ Cardinality(reps) \in Nat
  BY DraftingAssumption, FS_Subset, FS_CardinalityType
<1>10. /\ runs \in [RunIds -> Run]
       /\ runs["start"].reserved = Cardinality(reps)
  <2>1. PICK n : n = Cardinality(reps)
    OBVIOUS
  <2>2. /\ NoRun \in Run /\ [NoRun EXCEPT !.status = "closed"] \in Run
        /\ [status |-> "active", reserved |-> n] \in Run
    BY <1>9, <2>1 DEF NoRun, Run
  <2>3. /\ runs["start"] = [status |-> "active", reserved |-> n]
        /\ \A r \in RunIds : runs[r] \in {[status |-> "active", reserved |-> n], NoRun,
                                          [NoRun EXCEPT !.status = "closed"]}
        /\ DOMAIN runs = RunIds
    BY <1>1, <2>1 DEF RunIds
  <2> QED
    BY <1>1, <2>1, <2>2, <2>3
<1>11. JobsOK(jobs)
  BY <1>5, <1>6, <1>7, <1>8 DEF JobsOK
<1>12. ASSUME NEW r \in RunIds PROVE Cardinality(Charged(jobs, r)) <= runs[r].reserved
  <2>1. runs[r].reserved \in Nat
    BY <1>10 DEF Run
  <2>2. CASE r # "start"
    <3>1. Charged(jobs, r) = {}
      BY <1>5, <1>7, <2>2 DEF Charged
    <3> QED
      BY <2>1, <3>1, FS_EmptySet
  <2>3. CASE r = "start"
    <3> DEFINE g == [i \in reps |-> KeyAt(i, stage[i])]
               reached == {g[i] : i \in reps}
    <3>1. g \in Surjection(reps, reached)
      BY DEF Surjection
    <3>2. IsFiniteSet(reached) /\ Cardinality(reached) <= Cardinality(reps)
      BY <1>9, <3>1, FS_Surjection
    <3>3. Charged(jobs, r) \subseteq reached
      <4> SUFFICES ASSUME NEW k \in Charged(jobs, r) PROVE k \in reached
        OBVIOUS
      <4>1. k \in keys /\ jobs[k].status \in OpenStatus /\ jobs[k].res = 1
        BY <1>5 DEF Charged
      <4>2. ItemOf(k) \in reps /\ k = KeyAt(ItemOf(k), stage[ItemOf(k)])
        BY <1>6, <1>7, <4>1
      <4> QED
        BY <4>2
    <3>4. Cardinality(Charged(jobs, r)) <= Cardinality(reached)
      BY <3>2, <3>3, FS_Subset
    <3>5. Cardinality(reached) \in Nat /\ Cardinality(Charged(jobs, r)) \in Nat
      BY <1>11, <3>2, FS_CardinalityType, ChargedCounts
    <3> HIDE DEF reps, reached
    <3> QED
      BY <1>9, <1>10, <2>3, <3>2, <3>4, <3>5
  <2> QED
    BY <2>2, <2>3
<1>13. DraftingTypeOK
  <2>1. item \in [Items -> Item]
    BY <1>1, <1>4
  <2>2. StoreTypeOK
    <3>1. \A k \in DOMAIN jobs : jobs[k] \in Job
      BY <1>5, <1>7
    <3>2. DOMAIN jobs \subseteq Keys
      BY <1>5, <1>6
    <3> QED
      BY <1>2, <1>10, <2>1, <3>1, <3>2 DEF StoreTypeOK, RunIds, Lease
  <2>3. WorkerTypeOK
    BY <1>2, <1>3, DraftingAssumption DEF WorkerTypeOK
  <2>4. SweepTypeOK
    BY <1>2, StateNames DEF SweepTypeOK, NoSweep
  <2> QED
    BY <2>2, <2>3, <2>4 DEF DraftingTypeOK
<1>14. KeysSay /\ DraftsPast /\ RepairsStand
  <2>1. \A k \in DOMAIN jobs : /\ k[2] # "write"
                               /\ k[2] = "repair" => /\ k[3] = 1 /\ jobs[k].dr = 1
                                                     /\ item[ItemOf(k)].dr = 1
                                                     /\ item[ItemOf(k)].state = "repairing"
    BY <1>4, <1>5, <1>6, <1>7
  <2> QED
    BY <1>3, <2>1 DEF KeysSay, DraftsPast, RepairsStand, OpenJobs, RepairStates
<1>15. /\ InHand /\ Placed /\ Custody /\ LeasesHeld /\ LooksAround
  BY <1>3 DEF InHand, Placed, Custody, LeasesHeld, LooksAround
<1> QED
  BY <1>10, <1>11, <1>12, <1>13, <1>14, <1>15 DEF DraftingInvariant, Books

-----------------------------------------------------------------------------
\* The specification.

LEMMA StutterKeeps ==
    ASSUME DraftingInvariant, UNCHANGED vars
    PROVE  DraftingInvariant'
<1>1. UNCHANGED <<item, lock, jobs, runs, latest, ws, lease, ag, asleep, faults, disowned, sweep>>
  BY DEF vars, tables, worker
<1>2. SweepTypeOK'
  BY <1>1, TypesNow DEF SweepTypeOK
<1> QED
  BY <1>1, <1>2, TypesNow, RestKeeps

LEMMA SweepsKeep ==
    ASSUME DraftingInvariant, Stranded \/ Orphaned
    PROVE  DraftingInvariant'
BY SweepReadKeeps, ResetStrandedKeeps, SweepWakeKeeps DEF Stranded, Orphaned

LEMMA InvariantKept ==
    DraftingInvariant /\ [Next]_vars => DraftingInvariant'
<1> SUFFICES ASSUME DraftingInvariant, [Next]_vars PROVE DraftingInvariant'
  OBVIOUS
<1>1. CASE UNCHANGED vars
  BY <1>1, StutterKeeps
<1>2. CASE Handling
  BY <1>2, WorkKeeps
<1>3. CASE Transport
  BY <1>3, TransportKeeps
<1>4. CASE Stranded \/ Orphaned
  BY <1>4, SweepsKeep
<1>5. CASE SweepIdle \/ UserRetry
  BY <1>5, RetriesKeep
<1>6. CASE Upkeep
  BY <1>6, UpkeepKeeps
<1>7. CASE Time
  BY <1>7, TimeKeeps
<1>8. CASE Faults
  BY <1>8, FaultsKeep
<1>9. CASE Resume
  BY <1>9, ResumeKeeps
<1> QED
  BY <1>1, <1>2, <1>3, <1>4, <1>5, <1>6, <1>7, <1>8, <1>9 DEF Next

\* The pipeline is never anywhere else, whatever order handlers, sweeps, users
\* and faults come in.
THEOREM DraftingInvariantHolds == DraftingSpec => []DraftingInvariant
<1>1. Init => DraftingInvariant
  BY InitialState
<1>2. DraftingInvariant /\ [Next]_vars => DraftingInvariant'
  BY InvariantKept
<1> QED
  BY <1>1, <1>2, PTL DEF DraftingSpec

\* Rows, jobs, runs, leases and what a handler has in hand keep their types.
THEOREM DraftingTypesCorrect == DraftingSpec => []DraftingTypeOK
<1>1. DraftingInvariant => DraftingTypeOK
  BY DEF DraftingInvariant
<1> QED
  BY <1>1, DraftingInvariantHolds, PTL

\* An item has one execution at a time: the job's row, the item's lock and the
\* item's state between them let no second handler past its claim, unless an
\* execution lost what it had claimed while it ran.
THEOREM OneExecution == DraftingSpec => []OneExecutionPerItem
BY InvariantImplies, DraftingInvariantHolds, PTL

\* coordinateCompanyResearch keeps its promise: of the items of a company one
\* is researched at a time, for all of them.
THEOREM OneResearchPerCompany == DraftingSpec => []SingleFlight
BY InvariantImplies, DraftingInvariantHolds, PTL

\* A company that was never researched is paid for once: whoever has its lease
\* at the provider has looked for a packet since the last one was saved.
THEOREM ResearchPaidOnce == DraftingSpec => []PacketIsReused
BY InvariantImplies, DraftingInvariantHolds, PTL

\* What the open jobs of a run may spend is reserved on it: claims that are
\* refused, deferrals, revivals, late finishes and recomputations never let
\* the reservation fall below it.
THEOREM ReservationsHold == DraftingSpec => []ReservationsCoverOpenJobs
BY InvariantImplies, DraftingInvariantHolds, PTL

-----------------------------------------------------------------------------
\* A draft rests on the research its item has.

DraftStates == {"queued_write", "writing", "repairing", "ready_for_review"}

\* Only a usable packet brings an item as far as a draft
PacketsBehind ==
    \A i \in Items \ disowned : item[i].state \in DraftStates => item[i].packet = "usable"

\* and whoever writes has read the revision that its draft will be reviewed with.
Based ==
    /\ PacketsBehind
    /\ \A i \in Items \ disowned :
          item[i].state = "ready_for_review" => item[i].from = item[i].rr
    /\ \A a \in Agents :
          ag[a].at = "write" /\ OfItem(a) \notin disowned => ag[a].rr = item[OfItem(a)].rr

LEMMA BasedImplies ==
    ASSUME DraftingInvariant, Based
    PROVE  DraftsRestOnTheirResearch
<1> SUFFICES ASSUME NEW i \in Items, i \notin disowned
             PROVE  /\ item[i].state = "ready_for_review" =>
                          item[i].packet = "usable" /\ item[i].from = item[i].rr
                    /\ \A a \in Agents : ag[a].at = "write" /\ ItemOf(ag[a].job) = i =>
                          item[i].packet = "usable" /\ ag[a].rr = item[i].rr
  BY DEF DraftsRestOnTheirResearch
<1>1. item[i].state = "ready_for_review" =>
          item[i].packet = "usable" /\ item[i].from = item[i].rr
  BY DEF Based, PacketsBehind, DraftStates
<1>2. ASSUME NEW a \in Agents, ag[a].at = "write", ItemOf(ag[a].job) = i
      PROVE  item[i].packet = "usable" /\ ag[a].rr = item[i].rr
  <2>1. Busy(a) /\ OfItem(a) = i
    BY <1>2 DEF Busy, OfItem
  <2>2. InPlace(a)
    BY <2>1 DEF DraftingInvariant, Custody
  <2>3. item[i].state \in DraftStates
    BY <1>2, <2>1, <2>2 DEF InPlace, DraftStates
  <2> QED
    BY <1>2, <2>1, <2>3 DEF Based, PacketsBehind
<1> QED
  BY <1>1, <1>2

\* What a step does to the research and the draft of an item: it leaves both and
\* does not bring the item to review,
Leaves(i) ==
    /\ item'[i].rr = item[i].rr /\ item'[i].packet = item[i].packet
    /\ item'[i].from = item[i].from
    /\ \/ item'[i].state \notin DraftStates
       \/ /\ item[i].state \in DraftStates
          /\ item'[i].state = item[i].state \/ item'[i].state # "ready_for_review"
\* or saves a research of a handler at the provider,
Saves(a, i) ==
    /\ ag[a].at = "provider" /\ OfItem(a) = i
    /\ item'[i].state \in DraftStates =>
          item'[i].packet = "usable" /\ item'[i].state # "ready_for_review"
\* or a draft of a handler that writes.
Drafts(a, i) ==
    /\ ag[a].at = "write" /\ OfItem(a) = i
    /\ i \notin disowned => item[i].state \in DraftStates
    /\ item'[i].rr = item[i].rr /\ item'[i].packet = item[i].packet
    /\ item'[i].from = ag[a].rr
ItemsFollow == \A i \in Items : Leaves(i) \/ \E a \in Agents : Saves(a, i) \/ Drafts(a, i)

\* Whoever writes goes on, or begins with what the item has.
WritersFollow ==
    \A b \in Agents : ag'[b].at = "write" =>
        \/ ag[b].at = "write" /\ ag'[b].job = ag[b].job /\ ag'[b].rr = ag[b].rr
        \/ item'[OfItem(b)'].rr = ag'[b].rr

LEMMA BasedKept ==
    ASSUME DraftingInvariant, Based, disowned \subseteq disowned', ItemsFollow, WritersFollow
    PROVE  Based'
<1>1. PacketsBehind'
  BY DEF Based, PacketsBehind, ItemsFollow, Leaves, Saves, Drafts
<1>2. ASSUME NEW i \in Items, i \notin disowned', item'[i].state = "ready_for_review"
      PROVE  item'[i].from = item'[i].rr
  <2>1. i \notin disowned
    BY <1>2
  <2>2. CASE Leaves(i)
    BY <1>2, <2>1, <2>2 DEF Based, Leaves, DraftStates
  <2>3. ASSUME NEW a \in Agents, Saves(a, i) \/ Drafts(a, i) PROVE item'[i].from = item'[i].rr
    BY <1>2, <2>1, <2>3 DEF Based, Saves, Drafts, DraftStates
  <2> QED
    BY <2>2, <2>3 DEF ItemsFollow
<1>3. ASSUME NEW b \in Agents, ag'[b].at = "write", OfItem(b)' \notin disowned'
      PROVE  ag'[b].rr = item'[OfItem(b)'].rr
  <2>1. CASE item'[OfItem(b)'].rr = ag'[b].rr
    BY <2>1
  <2>2. CASE ag[b].at = "write" /\ ag'[b].job = ag[b].job /\ ag'[b].rr = ag[b].rr
    <3>1. PICK i : i = OfItem(b)
      OBVIOUS
    <3>2. Busy(b) /\ Engaged(b) /\ OfItem(b)' = i
      BY <2>2, <3>1 DEF Busy, Engaged, OfItem
    <3>3. i \in Items /\ i \notin disowned
      BY <1>3, <3>1, <3>2, HandlerFacts
    <3>4. ag[b].rr = item[i].rr
      BY <2>2, <3>1, <3>3 DEF Based
    <3>5. ASSUME NEW a \in Agents PROVE ~Saves(a, i)
      <4> SUFFICES ASSUME Saves(a, i) PROVE FALSE
        OBVIOUS
      <4>1. Engaged(a) /\ OfItem(a) = i
        BY DEF Saves, Engaged, Researching
      <4>2. a = b
        BY <3>1, <3>2, <3>3, <4>1, EngagedApart
      <4> QED
        BY <2>2, <4>2 DEF Saves
    <3>6. item'[i].rr = item[i].rr
      BY <3>3, <3>5 DEF ItemsFollow, Leaves, Drafts
    <3> QED
      BY <2>2, <3>2, <3>4, <3>6
  <2> QED
    BY <1>3, <2>1, <2>2 DEF WritersFollow
<1> QED
  BY <1>1, <1>2, <1>3 DEF Based

\* Most steps touch no item, and begin no draft.
LEMMA ItemsLeft ==
    ASSUME item' = item
    PROVE  ItemsFollow
BY DEF ItemsFollow, Leaves

LEMMA OneLeft ==
    ASSUME DraftingInvariant, NEW i \in Items, NEW x, item' = [item EXCEPT ![i] = x],
           x.rr = item[i].rr, x.packet = item[i].packet, x.from = item[i].from,
           \/ x.state \notin DraftStates
           \/ item[i].state \in DraftStates /\ x.state # "ready_for_review"
    PROVE  ItemsFollow
BY DEF ItemsFollow, Leaves, DraftingInvariant, DraftingTypeOK, StoreTypeOK

LEMMA WritersSame ==
    ASSUME ag' = ag
    PROVE  WritersFollow
BY DEF WritersFollow

LEMMA OneStops ==
    ASSUME DraftingInvariant, NEW a \in Agents, NEW y, ag' = [ag EXCEPT ![a] = y],
           y.at # "write"
    PROVE  WritersFollow
BY DEF WritersFollow, DraftingInvariant, DraftingTypeOK, WorkerTypeOK

LEMMA EndStops ==
    ASSUME DraftingInvariant, NEW a \in Agents, NEW at \in {"finish", "fail"}, NEW next,
           Ends(a, at, next)
    PROVE  WritersFollow
<1>1. PICK y : y = [Idle EXCEPT !.at = at, !.job = ag[a].job, !.next = next]
  OBVIOUS
<1>2. y.at # "write"
  BY <1>1 DEF Idle
<1>3. ag' = [ag EXCEPT ![a] = y]
  BY <1>1 DEF Ends
<1> QED
  BY <1>2, <1>3, OneStops

LEMMA IdleStops ==
    ASSUME DraftingInvariant, NEW a \in Agents, ag' = [ag EXCEPT ![a] = Idle]
    PROVE  WritersFollow
<1>1. Idle.at # "write"
  BY DEF Idle
<1> QED
  BY <1>1, OneStops

Basing == disowned \subseteq disowned' /\ ItemsFollow /\ WritersFollow

LEMMA ConflictBases ==
    ASSUME DraftingInvariant, NEW a \in Agents, item' = item, disowned \subseteq disowned',
           NEW at \in {"finish", "fail"}, NEW next, Ends(a, at, next)
    PROVE  Basing
BY ItemsLeft, EndStops DEF Basing

LEMMA CompletedBases ==
    ASSUME DraftingInvariant, NEW a \in Agents, item' = item, disowned' = disowned,
           NEW k, NEW jb, NEW next, Completed(a, k, jb, next)
    PROVE  Basing
BY ItemsLeft, IdleStops DEF Basing, Completed

LEMMA ClaimBases ==
    ASSUME DraftingInvariant, NEW a \in Agents, NEW k, Claim(a, k)
    PROVE  Basing
<1>1. CASE ClaimMiss(a, k) \/ ClaimRefused(a, k) \/ ClaimBarred(a, k)
  <2>1. item' = item /\ disowned' = disowned
    BY <1>1 DEF ClaimMiss, ClaimRefused, ClaimBarred, OthersUnchanged
  <2>2. \E jb, next : Completed(a, k, jb, next)
    BY <1>1 DEF ClaimMiss, ClaimRefused, ClaimBarred
  <2> QED
    BY <2>1, <2>2, CompletedBases
<1>2. CASE ClaimTaken(a, k)
  <2>1. PICK y : y = [Idle EXCEPT !.at = "begin", !.job = k]
    OBVIOUS
  <2>2. y.at # "write"
    BY <2>1 DEF Idle
  <2>3. ag' = [ag EXCEPT ![a] = y] /\ item' = item /\ disowned' = disowned
    BY <1>2, <2>1 DEF ClaimTaken, OthersUnchanged
  <2> QED
    BY <2>2, <2>3, OneStops, ItemsLeft DEF Basing
<1> QED
  BY <1>1, <1>2 DEF Claim

LEMMA QuietBases ==
    ASSUME DraftingInvariant, NEW a \in Agents,
           \/ BeginSkipped(a) \/ Finish(a) \/ Pressure(a) \/ ClaimLease(a)
           \/ ResearchError(a) \/ Yield(a)
    PROVE  Basing
<1>1. CASE BeginSkipped(a) \/ Finish(a) \/ Pressure(a)
  <2>1. item' = item /\ disowned' = disowned
    BY <1>1 DEF BeginSkipped, Finish, Pressure, OthersUnchanged
  <2>2. \E k, jb, next : Completed(a, k, jb, next)
    BY <1>1 DEF BeginSkipped, Finish, Pressure
  <2> QED
    BY <2>1, <2>2, CompletedBases
<1>2. CASE ClaimLease(a) \/ ResearchError(a) \/ Yield(a)
  <2>1. item' = item /\ disowned' = disowned
    BY <1>2 DEF ClaimLease, ResearchError, Yield, OthersUnchanged, tables
  <2>2. ag \in [Agents -> Activity]
    BY DEF DraftingInvariant, DraftingTypeOK, WorkerTypeOK
  <2>3. /\ \A b \in Agents \ {a} : ag'[b] = ag[b]
        /\ ag'[a].at # "write"
    <3>1. ag[a] \in Activity
      BY <2>2
    <3>2. CASE ClaimLease(a)
      BY <2>2, <3>1, <3>2 DEF ClaimLease, Goto, Activity
    <3>3. CASE ResearchError(a)
      BY <2>2, <3>1, <3>3 DEF ResearchError, Activity
    <3>4. CASE Yield(a)
      BY <2>2, <3>1, <3>4 DEF Yield, Activity
    <3> QED
      BY <1>2, <3>2, <3>3, <3>4
  <2>4. WritersFollow
    BY <2>3 DEF WritersFollow
  <2> QED
    BY <2>1, <2>4, ItemsLeft DEF Basing
<1> QED
  BY <1>1, <1>2

LEMMA StateLeaves ==
    ASSUME DraftingInvariant, NEW i \in Items, NEW s, NEW e
    PROVE  /\ LET x == [item[i] EXCEPT !.state = s] IN
              /\ x.state = s /\ x.rr = item[i].rr /\ x.packet = item[i].packet
              /\ x.from = item[i].from
           /\ LET x == Moved(i, s, e) IN
              /\ x.state = s /\ x.rr = item[i].rr /\ x.packet = item[i].packet
              /\ x.from = item[i].from
<1>1. item[i] \in Item
  BY DEF DraftingInvariant, DraftingTypeOK, StoreTypeOK
<1> QED
  BY <1>1 DEF Item, Moved

LEMMA FailBases ==
    ASSUME DraftingInvariant, NEW a \in Agents, BeginBarred(a) \/ Fail(a) \/ Park(a) \/ WriteError(a)
    PROVE  Basing
<1>1. PICK i : i = ItemOf(ag[a].job)
  OBVIOUS
<1>2. i \in Items
  BY <1>1, HandlerFacts DEF BeginBarred, Fail, Park, WriteError, Step, Busy, OfItem
<1>3. disowned' = disowned
  BY DEF BeginBarred, Fail, Park, WriteError, OthersUnchanged, FaultOthers
<1>4. \E at \in {"finish", "fail"} : Ends(a, at, {})
  BY DEF BeginBarred, Fail, Park, WriteError, Conflict
<1>5. \/ item' = item
      \/ \E s \in {"failed_research", "waiting_company_research", "failed_write"}, e \in ErrorCode :
            \E x \in {[item[i] EXCEPT !.state = s], Moved(i, s, e)} : item' = [item EXCEPT ![i] = x]
  <2>1. CASE BeginBarred(a)
    <3>1. \/ item' = item
          \/ item' = [item EXCEPT ![i] = Moved(i, "failed_research", "empty_research_brief")]
      BY <1>1, <2>1 DEF BeginBarred, Moved
    <3> QED
      BY <3>1, StateNames
  <2>2. CASE Fail(a)
    <3>1. \/ item' = item
          \/ item' = [item EXCEPT ![i] = Moved(i, "failed_research", "research_provider_error")]
      BY <1>1, <2>2 DEF Fail, Moved
    <3> QED
      BY <3>1, StateNames
  <2>3. CASE Park(a)
    <3>1. \/ item' = item
          \/ item' = [item EXCEPT ![i] = [item[i] EXCEPT !.state = "waiting_company_research"]]
      BY <1>1, <2>3 DEF Park
    <3> QED
      BY <3>1, StateNames
  <2>4. CASE WriteError(a)
    <3>1. \/ item' = item
          \/ item' = [item EXCEPT ![i] = [item[i] EXCEPT !.state = "failed_write"]]
      BY <1>1, <2>4 DEF WriteError
    <3> QED
      BY <3>1, StateNames
  <2> QED
    BY <2>1, <2>2, <2>3, <2>4
<1>6. ItemsFollow
  <2>1. CASE item' = item
    BY <2>1, ItemsLeft
  <2>2. ASSUME NEW s \in {"failed_research", "waiting_company_research", "failed_write"},
               NEW e \in ErrorCode, NEW x \in {[item[i] EXCEPT !.state = s], Moved(i, s, e)},
               item' = [item EXCEPT ![i] = x]
        PROVE  ItemsFollow
    <3>1. /\ x.state = s /\ x.rr = item[i].rr /\ x.packet = item[i].packet
          /\ x.from = item[i].from
      <4>1. CASE x = [item[i] EXCEPT !.state = s]
        BY <1>2, <4>1, StateLeaves
      <4>2. CASE x = Moved(i, s, e)
        BY <1>2, <4>2, StateLeaves
      <4> QED
        BY <2>2, <4>1, <4>2
    <3>2. x.state \notin DraftStates
      BY <2>2, <3>1 DEF DraftStates
    <3> QED
      BY <1>2, <2>2, <3>1, <3>2, OneLeft
  <2> QED
    BY <1>5, <2>1, <2>2
<1> QED
  BY <1>3, <1>4, <1>6, EndStops DEF Basing

\* A draft is saved with the revision that was read for it.
LEMMA DraftBases ==
    ASSUME DraftingInvariant, NEW a \in Agents,
           DraftReady(a) \/ DraftToRepair(a) \/ DraftRejected(a)
    PROVE  Basing
<1>1. PICK i : i = OfItem(a)
  OBVIOUS
<1>2. Step(a, "write") /\ ItemOf(ag[a].job) = i /\ ag[a].at = "write"
  BY <1>1 DEF DraftReady, DraftToRepair, DraftRejected, OfItem, Step
<1>3. i \in Items /\ item[i] \in Item
  BY <1>1, <1>2, WritesAlone
<1>4. disowned' = disowned
  BY DEF DraftReady, DraftToRepair, DraftRejected, OthersUnchanged, FaultOthers
<1>5. \E next : Ends(a, "finish", next)
  BY DEF DraftReady, DraftToRepair, DraftRejected, Conflict
<1>6. \/ item' = item
      \/ \E to, e : /\ CanMove(i, to) /\ to \in {"ready_for_review", "repairing", "failed_write"}
                    /\ item' = [item EXCEPT ![i] = [item[i] EXCEPT !.dr = item[i].dr + 1,
                                   !.from = ag[a].rr, !.state = to, !.err = e]]
  <2>1. item[i] = [item[i] EXCEPT !.err = item[i].err]
    BY <1>3 DEF Item
  <2>2. item \in [Items -> Item]
    BY DEF DraftingInvariant, DraftingTypeOK, StoreTypeOK
  <2>3. ASSUME NEW to, item' = WithDraft(a, i, to)
        PROVE  item' = [item EXCEPT ![i] = [item[i] EXCEPT !.dr = item[i].dr + 1,
                                   !.from = ag[a].rr, !.state = to, !.err = item[i].err]]
    BY <1>3, <2>2, <2>3 DEF WithDraft, Drafted, Item
  <2>4. CASE DraftReady(a)
    <3>1. \/ item' = item
          \/ CanMove(i, "ready_for_review") /\ item' = WithDraft(a, i, "ready_for_review")
      BY <1>2, <2>4 DEF DraftReady
    <3> QED
      BY <2>3, <3>1
  <2>5. CASE DraftToRepair(a)
    <3>1. \/ item' = item
          \/ CanMove(i, "repairing") /\ item' = WithDraft(a, i, "repairing")
      BY <1>2, <2>5 DEF DraftToRepair
    <3> QED
      BY <2>3, <3>1
  <2>6. CASE DraftRejected(a)
    <3>1. CASE item' = [WithDraft(a, i, "failed_write") EXCEPT ![i].err = "hard_lint_after_repair"]
               /\ CanMove(i, "failed_write")
      <4>1. item' = [item EXCEPT ![i] = [item[i] EXCEPT !.dr = item[i].dr + 1,
                        !.from = ag[a].rr, !.state = "failed_write",
                        !.err = "hard_lint_after_repair"]]
        BY <1>3, <2>2, <3>1 DEF WithDraft, Drafted, Item
      <4> QED
        BY <3>1, <4>1
    <3> QED
      BY <1>2, <2>6, <3>1 DEF DraftRejected
  <2> QED
    BY <2>4, <2>5, <2>6
<1>7. ItemsFollow
  <2>1. CASE item' = item
    BY <2>1, ItemsLeft
  <2>2. ASSUME NEW to, NEW e, CanMove(i, to),
               to \in {"ready_for_review", "repairing", "failed_write"},
               item' = [item EXCEPT ![i] = [item[i] EXCEPT !.dr = item[i].dr + 1,
                                   !.from = ag[a].rr, !.state = to, !.err = e]]
        PROVE  ItemsFollow
    <3>1. PICK x : x = [item[i] EXCEPT !.dr = item[i].dr + 1, !.from = ag[a].rr,
                                       !.state = to, !.err = e]
      OBVIOUS
    <3>2. x.rr = item[i].rr /\ x.packet = item[i].packet /\ x.from = ag[a].rr
      BY <1>3, <3>1 DEF Item
    <3>3. item'[i] = x /\ \A j \in Items \ {i} : item'[j] = item[j]
      BY <1>3, <2>2, <3>1 DEF DraftingInvariant, DraftingTypeOK, StoreTypeOK
    <3>4. i \notin disowned => item[i].state \in DraftStates
      BY <1>1, <1>2 DEF DraftingInvariant, Custody, Busy, InPlace, DraftStates
    <3>5. Drafts(a, i)
      BY <1>1, <1>2, <3>2, <3>3, <3>4 DEF Drafts
    <3>6. \A j \in Items \ {i} : Leaves(j)
      BY <3>3 DEF Leaves
    <3> QED
      BY <3>5, <3>6 DEF ItemsFollow
  <2> QED
    BY <1>6, <2>1, <2>2
<1> QED
  BY <1>4, <1>5, <1>7, EndStops DEF Basing

\* A research is saved by whoever did it.
LEMMA SaveBases ==
    ASSUME DraftingInvariant, NEW a \in Agents, ResearchUsable(a) \/ ResearchEmpty(a)
    PROVE  Basing
<1>1. PICK i : i = OfItem(a)
  OBVIOUS
<1>2. ag[a].at = "provider" /\ ItemOf(ag[a].job) = i
  BY <1>1 DEF ResearchUsable, ResearchEmpty, OfItem, Step
<1>3. i \in Items /\ item[i] \in Item
  BY <1>1, <1>2, HandlerFacts DEF Busy, DraftingInvariant, DraftingTypeOK, StoreTypeOK
<1>4. disowned' = disowned
  BY DEF ResearchUsable, ResearchEmpty, OthersUnchanged, FaultOthers
<1>5. \/ item' = item /\ Ends(a, "finish", {})
      \/ /\ \E next : AfterSave(a, next)
         /\ \/ item' = [item EXCEPT ![i] = PacketSaved(i)]
            \/ \E to \in {"queued_research", "failed_research"}, again \in BOOLEAN :
                  item' = [item EXCEPT ![i] = FoundEmpty(i, to, again)]
  <2>1. CASE ResearchUsable(a)
    BY <1>2, <2>1 DEF ResearchUsable, Conflict
  <2>2. CASE ResearchEmpty(a)
    <3> DEFINE r     == jobs[ag[a].job].run
               again == ~ag[a].manual /\ item[i].tries + 1 < 2
               queue == again /\ Queued(<<i, "retry", 0>>, r)
               to    == IF queue THEN "queued_research" ELSE "failed_research"
    <3>1. \/ item' = item /\ Ends(a, "finish", {})
          \/ /\ AfterSave(a, IF queue THEN {<<i, "retry", 0>>} ELSE {})
             /\ item' = [item EXCEPT ![i] = FoundEmpty(i, to, again)]
      BY <1>2, <2>2 DEF ResearchEmpty, Conflict
    <3>2. to \in {"queued_research", "failed_research"} /\ again \in BOOLEAN
      OBVIOUS
    <3> HIDE DEF to, again, queue
    <3> QED
      BY <3>1, <3>2
  <2> QED
    BY <2>1, <2>2
<1>6. CASE item' = item /\ Ends(a, "finish", {})
  BY <1>4, <1>6, ConflictBases
<1>7. ASSUME NEW x, item' = [item EXCEPT ![i] = x], NEW next, AfterSave(a, next),
             x.state \in DraftStates => x.packet = "usable" /\ x.state # "ready_for_review"
      PROVE  Basing
  <2>1. item'[i] = x /\ \A j \in Items \ {i} : item'[j] = item[j]
    BY <1>3, <1>7 DEF DraftingInvariant, DraftingTypeOK, StoreTypeOK
  <2>2. Saves(a, i)
    BY <1>1, <1>2, <1>7, <2>1 DEF Saves
  <2>3. ItemsFollow
    BY <2>1, <2>2 DEF ItemsFollow, Leaves
  <2>4. PICK at : at = IF ag[a].own THEN "yield" ELSE "finish"
    OBVIOUS
  <2>5. PICK y : y = [Idle EXCEPT !.at = at, !.job = ag[a].job, !.own = ag[a].own, !.next = next]
    OBVIOUS
  <2>6. y.at # "write"
    BY <2>4, <2>5 DEF Idle
  <2>7. ag' = [ag EXCEPT ![a] = y]
    BY <1>7, <2>4, <2>5 DEF AfterSave
  <2> QED
    BY <1>4, <2>3, <2>6, <2>7, OneStops DEF Basing
<1>8. PacketSaved(i).packet = "usable" /\ PacketSaved(i).state = "queued_write"
  BY <1>3 DEF PacketSaved, Item
<1>9. ASSUME NEW to, NEW again PROVE FoundEmpty(i, to, again).state = to
  BY <1>3 DEF FoundEmpty, Item
<1>10. ASSUME NEW to \in {"queued_research", "failed_research"}, NEW again
       PROVE  FoundEmpty(i, to, again).state \notin DraftStates
  BY <1>9 DEF DraftStates
<1> QED
  BY <1>5, <1>6, <1>7, <1>8, <1>10

LEMMA BeginBases ==
    ASSUME DraftingInvariant, NEW a \in Agents, Begin(a)
    PROVE  Basing
<1>1. PICK i : i = ItemOf(ag[a].job)
  OBVIOUS
<1>2. i \in Items /\ ag[a] \in Activity
  BY <1>1, HandlerFacts DEF Begin, Step, Busy, OfItem
<1>3. disowned' = disowned
  BY DEF Begin, OthersUnchanged
<1>4. CASE ~CanMove(i, "researching")
  BY <1>1, <1>3, <1>4, ConflictBases DEF Begin, Conflict
<1>5. CASE CanMove(i, "researching")
  <2>1. PICK at : at = IF item[i].tries > 0 \/ Reusable(i) THEN "provider" ELSE "lease"
    OBVIOUS
  <2>2. PICK y : y = [ag[a] EXCEPT !.at = at, !.manual = Manual(ag[a].job), !.rr = item[i].rr,
                                   !.dr = item[i].dr]
    OBVIOUS
  <2>3. PICK x : x = [item[i] EXCEPT !.state = "researching"]
    OBVIOUS
  <2>4. item' = [item EXCEPT ![i] = x] /\ ag' = [ag EXCEPT ![a] = y]
    BY <1>1, <1>5, <2>1, <2>2, <2>3 DEF Begin
  <2>5. y.at # "write"
    BY <1>2, <2>1, <2>2 DEF Activity
  <2>6. /\ x.rr = item[i].rr /\ x.packet = item[i].packet /\ x.from = item[i].from
        /\ x.state \notin DraftStates
    BY <1>2, <2>3, StateLeaves DEF DraftStates
  <2>7. ItemsFollow
    BY <1>2, <2>4, <2>6, OneLeft
  <2> QED
    BY <1>3, <2>4, <2>5, <2>7, OneStops DEF Basing
<1> QED
  BY <1>4, <1>5

\* A write begins with the revision the item has.
LEMMA BeginWriteBases ==
    ASSUME DraftingInvariant, NEW a \in Agents, BeginWrite(a)
    PROVE  Basing
<1>1. PICK i : i = ItemOf(ag[a].job)
  OBVIOUS
<1>2. i \in Items /\ ag[a] \in Activity /\ item \in [Items -> Item]
      /\ ag \in [Agents -> Activity]
  BY <1>1, HandlerFacts DEF BeginWrite, Step, Busy, OfItem, DraftingInvariant, DraftingTypeOK,
                            StoreTypeOK, WorkerTypeOK
<1>3. disowned' = disowned
  BY DEF BeginWrite, OthersUnchanged
<1>4. PICK to : to = IF ag[a].job[2] = "repair" THEN "repairing" ELSE "writing"
  OBVIOUS
<1>5. CASE ~(item[i].state = to \/ CanMove(i, to))
  BY <1>1, <1>3, <1>4, <1>5, ConflictBases DEF BeginWrite, Conflict
<1>6. CASE item[i].state = to \/ CanMove(i, to)
  <2>1. PICK x : x = [item[i] EXCEPT !.state = to]
    OBVIOUS
  <2>2. PICK y : y = [ag[a] EXCEPT !.at = "write", !.rr = item[i].rr, !.dr = item[i].dr]
    OBVIOUS
  <2>3. item' = [item EXCEPT ![i] = x] /\ ag' = [ag EXCEPT ![a] = y]
    BY <1>1, <1>4, <1>6, <2>1, <2>2 DEF BeginWrite
  <2>4. /\ x.rr = item[i].rr /\ x.packet = item[i].packet /\ x.from = item[i].from
        /\ x.state = to
    BY <1>2, <2>1, StateLeaves
  <2>5. item[i].state \in DraftStates /\ to # "ready_for_review"
    BY <1>4, <1>6 DEF CanMove, Allowed, DraftStates
  <2>6. ItemsFollow
    BY <1>2, <2>3, <2>4, <2>5, OneLeft
  <2>7. ag'[a] = y /\ item'[i] = x /\ \A b \in Agents \ {a} : ag'[b] = ag[b]
    BY <1>2, <2>3
  <2>8. y.rr = item[i].rr /\ y.job = ag[a].job
    BY <1>2, <2>2 DEF Activity
  <2>9. OfItem(a)' = i
    BY <1>1, <2>7, <2>8 DEF OfItem
  <2>10. WritersFollow
    BY <2>4, <2>7, <2>8, <2>9 DEF WritersFollow
  <2> QED
    BY <1>3, <2>6, <2>10 DEF Basing
<1> QED
  BY <1>5, <1>6

LEMMA WokenFollow ==
    ASSUME DraftingInvariant, NEW p \in Sighting, WakeParked(p)
    PROVE  ItemsFollow
<1>1. PICK i : i = p[1]
  OBVIOUS
<1>2. i \in Items
  BY <1>1 DEF Sighting
<1>3. PICK x : x = [item[i] EXCEPT !.state = "queued_research"]
  OBVIOUS
<1>4. item' = [item EXCEPT ![i] = x]
  BY <1>1, <1>3 DEF WakeParked
<1>5. /\ x.rr = item[i].rr /\ x.packet = item[i].packet /\ x.from = item[i].from
      /\ x.state \notin DraftStates
  BY <1>2, <1>3, StateLeaves DEF DraftStates
<1> QED
  BY <1>2, <1>4, <1>5, OneLeft

LEMMA WakeBases ==
    ASSUME DraftingInvariant, NEW a \in Agents, NEW p \in ag[a].wake, Wake(a, p)
    PROVE  Basing
<1>1. ag[a] \in Activity /\ p \in Sighting
  BY DEF DraftingInvariant, DraftingTypeOK, WorkerTypeOK, Activity
<1>2. disowned' = disowned
  BY DEF Wake, OthersUnchanged
<1>3. CASE /\ WakeParked(p)
           /\ ag' = [ag EXCEPT ![a].wake = @ \ {p},
                  ![a].at = IF ag[a].wake = {p} THEN ag[a].then ELSE "wake"]
  <2>1. PICK at : at = IF ag[a].wake = {p} THEN ag[a].then ELSE "wake"
    OBVIOUS
  <2>2. PICK y : y = [ag[a] EXCEPT !.wake = ag[a].wake \ {p}, !.at = at]
    OBVIOUS
  <2>3. ag' = [ag EXCEPT ![a] = y]
    BY <1>3, <2>1, <2>2
  <2>4. at # "write"
    BY <1>1, <2>1 DEF Activity
  <2>5. y.at # "write"
    BY <1>1, <2>2, <2>4 DEF Activity
  <2> QED
    BY <1>1, <1>2, <1>3, <2>3, <2>5, WokenFollow, OneStops DEF Basing
<1>4. CASE /\ IF ag[a].then = "provider" THEN Ends(a, "fail", {}) ELSE Conflict(a)
           /\ UNCHANGED <<item, jobs, runs>>
  BY <1>2, <1>4, ConflictBases DEF Conflict
<1> QED
  BY <1>3, <1>4 DEF Wake

LEMMA SweepWakeBases ==
    ASSUME DraftingInvariant, NEW p \in sweep.found, SweepWake(p)
    PROVE  Basing
<1>1. p \in Sighting
  BY TypesNow DEF SweepTypeOK
<1>2. ag' = ag /\ disowned' = disowned
  BY DEF SweepWake, worker
<1>3. ItemsFollow
  BY <1>1, WokenFollow, ItemsLeft DEF SweepWake
<1> QED
  BY <1>2, <1>3, WritersSame DEF Basing

\* A sweep resets an item to a state of rest.
LEMMA ResetBases ==
    ASSUME DraftingInvariant, sweep.to \notin DraftStates, ResetStranded
    PROVE  Basing
<1>1. ASSUME NEW i \in Items PROVE Leaves(i)
  <2>1. item[i] \in Item
    BY DEF DraftingInvariant, DraftingTypeOK, StoreTypeOK
  <2>2. PICK e : e = IF item[i].err = "none" THEN "stranded_after_interrupt" ELSE item[i].err
    OBVIOUS
  <2>3. item'[i] = IF i \in sweep.items THEN [item[i] EXCEPT !.state = sweep.to, !.err = e]
                   ELSE item[i]
    BY <2>2 DEF ResetStranded
  <2> QED
    BY <2>1, <2>3 DEF Leaves, Item
<1>2. ag' = ag /\ disowned \subseteq disowned'
  BY DEF ResetStranded
<1> QED
  BY <1>1, <1>2, WritersSame DEF Basing, ItemsFollow

LEMMA QueueIdleBases ==
    ASSUME DraftingInvariant, NEW mode, NEW override, NEW among, NEW r,
           QueueIdle(mode, override, among, r)
    PROVE  Basing
<1>1. ag' = ag /\ disowned' = disowned
  BY DEF QueueIdle
<1> DEFINE all == {i \in among : Enqueueable(i, mode, override)}
<1>2. PICK funded \in SUBSET all :
         item' = [i \in Items |->
                       IF i \in funded THEN [item[i] EXCEPT !.state = "queued_research"]
                       ELSE IF i \in all THEN [item[i] EXCEPT !.state = "budget_paused"]
                       ELSE item[i]]
  BY DEF QueueIdle
<1>3. ASSUME NEW i \in Items PROVE Leaves(i)
  <2>1. item[i] \in Item
    BY DEF DraftingInvariant, DraftingTypeOK, StoreTypeOK
  <2>2. \/ item'[i] = [item[i] EXCEPT !.state = "queued_research"]
        \/ item'[i] = [item[i] EXCEPT !.state = "budget_paused"]
        \/ item'[i] = item[i]
    BY <1>2
  <2> QED
    BY <2>1, <2>2 DEF Leaves, Item, DraftStates
<1> QED
  BY <1>1, <1>3, WritersSame DEF Basing, ItemsFollow

LEMMA OthersBase ==
    ASSUME DraftingInvariant,
           \/ Transport \/ Upkeep \/ Time \/ Resume \/ Faults \/ UNCHANGED vars
           \/ \E i \in Items : StrandedRead(i)
           \/ \E c \in Companies : OrphanRead(c)
    PROVE  Basing
<1>1. CASE \E a \in Agents : Pressure(a)
  BY <1>1, QuietBases
<1>2. CASE \E a \in Agents : Crash(a) \/ CompletionLost(a)
  <2>1. item' = item /\ disowned' = disowned
    BY <1>2 DEF Crash, CompletionLost
  <2>2. \E a \in Agents : ag' = [ag EXCEPT ![a] = Idle]
    BY <1>2 DEF Crash, CompletionLost
  <2> QED
    BY <2>1, <2>2, IdleStops, ItemsLeft DEF Basing
<1>3. CASE item' = item /\ ag' = ag /\ disowned \subseteq disowned'
  BY <1>3, ItemsLeft, WritersSame DEF Basing
<1>4. CASE (\E a \in Agents : Sleep(a)) \/ (\E c \in Companies : Overage(c)) \/ Pause
  BY <1>3, <1>4 DEF Sleep, Overage, Pause, tables
<1>5. CASE Transport
  BY <1>3, <1>5 DEF Transport, Reap, ResetBacking, Reclaim, worker
<1>6. CASE Upkeep
  BY <1>3, <1>6 DEF Upkeep, RunPasses, Recompute, FinalizeIdle, worker
<1>7. CASE Time
  BY <1>3, <1>7 DEF Time, LockLapses, LeaseLapses, FallsSilent, ComesDue, WakeUp, worker, tables
<1>8. CASE Resume
  BY <1>3, <1>8 DEF Resume, worker
<1>9. CASE UNCHANGED vars
  BY <1>3, <1>9 DEF vars, tables, worker
<1>10. CASE (\E i \in Items : StrandedRead(i)) \/ (\E c \in Companies : OrphanRead(c))
  BY <1>3, <1>10 DEF StrandedRead, OrphanRead, tables, worker
<1> QED
  BY <1>1, <1>2, <1>4, <1>5, <1>6, <1>7, <1>8, <1>9, <1>10 DEF Faults

\* What a sweep is about to reset an item to is a state of rest.
ResetsToRest == sweep.to \notin DraftStates

LEMMA RestKept ==
    ASSUME DraftingInvariant, ResetsToRest, [Next]_vars
    PROVE  ResetsToRest'
<1>1. NoSweep.to \notin DraftStates
  BY DEF NoSweep, DraftStates
<1>2. CASE \E i \in Items : StrandedRead(i)
  <2>1. PICK i \in Items : StrandedRead(i)
    BY <1>2
  <2>2. item[i].state \in DOMAIN STRANDED_IDLE_MAP
    BY <2>1 DEF StrandedRead, StrandedItems
  <2>3. STRANDED_IDLE_MAP[item[i].state] \in {"failed_research", "failed_write"}
    BY <2>2 DEF STRANDED_IDLE_MAP
  <2>4. sweep'.to = STRANDED_IDLE_MAP[item[i].state]
    BY <2>1 DEF StrandedRead, NoSweep
  <2> QED
    BY <2>3, <2>4 DEF ResetsToRest, DraftStates
<1>3. CASE \E c \in Companies : OrphanRead(c)
  BY <1>3 DEF OrphanRead, NoSweep, ResetsToRest, DraftStates
<1>4. CASE ResetStranded
  BY <1>1, <1>4 DEF ResetStranded, ResetsToRest
<1>5. CASE \E p \in sweep.found : SweepWake(p)
  <2>1. sweep' \in {NoSweep} \cup {[sweep EXCEPT !.found = f] : f \in SUBSET Sighting}
    <3>1. PICK p \in sweep.found : SweepWake(p)
      BY <1>5
    <3>2. sweep' = NoSweep \/ sweep' = [sweep EXCEPT !.found = sweep.found \ {p}]
      BY <3>1 DEF SweepWake
    <3>3. sweep.found \ {p} \in SUBSET Sighting
      BY TypesNow DEF SweepTypeOK
    <3> QED
      BY <3>2, <3>3
  <2> QED
    BY <1>1, <2>1, TypesNow DEF ResetsToRest, SweepTypeOK
<1>6. CASE sweep' = sweep
  BY <1>6 DEF ResetsToRest
<1>7. CASE Handling
  BY <1>6, <1>7 DEF Handling
<1>8. CASE Transport
  BY <1>6, <1>8 DEF Transport, Reap, ResetBacking, Reclaim
<1>9. CASE SweepIdle \/ UserRetry
  BY <1>6, <1>9 DEF SweepIdle, UserRetry, QueueIdle
<1>10. CASE Upkeep
  BY <1>6, <1>10 DEF Upkeep, RunPasses, Recompute, FinalizeIdle
<1>11. CASE Time
  BY <1>6, <1>11 DEF Time, LockLapses, LeaseLapses, FallsSilent, ComesDue, WakeUp
<1>12. CASE Faults
  BY <1>6, <1>12 DEF Faults, Crash, CompletionLost, Sleep, Overage, Pause
<1>13. CASE Resume \/ UNCHANGED vars
  BY <1>6, <1>13 DEF Resume, vars
<1> QED
  BY <1>2, <1>3, <1>4, <1>5, <1>7, <1>8, <1>9, <1>10, <1>11, <1>12, <1>13
     DEF Next, Stranded, Orphaned

LEMMA StepBases ==
    ASSUME DraftingInvariant, ResetsToRest, [Next]_vars
    PROVE  Basing
<1>1. ASSUME NEW a \in Agents, Work(a) PROVE Basing
  <2>1. ASSUME NEW k \in DOMAIN jobs, Claim(a, k) PROVE Basing
    BY <2>1, ClaimBases
  <2>2. CASE BeginSkipped(a) \/ Finish(a)
    BY <2>2, QuietBases
  <2>3. CASE Research(a)
    BY <2>3, FailBases, BeginBases, QuietBases, SaveBases, WakeBases DEF Research
  <2>4. CASE Write(a)
    BY <2>4, BeginWriteBases, DraftBases, FailBases DEF Write
  <2> QED
    BY <1>1, <2>1, <2>2, <2>3, <2>4 DEF Work, Handle
<1>2. CASE Stranded \/ Orphaned
  BY <1>2, OthersBase, ResetBases, SweepWakeBases DEF Stranded, Orphaned, ResetsToRest
<1>3. CASE SweepIdle \/ UserRetry
  BY <1>3, QueueIdleBases DEF SweepIdle, UserRetry
<1>4. CASE Transport \/ Upkeep \/ Time \/ Resume \/ Faults \/ UNCHANGED vars
  BY <1>4, OthersBase
<1> QED
  BY <1>1, <1>2, <1>3, <1>4 DEF Next, Handling

\* A draft in review, or being written, is of the research its item has now: while
\* somebody writes nobody else can end a research of the item, and nothing but a usable
\* packet takes an item to where drafts are written.
THEOREM DraftsAreOfTheirResearch == DraftingSpec => []DraftsRestOnTheirResearch
<1> DEFINE Inv == DraftingInvariant /\ Based /\ ResetsToRest
<1>1. Init => Based /\ ResetsToRest
  <2> SUFFICES ASSUME Init PROVE Based /\ ResetsToRest
    OBVIOUS
  <2>1. \A a \in Agents : ag[a].at # "write"
    BY DEF Init, Idle
  <2>2. \A i \in Items : \E stage \in Stages : item[i] = ItemAt(stage)
    BY DEF Init
  <2>3. ASSUME NEW stage \in Stages
        PROVE  LET x == ItemAt(stage) IN
               /\ x.state \in DraftStates => x.packet = "usable"
               /\ x.state # "ready_for_review"
    BY DEF Stages, ItemAt, NewItem, DraftStates
  <2>4. Based
    BY <2>1, <2>2, <2>3 DEF Based, PacketsBehind
  <2>5. ResetsToRest
    BY DEF Init, ResetsToRest, NoSweep, DraftStates
  <2> QED
    BY <2>4, <2>5
<1>2. Inv /\ [Next]_vars => Inv'
  BY InvariantKept, RestKept, StepBases, BasedKept DEF Basing
<1>3. Inv => DraftsRestOnTheirResearch
  BY BasedImplies
<1>4. Init => Inv
  BY <1>1, InitialState
<1> QED
  BY <1>2, <1>3, <1>4, PTL DEF DraftingSpec

=============================================================================
