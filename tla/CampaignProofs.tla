---------------------------- MODULE CampaignProofs ----------------------------
(***************************************************************************)
(* What holds of the auto campaigns for any number of campaigns, people,   *)
(* days and executions: the quota of a day, what is paid for, the          *)
(* targeting that the search follows, and the end of the search.           *)
(*                                                                         *)
(* First the record of an execution, then what each action does to it      *)
(* (Moves, Rests), who has a row and who is alone, and one part for each   *)
(* of the four properties; CampaignInvariant joins them at the end.       *)
(***************************************************************************)
EXTENDS AutoCampaign, FiniteSetTheorems, TLAPS

LEMMA PeopleFinite ==
    \A S \in SUBSET People : IsFiniteSet(S) /\ Cardinality(S) \in Nat
<1>1. IsFiniteSet(People)
  BY CampaignAssumption, FS_Interval DEF People
<1> QED
  BY <1>1, FS_Subset, FS_CardinalityType

\* A person's rank among those of S, in the order of the search
Rank(S) == [p \in S |-> Cardinality({q \in S : q <= p})]

\* The rank tells them apart, ...
LEMMA RanksDiffer ==
    ASSUME NEW S \in SUBSET People
    PROVE  /\ \A p \in S : Rank(S)[p] \in 1..Cardinality(S)
           /\ \A p, q \in S : Rank(S)[p] = Rank(S)[q] => p = q
<1> DEFINE Upto(p) == {q \in S : q <= p}
<1>1. \A p \in S : /\ IsFiniteSet(Upto(p)) /\ Cardinality(Upto(p)) \in Nat
                   /\ Rank(S)[p] = Cardinality(Upto(p))
  BY PeopleFinite DEF Rank
<1>2. S \subseteq Int /\ IsFiniteSet(S) /\ Cardinality(S) \in Nat
  BY CampaignAssumption, PeopleFinite DEF People
<1>3. ASSUME NEW p \in S PROVE Rank(S)[p] \in 1..Cardinality(S)
  <2>1. p \in Upto(p)
    BY <1>2
  <2>2. Upto(p) # {} /\ IsFiniteSet(Upto(p)) /\ Cardinality(Upto(p)) \in Nat
    BY <1>1, <2>1
  <2>3. Cardinality(Upto(p)) <= Cardinality(S)
    BY <1>2, FS_Subset
  <2> HIDE DEF Upto
  <2>4. Cardinality(Upto(p)) # 0
    BY <2>2, FS_EmptySet
  <2> QED
    BY <1>1, <1>2, <2>2, <2>3, <2>4
<1>4. ASSUME NEW p \in S, NEW q \in S, p < q
      PROVE  Cardinality(Upto(p)) # Cardinality(Upto(q))
  <2>1. \A r \in S : r <= p => r <= q
    BY <1>2, <1>4
  <2>2. Upto(p) \subseteq Upto(q)
    BY <2>1
  <2>3. q \in Upto(q) /\ q \notin Upto(p)
    BY <1>2, <1>4
  <2> QED
    BY <1>1, <2>2, <2>3, FS_Subset
<1>5. ASSUME NEW p \in S, NEW q \in S, p # q PROVE Rank(S)[p] # Rank(S)[q]
  <2>1. p < q \/ q < p
    BY <1>2, <1>5
  <2> QED
    BY <1>1, <1>4, <2>1
<1> QED
  BY <1>3, <1>5

\* ... so that no more people than ranks are between two of them.
LEMMA RanksBound ==
    ASSUME NEW S \in SUBSET People, NEW T \in SUBSET S, NEW a \in Int, NEW b \in Int,
           a <= b + 1, \A p \in T : Rank(S)[p] \in a..b
    PROVE  Cardinality(T) <= b - a + 1
<1> DEFINE r == [p \in T |-> Rank(S)[p]]
<1>1. r \in [T -> a..b]
  OBVIOUS
<1>2. \A p, q \in T : r[p] = r[q] => p = q
  BY RanksDiffer
<1>3. r \in Injection(T, a..b)
  BY <1>1, <1>2 DEF Injection, IsInjective
<1>4. IsFiniteSet(a..b) /\ Cardinality(a..b) = b - a + 1
  <2>1. CASE a > b
    <3>1. a..b = {} /\ b - a + 1 = 0
      BY <2>1
    <3> QED
      BY <3>1, FS_EmptySet
  <2>2. CASE a <= b
    BY <2>2, FS_Interval
  <2> QED
    BY <2>1, <2>2
<1> HIDE DEF r
<1>5. Cardinality(T) <= Cardinality(a..b)
  BY <1>3, <1>4, FS_Injection
<1> QED
  BY <1>4, <1>5

\* The search hands out no more than were asked for, ...
LEMMA FirstOfBound ==
    ASSUME NEW n \in Nat, NEW S \in SUBSET People
    PROVE  /\ FirstOf(n, S) \subseteq S
           /\ Cardinality(FirstOf(n, S)) <= n
<1>1. FirstOf(n, S) \in SUBSET S
  BY DEF FirstOf
<1>2. \A p \in FirstOf(n, S) : Rank(S)[p] \in 1..n
  <2>1. \A p \in FirstOf(n, S) : p \in S /\ Rank(S)[p] <= n
    BY DEF FirstOf, Rank
  <2>2. \A p \in S : Rank(S)[p] \in 1..Cardinality(S) /\ Cardinality(S) \in Nat
    BY RanksDiffer, PeopleFinite
  <2> QED
    BY <2>1, <2>2
<1>3. Cardinality(FirstOf(n, S)) <= n - 1 + 1
  BY <1>1, <1>2, RanksBound
<1> QED
  BY <1>1, <1>3

\* ... and as many as were asked for, unless it hands out all.
LEMMA FirstOfAll ==
    ASSUME NEW n \in Nat, NEW S \in SUBSET People
    PROVE  FirstOf(n, S) = S \/ Cardinality(FirstOf(n, S)) = n
<1> SUFFICES ASSUME FirstOf(n, S) # S PROVE Cardinality(FirstOf(n, S)) = n
  OBVIOUS
<1> DEFINE N == Cardinality(S)
           T == S \ FirstOf(n, S)
<1>1. FirstOf(n, S) \in SUBSET S /\ T \in SUBSET S
  BY DEF FirstOf
<1>2. N \in Nat /\ IsFiniteSet(S) /\ Cardinality(FirstOf(n, S)) \in Nat /\ Cardinality(T) \in Nat
  <2>1. FirstOf(n, S) \in SUBSET People /\ T \in SUBSET People
    BY <1>1
  <2> QED
    BY <2>1, PeopleFinite
<1>3. \A p \in T : Rank(S)[p] \in (n + 1)..N
  <2>1. \A p \in T : p \in S /\ ~(Rank(S)[p] <= n)
    BY DEF FirstOf, Rank
  <2>2. \A p \in S : Rank(S)[p] \in 1..N
    BY RanksDiffer
  <2> QED
    BY <1>2, <2>1, <2>2
<1>4. T # {}
  BY <1>1
<1>5. n + 1 <= N
  BY <1>2, <1>3, <1>4
<1>6. Cardinality(T) = N - Cardinality(FirstOf(n, S))
  <2>1. S \cap FirstOf(n, S) = FirstOf(n, S)
    BY <1>1
  <2> QED
    BY <1>2, <2>1, FS_Difference
<1> HIDE DEF T, N
<1>7. Cardinality(T) <= N - (n + 1) + 1
  BY <1>1, <1>2, <1>3, <1>5, RanksBound
<1>8. Cardinality(FirstOf(n, S)) <= n
  BY FirstOfBound
<1> QED
  BY <1>2, <1>6, <1>7, <1>8

-----------------------------------------------------------------------------
\* How many an execution may still attach without asking the database again
Pending(c) ==
    IF c.at \in {"search", "enrich", "widen"} THEN c.remaining
    ELSE IF c.at = "store" THEN GotVerified(c)
    ELSE IF c.at = "attach" THEN GotVerified(c) + 1
    ELSE 0

\* The steps that may still lead to a payment or to one more person attached
Spending == {"search", "enrich", "store", "attach", "widen"}

\* What an execution has at every step: those paid for are known, those to be paid
\* for are not, and neither are more than were missing.
Sane(c) ==
    /\ c.got \subseteq c.known
    /\ c.at \in {"search", "enrich", "store", "attach"} \/ c.got = {}
    /\ c.at = "enrich" => /\ c.todo \cap c.known = {}
                          /\ GotVerified(c) + Cardinality(c.todo) <= c.remaining
    /\ c.at = "search" => GotVerified(c) <= c.remaining
    /\ c.at = "widen" => c.step < MaxStep
    /\ c.at \in Spending => c.remaining \in 1..Quota[c.of] /\ Pending(c) <= c.remaining

\* The next record of an execution: of the same row, and sane.
NextRecord(c, x) ==
    /\ x \in Cycle /\ Sane(x) /\ x.at # "idle"
    /\ x.of = c.of /\ x.day = c.day /\ x.base = c.base
    /\ c.at = "sender" \/ x.today = c.today
    /\ c.at = "map" \/ x.params = c.params

LEMMA GotVerifiedCounts ==
    ASSUME NEW c \in Cycle
    PROVE  GotVerified(c) \in Nat /\ (c.got = {} => GotVerified(c) = 0)
<1>1. c.got \cap Verified \in SUBSET People
  BY DEF Cycle
<1> QED
  BY <1>1, PeopleFinite, FS_EmptySet DEF GotVerified

LEMMA QuotaCounts == \A c \in Campaigns : Quota[c] \in Nat \ {0}
BY CampaignAssumption

LEMMA CountRecord ==
    ASSUME NEW c \in Cycle, Sane(c),
           c.at = "sender",
           NEW d \in Days
    PROVE  NextRecord(c, [c EXCEPT !.at = "count", !.today = d])
<1> DEFINE x == [c EXCEPT !.at = "count", !.today = d]
<1>1. x \in Cycle
  BY DEF Cycle, CycleAt
<1>2. /\ x.at = "count" /\ x.of = c.of /\ x.day = c.day /\ x.base = c.base
      /\ x.params = c.params
      /\ x.known = c.known /\ x.remaining = c.remaining /\ x.todo = c.todo /\ x.got = c.got
  BY DEF Cycle
<1>3. GotVerified(x) = GotVerified(c)
  BY <1>2 DEF GotVerified
<1> HIDE DEF x
<1>4. NextRecord(c, x)
  BY <1>1, <1>2, <1>3 DEF NextRecord, Sane, Pending, Spending
<1> QED
  BY <1>4 DEF x

LEMMA QuietRecord ==
    ASSUME NEW c \in Cycle, Sane(c),
           c.got = {},
           NEW at \in CycleAt \ (Spending \cup {"idle"})
    PROVE  NextRecord(c, [c EXCEPT !.at = at])
<1> DEFINE x == [c EXCEPT !.at = at]
<1>1. x \in Cycle
  BY DEF Cycle, CycleAt, Spending
<1>2. /\ x.at = at /\ x.of = c.of /\ x.day = c.day /\ x.base = c.base
      /\ x.today = c.today /\ x.params = c.params
      /\ x.known = c.known /\ x.remaining = c.remaining /\ x.todo = c.todo /\ x.got = c.got
  BY DEF Cycle
<1>3. GotVerified(x) = GotVerified(c)
  BY <1>2 DEF GotVerified
<1> HIDE DEF x
<1>4. NextRecord(c, x)
  BY <1>1, <1>2, <1>3 DEF NextRecord, Sane, Pending, Spending
<1> QED
  BY <1>4 DEF x

LEMMA MappedRecord ==
    ASSUME NEW c \in Cycle, Sane(c),
           c.at = "map",
           NEW params \in Versions,
           NEW page \in Nat, NEW step \in 0..MaxStep
    PROVE  NextRecord(c, [c EXCEPT !.at = "known", !.params = params, !.page = page,
                                     !.step = step])
<1> DEFINE x == [c EXCEPT !.at = "known", !.params = params, !.page = page,
                          !.step = step]
<1>1. x \in Cycle
  BY DEF Cycle, CycleAt
<1>2. /\ x.at = "known" /\ x.of = c.of /\ x.day = c.day /\ x.base = c.base
      /\ x.today = c.today
      /\ x.known = c.known /\ x.remaining = c.remaining /\ x.todo = c.todo /\ x.got = c.got
  BY DEF Cycle
<1>3. GotVerified(x) = GotVerified(c)
  BY <1>2 DEF GotVerified
<1> HIDE DEF x
<1>4. NextRecord(c, x)
  BY <1>1, <1>2, <1>3 DEF NextRecord, Sane, Pending, Spending
<1> QED
  BY <1>4 DEF x

LEMMA KnownRecord ==
    ASSUME NEW c \in Cycle, Sane(c),
           c.at = "known",
           NEW S \in SUBSET People
    PROVE  NextRecord(c, [c EXCEPT !.at = "missing", !.known = S])
<1> DEFINE x == [c EXCEPT !.at = "missing", !.known = S]
<1>1. x \in Cycle
  BY DEF Cycle, CycleAt
<1>2. /\ x.at = "missing" /\ x.of = c.of /\ x.day = c.day /\ x.base = c.base
      /\ x.today = c.today /\ x.params = c.params
      /\ x.known = S /\ x.remaining = c.remaining /\ x.todo = c.todo /\ x.got = c.got
  BY DEF Cycle
<1>3. GotVerified(x) = GotVerified(c)
  BY <1>2 DEF GotVerified
<1> HIDE DEF x
<1>4. NextRecord(c, x)
  BY <1>1, <1>2, <1>3 DEF NextRecord, Sane, Pending, Spending
<1> QED
  BY <1>4 DEF x

LEMMA MissingRecord ==
    ASSUME NEW c \in Cycle, Sane(c),
           c.at = "missing",
           NEW n \in Int, NEW at \in {"search", "final"},
           at = "search" => n \in 1..Quota[c.of]
    PROVE  NextRecord(c, [c EXCEPT !.remaining = n, !.at = at])
<1> DEFINE x == [c EXCEPT !.remaining = n, !.at = at]
<1>1. x \in Cycle
  BY DEF Cycle, CycleAt
<1>2. /\ x.at = at /\ x.of = c.of /\ x.day = c.day /\ x.base = c.base
      /\ x.today = c.today /\ x.params = c.params
      /\ x.known = c.known /\ x.remaining = n /\ x.todo = c.todo /\ x.got = c.got
  BY DEF Cycle
<1>3. GotVerified(x) = GotVerified(c)
  BY <1>2 DEF GotVerified
<1>9. c.got = {} /\ GotVerified(c) = 0
  BY GotVerifiedCounts DEF Sane
<1> HIDE DEF x
<1>4. NextRecord(c, x)
  BY <1>1, <1>2, <1>3, <1>9 DEF NextRecord, Sane, Pending, Spending
<1> QED
  BY <1>4 DEF x

LEMMA DryRecord ==
    ASSUME NEW c \in Cycle, Sane(c),
           c.at = "search"
    PROVE  NextRecord(c, [c EXCEPT !.at = "store", !.dry = TRUE])
<1> DEFINE x == [c EXCEPT !.at = "store", !.dry = TRUE]
<1>1. x \in Cycle
  BY DEF Cycle, CycleAt
<1>2. /\ x.at = "store" /\ x.of = c.of /\ x.day = c.day /\ x.base = c.base
      /\ x.today = c.today /\ x.params = c.params
      /\ x.known = c.known /\ x.remaining = c.remaining /\ x.todo = c.todo /\ x.got = c.got
  BY DEF Cycle
<1>3. GotVerified(x) = GotVerified(c)
  BY <1>2 DEF GotVerified
<1> HIDE DEF x
<1>4. NextRecord(c, x)
  BY <1>1, <1>2, <1>3 DEF NextRecord, Sane, Pending, Spending
<1> QED
  BY <1>4 DEF x

LEMMA PageRecord ==
    ASSUME NEW c \in Cycle, Sane(c),
           c.at = "search",
           NEW todo \in SUBSET People, NEW pages \in Nat,
           NEW more \in BOOLEAN, NEW full \in BOOLEAN,
           todo \cap c.known = {}, GotVerified(c) + Cardinality(todo) <= c.remaining
    PROVE  NextRecord(c, [c EXCEPT !.at = "enrich", !.todo = todo, !.pages = pages,
                                     !.leftover = more, !.full = full])
<1> DEFINE x == [c EXCEPT !.at = "enrich", !.todo = todo, !.pages = pages,
                          !.leftover = more, !.full = full]
<1>1. x \in Cycle
  BY DEF Cycle, CycleAt
<1>2. /\ x.at = "enrich" /\ x.of = c.of /\ x.day = c.day /\ x.base = c.base
      /\ x.today = c.today /\ x.params = c.params
      /\ x.known = c.known /\ x.remaining = c.remaining /\ x.todo = todo /\ x.got = c.got
  BY DEF Cycle
<1>3. GotVerified(x) = GotVerified(c)
  BY <1>2 DEF GotVerified
<1>9. c.remaining \in Int /\ GotVerified(c) \in Nat /\ Quota[c.of] \in Nat
  BY GotVerifiedCounts, QuotaCounts DEF Cycle
<1> HIDE DEF x
<1>4. NextRecord(c, x)
  BY <1>1, <1>2, <1>3, <1>9 DEF NextRecord, Sane, Pending, Spending
<1> QED
  BY <1>4 DEF x

LEMMA AttachedRecord ==
    ASSUME NEW c \in Cycle, Sane(c),
           c.at = "attach"
    PROVE  NextRecord(c, [c EXCEPT !.at = "store", !.who = Nobody])
<1> DEFINE x == [c EXCEPT !.at = "store", !.who = Nobody]
<1>1. x \in Cycle
  BY DEF Cycle, CycleAt, Nobody
<1>2. /\ x.at = "store" /\ x.of = c.of /\ x.day = c.day /\ x.base = c.base
      /\ x.today = c.today /\ x.params = c.params
      /\ x.known = c.known /\ x.remaining = c.remaining /\ x.todo = c.todo /\ x.got = c.got
  BY DEF Cycle
<1>3. GotVerified(x) = GotVerified(c)
  BY <1>2 DEF GotVerified
<1>9. c.remaining \in Int /\ GotVerified(c) \in Nat /\ Quota[c.of] \in Nat
  BY GotVerifiedCounts, QuotaCounts DEF Cycle
<1> HIDE DEF x
<1>4. NextRecord(c, x)
  BY <1>1, <1>2, <1>3, <1>9 DEF NextRecord, Sane, Pending, Spending
<1> QED
  BY <1>4 DEF x

LEMMA RecountRecord ==
    ASSUME NEW c \in Cycle, Sane(c),
           c.at = "store",
           c.got = {},
           NEW n \in Int, NEW at \in {"widen", "final"},
           at = "widen" => n \in 1..Quota[c.of] /\ c.step < MaxStep
    PROVE  NextRecord(c, [c EXCEPT !.pages = 0, !.todo = {}, !.leftover = FALSE,
                                     !.full = FALSE, !.remaining = n, !.at = at])
<1> DEFINE x == [c EXCEPT !.pages = 0, !.todo = {}, !.leftover = FALSE,
                          !.full = FALSE, !.remaining = n, !.at = at]
<1>1. x \in Cycle
  BY DEF Cycle, CycleAt
<1>2. /\ x.at = at /\ x.of = c.of /\ x.day = c.day /\ x.base = c.base
      /\ x.today = c.today /\ x.params = c.params
      /\ x.known = c.known /\ x.remaining = n /\ x.todo = {} /\ x.got = c.got
      /\ x.step = c.step
  BY DEF Cycle
<1>3. GotVerified(x) = GotVerified(c)
  BY <1>2 DEF GotVerified
<1>9. c.got = {} /\ GotVerified(c) = 0
  BY GotVerifiedCounts DEF Sane
<1> HIDE DEF x
<1>4. NextRecord(c, x)
  BY <1>1, <1>2, <1>3, <1>9 DEF NextRecord, Sane, Pending, Spending
<1> QED
  BY <1>4 DEF x

LEMMA WidenRecord ==
    ASSUME NEW c \in Cycle, Sane(c),
           c.at = "widen",
           NEW step \in 0..MaxStep
    PROVE  NextRecord(c, [c EXCEPT !.at = "search", !.step = step, !.page = 1,
                                     !.dry = FALSE])
<1> DEFINE x == [c EXCEPT !.at = "search", !.step = step, !.page = 1, !.dry = FALSE]
<1>1. x \in Cycle
  BY DEF Cycle, CycleAt
<1>2. /\ x.at = "search" /\ x.of = c.of /\ x.day = c.day /\ x.base = c.base
      /\ x.today = c.today /\ x.params = c.params
      /\ x.known = c.known /\ x.remaining = c.remaining /\ x.todo = c.todo /\ x.got = c.got
  BY DEF Cycle
<1>3. GotVerified(x) = GotVerified(c)
  BY <1>2 DEF GotVerified
<1>9. c.got = {} /\ GotVerified(c) = 0
  BY GotVerifiedCounts DEF Sane
<1> HIDE DEF x
<1>4. NextRecord(c, x)
  BY <1>1, <1>2, <1>3, <1>9 DEF NextRecord, Sane, Pending, Spending
<1> QED
  BY <1>4 DEF x

LEMMA CaughtRecord ==
    ASSUME NEW c \in Cycle, Sane(c),
           c.at # "idle"
    PROVE  NextRecord(c, [c EXCEPT !.at = "catch", !.got = {}, !.who = Nobody])
<1> DEFINE x == [c EXCEPT !.at = "catch", !.got = {}, !.who = Nobody]
<1>1. x \in Cycle
  BY DEF Cycle, CycleAt, Nobody
<1>2. /\ x.at = "catch" /\ x.of = c.of /\ x.day = c.day /\ x.base = c.base
      /\ x.today = c.today /\ x.params = c.params
      /\ x.known = c.known /\ x.remaining = c.remaining /\ x.todo = c.todo /\ x.got = {}
  BY DEF Cycle
<1> HIDE DEF x
<1>3. NextRecord(c, x)
  BY <1>1, <1>2 DEF NextRecord, Sane, Pending, Spending
<1> QED
  BY <1>3 DEF x


\* A batch: what is enriched was among those to be enriched.
LEMMA BatchCounts ==
    ASSUME NEW c \in Cycle, Sane(c), c.at = "enrich", NEW them \in SUBSET c.todo,
           NEW a \in Cycle, a.todo = c.todo \ them, a.got = c.got \cup them
    PROVE  GotVerified(a) + Cardinality(a.todo) <= c.remaining
<1>1. /\ IsFiniteSet(c.todo) /\ IsFiniteSet(them) /\ IsFiniteSet(c.todo \ them)
      /\ IsFiniteSet(c.got \cap Verified) /\ IsFiniteSet(them \cap Verified)
      /\ Cardinality(c.todo) \in Nat /\ Cardinality(them) \in Nat
      /\ Cardinality(c.todo \ them) \in Nat
      /\ Cardinality(c.got \cap Verified) \in Nat /\ Cardinality(them \cap Verified) \in Nat
      /\ Cardinality((c.got \cap Verified) \cap (them \cap Verified)) \in Nat
  <2>1. /\ c.todo \in SUBSET People /\ them \in SUBSET People /\ (c.todo \ them) \in SUBSET People
        /\ (c.got \cap Verified) \in SUBSET People /\ (them \cap Verified) \in SUBSET People
        /\ ((c.got \cap Verified) \cap (them \cap Verified)) \in SUBSET People
    BY DEF Cycle
  <2> QED
    BY <2>1, PeopleFinite
<1>2. Cardinality(c.todo \ them) = Cardinality(c.todo) - Cardinality(them)
  <2>1. c.todo \cap them = them
    OBVIOUS
  <2> QED
    BY <1>1, <2>1, FS_Difference
<1>3. Cardinality(them \cap Verified) <= Cardinality(them)
  <2>1. (them \cap Verified) \in SUBSET them
    OBVIOUS
  <2> QED
    BY <1>1, <2>1, FS_Subset
<1>4. GotVerified(a) <= GotVerified(c) + Cardinality(them \cap Verified)
  <2>1. a.got \cap Verified = (c.got \cap Verified) \cup (them \cap Verified)
    OBVIOUS
  <2>2. Cardinality((c.got \cap Verified) \cup (them \cap Verified))
            = Cardinality(c.got \cap Verified) + Cardinality(them \cap Verified)
              - Cardinality((c.got \cap Verified) \cap (them \cap Verified))
    BY <1>1, FS_Union
  <2>3. GotVerified(a) = Cardinality((c.got \cap Verified) \cup (them \cap Verified))
    BY <2>1 DEF GotVerified
  <2>4. GotVerified(c) = Cardinality(c.got \cap Verified)
    BY DEF GotVerified
  <2> QED
    BY <1>1, <2>2, <2>3, <2>4
<1>5. GotVerified(c) + Cardinality(c.todo) <= c.remaining
  BY DEF Sane
<1>6. GotVerified(c) \in Nat /\ GotVerified(a) \in Nat /\ c.remaining \in Int
  BY GotVerifiedCounts DEF Cycle
<1> QED
  BY <1>1, <1>2, <1>3, <1>4, <1>5, <1>6

LEMMA BatchRecord ==
    ASSUME NEW c \in Cycle, Sane(c), c.at = "enrich", NEW them \in SUBSET c.todo
    PROVE  NextRecord(c, [c EXCEPT !.todo = @ \ them, !.known = @ \cup them,
                                   !.got = @ \cup them])
<1> DEFINE x == [c EXCEPT !.todo = @ \ them, !.known = @ \cup them, !.got = @ \cup them]
<1>1. x \in Cycle
  BY DEF Cycle
<1>2. /\ x.at = "enrich" /\ x.of = c.of /\ x.day = c.day /\ x.base = c.base
      /\ x.today = c.today /\ x.params = c.params
      /\ x.known = c.known \cup them /\ x.remaining = c.remaining
      /\ x.todo = c.todo \ them /\ x.got = c.got \cup them
  BY DEF Cycle
<1> HIDE DEF x
<1>3. GotVerified(x) + Cardinality(x.todo) <= x.remaining
  BY <1>1, <1>2, BatchCounts
<1>4. NextRecord(c, x)
  BY <1>1, <1>2, <1>3 DEF NextRecord, Sane, Pending, Spending
<1> QED
  BY <1>4 DEF x

LEMMA PageDoneRecord ==
    ASSUME NEW c \in Cycle, Sane(c), c.at = "enrich"
    PROVE  /\ NextRecord(c, PageDone(c))
           /\ PageDone(c).got = c.got /\ PageDone(c).known = c.known
           /\ Pending(PageDone(c)) <= c.remaining
<1> DEFINE x == PageDone(c)
<1>0. /\ GotVerified(c) \in Nat /\ Cardinality(c.todo) \in Nat /\ c.remaining \in Int
      /\ GotVerified(c) + Cardinality(c.todo) <= c.remaining
  BY GotVerifiedCounts, PeopleFinite DEF Cycle, Sane
<1>1. x \in Cycle
  <2>1. \A page \in Nat, at \in CycleAt : [c EXCEPT !.page = page, !.at = at] \in Cycle
    BY DEF Cycle
  <2>2. [c EXCEPT !.at = "store", !.todo = {}] \in Cycle
    BY DEF Cycle, CycleAt
  <2>3. [c EXCEPT !.at = "store", !.dry = TRUE] \in Cycle
    BY DEF Cycle, CycleAt
  <2>4. c.page \in Nat
    BY DEF Cycle
  <2> DEFINE page == IF c.leftover THEN c.page ELSE c.page + 1
             at == IF c.pages = MaxPages THEN "store" ELSE "search"
  <2>5. page \in Nat /\ at \in CycleAt
    BY <2>4 DEF CycleAt
  <2> HIDE DEF page, at
  <2>6. [c EXCEPT !.page = page, !.at = at] \in Cycle
    BY <2>1, <2>5
  <2> USE DEF page, at
  <2> QED
    BY <2>2, <2>3, <2>6 DEF PageDone
<1>2. /\ x.at \in {"store", "search"} /\ x.of = c.of /\ x.day = c.day /\ x.base = c.base
      /\ x.today = c.today /\ x.params = c.params
      /\ x.known = c.known /\ x.remaining = c.remaining /\ x.got = c.got
  BY DEF Cycle, PageDone
<1>3. GotVerified(x) = GotVerified(c)
  BY <1>2 DEF GotVerified
<1> HIDE DEF x
<1>4. NextRecord(c, x)
  BY <1>0, <1>1, <1>2, <1>3 DEF NextRecord, Sane, Pending, Spending
<1>5. Pending(x) <= c.remaining
  BY <1>0, <1>2, <1>3 DEF Pending
<1> QED
  BY <1>2, <1>4, <1>5 DEF x

LEMMA StoreRecord ==
    ASSUME NEW c \in Cycle, Sane(c), c.at = "store", NEW p \in c.got
    PROVE  /\ NextRecord(c, [c EXCEPT !.got = @ \ {p}])
           /\ Pending([c EXCEPT !.got = @ \ {p}]) <= Pending(c)
           /\ p \in Verified =>
                 LET x == [c EXCEPT !.got = @ \ {p}, !.at = "attach", !.who = p]
                 IN  NextRecord(c, x) /\ Pending(x) <= Pending(c)
<1>0. c.got \in SUBSET People /\ c.remaining \in Int /\ p \in People
  BY DEF Cycle
<1>1. IsFiniteSet(c.got \cap Verified) /\ Cardinality(c.got \cap Verified) \in Nat
  <2>1. (c.got \cap Verified) \in SUBSET People
    BY <1>0
  <2> QED
    BY <2>1, PeopleFinite
<1>2. Cardinality((c.got \ {p}) \cap Verified)
          = IF p \in Verified THEN Cardinality(c.got \cap Verified) - 1
            ELSE Cardinality(c.got \cap Verified)
  <2>1. (c.got \ {p}) \cap Verified = (c.got \cap Verified) \ {p}
    OBVIOUS
  <2> QED
    BY <1>1, <2>1, FS_RemoveElement
<1>3. /\ NextRecord(c, [c EXCEPT !.got = @ \ {p}])
      /\ Pending([c EXCEPT !.got = @ \ {p}]) <= Pending(c)
  <2> DEFINE x == [c EXCEPT !.got = @ \ {p}]
  <2>1. x \in Cycle
    BY <1>0 DEF Cycle
  <2>2. /\ x.at = "store" /\ x.of = c.of /\ x.day = c.day /\ x.base = c.base
        /\ x.today = c.today /\ x.params = c.params
        /\ x.known = c.known /\ x.remaining = c.remaining /\ x.got = c.got \ {p}
    BY DEF Cycle
  <2>3. GotVerified(x) <= GotVerified(c)
    BY <1>1, <1>2, <2>2 DEF GotVerified
  <2>4. GotVerified(c) \in Nat /\ GotVerified(x) \in Nat
    BY <2>1, GotVerifiedCounts
  <2> HIDE DEF x
  <2>5. NextRecord(c, x) /\ Pending(x) <= Pending(c)
    BY <1>0, <2>1, <2>2, <2>3, <2>4 DEF NextRecord, Sane, Pending, Spending
  <2> QED
    BY <2>5 DEF x
<1>4. ASSUME p \in Verified
      PROVE  LET x == [c EXCEPT !.got = @ \ {p}, !.at = "attach", !.who = p]
             IN  NextRecord(c, x) /\ Pending(x) <= Pending(c)
  <2> DEFINE x == [c EXCEPT !.got = @ \ {p}, !.at = "attach", !.who = p]
  <2>1. x \in Cycle
    BY <1>0 DEF Cycle, CycleAt
  <2>2. /\ x.at = "attach" /\ x.of = c.of /\ x.day = c.day /\ x.base = c.base
        /\ x.today = c.today /\ x.params = c.params
        /\ x.known = c.known /\ x.remaining = c.remaining /\ x.got = c.got \ {p}
    BY DEF Cycle
  <2>3. GotVerified(x) + 1 = GotVerified(c)
    BY <1>1, <1>2, <1>4, <2>2 DEF GotVerified
  <2>4. GotVerified(c) \in Nat /\ GotVerified(x) \in Nat
    BY <2>1, GotVerifiedCounts
  <2> HIDE DEF x
  <2>5. NextRecord(c, x) /\ Pending(x) <= Pending(c)
    BY <1>0, <2>1, <2>2, <2>3, <2>4 DEF NextRecord, Sane, Pending, Spending
  <2> QED
    BY <2>5 DEF x
<1> QED
  BY <1>3, <1>4

-----------------------------------------------------------------------------
\* What the step of an execution does to the table of executions

Records == \A e \in Cycles : Sane(cycle[e])

\* The execution e goes on, or returns; the others do not move.
Moves(e) ==
    /\ cycle[e].at # "idle"
    /\ cycle' \in [Cycles -> Cycle] /\ \A f \in Cycles \ {e} : cycle'[f] = cycle[f]
    /\ NextRecord(cycle[e], cycle'[e])

Rests(e) ==
    /\ cycle' \in [Cycles -> Cycle] /\ \A f \in Cycles \ {e} : cycle'[f] = cycle[f]
    /\ cycle'[e] = Resting

LEMMA RestingRecord ==
    /\ NewCampaign \in Campaign /\ AnyCampaign \in Campaigns
    /\ Resting \in Cycle /\ Sane(Resting) /\ Resting.at = "idle" /\ Resting.got = {}
<1>1. AnyCampaign \in Campaigns
  BY CampaignAssumption DEF AnyCampaign
<1>2. NewCampaign \in Campaign
  BY CampaignAssumption DEF NewCampaign, Campaign, AutoStatus, NextCycle, Versions, Unmapped
<1>3. 1 \in Days
  BY CampaignAssumption DEF Days
<1>4. Resting \in Cycle
  BY <1>1, <1>2, <1>3, CampaignAssumption DEF Resting, Cycle, CycleAt, Nobody, Unmapped
<1> QED
  BY <1>1, <1>2, <1>4 DEF Resting, Sane, Spending

LEMMA RecordBecomes ==
    ASSUME cycle \in [Cycles -> Cycle], NEW e \in Cycles, cycle[e].at # "idle",
           NEW x, CycleIs(e, x), NextRecord(cycle[e], x)
    PROVE  Moves(e) /\ cycle'[e] = x
<1>1. x \in Cycle
  BY DEF NextRecord
<1> QED
  BY <1>1 DEF CycleIs, Moves

LEMMA RecordRests ==
    ASSUME cycle \in [Cycles -> Cycle], NEW e \in Cycles, CycleIs(e, Resting)
    PROVE  Rests(e)
BY RestingRecord DEF CycleIs, Rests

LEMMA MissingCounts ==
    ASSUME CampaignTypeOK, NEW c \in Cycle
    PROVE  Missing(c) \in Int /\ Missing(c) <= Quota[c.of]
<1>1. c.of \in Campaigns
  BY DEF Cycle
<1>2. Attached(c.of, c.today) \in Nat
  BY PeopleFinite DEF Attached
<1>3. Quota[c.of] \in Nat
  BY <1>1, QuotaCounts
<1> QED
  BY <1>2, <1>3 DEF Missing
\* The steps of the cycle that keep its row and go on
Goes(e) ==
    \/ SenderReady(e) \/ NotFilled(e) \/ MapFilters(e) \/ ReadKnown(e) \/ CountMissing(e)
    \/ Search(e) \/ EnrichBatch(e) \/ (\E p \in People : StorePerson(e, p)) \/ AttachPerson(e)
    \/ Recount(e) \/ Widen(e) \/ Final(e) \/ Errs(e)

LEMMA SearchMoves ==
    ASSUME CampaignTypeOK, Records, NEW e \in Cycles, Search(e)
    PROVE  /\ Moves(e)
           /\ cycle'[e].got = cycle[e].got /\ cycle'[e].known = cycle[e].known
           /\ Pending(cycle'[e]) <= Pending(cycle[e])
<1> DEFINE c == cycle[e]
           hits == Hits(c.step, c.page)
           new == hits \ c.known
           todo == FirstOf(c.remaining - GotVerified(c), new)
<1>1. c \in Cycle /\ Sane(c) /\ c.at = "search" /\ cycle \in [Cycles -> Cycle]
  BY DEF CampaignTypeOK, Records, Search, CycleAtStep
<1>2. hits \in SUBSET People
  BY DEF Hits, FirstOf
<1>3. c.remaining - GotVerified(c) \in Nat
  BY <1>1, GotVerifiedCounts DEF Sane, Cycle
<1>4. todo \in SUBSET new /\ Cardinality(todo) <= c.remaining - GotVerified(c)
  BY <1>2, <1>3, FirstOfBound
<1>5. Cardinality(todo) \in Nat /\ todo \in SUBSET People
  BY <1>2, <1>4, PeopleFinite
<1>6. GotVerified(c) + Cardinality(todo) <= c.remaining
  BY <1>1, <1>4, <1>5, GotVerifiedCounts DEF Cycle
<1>7. todo \cap c.known = {}
  BY <1>4
<1> DEFINE more == todo # new
           full == Cardinality(hits) = PerPage
           pages == c.pages + 1
           x == IF hits = {}
                THEN [c EXCEPT !.at = "store", !.dry = TRUE]
                ELSE [c EXCEPT !.at = "enrich", !.todo = todo, !.pages = pages,
                               !.leftover = more, !.full = full]
<1>8. CycleIs(e, x)
  BY DEF Search
<1>9. pages \in Nat /\ more \in BOOLEAN /\ full \in BOOLEAN
  BY <1>1 DEF Cycle
<1> HIDE DEF c, hits, todo, more, full, pages
<1>10. NextRecord(c, x) /\ x.got = c.got /\ x.known = c.known /\ x.remaining = c.remaining
       /\ x.at \in {"store", "enrich"}
  <2>1. NextRecord(c, [c EXCEPT !.at = "store", !.dry = TRUE])
    BY <1>1, DryRecord
  <2>2. NextRecord(c, [c EXCEPT !.at = "enrich", !.todo = todo, !.pages = pages,
                                !.leftover = more, !.full = full])
    BY <1>1, <1>5, <1>6, <1>7, <1>9, PageRecord
  <2> QED
    BY <1>1, <2>1, <2>2 DEF Cycle
<1> HIDE DEF x
<1>11. Pending(x) <= Pending(c)
  BY <1>1, <1>10 DEF NextRecord, Sane, Spending, Pending, Cycle
<1> QED
  BY <1>1, <1>8, <1>10, <1>11, RecordBecomes DEF c

LEMMA EnrichMoves ==
    ASSUME CampaignTypeOK, Records, NEW e \in Cycles, EnrichBatch(e)
    PROVE  /\ Moves(e)
           /\ Pending(cycle'[e]) <= Pending(cycle[e])
           /\ \E them \in SUBSET cycle[e].todo :
                 /\ cycle'[e].got = cycle[e].got \cup them
                 /\ cycle'[e].known = cycle[e].known \cup them
                 /\ paid' = [p \in People |-> IF p \in them THEN paid[p] + 1 ELSE paid[p]]
<1> DEFINE c == cycle[e]
           them == FirstOf(Batch, c.todo)
           after == [c EXCEPT !.todo = @ \ them, !.known = @ \cup them, !.got = @ \cup them]
           x == IF after.todo = {} \/ GotVerified(after) >= c.remaining
                THEN PageDone(after) ELSE after
<1>1. c \in Cycle /\ Sane(c) /\ c.at = "enrich" /\ cycle \in [Cycles -> Cycle]
  BY DEF CampaignTypeOK, Records, EnrichBatch, CycleAtStep
<1>2. them \in SUBSET c.todo
  BY DEF FirstOf
<1>3. /\ CycleIs(e, x)
      /\ paid' = [p \in People |-> IF p \in them THEN paid[p] + 1 ELSE paid[p]]
  BY DEF EnrichBatch
<1> HIDE DEF c, them
<1>4. NextRecord(c, after)
  BY <1>1, <1>2, BatchRecord
<1>5. after.at = "enrich" /\ after.remaining = c.remaining /\ after.got = c.got \cup them /\ after.known = c.known \cup them
  BY <1>1 DEF Cycle
<1> HIDE DEF after
<1>6. after \in Cycle /\ Sane(after)
  BY <1>4 DEF NextRecord
<1>7. NextRecord(c, PageDone(after)) /\ PageDone(after).got = after.got
      /\ PageDone(after).known = after.known /\ Pending(PageDone(after)) <= after.remaining
  BY <1>4, <1>5, <1>6, PageDoneRecord DEF NextRecord
<1>8. /\ NextRecord(c, x) /\ x.got = c.got \cup them /\ x.known = c.known \cup them
      /\ Pending(x) <= Pending(c)
  BY <1>1, <1>4, <1>5, <1>7 DEF Pending, Cycle
<1> HIDE DEF x
<1> QED
  BY <1>1, <1>2, <1>3, <1>8, RecordBecomes DEF c

LEMMA StoreMoves ==
    ASSUME CampaignTypeOK, Records, NEW e \in Cycles, NEW p \in People, StorePerson(e, p)
    PROVE  /\ Moves(e) /\ p \in cycle[e].got /\ cycle[e].at = "store"
           /\ cycle'[e].got = cycle[e].got \ {p} /\ cycle'[e].known = cycle[e].known
           /\ cycle'[e].at \in {"store", "attach"} /\ Pending(cycle'[e]) <= Pending(cycle[e])
<1> DEFINE c == cycle[e]
           x == IF p \in Verified \ Mailed
                THEN [c EXCEPT !.got = @ \ {p}, !.at = "attach", !.who = p]
                ELSE [c EXCEPT !.got = @ \ {p}]
<1>1. /\ c \in Cycle /\ Sane(c) /\ c.at = "store" /\ p \in c.got /\ CycleIs(e, x)
      /\ cycle \in [Cycles -> Cycle]
  BY DEF CampaignTypeOK, Records, StorePerson, CycleAtStep
<1> HIDE DEF c
<1>2. /\ NextRecord(c, x) /\ x.got = c.got \ {p} /\ x.known = c.known
      /\ x.at \in {"store", "attach"} /\ Pending(x) <= Pending(c)
  BY <1>1, StoreRecord DEF Cycle
<1> HIDE DEF x
<1> QED
  BY <1>1, <1>2, RecordBecomes DEF c
\* What the plain steps of an execution leave alone
Plain(e) ==
    /\ Moves(e)
    /\ cycle'[e].got = cycle[e].got /\ cycle'[e].known = cycle[e].known
    /\ Pending(cycle'[e]) <= Pending(cycle[e])

LEMMA CountMoves ==
    ASSUME CampaignTypeOK, Records, NEW e \in Cycles, SenderReady(e)
    PROVE  Plain(e) /\ cycle'[e].today = today /\ cycle'[e].at = "count"
<1> DEFINE c == cycle[e]
           x == [c EXCEPT !.at = "count", !.today = today]
<1>1. /\ c \in Cycle /\ Sane(c) /\ c.at = "sender" /\ CycleIs(e, x)
      /\ cycle \in [Cycles -> Cycle] /\ today \in Days
  BY DEF CampaignTypeOK, Records, SenderReady, CycleAtStep
<1> HIDE DEF c
<1>2. /\ NextRecord(c, x) /\ x.got = c.got /\ x.known = c.known /\ x.at = "count"
      /\ x.today = today
  BY <1>1, CountRecord DEF Cycle
<1> HIDE DEF x
<1>3. Pending(x) <= Pending(c)
  BY <1>1, <1>2 DEF Pending
<1> QED
  BY <1>1, <1>2, <1>3, RecordBecomes DEF c, Plain

LEMMA QuietMoves ==
    ASSUME CampaignTypeOK, Records, NEW e \in Cycles, NotFilled(e) \/ Final(e)
    PROVE  /\ Plain(e) /\ cycle'[e].at \in {"map", "done"}
           /\ cycle'[e].at = "done" => cycle[e].at = "final"
<1> DEFINE c == cycle[e]
<1>1. PICK at \in {"map", "done"} : /\ CycleIs(e, [c EXCEPT !.at = at])
                                    /\ at = "done" => c.at = "final"
  <2>1. ASSUME NotFilled(e) PROVE CycleIs(e, [c EXCEPT !.at = "map"])
    BY <2>1 DEF NotFilled, CycleTo
  <2>2. ASSUME Final(e) PROVE CycleIs(e, [c EXCEPT !.at = "done"]) /\ c.at = "final"
    BY <2>2 DEF Final, CycleTo, CycleAtStep
  <2> QED
    BY <2>1, <2>2
<1> DEFINE x == [c EXCEPT !.at = at]
<1>2. /\ c \in Cycle /\ Sane(c) /\ c.at \in {"count", "final"}
      /\ cycle \in [Cycles -> Cycle]
  BY DEF CampaignTypeOK, Records, NotFilled, Final, CycleAtStep
<1> HIDE DEF c
<1>3. at \in CycleAt \ (Spending \cup {"idle"}) /\ c.got = {}
  BY <1>2 DEF CycleAt, Spending, Sane
<1>4. /\ NextRecord(c, x) /\ x.got = c.got /\ x.known = c.known /\ x.at = at
  BY <1>2, <1>3, QuietRecord DEF Cycle
<1>5. CycleIs(e, x)
  BY <1>1
<1> HIDE DEF x
<1>6. Pending(x) <= Pending(c)
  BY <1>2, <1>4 DEF Pending
<1> QED
  BY <1>1, <1>2, <1>4, <1>5, <1>6, RecordBecomes DEF c, Plain

LEMMA MapMoves ==
    ASSUME CampaignTypeOK, Records, NEW e \in Cycles, MapFilters(e)
    PROVE  /\ Plain(e) /\ cycle'[e].at = "known"
           /\ cycle[e].at = "map"
           /\ cycle'[e].params = IF cycle[e].base.params = Unmapped
                                 THEN cycle[e].base.targeting ELSE cycle[e].base.params
<1> DEFINE c == cycle[e]
           b == c.base
           params == IF b.params = Unmapped THEN b.targeting ELSE b.params
           page == b.page
           step == b.step
           x == [c EXCEPT !.at = "known", !.params = params, !.page = page, !.step = step]
<1>1. /\ c \in Cycle /\ Sane(c) /\ c.at = "map" /\ CycleIs(e, x)
      /\ cycle \in [Cycles -> Cycle]
  BY DEF CampaignTypeOK, Records, MapFilters, CycleAtStep
<1>2. params \in Versions /\ page \in Nat /\ step \in 0..MaxStep
  BY <1>1 DEF Cycle, Campaign, Unmapped
<1> HIDE DEF c, params, page, step
<1>3. /\ NextRecord(c, x) /\ x.got = c.got /\ x.known = c.known /\ x.at = "known"
      /\ x.params = params
  BY <1>1, <1>2, MappedRecord DEF Cycle
<1> HIDE DEF x
<1>4. Pending(x) <= Pending(c)
  BY <1>1, <1>3 DEF Pending
<1> QED
  BY <1>1, <1>3, <1>4, RecordBecomes DEF c, params, Plain

LEMMA KnownMoves ==
    ASSUME CampaignTypeOK, Records, NEW e \in Cycles, ReadKnown(e)
    PROVE  /\ Moves(e) /\ cycle[e].at = "known" /\ cycle'[e].at = "missing"
           /\ cycle'[e].got = cycle[e].got /\ cycle'[e].known = stored
           /\ Pending(cycle'[e]) <= Pending(cycle[e])
<1> DEFINE c == cycle[e]
           x == [c EXCEPT !.at = "missing", !.known = stored]
<1>1. /\ c \in Cycle /\ Sane(c) /\ c.at = "known" /\ CycleIs(e, x)
      /\ cycle \in [Cycles -> Cycle] /\ stored \in SUBSET People
  BY DEF CampaignTypeOK, Records, ReadKnown, CycleAtStep
<1> HIDE DEF c
<1>2. /\ NextRecord(c, x) /\ x.got = c.got /\ x.known = stored /\ x.at = "missing"
  BY <1>1, KnownRecord DEF Cycle
<1> HIDE DEF x
<1>3. Pending(x) <= Pending(c)
  BY <1>1, <1>2 DEF Pending
<1> QED
  BY <1>1, <1>2, <1>3, RecordBecomes DEF c

\* The two steps that ask the database how many are missing
LEMMA MissingMoves ==
    ASSUME CampaignTypeOK, Records, NEW e \in Cycles, CountMissing(e)
    PROVE  /\ Moves(e) /\ cycle[e].at = "missing" /\ cycle'[e].at \in {"search", "final"}
           /\ cycle'[e].got = cycle[e].got /\ cycle'[e].known = cycle[e].known
           /\ cycle'[e].remaining = Missing(cycle[e])
           /\ cycle'[e].at = "search" => Missing(cycle[e]) > 0
<1> DEFINE c == cycle[e]
           n == Missing(c)
           at == IF n > 0 /\ c.step <= MaxStep THEN "search" ELSE "final"
           x == [c EXCEPT !.remaining = n, !.at = at]
<1>1. /\ c \in Cycle /\ Sane(c) /\ c.at = "missing" /\ CycleIs(e, x)
      /\ cycle \in [Cycles -> Cycle]
  BY DEF CampaignTypeOK, Records, CountMissing, CycleAtStep
<1>2. /\ n \in Int /\ at \in {"search", "final"}
      /\ at = "search" => n \in 1..Quota[c.of] /\ n > 0
  <2>1. c.of \in Campaigns
    BY <1>1 DEF Cycle
  <2> QED
    BY <1>1, <2>1, MissingCounts, QuotaCounts
<1> HIDE DEF c, n, at
<1>3. /\ NextRecord(c, x) /\ x.got = c.got /\ x.known = c.known /\ x.at = at
      /\ x.remaining = n
  BY <1>1, <1>2, MissingRecord DEF Cycle
<1> HIDE DEF x
<1> QED
  BY <1>1, <1>2, <1>3, RecordBecomes DEF c, n

LEMMA RecountMoves ==
    ASSUME CampaignTypeOK, Records, NEW e \in Cycles, Recount(e)
    PROVE  /\ Moves(e) /\ cycle[e].at = "store" /\ cycle[e].got = {}
           /\ cycle'[e].at \in {"widen", "final"}
           /\ cycle'[e].got = cycle[e].got /\ cycle'[e].known = cycle[e].known
           /\ cycle'[e].remaining = Missing(cycle[e])
           /\ cycle'[e].at = "widen" => Missing(cycle[e]) > 0
<1> DEFINE c == cycle[e]
           n == Missing(c)
           at == IF n > 0 /\ c.dry /\ c.step < MaxStep THEN "widen" ELSE "final"
           x == [c EXCEPT !.pages = 0, !.todo = {}, !.leftover = FALSE, !.full = FALSE,
                          !.remaining = n, !.at = at]
<1>1. /\ c \in Cycle /\ Sane(c) /\ c.at = "store" /\ c.got = {} /\ CycleIs(e, x)
      /\ cycle \in [Cycles -> Cycle]
  BY DEF CampaignTypeOK, Records, Recount, CycleAtStep
<1>2. /\ n \in Int /\ at \in {"widen", "final"}
      /\ at = "widen" => n \in 1..Quota[c.of] /\ n > 0 /\ c.step < MaxStep
  <2>1. c.of \in Campaigns
    BY <1>1 DEF Cycle
  <2> QED
    BY <1>1, <2>1, MissingCounts, QuotaCounts
<1> HIDE DEF c, n, at
<1>3. /\ NextRecord(c, x) /\ x.got = c.got /\ x.known = c.known /\ x.at = at
      /\ x.remaining = n
  BY <1>1, <1>2, RecountRecord DEF Cycle
<1> HIDE DEF x
<1> QED
  BY <1>1, <1>2, <1>3, RecordBecomes DEF c, n

LEMMA AttachMoves ==
    ASSUME CampaignTypeOK, Records, NEW e \in Cycles, AttachPerson(e)
    PROVE  /\ Moves(e) /\ cycle[e].at = "attach" /\ cycle'[e].at = "store"
           /\ cycle'[e].got = cycle[e].got /\ cycle'[e].known = cycle[e].known
           /\ Pending(cycle'[e]) + 1 = Pending(cycle[e])
<1> DEFINE c == cycle[e]
           x == [c EXCEPT !.at = "store", !.who = Nobody]
<1>1. /\ c \in Cycle /\ Sane(c) /\ c.at = "attach" /\ CycleIs(e, x)
      /\ cycle \in [Cycles -> Cycle]
  BY DEF CampaignTypeOK, Records, AttachPerson, CycleAtStep
<1> HIDE DEF c
<1>2. /\ NextRecord(c, x) /\ x.got = c.got /\ x.known = c.known /\ x.at = "store"
  BY <1>1, AttachedRecord DEF Cycle
<1> HIDE DEF x
<1>3. Pending(x) + 1 = Pending(c)
  BY <1>1, <1>2 DEF Pending, GotVerified
<1> QED
  BY <1>1, <1>2, <1>3, RecordBecomes DEF c

LEMMA WidenMoves ==
    ASSUME CampaignTypeOK, Records, NEW e \in Cycles, Widen(e)
    PROVE  /\ Plain(e) /\ cycle[e].at = "widen" /\ cycle'[e].at = "search"
           /\ cycle'[e].page = 1 /\ cycle'[e].step = cycle[e].step + 1
<1> DEFINE c == cycle[e]
           step == c.step + 1
           x == [c EXCEPT !.at = "search", !.step = step, !.page = 1, !.dry = FALSE]
<1>1. /\ c \in Cycle /\ Sane(c) /\ c.at = "widen" /\ CycleIs(e, x)
      /\ cycle \in [Cycles -> Cycle]
  BY DEF CampaignTypeOK, Records, Widen, CycleAtStep
<1>2. step \in 0..MaxStep
  BY <1>1, CampaignAssumption DEF Cycle, Sane
<1> HIDE DEF c, step
<1>3. /\ NextRecord(c, x) /\ x.got = c.got /\ x.known = c.known /\ x.at = "search"
      /\ x.remaining = c.remaining
      /\ x.page = 1 /\ x.step = step
  BY <1>1, <1>2, WidenRecord DEF Cycle
<1> HIDE DEF x
<1>4. Pending(x) <= Pending(c)
  BY <1>1, <1>3 DEF Pending, Cycle
<1> QED
  BY <1>1, <1>3, <1>4, RecordBecomes DEF c, step, Plain

LEMMA ErrMoves ==
    ASSUME CampaignTypeOK, Records, NEW e \in Cycles, Errs(e)
    PROVE  /\ Moves(e) /\ cycle'[e].at = "catch"
           /\ cycle'[e].got = {} /\ cycle'[e].known = cycle[e].known
           /\ Pending(cycle'[e]) <= Pending(cycle[e])
<1> DEFINE c == cycle[e]
           x == [c EXCEPT !.at = "catch", !.got = {}, !.who = Nobody]
<1>1. /\ c \in Cycle /\ Sane(c) /\ c.at # "idle" /\ CycleIs(e, x)
      /\ cycle \in [Cycles -> Cycle]
  BY DEF CampaignTypeOK, Records, Errs
<1> HIDE DEF c
<1>2. /\ NextRecord(c, x) /\ x.got = {} /\ x.known = c.known /\ x.at = "catch"
     
  BY <1>1, CaughtRecord DEF Cycle
<1> HIDE DEF x
<1>3. Pending(x) <= Pending(c)
  <2>1. GotVerified(c) \in Nat
    BY <1>1, GotVerifiedCounts
  <2> QED
    BY <1>1, <1>2, <2>1 DEF Pending, Sane, Spending
<1> QED
  BY <1>1, <1>2, <1>3, RecordBecomes DEF c

-----------------------------------------------------------------------------
\* Types

LEMMA MovesKeepRecords ==
    ASSUME Records, NEW e \in Cycles, Moves(e)
    PROVE  cycle' \in [Cycles -> Cycle] /\ Records'
BY DEF Records, Moves, NextRecord

LEMMA RestsKeepRecords ==
    ASSUME Records, NEW e \in Cycles, Rests(e)
    PROVE  cycle' \in [Cycles -> Cycle] /\ Records'
BY RestingRecord DEF Records, Rests

LEMMA CursorTypes ==
    ASSUME campaign \in [Campaigns -> Campaign], NEW c \in Campaigns,
           NEW row \in Campaign, Cursor(c, row)
    PROVE  campaign' \in [Campaigns -> Campaign]
BY DEF Cursor

\* What the cursor of an execution is written into
LEMMA MovedRow ==
    ASSUME CampaignTypeOK, NEW c \in Cycle
    PROVE  /\ Moved(c) \in Campaign
           /\ Moved(c).targeting = campaign[c.of].targeting /\ Moved(c).params = c.params
BY DEF CampaignTypeOK, Moved, Cycle, Campaign

LEMMA ConcludedRow ==
    ASSUME CampaignTypeOK, NEW c \in Cycle, NEW thin \in Nat
    PROVE  /\ Concluded(c, thin) \in Campaign
           /\ Concluded(c, thin).targeting = campaign[c.of].targeting
           /\ Concluded(c, thin).params = c.params
<1> DEFINE m == Moved(c)
<1>1. m \in Campaign /\ m.targeting = campaign[c.of].targeting /\ m.params = c.params
  BY MovedRow
<1>2. \/ Concluded(c, thin) = [m EXCEPT !.thin = thin, !.auto = "exhausted"]
      \/ \E next \in {"later", "due"} :
            Concluded(c, thin) = [m EXCEPT !.thin = thin, !.auto = "live", !.next = next]
  BY DEF Concluded
<1> HIDE DEF m
<1> QED
  BY <1>1, <1>2 DEF Campaign, AutoStatus, NextCycle

\* The row of a campaign that is switched, retargeted or archived
LEMMA SwitchedRow ==
    ASSUME CampaignTypeOK, NEW c \in Campaigns, NEW s \in AutoStatus
    PROVE  /\ Switched(c, s) \in Campaign /\ StartsOver(Switched(c, s)) \in Campaign
           /\ Switched(c, s).targeting = campaign[c].targeting
           /\ Switched(c, s).params = campaign[c].params
           /\ StartsOver(Switched(c, s)).params = Unmapped
<1>1. PICK next \in NextCycle : Switched(c, s) = [campaign[c] EXCEPT !.auto = s, !.next = next]
  BY DEF Switched, NextCycle
<1>2. campaign[c] \in Campaign /\ edits \in Versions
  BY CampaignAssumption DEF CampaignTypeOK, Versions
<1>3. /\ Switched(c, s) \in Campaign /\ Switched(c, s).targeting = campaign[c].targeting
      /\ Switched(c, s).params = campaign[c].params
  BY <1>1, <1>2 DEF Campaign
<1> DEFINE row == Switched(c, s)
<1> HIDE DEF row
<1>4. ASSUME NEW r \in Campaign
      PROVE  StartsOver(r) \in Campaign /\ StartsOver(r).params = Unmapped
  <2>1. Unmapped \in Versions \cup {-1} /\ 0 \in 0..MaxStep
    BY CampaignAssumption DEF Unmapped
  <2> QED
    BY <1>2, <2>1 DEF StartsOver, Campaign
<1> QED
  BY <1>3, <1>4

RowStates == {"none", "pending", "closed"} \cup Cycles

LEMMA EnqueuedTypes ==
    ASSUME CampaignTypeOK, NEW c \in Campaigns
    PROVE  CycleEnqueued(c) \in [Campaigns \X Days -> RowStates]
BY DEF CampaignTypeOK, CycleEnqueued, RowStates

LEMMA ReturnsRests ==
    ASSUME CampaignTypeOK, NEW e \in Cycles, Returns(e)
    PROVE  Rests(e) /\ cycleRow' \in [Campaigns \X Days -> RowStates]
BY RecordRests DEF CampaignTypeOK, Returns, RowStates

LEMMA EndsRest ==
    ASSUME CampaignTypeOK, NEW e \in Cycles,
           SenderMissing(e) \/ AlreadyFilled(e) \/ Done(e) \/ Catch(e) \/ CycleCrashes(e)
    PROVE  Rests(e) /\ cycleRow' \in [Campaigns \X Days -> RowStates]
<1>1. CASE SenderMissing(e) \/ AlreadyFilled(e) \/ Done(e)
  BY <1>1, ReturnsRests DEF SenderMissing, AlreadyFilled, Done
<1>2. CASE Catch(e) \/ CycleCrashes(e)
  <2>1. PICK s \in {"pending", "closed"} :
            cycleRow' = [cycleRow EXCEPT ![RowOfCycle(e)] = IF @ = e THEN s ELSE @]
    BY <1>2 DEF Catch, CycleCrashes
  <2>2. cycleRow' \in [Campaigns \X Days -> RowStates]
    BY <2>1 DEF CampaignTypeOK, RowStates
  <2>3. CycleIs(e, Resting) /\ cycle \in [Cycles -> Cycle]
    BY <1>2 DEF Catch, CycleCrashes, CampaignTypeOK
  <2> QED
    BY <2>2, <2>3, RecordRests
<1> QED
  BY <1>1, <1>2
\* Every table but that of the executions
LEMMA ExecutionTypes ==
    ASSUME CampaignTypeOK, Records, NEW e \in Cycles, CycleWorks(e) \/ CycleFails(e)
    PROVE  CampaignTypeOK' /\ Records'
<1> USE DEF NobodyElse, History, NothingFails, Fails
<1>1. CASE SenderReady(e)
  BY <1>1, CountMoves, MovesKeepRecords DEF Plain, CampaignTypeOK, SenderReady
<1>2. CASE NotFilled(e)
  BY <1>2, QuietMoves, MovesKeepRecords DEF Plain, CampaignTypeOK, NotFilled
<1>3. CASE MapFilters(e)
  <2> DEFINE b == cycle[e].base
             params == IF b.params = Unmapped THEN b.targeting ELSE b.params
             row == [campaign[OfCycle(e)] EXCEPT !.page = b.page, !.params = params]
  <2>1. b \in Campaign /\ OfCycle(e) \in Campaigns
    BY DEF CampaignTypeOK, Cycle, OfCycle
  <2>2. row \in Campaign
    BY <2>1 DEF CampaignTypeOK, Campaign, Unmapped
  <2>3. Cursor(OfCycle(e), row) \/ UNCHANGED campaign
    BY <1>3 DEF MapFilters
  <2> HIDE DEF row
  <2>4. campaign' \in [Campaigns -> Campaign]
    BY <2>1, <2>2, <2>3, CursorTypes DEF CampaignTypeOK
  <2> QED
    BY <1>3, <2>4, MapMoves, MovesKeepRecords DEF Plain, CampaignTypeOK, MapFilters
<1>4. CASE ReadKnown(e)
  BY <1>4, KnownMoves, MovesKeepRecords DEF CampaignTypeOK, ReadKnown
<1>5. CASE CountMissing(e)
  BY <1>5, MissingMoves, MovesKeepRecords DEF CampaignTypeOK, CountMissing
<1>6. CASE Search(e)
  BY <1>6, SearchMoves, MovesKeepRecords DEF CampaignTypeOK, Search
<1>7. CASE EnrichBatch(e)
  <2>1. paid' \in [People -> Nat]
    BY <1>7, EnrichMoves DEF CampaignTypeOK
  <2> QED
    BY <1>7, <2>1, EnrichMoves, MovesKeepRecords DEF CampaignTypeOK, EnrichBatch
<1>8. ASSUME NEW p \in People, StorePerson(e, p) PROVE CampaignTypeOK' /\ Records'
  BY <1>8, StoreMoves, MovesKeepRecords DEF CampaignTypeOK, StorePerson
<1>9. CASE AttachPerson(e)
  <2>1. attached' \in [Campaigns -> [People -> Days \cup {0}]]
    BY <1>9 DEF AttachPerson, CampaignTypeOK
  <2> QED
    BY <1>9, <2>1, AttachMoves, MovesKeepRecords DEF CampaignTypeOK, AttachPerson
<1>10. CASE Recount(e)
  <2>1. Moved(cycle[e]) \in Campaign /\ OfCycle(e) \in Campaigns
    BY MovedRow DEF CampaignTypeOK, Cycle, OfCycle
  <2>2. campaign' \in [Campaigns -> Campaign]
    BY <1>10, <2>1, CursorTypes DEF Recount, CampaignTypeOK
  <2> QED
    BY <1>10, <2>2, RecountMoves, MovesKeepRecords DEF CampaignTypeOK, Recount
<1>11. CASE Widen(e)
  <2>1. Moves(e) /\ cycle'[e] \in Cycle /\ Cursor(OfCycle(e), Moved(cycle'[e]))
    <3>1. Plain(e)
      BY <1>11, WidenMoves
    <3> DEFINE x == [cycle[e] EXCEPT !.at = "search", !.step = @ + 1, !.page = 1, !.dry = FALSE]
    <3>2. CycleIs(e, x) /\ Cursor(OfCycle(e), Moved(x))
      BY <1>11 DEF Widen
    <3> HIDE DEF x
    <3>3. cycle'[e] = x
      BY <3>2 DEF CycleIs, CampaignTypeOK
    <3> QED
      BY <3>1, <3>2, <3>3 DEF Plain, Moves
  <2>2. OfCycle(e) \in Campaigns
    BY DEF CampaignTypeOK, Cycle, OfCycle
  <2>3. \A c \in Cycle : Moved(c) \in Campaign
    BY MovedRow
  <2>4. campaign' \in [Campaigns -> Campaign]
    BY <2>1, <2>2, <2>3, CursorTypes DEF CampaignTypeOK
  <2> QED
    BY <1>11, <2>1, <2>4, MovesKeepRecords DEF CampaignTypeOK, Widen
<1>12. CASE Final(e)
  <2>1. PICK thin \in Nat : Cursor(OfCycle(e), Concluded(cycle[e], thin))
    <3>1. cycle[e].base.thin \in Nat
      BY DEF CampaignTypeOK, Cycle, Campaign
    <3> QED
      BY <1>12, <3>1 DEF Final
  <2>2. Concluded(cycle[e], thin) \in Campaign /\ OfCycle(e) \in Campaigns
    BY ConcludedRow DEF CampaignTypeOK, Cycle, OfCycle
  <2>3. campaign' \in [Campaigns -> Campaign]
    BY <2>1, <2>2, CursorTypes DEF CampaignTypeOK
  <2>4. UNCHANGED <<stored, attached, cycleRow, failures, patch, today, edits, paid, lost,
                    overlapped, disturbed>>
    BY <1>12 DEF Final
  <2> QED
    BY <1>12, <2>3, <2>4, QuietMoves, MovesKeepRecords DEF Plain, CampaignTypeOK
<1>13. CASE Errs(e)
  <2>1. lost' \in [People -> Nat]
    BY <1>13 DEF Errs, Thrown, CampaignTypeOK
  <2>2. failures' \in 0..MaxFailures
    BY <1>13, CampaignAssumption DEF Errs, CampaignTypeOK
  <2> QED
    BY <1>13, <2>1, <2>2, ErrMoves, MovesKeepRecords DEF CampaignTypeOK, Errs
<1>14. CASE SenderMissing(e) \/ AlreadyFilled(e) \/ Done(e) \/ Catch(e) \/ CycleCrashes(e)
  <2>1. /\ Rests(e) /\ cycleRow' \in [Campaigns \X Days -> RowStates]
        /\ cycle' \in [Cycles -> Cycle] /\ Records'
    BY <1>14, EndsRest, RestsKeepRecords
  <2>2. campaign[OfCycle(e)] \in Campaign /\ cycle[e].base.page \in Nat
        /\ OfCycle(e) \in Campaigns
    BY DEF CampaignTypeOK, Cycle, Campaign, OfCycle
  <2>3. campaign' \in [Campaigns -> Campaign]
    <3>1. CASE SenderMissing(e)
      <4>1. [campaign[OfCycle(e)] EXCEPT !.page = cycle[e].base.page,
                                         !.auto = "pending_sender"] \in Campaign
        BY <2>2 DEF Campaign, AutoStatus
      <4> QED
        BY <2>2, <3>1, <4>1, CursorTypes DEF SenderMissing, CampaignTypeOK
    <3>2. CASE AlreadyFilled(e)
      <4>1. [campaign[OfCycle(e)] EXCEPT !.page = cycle[e].base.page, !.next = "later",
                                         !.thin = 0, !.auto = "live"] \in Campaign
        BY <2>2 DEF Campaign, AutoStatus, NextCycle
      <4> QED
        BY <2>2, <3>2, <4>1, CursorTypes DEF AlreadyFilled, CampaignTypeOK
    <3>3. CASE Catch(e)
      <4>1. [campaign[OfCycle(e)] EXCEPT !.page = cycle[e].base.page, !.auto = "error",
                                         !.next = "later"] \in Campaign
        BY <2>2 DEF Campaign, AutoStatus, NextCycle
      <4> QED
        BY <2>2, <3>3, <4>1, CursorTypes DEF Catch, CampaignTypeOK
    <3>4. CASE Done(e) \/ CycleCrashes(e)
      BY <3>4 DEF Done, CycleCrashes, CampaignTypeOK
    <3> QED
      BY <1>14, <3>1, <3>2, <3>3, <3>4
  <2>4. /\ stored' = stored /\ attached' = attached /\ patch' = patch /\ today' = today
        /\ edits' = edits /\ paid' = paid /\ overlapped' = overlapped
        /\ failures' \in 0..MaxFailures
    BY <1>14, CampaignAssumption
       DEF SenderMissing, AlreadyFilled, Done, Catch, CycleCrashes, CampaignTypeOK
  <2>5. lost' \in [People -> Nat]
    BY <1>14 DEF SenderMissing, AlreadyFilled, Done, Catch, CycleCrashes, Thrown,
                 CampaignTypeOK
  <2>6. disturbed' \in [Campaigns -> SUBSET Interference]
    BY <1>14 DEF SenderMissing, AlreadyFilled, Done, Catch, CycleCrashes, Interference,
                 CampaignTypeOK
  <2> QED
    BY <2>1, <2>3, <2>4, <2>5, <2>6 DEF CampaignTypeOK, RowStates
<1>15. CASE RowLapses(e)
  <2>1. cycleRow' \in [Campaigns \X Days -> RowStates]
    BY <1>15 DEF RowLapses, CampaignTypeOK, RowStates
  <2>2. failures' \in 0..MaxFailures
    BY <1>15, CampaignAssumption DEF RowLapses, CampaignTypeOK
  <2> QED
    BY <1>15, <2>1, <2>2 DEF RowLapses, CampaignTypeOK, RowStates, Records
<1> QED
  BY <1>1, <1>2, <1>3, <1>4, <1>5, <1>6, <1>7, <1>8, <1>9, <1>10, <1>11, <1>12, <1>13, <1>14,
     <1>15 DEF CycleWorks, CycleFails
LEMMA TakeRowTypes ==
    ASSUME CampaignTypeOK, Records, NEW r \in Campaigns \X Days, NEW e \in Cycles, TakeRow(e, r)
    PROVE  /\ CampaignTypeOK' /\ Records'
           /\ \/ /\ cycleRow' = [cycleRow EXCEPT ![r] = e]
                 /\ \A f \in Cycles \ {e} : cycle'[f] = cycle[f]
                 /\ cycle'[e].at = "sender" /\ cycle'[e].of = r[1] /\ cycle'[e].day = r[2]
                 /\ cycle'[e].got = {} /\ cycle'[e].base = campaign[r[1]]
              \/ cycleRow' = [cycleRow EXCEPT ![r] = "closed"] /\ UNCHANGED cycle
<1>1. /\ r[1] \in Campaigns /\ r[2] \in Days /\ campaign[r[1]] \in Campaign
      /\ cycle \in [Cycles -> Cycle]
  BY DEF CampaignTypeOK
<1>2. UNCHANGED <<campaign, stored, attached, patch, today, failures, edits, paid, lost,
                  overlapped, disturbed>>
  BY DEF TakeRow, NothingFails, NobodyElse, History
<1>3. CASE campaign[r[1]].auto = "live"
  <2> DEFINE x == [Resting EXCEPT !.at = "sender", !.of = r[1], !.day = r[2],
                                  !.base = campaign[r[1]]]
  <2>1. cycleRow' = [cycleRow EXCEPT ![r] = e] /\ cycle' = [cycle EXCEPT ![e] = x]
    BY <1>3 DEF TakeRow, CycleIs
  <2>2. x \in Cycle
    BY <1>1, RestingRecord DEF Cycle, CycleAt
  <2>3. /\ x.at = "sender" /\ x.of = r[1] /\ x.day = r[2] /\ x.got = {}
        /\ x.base = campaign[r[1]]
    BY RestingRecord DEF Cycle
  <2> HIDE DEF x
  <2>4. Sane(x)
    BY <2>3 DEF Sane, Spending
  <2>5. cycle' \in [Cycles -> Cycle] /\ cycle'[e] = x /\ \A f \in Cycles \ {e} : cycle'[f] = cycle[f]
    BY <1>1, <2>1, <2>2
  <2>6. Records'
    BY <2>4, <2>5 DEF Records
  <2>7. cycleRow' \in [Campaigns \X Days -> RowStates]
    BY <2>1 DEF CampaignTypeOK, RowStates
  <2> QED
    BY <1>2, <2>1, <2>3, <2>5, <2>6, <2>7 DEF CampaignTypeOK, RowStates
<1>4. CASE campaign[r[1]].auto # "live"
  <2>1. cycleRow' = [cycleRow EXCEPT ![r] = "closed"] /\ UNCHANGED cycle
    BY <1>4 DEF TakeRow
  <2>2. cycleRow' \in [Campaigns \X Days -> RowStates]
    BY <2>1 DEF CampaignTypeOK, RowStates
  <2> QED
    BY <1>2, <2>1, <2>2 DEF CampaignTypeOK, RowStates, Records
<1> QED
  BY <1>3, <1>4

LEMMA DisturbsTypes ==
    ASSUME CampaignTypeOK, NEW c \in Campaigns, Disturbs(c)
    PROVE  /\ disturbed' \in [Campaigns -> SUBSET Interference]
           /\ \A d \in Campaigns : disturbed[d] \subseteq disturbed'[d]
           /\ \A d \in Campaigns : disturbed'[d] \subseteq disturbed[d] \cup {"edit"}
           /\ Busy(c) => "edit" \in disturbed'[c]
BY DEF CampaignTypeOK, Disturbs, Interference

LEMMA PatchWriteTypes ==
    ASSUME CampaignTypeOK, Records, NEW auto \in {"keep", "live", "paused"},
           NEW ready \in BOOLEAN, NEW retarget \in BOOLEAN, PatchWrite(auto, ready, retarget)
    PROVE  CampaignTypeOK' /\ Records'
<1> DEFINE c == patch.of
           s == Wanted(auto, ready)
<1>1. c \in Campaigns /\ s \in AutoStatus
  BY DEF CampaignTypeOK, Patch, Campaign, Wanted, AutoStatus
<1>2. /\ Cursor(c, IF retarget THEN StartsOver(Switched(c, s)) ELSE Switched(c, s))
      /\ cycleRow' = IF s = "live" /\ today \in Weekdays THEN CycleEnqueued(c) ELSE cycleRow
      /\ patch' = NoPatch /\ Disturbs(c)
      /\ UNCHANGED <<stored, attached, cycle, today, edits, paid, lost, overlapped, failures>>
  BY DEF PatchWrite, NothingFails
<1> HIDE DEF c, s
<1>3. campaign' \in [Campaigns -> Campaign]
  BY <1>1, <1>2, SwitchedRow, CursorTypes DEF CampaignTypeOK
<1>4. cycleRow' \in [Campaigns \X Days -> RowStates]
  BY <1>1, <1>2, EnqueuedTypes DEF CampaignTypeOK, RowStates
<1>5. patch' \in Patch
  BY <1>2, RestingRecord DEF NoPatch, Patch
<1>6. disturbed' \in [Campaigns -> SUBSET Interference]
  BY <1>1, <1>2, DisturbsTypes
<1> QED
  BY <1>2, <1>3, <1>4, <1>5, <1>6 DEF CampaignTypeOK, RowStates, Records

LEMMA CampaignTypeStep ==
    ASSUME CampaignTypeOK, Records, CampaignNext
    PROVE  CampaignTypeOK' /\ Records'
<1> USE DEF NobodyElse, History, NothingFails
<1>1. ASSUME NEW e \in Cycles, CycleWorks(e) \/ CycleFails(e)
      PROVE  CampaignTypeOK' /\ Records'
  BY <1>1, ExecutionTypes
<1>2. ASSUME NEW r \in Campaigns \X Days, TakesRow(r) PROVE CampaignTypeOK' /\ Records'
  BY <1>2, TakeRowTypes DEF TakesRow
<1>3. ASSUME NEW c \in Campaigns, EnqueueDue(c) PROVE CampaignTypeOK' /\ Records'
  BY <1>3, EnqueuedTypes DEF EnqueueDue, CampaignTypeOK, RowStates, Records
<1>4. CASE NewDay
  <2>1. campaign' \in [Campaigns -> Campaign]
    <3>1. \A c \in Campaigns : [campaign[c] EXCEPT !.next = "due"] \in Campaign
      BY DEF CampaignTypeOK, Campaign, NextCycle
    <3> QED
      BY <1>4, <3>1 DEF NewDay, CampaignTypeOK
  <2>2. disturbed' \in [Campaigns -> SUBSET Interference]
    BY <1>4 DEF NewDay, CampaignTypeOK, Interference
  <2> QED
    BY <1>4, <2>1, <2>2 DEF NewDay, CampaignTypeOK, Records
<1>5. ASSUME NEW c \in Campaigns, PatchRead(c) PROVE CampaignTypeOK' /\ Records'
  <2>1. patch' \in Patch
    BY <1>5 DEF PatchRead, Patch, CampaignTypeOK
  <2>2. edits' \in 0..MaxEdits
    BY <1>5, CampaignAssumption DEF PatchRead, CampaignTypeOK
  <2> QED
    BY <1>5, <2>1, <2>2 DEF PatchRead, CampaignTypeOK, Records
<1>6. ASSUME NEW auto \in {"keep", "live", "paused"}, NEW ready \in BOOLEAN,
             NEW retarget \in BOOLEAN, PatchWrite(auto, ready, retarget)
      PROVE  CampaignTypeOK' /\ Records'
  BY <1>6, PatchWriteTypes
<1>7. CASE PatchRefused
  <2>1. patch' \in Patch
    BY <1>7, RestingRecord DEF PatchRefused, NoPatch, Patch
  <2> QED
    BY <1>7, <2>1 DEF PatchRefused, CampaignTypeOK, Records
<1>8. ASSUME NEW c \in Campaigns, Archive(c) PROVE CampaignTypeOK' /\ Records'
  <2>1. [campaign[c] EXCEPT !.archived = TRUE, !.auto = "paused", !.next = "null"] \in Campaign
    BY DEF CampaignTypeOK, Campaign, AutoStatus, NextCycle
  <2>2. campaign' \in [Campaigns -> Campaign]
    BY <1>8, <2>1, CursorTypes DEF Archive, CampaignTypeOK
  <2>3. edits' \in 0..MaxEdits
    BY <1>8, CampaignAssumption DEF Archive, CampaignTypeOK
  <2>4. disturbed' \in [Campaigns -> SUBSET Interference]
    BY <1>8, DisturbsTypes DEF Archive
  <2> QED
    BY <1>8, <2>2, <2>3, <2>4 DEF Archive, CampaignTypeOK, Records
<1> QED
  BY <1>1, <1>2, <1>3, <1>4, <1>5, <1>6, <1>7, <1>8 DEF CampaignNext, Edits

-----------------------------------------------------------------------------
\* The row of an execution, and who is alone

\* An execution has its row until it lapses, and one row at a time is out.
RowsHeld ==
    overlapped \/ \A e \in Cycles : cycle[e].at # "idle" => cycleRow[RowOfCycle(e)] = e

OneRowOut ==
    \A r, s \in Campaigns \X Days :
        cycleRow[r] \in Cycles /\ cycleRow[s] \in Cycles => r = s

Ends(e) == SenderMissing(e) \/ AlreadyFilled(e) \/ Done(e) \/ Catch(e) \/ CycleCrashes(e)

LEMMA GoesMoves ==
    ASSUME CampaignTypeOK, Records, NEW e \in Cycles, Goes(e)
    PROVE  Moves(e) /\ UNCHANGED <<cycleRow, patch, today, edits, overlapped, disturbed>>
<1>1. Moves(e)
  BY SearchMoves, EnrichMoves, StoreMoves, CountMoves, QuietMoves, MapMoves, KnownMoves,
     MissingMoves, RecountMoves, AttachMoves, WidenMoves, ErrMoves DEF Goes, Plain
<1>2. UNCHANGED <<cycleRow, patch, today, edits, overlapped, disturbed>>
  BY DEF Goes, SenderReady, NotFilled, MapFilters, ReadKnown, CountMissing, Search,
         EnrichBatch, StorePerson, AttachPerson, Recount, Widen, Final, Errs, NobodyElse, History
<1> QED
  BY <1>1, <1>2

LEMMA EndsLeave ==
    ASSUME CampaignTypeOK, NEW e \in Cycles, Ends(e)
    PROVE  /\ Rests(e)
           /\ UNCHANGED <<stored, attached, patch, today, edits, paid, overlapped>>
           /\ \A r \in Campaigns \X Days :
                 \/ cycleRow'[r] = cycleRow[r] /\ (r = RowOfCycle(e) => cycleRow[r] # e)
                 \/ /\ cycleRow[r] = e /\ cycleRow'[r] \in {"pending", "closed"}
                    /\ r = RowOfCycle(e)
<1>1. Rests(e)
  BY EndsRest DEF Ends
<1>2. UNCHANGED <<stored, attached, patch, today, edits, paid, overlapped>>
  BY DEF Ends, SenderMissing, AlreadyFilled, Done, Catch, CycleCrashes, NobodyElse, History
<1>3. PICK s \in {"pending", "closed"} :
          cycleRow' = [cycleRow EXCEPT ![RowOfCycle(e)] = IF @ = e THEN s ELSE @]
  BY DEF Ends, SenderMissing, AlreadyFilled, Done, Catch, CycleCrashes, Returns
<1> QED
  BY <1>1, <1>2, <1>3 DEF CampaignTypeOK

\* Where a row is enqueued nobody has it.
LEMMA EnqueuedRows ==
    ASSUME CampaignTypeOK, NEW c \in Campaigns, cycleRow' \in {cycleRow, CycleEnqueued(c)}
    PROVE  \A r \in Campaigns \X Days :
              \/ cycleRow'[r] = cycleRow[r]
              \/ cycleRow[r] \notin Cycles /\ cycleRow'[r] \notin Cycles
BY CampaignAssumption DEF CampaignTypeOK, CycleEnqueued

\* The steps of the reconciler and the user leave the executions alone.
LEMMA OthersLeave ==
    ASSUME CampaignTypeOK,
           \/ \E c \in Campaigns : EnqueueDue(c) \/ PatchRead(c) \/ Archive(c)
           \/ \E auto \in {"keep", "live", "paused"}, ready, retarget \in BOOLEAN :
                  PatchWrite(auto, ready, retarget)
           \/ PatchRefused
    PROVE  /\ UNCHANGED <<stored, attached, cycle, today, paid, lost, overlapped>>
           /\ \E c \in Campaigns : cycleRow' \in {cycleRow, CycleEnqueued(c)}
<1> USE DEF NobodyElse, History, NothingFails
<1>1. CASE \E c \in Campaigns : EnqueueDue(c) \/ PatchRead(c) \/ Archive(c)
  BY <1>1 DEF EnqueueDue, PatchRead, Archive
<1>2. ASSUME NEW auto \in {"keep", "live", "paused"}, NEW ready \in BOOLEAN,
             NEW retarget \in BOOLEAN, PatchWrite(auto, ready, retarget)
      PROVE  /\ UNCHANGED <<stored, attached, cycle, today, paid, lost, overlapped>>
             /\ \E c \in Campaigns : cycleRow' \in {cycleRow, CycleEnqueued(c)}
  <2>1. patch.of \in Campaigns
    BY DEF CampaignTypeOK, Patch
  <2>2. cycleRow' \in {cycleRow, CycleEnqueued(patch.of)}
    BY <1>2 DEF PatchWrite
  <2> QED
    BY <1>2, <2>1, <2>2 DEF PatchWrite
<1>3. CASE PatchRefused
  BY <1>3, CampaignAssumption DEF PatchRefused
<1> QED
  BY <1>1, <1>2, <1>3

\* The steps, by what they do to an execution
LEMMA KindsOfSteps ==
    ASSUME CampaignNext
    PROVE  \/ \E e \in Cycles : Goes(e) \/ Ends(e) \/ RowLapses(e)
           \/ \E r \in Campaigns \X Days, e \in Cycles : TakeRow(e, r)
           \/ NewDay
           \/ \/ \E c \in Campaigns : EnqueueDue(c) \/ PatchRead(c) \/ Archive(c)
              \/ \E auto \in {"keep", "live", "paused"}, ready, retarget \in BOOLEAN :
                     PatchWrite(auto, ready, retarget)
              \/ PatchRefused
BY DEF CampaignNext, CycleWorks, CycleFails, Goes, Ends, TakesRow, Edits

LEMMA RowsStep ==
    ASSUME CampaignTypeOK, Records, RowsHeld, OneRowOut, CampaignNext
    PROVE  RowsHeld' /\ OneRowOut'
<1>1. ASSUME NEW e \in Cycles, Goes(e) PROVE RowsHeld' /\ OneRowOut'
  BY <1>1, GoesMoves DEF Moves, NextRecord, RowsHeld, OneRowOut, RowOfCycle
<1>2. ASSUME NEW e \in Cycles, Ends(e) PROVE RowsHeld' /\ OneRowOut'
  <2>1. \A f \in Cycles : RowOfCycle(f) \in Campaigns \X Days
    BY DEF CampaignTypeOK, Cycle, RowOfCycle
  <2>2. RowsHeld'
    BY <1>2, <2>1, EndsLeave, RestingRecord DEF Rests, RowsHeld, RowOfCycle
  <2>3. OneRowOut'
    BY <1>2, EndsLeave, CampaignAssumption DEF OneRowOut
  <2> QED
    BY <2>2, <2>3
<1>3. ASSUME NEW e \in Cycles, RowLapses(e) PROVE RowsHeld' /\ OneRowOut'
  BY <1>3, CampaignAssumption DEF RowLapses, RowsHeld, OneRowOut, CampaignTypeOK
<1>4. ASSUME NEW r \in Campaigns \X Days, NEW e \in Cycles, TakeRow(e, r)
      PROVE  RowsHeld' /\ OneRowOut'
  <2>1. \A s \in Campaigns \X Days : cycleRow[s] \notin Cycles
    BY <1>4 DEF TakeRow, CampaignTypeOK
  <2>2. \A f \in Cycles : RowOfCycle(f) \in Campaigns \X Days
    BY DEF CampaignTypeOK, Cycle, RowOfCycle
  <2>3. overlapped \/ \A f \in Cycles : cycle[f].at = "idle"
    BY <2>1, <2>2 DEF RowsHeld
  <2>4. overlapped' = overlapped
    BY <1>4 DEF TakeRow, History
  <2>5. CASE /\ cycleRow' = [cycleRow EXCEPT ![r] = e]
             /\ \A f \in Cycles \ {e} : cycle'[f] = cycle[f]
             /\ cycle'[e].of = r[1] /\ cycle'[e].day = r[2]
    <3>1. r = <<r[1], r[2]>>
      OBVIOUS
    <3>2. RowsHeld'
      BY <2>3, <2>4, <2>5, <3>1 DEF RowsHeld, RowOfCycle, CampaignTypeOK
    <3>3. OneRowOut'
      BY <2>1, <2>5 DEF OneRowOut, CampaignTypeOK
    <3> QED
      BY <3>2, <3>3
  <2>6. CASE cycleRow' = [cycleRow EXCEPT ![r] = "closed"] /\ UNCHANGED cycle
    BY <2>1, <2>3, <2>4, <2>6, CampaignAssumption DEF RowsHeld, OneRowOut, CampaignTypeOK
  <2> QED
    BY <1>4, <2>5, <2>6, TakeRowTypes
<1>5. CASE NewDay
  BY <1>5 DEF NewDay, RowsHeld, OneRowOut, RowOfCycle
<1>6. CASE \/ \E c \in Campaigns : EnqueueDue(c) \/ PatchRead(c) \/ Archive(c)
           \/ \E auto \in {"keep", "live", "paused"}, ready, retarget \in BOOLEAN :
                  PatchWrite(auto, ready, retarget)
           \/ PatchRefused
  <2>1. \A f \in Cycles : RowOfCycle(f) \in Campaigns \X Days
    BY DEF CampaignTypeOK, Cycle, RowOfCycle
  <2>2. \A r \in Campaigns \X Days :
            \/ cycleRow'[r] = cycleRow[r]
            \/ cycleRow[r] \notin Cycles /\ cycleRow'[r] \notin Cycles
    BY <1>6, OthersLeave, EnqueuedRows
  <2>3. UNCHANGED <<cycle, overlapped>>
    BY <1>6, OthersLeave
  <2> QED
    BY <2>1, <2>2, <2>3 DEF RowsHeld, OneRowOut, RowOfCycle
<1> QED
  BY <1>1, <1>2, <1>3, <1>4, <1>5, <1>6, KindsOfSteps

\* As long as no row has lapsed, one execution is at work.
LEMMA BusyAreFew ==
    ASSUME CampaignTypeOK, RowsHeld, OneRowOut,
           NEW S \in SUBSET Cycles, \A e \in S : cycle[e].at # "idle"
    PROVE  IsFiniteSet(S) /\ Cardinality(S) \in Nat /\ Cardinality(S) <= AtOnce
<1>1. IsFiniteSet(S) /\ Cardinality(S) \in Nat /\ Cardinality(S) <= Cardinality(Cycles)
  BY CampaignAssumption, FS_Subset, FS_CardinalityType
<1>2. CASE overlapped
  BY <1>1, <1>2 DEF AtOnce
<1>3. CASE ~overlapped
  <2>1. \A e, f \in S : e = f
    <3> SUFFICES ASSUME NEW e \in S, NEW f \in S PROVE e = f
      OBVIOUS
    <3>1. cycleRow[RowOfCycle(e)] = e /\ cycleRow[RowOfCycle(f)] = f
      BY <1>3 DEF RowsHeld
    <3>2. RowOfCycle(e) \in Campaigns \X Days /\ RowOfCycle(f) \in Campaigns \X Days
      BY DEF CampaignTypeOK, Cycle, RowOfCycle
    <3>3. RowOfCycle(e) = RowOfCycle(f)
      BY <3>1, <3>2 DEF OneRowOut
    <3> QED
      BY <3>1, <3>3
  <2>2. S = {} \/ \E e \in S : S = {e}
    BY <2>1
  <2>3. Cardinality(S) <= 1
    <3>1. CASE S = {}
      BY <3>1, FS_EmptySet
    <3>2. ASSUME NEW e \in S, S = {e} PROVE Cardinality(S) <= 1
      <4>1. Cardinality({e}) = 1
        BY FS_Singleton
      <4> QED
        BY <3>2, <4>1
    <3> QED
      BY <2>2, <3>1, <3>2
  <2> QED
    BY <1>1, <1>3, <2>3 DEF AtOnce
<1> QED
  BY <1>2, <1>3

-----------------------------------------------------------------------------
\* The search follows the targeting

\* The steps that have the filters
Mapped == {"known", "missing", "search", "enrich", "store", "attach", "widen", "final", "done"}

\* The row and whoever works from a copy of it agree on the targeting, and the
\* filters are those of the targeting.
Agrees(c) ==
    /\ campaign[c].params \in {Unmapped, campaign[c].targeting}
    /\ \A e \in Cycles : cycle[e].at # "idle" /\ cycle[e].of = c =>
          /\ cycle[e].base.targeting = campaign[c].targeting
          /\ cycle[e].base.params \in {Unmapped, cycle[e].base.targeting}
          /\ cycle[e].at \in Mapped => cycle[e].params = cycle[e].base.targeting

TargetingFollowed == \A c \in Campaigns : "edit" \in disturbed[c] \/ Agrees(c)

\* What an execution does to the targeting and the filters in the row
RowFollows(e) ==
    /\ \A c \in Campaigns : campaign'[c].targeting = campaign[c].targeting
    /\ \A c \in Campaigns :
          \/ campaign'[c].params = campaign[c].params
          \/ /\ c = cycle[e].of /\ cycle'[e].at \in Mapped
             /\ campaign'[c].params = cycle'[e].params

LEMMA CursorFollows ==
    ASSUME CampaignTypeOK, NEW e \in Cycles, NEW row \in Campaign, Cursor(OfCycle(e), row),
           row.targeting = campaign[OfCycle(e)].targeting,
           \/ row.params = campaign[OfCycle(e)].params
           \/ cycle'[e].at \in Mapped /\ row.params = cycle'[e].params
    PROVE  RowFollows(e)
<1>1. OfCycle(e) \in Campaigns
  BY DEF CampaignTypeOK, Cycle, OfCycle
<1> QED
  BY <1>1 DEF Cursor, RowFollows, OfCycle, CampaignTypeOK

LEMMA GoesFollows ==
    ASSUME CampaignTypeOK, Records, NEW e \in Cycles, Goes(e)
    PROVE  RowFollows(e)
<1>1. OfCycle(e) \in Campaigns /\ cycle[e] \in Cycle /\ campaign[OfCycle(e)] \in Campaign
  BY DEF CampaignTypeOK, Cycle, OfCycle
<1>2. CASE MapFilters(e)
  <2> DEFINE b == cycle[e].base
             params == IF b.params = Unmapped THEN b.targeting ELSE b.params
             row == [campaign[OfCycle(e)] EXCEPT !.page = b.page, !.params = params]
  <2>1. row \in Campaign /\ row.params = params /\ row.targeting = campaign[OfCycle(e)].targeting
    BY <1>1 DEF Cycle, Campaign, Unmapped
  <2>2. Cursor(OfCycle(e), row) \/ UNCHANGED campaign
    BY <1>2 DEF MapFilters
  <2>3. cycle'[e].at \in Mapped /\ cycle'[e].params = params
    BY <1>2, MapMoves DEF Mapped
  <2> HIDE DEF row, params
  <2>4. CASE UNCHANGED campaign
    BY <2>4 DEF RowFollows
  <2> QED
    BY <2>1, <2>2, <2>3, <2>4, CursorFollows
<1>3. CASE Recount(e)
  <2>1. Cursor(OfCycle(e), Moved(cycle[e]))
    BY <1>3 DEF Recount
  <2>2. /\ Moved(cycle[e]) \in Campaign
        /\ Moved(cycle[e]).targeting = campaign[OfCycle(e)].targeting
        /\ Moved(cycle[e]).params = cycle[e].params
    BY <1>1, MovedRow DEF OfCycle
  <2>3. cycle'[e].at \in Mapped /\ cycle'[e].params = cycle[e].params
    BY <1>3, RecountMoves DEF Mapped, Moves, NextRecord
  <2> QED
    BY <2>1, <2>2, <2>3, CursorFollows
<1>4. CASE Widen(e)
  <2> DEFINE x == [cycle[e] EXCEPT !.at = "search", !.step = @ + 1, !.page = 1, !.dry = FALSE]
  <2>1. CycleIs(e, x) /\ Cursor(OfCycle(e), Moved(x))
    BY <1>4 DEF Widen
  <2>2. x.of = OfCycle(e)
    BY <1>1 DEF Cycle, OfCycle
  <2> HIDE DEF x
  <2>3. cycle'[e] = x
    BY <2>1 DEF CycleIs, CampaignTypeOK
  <2>4. x \in Cycle /\ x.at \in Mapped
    BY <1>4, <2>3, WidenMoves DEF Plain, Moves, Mapped
  <2>5. /\ Moved(x) \in Campaign /\ Moved(x).targeting = campaign[OfCycle(e)].targeting
        /\ Moved(x).params = x.params
    BY <2>2, <2>4, MovedRow
  <2> QED
    BY <2>1, <2>3, <2>4, <2>5, CursorFollows
<1>5. CASE Final(e)
  <2>1. PICK thin \in Nat : Cursor(OfCycle(e), Concluded(cycle[e], thin))
    <3>1. cycle[e].base.thin \in Nat
      BY <1>1 DEF Cycle, Campaign
    <3> QED
      BY <1>5, <3>1 DEF Final
  <2>2. /\ Concluded(cycle[e], thin) \in Campaign
        /\ Concluded(cycle[e], thin).targeting = campaign[OfCycle(e)].targeting
        /\ Concluded(cycle[e], thin).params = cycle[e].params
    BY <1>1, ConcludedRow DEF OfCycle
  <2>3. cycle[e].at = "final" /\ cycle'[e].at = "done" /\ Moves(e)
    <3>1. CycleIs(e, [cycle[e] EXCEPT !.at = "done"]) /\ cycle[e].at = "final"
      BY <1>5 DEF Final, CycleTo, CycleAtStep
    <3> QED
      BY <1>1, <1>5, <3>1, QuietMoves DEF Plain, CycleIs, CampaignTypeOK, Cycle
  <2>4. cycle'[e].at \in Mapped /\ cycle'[e].params = cycle[e].params
    BY <2>3 DEF Mapped, Moves, NextRecord
  <2> QED
    BY <2>1, <2>2, <2>4, CursorFollows
<1>6. CASE UNCHANGED campaign
  BY <1>6 DEF RowFollows
<1> QED
  BY <1>2, <1>3, <1>4, <1>5, <1>6
     DEF Goes, SenderReady, NotFilled, ReadKnown, CountMissing, Search, EnrichBatch,
         StorePerson, AttachPerson, Errs

LEMMA EndsFollow ==
    ASSUME CampaignTypeOK, NEW e \in Cycles, Ends(e)
    PROVE  \A c \in Campaigns : /\ campaign'[c].targeting = campaign[c].targeting
                                /\ campaign'[c].params = campaign[c].params
<1>1. OfCycle(e) \in Campaigns /\ campaign[OfCycle(e)] \in Campaign
  BY DEF CampaignTypeOK, Cycle, OfCycle
<1>2. CASE SenderMissing(e)
  BY <1>1, <1>2 DEF SenderMissing, Cursor, CampaignTypeOK, Campaign
<1>3. CASE AlreadyFilled(e)
  BY <1>1, <1>3 DEF AlreadyFilled, Cursor, CampaignTypeOK, Campaign
<1>4. CASE Catch(e)
  BY <1>1, <1>4 DEF Catch, Cursor, CampaignTypeOK, Campaign
<1>5. CASE Done(e) \/ CycleCrashes(e)
  BY <1>5 DEF Done, CycleCrashes
<1> QED
  BY <1>2, <1>3, <1>4, <1>5 DEF Ends

\* An execution that has the filters had them, or has just mapped them.
LEMMA MappedBefore ==
    ASSUME CampaignTypeOK, Records, NEW e \in Cycles, Goes(e), cycle'[e].at \in Mapped
    PROVE  \/ cycle[e].at \in Mapped /\ cycle'[e].params = cycle[e].params
           \/ cycle'[e].params = IF cycle[e].base.params = Unmapped
                                 THEN cycle[e].base.targeting ELSE cycle[e].base.params
<1>1. CASE MapFilters(e)
  BY <1>1, MapMoves
<1>2. CASE ~MapFilters(e)
  <2>1. cycle[e].at \in Mapped
    <3>1. CASE SenderReady(e)
      <4>1. cycle'[e].at = "count"
        BY <3>1 DEF SenderReady, CycleIs, CampaignTypeOK, Cycle
      <4> QED
        BY <4>1 DEF Mapped
    <3>2. CASE NotFilled(e) \/ Final(e)
      BY <3>2, QuietMoves DEF Mapped
    <3>3. CASE Errs(e)
      BY <3>3, ErrMoves DEF Mapped
    <3>4. CASE \/ ReadKnown(e) \/ CountMissing(e) \/ Search(e) \/ EnrichBatch(e)
               \/ (\E p \in People : StorePerson(e, p)) \/ AttachPerson(e) \/ Recount(e)
               \/ Widen(e)
      BY <3>4 DEF ReadKnown, CountMissing, Search, EnrichBatch, StorePerson, AttachPerson,
                  Recount, Widen, CycleAtStep, Mapped
    <3> QED
      BY <1>2, <3>1, <3>2, <3>3, <3>4 DEF Goes
  <2> QED
    BY <2>1, GoesMoves DEF Moves, NextRecord, Mapped
<1> QED
  BY <1>1, <1>2

LEMMA TargetingStep ==
    ASSUME CampaignTypeOK, Records, TargetingFollowed, CampaignNext
    PROVE  TargetingFollowed'
<1>1. ASSUME NEW e \in Cycles, Goes(e) PROVE TargetingFollowed'
  <2>1. Moves(e) /\ disturbed' = disturbed /\ RowFollows(e)
    BY <1>1, GoesMoves, GoesFollows
  <2> SUFFICES ASSUME NEW c \in Campaigns, "edit" \notin disturbed[c] PROVE Agrees(c)'
    BY <2>1 DEF TargetingFollowed
  <2>2. Agrees(c)
    BY DEF TargetingFollowed
  <2>3. ASSUME NEW f \in Cycles, cycle'[f].at # "idle", cycle'[f].of = c
        PROVE  /\ cycle'[f].base.targeting = campaign'[c].targeting
               /\ cycle'[f].base.params \in {Unmapped, cycle'[f].base.targeting}
               /\ cycle'[f].at \in Mapped => cycle'[f].params = cycle'[f].base.targeting
    <3>1. CASE f # e
      BY <2>1, <2>2, <2>3, <3>1 DEF Moves, Agrees, RowFollows
    <3>2. CASE f = e
      <4>1. /\ cycle[e].at # "idle" /\ cycle[e].of = c /\ cycle'[e].base = cycle[e].base
        BY <2>1, <2>3, <3>2 DEF Moves, NextRecord
      <4>2. /\ cycle[e].base.targeting = campaign[c].targeting
            /\ cycle[e].base.params \in {Unmapped, cycle[e].base.targeting}
            /\ cycle[e].at \in Mapped => cycle[e].params = cycle[e].base.targeting
        BY <2>2, <4>1 DEF Agrees
      <4> QED
        BY <1>1, <2>1, <3>2, <4>1, <4>2, MappedBefore DEF RowFollows
    <3> QED
      BY <3>1, <3>2
  <2>4. campaign'[c].params \in {Unmapped, campaign'[c].targeting}
    <3>1. CASE campaign'[c].params = campaign[c].params
      BY <2>1, <2>2, <3>1 DEF RowFollows, Agrees
    <3>2. CASE campaign'[c].params # campaign[c].params
      <4>1. /\ c = cycle[e].of /\ cycle'[e].at \in Mapped
            /\ campaign'[c].params = cycle'[e].params
        BY <2>1, <3>2 DEF RowFollows
      <4>2. cycle'[e].of = c /\ cycle'[e].at # "idle"
        BY <2>1, <4>1 DEF Moves, NextRecord
      <4> QED
        BY <2>3, <4>1, <4>2
    <3> QED
      BY <3>1, <3>2
  <2> QED
    BY <2>3, <2>4 DEF Agrees
<1>2. ASSUME NEW e \in Cycles, Ends(e) PROVE TargetingFollowed'
  <2>1. \A c \in Campaigns : disturbed[c] \subseteq disturbed'[c]
    BY <1>2 DEF Ends, SenderMissing, AlreadyFilled, Done, Catch, CycleCrashes, History,
                CampaignTypeOK
  <2> QED
    BY <1>2, <2>1, EndsLeave, EndsFollow, RestingRecord DEF Rests, TargetingFollowed, Agrees
<1>3. ASSUME NEW e \in Cycles, RowLapses(e) PROVE TargetingFollowed'
  BY <1>3 DEF RowLapses, TargetingFollowed, Agrees
<1>4. ASSUME NEW r \in Campaigns \X Days, NEW e \in Cycles, TakeRow(e, r)
      PROVE  TargetingFollowed'
  <2>1. UNCHANGED <<campaign, disturbed>> /\ r[1] \in Campaigns
    BY <1>4 DEF TakeRow, History
  <2>2. CASE UNCHANGED cycle
    BY <2>1, <2>2 DEF TargetingFollowed, Agrees
  <2>3. CASE /\ \A f \in Cycles \ {e} : cycle'[f] = cycle[f]
             /\ cycle'[e].at = "sender" /\ cycle'[e].of = r[1]
             /\ cycle'[e].base = campaign[r[1]]
    BY <2>1, <2>3 DEF TargetingFollowed, Agrees, Mapped
  <2> QED
    BY <1>4, <2>2, <2>3, TakeRowTypes
<1>5. CASE NewDay
  <2>1. \A c \in Campaigns : /\ campaign'[c].targeting = campaign[c].targeting
                             /\ campaign'[c].params = campaign[c].params
                             /\ disturbed[c] \subseteq disturbed'[c]
    BY <1>5 DEF NewDay, CampaignTypeOK, Campaign
  <2> QED
    BY <1>5, <2>1 DEF NewDay, TargetingFollowed, Agrees
<1>7. ASSUME NEW c \in Campaigns, EnqueueDue(c) \/ PatchRead(c) PROVE TargetingFollowed'
  BY <1>7 DEF EnqueueDue, PatchRead, History, TargetingFollowed, Agrees
<1>8. ASSUME NEW c \in Campaigns, Disturbs(c), UNCHANGED cycle,
             \A d \in Campaigns \ {c} : campaign'[d] = campaign[d],
             \/ /\ campaign'[c].targeting = campaign[c].targeting
                /\ campaign'[c].params = campaign[c].params
             \/ campaign'[c].params = Unmapped
      PROVE  TargetingFollowed'
  <2>1. /\ \A d \in Campaigns : disturbed[d] \subseteq disturbed'[d]
        /\ Busy(c) => "edit" \in disturbed'[c]
    BY <1>8, DisturbsTypes
  <2> SUFFICES ASSUME NEW d \in Campaigns, "edit" \notin disturbed'[d] PROVE Agrees(d)'
    BY DEF TargetingFollowed
  <2>2. Agrees(d)
    BY <2>1 DEF TargetingFollowed
  <2>3. CASE d # c
    BY <1>8, <2>2, <2>3 DEF Agrees
  <2>4. CASE d = c
    <3>1. \A e \in Cycles : ~(cycle'[e].at # "idle" /\ cycle'[e].of = c)
      BY <1>8, <2>1, <2>4 DEF Busy, OfCycle
    <3>2. campaign'[c].params \in {Unmapped, campaign'[c].targeting}
      BY <1>8, <2>2, <2>4 DEF Agrees
    <3> QED
      BY <2>4, <3>1, <3>2 DEF Agrees
  <2> QED
    BY <2>3, <2>4
<1>9. ASSUME NEW c \in Campaigns, Archive(c) PROVE TargetingFollowed'
  <2>1. /\ Disturbs(c) /\ UNCHANGED cycle
        /\ campaign' = [campaign EXCEPT ![c] = [campaign[c] EXCEPT
               !.archived = TRUE, !.auto = "paused", !.next = "null"]]
    BY <1>9 DEF Archive, Cursor
  <2>2. /\ \A d \in Campaigns \ {c} : campaign'[d] = campaign[d]
        /\ campaign'[c].targeting = campaign[c].targeting
        /\ campaign'[c].params = campaign[c].params
    BY <2>1 DEF CampaignTypeOK, Campaign
  <2> QED
    BY <1>8, <2>1, <2>2
<1>10. ASSUME NEW auto \in {"keep", "live", "paused"}, NEW ready \in BOOLEAN,
              NEW retarget \in BOOLEAN, PatchWrite(auto, ready, retarget)
       PROVE  TargetingFollowed'
  <2> DEFINE c == patch.of
             s == Wanted(auto, ready)
  <2>1. c \in Campaigns /\ s \in AutoStatus
    BY DEF CampaignTypeOK, Patch, Campaign, Wanted, AutoStatus
  <2>2. /\ Cursor(c, IF retarget THEN StartsOver(Switched(c, s)) ELSE Switched(c, s))
        /\ Disturbs(c) /\ UNCHANGED cycle
    BY <1>10 DEF PatchWrite
  <2> HIDE DEF c, s
  <2>3. /\ \A d \in Campaigns \ {c} : campaign'[d] = campaign[d]
        /\ \/ /\ campaign'[c].targeting = campaign[c].targeting
              /\ campaign'[c].params = campaign[c].params
           \/ campaign'[c].params = Unmapped
    BY <2>1, <2>2, SwitchedRow DEF Cursor, CampaignTypeOK
  <2> QED
    BY <1>8, <2>1, <2>2, <2>3
<1>11. CASE PatchRefused
  BY <1>11 DEF PatchRefused, History, TargetingFollowed, Agrees
<1> QED
  BY <1>1, <1>2, <1>3, <1>4, <1>5, <1>7, <1>9, <1>10, <1>11, KindsOfSteps

-----------------------------------------------------------------------------
\* Nobody is paid for twice

\* From reading who is known to the end of the search, an execution may pay.
Paying == {"missing"} \cup Spending

\* Who has paid for p and not stored it, and who may still pay for p
Holding(p) == {e \in Cycles : p \in cycle[e].got}
MayPay(p)  == {e \in Cycles : cycle[e].at \in Paying /\ p \notin cycle[e].known}

\* Until p is stored every payment is held by an execution or lost; afterwards only
\* those who did not see p stored may pay, and they were at work with the one who
\* stored p.
PaidFor(p) ==
    IF p \in stored THEN paid[p] + Cardinality(MayPay(p)) <= lost[p] + AtOnce
    ELSE paid[p] <= lost[p] + Cardinality(Holding(p))

PaymentsAccounted == \A p \in People : PaidFor(p)

LEMMA FewCycles ==
    ASSUME NEW B \in SUBSET Cycles
    PROVE  /\ IsFiniteSet(B) /\ Cardinality(B) \in Nat
           /\ \A A \in SUBSET B : Cardinality(A) <= Cardinality(B)
           /\ \A e \in Cycles \ B : Cardinality(B \cup {e}) = Cardinality(B) + 1
           /\ \A e \in B : Cardinality(B \ {e}) = Cardinality(B) - 1
<1>1. IsFiniteSet(B)
  BY CampaignAssumption, FS_Subset
<1> QED
  BY <1>1, FS_CardinalityType, FS_Subset, FS_AddElement, FS_RemoveElement

LEMMA AtOnceType == AtOnce \in Nat
BY CampaignAssumption, FS_CardinalityType DEF AtOnce

\* A row that lapses lets one more execution work.
LEMMA LapseRaises ==
    ASSUME NEW e \in Cycles, overlapped' = TRUE
    PROVE  AtOnce' \in Nat /\ AtOnce' >= AtOnce
<1>1. AtOnce' = Cardinality(Cycles) /\ AtOnce \in {1, Cardinality(Cycles)}
  BY DEF AtOnce
<1>2. Cardinality(Cycles) \in Nat /\ Cardinality(Cycles) >= 1
  <2>1. IsFiniteSet(Cycles) /\ Cycles # {} /\ Cardinality(Cycles) \in Nat
    BY CampaignAssumption, FS_CardinalityType
  <2>2. Cardinality(Cycles) # 0
    BY <2>1, FS_EmptySet
  <2> QED
    BY <2>1, <2>2
<1> QED
  BY <1>1, <1>2

\* Who pays, stores and loses nothing keeps the account.
LEMMA PaidKept ==
    ASSUME CampaignTypeOK, NEW p \in People, PaidFor(p), UNCHANGED <<stored, paid>>,
           lost'[p] \in Nat, AtOnce' \in Nat, AtOnce' >= AtOnce, cycle' \in [Cycles -> Cycle],
           p \in stored => MayPay(p)' \subseteq MayPay(p) /\ lost'[p] >= lost[p],
           lost'[p] + Cardinality(Holding(p)') >= lost[p] + Cardinality(Holding(p))
    PROVE  PaidFor(p)'
<1>1. paid[p] \in Nat /\ lost[p] \in Nat /\ AtOnce \in Nat
  BY AtOnceType DEF CampaignTypeOK
<1>2. /\ MayPay(p) \in SUBSET Cycles /\ MayPay(p)' \in SUBSET Cycles
      /\ Holding(p) \in SUBSET Cycles /\ Holding(p)' \in SUBSET Cycles
  BY DEF MayPay, Holding
<1>3. CASE p \in stored
  <2>1. Cardinality(MayPay(p)') <= Cardinality(MayPay(p))
    BY <1>2, <1>3, FewCycles
  <2>2. Cardinality(MayPay(p)) \in Nat /\ Cardinality(MayPay(p)') \in Nat
    BY <1>2, FewCycles
  <2>3. paid[p] + Cardinality(MayPay(p)) <= lost[p] + AtOnce
    BY <1>3 DEF PaidFor
  <2>4. paid'[p] + Cardinality(MayPay(p)') <= lost'[p] + AtOnce'
    BY <1>1, <1>3, <2>1, <2>2, <2>3
  <2> QED
    BY <1>3, <2>4 DEF PaidFor
<1>4. CASE p \notin stored
  <2>1. Cardinality(Holding(p)) \in Nat /\ Cardinality(Holding(p)') \in Nat
    BY <1>2, FewCycles
  <2>2. paid[p] <= lost[p] + Cardinality(Holding(p))
    BY <1>4 DEF PaidFor
  <2>3. paid'[p] <= lost'[p] + Cardinality(Holding(p)')
    BY <1>1, <2>1, <2>2
  <2> QED
    BY <1>4, <2>3 DEF PaidFor
<1> QED
  BY <1>3, <1>4

\* The steps that go on without paying or storing
LEMMA QuietKeepsPaid ==
    ASSUME CampaignTypeOK, PaymentsAccounted, NEW e \in Cycles, Moves(e),
           UNCHANGED <<stored, paid, lost, overlapped>>, cycle'[e].got = cycle[e].got,
           \/ cycle'[e].known = stored
           \/ /\ cycle'[e].known = cycle[e].known
              /\ cycle'[e].at \in Paying => cycle[e].at \in Paying
    PROVE  PaymentsAccounted'
<1> SUFFICES ASSUME NEW p \in People PROVE PaidFor(p)'
  BY DEF PaymentsAccounted
<1>1. cycle' \in [Cycles -> Cycle] /\ \A f \in Cycles \ {e} : cycle'[f] = cycle[f]
  BY DEF Moves
<1>2. Holding(p)' = Holding(p)
  BY <1>1 DEF Holding
<1>3. p \in stored => MayPay(p)' \subseteq MayPay(p)
  BY <1>1 DEF MayPay
<1>4. AtOnce' = AtOnce /\ AtOnce \in Nat
  BY AtOnceType DEF AtOnce
<1>5. PaidFor(p) /\ lost[p] \in Nat /\ lost' = lost
  BY DEF PaymentsAccounted, CampaignTypeOK
<1>6. Cardinality(Holding(p)) \in Nat
  BY FewCycles DEF Holding
<1>7. lost'[p] + Cardinality(Holding(p)') >= lost[p] + Cardinality(Holding(p))
  BY <1>2, <1>5, <1>6
<1> QED
  BY <1>1, <1>3, <1>4, <1>5, <1>7, PaidKept
LEMMA EnrichKeepsPaid ==
    ASSUME CampaignTypeOK, Records, PaymentsAccounted, NEW e \in Cycles, EnrichBatch(e)
    PROVE  PaymentsAccounted'
<1>1. PICK them \in SUBSET cycle[e].todo :
          /\ Moves(e) /\ cycle'[e].got = cycle[e].got \cup them
          /\ cycle'[e].known = cycle[e].known \cup them
          /\ paid' = [p \in People |-> IF p \in them THEN paid[p] + 1 ELSE paid[p]]
  BY EnrichMoves
<1>2. /\ cycle[e].at = "enrich" /\ UNCHANGED <<stored, lost, overlapped>>
  BY DEF EnrichBatch, CycleAtStep
<1>3. cycle[e].todo \cap cycle[e].known = {} /\ cycle[e].got \subseteq cycle[e].known
  BY <1>2 DEF Records, Sane
<1>4. cycle' \in [Cycles -> Cycle] /\ \A f \in Cycles \ {e} : cycle'[f] = cycle[f]
  BY <1>1 DEF Moves
<1>5. AtOnce' = AtOnce /\ AtOnce \in Nat
  BY <1>2, AtOnceType DEF AtOnce
<1> SUFFICES ASSUME NEW p \in People PROVE PaidFor(p)'
  BY DEF PaymentsAccounted
<1>6. PaidFor(p) /\ paid[p] \in Nat /\ lost[p] \in Nat
  BY DEF PaymentsAccounted, CampaignTypeOK
<1>7. CASE p \in them
  <2>1. paid'[p] = paid[p] + 1
    BY <1>1, <1>7
  <2>2. Holding(p)' = Holding(p) \cup {e} /\ e \notin Holding(p) /\ Holding(p) \in SUBSET Cycles
    BY <1>1, <1>3, <1>4, <1>7 DEF Holding
  <2>3. MayPay(p)' = MayPay(p) \ {e} /\ e \in MayPay(p) /\ MayPay(p) \in SUBSET Cycles
    BY <1>1, <1>2, <1>3, <1>4, <1>7 DEF MayPay, Paying, Spending
  <2>4. /\ Cardinality(Holding(p)') = Cardinality(Holding(p)) + 1
        /\ Cardinality(MayPay(p)') = Cardinality(MayPay(p)) - 1
        /\ Cardinality(Holding(p)) \in Nat /\ Cardinality(MayPay(p)) \in Nat
    BY <2>2, <2>3, FewCycles
  <2>5. CASE p \in stored
    <3>1. paid[p] + Cardinality(MayPay(p)) <= lost[p] + AtOnce
      BY <1>6, <2>5 DEF PaidFor
    <3>2. paid'[p] + Cardinality(MayPay(p)') <= lost'[p] + AtOnce'
      BY <1>2, <1>5, <1>6, <2>1, <2>4, <3>1
    <3> QED
      BY <1>2, <2>5, <3>2 DEF PaidFor
  <2>6. CASE p \notin stored
    <3>1. paid[p] <= lost[p] + Cardinality(Holding(p))
      BY <1>6, <2>6 DEF PaidFor
    <3>2. paid'[p] <= lost'[p] + Cardinality(Holding(p)')
      BY <1>2, <1>6, <2>1, <2>4, <3>1
    <3> QED
      BY <1>2, <2>6, <3>2 DEF PaidFor
  <2> QED
    BY <2>5, <2>6
<1>8. CASE p \notin them
  <2>1. paid'[p] = paid[p]
    BY <1>1, <1>8
  <2>2. Holding(p)' = Holding(p) /\ Holding(p) \in SUBSET Cycles
    BY <1>1, <1>4, <1>8 DEF Holding
  <2>3. MayPay(p)' \in SUBSET MayPay(p) /\ MayPay(p) \in SUBSET Cycles
    BY <1>1, <1>2, <1>4, <1>8 DEF MayPay, Paying, Spending
  <2>4. /\ Cardinality(MayPay(p)') <= Cardinality(MayPay(p))
        /\ Cardinality(MayPay(p)') \in Nat /\ Cardinality(MayPay(p)) \in Nat
    BY <2>3, FewCycles
  <2>5. CASE p \in stored
    <3>1. paid[p] + Cardinality(MayPay(p)) <= lost[p] + AtOnce
      BY <1>6, <2>5 DEF PaidFor
    <3>2. paid'[p] + Cardinality(MayPay(p)') <= lost'[p] + AtOnce'
      BY <1>2, <1>5, <1>6, <2>1, <2>4, <3>1
    <3> QED
      BY <1>2, <2>5, <3>2 DEF PaidFor
  <2>6. CASE p \notin stored
    BY <1>2, <1>6, <2>1, <2>2, <2>6 DEF PaidFor
  <2> QED
    BY <2>5, <2>6
<1> QED
  BY <1>7, <1>8

LEMMA StoreKeepsPaid ==
    ASSUME CampaignTypeOK, Records, RowsHeld, OneRowOut, PaymentsAccounted,
           NEW e \in Cycles, NEW q \in People, StorePerson(e, q)
    PROVE  PaymentsAccounted'
<1>1. /\ Moves(e) /\ q \in cycle[e].got /\ cycle[e].at = "store"
      /\ cycle'[e].got = cycle[e].got \ {q} /\ cycle'[e].known = cycle[e].known
  BY StoreMoves
<1>2. stored' = stored \cup {q} /\ UNCHANGED <<paid, lost, overlapped>>
  BY DEF StorePerson, History
<1>3. \A f \in Cycles \ {e} : cycle'[f] = cycle[f]
  BY <1>1 DEF Moves
<1>4. AtOnce' = AtOnce /\ AtOnce \in Nat
  BY <1>2, AtOnceType DEF AtOnce
<1> SUFFICES ASSUME NEW p \in People PROVE PaidFor(p)'
  BY DEF PaymentsAccounted
<1>5. PaidFor(p) /\ paid[p] \in Nat /\ lost[p] \in Nat
  BY DEF PaymentsAccounted, CampaignTypeOK
<1>6. MayPay(p)' \in SUBSET MayPay(p) /\ MayPay(p) \in SUBSET Cycles /\ Holding(p) \in SUBSET Cycles
  BY <1>1, <1>3 DEF MayPay, Holding, Paying, Spending
<1>7. /\ Cardinality(MayPay(p)') <= Cardinality(MayPay(p))
      /\ Cardinality(MayPay(p)') \in Nat /\ Cardinality(MayPay(p)) \in Nat
      /\ Cardinality(Holding(p)) \in Nat
  BY <1>6, FewCycles
<1>8. CASE p \in stored
  <2>1. paid[p] + Cardinality(MayPay(p)) <= lost[p] + AtOnce
    BY <1>5, <1>8 DEF PaidFor
  <2>2. paid'[p] + Cardinality(MayPay(p)') <= lost'[p] + AtOnce'
    BY <1>2, <1>4, <1>5, <1>7, <2>1
  <2> QED
    BY <1>2, <1>8, <2>2 DEF PaidFor
<1>9. CASE p \notin stored /\ p = q
  <2>1. paid[p] <= lost[p] + Cardinality(Holding(p))
    BY <1>5, <1>9 DEF PaidFor
  <2>2. \A f \in Cycles : cycle[f].got # {} => cycle[f].at # "idle"
    BY DEF Records, Sane
  <2>3. Holding(p) \cap MayPay(p) = {}
    BY DEF Holding, MayPay, Records, Sane
  <2>4. \A f \in Holding(p) \cup MayPay(p) : cycle[f].at # "idle"
    BY <2>2 DEF Holding, MayPay, Paying, Spending
  <2>5. (Holding(p) \cup MayPay(p)) \in SUBSET Cycles
    BY <1>6
  <2>6. /\ Cardinality(Holding(p) \cup MayPay(p)) \in Nat
        /\ Cardinality(Holding(p) \cup MayPay(p)) <= AtOnce
    BY <2>4, <2>5, BusyAreFew
  <2>7. IsFiniteSet(Holding(p)) /\ IsFiniteSet(MayPay(p))
    BY <1>6, FewCycles
  <2>8. Cardinality(Holding(p) \cup MayPay(p)) = Cardinality(Holding(p)) + Cardinality(MayPay(p))
    <3>1. Cardinality(Holding(p) \cap MayPay(p)) = 0
      BY <2>3, FS_EmptySet
    <3>2. Cardinality(Holding(p) \cup MayPay(p))
             = Cardinality(Holding(p)) + Cardinality(MayPay(p))
               - Cardinality(Holding(p) \cap MayPay(p))
      BY <2>7, FS_Union
    <3> QED
      BY <1>7, <3>1, <3>2
  <2>9. paid'[p] + Cardinality(MayPay(p)') <= lost'[p] + AtOnce'
    BY <1>2, <1>4, <1>5, <1>7, <2>1, <2>6, <2>8
  <2> QED
    BY <1>2, <1>9, <2>9 DEF PaidFor
<1>10. CASE p \notin stored /\ p # q
  <2>1. Holding(p)' = Holding(p)
    BY <1>1, <1>3, <1>10 DEF Holding
  <2> QED
    BY <1>2, <1>5, <1>10, <2>1 DEF PaidFor
<1> QED
  BY <1>8, <1>9, <1>10

\* Who loses what it has paid for, or has nothing of it left, at an end
LEMMA EndKeepsPaid ==
    ASSUME CampaignTypeOK, PaymentsAccounted, NEW e \in Cycles,
           cycle' \in [Cycles -> Cycle], \A f \in Cycles \ {e} : cycle'[f] = cycle[f],
           cycle'[e].got = {}, cycle'[e].at \notin Paying,
           UNCHANGED <<stored, paid, overlapped>>,
           Thrown(e) \/ (UNCHANGED lost /\ cycle[e].got = {})
    PROVE  PaymentsAccounted'
<1> SUFFICES ASSUME NEW p \in People PROVE PaidFor(p)'
  BY DEF PaymentsAccounted
<1>1. PaidFor(p) /\ lost[p] \in Nat
  BY DEF PaymentsAccounted, CampaignTypeOK
<1>2. lost'[p] = IF p \in cycle[e].got THEN lost[p] + 1 ELSE lost[p]
  BY DEF Thrown
<1>3. AtOnce' = AtOnce /\ AtOnce \in Nat
  BY AtOnceType DEF AtOnce
<1>4. MayPay(p)' \subseteq MayPay(p)
  BY DEF MayPay
<1>5. Holding(p) \in SUBSET Cycles /\ Holding(p)' = Holding(p) \ {e}
  BY DEF Holding
<1>6. e \in Holding(p) <=> p \in cycle[e].got
  BY DEF Holding
<1>7. Cardinality(Holding(p)) \in Nat
  BY <1>5, FewCycles
<1>8. lost'[p] + Cardinality(Holding(p)') = lost[p] + Cardinality(Holding(p))
  <2>1. CASE p \in cycle[e].got
    BY <1>1, <1>2, <1>5, <1>6, <1>7, <2>1, FewCycles
  <2>2. CASE p \notin cycle[e].got
    <3>1. Holding(p)' = Holding(p)
      BY <1>5, <1>6, <2>2
    <3> QED
      BY <1>2, <2>2, <3>1
  <2> QED
    BY <2>1, <2>2
<1>9. lost'[p] + Cardinality(Holding(p)') >= lost[p] + Cardinality(Holding(p))
  BY <1>1, <1>7, <1>8
<1> QED
  BY <1>1, <1>2, <1>3, <1>4, <1>9, PaidKept
LEMMA GoesKeepsPaid ==
    ASSUME CampaignTypeOK, Records, RowsHeld, OneRowOut, PaymentsAccounted,
           NEW e \in Cycles, Goes(e)
    PROVE  PaymentsAccounted'
<1> USE DEF NobodyElse, History, NothingFails, CycleAtStep
<1>1. CASE EnrichBatch(e)
  BY <1>1, EnrichKeepsPaid
<1>2. CASE \E p \in People : StorePerson(e, p)
  BY <1>2, StoreKeepsPaid
<1>3. CASE Errs(e)
  <2>1. Thrown(e) /\ UNCHANGED <<stored, paid, overlapped>>
    BY <1>3 DEF Errs
  <2>2. /\ cycle' \in [Cycles -> Cycle] /\ \A f \in Cycles \ {e} : cycle'[f] = cycle[f]
        /\ cycle'[e].got = {} /\ cycle'[e].at = "catch"
    BY <1>3, ErrMoves DEF Moves
  <2>3. cycle'[e].at \notin Paying
    BY <2>2 DEF Paying, Spending
  <2> QED
    BY <2>1, <2>2, <2>3, EndKeepsPaid
<1>4. CASE SenderReady(e) \/ NotFilled(e) \/ MapFilters(e) \/ Final(e)
  <2>1. Plain(e) /\ cycle'[e].at \in {"count", "map", "known", "done"}
    BY <1>4, CountMoves, QuietMoves, MapMoves
  <2>2. UNCHANGED <<stored, paid, lost, overlapped>>
    BY <1>4 DEF SenderReady, NotFilled, MapFilters, Final
  <2> QED
    BY <2>1, <2>2, QuietKeepsPaid DEF Plain, Paying, Spending
<1>5. CASE ReadKnown(e)
  BY <1>5, KnownMoves, QuietKeepsPaid DEF ReadKnown
<1>6. CASE CountMissing(e) \/ Recount(e)
  BY <1>6, MissingMoves, RecountMoves, QuietKeepsPaid DEF CountMissing, Recount, Paying, Spending
<1>7. CASE Search(e)
  BY <1>7, SearchMoves, QuietKeepsPaid DEF Search, Paying, Spending
<1>8. CASE AttachPerson(e)
  BY <1>8, AttachMoves, QuietKeepsPaid DEF AttachPerson, Paying, Spending
<1>9. CASE Widen(e)
  BY <1>9, WidenMoves, QuietKeepsPaid DEF Plain, Widen, Paying, Spending
<1> QED
  BY <1>1, <1>2, <1>3, <1>4, <1>5, <1>6, <1>7, <1>8, <1>9 DEF Goes

LEMMA EndsKeepPaid ==
    ASSUME CampaignTypeOK, Records, PaymentsAccounted, NEW e \in Cycles, Ends(e)
    PROVE  PaymentsAccounted'
<1>1. /\ Rests(e) /\ UNCHANGED <<stored, paid, overlapped>>
  BY EndsLeave
<1>2. /\ cycle' \in [Cycles -> Cycle] /\ \A f \in Cycles \ {e} : cycle'[f] = cycle[f]
      /\ cycle'[e].got = {} /\ cycle'[e].at \notin Paying
  BY <1>1, RestingRecord DEF Rests, Paying, Spending
<1>3. CASE CycleCrashes(e)
  <2>1. Thrown(e)
    BY <1>3 DEF CycleCrashes
  <2> QED
    BY <1>1, <1>2, <2>1, EndKeepsPaid
<1>4. CASE SenderMissing(e) \/ AlreadyFilled(e) \/ Done(e) \/ Catch(e)
  <2>1. UNCHANGED lost /\ cycle[e].got = {}
    BY <1>4 DEF SenderMissing, AlreadyFilled, Done, Catch, CycleAtStep, History, Records, Sane
  <2> QED
    BY <1>1, <1>2, <2>1, EndKeepsPaid
<1> QED
  BY <1>3, <1>4 DEF Ends

LEMMA PaidStep ==
    ASSUME CampaignTypeOK, Records, RowsHeld, OneRowOut, PaymentsAccounted, CampaignNext
    PROVE  PaymentsAccounted'
<1>1. ASSUME NEW e \in Cycles, Goes(e) PROVE PaymentsAccounted'
  BY <1>1, GoesKeepsPaid
<1>2. ASSUME NEW e \in Cycles, Ends(e) PROVE PaymentsAccounted'
  BY <1>2, EndsKeepPaid
<1>3. ASSUME UNCHANGED <<stored, paid, lost, cycle>>, AtOnce' \in Nat, AtOnce' >= AtOnce
      PROVE  PaymentsAccounted'
  <2> SUFFICES ASSUME NEW p \in People PROVE PaidFor(p)'
    BY DEF PaymentsAccounted
  <2>1. PaidFor(p) /\ lost[p] \in Nat /\ cycle' \in [Cycles -> Cycle]
    BY <1>3 DEF PaymentsAccounted, CampaignTypeOK
  <2>2. Holding(p)' = Holding(p) /\ MayPay(p)' = MayPay(p) /\ Cardinality(Holding(p)) \in Nat
    BY <1>3, FewCycles DEF Holding, MayPay
  <2>3. lost'[p] + Cardinality(Holding(p)') >= lost[p] + Cardinality(Holding(p))
    BY <1>3, <2>1, <2>2
  <2> QED
    BY <1>3, <2>1, <2>2, <2>3, PaidKept
<1>4. ASSUME NEW e \in Cycles, RowLapses(e) PROVE PaymentsAccounted'
  <2>1. UNCHANGED <<stored, paid, lost, cycle>> /\ overlapped' = TRUE
    BY <1>4 DEF RowLapses
  <2> QED
    BY <1>3, <2>1, LapseRaises
<1>5. ASSUME NEW r \in Campaigns \X Days, NEW e \in Cycles, TakeRow(e, r)
      PROVE  PaymentsAccounted'
  <2>1. UNCHANGED <<stored, paid, lost, overlapped>> /\ cycle[e] = Resting
    BY <1>5 DEF TakeRow, History
  <2>2. AtOnce' = AtOnce /\ AtOnce \in Nat
    BY <2>1, AtOnceType DEF AtOnce
  <2>3. CASE UNCHANGED cycle
    BY <1>3, <2>1, <2>2, <2>3
  <2>4. CASE /\ \A f \in Cycles \ {e} : cycle'[f] = cycle[f]
             /\ cycle'[e].at = "sender" /\ cycle'[e].got = {}
    <3>1. cycle' \in [Cycles -> Cycle]
      BY <1>5, TakeRowTypes DEF CampaignTypeOK
    <3>2. cycle'[e].at \notin Paying /\ cycle[e].got = {}
      BY <2>1, <2>4, RestingRecord DEF Paying, Spending
    <3> QED
      BY <2>1, <2>4, <3>1, <3>2, EndKeepsPaid
  <2> QED
    BY <1>5, <2>3, <2>4, TakeRowTypes
<1>6. CASE \/ NewDay
           \/ \E c \in Campaigns : EnqueueDue(c) \/ PatchRead(c) \/ Archive(c)
           \/ \E auto \in {"keep", "live", "paused"}, ready, retarget \in BOOLEAN :
                  PatchWrite(auto, ready, retarget)
           \/ PatchRefused
  <2>1. UNCHANGED <<stored, paid, lost, cycle, overlapped>>
    <3>1. CASE NewDay
      BY <3>1 DEF NewDay
    <3> QED
      BY <1>6, <3>1, OthersLeave
  <2>2. AtOnce' = AtOnce /\ AtOnce \in Nat
    BY <2>1, AtOnceType DEF AtOnce
  <2> QED
    BY <1>3, <2>1, <2>2
<1> QED
  BY <1>1, <1>2, <1>4, <1>5, <1>6, KindsOfSteps

LEMMA AccountsAreBounded ==
    ASSUME CampaignTypeOK, Records, RowsHeld, OneRowOut, PaymentsAccounted
    PROVE  PaidOnce
<1> SUFFICES ASSUME NEW p \in People PROVE paid[p] <= AtOnce + lost[p]
  BY DEF PaidOnce
<1>1. paid[p] \in Nat /\ lost[p] \in Nat /\ AtOnce \in Nat /\ PaidFor(p)
  BY AtOnceType DEF CampaignTypeOK, PaymentsAccounted
<1>2. CASE p \in stored
  <2>1. Cardinality(MayPay(p)) \in Nat
    BY FewCycles DEF MayPay
  <2>2. paid[p] + Cardinality(MayPay(p)) <= lost[p] + AtOnce
    BY <1>1, <1>2 DEF PaidFor
  <2> QED
    BY <1>1, <2>1, <2>2
<1>3. CASE p \notin stored
  <2>1. \A f \in Holding(p) : cycle[f].at # "idle"
    BY DEF Holding, Records, Sane
  <2>2. Cardinality(Holding(p)) \in Nat /\ Cardinality(Holding(p)) <= AtOnce
    BY <2>1, BusyAreFew DEF Holding
  <2>3. paid[p] <= lost[p] + Cardinality(Holding(p))
    BY <1>1, <1>3 DEF PaidFor
  <2> QED
    BY <1>1, <2>2, <2>3
<1> QED
  BY <1>2, <1>3

-----------------------------------------------------------------------------
\* The quota of a day

\* The people an execution may still attach, each with a slot of the quota
Slots(c) == {s \in Cycles \X (1..Quota[c]) :
                cycle[s[1]].of = c /\ s[2] <= Pending(cycle[s[1]])}

\* An execution counts the day it works on.
CountsToday(c) ==
    \A e \in Cycles : cycle[e].of = c /\ cycle[e].at \notin {"idle", "sender"} =>
        cycle[e].today = today

\* Those attached today and those that may still be are within the quota.
WithinQuota(c) ==
    /\ CountsToday(c)
    /\ \A d \in Days : Attached(c, d) <= AtOnce * Quota[c]
    /\ Attached(c, today) + Cardinality(Slots(c)) <= AtOnce * Quota[c]

QuotaHeld == \A c \in Campaigns : "midnight" \in disturbed[c] \/ WithinQuota(c)

\* Nobody is attached on a day to come.
NoneAhead == \A c \in Campaigns, p \in People : attached[c][p] <= today

LEMMA FewSlots ==
    ASSUME NEW c \in Campaigns, NEW B \in SUBSET (Cycles \X (1..Quota[c]))
    PROVE  /\ IsFiniteSet(B) /\ Cardinality(B) \in Nat
           /\ \A A \in SUBSET B : Cardinality(A) \in Nat /\ Cardinality(A) <= Cardinality(B)
           /\ \A s \in B : Cardinality(B \ {s}) = Cardinality(B) - 1
<1>1. IsFiniteSet(1..Quota[c]) /\ IsFiniteSet(Cycles)
  BY QuotaCounts, CampaignAssumption, FS_Interval
<1>2. IsFiniteSet(Cycles \X (1..Quota[c]))
  BY <1>1, FS_Product
<1>3. IsFiniteSet(B)
  BY <1>2, FS_Subset
<1>4. \A A \in SUBSET B : IsFiniteSet(A) /\ Cardinality(A) <= Cardinality(B)
  BY <1>3, FS_Subset
<1> QED
  BY <1>3, <1>4, FS_CardinalityType, FS_RemoveElement

LEMMA PendingBound ==
    ASSUME NEW c \in Cycle, Sane(c)
    PROVE  Pending(c) \in Nat /\ Pending(c) <= Quota[c.of] /\ (Pending(c) # 0 => c.at # "idle")
<1>1. c.of \in Campaigns /\ c.remaining \in Int
  BY DEF Cycle
<1>2. GotVerified(c) \in Nat /\ Quota[c.of] \in Nat
  BY <1>1, GotVerifiedCounts, QuotaCounts
<1> QED
  BY <1>1, <1>2 DEF Pending, Sane, Spending

\* A product grows with its first factor.
LEMMA ProductGrows ==
    ASSUME NEW a \in Nat, NEW b \in Nat, NEW q \in Nat, a <= b
    PROVE  a * q \in Nat /\ b * q \in Nat /\ a * q <= b * q
OBVIOUS

\* The slots of all but one execution leave room for a whole quota.
LEMMA OthersSlots ==
    ASSUME CampaignTypeOK, Records, RowsHeld, OneRowOut, NEW c \in Campaigns,
           NEW e \in Cycles, cycle[e].at # "idle",
           NEW B \in SUBSET Slots(c), \A s \in B : s[1] # e
    PROVE  Cardinality(B) \in Nat /\ Cardinality(B) + Quota[c] <= AtOnce * Quota[c]
<1> DEFINE others == {f \in Cycles \ {e} : cycle[f].at # "idle"}
           q == Quota[c]
           n == Cardinality(others)
<1>1. q \in Nat /\ AtOnce \in Nat
  BY QuotaCounts, AtOnceType
<1>2. IsFiniteSet(others) /\ n \in Nat /\ n + 1 <= AtOnce
  <2>1. (others \cup {e}) \in SUBSET Cycles /\ \A f \in others \cup {e} : cycle[f].at # "idle"
    OBVIOUS
  <2>2. Cardinality(others \cup {e}) <= AtOnce
    BY <2>1, BusyAreFew
  <2>3. others \in SUBSET Cycles /\ e \in Cycles \ others
    OBVIOUS
  <2> HIDE DEF others
  <2> QED
    BY <2>2, <2>3, FewCycles
<1>3. B \in SUBSET (others \X (1..q))
  <2> SUFFICES ASSUME NEW s \in B PROVE s \in others \X (1..q)
    OBVIOUS
  <2>1. s \in Cycles \X (1..q) /\ s[2] <= Pending(cycle[s[1]]) /\ s[1] # e
    BY DEF Slots
  <2>2. s[2] >= 1 /\ s[2] \in Int /\ s[1] \in Cycles
    BY <1>1, <2>1
  <2>3. cycle[s[1]] \in Cycle /\ Sane(cycle[s[1]])
    BY <2>2 DEF CampaignTypeOK, Records
  <2>4. Pending(cycle[s[1]]) # 0
    BY <2>1, <2>2, <2>3, PendingBound
  <2>5. s[1] \in others
    BY <2>1, <2>2, <2>3, <2>4, PendingBound
  <2> QED
    BY <2>1, <2>5
<1>4. IsFiniteSet(others \X (1..q)) /\ Cardinality(others \X (1..q)) = n * q
  <2> HIDE DEF n, q, others
  <2>1. IsFiniteSet(1..q) /\ Cardinality(1..q) = q
    BY <1>1, FS_Interval
  <2> USE DEF n
  <2> QED
    BY <1>2, <2>1, FS_Product
<1>5. IsFiniteSet(B) /\ Cardinality(B) \in Nat /\ Cardinality(B) <= n * q
  BY <1>3, <1>4, FS_Subset, FS_CardinalityType
<1> HIDE DEF n, q
<1>6. (n + 1) * q = n * q + q /\ n * q \in Nat
  BY <1>1, <1>2
<1>7. (n + 1) * q <= AtOnce * q
  BY <1>1, <1>2, ProductGrows
<1>8. AtOnce * q \in Nat /\ (n + 1) * q \in Nat
  BY <1>1, <1>2, ProductGrows
<1> QED
  BY <1>1, <1>5, <1>6, <1>7, <1>8 DEF q

\* What a step that attaches nobody else leaves within the quota
LEMMA WithinKept ==
    ASSUME CampaignTypeOK, NEW c \in Campaigns, WithinQuota(c), today' = today,
           AtOnce' \in Nat, AtOnce' >= AtOnce, CountsToday(c)', attached' \in [Campaigns -> [People -> Days \cup {0}]],
           \A d \in Days \ {today} : Attached(c, d)' <= Attached(c, d),
           Attached(c, today)' + Cardinality(Slots(c)') <= AtOnce * Quota[c]
    PROVE  WithinQuota(c)'
<1>1. Quota[c] \in Nat /\ AtOnce \in Nat
  BY QuotaCounts, AtOnceType
<1>2. /\ AtOnce * Quota[c] \in Nat /\ AtOnce' * Quota[c] \in Nat
      /\ AtOnce * Quota[c] <= AtOnce' * Quota[c]
  BY <1>1, ProductGrows
<1>3. \A d \in Days : Attached(c, d) \in Nat /\ Attached(c, d)' \in Nat
  BY PeopleFinite DEF Attached
<1>4. today \in Days /\ Attached(c, today)' \in Nat
  BY <1>3 DEF CampaignTypeOK
<1>5. Cardinality(Slots(c)') \in Nat
  BY FewSlots DEF Slots
<1>6. \A d \in Days : Attached(c, d)' <= AtOnce * Quota[c]
  <2> SUFFICES ASSUME NEW d \in Days PROVE Attached(c, d)' <= AtOnce * Quota[c]
    OBVIOUS
  <2>1. CASE d = today
    <3>1. Attached(c, d)' = Attached(c, today)'
      BY <2>1 DEF Attached
    <3> QED
      BY <1>2, <1>4, <1>5, <3>1
  <2>2. CASE d # today
    <3>1. Attached(c, d)' <= Attached(c, d)
      BY <2>2
    <3>2. Attached(c, d) <= AtOnce * Quota[c]
      BY DEF WithinQuota
    <3> QED
      BY <1>2, <1>3, <3>1, <3>2
  <2> QED
    BY <2>1, <2>2
<1>7. \A d \in Days : Attached(c, d)' <= AtOnce' * Quota[c]
  BY <1>2, <1>3, <1>6
<1>8. Attached(c, today)' + Cardinality(Slots(c)') <= AtOnce' * Quota[c]
  BY <1>2, <1>4, <1>5
<1> QED
  BY <1>7, <1>8 DEF WithinQuota
LEMMA SlotsShrink ==
    ASSUME CampaignTypeOK, NEW c \in Campaigns, WithinQuota(c), UNCHANGED <<attached, today>>,
           AtOnce' \in Nat, AtOnce' >= AtOnce, CountsToday(c)', Slots(c)' \subseteq Slots(c)
    PROVE  WithinQuota(c)'
<1>1. \A d \in Days : Attached(c, d)' = Attached(c, d) /\ Attached(c, d) \in Nat
  BY PeopleFinite DEF Attached
<1>2. today \in Days /\ attached' \in [Campaigns -> [People -> Days \cup {0}]]
  BY DEF CampaignTypeOK
<1>3. Attached(c, today)' = Attached(c, today) /\ Attached(c, today) \in Nat
  BY <1>1, <1>2 DEF Attached
<1>4. Slots(c) \in SUBSET (Cycles \X (1..Quota[c]))
  BY DEF Slots
<1>5. /\ Cardinality(Slots(c)) \in Nat /\ Cardinality(Slots(c)') \in Nat
      /\ Cardinality(Slots(c)') <= Cardinality(Slots(c))
  BY <1>4, FewSlots
<1>6. Attached(c, today) + Cardinality(Slots(c)) <= AtOnce * Quota[c]
  BY DEF WithinQuota
<1>7. AtOnce * Quota[c] \in Nat
  BY AtOnceType, QuotaCounts, ProductGrows
<1>8. Attached(c, today)' + Cardinality(Slots(c)') <= AtOnce * Quota[c]
  BY <1>3, <1>5, <1>6, <1>7
<1>9. \A d \in Days \ {today} : Attached(c, d)' <= Attached(c, d)
  BY <1>1
<1> QED
  BY <1>2, <1>8, <1>9, WithinKept

LEMMA MovesCount ==
    ASSUME NEW c \in Campaigns, CountsToday(c), NEW e \in Cycles, Moves(e), today' = today,
           cycle[e].at = "sender" => cycle'[e].today = today
    PROVE  CountsToday(c)'
BY DEF Moves, NextRecord, CountsToday

\* A step that adds nobody to those an execution may still attach
LEMMA MovesKeepQuota ==
    ASSUME CampaignTypeOK, Records, NEW c \in Campaigns, WithinQuota(c), NEW e \in Cycles,
           Moves(e), UNCHANGED <<attached, today, overlapped>>,
           cycle[e].of = c => Pending(cycle'[e]) <= Pending(cycle[e]),
           cycle[e].at = "sender" => cycle'[e].today = today
    PROVE  WithinQuota(c)'
<1>1. CountsToday(c)'
  BY MovesCount DEF WithinQuota
<1>2. AtOnce' = AtOnce /\ AtOnce \in Nat
  BY AtOnceType DEF AtOnce
<1>3. Slots(c)' \subseteq Slots(c)
  <2> SUFFICES ASSUME NEW s \in Cycles \X (1..Quota[c]), cycle'[s[1]].of = c,
                      s[2] <= Pending(cycle'[s[1]])
               PROVE  cycle[s[1]].of = c /\ s[2] <= Pending(cycle[s[1]])
    BY DEF Slots
  <2>1. CASE s[1] # e
    BY <2>1 DEF Moves
  <2>2. CASE s[1] = e
    <3>1. cycle[e].of = c
      BY <2>2 DEF Moves, NextRecord
    <3>2. /\ cycle[e] \in Cycle /\ Sane(cycle[e])
          /\ cycle'[e] \in Cycle /\ Sane(cycle'[e])
      BY DEF CampaignTypeOK, Records, Moves, NextRecord
    <3>3. Pending(cycle[e]) \in Nat /\ Pending(cycle'[e]) \in Nat
      BY <3>2, PendingBound
    <3>4. s[2] \in Int
      BY QuotaCounts
    <3>5. s[2] <= Pending(cycle'[e]) /\ Pending(cycle'[e]) <= Pending(cycle[e])
      BY <2>2, <3>1
    <3> QED
      BY <2>2, <3>1, <3>3, <3>4, <3>5
  <2> QED
    BY <2>1, <2>2
<1> QED
  BY <1>1, <1>2, <1>3, SlotsShrink

\* The count of those who are missing, by an execution that attaches no more of those
\* it had counted before
LEMMA ReadKeepsQuota ==
    ASSUME CampaignTypeOK, Records, RowsHeld, OneRowOut, NEW c \in Campaigns, WithinQuota(c),
           NEW e \in Cycles, CountMissing(e) \/ Recount(e)
    PROVE  WithinQuota(c)'
<1> DEFINE n == Missing(cycle[e])
<1>1. /\ Moves(e) /\ UNCHANGED <<attached, today, overlapped>>
      /\ cycle[e].at \in {"missing", "store"}
      /\ \/ cycle'[e].at = "final"
         \/ cycle'[e].at \in {"search", "widen"} /\ cycle'[e].remaining = n /\ n > 0
  BY MissingMoves, RecountMoves DEF CountMissing, Recount, NobodyElse, History
<1>2. /\ cycle[e] \in Cycle /\ Sane(cycle[e]) /\ cycle'[e] \in Cycle /\ Sane(cycle'[e])
      /\ cycle'[e].of = cycle[e].of
  BY <1>1 DEF CampaignTypeOK, Records, Moves, NextRecord
<1>3. Pending(cycle[e]) \in Nat
  BY <1>2, PendingBound
<1>4. CASE cycle'[e].at = "final" \/ cycle[e].of # c
  <2>1. cycle[e].of = c => Pending(cycle'[e]) <= Pending(cycle[e])
    BY <1>3, <1>4 DEF Pending
  <2> QED
    BY <1>1, <2>1, MovesKeepQuota
<1>5. CASE cycle'[e].at \in {"search", "widen"} /\ cycle[e].of = c
  <2> DEFINE B == {s \in Slots(c) : s[1] # e}
             N == {e} \X (1..n)
  <2>1. Pending(cycle'[e]) = n /\ n > 0 /\ n \in Nat /\ n <= Quota[c]
    <3>1. Pending(cycle'[e]) = n /\ n > 0
      BY <1>1, <1>5 DEF Pending
    <3>2. Missing(cycle[e]) \in Int /\ Missing(cycle[e]) <= Quota[cycle[e].of]
      BY <1>2, MissingCounts
    <3> QED
      BY <1>5, <3>1, <3>2
  <2>2. n = Quota[c] - Attached(c, today)
    <3>1. cycle[e].today = today
      BY <1>1, <1>5 DEF WithinQuota, CountsToday
    <3> QED
      BY <1>5, <3>1 DEF Missing
  <2>3. Attached(c, today) \in Nat /\ Attached(c, today)' = Attached(c, today)
    BY <1>1, PeopleFinite DEF Attached
  <2>4. Cardinality(B) \in Nat /\ Cardinality(B) + Quota[c] <= AtOnce * Quota[c] /\ IsFiniteSet(B)
    <3>1. B \in SUBSET Slots(c) /\ \A s \in B : s[1] # e
      OBVIOUS
    <3>2. cycle[e].at # "idle"
      BY <1>1
    <3>3. B \in SUBSET (Cycles \X (1..Quota[c]))
      BY DEF Slots
    <3> HIDE DEF B
    <3> QED
      BY <3>1, <3>2, <3>3, OthersSlots, FewSlots
  <2>5. IsFiniteSet(N) /\ Cardinality(N) = n
    <3> HIDE DEF n
    <3>1. IsFiniteSet(1..n) /\ Cardinality(1..n) = n
      BY <2>1, FS_Interval
    <3>2. IsFiniteSet({e}) /\ Cardinality({e}) = 1
      BY FS_Singleton
    <3>3. IsFiniteSet(N) /\ Cardinality(N) = 1 * n
      BY <3>1, <3>2, FS_Product
    <3> QED
      BY <2>1, <3>3
  <2>6. Slots(c)' \subseteq B \cup N
    <3> SUFFICES ASSUME NEW s \in Cycles \X (1..Quota[c]), cycle'[s[1]].of = c,
                        s[2] <= Pending(cycle'[s[1]])
                 PROVE  s \in B \cup N
      BY DEF Slots
    <3>1. CASE s[1] # e
      <4>1. cycle'[s[1]] = cycle[s[1]]
        BY <1>1, <3>1 DEF Moves
      <4> QED
        BY <3>1, <4>1 DEF Slots
    <3>2. CASE s[1] = e
      <4> HIDE DEF n
      <4>1. s[2] \in 1..Quota[c] /\ Quota[c] \in Int
        BY QuotaCounts
      <4>2. s[2] \in 1..n
        BY <2>1, <3>2, <4>1
      <4> QED
        BY <3>2, <4>2
    <3> QED
      BY <3>1, <3>2
  <2>7. Cardinality(Slots(c)') \in Nat /\ Cardinality(Slots(c)') <= Cardinality(B) + n
    <3> HIDE DEF B, N, n
    <3>1. IsFiniteSet(B \cup N) /\ Cardinality(B \cap N) \in Nat
      BY <2>4, <2>5, FS_Union, FS_Intersection, FS_CardinalityType
    <3>2. Cardinality(B \cup N) = Cardinality(B) + Cardinality(N) - Cardinality(B \cap N)
      BY <2>4, <2>5, FS_Union
    <3>3. IsFiniteSet(Slots(c)') /\ Cardinality(Slots(c)') <= Cardinality(B \cup N)
      BY <2>6, <3>1, FS_Subset
    <3>4. Cardinality(Slots(c)') \in Nat
      BY <3>3, FS_CardinalityType
    <3> QED
      BY <2>1, <2>4, <2>5, <3>1, <3>2, <3>3, <3>4
  <2>8. AtOnce * Quota[c] \in Nat /\ Quota[c] \in Nat
    BY AtOnceType, QuotaCounts, ProductGrows
  <2>9. Attached(c, today)' + Cardinality(Slots(c)') <= AtOnce * Quota[c]
    <3> HIDE DEF B, N, n
    <3> QED
      BY <2>1, <2>2, <2>3, <2>4, <2>7, <2>8
  <2>10. CountsToday(c)'
    BY <1>1, MovesCount DEF WithinQuota
  <2>11. AtOnce' = AtOnce /\ AtOnce \in Nat
    BY <1>1, AtOnceType DEF AtOnce
  <2>12. \A d \in Days \ {today} : Attached(c, d)' <= Attached(c, d)
    BY <1>1, PeopleFinite DEF Attached
  <2>13. attached' \in [Campaigns -> [People -> Days \cup {0}]]
    BY <1>1 DEF CampaignTypeOK
  <2> QED
    BY <1>1, <2>9, <2>10, <2>11, <2>12, <2>13, WithinKept
<1> QED
  BY <1>1, <1>4, <1>5
\* One more is attached, with one slot less left.
LEMMA AttachKeepsQuota ==
    ASSUME CampaignTypeOK, Records, NEW c \in Campaigns, WithinQuota(c),
           NEW e \in Cycles, AttachPerson(e)
    PROVE  WithinQuota(c)'
<1>1. /\ Moves(e) /\ cycle[e].at = "attach"
      /\ Pending(cycle'[e]) + 1 = Pending(cycle[e])
  BY AttachMoves
<1>2. /\ UNCHANGED <<today, overlapped>>
      /\ attached' = [attached EXCEPT ![OfCycle(e)][cycle[e].who] = IF @ = 0 THEN today ELSE @]
  BY DEF AttachPerson, NobodyElse, History
<1>3. /\ cycle[e] \in Cycle /\ Sane(cycle[e]) /\ cycle'[e] \in Cycle /\ Sane(cycle'[e])
      /\ cycle'[e].of = cycle[e].of /\ OfCycle(e) = cycle[e].of
      /\ \A f \in Cycles \ {e} : cycle'[f] = cycle[f]
  BY <1>1 DEF CampaignTypeOK, Records, Moves, NextRecord, OfCycle
<1>4. /\ Pending(cycle[e]) \in Nat /\ Pending(cycle[e]) <= Quota[cycle[e].of]
      /\ Pending(cycle'[e]) \in Nat
  BY <1>3, PendingBound
<1>5. attached' \in [Campaigns -> [People -> Days \cup {0}]] /\ today \in Days
  <2>1. CampaignTypeOK'
    <3>1. CycleWorks(e)
      BY DEF CycleWorks
    <3> QED
      BY <3>1, ExecutionTypes
  <2> QED
    BY <2>1 DEF CampaignTypeOK
<1>6. CountsToday(c)'
  BY <1>1, <1>2, MovesCount DEF WithinQuota
<1>7. AtOnce' = AtOnce /\ AtOnce \in Nat /\ AtOnce * Quota[c] \in Nat
  BY <1>2, AtOnceType, QuotaCounts, ProductGrows DEF AtOnce
<1> DEFINE S(d) == {p \in People : attached[c][p] = d}
           T(d) == {p \in People : attached'[c][p] = d}
<1>8. \A d \in Days : Attached(c, d) = Cardinality(S(d)) /\ Attached(c, d)' = Cardinality(T(d))
  BY DEF Attached
<1>9. Attached(c, today)' = Cardinality(T(today)) /\ Attached(c, today) = Cardinality(S(today))
  BY <1>2 DEF Attached
<1>10. /\ \A p \in People \ {cycle[e].who} : attached'[c][p] = attached[c][p]
       /\ c # cycle[e].of => attached'[c] = attached[c]
       /\ \A p \in People : attached'[c][p] \in {attached[c][p], today}
  BY <1>2, <1>3 DEF CampaignTypeOK
<1>11. \A d \in Days \ {today} : T(d) \in SUBSET S(d) /\ S(d) \in SUBSET People
  BY <1>10
<1>12. /\ T(today) \in SUBSET People /\ S(today) \in SUBSET People
       /\ T(today) \in SUBSET (S(today) \cup {cycle[e].who})
       /\ c # cycle[e].of => T(today) = S(today)
  BY <1>10
<1> HIDE DEF S, T
<1>13. \A d \in Days \ {today} : Attached(c, d)' <= Attached(c, d)
  BY <1>8, <1>11, PeopleFinite, FS_Subset
<1>14. Cardinality(T(today)) \in Nat /\ Cardinality(S(today)) \in Nat
  BY <1>12, PeopleFinite
<1>15. Slots(c) \in SUBSET (Cycles \X (1..Quota[c]))
  BY DEF Slots
<1>16. Attached(c, today) + Cardinality(Slots(c)) <= AtOnce * Quota[c]
  BY DEF WithinQuota
<1>17. CASE c # cycle[e].of
  <2>1. Slots(c)' = Slots(c)
    BY <1>3, <1>17 DEF Slots
  <2>2. Attached(c, today)' + Cardinality(Slots(c)') <= AtOnce * Quota[c]
    BY <1>9, <1>12, <1>16, <1>17, <2>1
  <2> QED
    BY <1>2, <1>5, <1>6, <1>7, <1>13, <2>2, WithinKept
<1>18. CASE c = cycle[e].of
  <2> DEFINE s == <<e, Pending(cycle[e])>>
  <2>1. Cardinality(T(today)) <= Cardinality(S(today)) + 1
    <3>1. IsFiniteSet(S(today)) /\ IsFiniteSet(S(today) \cup {cycle[e].who})
      BY <1>12, PeopleFinite, FS_AddElement
    <3>2. Cardinality(S(today) \cup {cycle[e].who}) <= Cardinality(S(today)) + 1
      BY <1>14, <3>1, FS_AddElement
    <3>3. Cardinality(T(today)) <= Cardinality(S(today) \cup {cycle[e].who})
      BY <1>12, <3>1, FS_Subset
    <3>4. Cardinality(S(today) \cup {cycle[e].who}) \in Nat
      BY <3>1, FS_CardinalityType
    <3> QED
      BY <1>14, <3>2, <3>3, <3>4
  <2>2. s \in Slots(c)
    <3>1. Pending(cycle[e]) \in 1..Quota[c]
      BY <1>1, <1>4, <1>18, QuotaCounts
    <3> QED
      BY <1>4, <1>18, <3>1 DEF Slots
  <2>3. Slots(c)' \in SUBSET (Slots(c) \ {s})
    <3> SUFFICES ASSUME NEW t \in Cycles \X (1..Quota[c]), cycle'[t[1]].of = c,
                        t[2] <= Pending(cycle'[t[1]])
                 PROVE  t \in Slots(c) /\ t # s
      BY DEF Slots
    <3>1. CASE t[1] # e
      BY <1>3, <3>1 DEF Slots
    <3>2. CASE t[1] = e
      <4>1. t[2] \in Int /\ t[2] < Pending(cycle[e])
        BY <1>1, <1>4, <3>2, QuotaCounts
      <4> QED
        BY <1>4, <1>18, <3>2, <4>1 DEF Slots
    <3> QED
      BY <3>1, <3>2
  <2> HIDE DEF s
  <2>4. /\ Cardinality(Slots(c)) \in Nat /\ Cardinality(Slots(c)') \in Nat
        /\ Cardinality(Slots(c) \ {s}) = Cardinality(Slots(c)) - 1
    BY <1>15, <2>2, <2>3, FewSlots
  <2>5. Cardinality(Slots(c)') <= Cardinality(Slots(c) \ {s})
    <3>1. (Slots(c) \ {s}) \in SUBSET (Cycles \X (1..Quota[c]))
      BY <1>15
    <3> QED
      BY <2>3, <3>1, FewSlots
  <2>6. Attached(c, today)' + Cardinality(Slots(c)') <= AtOnce * Quota[c]
    BY <1>7, <1>9, <1>14, <1>16, <2>1, <2>4, <2>5
  <2> QED
    BY <1>2, <1>5, <1>6, <1>7, <1>13, <2>6, WithinKept
<1> QED
  BY <1>17, <1>18

LEMMA GoesKeepsQuota ==
    ASSUME CampaignTypeOK, Records, RowsHeld, OneRowOut, NEW c \in Campaigns, WithinQuota(c),
           NEW e \in Cycles, Goes(e)
    PROVE  WithinQuota(c)'
<1>1. CASE CountMissing(e) \/ Recount(e)
  BY <1>1, ReadKeepsQuota
<1>2. CASE AttachPerson(e)
  BY <1>2, AttachKeepsQuota
<1>3. CASE ~(CountMissing(e) \/ Recount(e) \/ AttachPerson(e))
  <2>1. Pending(cycle'[e]) <= Pending(cycle[e])
    BY <1>3, SearchMoves, EnrichMoves, StoreMoves, CountMoves, QuietMoves, MapMoves, KnownMoves,
       WidenMoves, ErrMoves DEF Goes, Plain
  <2>2. cycle[e].at = "sender" => cycle'[e].today = today
    BY CountMoves DEF Goes, NotFilled, MapFilters, ReadKnown, CountMissing, Search, EnrichBatch,
                      StorePerson, AttachPerson, Recount, Widen, Final, Errs, CycleAtStep
  <2>3. UNCHANGED attached
    BY <1>3 DEF Goes, SenderReady, NotFilled, MapFilters, ReadKnown, Search, EnrichBatch,
                StorePerson, Widen, Final, Errs
  <2> QED
    BY <2>1, <2>2, <2>3, GoesMoves, MovesKeepQuota
<1> QED
  BY <1>1, <1>2, <1>3

\* An execution that starts, or has ended, attaches nobody.
LEMMA QuietEndsKeepQuota ==
    ASSUME CampaignTypeOK, Records, NEW c \in Campaigns, WithinQuota(c), NEW e \in Cycles,
           cycle' \in [Cycles -> Cycle], \A f \in Cycles \ {e} : cycle'[f] = cycle[f],
           cycle'[e].at \in {"idle", "sender"}, UNCHANGED <<attached, today, overlapped>>
    PROVE  WithinQuota(c)'
<1>1. CountsToday(c)'
  BY DEF WithinQuota, CountsToday
<1>2. AtOnce' = AtOnce /\ AtOnce \in Nat
  BY AtOnceType DEF AtOnce
<1>3. Slots(c)' \subseteq Slots(c)
  <2>1. Pending(cycle'[e]) = 0
    BY DEF Pending
  <2> SUFFICES ASSUME NEW s \in Cycles \X (1..Quota[c]), cycle'[s[1]].of = c,
                      s[2] <= Pending(cycle'[s[1]])
               PROVE  s \in Slots(c)
    BY DEF Slots
  <2>2. s[1] # e
    <3>1. s[2] \in Int /\ s[2] >= 1
      BY QuotaCounts
    <3> QED
      BY <2>1, <3>1
  <2> QED
    BY <2>2 DEF Slots
<1> QED
  BY <1>1, <1>2, <1>3, SlotsShrink
\* Nobody is sourced ahead of the day.
LEMMA NoneAheadStep ==
    ASSUME CampaignTypeOK, NoneAhead, CampaignNext
    PROVE  NoneAhead'
<1>1. attached \in [Campaigns -> [People -> Days \cup {0}]] /\ today \in Days /\ Days \subseteq Int
  BY CampaignAssumption DEF CampaignTypeOK, Days
<1>2. ASSUME UNCHANGED attached, today' = today PROVE NoneAhead'
  BY <1>2 DEF NoneAhead
<1>3. ASSUME NEW e \in Cycles, AttachPerson(e) PROVE NoneAhead'
  <2>1. /\ attached' = [attached EXCEPT ![OfCycle(e)][cycle[e].who] = IF @ = 0 THEN today ELSE @]
        /\ today' = today
    BY <1>3 DEF AttachPerson, NobodyElse
  <2>2. \A c \in Campaigns, p \in People : attached'[c][p] \in {attached[c][p], today}
    BY <1>1, <2>1
  <2> QED
    BY <1>1, <2>1, <2>2 DEF NoneAhead
<1>4. ASSUME NEW e \in Cycles, Goes(e), ~AttachPerson(e) PROVE NoneAhead'
  BY <1>2, <1>4 DEF Goes, SenderReady, NotFilled, MapFilters, ReadKnown, CountMissing, Search,
                    EnrichBatch, StorePerson, Recount, Widen, Final, Errs, NobodyElse
<1>5. ASSUME NEW e \in Cycles, Ends(e) \/ RowLapses(e) PROVE NoneAhead'
  BY <1>2, <1>5, EndsLeave DEF RowLapses, NobodyElse
<1>6. ASSUME NEW r \in Campaigns \X Days, NEW e \in Cycles, TakeRow(e, r) PROVE NoneAhead'
  BY <1>2, <1>6 DEF TakeRow, NobodyElse
<1>7. CASE NewDay
  <2>1. UNCHANGED attached /\ today' = today + 1
    BY <1>7 DEF NewDay
  <2>2. \A c \in Campaigns, p \in People : attached[c][p] \in Int
    <3>1. (Days \cup {0}) \subseteq Int
      BY <1>1
    <3>2. \A c \in Campaigns, p \in People : attached[c][p] \in Days \cup {0}
      BY <1>1
    <3> QED
      BY <3>1, <3>2
  <2> QED
    BY <1>1, <2>1, <2>2 DEF NoneAhead
<1>8. CASE \/ \E c \in Campaigns : EnqueueDue(c) \/ PatchRead(c) \/ Archive(c)
           \/ \E auto \in {"keep", "live", "paused"}, ready, retarget \in BOOLEAN :
                  PatchWrite(auto, ready, retarget)
           \/ PatchRefused
  BY <1>2, <1>8, OthersLeave
<1> QED
  BY <1>3, <1>4, <1>5, <1>6, <1>7, <1>8, KindsOfSteps

\* Midnight, with no cycle of the campaign open
LEMMA MidnightKeepsQuota ==
    ASSUME CampaignTypeOK, Records, NoneAhead, NEW c \in Campaigns, WithinQuota(c),
           NewDay, ~Busy(c)
    PROVE  WithinQuota(c)'
<1>1. UNCHANGED <<attached, cycle, overlapped>> /\ today' = today + 1 /\ today + 1 \in Days
  BY DEF NewDay
<1>2. \A e \in Cycles : cycle[e].of = c => cycle[e].at = "idle"
  BY DEF Busy, OfCycle
<1>3. CountsToday(c)'
  BY <1>1, <1>2 DEF CountsToday
<1>4. AtOnce' = AtOnce /\ AtOnce * Quota[c] \in Nat
  BY <1>1, AtOnceType, QuotaCounts, ProductGrows DEF AtOnce
<1>5. \A d \in Days : Attached(c, d)' = Attached(c, d)
  BY <1>1 DEF Attached
<1>6. Attached(c, today)' = 0
  <2>1. \A p \in People : attached[c][p] # today + 1
    <3>1. \A p \in People : attached[c][p] <= today /\ attached[c][p] \in Int
      BY CampaignAssumption DEF NoneAhead, CampaignTypeOK, Days
    <3>2. today \in Int
      BY CampaignAssumption DEF CampaignTypeOK, Days
    <3> QED
      BY <3>1, <3>2
  <2>2. {p \in People : attached'[c][p] = today'} = {}
    BY <1>1, <2>1
  <2>3. Attached(c, today)' = Cardinality({})
    BY <2>2 DEF Attached
  <2> QED
    BY <2>3, FS_EmptySet
<1>7. Cardinality(Slots(c)') = 0
  <2>1. Slots(c)' = {}
    <3>1. \A s \in Cycles \X (1..Quota[c]) : s[2] \in Int /\ s[2] >= 1
      BY QuotaCounts
    <3>2. \A e \in Cycles : cycle[e].of = c => Pending(cycle[e]) = 0
      BY <1>2 DEF Pending
    <3> QED
      BY <1>1, <3>1, <3>2 DEF Slots
  <2> QED
    BY <2>1, FS_EmptySet
<1>8. \A d \in Days : Attached(c, d) <= AtOnce * Quota[c]
  BY DEF WithinQuota
<1>9. Attached(c, today)' + Cardinality(Slots(c)') <= AtOnce' * Quota[c]
  BY <1>4, <1>6, <1>7
<1> QED
  BY <1>3, <1>4, <1>5, <1>8, <1>9 DEF WithinQuota

\* What interfered with a campaign stays known.
LEMMA DisturbedGrows ==
    ASSUME CampaignTypeOK, CampaignNext
    PROVE  \A c \in Campaigns : disturbed[c] \subseteq disturbed'[c]
<1> USE DEF History
<1>1. ASSUME NEW e \in Cycles, Goes(e) PROVE UNCHANGED disturbed
  BY <1>1 DEF Goes, SenderReady, NotFilled, MapFilters, ReadKnown, CountMissing, Search,
         EnrichBatch, StorePerson, AttachPerson, Recount, Widen, Final, Errs
<1>2. ASSUME NEW e \in Cycles, Ends(e) \/ RowLapses(e)
      PROVE  \A c \in Campaigns : disturbed[c] \subseteq disturbed'[c]
  BY <1>2 DEF Ends, SenderMissing, AlreadyFilled, Done, Catch, CycleCrashes, RowLapses,
              CampaignTypeOK
<1>3. ASSUME NEW r \in Campaigns \X Days, NEW e \in Cycles, TakeRow(e, r) PROVE UNCHANGED disturbed
  BY <1>3 DEF TakeRow
<1>4. CASE NewDay
  BY <1>4 DEF NewDay, CampaignTypeOK
<1>5. ASSUME NEW c \in Campaigns, EnqueueDue(c) \/ PatchRead(c) PROVE UNCHANGED disturbed
  BY <1>5 DEF EnqueueDue, PatchRead
<1>6. ASSUME NEW c \in Campaigns, Disturbs(c)
      PROVE  \A d \in Campaigns : disturbed[d] \subseteq disturbed'[d]
  BY <1>6, DisturbsTypes
<1>7. ASSUME NEW auto \in {"keep", "live", "paused"}, NEW ready \in BOOLEAN,
             NEW retarget \in BOOLEAN, PatchWrite(auto, ready, retarget)
      PROVE  \E c \in Campaigns : Disturbs(c)
  BY <1>7 DEF PatchWrite, CampaignTypeOK, Patch
<1>8. ASSUME NEW c \in Campaigns, Archive(c) PROVE Disturbs(c)
  BY <1>8 DEF Archive
<1>9. CASE PatchRefused
  BY <1>9 DEF PatchRefused
<1> QED
  BY <1>1, <1>2, <1>3, <1>4, <1>5, <1>6, <1>7, <1>8, <1>9, KindsOfSteps

LEMMA QuotaStep ==
    ASSUME CampaignTypeOK, Records, RowsHeld, OneRowOut, QuotaHeld, NoneAhead, CampaignNext
    PROVE  QuotaHeld'
<1> SUFFICES ASSUME NEW c \in Campaigns, "midnight" \notin disturbed'[c] PROVE WithinQuota(c)'
  BY DEF QuotaHeld
<1>1. WithinQuota(c)
  BY DisturbedGrows DEF QuotaHeld
<1>2. ASSUME NEW e \in Cycles, Goes(e) PROVE WithinQuota(c)'
  BY <1>1, <1>2, GoesKeepsQuota
<1>3. ASSUME NEW e \in Cycles, Ends(e) PROVE WithinQuota(c)'
  BY <1>1, <1>3, EndsLeave, RestingRecord, QuietEndsKeepQuota DEF Rests
<1>4. ASSUME UNCHANGED <<attached, today, cycle>>, AtOnce' \in Nat, AtOnce' >= AtOnce
      PROVE  WithinQuota(c)'
  <2>1. CountsToday(c)' /\ Slots(c)' = Slots(c)
    BY <1>1, <1>4 DEF WithinQuota, CountsToday, Slots
  <2> QED
    BY <1>1, <1>4, <2>1, SlotsShrink
<1>5. ASSUME NEW e \in Cycles, RowLapses(e) PROVE WithinQuota(c)'
  <2>1. UNCHANGED <<attached, today, cycle>> /\ AtOnce' \in Nat /\ AtOnce' >= AtOnce
    BY <1>5, LapseRaises DEF RowLapses, NobodyElse
  <2> QED
    BY <1>4, <2>1
<1>6. ASSUME NEW r \in Campaigns \X Days, NEW e \in Cycles, TakeRow(e, r)
      PROVE  WithinQuota(c)'
  <2>1. UNCHANGED <<attached, today, overlapped>>
    BY <1>6 DEF TakeRow, NobodyElse, History
  <2>2. AtOnce' = AtOnce /\ AtOnce \in Nat
    BY <2>1, AtOnceType DEF AtOnce
  <2>3. CASE UNCHANGED cycle
    BY <1>4, <2>1, <2>2, <2>3
  <2>4. CASE (\A f \in Cycles \ {e} : cycle'[f] = cycle[f]) /\ cycle'[e].at = "sender"
    <3>1. cycle' \in [Cycles -> Cycle]
      BY <1>6, TakeRowTypes DEF CampaignTypeOK
    <3> QED
      BY <1>1, <2>1, <2>4, <3>1, QuietEndsKeepQuota
  <2> QED
    BY <1>6, <2>3, <2>4, TakeRowTypes
<1>7. CASE NewDay
  <2>1. ~Busy(c)
    BY <1>7 DEF NewDay
  <2> QED
    BY <1>1, <1>7, <2>1, MidnightKeepsQuota
<1>8. CASE \/ \E d \in Campaigns : EnqueueDue(d) \/ PatchRead(d) \/ Archive(d)
           \/ \E auto \in {"keep", "live", "paused"}, ready, retarget \in BOOLEAN :
                  PatchWrite(auto, ready, retarget)
           \/ PatchRefused
  <2>1. UNCHANGED <<attached, today, cycle, overlapped>>
    BY <1>8, OthersLeave
  <2>2. AtOnce' = AtOnce /\ AtOnce \in Nat
    BY <2>1, AtOnceType DEF AtOnce
  <2> QED
    BY <1>4, <2>1, <2>2
<1> QED
  BY <1>2, <1>3, <1>5, <1>6, <1>7, <1>8, KindsOfSteps

-----------------------------------------------------------------------------
\* A campaign is exhausted when all were looked at

\* Those whom the widest search has gone past when it comes to a page
LeftBehind(page) == FirstOf((page - 1) * PerPage, People)

\* A cursor of the widest search has left nobody behind but those in S.
Behind(step, page, S) ==
    /\ page >= 1
    /\ step = MaxStep => LeftBehind(page) \subseteq S

LEMMA FirstPage == LeftBehind(1) = {}
<1>1. (1 - 1) * PerPage = 0 /\ People \in SUBSET People
  BY CampaignAssumption
<1>2. FirstOf(0, People) \in SUBSET People /\ Cardinality(FirstOf(0, People)) <= 0
  BY <1>1, FirstOfBound
<1>3. Cardinality(FirstOf(0, People)) = 0
  BY <1>2, PeopleFinite
<1>4. FirstOf(0, People) = {}
  BY <1>2, <1>3, PeopleFinite, FS_EmptySet
<1> QED
  BY <1>1, <1>4 DEF LeftBehind

\* A page of the widest search takes it from those it has left behind to the next
\* page, or to the end when it is not full.
LEMMA WidestPage ==
    ASSUME NEW page \in Nat, page >= 1
    PROVE  LET hits == Hits(MaxStep, page)
           IN  /\ hits \in SUBSET People
               /\ LeftBehind(page + 1) = LeftBehind(page) \cup hits
               /\ hits = {} \/ Cardinality(hits) # PerPage => LeftBehind(page) \cup hits = People
<1> DEFINE m == (page - 1) * PerPage
           n == page * PerPage
           F == FirstOf(m, People)
           G == FirstOf(n, People)
           hits == Hits(MaxStep, page)
<1>1. PerPage \in Nat /\ PerPage >= 1
  BY CampaignAssumption
<1>2. m \in Nat /\ n \in Nat /\ n = m + PerPage
  <2>1. PICK k \in Nat : page = k + 1
    <3>1. page - 1 \in Nat /\ page = (page - 1) + 1
      OBVIOUS
    <3> QED
      BY <3>1
  <2>2. (k + 1) * PerPage = k * PerPage + PerPage /\ k * PerPage \in Nat
    BY <1>1
  <2>3. page - 1 = k
    BY <2>1
  <2> QED
    BY <1>1, <2>1, <2>2, <2>3
<1>3. hits = G \ F
  <2>1. \A p \in People : Reach[p] <= MaxStep
    BY CampaignAssumption
  <2>2. {p \in People : Reach[p] <= MaxStep} = People
    BY <2>1
  <2> QED
    BY <2>2 DEF Hits
<1>4. LeftBehind(page) = F /\ LeftBehind(page + 1) = G
  <2>1. page + 1 - 1 = page
    OBVIOUS
  <2> QED
    BY <2>1 DEF LeftBehind
<1>5. F \in SUBSET People /\ G \in SUBSET People
  BY DEF FirstOf
<1>6. F \in SUBSET G
  <2>1. \A p \in People : {q \in People : q <= p} \in SUBSET People
    OBVIOUS
  <2>2. \A p \in People : Cardinality({q \in People : q <= p}) \in Nat
    BY <2>1, PeopleFinite
  <2> HIDE DEF m, n
  <2> QED
    BY <1>1, <1>2, <2>2 DEF FirstOf
<1>7. IsFiniteSet(F) /\ IsFiniteSet(G) /\ Cardinality(F) \in Nat /\ Cardinality(G) \in Nat
  BY <1>5, PeopleFinite
<1> DEFINE P == People
<1>8. P \in SUBSET People /\ (F = P \/ Cardinality(F) = m) /\ (G = P \/ Cardinality(G) = n)
  BY <1>2, FirstOfAll
<1>9. Cardinality(G \ F) = Cardinality(G) - Cardinality(F)
  <2>1. G \cap F = F
    BY <1>6
  <2> QED
    BY <1>7, <2>1, FS_Difference
<1>10. Cardinality({}) = 0
  BY FS_EmptySet
<1> HIDE DEF m, n, F, G, hits, P
<1>11. G = P \/ (hits # {} /\ Cardinality(hits) = PerPage)
  <2> SUFFICES ASSUME G # P PROVE hits # {} /\ Cardinality(hits) = PerPage
    OBVIOUS
  <2>1. F # P
    BY <1>5, <1>6 DEF P
  <2>2. Cardinality(F) = m /\ Cardinality(G) = n
    BY <1>8, <2>1
  <2>3. Cardinality(hits) = PerPage
    BY <1>2, <1>1, <1>3, <1>9, <2>2
  <2> QED
    BY <1>1, <1>10, <2>3
<1>12. F \cup hits = G /\ hits \in SUBSET People
  BY <1>3, <1>5, <1>6
<1> QED
  BY <1>4, <1>11, <1>12 DEF hits, P

\* The steps that have read who is known
Looking == {"missing", "search", "enrich", "store", "attach", "widen", "final"}

\* What an execution has looked at, when those in S are stored: the cursor it loaded
\* and its own have left nobody behind who is not known, those known are stored or in
\* hand, the page in hand is known but for those to be enriched, and a search that
\* ran dry has come to the end.
HasSearched(c, S) ==
    /\ c.at # "idle" => Behind(c.base.step, c.base.page, S)
    /\ c.at \in {"sender", "count", "map", "known"} => ~c.dry
    /\ c.at = "known" => Behind(c.step, c.page, S)
    /\ c.at \in Looking => /\ Behind(c.step, c.page, c.known)
                           /\ c.known \subseteq S \cup c.got
                           /\ c.dry /\ c.step = MaxStep => c.known = People
    /\ c.at = "enrich" /\ c.step = MaxStep =>
          /\ ~c.leftover => Hits(c.step, c.page) \subseteq c.known \cup c.todo
          /\ c.full = (Cardinality(Hits(c.step, c.page)) = PerPage)

\* Until its filters are mapped an execution may write the page it loaded beside the
\* step in the row.
Beside(c, row) ==
    c.at \in {"sender", "count", "map"} /\ row.step = MaxStep => c.base.step = MaxStep

\* A status of exhausted stands for all people stored.
Complete(row, S) == row.auto = "exhausted" => S = People

\* The row of a campaign, whoever works from a copy of it, and the request of the user
SearchedSo(c) ==
    /\ Behind(campaign[c].step, campaign[c].page, stored) /\ Complete(campaign[c], stored)
    /\ \A e \in Cycles : cycle[e].of = c => /\ HasSearched(cycle[e], stored)
                                            /\ Beside(cycle[e], campaign[c])
    /\ patch.at = "read" /\ patch.of = c => Complete(patch.seen, stored)

Searched == overlapped \/ \A c \in Campaigns : "error" \in disturbed[c] \/ SearchedSo(c)

\* As people are stored, all of this stays so.
LEMMA SearchedGrows ==
    ASSUME NEW S \in SUBSET People, NEW T \in SUBSET People, S \subseteq T
    PROVE  /\ \A c \in Cycle : HasSearched(c, S) => HasSearched(c, T)
           /\ \A row \in Campaign : /\ Behind(row.step, row.page, S) => Behind(row.step, row.page, T)
                                    /\ Complete(row, S) => Complete(row, T)
BY DEF HasSearched, Behind, Complete

LEMMA SearchSearches ==
    ASSUME CampaignTypeOK, NEW e \in Cycles, Search(e), HasSearched(cycle[e], stored)
    PROVE  HasSearched(cycle'[e], stored)
<1> DEFINE c == cycle[e]
           hits == Hits(c.step, c.page)
           new == hits \ c.known
           todo == FirstOf(c.remaining - GotVerified(c), new)
           full == Cardinality(hits) = PerPage
           pages == c.pages + 1
           more == todo # new
           x == IF hits = {}
                THEN [c EXCEPT !.at = "store", !.dry = TRUE]
                ELSE [c EXCEPT !.at = "enrich", !.todo = todo, !.pages = pages,
                               !.leftover = more, !.full = full]
<1>1. c \in Cycle /\ c.at = "search" /\ cycle \in [Cycles -> Cycle]
  BY DEF CampaignTypeOK, Search, CycleAtStep
<1>2. cycle' = [cycle EXCEPT ![e] = x]
  BY DEF Search, CycleIs
<1>3. cycle'[e] = x
  BY <1>1, <1>2
<1>4. full \in BOOLEAN /\ more \in BOOLEAN
  OBVIOUS
<1>5. c.page \in Nat
  BY <1>1 DEF Cycle
<1>6. /\ Behind(c.base.step, c.base.page, stored) /\ Behind(c.step, c.page, c.known)
      /\ c.known \subseteq stored \cup c.got
      /\ c.dry /\ c.step = MaxStep => c.known = People
  BY <1>1 DEF HasSearched, Looking
<1>7. CASE hits = {}
  <2>1. c.step = MaxStep => LeftBehind(c.page) = People
    BY <1>5, <1>6, <1>7, WidestPage DEF Behind
  <2>2. c.step = MaxStep => c.known = People
    BY <1>1, <1>6, <2>1 DEF Behind, Cycle
  <2>3. /\ x.at = "store" /\ x.base = c.base /\ x.step = c.step /\ x.page = c.page
        /\ x.known = c.known /\ x.got = c.got
    BY <1>1, <1>7 DEF Cycle
  <2> HIDE DEF x
  <2> QED
    BY <1>3, <1>6, <2>2, <2>3 DEF HasSearched
<1>8. CASE hits # {}
  <2> HIDE DEF full, more, hits, pages
  <2>1. /\ x.at = "enrich" /\ x.base = c.base /\ x.step = c.step /\ x.page = c.page
        /\ x.known = c.known /\ x.got = c.got /\ x.dry = c.dry
        /\ x.todo = todo /\ x.leftover = more /\ x.full = full
    BY <1>1, <1>8 DEF Cycle
  <2>2. ~more => hits \subseteq c.known \cup todo
    BY DEF more
  <2>3. full = (Cardinality(hits) = PerPage)
    BY DEF full
  <2> HIDE DEF x, todo
  <2>4. /\ ~x.leftover => Hits(x.step, x.page) \subseteq x.known \cup x.todo
        /\ x.full = (Cardinality(Hits(x.step, x.page)) = PerPage)
    BY <2>1, <2>2, <2>3 DEF hits
  <2> QED
    BY <1>3, <1>6, <2>1, <2>4 DEF HasSearched
<1> QED
  BY <1>7, <1>8

\* The end of a page
LEMMA PageDoneSearches ==
    ASSUME NEW c \in Cycle, c.at = "enrich", NEW S \in SUBSET People, HasSearched(c, S),
           c.todo = {} \/ GotVerified(c) >= c.remaining
    PROVE  HasSearched(PageDone(c), S)
<1> DEFINE x == PageDone(c)
<1>1. /\ Behind(c.base.step, c.base.page, S) /\ Behind(c.step, c.page, c.known)
      /\ c.known \subseteq S \cup c.got
      /\ c.dry /\ c.step = MaxStep => c.known = People
      /\ c.step = MaxStep /\ ~c.leftover => Hits(c.step, c.page) \subseteq c.known \cup c.todo
      /\ c.step = MaxStep => c.full = (Cardinality(Hits(c.step, c.page)) = PerPage)
  BY DEF HasSearched, Looking
<1>2. c.page \in Nat /\ c.known \in SUBSET People
  BY DEF Cycle
<1>3. CASE GotVerified(c) >= c.remaining
  <2>1. x = [c EXCEPT !.at = "store", !.todo = {}]
    BY <1>3 DEF PageDone
  <2>2. /\ x.at = "store" /\ x.base = c.base /\ x.step = c.step /\ x.page = c.page
        /\ x.known = c.known /\ x.got = c.got /\ x.dry = c.dry
    BY <2>1 DEF Cycle
  <2> HIDE DEF x
  <2>3. HasSearched(x, S)
    BY <1>1, <2>2 DEF HasSearched
  <2> QED
    BY <2>3 DEF x
<1>4. CASE ~(GotVerified(c) >= c.remaining) /\ ~c.full /\ ~c.leftover
  <2>1. x = [c EXCEPT !.at = "store", !.dry = TRUE]
    BY <1>4 DEF PageDone
  <2>2. /\ x.at = "store" /\ x.base = c.base /\ x.step = c.step /\ x.page = c.page
        /\ x.known = c.known /\ x.got = c.got
    BY <2>1 DEF Cycle
  <2>3. c.todo = {}
    BY <1>4
  <2>4. c.step = MaxStep => c.known = People
    <3> SUFFICES ASSUME c.step = MaxStep PROVE c.known = People
      OBVIOUS
    <3>1. Hits(MaxStep, c.page) \subseteq c.known
      BY <1>1, <1>4, <2>3
    <3>2. Cardinality(Hits(MaxStep, c.page)) # PerPage
      BY <1>1, <1>4
    <3>3. LeftBehind(c.page) \cup Hits(MaxStep, c.page) = People
      BY <1>1, <1>2, <3>2, WidestPage DEF Behind
    <3> QED
      BY <1>1, <1>2, <3>1, <3>3 DEF Behind
  <2> HIDE DEF x
  <2>5. HasSearched(x, S)
    BY <1>1, <2>2, <2>4 DEF HasSearched
  <2> QED
    BY <2>5 DEF x
<1>5. CASE ~(GotVerified(c) >= c.remaining) /\ ~(~c.full /\ ~c.leftover)
  <2> DEFINE page == IF c.leftover THEN c.page ELSE c.page + 1
             at == IF c.pages = MaxPages THEN "store" ELSE "search"
  <2>1. x = [c EXCEPT !.page = page, !.at = at]
    BY <1>5 DEF PageDone
  <2>2. c.todo = {}
    BY <1>5
  <2>3. Behind(c.step, page, c.known)
    <3>1. CASE c.leftover
      BY <1>1, <3>1
    <3>2. CASE ~c.leftover
      <4>1. c.step = MaxStep => LeftBehind(c.page + 1) \subseteq c.known
        <5> SUFFICES ASSUME c.step = MaxStep PROVE LeftBehind(c.page + 1) \subseteq c.known
          OBVIOUS
        <5>1. Hits(MaxStep, c.page) \subseteq c.known /\ LeftBehind(c.page) \subseteq c.known
          BY <1>1, <2>2, <3>2 DEF Behind
        <5>2. LeftBehind(c.page + 1) = LeftBehind(c.page) \cup Hits(MaxStep, c.page)
          BY <1>1, <1>2, WidestPage DEF Behind
        <5> QED
          BY <5>1, <5>2
      <4>2. c.page + 1 >= 1
        BY <1>2
      <4> QED
        BY <3>2, <4>1, <4>2 DEF Behind
    <3> QED
      BY <3>1, <3>2
  <2>4. at \in {"store", "search"}
    OBVIOUS
  <2> HIDE DEF page, at
  <2>5. /\ x.at = at /\ x.base = c.base /\ x.step = c.step /\ x.page = page
        /\ x.known = c.known /\ x.got = c.got /\ x.dry = c.dry
    BY <2>1 DEF Cycle
  <2> HIDE DEF x
  <2>6. HasSearched(x, S)
    BY <1>1, <2>3, <2>4, <2>5 DEF HasSearched
  <2> QED
    BY <2>6 DEF x
<1> QED
  BY <1>3, <1>4, <1>5

LEMMA EnrichSearches ==
    ASSUME CampaignTypeOK, Records, NEW e \in Cycles, EnrichBatch(e),
           HasSearched(cycle[e], stored)
    PROVE  HasSearched(cycle'[e], stored)
<1> DEFINE c == cycle[e]
           them == FirstOf(Batch, c.todo)
           after == [c EXCEPT !.todo = @ \ them, !.known = @ \cup them, !.got = @ \cup them]
           x == IF after.todo = {} \/ GotVerified(after) >= c.remaining
                THEN PageDone(after) ELSE after
<1>1. c \in Cycle /\ Sane(c) /\ c.at = "enrich" /\ cycle \in [Cycles -> Cycle]
  BY DEF CampaignTypeOK, Records, EnrichBatch, CycleAtStep
<1>2. them \in SUBSET c.todo
  BY DEF FirstOf
<1>3. cycle' = [cycle EXCEPT ![e] = x]
  BY DEF EnrichBatch, CycleIs
<1>4. cycle'[e] = x /\ stored \in SUBSET People
  BY <1>1, <1>3 DEF CampaignTypeOK
<1> HIDE DEF c, them
<1>5. after \in Cycle
  BY <1>1, <1>2, BatchRecord DEF NextRecord
<1>6. /\ after.at = "enrich" /\ after.base = c.base /\ after.step = c.step
      /\ after.page = c.page /\ after.dry = c.dry /\ after.leftover = c.leftover
      /\ after.full = c.full /\ after.remaining = c.remaining
      /\ after.todo = c.todo \ them /\ after.known = c.known \cup them
      /\ after.got = c.got \cup them
  BY <1>1 DEF Cycle
<1> HIDE DEF after
<1>7. HasSearched(c, stored) /\ c.known \in SUBSET People /\ after.known \in SUBSET People
  BY <1>1, <1>5 DEF c, Cycle
<1>8. HasSearched(after, stored)
  <2>1. /\ Behind(c.base.step, c.base.page, stored) /\ Behind(c.step, c.page, c.known)
        /\ c.known \subseteq stored \cup c.got
        /\ c.dry /\ c.step = MaxStep => c.known = People
        /\ c.step = MaxStep /\ ~c.leftover => Hits(c.step, c.page) \subseteq c.known \cup c.todo
        /\ c.step = MaxStep => c.full = (Cardinality(Hits(c.step, c.page)) = PerPage)
    BY <1>1, <1>7 DEF HasSearched, Looking
  <2>2. Behind(after.step, after.page, after.known)
    BY <1>6, <2>1 DEF Behind
  <2>3. /\ after.known \subseteq stored \cup after.got
        /\ after.dry /\ after.step = MaxStep => after.known = People
    BY <1>6, <1>7, <2>1
  <2>4. after.step = MaxStep =>
           /\ ~after.leftover => Hits(after.step, after.page) \subseteq after.known \cup after.todo
           /\ after.full = (Cardinality(Hits(after.step, after.page)) = PerPage)
    BY <1>6, <2>1
  <2> QED
    BY <1>6, <2>1, <2>2, <2>3, <2>4 DEF HasSearched
<1>9. HasSearched(x, stored)
  <2>1. CASE after.todo = {} \/ GotVerified(after) >= after.remaining
    BY <1>4, <1>5, <1>6, <1>8, <2>1, PageDoneSearches
  <2>2. CASE ~(after.todo = {} \/ GotVerified(after) >= after.remaining)
    BY <1>6, <1>8, <2>2
  <2> QED
    BY <2>1, <2>2
<1> HIDE DEF x
<1> QED
  BY <1>4, <1>9

\* The steps that leave the rows and the people stored alone
LEMMA QuietSearches ==
    ASSUME CampaignTypeOK, Records, NEW e \in Cycles, NEW row \in Campaign,
           HasSearched(cycle[e], stored), Beside(cycle[e], row),
           \/ SenderReady(e) \/ NotFilled(e) \/ ReadKnown(e) \/ CountMissing(e)
           \/ AttachPerson(e) \/ Errs(e)
    PROVE  HasSearched(cycle'[e], stored) /\ Beside(cycle'[e], row)
<1> DEFINE c == cycle[e]
<1>1. c \in Cycle /\ Sane(c) /\ cycle \in [Cycles -> Cycle] /\ stored \in SUBSET People
  BY DEF CampaignTypeOK, Records
<1>2. CASE SenderReady(e) \/ NotFilled(e)
  <2> DEFINE x == cycle'[e]
  <2>1. /\ c.at \in {"sender", "count"} /\ x.at \in {"count", "map"}
        /\ x.base = c.base /\ x.dry = c.dry
    <3>1. CASE SenderReady(e)
      <4>1. cycle' = [cycle EXCEPT ![e] = [c EXCEPT !.at = "count", !.today = today]]
            /\ c.at = "sender"
        BY <3>1 DEF SenderReady, CycleIs, CycleAtStep
      <4> QED
        BY <1>1, <4>1 DEF Cycle
    <3>2. CASE NotFilled(e)
      <4>1. cycle' = [cycle EXCEPT ![e] = [c EXCEPT !.at = "map"]] /\ c.at = "count"
        BY <3>2 DEF NotFilled, CycleTo, CycleIs, CycleAtStep
      <4> QED
        BY <1>1, <4>1 DEF Cycle
    <3> QED
      BY <1>2, <3>1, <3>2
  <2> HIDE DEF x, c
  <2>2. Behind(c.base.step, c.base.page, stored) /\ ~c.dry
        /\ (row.step = MaxStep => c.base.step = MaxStep)
    BY <2>1 DEF HasSearched, Beside, c
  <2>3. HasSearched(x, stored) /\ Beside(x, row)
    BY <2>1, <2>2 DEF HasSearched, Beside, Looking
  <2> QED
    BY <2>3 DEF x
<1>3. CASE ReadKnown(e)
  <2> DEFINE x == [c EXCEPT !.at = "missing", !.known = stored]
  <2>1. cycle'[e] = x /\ c.at = "known"
    BY <1>1, <1>3 DEF ReadKnown, CycleIs, CycleAtStep
  <2>2. /\ x.at = "missing" /\ x.base = c.base /\ x.dry = c.dry /\ x.step = c.step
        /\ x.page = c.page /\ x.known = stored /\ x.got = c.got
    BY <1>1 DEF Cycle
  <2> HIDE DEF x
  <2>3. Behind(c.base.step, c.base.page, stored) /\ ~c.dry /\ Behind(c.step, c.page, stored)
    BY <2>1 DEF HasSearched
  <2>4. HasSearched(x, stored) /\ Beside(x, row)
    BY <2>2, <2>3 DEF HasSearched, Beside
  <2> QED
    BY <2>1, <2>4
<1>4. CASE CountMissing(e)
  <2> DEFINE n == Missing(c)
             at == IF Missing(c) > 0 /\ c.step <= MaxStep THEN "search" ELSE "final"
             x == [c EXCEPT !.remaining = n, !.at = at]
  <2>1. cycle'[e] = x /\ c.at = "missing"
    BY <1>1, <1>4 DEF CountMissing, CycleIs, CycleAtStep
  <2>2. at \in {"search", "final"}
    OBVIOUS
  <2> HIDE DEF n, at
  <2>3. /\ x.at = at /\ x.base = c.base /\ x.dry = c.dry /\ x.step = c.step
        /\ x.page = c.page /\ x.known = c.known /\ x.got = c.got
    BY <1>1 DEF Cycle
  <2> HIDE DEF x
  <2>4. HasSearched(x, stored) /\ Beside(x, row)
    BY <2>1, <2>2, <2>3 DEF HasSearched, Beside, Looking
  <2> QED
    BY <2>1, <2>4
<1>5. CASE AttachPerson(e)
  <2> DEFINE x == [c EXCEPT !.at = "store", !.who = Nobody]
  <2>1. cycle'[e] = x /\ c.at = "attach"
    BY <1>1, <1>5 DEF AttachPerson, CycleIs, CycleAtStep
  <2>2. /\ x.at = "store" /\ x.base = c.base /\ x.dry = c.dry /\ x.step = c.step
        /\ x.page = c.page /\ x.known = c.known /\ x.got = c.got
    BY <1>1 DEF Cycle
  <2> HIDE DEF x
  <2>3. HasSearched(x, stored) /\ Beside(x, row)
    BY <2>1, <2>2 DEF HasSearched, Beside, Looking
  <2> QED
    BY <2>1, <2>3
<1>6. CASE Errs(e)
  <2> DEFINE x == [c EXCEPT !.at = "catch", !.got = {}, !.who = Nobody]
  <2>1. cycle'[e] = x /\ c.at # "idle"
    BY <1>1, <1>6 DEF Errs, CycleIs
  <2>2. x.at = "catch" /\ x.base = c.base
    BY <1>1 DEF Cycle
  <2> HIDE DEF x
  <2>3. HasSearched(x, stored) /\ Beside(x, row)
    BY <2>1, <2>2 DEF HasSearched, Beside, Looking
  <2> QED
    BY <2>1, <2>3
<1> QED
  BY <1>2, <1>3, <1>4, <1>5, <1>6

LEMMA StoreSearches ==
    ASSUME CampaignTypeOK, Records, NEW e \in Cycles, NEW p \in People, StorePerson(e, p),
           HasSearched(cycle[e], stored)
    PROVE  HasSearched(cycle'[e], stored') /\ cycle'[e].at \in {"store", "attach"}
<1> DEFINE c == cycle[e]
           x == cycle'[e]
<1>1. c \in Cycle /\ cycle \in [Cycles -> Cycle] /\ stored \in SUBSET People
  BY DEF CampaignTypeOK
<1>2. /\ x.at \in {"store", "attach"} /\ c.at = "store" /\ p \in c.got
      /\ x.base = c.base /\ x.dry = c.dry /\ x.step = c.step /\ x.page = c.page
      /\ x.known = c.known /\ x.got = c.got \ {p} /\ stored' = stored \cup {p}
  <2> DEFINE y == IF p \in Verified \ Mailed
                  THEN [c EXCEPT !.got = @ \ {p}, !.at = "attach", !.who = p]
                  ELSE [c EXCEPT !.got = @ \ {p}]
  <2>1. /\ cycle' = [cycle EXCEPT ![e] = y] /\ c.at = "store" /\ p \in c.got
        /\ stored' = stored \cup {p}
    BY DEF StorePerson, CycleIs, CycleAtStep
  <2>2. /\ y.at \in {"store", "attach"} /\ y.base = c.base /\ y.dry = c.dry /\ y.step = c.step
        /\ y.page = c.page /\ y.known = c.known /\ y.got = c.got \ {p}
    BY <1>1, <2>1 DEF Cycle
  <2> HIDE DEF y
  <2> QED
    BY <1>1, <2>1, <2>2
<1> HIDE DEF x, c
<1>3. HasSearched(c, stored')
  <2>1. stored' \in SUBSET People /\ stored \subseteq stored'
    BY <1>1, <1>2
  <2> QED
    BY <1>1, <2>1, SearchedGrows DEF c
<1>4. /\ Behind(c.base.step, c.base.page, stored') /\ Behind(c.step, c.page, c.known)
      /\ c.dry /\ c.step = MaxStep => c.known = People
  BY <1>2, <1>3 DEF HasSearched, Looking
<1>5. c.known \subseteq stored \cup c.got
  BY <1>2 DEF HasSearched, Looking, c
<1>6. c.known \subseteq stored' \cup x.got
  BY <1>2, <1>5
<1>7. HasSearched(x, stored')
  BY <1>2, <1>4, <1>6 DEF HasSearched
<1> QED
  BY <1>2, <1>7 DEF x

\* What the row is left with by an execution that goes on
RowSearched(e) ==
    LET c == cycle[e].of IN
    /\ HasSearched(cycle'[e], stored') /\ Beside(cycle'[e], campaign'[c])
    /\ Behind(campaign'[c].step, campaign'[c].page, stored')
    /\ Complete(campaign'[c], stored')

LEMMA MapSearches ==
    ASSUME CampaignTypeOK, Records, NEW e \in Cycles, MapFilters(e), NEW c \in Campaigns,
           c = OfCycle(e), HasSearched(cycle[e], stored), Beside(cycle[e], campaign[c]),
           Behind(campaign[c].step, campaign[c].page, stored), Complete(campaign[c], stored)
    PROVE  RowSearched(e)
<1> DEFINE b == cycle[e].base
           new == IF b.params = Unmapped THEN b.targeting ELSE b.params
           page == b.page
           step == b.step
           x == [cycle[e] EXCEPT !.at = "known", !.params = new, !.page = page, !.step = step]
<1>1. cycle[e] \in Cycle /\ cycle \in [Cycles -> Cycle] /\ campaign \in [Campaigns -> Campaign]
  BY DEF CampaignTypeOK
<1>2. /\ cycle'[e] = x /\ cycle[e].at = "map" /\ stored' = stored
      /\ \/ campaign' = [campaign EXCEPT ![c] = [campaign[c] EXCEPT !.page = page, !.params = new]]
         \/ UNCHANGED campaign
  BY <1>1 DEF MapFilters, CycleIs, Cursor, CycleAtStep
<1> HIDE DEF page, step, new
<1>3. x.at = "known" /\ x.base = b /\ x.dry = cycle[e].dry /\ x.step = step /\ x.page = page
  BY <1>1 DEF Cycle
<1> HIDE DEF x
<1>4. Behind(step, page, stored) /\ ~cycle[e].dry /\ (campaign[c].step = MaxStep => step = MaxStep)
  BY <1>2 DEF HasSearched, Beside, step, page
<1>5. HasSearched(x, stored) /\ Beside(x, campaign'[c])
  BY <1>3, <1>4 DEF HasSearched, Beside, Looking, step, page
<1>6. Behind(campaign'[c].step, campaign'[c].page, stored) /\ Complete(campaign'[c], stored)
  <2>1. CASE campaign' = [campaign EXCEPT ![c] = [campaign[c] EXCEPT !.page = page, !.params = new]]
    <3>1. /\ campaign'[c].step = campaign[c].step /\ campaign'[c].page = page
          /\ campaign'[c].auto = campaign[c].auto
      BY <1>1, <2>1 DEF Campaign
    <3> QED
      BY <1>4, <3>1 DEF Behind, Complete
  <2> QED
    BY <1>2, <2>1
<1> QED
  BY <1>2, <1>5, <1>6 DEF RowSearched, OfCycle

\* An execution that writes its cursor, with what it has found stored
LEMMA CursorSearches ==
    ASSUME CampaignTypeOK, Records, NEW e \in Cycles, NEW c \in Campaigns, c = OfCycle(e),
           HasSearched(cycle[e], stored), Complete(campaign[c], stored),
           Recount(e) \/ Widen(e) \/ Final(e)
    PROVE  RowSearched(e)
<1>1. /\ cycle[e] \in Cycle /\ Sane(cycle[e]) /\ cycle \in [Cycles -> Cycle]
      /\ campaign \in [Campaigns -> Campaign] /\ stored \in SUBSET People
  BY DEF CampaignTypeOK, Records
<1>2. c = cycle[e].of
  BY DEF OfCycle
<1>3. /\ cycle[e].at \in {"store", "widen", "final"} /\ cycle[e].got = {} /\ stored' = stored
  BY <1>1 DEF Recount, Widen, Final, CycleAtStep, Sane
<1>4. /\ Behind(cycle[e].base.step, cycle[e].base.page, stored)
      /\ Behind(cycle[e].step, cycle[e].page, cycle[e].known) /\ cycle[e].known \subseteq stored
      /\ cycle[e].dry /\ cycle[e].step = MaxStep => cycle[e].known = People
  BY <1>3 DEF HasSearched, Looking
<1>5. Behind(cycle[e].step, cycle[e].page, stored)
  BY <1>4 DEF Behind
<1>6. CASE Recount(e)
  <2> DEFINE n == Missing(cycle[e])
             at == IF n > 0 /\ cycle[e].dry /\ cycle[e].step < MaxStep THEN "widen" ELSE "final"
             x == [cycle[e] EXCEPT !.pages = 0, !.todo = {}, !.leftover = FALSE, !.full = FALSE,
                                   !.remaining = n, !.at = at]
  <2>1. cycle'[e] = x /\ campaign' = [campaign EXCEPT ![c] = Moved(cycle[e])]
    BY <1>1, <1>6 DEF Recount, CycleIs, Cursor
  <2>2. at \in {"widen", "final"}
    OBVIOUS
  <2> HIDE DEF n, at
  <2>3. /\ x.at = at /\ x.base = cycle[e].base /\ x.dry = cycle[e].dry
        /\ x.step = cycle[e].step /\ x.page = cycle[e].page /\ x.known = cycle[e].known
        /\ x.got = cycle[e].got
    BY <1>1 DEF Cycle
  <2> HIDE DEF x
  <2>4. HasSearched(x, stored) /\ Beside(x, campaign'[c])
    BY <1>3, <1>4, <2>2, <2>3 DEF HasSearched, Beside, Looking
  <2>5. /\ campaign'[c].step = cycle[e].step /\ campaign'[c].page = cycle[e].page
        /\ campaign'[c].auto = campaign[c].auto
    BY <1>1, <1>2, <2>1 DEF Moved, Campaign
  <2> QED
    BY <1>2, <1>3, <1>5, <2>1, <2>4, <2>5 DEF RowSearched, Complete
<1>7. CASE Widen(e)
  <2> DEFINE step == cycle[e].step + 1
             x == [cycle[e] EXCEPT !.at = "search", !.step = step, !.page = 1, !.dry = FALSE]
  <2>1. cycle'[e] = x /\ campaign' = [campaign EXCEPT ![OfCycle(e)] = Moved(x)]
    BY <1>1, <1>7 DEF Widen, CycleIs, Cursor
  <2> HIDE DEF step
  <2>3. /\ x.at = "search" /\ x.base = cycle[e].base /\ ~x.dry /\ x.of = c
        /\ x.step = step /\ x.page = 1 /\ x.known = cycle[e].known
        /\ x.got = cycle[e].got
    BY <1>1, <1>2 DEF Cycle
  <2> HIDE DEF x
  <2>4. Behind(step, 1, stored) /\ Behind(step, 1, cycle[e].known)
    BY FirstPage DEF Behind
  <2>5. HasSearched(x, stored) /\ Beside(x, campaign'[c])
    BY <1>3, <1>4, <2>3, <2>4 DEF HasSearched, Beside
  <2>6. campaign'[c].step = step /\ campaign'[c].page = 1 /\ campaign'[c].auto = campaign[c].auto
    BY <1>1, <2>1, <2>3 DEF Moved, Campaign
  <2> QED
    BY <1>2, <1>3, <2>1, <2>4, <2>5, <2>6 DEF RowSearched, Complete
<1>8. CASE Final(e)
  <2>1. PICK thin \in Nat : campaign' = [campaign EXCEPT ![c] = Concluded(cycle[e], thin)]
    <3>1. cycle[e].base.thin \in Nat
      BY <1>1 DEF Cycle, Campaign
    <3>2. \E thin \in Nat : Cursor(OfCycle(e), Concluded(cycle[e], thin))
      BY <1>8, <3>1 DEF Final
    <3> QED
      BY <3>2 DEF Cursor
  <2>2. cycle'[e] = [cycle[e] EXCEPT !.at = "done"]
    BY <1>1, <1>8 DEF Final, CycleTo, CycleIs
  <2>3. cycle'[e].at = "done" /\ cycle'[e].base = cycle[e].base
    BY <1>1, <2>2 DEF Cycle
  <2>4. HasSearched(cycle'[e], stored) /\ Beside(cycle'[e], campaign'[c])
    BY <1>4, <2>3 DEF HasSearched, Beside, Looking
  <2> DEFINE m == Moved(cycle[e])
  <2>5. m \in Campaign /\ m.step = cycle[e].step /\ m.page = cycle[e].page
    <3>1. cycle[e].of \in Campaigns /\ campaign[cycle[e].of] \in Campaign
      BY <1>1 DEF Cycle
    <3>2. m.step = cycle[e].step /\ m.page = cycle[e].page
      BY <3>1 DEF Moved, Campaign
    <3> QED
      BY <1>1, <3>2, MovedRow
  <2>6. campaign'[c] = Concluded(cycle[e], thin)
    BY <1>1, <2>1
  <2> HIDE DEF m
  <2>7. \/ /\ campaign'[c] = [m EXCEPT !.thin = thin, !.auto = "exhausted"]
           /\ cycle[e].dry /\ cycle[e].step = MaxStep
        \/ \E next \in {"later", "due"} :
              campaign'[c] = [m EXCEPT !.thin = thin, !.auto = "live", !.next = next]
    BY <2>6 DEF Concluded, m
  <2>8. /\ campaign'[c].step = cycle[e].step /\ campaign'[c].page = cycle[e].page
        /\ campaign'[c].auto = "exhausted" => cycle[e].dry /\ cycle[e].step = MaxStep
    BY <2>5, <2>7 DEF Campaign
  <2>9. Complete(campaign'[c], stored)
    BY <1>1, <1>4, <2>8 DEF Complete
  <2> QED
    BY <1>2, <1>3, <1>5, <2>4, <2>8, <2>9 DEF RowSearched
<1> QED
  BY <1>6, <1>7, <1>8

LEMMA GoesSearches ==
    ASSUME CampaignTypeOK, Records, NEW e \in Cycles, Goes(e), NEW c \in Campaigns,
           c = OfCycle(e), HasSearched(cycle[e], stored), Beside(cycle[e], campaign[c]),
           Behind(campaign[c].step, campaign[c].page, stored), Complete(campaign[c], stored)
    PROVE  RowSearched(e)
<1>1. c = cycle[e].of /\ cycle[e] \in Cycle /\ campaign[c] \in Campaign /\ stored \in SUBSET People
  BY DEF OfCycle, CampaignTypeOK
<1>2. CASE \/ SenderReady(e) \/ NotFilled(e) \/ ReadKnown(e) \/ CountMissing(e)
           \/ AttachPerson(e) \/ Errs(e)
  <2>1. UNCHANGED <<campaign, stored>>
    BY <1>2 DEF SenderReady, NotFilled, ReadKnown, CountMissing, AttachPerson, Errs
  <2>2. HasSearched(cycle'[e], stored) /\ Beside(cycle'[e], campaign[c])
    BY <1>1, <1>2, QuietSearches
  <2> QED
    BY <1>1, <2>1, <2>2 DEF RowSearched
<1>3. CASE Search(e) \/ EnrichBatch(e)
  <2>1. UNCHANGED <<campaign, stored>>
    BY <1>3 DEF Search, EnrichBatch
  <2>2. HasSearched(cycle'[e], stored)
    BY <1>3, SearchSearches, EnrichSearches
  <2>3. Moves(e) /\ cycle'[e].at \notin {"sender", "count", "map"}
    <3>1. CASE Search(e)
      <4> DEFINE hits == Hits(cycle[e].step, cycle[e].page)
                 new == hits \ cycle[e].known
                 todo == FirstOf(cycle[e].remaining - GotVerified(cycle[e]), new)
                 y == [cycle[e] EXCEPT !.at = "store", !.dry = TRUE]
                 z == [cycle[e] EXCEPT !.at = "enrich", !.todo = todo, !.pages = @ + 1,
                                       !.leftover = todo # new,
                                       !.full = Cardinality(hits) = PerPage]
      <4>1. cycle'[e] \in {y, z}
        BY <3>1 DEF Search, CycleIs, CampaignTypeOK
      <4>2. y.at = "store" /\ z.at = "enrich"
        BY <1>1 DEF Cycle
      <4> HIDE DEF y, z
      <4> QED
        BY <3>1, <4>1, <4>2, SearchMoves
    <3>2. CASE EnrichBatch(e)
      <4>1. cycle[e].at = "enrich" /\ Moves(e)
        BY <3>2, EnrichMoves DEF EnrichBatch, CycleAtStep
      <4> DEFINE them == FirstOf(Batch, cycle[e].todo)
                 after == [cycle[e] EXCEPT !.todo = @ \ them, !.known = @ \cup them,
                                           !.got = @ \cup them]
      <4>2. cycle'[e] \in {after, PageDone(after)}
        BY <3>2 DEF EnrichBatch, CycleIs, CampaignTypeOK
      <4>3. after \in Cycle /\ after.at = "enrich"
        <5>1. them \in SUBSET cycle[e].todo
          BY DEF FirstOf
        <5> HIDE DEF them
        <5> QED
          BY <1>1, <4>1, <5>1 DEF Cycle
      <4> HIDE DEF after
      <4>4. PageDone(after).at \in {"store", "search"}
        BY <4>3 DEF PageDone, Cycle
      <4> QED
        BY <4>1, <4>2, <4>3, <4>4
    <3> QED
      BY <1>3, <3>1, <3>2
  <2> QED
    BY <1>1, <2>1, <2>2, <2>3 DEF RowSearched, Beside
<1>4. CASE \E p \in People : StorePerson(e, p)
  <2>1. PICK p \in People : StorePerson(e, p)
    BY <1>4
  <2>2. campaign' = campaign /\ stored' = stored \cup {p}
    BY <2>1 DEF StorePerson
  <2>3. HasSearched(cycle'[e], stored') /\ cycle'[e].at \in {"store", "attach"}
    BY <2>1, StoreSearches
  <2>4. stored' \in SUBSET People /\ stored \subseteq stored'
    BY <1>1, <2>2
  <2>5. Behind(campaign[c].step, campaign[c].page, stored') /\ Complete(campaign[c], stored')
    BY <1>1, <2>4, SearchedGrows
  <2> QED
    BY <1>1, <2>2, <2>3, <2>5 DEF RowSearched, Beside
<1>5. CASE MapFilters(e)
  BY <1>5, MapSearches
<1>6. CASE Recount(e) \/ Widen(e) \/ Final(e)
  BY <1>6, CursorSearches
<1> QED
  BY <1>2, <1>3, <1>4, <1>5, <1>6 DEF Goes

\* Whoever is at work while no row has lapsed works alone.
LEMMA Alone ==
    ASSUME CampaignTypeOK, RowsHeld, OneRowOut, ~overlapped, NEW e \in Cycles, NEW f \in Cycles,
           cycle[e].at # "idle", e # f
    PROVE  cycle[f].at = "idle"
<1> SUFFICES ASSUME cycle[f].at # "idle" PROVE FALSE
  OBVIOUS
<1>1. cycleRow[RowOfCycle(e)] = e /\ cycleRow[RowOfCycle(f)] = f
  BY DEF RowsHeld
<1>2. RowOfCycle(e) \in Campaigns \X Days /\ RowOfCycle(f) \in Campaigns \X Days
  BY DEF CampaignTypeOK, Cycle, RowOfCycle
<1>3. RowOfCycle(e) = RowOfCycle(f)
  BY <1>1, <1>2 DEF OneRowOut
<1> QED
  BY <1>1, <1>3

LEMMA IdleSearches ==
    ASSUME NEW x, x.at = "idle", NEW S, NEW row
    PROVE  HasSearched(x, S) /\ Beside(x, row)
BY DEF HasSearched, Beside, Looking

\* An execution that goes on leaves the other campaigns alone.
LEMMA GoesElsewhere ==
    ASSUME CampaignTypeOK, Records, NEW e \in Cycles, Goes(e)
    PROVE  /\ stored \subseteq stored' /\ stored' \in SUBSET People
           /\ \A d \in Campaigns \ {OfCycle(e)} : campaign'[d] = campaign[d]
<1>1. stored \in SUBSET People /\ campaign \in [Campaigns -> Campaign]
  BY DEF CampaignTypeOK
<1>2. CASE MapFilters(e) \/ Recount(e) \/ Final(e)
  BY <1>1, <1>2 DEF MapFilters, Recount, Final, Cursor
<1>3. CASE Widen(e)
  BY <1>1, <1>3 DEF Widen, Cursor
<1>4. CASE \E p \in People : StorePerson(e, p)
  BY <1>1, <1>4 DEF StorePerson
<1>5. CASE \/ SenderReady(e) \/ NotFilled(e) \/ ReadKnown(e) \/ CountMissing(e) \/ Search(e)
           \/ EnrichBatch(e) \/ AttachPerson(e) \/ Errs(e)
  BY <1>1, <1>5 DEF SenderReady, NotFilled, ReadKnown, CountMissing, Search, EnrichBatch,
                    AttachPerson, Errs
<1> QED
  BY <1>2, <1>3, <1>4, <1>5 DEF Goes

\* A change of the row by the user or the day
LEMMA RowChangeSearches ==
    ASSUME CampaignTypeOK, NEW c \in Campaigns, SearchedSo(c), UNCHANGED <<stored, cycle>>,
           \/ campaign'[c].step = campaign[c].step /\ campaign'[c].page = campaign[c].page
           \/ campaign'[c].step = 0 /\ campaign'[c].page = 1,
           Complete(campaign'[c], stored),
           patch'.at = "read" /\ patch'.of = c => Complete(patch'.seen, stored)
    PROVE  SearchedSo(c)'
<1>1. Behind(campaign'[c].step, campaign'[c].page, stored)
  BY FirstPage DEF SearchedSo, Behind
<1>2. \A e \in Cycles : cycle[e].of = c =>
          HasSearched(cycle[e], stored) /\ Beside(cycle[e], campaign'[c])
  <2> SUFFICES ASSUME NEW e \in Cycles, cycle[e].of = c
               PROVE  HasSearched(cycle[e], stored) /\ Beside(cycle[e], campaign'[c])
    OBVIOUS
  <2>1. HasSearched(cycle[e], stored) /\ Beside(cycle[e], campaign[c])
    BY DEF SearchedSo
  <2>2. cycle[e].base.step \in 0..MaxStep
    BY DEF CampaignTypeOK, Cycle, Campaign
  <2>3. 0 = MaxStep => cycle[e].base.step = MaxStep
    BY <2>2
  <2> QED
    BY <2>1, <2>3 DEF Beside
<1> QED
  BY <1>1, <1>2 DEF SearchedSo

LEMMA SearchedStep ==
    ASSUME CampaignTypeOK, Records, RowsHeld, OneRowOut, Searched, CampaignNext
    PROVE  Searched'
<1> SUFFICES ASSUME ~overlapped', NEW c \in Campaigns, "error" \notin disturbed'[c]
             PROVE  SearchedSo(c)'
  BY DEF Searched
<1>1. overlapped' = overlapped \/ \E e \in Cycles : RowLapses(e)
  BY KindsOfSteps, GoesMoves, EndsLeave, OthersLeave DEF TakeRow, NewDay, History
<1>2. ~overlapped /\ ~(\E e \in Cycles : RowLapses(e))
  BY <1>1 DEF RowLapses
<1>3. SearchedSo(c)
  BY <1>2, DisturbedGrows DEF Searched
<1>4. /\ campaign[c] \in Campaign /\ campaign \in [Campaigns -> Campaign]
      /\ cycle \in [Cycles -> Cycle] /\ stored \in SUBSET People /\ patch \in Patch
  BY DEF CampaignTypeOK
<1>5. ASSUME NEW e \in Cycles, Goes(e) PROVE SearchedSo(c)'
  <2>1. Moves(e) /\ UNCHANGED <<patch, overlapped, disturbed>>
    BY <1>5, GoesMoves
  <2>2. /\ stored \subseteq stored' /\ stored' \in SUBSET People
        /\ \A d \in Campaigns \ {OfCycle(e)} : campaign'[d] = campaign[d]
    BY <1>5, GoesElsewhere
  <2>3. patch'.at = "read" /\ patch'.of = c => Complete(patch'.seen, stored')
    BY <1>3, <1>4, <2>1, <2>2, SearchedGrows DEF SearchedSo, Patch
  <2>4. \A f \in Cycles \ {e} : cycle'[f] = cycle[f] /\ cycle'[f].at = "idle"
    BY <1>2, <2>1, Alone DEF Moves
  <2>5. CASE c = OfCycle(e)
    <3>1. /\ HasSearched(cycle[e], stored) /\ Beside(cycle[e], campaign[c])
          /\ Behind(campaign[c].step, campaign[c].page, stored) /\ Complete(campaign[c], stored)
      BY <1>3, <2>5 DEF SearchedSo, OfCycle
    <3>2. RowSearched(e)
      BY <1>5, <2>5, <3>1, GoesSearches
    <3>3. \A f \in Cycles : HasSearched(cycle'[f], stored') /\ Beside(cycle'[f], campaign'[c])
      BY <2>4, <2>5, <3>2, IdleSearches DEF RowSearched, OfCycle
    <3> QED
      BY <2>3, <2>5, <3>2, <3>3 DEF SearchedSo, RowSearched, OfCycle
  <2>6. CASE c # OfCycle(e)
    <3>1. campaign'[c] = campaign[c]
      BY <2>2, <2>6
    <3>2. /\ Behind(campaign[c].step, campaign[c].page, stored')
          /\ Complete(campaign[c], stored')
      BY <1>3, <1>4, <2>2, SearchedGrows DEF SearchedSo
    <3>3. cycle'[e].of # c
      BY <2>1, <2>6 DEF Moves, NextRecord, OfCycle
    <3>4. \A f \in Cycles : cycle'[f].of = c =>
              HasSearched(cycle'[f], stored') /\ Beside(cycle'[f], campaign'[c])
      BY <2>4, <3>3, IdleSearches
    <3> QED
      BY <2>3, <3>1, <3>2, <3>4 DEF SearchedSo
  <2> QED
    BY <2>5, <2>6
<1>6. ASSUME NEW e \in Cycles, Ends(e) PROVE SearchedSo(c)'
  <2>1. Rests(e) /\ UNCHANGED <<stored, patch>>
    BY <1>6, EndsLeave
  <2>2. Resting.at = "idle"
    BY RestingRecord
  <2>3. OfCycle(e) \in Campaigns /\ campaign[OfCycle(e)] \in Campaign
    BY <1>4 DEF OfCycle, Cycle
  <2>4. ASSUME /\ \A f \in Cycles : cycle[f].of = c => Beside(cycle[f], campaign'[c])
               /\ Behind(campaign'[c].step, campaign'[c].page, stored)
               /\ Complete(campaign'[c], stored)
        PROVE  SearchedSo(c)'
    <3>1. \A f \in Cycles : cycle'[f].of = c =>
              HasSearched(cycle'[f], stored') /\ Beside(cycle'[f], campaign'[c])
      BY <1>3, <2>1, <2>2, <2>4, IdleSearches DEF Rests, SearchedSo
    <3> QED
      BY <1>3, <2>1, <2>4, <3>1 DEF SearchedSo
  <2>5. CASE campaign'[c] = campaign[c]
    BY <1>3, <2>4, <2>5 DEF SearchedSo
  <2>6. CASE c = OfCycle(e) /\ (SenderMissing(e) \/ AlreadyFilled(e))
    <3>1. cycle[e].at \in {"sender", "count"} /\ cycle[e].of = c
      BY <2>6 DEF SenderMissing, AlreadyFilled, CycleAtStep, OfCycle
    <3>2. /\ campaign'[c].step = campaign[c].step /\ campaign'[c].page = cycle[e].base.page
          /\ campaign'[c].auto # "exhausted"
      <4>1. CASE SenderMissing(e)
        <5>1. campaign' = [campaign EXCEPT ![c] =
                  [campaign[c] EXCEPT !.page = cycle[e].base.page, !.auto = "pending_sender"]]
          BY <2>6, <4>1 DEF SenderMissing, Cursor
        <5> QED
          BY <1>4, <5>1 DEF Campaign
      <4>2. CASE AlreadyFilled(e)
        <5>1. campaign' = [campaign EXCEPT ![c] =
                  [campaign[c] EXCEPT !.page = cycle[e].base.page,
                                      !.next = "later", !.thin = 0, !.auto = "live"]]
          BY <2>6, <4>2 DEF AlreadyFilled, Cursor
        <5> QED
          BY <1>4, <5>1 DEF Campaign
      <4> QED
        BY <2>6, <4>1, <4>2
    <3>3. HasSearched(cycle[e], stored) /\ Beside(cycle[e], campaign[c])
      BY <1>3, <3>1 DEF SearchedSo
    <3>4. Behind(cycle[e].base.step, cycle[e].base.page, stored)
          /\ (campaign[c].step = MaxStep => cycle[e].base.step = MaxStep)
      BY <3>1, <3>3 DEF HasSearched, Beside
    <3>5. Behind(campaign'[c].step, campaign'[c].page, stored) /\ Complete(campaign'[c], stored)
      BY <3>2, <3>4 DEF Behind, Complete
    <3>6. \A f \in Cycles : cycle[f].of = c => Beside(cycle[f], campaign'[c])
      BY <1>3, <3>2 DEF SearchedSo, Beside
    <3> QED
      BY <2>4, <3>5, <3>6
  <2>7. CASE c = OfCycle(e) /\ Catch(e)
    <3>1. "error" \in disturbed'[c]
      BY <2>7 DEF Catch, CampaignTypeOK
    <3> QED
      BY <3>1
  <2>8. CASE Done(e) \/ CycleCrashes(e)
    BY <2>5, <2>8 DEF Done, CycleCrashes
  <2>9. CASE c # OfCycle(e) /\ (SenderMissing(e) \/ AlreadyFilled(e) \/ Catch(e))
    <3>1. \A d \in Campaigns \ {OfCycle(e)} : campaign'[d] = campaign[d]
      BY <1>4, <2>9 DEF SenderMissing, AlreadyFilled, Catch, Cursor
    <3> QED
      BY <2>5, <2>9, <3>1
  <2> QED
    BY <1>6, <2>6, <2>7, <2>8, <2>9 DEF Ends
<1>7. ASSUME NEW r \in Campaigns \X Days, NEW e \in Cycles, TakeRow(e, r)
      PROVE  SearchedSo(c)'
  <2>1. UNCHANGED <<campaign, stored, patch>>
    BY <1>7 DEF TakeRow, NobodyElse
  <2>2. CASE UNCHANGED cycle
    BY <1>3, <2>1, <2>2 DEF SearchedSo
  <2>3. CASE cycle' # cycle
    <3> DEFINE x == [Resting EXCEPT !.at = "sender", !.of = r[1], !.day = r[2],
                                    !.base = campaign[r[1]]]
    <3>1. cycle' = [cycle EXCEPT ![e] = x]
      BY <1>7, <2>3 DEF TakeRow, CycleIs
    <3>2. x.at = "sender" /\ x.of = r[1] /\ x.base = campaign[r[1]] /\ ~x.dry
      BY DEF Resting
    <3> HIDE DEF x
    <3>3. cycle'[e] = x /\ \A f \in Cycles \ {e} : cycle'[f] = cycle[f]
      BY <1>4, <3>1
    <3>4. cycle'[e].of = c => HasSearched(cycle'[e], stored) /\ Beside(cycle'[e], campaign[c])
      BY <1>3, <3>2, <3>3 DEF SearchedSo, HasSearched, Beside, Looking
    <3>5. \A f \in Cycles : cycle'[f].of = c =>
              HasSearched(cycle'[f], stored) /\ Beside(cycle'[f], campaign[c])
      BY <1>3, <3>3, <3>4 DEF SearchedSo
    <3> QED
      BY <1>3, <2>1, <3>5 DEF SearchedSo
  <2> QED
    BY <2>2, <2>3
<1>8. CASE NewDay
  <2>1. UNCHANGED <<stored, cycle, patch>>
    BY <1>8 DEF NewDay
  <2>2. /\ campaign'[c].step = campaign[c].step /\ campaign'[c].page = campaign[c].page
        /\ campaign'[c].auto = campaign[c].auto
    BY <1>4, <1>8 DEF NewDay, Campaign
  <2>3. /\ Complete(campaign'[c], stored)
        /\ patch'.at = "read" /\ patch'.of = c => Complete(patch'.seen, stored)
    BY <1>3, <2>1, <2>2 DEF SearchedSo, Complete
  <2> QED
    BY <1>3, <2>1, <2>2, <2>3, RowChangeSearches
<1>9. ASSUME NEW d \in Campaigns, EnqueueDue(d) PROVE SearchedSo(c)'
  BY <1>3, <1>9 DEF EnqueueDue, NobodyElse, SearchedSo
<1>10. ASSUME NEW d \in Campaigns, PatchRead(d) PROVE SearchedSo(c)'
  <2>1. /\ UNCHANGED <<campaign, stored, cycle>>
        /\ patch' = [at |-> "read", of |-> d, seen |-> campaign[d]]
    BY <1>10 DEF PatchRead
  <2>2. patch'.of = c => Complete(patch'.seen, stored)
    BY <1>3, <2>1 DEF SearchedSo
  <2> QED
    BY <1>3, <2>1, <2>2 DEF SearchedSo
<1>11. ASSUME NEW d \in Campaigns, Archive(d) PROVE SearchedSo(c)'
  <2>1. /\ UNCHANGED <<stored, cycle, patch>>
        /\ campaign' = [campaign EXCEPT ![d] = [campaign[d] EXCEPT
               !.archived = TRUE, !.auto = "paused", !.next = "null"]]
    BY <1>11 DEF Archive, Cursor
  <2>2. /\ campaign'[c].step = campaign[c].step /\ campaign'[c].page = campaign[c].page
        /\ campaign'[c].auto \in {campaign[c].auto, "paused"}
    BY <1>4, <2>1 DEF Campaign
  <2>3. /\ Complete(campaign'[c], stored)
        /\ patch'.at = "read" /\ patch'.of = c => Complete(patch'.seen, stored)
    BY <1>3, <2>1, <2>2 DEF SearchedSo, Complete
  <2> QED
    BY <1>3, <2>1, <2>2, <2>3, RowChangeSearches
<1>12. ASSUME NEW auto \in {"keep", "live", "paused"}, NEW ready \in BOOLEAN,
              NEW retarget \in BOOLEAN, PatchWrite(auto, ready, retarget)
       PROVE  SearchedSo(c)'
  <2> DEFINE d == patch.of
             s == Wanted(auto, ready)
             row == Switched(d, s)
  <2>1. d \in Campaigns /\ s \in AutoStatus /\ patch.at = "read"
    BY <1>12 DEF PatchWrite, CampaignTypeOK, Patch, Campaign, Wanted, AutoStatus
  <2>2. /\ UNCHANGED <<stored, cycle>> /\ patch' = NoPatch
        /\ campaign' = [campaign EXCEPT ![d] = IF retarget THEN StartsOver(row) ELSE row]
    BY <1>12 DEF PatchWrite, Cursor
  <2>3. s = "exhausted" => patch.seen.auto = "exhausted"
    BY DEF Wanted
  <2>4. patch'.at # "read"
    BY <2>2 DEF NoPatch
  <2>5. PICK next \in NextCycle : row = [campaign[d] EXCEPT !.auto = s, !.next = next]
    BY DEF Switched, NextCycle
  <2>6. /\ row \in Campaign /\ row.step = campaign[d].step /\ row.page = campaign[d].page
        /\ row.auto = s
    BY <1>4, <2>1, <2>5 DEF Campaign
  <2> HIDE DEF row, s
  <2>7. /\ StartsOver(row).step = 0 /\ StartsOver(row).page = 1 /\ StartsOver(row).auto = s
    BY <2>6 DEF StartsOver, Campaign
  <2>8. CASE c # d
    <3>1. campaign'[c] = campaign[c]
      BY <1>4, <2>2, <2>8
    <3> QED
      BY <1>3, <2>2, <2>4, <3>1 DEF SearchedSo
  <2>9. CASE c = d
    <3>1. campaign'[c] = IF retarget THEN StartsOver(row) ELSE row
      BY <1>4, <2>2, <2>9
    <3>2. campaign'[c].auto = s
      BY <2>6, <2>7, <3>1
    <3>3. Complete(campaign'[c], stored)
      BY <1>3, <2>1, <2>3, <2>9, <3>2 DEF SearchedSo, Complete
    <3>4. \/ campaign'[c].step = campaign[c].step /\ campaign'[c].page = campaign[c].page
          \/ campaign'[c].step = 0 /\ campaign'[c].page = 1
      BY <2>6, <2>7, <2>9, <3>1
    <3> QED
      BY <1>3, <2>2, <2>4, <3>3, <3>4, RowChangeSearches
  <2> QED
    BY <2>8, <2>9
<1>13. CASE PatchRefused
  <2>1. UNCHANGED <<campaign, stored, cycle>> /\ patch'.at # "read"
    BY <1>13 DEF PatchRefused, NoPatch
  <2> QED
    BY <1>3, <2>1 DEF SearchedSo
<1> QED
  BY <1>2, <1>5, <1>6, <1>7, <1>8, <1>9, <1>10, <1>11, <1>12, <1>13, KindsOfSteps

-----------------------------------------------------------------------------
CampaignInvariant ==
    /\ CampaignTypeOK
    /\ Records
    /\ RowsHeld
    /\ OneRowOut
    /\ TargetingFollowed
    /\ PaymentsAccounted
    /\ QuotaHeld
    /\ NoneAhead
    /\ Searched

LEMMA CampaignStarts == CampaignInit => CampaignInvariant
<1> SUFFICES ASSUME CampaignInit PROVE CampaignInvariant
  OBVIOUS
<1>1. 1 \in Days /\ \A e \in Cycles : cycle[e] = Resting
  BY CampaignAssumption DEF CampaignInit, Days
<1>2. CampaignTypeOK
  <2>1. NoPatch \in Patch
    BY RestingRecord DEF NoPatch, Patch
  <2>2. /\ campaign \in [Campaigns -> Campaign] /\ cycle \in [Cycles -> Cycle]
        /\ failures \in 0..MaxFailures /\ edits \in 0..MaxEdits
    BY RestingRecord, CampaignAssumption DEF CampaignInit
  <2>3. /\ stored \subseteq People /\ today \in Days /\ overlapped \in BOOLEAN
        /\ attached \in [Campaigns -> [People -> Days \cup {0}]]
        /\ cycleRow \in [Campaigns \X Days -> {"none", "pending", "closed"} \cup Cycles]
        /\ patch \in Patch /\ paid \in [People -> Nat] /\ lost \in [People -> Nat]
        /\ disturbed \in [Campaigns -> SUBSET Interference]
    BY <1>1, <2>1 DEF CampaignInit
  <2> QED
    BY <2>2, <2>3 DEF CampaignTypeOK
<1>3. Records /\ RowsHeld
  BY <1>1, RestingRecord DEF Records, RowsHeld
<1>4. OneRowOut
  BY CampaignAssumption DEF CampaignInit, OneRowOut
<1>5. TargetingFollowed
  BY <1>1, RestingRecord DEF CampaignInit, TargetingFollowed, Agrees, NewCampaign
<1>6. PaymentsAccounted
  <2> SUFFICES ASSUME NEW p \in People PROVE PaidFor(p)
    BY DEF PaymentsAccounted
  <2>1. paid[p] = 0 /\ lost[p] = 0 /\ p \notin stored
    BY DEF CampaignInit
  <2>2. Cardinality(Holding(p)) \in Nat
    BY FewCycles DEF Holding
  <2> QED
    BY <2>1, <2>2 DEF PaidFor
<1>7. NoneAhead
  BY DEF CampaignInit, NoneAhead
<1>8. QuotaHeld
  <2> SUFFICES ASSUME NEW c \in Campaigns PROVE WithinQuota(c)
    BY DEF QuotaHeld
  <2>1. AtOnce * Quota[c] \in Nat
    BY AtOnceType, QuotaCounts, ProductGrows
  <2>2. \A d \in Days : Attached(c, d) = 0
    <3> SUFFICES ASSUME NEW d \in Days PROVE Attached(c, d) = 0
      OBVIOUS
    <3>1. {p \in People : attached[c][p] = d} = {}
      BY CampaignAssumption DEF CampaignInit, Days
    <3>2. Attached(c, d) = Cardinality({})
      BY <3>1 DEF Attached
    <3> QED
      BY <3>2, FS_EmptySet
  <2>3. Cardinality(Slots(c)) = 0
    <3>1. \A s \in Cycles \X (1..Quota[c]) : s[2] \in Int /\ s[2] >= 1
      BY QuotaCounts
    <3>2. \A e \in Cycles : Pending(cycle[e]) = 0
      BY <1>1, RestingRecord DEF Pending
    <3>3. Slots(c) = {}
      BY <3>1, <3>2 DEF Slots
    <3> QED
      BY <3>3, FS_EmptySet
  <2>4. today \in Days
    BY <1>2 DEF CampaignTypeOK
  <2>5. CountsToday(c)
    BY <1>1, RestingRecord DEF CountsToday
  <2> QED
    BY <2>1, <2>2, <2>3, <2>4, <2>5 DEF WithinQuota
<1>9. Searched
  <2> SUFFICES ASSUME NEW c \in Campaigns PROVE SearchedSo(c)
    BY DEF Searched
  <2>1. campaign[c].step = 0 /\ campaign[c].page = 1 /\ campaign[c].auto = "live"
    BY DEF CampaignInit, NewCampaign
  <2>2. \A e \in Cycles : HasSearched(cycle[e], stored) /\ Beside(cycle[e], campaign[c])
    BY <1>1, RestingRecord, IdleSearches
  <2>3. patch.at # "read"
    BY DEF CampaignInit, NoPatch
  <2> QED
    BY <2>1, <2>2, <2>3, FirstPage DEF SearchedSo, Behind, Complete
<1> QED
  BY <1>2, <1>3, <1>4, <1>5, <1>6, <1>7, <1>8, <1>9 DEF CampaignInvariant

LEMMA CampaignStutters ==
    ASSUME CampaignInvariant, UNCHANGED campaignVars
    PROVE  CampaignInvariant'
<1> USE DEF CampaignInvariant, campaignVars
<1>1. CampaignTypeOK'
  BY DEF CampaignTypeOK
<1>2. Records' /\ RowsHeld' /\ OneRowOut'
  BY DEF Records, RowsHeld, RowOfCycle, OneRowOut
<1>3. TargetingFollowed'
  BY DEF TargetingFollowed, Agrees
<1>4. PaymentsAccounted'
  BY DEF PaymentsAccounted, PaidFor, MayPay, Holding, AtOnce
<1>5. QuotaHeld'
  BY DEF QuotaHeld, WithinQuota, CountsToday, Attached, Slots, AtOnce
<1>6. NoneAhead'
  BY DEF NoneAhead
<1>7. Searched'
  BY DEF Searched, SearchedSo
<1> QED
  BY <1>1, <1>2, <1>3, <1>4, <1>5, <1>6, <1>7

LEMMA CampaignHolds == CampaignSpec => []CampaignInvariant
<1>1. CampaignInvariant /\ CampaignNext => CampaignInvariant'
  <2> SUFFICES ASSUME CampaignInvariant, CampaignNext PROVE CampaignInvariant'
    OBVIOUS
  <2> USE DEF CampaignInvariant
  <2>1. CampaignTypeOK' /\ Records'
    BY CampaignTypeStep
  <2>2. RowsHeld' /\ OneRowOut'
    BY RowsStep
  <2>3. TargetingFollowed' /\ PaymentsAccounted'
    BY TargetingStep, PaidStep
  <2>4. QuotaHeld' /\ NoneAhead'
    BY QuotaStep, NoneAheadStep
  <2>5. Searched'
    BY SearchedStep
  <2> QED
    BY <2>1, <2>2, <2>3, <2>4, <2>5
<1> QED
  BY <1>1, CampaignStarts, CampaignStutters, PTL DEF CampaignSpec

\* The rows of the campaigns, of the people and of the queue and what an execution has
\* in memory are of their types.
THEOREM CampaignTypesCorrect == CampaignSpec => []CampaignTypeOK
<1>1. CampaignInvariant => CampaignTypeOK
  BY DEF CampaignInvariant
<1> QED
  BY <1>1, CampaignHolds, PTL

\* A day sources no more people for a campaign than its quota, for each execution that
\* was let in: a cycle open at midnight is excepted, whatever an error, a
\* crash, a lapse or an edit does is not.
THEOREM QuotaIsKept == CampaignSpec => []QuotaKept
<1>1. CampaignInvariant => QuotaKept
  BY DEF CampaignInvariant, QuotaHeld, WithinQuota, QuotaKept
<1> QED
  BY <1>1, CampaignHolds, PTL

\* Nobody is paid for more often than executions may work at once and payments were
\* lost: "never enrich someone already stored" holds but for these.
THEOREM NobodyIsPaidForTwice == CampaignSpec => []PaidOnce
<1>1. CampaignInvariant => PaidOnce
  BY AccountsAreBounded DEF CampaignInvariant
<1> QED
  BY <1>1, CampaignHolds, PTL

\* A campaign is given up as exhausted only when everybody the widest search finds was
\* looked at and is stored: crashes between a page and its cursor, edits of the targeting
\* and statuses written back by the user do not skip anybody. An error in a cycle of the
\* campaign, which puts an old page back, and an execution without its row are excepted.
THEOREM ExhaustionMeansSearched == CampaignSpec => []ExhaustedMeansSearched
<1>1. CampaignInvariant => ExhaustedMeansSearched
  BY DEF CampaignInvariant, Searched, SearchedSo, Complete, ExhaustedMeansSearched
<1> QED
  BY <1>1, CampaignHolds, PTL

\* The search of a campaign follows its targeting, unless it was changed under a cycle.
THEOREM SearchKeepsToTargeting == CampaignSpec => []SearchFollowsTargeting
<1>1. CampaignInvariant => SearchFollowsTargeting
  BY DEF CampaignInvariant, TargetingFollowed, Agrees, SearchFollowsTargeting
<1> QED
  BY <1>1, CampaignHolds, PTL
===============================================================================
