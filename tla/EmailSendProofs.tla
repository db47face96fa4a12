--------------------------- MODULE EmailSendProofs --------------------------
(***************************************************************************)
(* That the outbound email queue sends no email twice, proved for every    *)
(* number of items, rows, bodies, requests and faults.                     *)
(***************************************************************************)
EXTENDS EmailSendProperties, TLAPS

\* What the unique index keeps true of the table.
OneActiveRowPerItem ==
    \A q, r \in Rows :
        (/\ ItemOf[q] = ItemOf[r]
         /\ row[q].status \in Active /\ row[r].status \in Active) => q = r

\* An undisturbed sender holds a fresh row in "sending", alone.
SendersAreExclusive ==
    \A a \in Agents :
        (agent[a].at \in Sending /\ Email(a) \notin sent \cup disturbed) =>
            /\ row[Mine(a)].status = "sending" /\ ~row[Mine(a)].old
            /\ \A b \in Agents :
                  (agent[b].at \in Sending /\ Email(b) = Email(a)) => b = a

\* Nobody is about to send, or to record, what has a record.
NoneSendsAgain ==
    \A a \in Agents :
        (agent[a].at \in {"send", "record"} /\ Email(a) \notin disturbed)
            => Email(a) \notin sent

AboutToMark(a) ==
    \/ agent[a].at = "mark"
    \/ agent[a].at = "dropWork" /\ agent[a].op # "cancel"

\* Whoever marks a row as sent has seen a record.
MarksAreRecorded ==
    \A a \in Agents : AboutToMark(a) => Email(a) \in sent

Recording(i) == \E a \in Agents : agent[a].at = "record" /\ Email(a) = i

\* Every acceptance is recorded, about to be, or lost.
AcceptancesCounted ==
    \A i \in Items \ disturbed :
        /\ accepted[i] <= lost[i] + 1
        /\ (i \notin sent /\ ~Recording(i)) => accepted[i] <= lost[i]

Facts ==
    /\ OneActiveRowPerItem
    /\ SendersAreExclusive
    /\ NoneSendsAgain
    /\ MarksAreRecorded
    /\ SentRowsAreRecorded
    /\ AcceptancesCounted

SendInvariant == SendTypeOK /\ Facts

-----------------------------------------------------------------------------
\* What the activities of a step look like to everybody else.

LEMMA BusyHasRow ==
    ASSUME SendTypeOK, NEW a \in Agents, agent[a].at # "idle"
    PROVE  Mine(a) \in Rows /\ Email(a) \in Items
<1>1. agent[a] # Idle
  BY DEF Idle
<1> QED
  BY <1>1, SendAssumption DEF SendTypeOK, Mine, Email

\* Nobody comes to send, nobody leaves its record behind, and whoever comes
\* to mark a row has seen a record.
AgentsCalm ==
    \A b \in Agents :
        /\ agent'[b].at \in Sending => agent'[b] = agent[b]
        /\ agent[b].at = "record" => agent'[b] = agent[b]
        /\ (\/ agent'[b].at = "mark"
            \/ agent'[b].at = "dropWork" /\ agent'[b].op # "cancel")
               => ItemOf[agent'[b].row] \in sent

LEMMA StayingIsCalm ==
    ASSUME MarksAreRecorded, agent' = agent
    PROVE  AgentsCalm
BY DEF AgentsCalm, MarksAreRecorded, AboutToMark, Email, Mine

LEMMA GoingIsCalm ==
    ASSUME SendTypeOK, MarksAreRecorded, NEW a \in Agents, NEW at,
           GoesTo(a, at), at \notin Sending, agent[a].at # "record",
           \/ at = "mark" /\ Email(a) \in sent
           \/ at = "dropWork" /\ Email(a) \in sent
           \/ at \notin {"mark", "dropWork"}
    PROVE  AgentsCalm
<1>1. agent \in [Agents -> Activity]
  BY DEF SendTypeOK
<1>2. agent' = [agent EXCEPT ![a] = [agent[a] EXCEPT !.at = at]]
  BY <1>1 DEF GoesTo
<1>3. \A b \in Agents \ {a} : agent'[b] = agent[b]
  BY <1>1, <1>2
<1>4. agent'[a] = [agent[a] EXCEPT !.at = at]
  BY <1>1, <1>2
<1>5. agent'[a].at = at /\ agent'[a].row = agent[a].row
  BY <1>1, <1>4 DEF Activity
<1> QED
  BY <1>3, <1>5 DEF AgentsCalm, MarksAreRecorded, AboutToMark, Email, Mine

LEMMA EndingIsCalm ==
    ASSUME SendTypeOK, MarksAreRecorded, NEW a \in Agents,
           Ends(a), agent[a].at # "record"
    PROVE  AgentsCalm
<1>1. \A b \in Agents \ {a} : agent'[b] = agent[b]
  BY DEF SendTypeOK, Ends
<1>2. agent'[a] = Idle
  BY DEF SendTypeOK, Ends
<1>3. agent'[a].at = "idle"
  BY <1>2 DEF Idle
<1> QED
  BY <1>1, <1>3
     DEF AgentsCalm, MarksAreRecorded, AboutToMark, Email, Mine, Sending

LEMMA PlannedIsCalm ==
    ASSUME SendTypeOK, MarksAreRecorded, NEW a \in Agents,
           Planned(a), agent[a].at # "record"
    PROVE  AgentsCalm
BY GoingIsCalm, EndingIsCalm DEF Planned, Sending

LEMMA ReturningIsCalm ==
    ASSUME SendTypeOK, MarksAreRecorded, NEW a \in Agents,
           NEW at \in {"done", "retry"},
           Returns(a, at), agent[a].at # "record"
    PROVE  AgentsCalm
BY GoingIsCalm, EndingIsCalm DEF Returns, Sending

LEMMA BeginningIsCalm ==
    ASSUME SendTypeOK, MarksAreRecorded, NEW a \in Agents, NEW q \in Rows,
           NEW op, NEW at, Begins(a, op, at, q),
           at \notin Sending \cup {"mark"},
           at = "dropWork" => (op = "cancel" \/ ItemOf[q] \in sent)
    PROVE  AgentsCalm
<1>1. \A b \in Agents \ {a} : agent'[b] = agent[b]
  BY DEF SendTypeOK, Begins
<1>2. agent'[a] = [op |-> op, at |-> at, row |-> q]
  BY DEF SendTypeOK, Begins
<1>3. agent'[a].op = op /\ agent'[a].at = at /\ agent'[a].row = q
  BY <1>2
<1>4. agent[a].at = "idle"
  BY DEF Begins, Idle
<1> QED
  BY <1>1, <1>3, <1>4
     DEF AgentsCalm, MarksAreRecorded, AboutToMark, Email, Mine

-----------------------------------------------------------------------------
\* The shapes that the steps have.

OutsideKept ==
    sent' = sent /\ accepted' = accepted /\ lost' = lost

\* No status changes, and no row becomes old.
RowsCalm ==
    \A q \in Rows : /\ row'[q].status = row[q].status
                    /\ row'[q].old => row[q].old

LEMMA CalmKeepsFacts ==
    ASSUME SendTypeOK, Facts, OutsideKept, disturbed' = disturbed,
           RowsCalm, AgentsCalm, SendTypeOK'
    PROVE  Facts'
<1> USE DEF OutsideKept
<1>1. OneActiveRowPerItem'
  BY DEF Facts, OneActiveRowPerItem, RowsCalm
<1>2. \A a \in Agents : agent'[a].at \in Sending =>
         Mine(a)' = Mine(a) /\ Email(a)' = Email(a) /\ Mine(a) \in Rows
                            /\ agent[a].at \in Sending
  BY BusyHasRow DEF AgentsCalm, Mine, Email, Sending
<1>3. SendersAreExclusive'
  BY <1>2 DEF Facts, SendersAreExclusive, RowsCalm
<1>4. NoneSendsAgain'
  BY <1>2 DEF Facts, NoneSendsAgain, AgentsCalm, Sending
<1>5. MarksAreRecorded'
  BY DEF MarksAreRecorded, AboutToMark, AgentsCalm, Email, Mine
<1>6. SentRowsAreRecorded'
  BY DEF Facts, SentRowsAreRecorded, RowsCalm
<1>7. \A i \in Items : Recording(i) => Recording(i)'
  BY DEF Recording, AgentsCalm, Email, Mine
<1>8. AcceptancesCounted'
  BY <1>7 DEF Facts, AcceptancesCounted
<1> QED
  BY <1>1, <1>3, <1>4, <1>5, <1>6, <1>8 DEF Facts

\* A row is overwritten by somebody who does not send it.
LEMMA TakingKeepsFacts ==
    ASSUME SendTypeOK, Facts, OutsideKept, AgentsCalm, SendTypeOK',
           NEW a \in Agents, NEW q \in Rows, agent[a].at \notin Sending,
           NEW s \in {"queued", "cancelled", "failed"},
           BecomesWith(q, s), TakenBy(a, q),
           s = "queued" => (MayBeActive(q) \/ row[q].status = "sending")
    PROVE  Facts'
<1> USE DEF OutsideKept
<1>1. \A r \in Rows \ {q} : row'[r] = row[r]
  BY DEF SendTypeOK, BecomesWith
<1>2. row'[q].status = s
  BY DEF SendTypeOK, BecomesWith, Row
<1>3. disturbed \subseteq disturbed'
  BY DEF TakenBy
<1>4. OneActiveRowPerItem'
  BY <1>1, <1>2 DEF Facts, OneActiveRowPerItem, MayBeActive, Active
<1>5. \A b \in Agents : agent'[b].at \in Sending =>
         Mine(b)' = Mine(b) /\ Email(b)' = Email(b) /\ Mine(b) \in Rows
                            /\ agent[b].at \in Sending
  BY BusyHasRow DEF AgentsCalm, Mine, Email, Sending
<1>6. \A b \in Agents :
         (agent[b].at \in Sending /\ Mine(b) = q) => Email(b) \in disturbed'
  <2> SUFFICES ASSUME NEW b \in Agents, agent[b].at \in Sending, Mine(b) = q
               PROVE  Email(b) \in disturbed'
    OBVIOUS
  <2>1. b \in Senders(q) \ {a}
    BY DEF Senders
  <2> QED
    BY <2>1 DEF TakenBy, Email
<1>7. SendersAreExclusive'
  BY <1>1, <1>3, <1>5, <1>6 DEF Facts, SendersAreExclusive
<1>8. NoneSendsAgain'
  BY <1>3, <1>5 DEF Facts, NoneSendsAgain, AgentsCalm, Sending
<1>9. MarksAreRecorded'
  BY DEF MarksAreRecorded, AboutToMark, AgentsCalm, Email, Mine
<1>10. SentRowsAreRecorded'
  BY <1>1, <1>2 DEF Facts, SentRowsAreRecorded
<1>11. \A i \in Items : Recording(i) => Recording(i)'
  BY DEF Recording, AgentsCalm, Email, Mine
<1>12. AcceptancesCounted'
  BY <1>3, <1>11 DEF Facts, AcceptancesCounted
<1> QED
  BY <1>4, <1>7, <1>8, <1>9, <1>10, <1>12 DEF Facts

\* A claim: by its guard nobody undisturbed sends the item.
LEMMA ClaimKeepsFacts ==
    ASSUME SendTypeOK, Facts, OutsideKept, disturbed' = disturbed, SendTypeOK',
           NEW a \in Agents, NEW q \in Rows,
           agent[a].at = "claim", Mine(a) = q,
           Deliverable(q), MayBeActive(q),
           BecomesWith(q, "sending"), GoesTo(a, "check")
    PROVE  Facts'
<1> USE DEF OutsideKept
<1>1. \A r \in Rows \ {q} : row'[r] = row[r]
  BY DEF SendTypeOK, BecomesWith
<1>2. row'[q].status = "sending" /\ ~row'[q].old
  BY DEF SendTypeOK, BecomesWith, Row
<1>3. \A b \in Agents \ {a} : agent'[b] = agent[b]
  BY DEF SendTypeOK, GoesTo
<1>4. agent'[a].at = "check" /\ agent'[a].row = q
  BY DEF SendTypeOK, GoesTo, Activity, Mine
<1>5. OneActiveRowPerItem'
  BY <1>1, <1>2 DEF Facts, OneActiveRowPerItem, MayBeActive, Active
<1>6. \A b \in Agents :
         (/\ agent[b].at \in Sending /\ Email(b) = ItemOf[q]
          /\ ItemOf[q] \notin sent \cup disturbed) => FALSE
  <2> SUFFICES ASSUME NEW b \in Agents, agent[b].at \in Sending,
                      Email(b) = ItemOf[q], ItemOf[q] \notin sent \cup disturbed
               PROVE  FALSE
    OBVIOUS
  <2>1. Mine(b) \in Rows
    BY BusyHasRow DEF Sending
  <2>2. row[Mine(b)].status = "sending" /\ ~row[Mine(b)].old
    BY DEF Facts, SendersAreExclusive
  <2>3. CASE Mine(b) = q
    BY <2>2, <2>3 DEF Deliverable
  <2>4. CASE Mine(b) # q
    BY <2>1, <2>2, <2>4 DEF MayBeActive, Active, Email
  <2> QED
    BY <2>3, <2>4
<1>7. \A b \in Agents : agent'[b].at \in Sending =>
         \/ b = a
         \/ /\ Mine(b)' = Mine(b) /\ Email(b)' = Email(b) /\ Mine(b) \in Rows
            /\ agent[b].at \in Sending
  BY <1>3, BusyHasRow DEF Mine, Email, Sending
<1>8. Mine(a)' = q /\ Email(a)' = ItemOf[q]
  BY <1>4 DEF Mine, Email
<1>9. SendersAreExclusive'
  <2> SUFFICES ASSUME NEW b \in Agents, agent'[b].at \in Sending,
                      Email(b)' \notin sent \cup disturbed
               PROVE  /\ row'[Mine(b)'].status = "sending"
                      /\ ~row'[Mine(b)'].old
                      /\ \A c \in Agents :
                            (/\ agent'[c].at \in Sending
                             /\ Email(c)' = Email(b)') => c = b
    BY DEF SendersAreExclusive
  <2>1. CASE b = a
    BY <1>2, <1>6, <1>7, <1>8, <2>1
  <2>2. CASE b # a
    <3>1. /\ Mine(b)' = Mine(b) /\ Email(b)' = Email(b) /\ Mine(b) \in Rows
          /\ agent[b].at \in Sending
      BY <1>7, <2>2
    <3>2. Email(b) # ItemOf[q]
      BY <1>6, <3>1
    <3>3. Mine(b) # q
      BY <3>2 DEF Email
    <3> QED
      BY <1>1, <1>7, <1>8, <3>1, <3>2, <3>3 DEF Facts, SendersAreExclusive
  <2> QED
    BY <2>1, <2>2
<1>10. NoneSendsAgain'
  BY <1>3, <1>4 DEF Facts, NoneSendsAgain, Email, Mine
<1>11. MarksAreRecorded'
  BY <1>3, <1>4 DEF Facts, MarksAreRecorded, AboutToMark, Email, Mine
<1>12. SentRowsAreRecorded'
  BY <1>1, <1>2 DEF Facts, SentRowsAreRecorded
<1>13. \A i \in Items : Recording(i) => Recording(i)'
  BY <1>3 DEF Recording, Email, Mine
<1>14. AcceptancesCounted'
  BY <1>13 DEF Facts, AcceptancesCounted
<1> QED
  BY <1>5, <1>9, <1>10, <1>11, <1>12, <1>14 DEF Facts

\* The insert of a fresh row, which no one sends.
LEMMA InsertKeepsFacts ==
    ASSUME SendTypeOK, Facts, SendTypeOK', NEW a \in Agents, Insert(a)
    PROVE  Facts'
<1> DEFINE q == Mine(a)
<1>1. q \in Rows /\ agent[a].at = "insert" /\ row[q].status = "absent"
  BY BusyHasRow DEF Insert
<1>2. OutsideKept /\ disturbed' = disturbed
  BY DEF Insert, ghosts, OutsideKept
<1>3. AgentsCalm
  BY <1>1, GoingIsCalm DEF Insert, Facts, Sending
<1>4. \A r \in Rows \ {q} : row'[r] = row[r]
  BY <1>1 DEF Insert, SendTypeOK, BecomesWith
<1>5. row'[q].status = "queued"
  BY <1>1 DEF Insert, SendTypeOK, BecomesWith, Row
<1>6. MayBeActive(q)
  BY DEF Insert
<1>7. OneActiveRowPerItem'
  BY <1>1, <1>4, <1>5, <1>6
     DEF Facts, OneActiveRowPerItem, MayBeActive, Active
<1>8. \A b \in Agents : agent'[b].at \in Sending =>
         Mine(b)' = Mine(b) /\ Email(b)' = Email(b) /\ Mine(b) \in Rows
                            /\ agent[b].at \in Sending
  BY <1>3, BusyHasRow DEF AgentsCalm, Mine, Email, Sending
<1>9. \A b \in Agents :
         (agent[b].at \in Sending /\ Email(b) \notin sent \cup disturbed)
            => Mine(b) # q
  BY <1>1 DEF Facts, SendersAreExclusive
<1>10. SendersAreExclusive'
  BY <1>2, <1>4, <1>8, <1>9 DEF Facts, SendersAreExclusive, OutsideKept
<1>11. NoneSendsAgain'
  BY <1>2, <1>3, <1>8
     DEF Facts, NoneSendsAgain, AgentsCalm, Sending, OutsideKept
<1>12. MarksAreRecorded'
  BY <1>2, <1>3
     DEF MarksAreRecorded, AboutToMark, AgentsCalm, Email, Mine, OutsideKept
<1>13. SentRowsAreRecorded'
  BY <1>2, <1>4, <1>5 DEF Facts, SentRowsAreRecorded, OutsideKept
<1>14. \A i \in Items : Recording(i) => Recording(i)'
  BY <1>3 DEF Recording, AgentsCalm, Email, Mine
<1>15. AcceptancesCounted'
  BY <1>2, <1>14 DEF Facts, AcceptancesCounted, OutsideKept
<1> QED
  BY <1>7, <1>10, <1>11, <1>12, <1>13, <1>15 DEF Facts

LEMMA GoingMoves ==
    ASSUME SendTypeOK, NEW a \in Agents, NEW at, GoesTo(a, at)
    PROVE  /\ \A b \in Agents \ {a} : agent'[b] = agent[b]
           /\ agent'[a].at = at /\ agent'[a].op = agent[a].op
           /\ Mine(a)' = Mine(a) /\ Email(a)' = Email(a)
<1>1. agent \in [Agents -> Activity]
  BY DEF SendTypeOK
<1>2. agent'[a] = [agent[a] EXCEPT !.at = at]
  BY <1>1 DEF GoesTo
<1>3. /\ agent'[a].at = at /\ agent'[a].op = agent[a].op
      /\ agent'[a].row = agent[a].row
  BY <1>1, <1>2 DEF Activity
<1>4. \A b \in Agents \ {a} : agent'[b] = agent[b]
  BY <1>1 DEF GoesTo
<1> QED
  BY <1>3, <1>4 DEF Mine, Email

\* A sender that moves on without touching its row: who sends stays, and who
\* is alone stays alone.
LEMMA SenderMoves ==
    ASSUME SendTypeOK, Facts, SendTypeOK', row' = row, disturbed' = disturbed,
           sent \subseteq sent',
           NEW a \in Agents, agent[a].at \in Sending, NEW at, GoesTo(a, at)
    PROVE  /\ OneActiveRowPerItem' /\ SendersAreExclusive'
           /\ SentRowsAreRecorded'
<1>1. /\ \A b \in Agents \ {a} : agent'[b] = agent[b]
      /\ Mine(a)' = Mine(a) /\ Email(a)' = Email(a)
  BY GoingMoves
<1>2. \A b \in Agents : Mine(b)' = Mine(b) /\ Email(b)' = Email(b)
  BY <1>1 DEF Mine, Email
<1>3. \A b \in Agents : agent'[b].at \in Sending => agent[b].at \in Sending
  BY <1>1
<1>4. OneActiveRowPerItem'
  BY DEF Facts, OneActiveRowPerItem
<1>5. SendersAreExclusive'
  BY <1>2, <1>3 DEF Facts, SendersAreExclusive
<1> QED
  BY <1>4, <1>5 DEF Facts, SentRowsAreRecorded

\* itemAlreadySent decides.
LEMMA CheckKeepsFacts ==
    ASSUME SendTypeOK, Facts, SendTypeOK', NEW a \in Agents, CheckSent(a)
    PROVE  Facts'
<1>1. /\ row' = row /\ sent' = sent /\ accepted' = accepted /\ lost' = lost
      /\ disturbed' = disturbed
  BY DEF CheckSent, tables, ghosts
<1>2. agent[a].at = "check"
  BY DEF CheckSent
<1>3. /\ \A b \in Agents \ {a} : agent'[b] = agent[b]
      /\ agent'[a].at = IF Email(a) \in sent THEN "mark" ELSE "send"
      /\ Mine(a)' = Mine(a) /\ Email(a)' = Email(a)
  BY GoingMoves DEF CheckSent
<1>4. OneActiveRowPerItem' /\ SendersAreExclusive' /\ SentRowsAreRecorded'
  BY <1>1, <1>2, SenderMoves DEF CheckSent, Sending
<1>5. NoneSendsAgain'
  BY <1>1, <1>3 DEF Facts, NoneSendsAgain, Mine, Email
<1>6. MarksAreRecorded'
  BY <1>1, <1>3 DEF Facts, MarksAreRecorded, AboutToMark, Mine, Email
<1>7. \A i \in Items : Recording(i) => Recording(i)'
  BY <1>2, <1>3 DEF Recording, Mine, Email
<1>8. AcceptancesCounted'
  BY <1>1, <1>7 DEF Facts, AcceptancesCounted
<1> QED
  BY <1>4, <1>5, <1>6, <1>8 DEF Facts

\* Nobody else is recording when an undisturbed sender sends.
LEMMA SenderIsAlone ==
    ASSUME SendTypeOK, Facts, NEW a \in Agents,
           agent[a].at \in {"send", "record"}, Email(a) \notin disturbed
    PROVE  /\ Email(a) \notin sent
           /\ \A b \in Agents :
                 (agent[b].at \in Sending /\ Email(b) = Email(a)) => b = a
BY DEF Facts, NoneSendsAgain, SendersAreExclusive, Sending

LEMMA AcceptKeepsFacts ==
    ASSUME SendTypeOK, Facts, SendTypeOK', NEW a \in Agents, Accepts(a)
    PROVE  Facts'
<1>1. /\ row' = row /\ sent' = sent /\ lost' = lost /\ disturbed' = disturbed
      /\ accepted' = [accepted EXCEPT ![Email(a)] = @ + 1]
      /\ agent[a].at = "send"
  BY DEF Accepts, tables
<1>2. /\ \A b \in Agents \ {a} : agent'[b] = agent[b]
      /\ agent'[a].at = "record"
      /\ Mine(a)' = Mine(a) /\ Email(a)' = Email(a)
  BY GoingMoves DEF Accepts
<1>3. OneActiveRowPerItem' /\ SendersAreExclusive' /\ SentRowsAreRecorded'
  BY <1>1, SenderMoves DEF Accepts, Sending
<1>4. NoneSendsAgain'
  BY <1>1, <1>2 DEF Facts, NoneSendsAgain, Mine, Email
<1>5. MarksAreRecorded'
  BY <1>1, <1>2 DEF Facts, MarksAreRecorded, AboutToMark, Mine, Email
<1>6. Email(a) \in Items
  BY <1>1, BusyHasRow
<1>7. AcceptancesCounted'
  <2> SUFFICES ASSUME NEW i \in Items \ disturbed
               PROVE  /\ accepted'[i] <= lost[i] + 1
                      /\ (i \notin sent /\ ~Recording(i)')
                            => accepted'[i] <= lost[i]
    BY <1>1 DEF AcceptancesCounted
  <2>1. accepted[i] \in Nat /\ lost[i] \in Nat
    BY DEF SendTypeOK
  <2>2. CASE i = Email(a)
    <3>1. i \notin sent /\ ~Recording(i)
      BY <1>1, <2>2, SenderIsAlone DEF Recording, Sending
    <3>2. accepted[i] <= lost[i]
      BY <3>1 DEF Facts, AcceptancesCounted
    <3>3. accepted'[i] = accepted[i] + 1
      BY <1>1, <1>6, <2>2 DEF SendTypeOK
    <3>4. Recording(i)'
      BY <1>2, <2>2 DEF Recording
    <3> QED
      BY <2>1, <3>2, <3>3, <3>4
  <2>3. CASE i # Email(a)
    <3>1. accepted'[i] = accepted[i]
      BY <1>1, <2>3 DEF SendTypeOK
    <3>2. Recording(i) => Recording(i)'
      BY <1>1, <1>2 DEF Recording, Mine, Email
    <3> QED
      BY <3>1, <3>2 DEF Facts, AcceptancesCounted
  <2> QED
    BY <2>2, <2>3
<1> QED
  BY <1>3, <1>4, <1>5, <1>7 DEF Facts

\* A send that ends in the catch block: with an acceptance nobody heard of
\* (d = 1), or without one.
LEMMA CatchKeepsFacts ==
    ASSUME SendTypeOK, Facts, SendTypeOK', NEW a \in Agents,
           \/ AcceptsUnheard(a) \/ Refuses(a) \/ RecordFails(a)
    PROVE  Facts'
<1>1. /\ row' = row /\ sent' = sent /\ disturbed' = disturbed
      /\ agent[a].at \in {"send", "record"} /\ GoesTo(a, "caught")
  BY DEF AcceptsUnheard, Refuses, RecordFails, tables, ghosts
<1>2. /\ \A b \in Agents \ {a} : agent'[b] = agent[b]
      /\ agent'[a].at = "caught"
      /\ Mine(a)' = Mine(a) /\ Email(a)' = Email(a)
  BY <1>1, GoingMoves
<1>3. OneActiveRowPerItem' /\ SendersAreExclusive' /\ SentRowsAreRecorded'
  BY <1>1, SenderMoves DEF Sending
<1>4. NoneSendsAgain'
  BY <1>1, <1>2 DEF Facts, NoneSendsAgain, Mine, Email
<1>5. MarksAreRecorded'
  BY <1>1, <1>2 DEF Facts, MarksAreRecorded, AboutToMark, Mine, Email
<1>6. Email(a) \in Items
  BY <1>1, BusyHasRow
<1>7. AcceptancesCounted'
  <2> SUFFICES ASSUME NEW i \in Items \ disturbed
               PROVE  /\ accepted'[i] <= lost'[i] + 1
                      /\ (i \notin sent /\ ~Recording(i)')
                            => accepted'[i] <= lost'[i]
    BY <1>1 DEF AcceptancesCounted
  <2>1. accepted[i] \in Nat /\ lost[i] \in Nat
    BY DEF SendTypeOK
  <2>2. CASE i = Email(a)
    <3>1. CASE RecordFails(a)
      <4>1. accepted'[i] = accepted[i] /\ lost'[i] = lost[i] + 1
        BY <1>6, <2>2, <3>1 DEF RecordFails, SendTypeOK
      <4> QED
        BY <2>1, <4>1 DEF Facts, AcceptancesCounted
    <3>2. CASE agent[a].at = "send"
      <4>1. i \notin sent /\ ~Recording(i)
        BY <1>1, <2>2, <3>2, SenderIsAlone DEF Recording, Sending
      <4>2. accepted[i] <= lost[i]
        BY <4>1 DEF Facts, AcceptancesCounted
      <4>3. CASE Refuses(a)
        BY <2>1, <4>2, <4>3 DEF Refuses, ghosts
      <4>4. CASE AcceptsUnheard(a)
        <5>1. accepted'[i] = accepted[i] + 1 /\ lost'[i] = lost[i] + 1
          BY <1>6, <2>2, <4>4 DEF AcceptsUnheard, SendTypeOK
        <5> QED
          BY <2>1, <4>2, <5>1
      <4> QED
        BY <3>2, <4>3, <4>4 DEF RecordFails
    <3> QED
      BY <3>1, <3>2 DEF AcceptsUnheard, Refuses
  <2>3. CASE i # Email(a)
    <3>1. accepted'[i] = accepted[i] /\ lost'[i] = lost[i]
      BY <2>3 DEF AcceptsUnheard, Refuses, RecordFails, ghosts, SendTypeOK
    <3>2. Recording(i) => Recording(i)'
      BY <1>2, <2>3 DEF Recording, Mine, Email
    <3> QED
      BY <3>1, <3>2 DEF Facts, AcceptancesCounted
  <2> QED
    BY <2>2, <2>3
<1> QED
  BY <1>3, <1>4, <1>5, <1>7 DEF Facts

LEMMA RecordKeepsFacts ==
    ASSUME SendTypeOK, Facts, SendTypeOK', NEW a \in Agents, RecordSend(a)
    PROVE  Facts'
<1>1. /\ row' = row /\ lost' = lost /\ disturbed' = disturbed
      /\ accepted' = accepted
      /\ sent' = sent \cup {Email(a)} /\ agent[a].at = "record"
  BY DEF RecordSend, ghosts
<1>2. /\ \A b \in Agents \ {a} : agent'[b] = agent[b]
      /\ agent'[a].at = "mark"
      /\ Mine(a)' = Mine(a) /\ Email(a)' = Email(a)
  BY GoingMoves DEF RecordSend
<1>3. OneActiveRowPerItem' /\ SendersAreExclusive' /\ SentRowsAreRecorded'
  BY <1>1, SenderMoves DEF RecordSend, Sending
<1>4. NoneSendsAgain'
  <2> SUFFICES ASSUME NEW b \in Agents, agent'[b].at \in {"send", "record"},
                      Email(b)' \notin disturbed
               PROVE  Email(b)' \notin sent'
    BY <1>1 DEF NoneSendsAgain
  <2>1. b # a /\ agent'[b] = agent[b] /\ Email(b)' = Email(b)
    BY <1>2 DEF Mine, Email
  <2>2. Email(b) # Email(a)
    BY <1>1, <2>1, SenderIsAlone DEF Sending
  <2> QED
    BY <1>1, <2>1, <2>2 DEF Facts, NoneSendsAgain
<1>5. MarksAreRecorded'
  BY <1>1, <1>2 DEF Facts, MarksAreRecorded, AboutToMark, Mine, Email
<1>6. \A i \in Items : Recording(i) => (Recording(i)' \/ i = Email(a))
  BY <1>2 DEF Recording, Mine, Email
<1>7. AcceptancesCounted'
  BY <1>1, <1>6 DEF Facts, AcceptancesCounted
<1> QED
  BY <1>3, <1>4, <1>5, <1>7 DEF Facts

\* Whoever marks a row has a record to show: its senders, if any, are about
\* to find it.
LEMMA MarkKeepsFacts ==
    ASSUME SendTypeOK, Facts, SendTypeOK', NEW a \in Agents, MarkSent(a)
    PROVE  Facts'
<1> DEFINE q == Mine(a)
<1>1. q \in Rows /\ agent[a].at = "mark" /\ ItemOf[q] \in sent
  BY BusyHasRow
     DEF MarkSent, Facts, MarksAreRecorded, AboutToMark, Email
<1>2. OutsideKept /\ disturbed' = disturbed
  BY DEF MarkSent, ghosts, OutsideKept
<1>3. AgentsCalm
  BY <1>1, ReturningIsCalm DEF MarkSent, Facts
<1>4. \A r \in Rows \ {q} : row'[r] = row[r]
  BY <1>1 DEF MarkSent, SendTypeOK, BecomesWith
<1>5. row'[q].status = "sent" \/ row'[q] = row[q]
  BY <1>1 DEF MarkSent, SendTypeOK, BecomesWith, Row
<1>6. OneActiveRowPerItem'
  BY <1>4, <1>5 DEF Facts, OneActiveRowPerItem, Active
<1>7. \A b \in Agents : agent'[b].at \in Sending =>
         Mine(b)' = Mine(b) /\ Email(b)' = Email(b) /\ Mine(b) \in Rows
                            /\ agent[b].at \in Sending
  BY <1>3, BusyHasRow DEF AgentsCalm, Mine, Email, Sending
<1>8. \A b \in Agents : Email(b) \notin sent => Mine(b) # q
  BY <1>1 DEF Email
<1>9. SendersAreExclusive'
  BY <1>2, <1>4, <1>7, <1>8 DEF Facts, SendersAreExclusive, OutsideKept
<1>10. NoneSendsAgain'
  BY <1>2, <1>3, <1>7
     DEF Facts, NoneSendsAgain, AgentsCalm, Sending, OutsideKept
<1>11. MarksAreRecorded'
  BY <1>2, <1>3
     DEF MarksAreRecorded, AboutToMark, AgentsCalm, Email, Mine, OutsideKept
<1>12. SentRowsAreRecorded'
  BY <1>1, <1>2, <1>4, <1>5 DEF Facts, SentRowsAreRecorded, OutsideKept
<1>13. \A i \in Items : Recording(i) => Recording(i)'
  BY <1>3 DEF Recording, AgentsCalm, Email, Mine
<1>14. AcceptancesCounted'
  BY <1>2, <1>13 DEF Facts, AcceptancesCounted, OutsideKept
<1> QED
  BY <1>6, <1>9, <1>10, <1>11, <1>12, <1>14 DEF Facts

LEMMA DeathKeepsFacts ==
    ASSUME SendTypeOK, Facts, SendTypeOK', NEW a \in Agents, Dies(a)
    PROVE  Facts'
<1>1. /\ row' = row /\ sent' = sent /\ disturbed' = disturbed
      /\ accepted' = accepted
  BY DEF Dies, tables
<1>2. /\ \A b \in Agents \ {a} : agent'[b] = agent[b]
      /\ agent'[a].at = "idle"
  BY DEF Dies, Ends, SendTypeOK, Idle
<1>3. \A b \in Agents : agent'[b].at # "idle" =>
         agent'[b] = agent[b] /\ Mine(b)' = Mine(b) /\ Email(b)' = Email(b)
  BY <1>2 DEF Mine, Email
<1>4. OneActiveRowPerItem' /\ SentRowsAreRecorded'
  BY <1>1 DEF Facts, OneActiveRowPerItem, SentRowsAreRecorded
<1>5. SendersAreExclusive' /\ NoneSendsAgain'
  BY <1>1, <1>3 DEF Facts, SendersAreExclusive, NoneSendsAgain, Sending
<1>6. MarksAreRecorded'
  BY <1>1, <1>3 DEF Facts, MarksAreRecorded, AboutToMark
<1>7. AcceptancesCounted'
  <2> SUFFICES ASSUME NEW i \in Items \ disturbed
               PROVE  /\ accepted[i] <= lost'[i] + 1
                      /\ (i \notin sent /\ ~Recording(i)')
                            => accepted[i] <= lost'[i]
    BY <1>1 DEF AcceptancesCounted
  <2>1. accepted[i] \in Nat /\ lost[i] \in Nat
    BY DEF SendTypeOK
  <2>2. CASE agent[a].at = "record" /\ i = Email(a)
    <3>1. lost'[i] = lost[i] + 1
      BY <2>2 DEF Dies, SendTypeOK
    <3> QED
      BY <2>1, <3>1 DEF Facts, AcceptancesCounted
  <2>3. CASE ~(agent[a].at = "record" /\ i = Email(a))
    <3>1. lost'[i] = lost[i]
      BY <2>3 DEF Dies, SendTypeOK
    <3>2. Recording(i) => Recording(i)'
      BY <1>2, <2>3 DEF Recording, Mine, Email
    <3> QED
      BY <3>1, <3>2 DEF Facts, AcceptancesCounted
  <2> QED
    BY <2>2, <2>3
<1> QED
  BY <1>4, <1>5, <1>6, <1>7 DEF Facts

\* A row becomes old: unsent, or with its sender disturbed.
LEMMA AgeKeepsFacts ==
    ASSUME SendTypeOK, Facts, SendTypeOK', NEW q \in Rows,
           BecomesOld(q) \/ Overdue(q)
    PROVE  Facts'
<1>1. OutsideKept /\ agent' = agent /\ disturbed \subseteq disturbed'
  BY DEF BecomesOld, Overdue, ghosts, OutsideKept
<1>2. \A r \in Rows : row'[r].status = row[r].status
  BY DEF BecomesOld, Overdue, SendTypeOK, Row
<1>3. \A r \in Rows \ {q} : row'[r] = row[r]
  BY DEF BecomesOld, Overdue, SendTypeOK
<1>4. \A b \in Agents :
         (agent[b].at \in Sending /\ Mine(b) = q) => Email(b) \in disturbed'
  BY DEF BecomesOld, Overdue, Holders, Senders, Email
<1>5. OneActiveRowPerItem' /\ SentRowsAreRecorded'
  BY <1>1, <1>2
     DEF Facts, OneActiveRowPerItem, SentRowsAreRecorded, OutsideKept
<1>6. \A b \in Agents : agent[b].at \in Sending => Mine(b) \in Rows
  BY BusyHasRow DEF Sending
<1>7. SendersAreExclusive'
  BY <1>1, <1>3, <1>4, <1>6
     DEF Facts, SendersAreExclusive, OutsideKept, Mine, Email
<1>8. NoneSendsAgain' /\ MarksAreRecorded'
  BY <1>1 DEF Facts, NoneSendsAgain, MarksAreRecorded, AboutToMark, Email,
              Mine, OutsideKept
<1>9. AcceptancesCounted'
  BY <1>1 DEF Facts, AcceptancesCounted, Recording, Email, Mine, OutsideKept
<1> QED
  BY <1>5, <1>7, <1>8, <1>9 DEF Facts

-----------------------------------------------------------------------------
\* Typing, variable by variable.

AgentsTyped ==
    /\ agent \in [Agents -> Activity]
    /\ \A a \in Agents : agent[a] = Idle \/ agent[a].row \in Rows

GhostsTyped ==
    /\ accepted \in [Items -> Nat] /\ lost \in [Items -> Nat]
    /\ disturbed \in SUBSET Items

LEMMA GoingIsTyped ==
    ASSUME SendTypeOK, NEW a \in Agents, NEW at \in At,
           agent[a].at # "idle", GoesTo(a, at)
    PROVE  AgentsTyped'
<1>1. agent \in [Agents -> Activity] /\ Mine(a) \in Rows
  BY BusyHasRow DEF SendTypeOK
<1>2. agent' = [agent EXCEPT ![a] = [agent[a] EXCEPT !.at = at]]
  BY <1>1 DEF GoesTo
<1>3. [agent[a] EXCEPT !.at = at] \in Activity
  BY <1>1 DEF Activity
<1>4. [agent[a] EXCEPT !.at = at].row \in Rows
  BY <1>1 DEF Activity, Mine
<1> QED
  BY <1>1, <1>2, <1>3, <1>4 DEF SendTypeOK, AgentsTyped

LEMMA EndingIsTyped ==
    ASSUME SendTypeOK, NEW a \in Agents, Ends(a)
    PROVE  AgentsTyped'
<1>1. Idle \in Activity
  BY DEF Idle, Activity, Op, At
<1> QED
  BY <1>1 DEF SendTypeOK, AgentsTyped, Ends

LEMMA ReturningIsTyped ==
    ASSUME SendTypeOK, NEW a \in Agents, NEW at \in At,
           agent[a].at # "idle", Returns(a, at)
    PROVE  AgentsTyped'
BY GoingIsTyped, EndingIsTyped DEF Returns

LEMMA BeginningIsTyped ==
    ASSUME SendTypeOK, NEW a \in Agents, NEW q \in Rows, NEW op \in Op,
           NEW at \in At, Begins(a, op, at, q)
    PROVE  AgentsTyped'
<1>1. [op |-> op, at |-> at, row |-> q] \in Activity
  BY DEF Activity
<1> QED
  BY <1>1 DEF SendTypeOK, AgentsTyped, Begins

LEMMA BecomingIsTyped ==
    ASSUME SendTypeOK, NEW q \in Rows, NEW s \in Status, BecomesWith(q, s)
    PROVE  row' \in [Rows -> Row]
BY DEF SendTypeOK, BecomesWith, Row

LEMMA TakingIsTyped ==
    ASSUME SendTypeOK, NEW a \in Agents, NEW q \in Rows, TakenBy(a, q)
    PROVE  disturbed' \in SUBSET Items
BY SendAssumption DEF SendTypeOK, TakenBy

LEMMA CountsAreTyped ==
    ASSUME SendTypeOK
    PROVE  /\ CountRequest => requests' \in 0..MaxRequests
           /\ CountFault => faults' \in 0..MaxFaults
BY SendAssumption DEF SendTypeOK, CountRequest, CountFault

LEMMA DroppingIsTyped ==
    ASSUME SendTypeOK, NEW q \in Rows, WorkDropped(q)
    PROVE  work' \in [Rows -> WorkStatus]
BY DEF SendTypeOK, WorkDropped, WorkStatus

LEMMA BeginningsKeepTypes ==
    ASSUME SendTypeOK, NEW a \in Agents, NEW q \in Rows,
           RequestBegins(a, q) \/ BodyBegins(a, q)
    PROVE  SendTypeOK'
<1>1. \E op \in Op, at \in At : Begins(a, op, at, q)
  BY DEF RequestBegins, BodyBegins, DispatchBegin, MoveBegin, CancelBegin,
         SendNowBegin, DeliverBegin, FindsRecorded, FindsStuck, FindsStranded,
         FindsOverCap, Op, At
<1>2. AgentsTyped'
  BY <1>1, BeginningIsTyped
<1>3. /\ work' \in [Rows -> WorkStatus]
      /\ UNCHANGED <<row, sent, ghosts, faults>>
      /\ requests' = requests \/ CountRequest
  BY DEF RequestBegins, BodyBegins, DispatchBegin, MoveBegin, CancelBegin,
         SendNowBegin, DeliverBegin, FindsRecorded, FindsStuck, FindsStranded,
         FindsOverCap, SendTypeOK, WorkStatus, OpenWork, tables
<1> QED
  BY <1>2, <1>3, CountsAreTyped DEF SendTypeOK, AgentsTyped, ghosts

LEMMA TodayMoves ==
    ASSUME SendTypeOK, NEW a \in Agents, Today(a)
    PROVE  /\ AgentsTyped'
           /\ \A b \in Agents \ {a} : agent'[b] = agent[b]
           /\ agent'[a].at = "claim" /\ agent[a].at = "today"
<1> DEFINE new == [agent[a] EXCEPT !.op = "sendNow", !.at = "claim"]
<1>1. agent \in [Agents -> Activity] /\ Mine(a) \in Rows
  BY BusyHasRow DEF SendTypeOK, Today
<1>2. agent' = [agent EXCEPT ![a] = new]
  BY <1>1 DEF Today
<1>3. new \in Activity /\ new.row \in Rows /\ new.at = "claim"
  BY <1>1 DEF Activity, Mine, Op, At
<1>4. /\ \A b \in Agents \ {a} : agent'[b] = agent[b]
      /\ agent'[a] = new /\ agent' \in [Agents -> Activity]
  BY <1>1, <1>2, <1>3
<1> QED
  BY <1>3, <1>4 DEF SendTypeOK, AgentsTyped, Today

LEMMA QueueStepsKeepTypes ==
    ASSUME SendTypeOK, NEW a \in Agents, QueueStep(a)
    PROVE  SendTypeOK'
<1>1. agent[a].at # "idle"
  BY DEF QueueStep, Insert, InsertRefused, EnqueueRow, LinkRow, MoveRow,
         MoveRefused, Rescheduled, NotRescheduled, DropWork, CancelRow, Place,
         Unstick, NotToday, Today
<1>2. Mine(a) \in Rows
  BY <1>1, BusyHasRow
<1>3. AgentsTyped'
  <2>1. Ends(a) \/ (\E at \in At : GoesTo(a, at)) \/ Today(a)
    BY DEF QueueStep, Insert, InsertRefused, EnqueueRow, LinkRow, MoveRow,
           MoveRefused, Rescheduled, NotRescheduled, DropWork, CancelRow,
           Place, Unstick, NotToday, Planned, At, Sending, Closing
  <2>2. CASE Today(a)
    BY <2>2, TodayMoves
  <2> QED
    BY <1>1, <2>1, <2>2, GoingIsTyped, EndingIsTyped
<1>4. /\ UNCHANGED <<sent, accepted, lost, requests, faults>>
      /\ disturbed' = disturbed \/ TakenBy(a, Mine(a))
  BY DEF QueueStep, Insert, InsertRefused, EnqueueRow, LinkRow, MoveRow,
         MoveRefused, Rescheduled, NotRescheduled, DropWork, CancelRow, Place,
         Unstick, NotToday, Today, tables, ghosts
<1>5. disturbed' \in SUBSET Items
  BY <1>2, <1>4, TakingIsTyped DEF SendTypeOK
<1>6. row' \in [Rows -> Row]
  <2>1. \/ row' = row
        \/ \E s \in {"queued", "cancelled"} : BecomesWith(Mine(a), s)
        \/ LinkRow(a) \/ Place(a)
    BY DEF QueueStep, Insert, InsertRefused, EnqueueRow, MoveRow,
           MoveRefused, Rescheduled, NotRescheduled, DropWork, CancelRow,
           Unstick, NotToday, Today, tables
  <2>2. CASE \E s \in {"queued", "cancelled"} : BecomesWith(Mine(a), s)
    BY <1>2, <2>2, BecomingIsTyped DEF Status, Active
  <2>3. CASE LinkRow(a)
    <3>1. [row[Mine(a)] EXCEPT !.linked = TRUE, !.old = FALSE] \in Row
      BY <1>2 DEF SendTypeOK, Row
    <3>2. row' = row \/ row' = [row EXCEPT ![Mine(a)] =
                     [row[Mine(a)] EXCEPT !.linked = TRUE, !.old = FALSE]]
      BY <1>2, <2>3 DEF SendTypeOK, LinkRow
    <3> QED
      BY <1>2, <3>1, <3>2 DEF SendTypeOK
  <2>4. CASE Place(a)
    <3>1. [row[Mine(a)] EXCEPT !.old = FALSE] \in Row
      BY <1>2 DEF SendTypeOK, Row
    <3>2. row' = [row EXCEPT ![Mine(a)] =
                     [row[Mine(a)] EXCEPT !.old = FALSE]]
      BY <1>2, <2>4 DEF SendTypeOK, Place
    <3> QED
      BY <1>2, <3>1, <3>2 DEF SendTypeOK
  <2> QED
    BY <2>1, <2>2, <2>3, <2>4 DEF SendTypeOK
<1>7. work' \in [Rows -> WorkStatus]
  <2>1. work' = work \/ WorkDropped(Mine(a)) \/ EnqueueRow(a)
    BY DEF QueueStep, Insert, InsertRefused, LinkRow, MoveRow,
           MoveRefused, Rescheduled, NotRescheduled, DropWork, CancelRow,
           Place, Unstick, NotToday, Today, tables
  <2> QED
    BY <1>2, <2>1, DroppingIsTyped
       DEF SendTypeOK, EnqueueRow, WorkStatus, OpenWork
<1> QED
  BY <1>3, <1>4, <1>5, <1>6, <1>7 DEF SendTypeOK, AgentsTyped

LEMMA ClaimStepsKeepTypes ==
    ASSUME SendTypeOK, NEW a \in Agents, ClaimStep(a)
    PROVE  SendTypeOK'
<1>1. agent[a].at # "idle"
  BY DEF ClaimStep, SendNowSeesSent, SendNowClaims, SendNowMisses,
         DeliverClaims, DeliverCollides, DeliverSkips, Is
<1>2. AgentsTyped'
  <2>1. Ends(a) \/ \E at \in At : GoesTo(a, at)
    BY DEF ClaimStep, SendNowSeesSent, SendNowClaims, SendNowMisses,
           DeliverClaims, DeliverCollides, DeliverSkips, At, Sending
  <2> QED
    BY <1>1, <2>1, GoingIsTyped, EndingIsTyped
<1>3. /\ UNCHANGED <<work, sent, ghosts, requests, faults>>
      /\ row' = row \/ BecomesWith(Mine(a), "sending")
  BY DEF ClaimStep, SendNowSeesSent, SendNowClaims, SendNowMisses,
         DeliverClaims, DeliverCollides, DeliverSkips, tables
<1>4. row' \in [Rows -> Row]
  BY <1>1, <1>3, BusyHasRow, BecomingIsTyped DEF SendTypeOK, Status, Active
<1> QED
  BY <1>2, <1>3, <1>4 DEF SendTypeOK, AgentsTyped, ghosts

LEMMA SendStepsKeepTypes ==
    ASSUME SendTypeOK, NEW a \in Agents, SendStep(a) \/ AgentFault(a)
    PROVE  SendTypeOK'
<1>1. agent[a].at # "idle" \/ Dies(a)
  BY DEF SendStep, AgentFault, DraftGone, CheckSent, Accepts, Refuses,
         RecordSend, Caught, AcceptsUnheard, RecordFails, Throws, Closing
<1>2. AgentsTyped'
  <2>1. Ends(a) \/ (agent[a].at # "idle" /\ \E at \in At : GoesTo(a, at))
    BY <1>1
       DEF SendStep, AgentFault, DraftGone, CheckSent, Accepts, Refuses,
           RecordSend, Caught, AcceptsUnheard, RecordFails, Throws, Dies,
           At, Sending, Closing
  <2> QED
    BY <2>1, GoingIsTyped, EndingIsTyped
<1>3. /\ UNCHANGED <<row, work, disturbed, requests>>
      /\ faults' = faults \/ CountFault
  BY DEF SendStep, AgentFault, DraftGone, CheckSent, Accepts, Refuses,
         RecordSend, Caught, AcceptsUnheard, RecordFails, Throws, Dies,
         tables, ghosts
<1>4. sent' = sent \/ RecordSend(a)
  BY DEF SendStep, AgentFault, DraftGone, CheckSent, Accepts, Refuses,
         Caught, AcceptsUnheard, RecordFails, Throws, Dies, tables
<1>5. sent' \in SUBSET Items
  BY <1>4, BusyHasRow DEF SendTypeOK, RecordSend
<1>6. /\ accepted' = accepted \/ accepted' = [accepted EXCEPT ![Email(a)] = @ + 1]
      /\ lost' = lost \/ lost' = [lost EXCEPT ![Email(a)] = @ + 1]
  BY DEF SendStep, AgentFault, DraftGone, CheckSent, Accepts, Refuses,
         RecordSend, Caught, AcceptsUnheard, RecordFails, Throws, Dies, ghosts
<1>7. accepted' \in [Items -> Nat] /\ lost' \in [Items -> Nat]
  BY <1>6 DEF SendTypeOK
<1> QED
  BY <1>2, <1>3, <1>5, <1>7, CountsAreTyped DEF SendTypeOK, AgentsTyped

LEMMA FinalStepsKeepTypes ==
    ASSUME SendTypeOK, NEW a \in Agents, FinalStep(a)
    PROVE  SendTypeOK'
<1>1. agent[a].at # "idle"
  BY DEF FinalStep, MarkSent, PutBack, PutBackCollides, FailRow, Complete,
         Retry
<1>2. Mine(a) \in Rows
  BY <1>1, BusyHasRow
<1>3. AgentsTyped'
  <2>1. Ends(a) \/ \E at \in At : GoesTo(a, at)
    BY DEF FinalStep, MarkSent, PutBack, PutBackCollides, FailRow, Complete,
           Retry, Returns, At
  <2> QED
    BY <1>1, <2>1, GoingIsTyped, EndingIsTyped
<1>4. /\ UNCHANGED <<sent, accepted, lost, requests, faults>>
      /\ disturbed' = disturbed \/ TakenBy(a, Mine(a))
  BY DEF FinalStep, MarkSent, PutBack, PutBackCollides, FailRow, Complete,
         Retry, tables, ghosts
<1>5. disturbed' \in SUBSET Items
  BY <1>2, <1>4, TakingIsTyped DEF SendTypeOK
<1>6. row' = row \/ \E s \in {"sent", "queued", "failed"} :
                       BecomesWith(Mine(a), s)
  BY DEF FinalStep, MarkSent, PutBack, PutBackCollides, FailRow, Complete,
         Retry, tables
<1>7. row' \in [Rows -> Row]
  BY <1>2, <1>6, BecomingIsTyped DEF SendTypeOK, Status, Active
<1>8. work' = work \/ \E s \in WorkStatus : work' = [work EXCEPT ![Mine(a)] = s]
  BY DEF FinalStep, MarkSent, PutBack, PutBackCollides, FailRow, Complete,
         Retry, tables, WorkStatus, OpenWork
<1>9. work' \in [Rows -> WorkStatus]
  BY <1>8 DEF SendTypeOK
<1> QED
  BY <1>3, <1>4, <1>5, <1>7, <1>9 DEF SendTypeOK, AgentsTyped

LEMMA TimeKeepsTypes ==
    ASSUME SendTypeOK, NEW q \in Rows, TimePasses(q)
    PROVE  SendTypeOK'
<1>1. CASE BecomesOld(q) \/ Overdue(q)
  <2>1. row' \in [Rows -> Row]
    BY <1>1 DEF BecomesOld, Overdue, SendTypeOK, Row
  <2>2. /\ UNCHANGED <<work, sent, agent, accepted, lost, requests>>
        /\ disturbed' \in SUBSET Items
        /\ faults' = faults \/ CountFault
    BY <1>1, SendAssumption DEF BecomesOld, Overdue, SendTypeOK, ghosts
  <2> QED
    BY <2>1, <2>2, CountsAreTyped DEF SendTypeOK
<1>2. CASE Reclaim(q) \/ LeaseLapses(q)
  <2>1. /\ work' \in [Rows -> WorkStatus]
        /\ UNCHANGED <<row, sent, agent, ghosts, requests>>
        /\ faults' = faults \/ CountFault
    BY <1>2 DEF Reclaim, LeaseLapses, SendTypeOK, WorkStatus, OpenWork
  <2> QED
    BY <2>1, CountsAreTyped DEF SendTypeOK, ghosts
<1> QED
  BY <1>1, <1>2 DEF TimePasses

LEMMA TypesAreKept ==
    ASSUME SendTypeOK, [SendNext]_vars
    PROVE  SendTypeOK'
<1>1. CASE SendNext
  BY <1>1, BeginningsKeepTypes, QueueStepsKeepTypes, ClaimStepsKeepTypes,
     SendStepsKeepTypes, FinalStepsKeepTypes, TimeKeepsTypes
     DEF SendNext, Step, Agents
<1>2. CASE UNCHANGED vars
  BY <1>2 DEF SendTypeOK, vars, tables, ghosts
<1> QED
  BY <1>1, <1>2

-----------------------------------------------------------------------------
\* One step per action.

LEMMA BeginningsKeepFacts ==
    ASSUME SendTypeOK, Facts, SendTypeOK', NEW a \in Agents, NEW q \in Rows,
           RequestBegins(a, q) \/ BodyBegins(a, q)
    PROVE  Facts'
<1>1. PICK op \in Op, at \in At :
         /\ Begins(a, op, at, q)
         /\ at \notin Sending \cup {"mark"}
         /\ at = "dropWork" => (op = "cancel" \/ ItemOf[q] \in sent)
  BY DEF RequestBegins, BodyBegins, DispatchBegin, MoveBegin, CancelBegin,
         SendNowBegin, DeliverBegin, FindsRecorded, FindsStuck, FindsStranded,
         FindsOverCap, Op, At, Sending
<1>2. AgentsCalm
  BY <1>1, BeginningIsCalm DEF Facts
<1>3. row' = row /\ OutsideKept /\ disturbed' = disturbed
  BY DEF RequestBegins, BodyBegins, DispatchBegin, MoveBegin, CancelBegin,
         SendNowBegin, DeliverBegin, FindsRecorded, FindsStuck, FindsStranded,
         FindsOverCap, tables, ghosts, OutsideKept
<1> QED
  BY <1>2, <1>3, CalmKeepsFacts DEF RowsCalm

LEMMA QueueStepsKeepFacts ==
    ASSUME SendTypeOK, Facts, SendTypeOK', NEW a \in Agents, QueueStep(a)
    PROVE  Facts'
<1> USE DEF tables, ghosts, OutsideKept
<1>1. CASE Insert(a)
  BY <1>1, InsertKeepsFacts
<1>2. CASE \/ InsertRefused(a) \/ MoveRefused(a) \/ Rescheduled(a)
           \/ NotToday(a)
  <2>1. Ends(a) \/ Planned(a)
    BY <1>2 DEF InsertRefused, MoveRefused, Rescheduled, NotToday
  <2>2. agent[a].at # "record"
    BY <1>2 DEF InsertRefused, MoveRefused, Rescheduled, NotToday
  <2>3. AgentsCalm
    BY <2>1, <2>2, EndingIsCalm, PlannedIsCalm DEF Facts
  <2> QED
    BY <1>2, <2>3, CalmKeepsFacts
       DEF RowsCalm, InsertRefused, MoveRefused, Rescheduled, NotToday
<1>3. CASE EnqueueRow(a) \/ NotRescheduled(a)
  <2>1. AgentsCalm
    BY <1>3, GoingIsCalm DEF Facts, EnqueueRow, NotRescheduled, Sending
  <2> QED
    BY <1>3, <2>1, CalmKeepsFacts DEF RowsCalm, EnqueueRow, NotRescheduled
<1>4. CASE LinkRow(a)
  <2>1. AgentsCalm
    BY <1>4, PlannedIsCalm DEF Facts, LinkRow
  <2>2. RowsCalm
    BY <1>4 DEF LinkRow, RowsCalm, SendTypeOK, Row
  <2> QED
    BY <1>4, <2>1, <2>2, CalmKeepsFacts DEF LinkRow
<1>5. CASE Place(a)
  <2>1. AgentsCalm
    BY <1>5, PlannedIsCalm, GoingIsCalm DEF Facts, Place, Sending
  <2>2. RowsCalm
    BY <1>5 DEF Place, RowsCalm, SendTypeOK, Row
  <2> QED
    BY <1>5, <2>1, <2>2, CalmKeepsFacts DEF Place
<1>10. CASE Today(a)
  <2>1. AgentsCalm
    BY <1>10, TodayMoves
       DEF Facts, AgentsCalm, MarksAreRecorded, AboutToMark, Email, Mine,
           Sending
  <2> QED
    BY <1>10, <2>1, CalmKeepsFacts DEF RowsCalm, Today
<1>6. CASE DropWork(a)
  <2>1. AgentsCalm
    <3>1. CASE agent[a].op = "cancel"
      BY <1>6, <3>1, GoingIsCalm DEF Facts, DropWork, Sending
    <3>2. CASE agent[a].op # "cancel"
      <4>1. Email(a) \in sent
        BY <1>6, <3>2 DEF Facts, MarksAreRecorded, AboutToMark, DropWork
      <4> QED
        BY <1>6, <3>2, <4>1, GoingIsCalm DEF Facts, DropWork, Sending
    <3> QED
      BY <3>1, <3>2
  <2> QED
    BY <1>6, <2>1, CalmKeepsFacts DEF RowsCalm, DropWork
<1>7. CASE MoveRow(a)
  <2>1. AgentsCalm /\ Mine(a) \in Rows
    BY <1>7, GoingIsCalm, BusyHasRow DEF Facts, MoveRow, Sending
  <2> QED
    BY <1>7, <2>1, TakingKeepsFacts DEF MoveRow, Sending
<1>8. CASE CancelRow(a)
  <2>1. AgentsCalm /\ Mine(a) \in Rows
    BY <1>8, EndingIsCalm, BusyHasRow DEF Facts, CancelRow
  <2> QED
    BY <1>8, <2>1, TakingKeepsFacts DEF CancelRow, Sending
<1>9. CASE Unstick(a)
  <2>1. AgentsCalm /\ Mine(a) \in Rows
    BY <1>9, EndingIsCalm, BusyHasRow DEF Facts, Unstick
  <2>2. CASE row[Mine(a)].status = "sending"
    BY <1>9, <2>1, <2>2, TakingKeepsFacts DEF Unstick, Sending
  <2>3. CASE row[Mine(a)].status # "sending"
    BY <1>9, <2>1, <2>3, CalmKeepsFacts DEF Unstick, RowsCalm
  <2> QED
    BY <2>2, <2>3
<1> QED
  BY <1>1, <1>2, <1>3, <1>4, <1>5, <1>6, <1>7, <1>8, <1>9, <1>10
     DEF QueueStep

LEMMA ClaimStepsKeepFacts ==
    ASSUME SendTypeOK, Facts, SendTypeOK', NEW a \in Agents, ClaimStep(a)
    PROVE  Facts'
<1> USE DEF tables, ghosts, OutsideKept
<1>1. CASE SendNowClaims(a) \/ DeliverClaims(a)
  <2>1. agent[a].at = "claim" /\ Mine(a) \in Rows
    BY <1>1, BusyHasRow DEF SendNowClaims, DeliverClaims, Is
  <2>2. Deliverable(Mine(a))
    BY <1>1 DEF SendNowClaims, DeliverClaims, Deliverable, Movable
  <2> QED
    BY <1>1, <2>1, <2>2, ClaimKeepsFacts DEF SendNowClaims, DeliverClaims
<1>2. CASE \/ SendNowSeesSent(a) \/ SendNowMisses(a)
           \/ DeliverCollides(a) \/ DeliverSkips(a)
  <2>1. AgentsCalm
    BY <1>2, GoingIsCalm, EndingIsCalm
       DEF Facts, SendNowSeesSent, SendNowMisses, DeliverCollides,
           DeliverSkips, Is, Sending
  <2> QED
    BY <1>2, <2>1, CalmKeepsFacts
       DEF RowsCalm, SendNowSeesSent, SendNowMisses, DeliverCollides,
           DeliverSkips
<1> QED
  BY <1>1, <1>2 DEF ClaimStep

LEMMA SendStepsKeepFacts ==
    ASSUME SendTypeOK, Facts, SendTypeOK', NEW a \in Agents,
           SendStep(a) \/ AgentFault(a)
    PROVE  Facts'
<1> USE DEF tables, ghosts, OutsideKept
<1>1. CASE \/ CheckSent(a) \/ Accepts(a) \/ AcceptsUnheard(a) \/ Refuses(a)
           \/ RecordFails(a) \/ RecordSend(a) \/ Dies(a)
  BY <1>1, CheckKeepsFacts, AcceptKeepsFacts, CatchKeepsFacts,
     RecordKeepsFacts, DeathKeepsFacts
<1>2. CASE DraftGone(a) \/ Caught(a) \/ Throws(a)
  <2>1. agent[a].at # "record"
    BY <1>2 DEF DraftGone, Caught, Throws, Closing
  <2>2. AgentsCalm
    BY <1>2, <2>1, GoingIsCalm DEF Facts, DraftGone, Caught, Throws, Sending
  <2> QED
    BY <1>2, <2>2, CalmKeepsFacts DEF RowsCalm, DraftGone, Caught, Throws
<1> QED
  BY <1>1, <1>2 DEF SendStep, AgentFault

LEMMA FinalStepsKeepFacts ==
    ASSUME SendTypeOK, Facts, SendTypeOK', NEW a \in Agents, FinalStep(a)
    PROVE  Facts'
<1> USE DEF tables, ghosts, OutsideKept
<1>1. CASE MarkSent(a)
  BY <1>1, MarkKeepsFacts
<1>2. CASE PutBack(a)
  <2>1. AgentsCalm /\ Mine(a) \in Rows
    BY <1>2, GoingIsCalm, BusyHasRow DEF Facts, PutBack, Sending
  <2> QED
    BY <1>2, <2>1, TakingKeepsFacts DEF PutBack, Sending
<1>3. CASE FailRow(a)
  <2>1. AgentsCalm /\ Mine(a) \in Rows
    BY <1>3, ReturningIsCalm, BusyHasRow DEF Facts, FailRow
  <2> QED
    BY <1>3, <2>1, TakingKeepsFacts DEF FailRow, Sending
<1>4. CASE PutBackCollides(a)
  <2>1. AgentsCalm
    BY <1>4, ReturningIsCalm DEF Facts, PutBackCollides
  <2> QED
    BY <1>4, <2>1, CalmKeepsFacts DEF RowsCalm, PutBackCollides
<1>5. CASE Complete(a) \/ Retry(a)
  <2>1. AgentsCalm
    BY <1>5, EndingIsCalm DEF Facts, Complete, Retry
  <2> QED
    BY <1>5, <2>1, CalmKeepsFacts DEF RowsCalm, Complete, Retry
<1> QED
  BY <1>1, <1>2, <1>3, <1>4, <1>5 DEF FinalStep

LEMMA TimeKeepsFacts ==
    ASSUME SendTypeOK, Facts, SendTypeOK', NEW q \in Rows, TimePasses(q)
    PROVE  Facts'
<1>1. CASE BecomesOld(q) \/ Overdue(q)
  BY <1>1, AgeKeepsFacts
<1>2. CASE Reclaim(q) \/ LeaseLapses(q)
  <2>1. AgentsCalm
    BY <1>2, StayingIsCalm DEF Facts, Reclaim, LeaseLapses
  <2> QED
    BY <1>2, <2>1, CalmKeepsFacts
       DEF RowsCalm, Reclaim, LeaseLapses, ghosts, OutsideKept
<1> QED
  BY <1>1, <1>2 DEF TimePasses

-----------------------------------------------------------------------------

LEMMA InvariantHoldsAtFirst ==
    ASSUME SendInit
    PROVE  SendInvariant
<1>1. SendTypeOK
  BY SendAssumption
     DEF SendInit, SendTypeOK, Row, Status, Active, WorkStatus, OpenWork,
         Idle, Activity, Op, At
<1>2. \A a \in Agents : agent[a].at = "idle"
  BY DEF SendInit, Idle
<1>3. \A q \in Rows : row[q].status = "absent"
  BY DEF SendInit
<1>4. \A i \in Items : accepted[i] = 0 /\ lost[i] = 0
  BY DEF SendInit
<1> QED
  BY <1>1, <1>2, <1>3, <1>4
     DEF SendInvariant, Facts, OneActiveRowPerItem, SendersAreExclusive,
         NoneSendsAgain, MarksAreRecorded, AboutToMark, SentRowsAreRecorded,
         AcceptancesCounted, Active, Sending

LEMMA InvariantIsKept ==
    ASSUME SendInvariant, [SendNext]_vars
    PROVE  SendInvariant'
<1>1. SendTypeOK /\ Facts
  BY DEF SendInvariant
<1>2. SendTypeOK'
  BY <1>1, TypesAreKept
<1>3. CASE SendNext
  BY <1>1, <1>2, <1>3, BeginningsKeepFacts, QueueStepsKeepFacts,
     ClaimStepsKeepFacts, SendStepsKeepFacts, FinalStepsKeepFacts,
     TimeKeepsFacts
     DEF SendNext, Step, Agents, SendInvariant
<1>4. CASE UNCHANGED vars
  <2>1. /\ OutsideKept /\ disturbed' = disturbed /\ RowsCalm
        /\ agent' = agent
    BY <1>4 DEF vars, tables, ghosts, OutsideKept, RowsCalm
  <2> QED
    BY <1>1, <1>2, <2>1, StayingIsCalm, CalmKeepsFacts
       DEF Facts, SendInvariant
<1> QED
  BY <1>3, <1>4

\* The inductive invariant holds in every reachable state of the queue.
THEOREM SendInvariantHolds == SendSpec => []SendInvariant
BY InvariantHoldsAtFirst, InvariantIsKept, PTL DEF SendSpec

\* The tables and the handlers' places keep their types: a job status, for
\* one, never becomes the status of a row.
THEOREM SendTypesCorrect == SendSpec => []SendTypeOK
<1>1. SendInvariant => SendTypeOK
  BY DEF SendInvariant
<1> QED
  BY <1>1, SendInvariantHolds, PTL

\* Between the claim and the record an item has one sender, over all rows,
\* bodies and requests of processQueuedEmailSend and sendNowQueueItems.
THEOREM OneSender == SendSpec => []OneSenderPerItem
<1>1. SendInvariant => OneSenderPerItem
  BY DEF SendInvariant, Facts, SendersAreExclusive, OneSenderPerItem
<1> QED
  BY <1>1, SendInvariantHolds, PTL

\* executeImmediateResend hands an email over once, and once more for each
\* acceptance whose record was lost, however requests, deliveries and
\* takeovers interleave.
THEOREM OneEmail == SendSpec => []OneEmailPerItem
<1>1. SendInvariant => OneEmailPerItem
  <2> SUFFICES ASSUME SendInvariant, NEW i \in Items \ disturbed
               PROVE  accepted[i] <= 1 + lost[i]
    BY DEF OneEmailPerItem
  <2>1. accepted[i] <= lost[i] + 1
    BY DEF SendInvariant, Facts, AcceptancesCounted
  <2> QED
    BY <2>1 DEF SendInvariant, SendTypeOK
<1> QED
  BY <1>1, SendInvariantHolds, PTL

\* markQueueItemSent, from each of its five call sites, marks only rows of
\* items that recordEmailSend has recorded.
THEOREM SentRowsRecorded == SendSpec => []SentRowsAreRecorded
<1>1. SendInvariant => SentRowsAreRecorded
  BY DEF SendInvariant, Facts
<1> QED
  BY <1>1, SendInvariantHolds, PTL

=============================================================================
