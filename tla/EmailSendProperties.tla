------------------------- MODULE EmailSendProperties ------------------------
(***************************************************************************)
(* What the outbound email queue owes to the people who receive its mail.  *)
(***************************************************************************)
EXTENDS EmailSendQueue

\* An item whose sender nobody disturbs has one sender, across all of its
\* rows, workers and requests, until its send is recorded; and that sender
\* holds its row in "sending", so that no cancelled, failed or finished row
\* is ever sent from.
OneSenderPerItem ==
    \A a \in Agents :
        (agent[a].at \in Sending /\ Email(a) \notin sent \cup disturbed) =>
            /\ row[Mine(a)].status = "sending"
            /\ \A b \in Agents :
                  (agent[b].at \in Sending /\ Email(b) = Email(a)) => b = a

\* The email of an item goes out once, and once more only for each
\* acceptance whose record was lost, through retries, takeovers of stuck
\* rows, requests that send at once, lapsed leases and second rows.
OneEmailPerItem ==
    \A i \in Items \ disturbed : accepted[i] <= 1 + lost[i]

\* A row that counts as sent has its record, whoever marked it.
SentRowsAreRecorded ==
    \A q \in Rows : row[q].status = "sent" => ItemOf[q] \in sent

-----------------------------------------------------------------------------
\* Liveness.  Handlers and requests go on; the reconciler's queries and the
\* claims of the workers are repeated by timers; the lease of a dead body and
\* the fifteen minutes run out; the provider does not refuse an email as
\* transient for ever.  Strong fairness bridges the times when every body is
\* busy with something else.
SendFairness ==
    /\ \A a \in Agents : WF_vars(Step(a))
    /\ \A q \in Rows :
          /\ SF_vars(\E a \in Bodies : DeliverBegin(a, q))
          /\ SF_vars(\E a \in Bodies : FindsRecorded(a, q))
          /\ SF_vars(\E a \in Bodies : FindsStuck(a, q))
          /\ SF_vars(\E a \in Bodies : FindsStranded(a, q))
          /\ SF_vars(\E a \in Agents : Mine(a) = q /\ Accepts(a))
          /\ WF_vars(BecomesOld(q))
          /\ WF_vars(Reclaim(q))

\* No email stays in the queue for ever: crashes between any two statements
\* leave a row that the reconciler or a second delivery finishes.
EveryQueuedEmailSettles ==
    SendFairness =>
        \A q \in Rows : row[q].status \in Active ~> row[q].status \notin Active

\* The queue catches up with the record: a row of an item that was sent does
\* not stay queued, sending or failed, waiting to be sent again.
RecordedSendsLeaveTheQueue ==
    SendFairness =>
        \A q \in Rows :
            (ItemOf[q] \in sent /\ row[q].status \in Active \cup {"failed"}) ~>
                row[q].status \in {"sent", "cancelled"}

-----------------------------------------------------------------------------
\* "Cannot move items that are currently sending", "Cannot cancel items that
\* are currently sending" (send-queue.ts): the check is made when the row is
\* loaded, the update does not repeat it.
SendingRowsAreLeftAlone ==
    [][\A q \in Rows :
         (row[q].status = "sending" /\ Senders(q) # {})
             => row'[q].status = "sending"]_vars

=============================================================================
