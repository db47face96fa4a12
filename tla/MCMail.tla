------------------------------- MODULE MCMail --------------------------------
(***************************************************************************)
(* Small instances of everything that sends or receives mail for TLC: the  *)
(* outbound queue, the slots it shares out, the answers to leads who write *)
(* back, and the probes of mailboxes.                                      *)
(*                                                                         *)
(* They share workers and the provider, and no table that one would wait   *)
(* for another to change.  A behaviour is one of either, the others having *)
(* nothing to do.                                                          *)
(***************************************************************************)
EXTENDS MCEmailSend, ReplyThread, MailboxProbe, InboxSlots

CONSTANTS l1, l2,    \* leads to be probed
          t1         \* what takes in replies

TwoAndOne == l1 :> 2 @@ l2 :> 1

-----------------------------------------------------------------------------
NothingToSend ==
    /\ row = [q \in Rows |-> [status |-> "absent", old |-> FALSE, linked |-> FALSE]]
    /\ work = [q \in Rows |-> "absent"]
    /\ sent = {} /\ disturbed = {}
    /\ agent = [a \in Agents |-> Idle]
    /\ accepted = [i \in Items |-> 0] /\ lost = [i \in Items |-> 0]
    /\ requests = MaxRequests /\ faults = MaxFaults

NothingToPlace ==
    /\ letter = [e \in Emails |-> [status |-> "absent", slot |-> Nowhere]]
    /\ posted = [e \in Emails |-> Nowhere]
    /\ planner = [p \in Planners |-> Unoccupied]
    /\ calls = MaxCalls

NothingToAnswer ==
    /\ event = [m \in Inbounds |-> "acknowledged"]
    /\ stored = Inbounds /\ processed = Inbounds /\ declined = Inbounds
    /\ optedOut = TRUE
    /\ reply = [r \in Replies |-> NoReply]
    /\ carrier = [r \in Replies |-> "none"]
    /\ taker = [t \in Takers |-> Waiting]
    /\ writer = [w \in Writers |-> Resting]
    /\ troubles = MaxTroubles /\ answered = {}
    /\ mailed = [r \in Replies |-> 0]

NothingToProbe ==
    /\ verdict = [l \in Leads |-> "valid"]
    /\ intent = [p \in Probes |-> "none"]
    /\ errand = [l \in Leads |-> "none"]
    /\ verifier = [v \in Verifiers |-> OffDuty]
    /\ hitches = MaxHitches
    /\ probed = [p \in Probes |-> 0]

MailInit ==
    \/ SendInit /\ NothingToPlace /\ NothingToAnswer /\ NothingToProbe
    \/ NothingToSend /\ SlotsInit /\ NothingToAnswer /\ NothingToProbe
    \/ NothingToSend /\ NothingToPlace /\ ReplyInit /\ NothingToProbe
    \/ NothingToSend /\ NothingToPlace /\ NothingToAnswer /\ ProbeInit

\* The second message comes when the first is taken in.
OneByOne == event[2] = "none" /\ event'[2] # "none" => event[1] # "due" /\ taker[t1] = Waiting

MailNext ==
    \/ SendNext /\ UNCHANGED <<slotVars, replyVars, probeVars>>
    \/ SlotsNext /\ UNCHANGED <<vars, replyVars, probeVars>>
    \/ ReplyNext /\ OneByOne /\ UNCHANGED <<vars, slotVars, probeVars>>
    \/ ProbeNext /\ UNCHANGED <<vars, slotVars, replyVars>>

Mail == MailInit /\ [][MailNext]_<<vars, slotVars, replyVars, probeVars>>

=============================================================================
