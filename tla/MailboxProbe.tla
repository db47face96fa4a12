----------------------------- MODULE MailboxProbe ----------------------------
(***************************************************************************)
(* The probes that tell whether a mailbox exists: mailbox.lead sends a     *)
(* message to each address found for a lead until one does not bounce.  A  *)
(* probe is an email to a stranger, so sendMailboxProbeOnce writes down    *)
(* that it is about to be sent, and does not send what may have been sent. *)
(*                                                                         *)
(* The leads are those of one run; a step is a statement or a call of the  *)
(* provider.  A lead that is probed here has a verification of 'pending'   *)
(* or 'unknown'; drafting sends its own probes under another scope key.    *)
(***************************************************************************)
EXTENDS Naturals

CONSTANTS
    Leads,          \* leads of the run
    Addresses,      \* per lead: how many of its three columns hold an address
    Verifiers,      \* executions of mailbox.lead at a time
    MaxHitches      \* bound: errors, limits, crashes and lapses

ASSUME ProbeAssumption ==
    /\ Leads # {} /\ Addresses \in [Leads -> 1..3]
    /\ MaxHitches \in Nat
    /\ {"none", "pending", "closed"} \cap Verifiers = {}

VARIABLES
    verdict,     \* leads.email_verification
    intent,      \* orchestration_mailbox_probes, per lead and address
    errand,      \* the orchestration row mailbox.lead of each lead
    verifier,    \* the executions
    hitches,
    probed       \* history: how often the provider accepted a probe

probeVars == <<verdict, intent, errand, verifier, hitches, probed>>

-----------------------------------------------------------------------------
Verdict  == {"pending", "unknown", "valid", "invalid", "rate_limited"}
Probes   == {p \in Leads \X (1..3) : p[2] <= Addresses[p[1]]}
Errand   == {"none", "pending", "closed"} \cup Verifiers

VerifierAt == {"idle", "next", "intend", "send", "withdraw", "acknowledge", "look",
               "limited", "failOpen", "uncertain", "retry", "giveBack"}
Verifier == [at : VerifierAt, lead : Leads, n : 1..3]
\* The probe of an idle execution means nothing.
OffDuty  == [at |-> "idle", lead |-> CHOOSE l \in Leads : TRUE, n |-> 1]
Probe(v) == <<verifier[v].lead, verifier[v].n>>

ProbeTypeOK ==
    /\ verdict \in [Leads -> Verdict]
    /\ intent \in [Probes -> {"none", "sending", "sent"}]
    /\ errand \in [Leads -> Errand]
    /\ verifier \in [Verifiers -> Verifier]
    /\ \A v \in Verifiers : Probe(v) \in Probes
    /\ hitches \in 0..MaxHitches
    /\ probed \in [Probes -> Nat]

ProbeInit ==
    /\ verdict = [l \in Leads |-> "pending"]
    /\ intent = [p \in Probes |-> "none"]
    /\ errand = [l \in Leads |-> "none"]
    /\ verifier = [v \in Verifiers |-> OffDuty]
    /\ hitches = 0
    /\ probed = [p \in Probes |-> 0]

Hitch == hitches < MaxHitches /\ hitches' = hitches + 1

\* What the guarded updates of a lead may still change.
Undecided(l) == verdict[l] \in {"pending", "unknown"}
Decide(l, v) == verdict' = [verdict EXCEPT ![l] = IF Undecided(l) THEN v ELSE @]

\* runHasMailboxRateLimit
Limited == \E l \in Leads : verdict[l] = "rate_limited"

GoesOn(v, to) == verifier' = [verifier EXCEPT ![v].at = to]
Rests(v)      == verifier' = [verifier EXCEPT ![v] = OffDuty]
From(v, at)   == verifier[v].at = at
\* The handler returns: its row is closed if the execution still has it.
Finishes(v) ==
    /\ Rests(v)
    /\ errand' = [errand EXCEPT ![verifier[v].lead] = IF @ = v THEN "closed" ELSE @]

-----------------------------------------------------------------------------
(***************************************************************************)
(* The row: asked for by the enrichment and swept up, taken, closed.       *)
(***************************************************************************)

\* scheduleLeadMailboxVerification of a run that is not limited: a row that was
\* closed is revived, one that is open absorbs the call.
Schedule(l) ==
    /\ Undecided(l) /\ ~Limited
    /\ errand[l] \in {"none", "closed"}
    /\ errand' = [errand EXCEPT ![l] = "pending"]
    /\ UNCHANGED <<verdict, intent, verifier, hitches, probed>>

\* All leads still undecided are given up, after what waits was cancelled: one
\* step, since a row that is taken between the two finds the limit and stops.
GivenUp ==
    /\ verdict' = [l \in Leads |-> IF Undecided(l) THEN "rate_limited" ELSE verdict[l]]
    /\ errand' = [l \in Leads |-> IF errand[l] = "pending" THEN "closed" ELSE errand[l]]

SweepFailsOpen ==
    /\ Limited /\ \E l \in Leads : Undecided(l)
    /\ GivenUp
    /\ UNCHANGED <<intent, verifier, hitches, probed>>

TakeErrand(v, l) ==
    /\ verifier[v] = OffDuty
    /\ errand[l] = "pending"
    /\ IF Undecided(l)
       THEN /\ errand' = [errand EXCEPT ![l] = v]
            /\ verifier' = [verifier EXCEPT ![v] = [at |-> "next", lead |-> l, n |-> 1]]
       ELSE /\ errand' = [errand EXCEPT ![l] = "closed"]
            /\ UNCHANGED verifier
    /\ UNCHANGED <<verdict, intent, hitches, probed>>

-----------------------------------------------------------------------------
(***************************************************************************)
(* The cascade over the addresses of a lead.                               *)
(***************************************************************************)

\* The limit is read again before every probe.
NextAddress(v) ==
    /\ From(v, "next")
    /\ GoesOn(v, IF Limited THEN "limited" ELSE "intend")
    /\ UNCHANGED <<verdict, intent, errand, hitches, probed>>

\* INSERT ... ON CONFLICT DO NOTHING, and what the row says that was there.
Intend(v) ==
    /\ From(v, "intend")
    /\ intent' = [intent EXCEPT ![Probe(v)] = IF @ = "none" THEN "sending" ELSE @]
    /\ GoesOn(v, CASE intent[Probe(v)] = "none"    -> "send"
                   [] intent[Probe(v)] = "sent"    -> "look"
                   [] intent[Probe(v)] = "sending" -> "uncertain")
    /\ UNCHANGED <<verdict, errand, hitches, probed>>

\* agentMailSendProbe
ProbeSent(v) ==
    /\ From(v, "send")
    /\ GoesOn(v, "acknowledge")
    /\ probed' = [probed EXCEPT ![Probe(v)] = @ + 1]
    /\ UNCHANGED <<verdict, intent, errand, hitches>>

RateLimited(v) ==
    /\ From(v, "send") /\ Hitch
    /\ GoesOn(v, "withdraw")
    /\ UNCHANGED <<verdict, intent, errand, probed>>

\* The provider refused it as too many: it was not sent, and may be later.
Withdraw(v) ==
    /\ From(v, "withdraw")
    /\ intent' = [intent EXCEPT ![Probe(v)] = IF @ = "sending" THEN "none" ELSE @]
    /\ GoesOn(v, "limited")
    /\ UNCHANGED <<verdict, errand, hitches, probed>>

\* Mutant: the intent of every probe that failed is withdrawn.
SendErrsWithdrawn(v) ==
    /\ From(v, "send") /\ Hitch
    /\ GoesOn(v, "retry")
    /\ intent' = [intent EXCEPT ![Probe(v)] = "none"]
    /\ probed' \in {probed, [probed EXCEPT ![Probe(v)] = @ + 1]}
    /\ UNCHANGED <<verdict, errand>>

\* Any other error, of a probe that may have gone out; its intent stays.
SendErrs(v) ==
    /\ From(v, "send") /\ Hitch
    /\ GoesOn(v, "retry")
    /\ probed' \in {probed, [probed EXCEPT ![Probe(v)] = @ + 1]}
    /\ UNCHANGED <<verdict, intent, errand>>

Acknowledge(v) ==
    /\ From(v, "acknowledge")
    /\ intent' = [intent EXCEPT ![Probe(v)] = IF @ = "none" THEN @ ELSE "sent"]
    /\ GoesOn(v, "look")
    /\ UNCHANGED <<verdict, errand, hitches, probed>>

\* A statement fails, or the inbox cannot be searched.
NotSeen(v) ==
    /\ verifier[v].at \in {"intend", "withdraw", "acknowledge", "look"} /\ Hitch
    /\ GoesOn(v, "retry")
    /\ UNCHANGED <<verdict, intent, errand, probed>>

\* promoteVerifiedMailboxEmail
NoBounce(v) ==
    /\ From(v, "look")
    /\ Decide(verifier[v].lead, "valid")
    /\ Finishes(v)
    /\ UNCHANGED <<intent, hitches, probed>>

\* The address bounced, or the provider blocks it: on to the next, and after
\* the last, finalizeAllCandidatesInvalid.
Bounced(v) ==
    LET l == verifier[v].lead IN
    /\ verifier[v].at \in {"send", "look"}
    /\ IF verifier[v].n < Addresses[l]
       THEN /\ verifier' = [verifier EXCEPT ![v].at = "next", ![v].n = @ + 1]
            /\ UNCHANGED <<verdict, errand>>
       ELSE Decide(l, "invalid") /\ Finishes(v)
    /\ UNCHANGED <<intent, hitches, probed>>

-----------------------------------------------------------------------------
(***************************************************************************)
(* The other ends of it.                                                   *)
(***************************************************************************)

\* markMailboxVerificationRateLimited: the lead, and then the rest of the run.
MarkLimited(v) ==
    /\ From(v, "limited")
    /\ Decide(verifier[v].lead, "rate_limited")
    /\ GoesOn(v, "failOpen")
    /\ UNCHANGED <<intent, errand, hitches, probed>>

FailOpen(v) ==
    /\ From(v, "failOpen")
    /\ GivenUp
    /\ GoesOn(v, "giveBack")
    /\ UNCHANGED <<intent, hitches, probed>>

\* markMailboxVerificationProviderError.  What is uncertain is not tried again.
MarkUnknown(v) ==
    /\ verifier[v].at \in {"uncertain", "retry"}
    /\ Decide(verifier[v].lead, "unknown")
    /\ IF From(v, "uncertain")
       THEN Finishes(v)
       ELSE /\ Rests(v)
            /\ \E again \in {"pending", "closed"} :
                 errand' = [errand EXCEPT ![verifier[v].lead] = IF @ = v THEN again ELSE @]
    /\ UNCHANGED <<intent, hitches, probed>>

Return(v) ==
    /\ From(v, "giveBack")
    /\ Finishes(v)
    /\ UNCHANGED <<verdict, intent, hitches, probed>>

\* The process dies; the row is tried again or was tried often enough.
VerifierDies(v) ==
    /\ verifier[v] # OffDuty /\ Hitch
    /\ Rests(v)
    /\ \E again \in {"pending", "closed"} :
         errand' = [errand EXCEPT ![verifier[v].lead] = IF @ = v THEN again ELSE @]
    /\ UNCHANGED <<verdict, intent, probed>>

\* The lease of an execution that goes on is over.
ErrandLapses(l) ==
    /\ errand[l] \in Verifiers /\ Hitch
    /\ errand' = [errand EXCEPT ![l] = "pending"]
    /\ UNCHANGED <<verdict, intent, verifier, probed>>

-----------------------------------------------------------------------------
Verifies(v) ==
    \/ NextAddress(v) \/ Intend(v) \/ ProbeSent(v) \/ Withdraw(v) \/ Acknowledge(v)
    \/ NoBounce(v) \/ Bounced(v) \/ MarkLimited(v) \/ FailOpen(v) \/ MarkUnknown(v) \/ Return(v)

ProbeNext ==
    \/ \E l \in Leads : Schedule(l) \/ ErrandLapses(l)
    \/ SweepFailsOpen
    \/ \E v \in Verifiers :
         \/ \E l \in Leads : TakeErrand(v, l)
         \/ Verifies(v) \/ RateLimited(v) \/ SendErrs(v) \/ NotSeen(v) \/ VerifierDies(v)

ProbeSpec == ProbeInit /\ [][ProbeNext]_probeVars

-----------------------------------------------------------------------------
\* No address of a lead is sent a second probe, whatever fails and whoever
\* takes the row over meanwhile.
OneProbePerCandidate == \A p \in Probes : probed[p] <= 1

=============================================================================
