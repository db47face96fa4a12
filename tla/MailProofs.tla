----------------------------- MODULE MailProofs -----------------------------
(***************************************************************************)
(* What holds of the smaller two of the parts that mail, for any number of *)
(* everything: no address is probed twice (MailboxProbe), and a call that  *)
(* places emails fills the inboxes in order and none beyond its cap, by    *)
(* what it has read (InboxSlots).                                          *)
(*                                                                         *)
(* The probes come first.  For the slots: members of a finite set that are *)
(* numbered by counting those before them (NumbersCount), what that says   *)
(* of places and plans (WaterfallFits and the two after it), the invariant *)
(* that keeps a call's reading sound, and the two theorems.                *)
(***************************************************************************)
EXTENDS MailboxProbe, InboxSlots, FiniteSetTheorems, TLAPS

\* It inserted the intent and the provider has not accepted the probe.
Unsent(v) == verifier[v].at \in {"send", "withdraw"}
\* It inserted the intent, and has not written what came of it.
Intends(v) == Unsent(v) \/ verifier[v].at = "acknowledge"

OneIntends ==
    \A v, w \in Verifiers : Intends(v) /\ Intends(w) /\ Probe(v) = Probe(w) => v = w

UnsentIsSending ==
    \A v \in Verifiers : Unsent(v) => intent[Probe(v)] = "sending" /\ probed[Probe(v)] = 0

UnintendedIsUntouched ==
    \A p \in Probes : intent[p] = "none" =>
        probed[p] = 0 /\ \A v \in Verifiers : Intends(v) => Probe(v) # p

ProbeInvariant ==
    /\ ProbeTypeOK /\ OneProbePerCandidate
    /\ OneIntends /\ UnsentIsSending /\ UnintendedIsUntouched

-----------------------------------------------------------------------------
LEMMA SomeLead == OffDuty \in Verifier /\ OffDuty.lead \in Leads /\ OffDuty.n = 1
                    /\ OffDuty.at = "idle"
BY ProbeAssumption DEF OffDuty, Verifier, VerifierAt

LEMMA FirstIsProbe == \A l \in Leads : <<l, 1>> \in Probes
BY ProbeAssumption DEF Probes

\* Execution v goes on to h, and writes only about its own probe.
LEMMA VerifierKept ==
    ASSUME ProbeTypeOK, NEW v \in Verifiers, NEW h \in Verifier, <<h.lead, h.n>> \in Probes,
           verifier' = [verifier EXCEPT ![v] = h]
    PROVE  /\ verifier' \in [Verifiers -> Verifier]
           /\ \A w \in Verifiers : Probe(w)' \in Probes
           /\ Probe(v)' = <<h.lead, h.n>> /\ verifier'[v].at = h.at
           /\ \A w \in Verifiers \ {v} : verifier'[w] = verifier[w] /\ Probe(w)' = Probe(w)
                                         /\ (Unsent(w)' <=> Unsent(w))
                                         /\ (Intends(w)' <=> Intends(w))
BY DEF ProbeTypeOK, Probe, Unsent, Intends

\* A step from one place in the handler to another.
LEMMA GoneOn ==
    ASSUME ProbeTypeOK, NEW v \in Verifiers, NEW to \in VerifierAt, GoesOn(v, to)
    PROVE  /\ verifier' \in [Verifiers -> Verifier]
           /\ \A w \in Verifiers : Probe(w)' \in Probes
           /\ verifier'[v].at = to /\ Probe(v)' = Probe(v)
           /\ \A w \in Verifiers \ {v} : verifier'[w] = verifier[w] /\ Probe(w)' = Probe(w)
                                         /\ (Unsent(w)' <=> Unsent(w))
                                         /\ (Intends(w)' <=> Intends(w))
<1> DEFINE g == [verifier[v] EXCEPT !.at = to]
<1>1. verifier[v] \in Verifier /\ Probe(v) \in Probes
  BY DEF ProbeTypeOK
<1>2. g \in Verifier /\ g.at = to /\ g.lead = verifier[v].lead /\ g.n = verifier[v].n
  BY <1>1 DEF Verifier
<1>3. verifier' = [verifier EXCEPT ![v] = g]
  BY DEF GoesOn, ProbeTypeOK
<1> HIDE DEF g
<1>4. <<g.lead, g.n>> = Probe(v) /\ <<g.lead, g.n>> \in Probes
  BY <1>1, <1>2 DEF Probe
<1> QED BY <1>2, <1>3, <1>4, VerifierKept

LEMMA Decided ==
    ASSUME ProbeTypeOK, NEW l \in Leads, NEW d \in Verdict, Decide(l, d)
    PROVE  verdict' \in [Leads -> Verdict]
BY DEF ProbeTypeOK, Decide

LEMMA Given ==
    ASSUME ProbeTypeOK, GivenUp
    PROVE  verdict' \in [Leads -> Verdict] /\ errand' \in [Leads -> Errand]
BY DEF ProbeTypeOK, GivenUp, Verdict, Errand

LEMMA Counted ==
    ASSUME ProbeTypeOK
    PROVE  /\ Hitch => hitches' \in 0..MaxHitches
           /\ UNCHANGED hitches => hitches' \in 0..MaxHitches
BY ProbeAssumption DEF ProbeTypeOK, Hitch

\* A step of v that ends in no intent, and sends nothing.
LEMMA Leaves ==
    ASSUME ProbeInvariant, ProbeTypeOK', NEW v \in Verifiers,
           \A w \in Verifiers \ {v} : verifier'[w] = verifier[w],
           ~Intends(v)', UNCHANGED <<intent, probed>>
    PROVE  ProbeInvariant'
<1>1. \A w \in Verifiers : Intends(w)' => w # v /\ Intends(w) /\ Probe(w)' = Probe(w)
  BY DEF Intends, Unsent, Probe
<1>2. \A w \in Verifiers : Unsent(w)' => w # v /\ Unsent(w) /\ Probe(w)' = Probe(w)
  BY <1>1 DEF Intends, Unsent
<1>3. OneProbePerCandidate' /\ OneIntends'
  BY <1>1 DEF ProbeInvariant, OneProbePerCandidate, OneIntends
<1>4. UnsentIsSending' /\ UnintendedIsUntouched'
  BY <1>1, <1>2 DEF ProbeInvariant, UnsentIsSending, UnintendedIsUntouched
<1> QED BY <1>3, <1>4 DEF ProbeInvariant

-----------------------------------------------------------------------------
LEMMA ProbeStarts == ProbeInit => ProbeInvariant
<1> SUFFICES ASSUME ProbeInit PROVE ProbeInvariant
  OBVIOUS
<1>1. ProbeTypeOK
  BY ProbeAssumption, SomeLead, FirstIsProbe
     DEF ProbeInit, ProbeTypeOK, Verdict, Errand, Probe
<1>2. \A v \in Verifiers : ~Intends(v)
  BY SomeLead DEF ProbeInit, Intends, Unsent
<1> QED
  BY <1>1, <1>2 DEF ProbeInit, ProbeInvariant, OneProbePerCandidate, OneIntends,
     UnsentIsSending, UnintendedIsUntouched, Intends

\* Steps that do not touch an execution.
LEMMA ByOthers ==
    ASSUME ProbeInvariant,
           (\E l \in Leads : Schedule(l) \/ ErrandLapses(l)) \/ SweepFailsOpen
             \/ UNCHANGED probeVars
    PROVE  ProbeInvariant'
<1>1. UNCHANGED <<intent, verifier, probed>>
  BY DEF Schedule, ErrandLapses, SweepFailsOpen, probeVars
<1>2. verdict' \in [Leads -> Verdict] /\ errand' \in [Leads -> Errand]
  BY Given DEF ProbeInvariant, ProbeTypeOK, Schedule, ErrandLapses, SweepFailsOpen,
     probeVars, Errand
<1>3. hitches' \in 0..MaxHitches
  BY Counted DEF ProbeInvariant, Schedule, ErrandLapses, SweepFailsOpen, probeVars
<1>4. \A v \in Verifiers : Probe(v)' = Probe(v)
  BY <1>1 DEF Probe
<1>5. ProbeTypeOK'
  BY <1>1, <1>2, <1>3, <1>4 DEF ProbeInvariant, ProbeTypeOK
<1> QED
  BY <1>1, <1>4, <1>5 DEF ProbeInvariant, OneProbePerCandidate, OneIntends,
     UnsentIsSending, UnintendedIsUntouched, Intends, Unsent

\* The handler takes a row, goes on to the next address, or comes to an end.
LEMMA ByRest ==
    ASSUME ProbeInvariant, NEW v \in Verifiers,
           \/ \E l \in Leads : TakeErrand(v, l)
           \/ NoBounce(v) \/ Bounced(v) \/ MarkUnknown(v) \/ Return(v) \/ VerifierDies(v)
    PROVE  ProbeInvariant'
<1> USE DEF ProbeInvariant
<1>1. PICK h \in Verifier : /\ verifier' = [verifier EXCEPT ![v] = h]
                            /\ <<h.lead, h.n>> \in Probes
                            /\ h.at \in {"idle", "next"}
  <2>1. ASSUME NEW l \in Leads, TakeErrand(v, l)
        PROVE  \E h \in {OffDuty, [at |-> "next", lead |-> l, n |-> 1]} :
                 verifier' = [verifier EXCEPT ![v] = h]
    <3>1. verifier = [verifier EXCEPT ![v] = OffDuty]
      BY <2>1 DEF TakeErrand, ProbeTypeOK
    <3> QED BY <2>1, <3>1 DEF TakeErrand
  <2>2. ASSUME NEW l \in Leads
        PROVE  LET h == [at |-> "next", lead |-> l, n |-> 1]
               IN h \in Verifier /\ <<h.lead, h.n>> \in Probes
    BY FirstIsProbe DEF Verifier, VerifierAt
  <2>3. CASE Bounced(v) /\ verifier[v].n < Addresses[verifier[v].lead]
    <3> DEFINE g == [verifier[v] EXCEPT !.at = "next", !.n = @ + 1]
    <3>1. verifier[v] \in Verifier /\ Probe(v) \in Probes
      BY DEF ProbeTypeOK
    <3>2. g.lead = verifier[v].lead /\ g.n = verifier[v].n + 1 /\ g.at = "next"
      BY <3>1 DEF Verifier
    <3>3. g.n \in 1..3 /\ g.lead \in Leads
      BY <2>3, <3>1, <3>2, ProbeAssumption DEF Verifier
    <3>4. g \in Verifier
      BY <3>1, <3>2, <3>3 DEF Verifier, VerifierAt
    <3>5. <<g.lead, g.n>> \in Probes
      BY <2>3, <3>1, <3>2, <3>3, ProbeAssumption DEF Probes, Verifier
    <3> HIDE DEF g
    <3>6. verifier' = [verifier EXCEPT ![v] = g]
      BY <2>3 DEF Bounced, ProbeTypeOK, g
    <3> QED BY <3>2, <3>4, <3>5, <3>6
  <2>4. CASE ~(Bounced(v) /\ verifier[v].n < Addresses[verifier[v].lead])
             /\ ~(\E l \in Leads : TakeErrand(v, l))
    <3>1. verifier' = [verifier EXCEPT ![v] = OffDuty]
      BY <2>4 DEF NoBounce, Bounced, MarkUnknown, Return, VerifierDies, Finishes, Rests
    <3> QED BY <3>1, SomeLead, FirstIsProbe
  <2>5. CASE \E l \in Leads : TakeErrand(v, l)
    <3>1. PICK l \in Leads : TakeErrand(v, l)
      BY <2>5
    <3> DEFINE g == [at |-> "next", lead |-> l, n |-> 1]
    <3>2. g \in Verifier /\ <<g.lead, g.n>> \in Probes /\ g.at = "next"
      BY <2>2
    <3>3. OffDuty \in Verifier /\ <<OffDuty.lead, OffDuty.n>> \in Probes /\ OffDuty.at = "idle"
      BY SomeLead, FirstIsProbe
    <3>4. verifier' = [verifier EXCEPT ![v] = OffDuty] \/ verifier' = [verifier EXCEPT ![v] = g]
      BY <2>1, <3>1
    <3> HIDE DEF g
    <3> QED BY <3>2, <3>3, <3>4
  <2> QED BY <2>3, <2>4, <2>5
<1>2. UNCHANGED <<intent, probed>>
  BY DEF TakeErrand, NoBounce, Bounced, MarkUnknown, Return, VerifierDies
<1>3. verifier[v].lead \in Leads
  BY DEF ProbeTypeOK, Verifier
<1>4. verdict' \in [Leads -> Verdict]
  BY <1>3, Decided DEF ProbeTypeOK, Verdict, TakeErrand, NoBounce, Bounced, MarkUnknown,
     Return, VerifierDies
<1>5. errand' \in [Leads -> Errand]
  BY <1>3 DEF ProbeTypeOK, Errand, Finishes, TakeErrand, NoBounce, Bounced, MarkUnknown,
     Return, VerifierDies
<1>6. hitches' \in 0..MaxHitches
  BY Counted DEF TakeErrand, NoBounce, Bounced, MarkUnknown, Return, VerifierDies
<1>7. ProbeTypeOK'
  BY <1>1, <1>2, <1>4, <1>5, <1>6, VerifierKept DEF ProbeTypeOK
<1>8. ~Intends(v)'
  BY <1>1, VerifierKept, SomeLead DEF Intends, Unsent
<1>9. \A w \in Verifiers \ {v} : verifier'[w] = verifier[w]
  BY <1>1, VerifierKept
<1> QED BY <1>2, <1>7, <1>8, <1>9, Leaves

\* Steps of the cascade from one place to another, but those of an intent.
LEMMA ByGoingOn ==
    ASSUME ProbeInvariant, NEW v \in Verifiers,
           NextAddress(v) \/ NotSeen(v) \/ MarkLimited(v) \/ FailOpen(v)
    PROVE  ProbeInvariant'
<1> USE DEF ProbeInvariant
<1>1. PICK to \in {"limited", "intend", "retry", "failOpen", "giveBack"} : GoesOn(v, to)
  BY DEF NextAddress, NotSeen, MarkLimited, FailOpen
<1>2. to \in VerifierAt
  BY <1>1 DEF VerifierAt
<1>3. verifier[v].lead \in Leads
  BY DEF ProbeTypeOK, Verifier
<1>4. verdict' \in [Leads -> Verdict] /\ errand' \in [Leads -> Errand]
  BY <1>3, Decided, Given DEF ProbeTypeOK, Verdict, NextAddress, NotSeen, MarkLimited, FailOpen
<1>5. hitches' \in 0..MaxHitches /\ UNCHANGED <<intent, probed>>
  BY Counted DEF NextAddress, NotSeen, MarkLimited, FailOpen
<1>6. /\ verifier' \in [Verifiers -> Verifier] /\ \A w \in Verifiers : Probe(w)' \in Probes
      /\ verifier'[v].at = to
      /\ \A w \in Verifiers \ {v} : verifier'[w] = verifier[w]
  BY <1>1, <1>2, GoneOn
<1>7. ProbeTypeOK'
  BY <1>4, <1>5, <1>6 DEF ProbeTypeOK
<1>8. ~Intends(v)'
  BY <1>1, <1>6 DEF Intends, Unsent
<1> QED BY <1>5, <1>6, <1>7, <1>8, Leaves

\* Of those who ask, the one whose INSERT is the first sends.
LEMMA ByIntent ==
    ASSUME ProbeInvariant, NEW v \in Verifiers, Intend(v)
    PROVE  ProbeInvariant'
<1> USE DEF ProbeInvariant
<1>0. Probe(v) \in Probes /\ intent[Probe(v)] \in {"none", "sending", "sent"}
  BY DEF ProbeTypeOK
<1>1. PICK to \in {"send", "look", "uncertain"} :
        GoesOn(v, to) /\ (to = "send" <=> intent[Probe(v)] = "none")
  BY <1>0 DEF Intend
<1>2. to \in VerifierAt
  BY <1>1 DEF VerifierAt
<1>3. /\ verifier' \in [Verifiers -> Verifier] /\ \A w \in Verifiers : Probe(w)' \in Probes
      /\ verifier'[v].at = to /\ Probe(v)' = Probe(v)
      /\ \A w \in Verifiers \ {v} : verifier'[w] = verifier[w] /\ Probe(w)' = Probe(w)
                                    /\ (Unsent(w)' <=> Unsent(w)) /\ (Intends(w)' <=> Intends(w))
  BY <1>1, <1>2, GoneOn
<1>4. ProbeTypeOK'
  BY <1>0, <1>3 DEF Intend, ProbeTypeOK
<1>5. CASE to # "send"
  <2>1. intent' = intent
    BY <1>0, <1>1, <1>5 DEF Intend, ProbeTypeOK
  <2>2. ~Intends(v)'
    BY <1>1, <1>3, <1>5 DEF Intends, Unsent
  <2> QED BY <1>3, <1>4, <2>1, <2>2, Leaves DEF Intend
<1>6. CASE to = "send"
  <2>1. intent[Probe(v)] = "none" /\ intent' = [intent EXCEPT ![Probe(v)] = "sending"]
        /\ probed' = probed
    BY <1>1, <1>6 DEF Intend
  <2>2. probed[Probe(v)] = 0 /\ \A w \in Verifiers : Intends(w) => Probe(w) # Probe(v)
    BY <1>0, <2>1 DEF UnintendedIsUntouched
  <2>3. OneIntends' /\ OneProbePerCandidate'
    BY <1>3, <2>1, <2>2 DEF OneIntends, OneProbePerCandidate
  <2>4. UnsentIsSending'
    BY <1>0, <1>3, <2>1, <2>2 DEF UnsentIsSending, ProbeTypeOK, Intends
  <2>5. UnintendedIsUntouched'
    BY <1>0, <1>3, <2>1, <2>2 DEF UnintendedIsUntouched, ProbeTypeOK
  <2> QED BY <1>4, <2>3, <2>4, <2>5
<1> QED BY <1>5, <1>6

\* The provider accepts the probe, or it may have.
LEMMA BySend ==
    ASSUME ProbeInvariant, NEW v \in Verifiers,
           ProbeSent(v) \/ RateLimited(v) \/ SendErrs(v)
    PROVE  ProbeInvariant'
<1> USE DEF ProbeInvariant
<1>0. /\ Probe(v) \in Probes /\ verifier[v].at = "send" /\ Unsent(v) /\ Intends(v)
      /\ intent[Probe(v)] = "sending" /\ probed[Probe(v)] = 0
  BY DEF ProbeTypeOK, ProbeSent, RateLimited, SendErrs, From, Unsent, Intends, UnsentIsSending
<1>1. PICK to \in {"acknowledge", "withdraw", "retry"} :
        GoesOn(v, to) /\ (to = "withdraw" => UNCHANGED probed)
  BY DEF ProbeSent, RateLimited, SendErrs
<1>2. to \in VerifierAt
  BY <1>1 DEF VerifierAt
<1>3. /\ verifier' \in [Verifiers -> Verifier] /\ \A w \in Verifiers : Probe(w)' \in Probes
      /\ verifier'[v].at = to /\ Probe(v)' = Probe(v)
      /\ \A w \in Verifiers \ {v} : verifier'[w] = verifier[w] /\ Probe(w)' = Probe(w)
                                    /\ (Unsent(w)' <=> Unsent(w)) /\ (Intends(w)' <=> Intends(w))
  BY <1>1, <1>2, GoneOn
<1>4. /\ probed' \in [Probes -> Nat]
      /\ \A p \in Probes \ {Probe(v)} : probed'[p] = probed[p]
      /\ probed'[Probe(v)] \in {0, 1} /\ intent' = intent
  BY <1>0 DEF ProbeSent, RateLimited, SendErrs, ProbeTypeOK
<1>5. ProbeTypeOK'
  BY <1>3, <1>4, Counted DEF ProbeTypeOK, ProbeSent, RateLimited, SendErrs
<1>6. OneProbePerCandidate'
  BY <1>4 DEF OneProbePerCandidate
<1>7. \A w \in Verifiers : Intends(w)' => Intends(w)
  BY <1>0, <1>3
<1>8. OneIntends'
  BY <1>3, <1>7 DEF OneIntends
<1>9. \A w \in Verifiers \ {v} : Unsent(w) => Probe(w) # Probe(v)
  BY <1>0 DEF OneIntends, Intends
<1>10. UnsentIsSending'
  <2>1. ASSUME NEW w \in Verifiers \ {v}, Unsent(w)'
        PROVE  intent'[Probe(w)'] = "sending" /\ probed'[Probe(w)'] = 0
    BY <1>3, <1>4, <1>9, <2>1 DEF UnsentIsSending, ProbeTypeOK
  <2>2. Unsent(v)' => to = "withdraw"
    BY <1>1, <1>3 DEF Unsent
  <2>3. Unsent(v)' => intent'[Probe(v)'] = "sending" /\ probed'[Probe(v)'] = 0
    BY <1>0, <1>1, <1>3, <1>4, <2>2
  <2> QED BY <2>1, <2>3 DEF UnsentIsSending
<1>11. UnintendedIsUntouched'
  BY <1>0, <1>3, <1>4, <1>7 DEF UnintendedIsUntouched
<1> QED BY <1>5, <1>6, <1>8, <1>10, <1>11

\* The intent of a probe that was refused is withdrawn, that of one which went
\* out becomes final: nobody else has it.
LEMMA ByOutcome ==
    ASSUME ProbeInvariant, NEW v \in Verifiers, Withdraw(v) \/ Acknowledge(v)
    PROVE  ProbeInvariant'
<1> USE DEF ProbeInvariant
<1>0. Probe(v) \in Probes /\ Intends(v) /\ intent[Probe(v)] # "none"
  BY DEF ProbeTypeOK, Withdraw, Acknowledge, From, Intends, Unsent, UnintendedIsUntouched
<1>1. PICK to \in {"limited", "look"} : GoesOn(v, to)
  BY DEF Withdraw, Acknowledge
<1>2. to \in VerifierAt
  BY <1>1 DEF VerifierAt
<1>3. /\ verifier' \in [Verifiers -> Verifier] /\ \A w \in Verifiers : Probe(w)' \in Probes
      /\ verifier'[v].at = to /\ Probe(v)' = Probe(v)
      /\ \A w \in Verifiers \ {v} : verifier'[w] = verifier[w] /\ Probe(w)' = Probe(w)
                                    /\ (Unsent(w)' <=> Unsent(w)) /\ (Intends(w)' <=> Intends(w))
  BY <1>1, <1>2, GoneOn
<1>4. /\ intent' \in [Probes -> {"none", "sending", "sent"}]
      /\ \A p \in Probes \ {Probe(v)} : intent'[p] = intent[p]
      /\ intent'[Probe(v)] = "none" => probed[Probe(v)] = 0
      /\ probed' = probed
  BY <1>0 DEF Withdraw, Acknowledge, ProbeTypeOK, From, Unsent, UnsentIsSending
<1>5. ProbeTypeOK'
  BY <1>3, <1>4, Counted DEF ProbeTypeOK, Withdraw, Acknowledge
<1>6. ~Intends(v)' /\ ~Unsent(v)'
  BY <1>1, <1>3 DEF Intends, Unsent
<1>7. \A w \in Verifiers : Intends(w)' => w # v /\ Intends(w) /\ Probe(w)' # Probe(v)
  BY <1>0, <1>3, <1>6 DEF OneIntends
<1>8. OneProbePerCandidate' /\ OneIntends'
  BY <1>3, <1>4, <1>7 DEF OneProbePerCandidate, OneIntends
<1>9. UnsentIsSending'
  <2>1. ASSUME NEW w \in Verifiers, Unsent(w)'
        PROVE  intent'[Probe(w)'] = "sending" /\ probed'[Probe(w)'] = 0
    <3>1. w # v /\ Unsent(w) /\ Probe(w)' = Probe(w)
      BY <1>3, <1>6, <2>1
    <3>2. Probe(w) # Probe(v) /\ Probe(w) \in Probes
      BY <1>0, <3>1 DEF OneIntends, Intends, ProbeTypeOK
    <3> QED BY <1>4, <3>1, <3>2 DEF UnsentIsSending
  <2> QED BY <2>1 DEF UnsentIsSending
<1>10. UnintendedIsUntouched'
  BY <1>3, <1>4, <1>7 DEF UnintendedIsUntouched
<1> QED BY <1>5, <1>8, <1>9, <1>10

-----------------------------------------------------------------------------
LEMMA ProbeInvariantHolds == ProbeSpec => []ProbeInvariant
<1>1. ProbeInvariant /\ [ProbeNext]_probeVars => ProbeInvariant'
  BY ByOthers, ByRest, ByGoingOn, ByIntent, BySend, ByOutcome DEF ProbeNext, Verifies
<1> QED BY <1>1, ProbeStarts, PTL DEF ProbeSpec

\* Verdicts, intents, rows and executions keep their types.
THEOREM ProbeTypesCorrect == ProbeSpec => []ProbeTypeOK
BY ProbeInvariantHolds, PTL DEF ProbeInvariant

\* No address is sent a second probe: the intent is inserted by one, and is
\* withdrawn only when the provider refused the probe.
THEOREM OneProbe == ProbeSpec => []OneProbePerCandidate
BY ProbeInvariantHolds, PTL DEF ProbeInvariant

-----------------------------------------------------------------------------
\* R orders S, whatever else it relates.
Orders(R, S) ==
    /\ \A x \in S : <<x, x>> \in R
    /\ \A x, y \in S : <<x, y>> \in R \/ <<y, x>> \in R
    /\ \A x, y \in S : <<x, y>> \in R /\ <<y, x>> \in R => x = y
    /\ \A x, y, z \in S : <<x, y>> \in R /\ <<y, z>> \in R => <<x, z>> \in R

\* The number of each member of S, in the order R.
Numbers(R, S) == [x \in S |-> Cardinality({y \in S : <<y, x>> \in R})]

\* Counting those before it numbers the members of a finite set from 1, without
\* a gap, and in order.
LEMMA NumbersCount ==
    ASSUME NEW S, IsFiniteSet(S), NEW R, Orders(R, S)
    PROVE  /\ Numbers(R, S) \in [S -> 1..Cardinality(S)]
           /\ \A n \in 1..Cardinality(S) : \E x \in S : Numbers(R, S)[x] = n
           /\ \A x, y \in S : <<x, y>> \in R <=> Numbers(R, S)[x] <= Numbers(R, S)[y]
<1> DEFINE Upto(x) == {y \in S : <<y, x>> \in R}
<1> DEFINE f == Numbers(R, S)
<1>1. \A x \in S : f[x] = Cardinality(Upto(x))
  BY DEF Numbers
<1>2. \A x \in S : IsFiniteSet(Upto(x)) /\ Cardinality(Upto(x)) \in Nat
                     /\ Cardinality(Upto(x)) <= Cardinality(S)
  BY FS_Subset, FS_CardinalityType
<1>3. Cardinality(S) \in Nat
  BY FS_CardinalityType
<1>4. ASSUME NEW x \in S PROVE Cardinality(Upto(x)) \in 1..Cardinality(S)
  <2>1. x \in Upto(x)
    BY DEF Orders
  <2>2. Upto(x) # {}
    BY <2>1
  <2>3. IsFiniteSet(Upto(x)) /\ Cardinality(Upto(x)) \in Nat
          /\ Cardinality(Upto(x)) <= Cardinality(S)
    BY <1>2
  <2> HIDE DEF Upto
  <2>4. Cardinality(Upto(x)) # 0
    BY <2>2, <2>3, FS_EmptySet
  <2> QED
    BY <1>3, <2>3, <2>4
<1>5. ASSUME NEW x \in S, NEW y \in S, <<x, y>> \in R
      PROVE  Cardinality(Upto(x)) <= Cardinality(Upto(y))
  <2>1. Upto(x) \in SUBSET Upto(y)
    BY <1>5 DEF Orders
  <2> QED
    BY <1>2, <2>1, FS_Subset
<1>6. ASSUME NEW x \in S, NEW y \in S, <<x, y>> \notin R
      PROVE  Cardinality(Upto(y)) < Cardinality(Upto(x))
  <2>1. <<y, x>> \in R
    BY <1>6 DEF Orders
  <2>2. Upto(y) \in SUBSET Upto(x)
    BY <2>1 DEF Orders
  <2>3. x \in Upto(x) /\ x \notin Upto(y)
    BY <1>6 DEF Orders
  <2>4. Upto(x) # Upto(y)
    BY <2>3
  <2>5. Cardinality(Upto(y)) <= Cardinality(Upto(x)) /\ Cardinality(Upto(y)) # Cardinality(Upto(x))
    BY <1>2, <2>2, <2>4, FS_Subset
  <2> QED
    BY <1>2, <2>5
<1>7. f \in [S -> 1..Cardinality(S)]
  BY <1>1, <1>4 DEF Numbers
<1>8. \A x, y \in S : <<x, y>> \in R <=> f[x] <= f[y]
  <2> SUFFICES ASSUME NEW x \in S, NEW y \in S PROVE <<x, y>> \in R <=> f[x] <= f[y]
    OBVIOUS
  <2>1. f[x] = Cardinality(Upto(x)) /\ f[y] = Cardinality(Upto(y))
    BY <1>1
  <2>2. Cardinality(Upto(x)) \in Nat /\ Cardinality(Upto(y)) \in Nat
    BY <1>2
  <2> HIDE DEF f, Upto
  <2> QED
    BY <1>5, <1>6, <2>1, <2>2
<1> HIDE DEF f
<1>9. \A x, y \in S : f[x] = f[y] => x = y
  <2> SUFFICES ASSUME NEW x \in S, NEW y \in S, f[x] = f[y] PROVE x = y
    OBVIOUS
  <2>1. f[x] <= f[y] /\ f[y] <= f[x]
    BY <1>7
  <2> QED
    BY <1>8, <2>1 DEF Orders
<1>10. f \in Injection(S, 1..Cardinality(S))
  BY <1>7, <1>9 DEF Injection, IsInjective
<1>11. IsFiniteSet(1..Cardinality(S)) /\ Cardinality(1..Cardinality(S)) = Cardinality(S)
  BY <1>3, FS_Interval
<1>12. f \in Surjection(S, 1..Cardinality(S))
  BY <1>10, <1>11, FS_Injection
<1> QED
  BY <1>7, <1>8, <1>12 DEF Surjection, f

-----------------------------------------------------------------------------
\* The places that are free, in the order they are filled.
PlaceOrder == {pq \in (Slots \X Nat) \X (Slots \X Nat) : NotAfter(pq[1], pq[2])}

LEMMA FreeIsFinite ==
    ASSUME NEW used \in [Slots -> Nat]
    PROVE  /\ IsFiniteSet(Free(used)) /\ Cardinality(Free(used)) \in Nat
           /\ Free(used) \subseteq Slots \X Nat
<1>1. IsFiniteSet(Slots)
  BY SlotsAssumption, FS_Product DEF Slots
<1>2. IsFiniteSet(1..Cap) /\ 1..Cap \subseteq Nat
  BY SlotsAssumption, FS_Interval
<1>3. IsFiniteSet(Slots \X (1..Cap))
  BY <1>1, <1>2, FS_Product
<1>4. Free(used) \in SUBSET (Slots \X (1..Cap))
  BY DEF Free
<1> QED
  BY <1>2, <1>3, <1>4, FS_Subset, FS_CardinalityType

LEMMA PlacesAreOrdered == Orders(PlaceOrder, Slots \X Nat)
<1>1. \A s \in Slots : s[1] \in Nat /\ s[2] \in Nat
  BY SlotsAssumption DEF Slots
<1>2. \A s, t \in Slots : s[1] = t[1] /\ s[2] = t[2] => s = t
  BY DEF Slots
<1>3. \A p \in Slots \X Nat : p[1] \in Slots /\ p[2] \in Nat
  OBVIOUS
<1>4. \A p, q \in Slots \X Nat : p[1] = q[1] /\ p[2] = q[2] => p = q
  OBVIOUS
<1>5. \A p, q \in Slots \X Nat : <<p, q>> \in PlaceOrder <=> NotAfter(p, q)
  BY DEF PlaceOrder
<1>6. \A s, t \in Slots : Before(s, t) \/ Before(t, s) \/ s = t
  BY <1>1, <1>2 DEF Before
<1>7. \A s, t \in Slots : ~(Before(s, t) /\ Before(t, s)) /\ ~Before(s, s)
  BY <1>1 DEF Before
<1>8. \A s, t, u \in Slots : Before(s, t) /\ Before(t, u) => Before(s, u)
  BY <1>1 DEF Before
<1>9. \A p \in Slots \X Nat : NotAfter(p, p)
  BY <1>3 DEF NotAfter
<1>10. \A p, q \in Slots \X Nat : NotAfter(p, q) \/ NotAfter(q, p)
  BY <1>3, <1>6 DEF NotAfter
<1>11. \A p, q \in Slots \X Nat : NotAfter(p, q) /\ NotAfter(q, p) => p = q
  BY <1>3, <1>4, <1>7 DEF NotAfter
<1>12. \A p, q, r \in Slots \X Nat : NotAfter(p, q) /\ NotAfter(q, r) => NotAfter(p, r)
  BY <1>3, <1>8 DEF NotAfter
<1> QED
  BY <1>5, <1>9, <1>10, <1>11, <1>12 DEF Orders

\* The n-th free place
PlaceOf(used, n) ==
    CHOOSE p \in Free(used) : Cardinality({q \in Free(used) : NotAfter(q, p)}) = n

LEMMA AllocatedIsAPlace ==
    ASSUME NEW used, NEW n
    PROVE  Allocated(used, n) = PlaceOf(used, n)[1]
BY DEF Allocated, PlaceOf

LEMMA PlacesAreNumbered ==
    ASSUME NEW used \in [Slots -> Nat]
    PROVE  LET free == Free(used)
               all  == 1..Cardinality(Free(used))
           IN /\ \A n \in all : PlaceOf(used, n) \in free
              /\ \A m, n \in all : NotAfter(PlaceOf(used, m), PlaceOf(used, n)) <=> m <= n
              /\ \A p \in free : \E n \in all : PlaceOf(used, n) = p
<1> DEFINE free == Free(used)
<1> DEFINE f == Numbers(PlaceOrder, free)
<1>1. IsFiniteSet(free) /\ free \subseteq Slots \X Nat
  BY FreeIsFinite
<1>2. Orders(PlaceOrder, free)
  BY <1>1, PlacesAreOrdered DEF Orders
<1> HIDE DEF free
<1>3. /\ f \in [free -> 1..Cardinality(free)]
      /\ \A n \in 1..Cardinality(free) : \E x \in free : f[x] = n
      /\ \A x, y \in free : <<x, y>> \in PlaceOrder <=> f[x] <= f[y]
  BY <1>1, <1>2, NumbersCount
<1>4. \A p, q \in free : <<p, q>> \in PlaceOrder <=> NotAfter(p, q)
  BY <1>1 DEF PlaceOrder
<1>5. \A p \in free : f[p] = Cardinality({q \in free : NotAfter(q, p)})
  <2> SUFFICES ASSUME NEW p \in free PROVE f[p] = Cardinality({q \in free : NotAfter(q, p)})
    OBVIOUS
  <2>1. {q \in free : NotAfter(q, p)} = {q \in free : <<q, p>> \in PlaceOrder}
    BY <1>4
  <2> QED
    BY <2>1 DEF Numbers
<1> HIDE DEF f
<1>6. \A n \in 1..Cardinality(free) : PlaceOf(used, n) \in free /\ f[PlaceOf(used, n)] = n
  BY <1>3, <1>5 DEF PlaceOf, free
<1>7. \A p, q \in free : f[p] = f[q] => p = q
  <2> SUFFICES ASSUME NEW p \in free, NEW q \in free, f[p] = f[q] PROVE p = q
    OBVIOUS
  <2>1. f[p] <= f[q] /\ f[q] <= f[p]
    BY <1>3
  <2> QED
    BY <1>2, <1>3, <2>1 DEF Orders
<1>8. \A m, n \in 1..Cardinality(free) :
         NotAfter(PlaceOf(used, m), PlaceOf(used, n)) <=> m <= n
  BY <1>3, <1>4, <1>6
<1>9. \A p \in free : \E n \in 1..Cardinality(free) : PlaceOf(used, n) = p
  BY <1>3, <1>6, <1>7
<1> QED
  BY <1>6, <1>8, <1>9 DEF free

-----------------------------------------------------------------------------
Places(used, es) == Cardinality(es) <= Cardinality(Free(used))

LEMMA EmailsFinite ==
    \A es \in SUBSET Emails : /\ es \subseteq Nat /\ IsFiniteSet(es)
                              /\ Cardinality(es) \in Nat /\ Cardinality(es) <= Cardinality(Emails)
BY SlotsAssumption, FS_Subset, FS_CardinalityType

\* The older of two emails is the one with the smaller number.
Age == {de \in Nat \X Nat : de[1] <= de[2]}

LEMMA AgesAreOrdered == \A es \in SUBSET Emails : Orders(Age, es)
<1>1. \A x, y \in Nat : <<x, y>> \in Age <=> x <= y
  BY DEF Age
<1>2. \A x, y, z \in Nat : /\ x <= x /\ (x <= y \/ y <= x)
                           /\ (x <= y /\ y <= x => x = y)
                           /\ (x <= y /\ y <= z => x <= z)
  OBVIOUS
<1>3. \A es \in SUBSET Emails : \A x \in es : x \in Nat
  BY EmailsFinite
<1> QED
  BY <1>1, <1>2, <1>3, Zenon DEF Orders

LEMMA OldestIsThere ==
    ASSUME NEW es \in SUBSET Emails, es # {}
    PROVE  Min(es) \in es
<1>1. es \subseteq Nat /\ IsFiniteSet(es) /\ Cardinality(es) \in Nat
  BY EmailsFinite
<1>2. Cardinality(es) # 0
  BY <1>1, FS_EmptySet
<1>3. 1 \in 1..Cardinality(es)
  BY <1>1, <1>2
<1>4. Orders(Age, es)
  BY AgesAreOrdered
<1>5. /\ Numbers(Age, es) \in [es -> 1..Cardinality(es)]
      /\ \A n \in 1..Cardinality(es) : \E x \in es : Numbers(Age, es)[x] = n
      /\ \A x, y \in es : <<x, y>> \in Age <=> Numbers(Age, es)[x] <= Numbers(Age, es)[y]
  BY <1>1, <1>4, NumbersCount
<1>6. PICK x \in es : Numbers(Age, es)[x] = 1
  BY <1>3, <1>5
<1>7. \A y \in es : <<x, y>> \in Age
  <2>1. \A y \in es : Numbers(Age, es)[y] >= 1
    BY <1>1, <1>5
  <2> QED
    BY <1>5, <1>6, <2>1
<1>8. \A y \in es : x <= y
  BY <1>7 DEF Age
<1> QED
  BY <1>8 DEF Min

\* The place of each email of es: the older of two has the one that is filled
\* earlier, and no place before one that is taken stays free.
LEMMA EmailsTakePlaces ==
    ASSUME NEW used \in [Slots -> Nat], NEW es \in SUBSET Emails, Places(used, es)
    PROVE  \E place \in [es -> Free(used)] :
              /\ \A e \in es : Waterfall(used, es)[e] = place[e][1]
              /\ \A d, e \in es : d <= e <=> NotAfter(place[d], place[e])
              /\ \A e \in es, p \in Free(used) : NotAfter(p, place[e]) => \E d \in es : place[d] = p
<1> DEFINE free == Free(used)
<1> DEFINE f == Numbers(Age, es)
<1> DEFINE place == [e \in es |-> PlaceOf(used, f[e])]
<1>1. es \subseteq Nat /\ IsFiniteSet(es) /\ Cardinality(es) \in Nat
  BY EmailsFinite
<1>2. \A d, e \in es : <<d, e>> \in Age <=> d <= e
  BY <1>1 DEF Age
<1>3. Orders(Age, es)
  BY AgesAreOrdered
<1>4. /\ f \in [es -> 1..Cardinality(es)]
      /\ \A n \in 1..Cardinality(es) : \E x \in es : f[x] = n
      /\ \A x, y \in es : <<x, y>> \in Age <=> f[x] <= f[y]
  BY <1>1, <1>3, NumbersCount
<1>5. \A e \in es : f[e] = Cardinality({d \in es : d <= e})
  <2> SUFFICES ASSUME NEW e \in es PROVE f[e] = Cardinality({d \in es : d <= e})
    OBVIOUS
  <2>1. {d \in es : d <= e} = {d \in es : <<d, e>> \in Age}
    BY <1>2
  <2> QED
    BY <2>1 DEF Numbers
<1> HIDE DEF f
<1>6. Cardinality(free) \in Nat /\ Cardinality(es) <= Cardinality(free)
  BY FreeIsFinite DEF Places
<1>7. \A e \in es : f[e] \in 1..Cardinality(free)
  BY <1>1, <1>4, <1>6
<1>8. /\ \A n \in 1..Cardinality(free) : PlaceOf(used, n) \in free
      /\ \A m, n \in 1..Cardinality(free) :
            NotAfter(PlaceOf(used, m), PlaceOf(used, n)) <=> m <= n
      /\ \A p \in free : \E n \in 1..Cardinality(free) : PlaceOf(used, n) = p
  BY PlacesAreNumbered
<1>9. place \in [es -> free]
  BY <1>7, <1>8
<1>10. \A e \in es : place[e] = PlaceOf(used, f[e])
  OBVIOUS
<1> HIDE DEF place, free
<1>11. \A e \in es : Waterfall(used, es)[e] = place[e][1]
  BY <1>5, <1>10, AllocatedIsAPlace DEF Waterfall
<1>12. \A d, e \in es : d <= e <=> NotAfter(place[d], place[e])
  <2> SUFFICES ASSUME NEW d \in es, NEW e \in es
               PROVE  d <= e <=> NotAfter(place[d], place[e])
    OBVIOUS
  <2>1. d <= e <=> f[d] <= f[e]
    BY <1>2, <1>4
  <2>2. NotAfter(PlaceOf(used, f[d]), PlaceOf(used, f[e])) <=> f[d] <= f[e]
    BY <1>7, <1>8
  <2> QED
    BY <1>10, <2>1, <2>2
<1>13. ASSUME NEW e \in es, NEW p \in free, NotAfter(p, place[e])
       PROVE  \E d \in es : place[d] = p
  <2>1. PICK n \in 1..Cardinality(free) : PlaceOf(used, n) = p
    BY <1>8
  <2>2. n <= f[e]
    BY <1>7, <1>8, <1>10, <1>13, <2>1
  <2>3. f[e] \in 1..Cardinality(es)
    BY <1>4
  <2>4. n \in 1..Cardinality(es)
    BY <1>1, <1>6, <2>2, <2>3
  <2>5. PICK d \in es : f[d] = n
    BY <1>4, <2>4
  <2> QED
    BY <1>10, <2>1, <2>5
<1> QED
  BY <1>9, <1>11, <1>12, <1>13 DEF free

\* The rows a plan gives to a slot
GivenTo(s, plan) == {e \in DOMAIN plan : plan[e] = s}

LEMMA CountOfInterval ==
    ASSUME NEW a \in Nat, NEW b \in Nat, a <= b
    PROVE  IsFiniteSet((a + 1)..b) /\ Cardinality((a + 1)..b) = b - a
<1>1. CASE a = b
  <2>1. (a + 1)..b = {} /\ b - a = 0
    BY <1>1
  <2> QED
    BY <2>1, FS_EmptySet
<1>2. CASE a < b
  <2>1. a + 1 \in Int /\ b \in Int /\ ~(a + 1 > b) /\ b - (a + 1) + 1 = b - a
    BY <1>2
  <2> QED
    BY <2>1, FS_Interval
<1> QED
  BY <1>1, <1>2

\* No slot is filled beyond the cap, ...
THEOREM WaterfallFits ==
    ASSUME NEW used \in [Slots -> Nat], NEW es \in SUBSET Emails, Places(used, es),
           NEW e \in es
    PROVE  LET plan == Waterfall(used, es)
           IN /\ plan \in [es -> Slots]
              /\ used[plan[e]] + Cardinality(GivenTo(plan[e], plan)) <= Cap
<1> DEFINE plan == Waterfall(used, es)
<1> DEFINE s == plan[e]
<1> DEFINE its == GivenTo(s, plan)
<1>1. PICK place \in [es -> Free(used)] :
              /\ \A d \in es : plan[d] = place[d][1]
              /\ \A d, g \in es : d <= g <=> NotAfter(place[d], place[g])
  BY EmailsTakePlaces
<1>2. \A p \in Free(used) : /\ p[1] \in Slots /\ p[2] \in Nat /\ p[2] > used[p[1]]
                            /\ p[2] <= Cap /\ p = <<p[1], p[2]>>
  BY SlotsAssumption DEF Free
<1>3. plan \in [es -> Slots]
  <2>1. plan = [d \in es |-> plan[d]]
    BY DEF Waterfall
  <2> HIDE DEF plan
  <2> QED
    BY <1>1, <1>2, <2>1
<1> HIDE DEF plan
<1>4. s \in Slots /\ used[s] \in Nat /\ Cap \in Nat /\ used[s] < Cap
  BY <1>1, <1>2, <1>3, SlotsAssumption
<1>5. its = {d \in es : plan[d] = s}
  BY <1>3 DEF GivenTo
<1> DEFINE k == [d \in its |-> place[d][2]]
<1>6. k \in [its -> (used[s] + 1)..Cap]
  BY <1>1, <1>2, <1>4, <1>5
<1>7. ASSUME NEW d \in its, NEW g \in its, k[d] = k[g] PROVE d = g
  <2>1. d \in es /\ g \in es /\ d \in Nat /\ g \in Nat
    BY <1>5, EmailsFinite
  <2>2. place[d] = place[g]
    BY <1>1, <1>2, <1>5, <1>7, <2>1
  <2>3. NotAfter(place[d], place[d])
    BY <1>1, <2>1
  <2>4. d <= g /\ g <= d
    BY <1>1, <2>1, <2>2, <2>3
  <2> QED
    BY <2>1, <2>4
<1> HIDE DEF k, s, its
<1>8. k \in Injection(its, (used[s] + 1)..Cap)
  BY <1>6, <1>7 DEF Injection, IsInjective
<1>9. IsFiniteSet((used[s] + 1)..Cap) /\ Cardinality((used[s] + 1)..Cap) = Cap - used[s]
  BY <1>4, CountOfInterval
<1>10. IsFiniteSet(its) /\ Cardinality(its) <= Cap - used[s]
  BY <1>8, <1>9, FS_Injection
<1>11. Cardinality(its) \in Nat
  BY <1>10, FS_CardinalityType
<1>12. used[s] + Cardinality(its) <= Cap
  BY <1>4, <1>10, <1>11
<1> QED
  BY <1>3, <1>12 DEF s, its, plan

\* ... none is touched while one before it has room, ...
THEOREM WaterfallFillsInOrder ==
    ASSUME NEW used \in [Slots -> Nat], NEW es \in SUBSET Emails, Places(used, es),
           NEW e \in es, NEW s \in Slots, Before(s, Waterfall(used, es)[e])
    PROVE  used[s] + Cardinality(GivenTo(s, Waterfall(used, es))) >= Cap
<1> DEFINE plan == Waterfall(used, es)
<1> DEFINE its == GivenTo(s, plan)
<1>1. PICK place \in [es -> Free(used)] :
              /\ \A d \in es : plan[d] = place[d][1]
              /\ \A g \in es, p \in Free(used) : NotAfter(p, place[g]) => \E d \in es : place[d] = p
  BY EmailsTakePlaces
<1>2. plan \in [es -> Slots]
  BY WaterfallFits
<1>3. its = {d \in es : plan[d] = s}
  BY <1>2 DEF GivenTo
<1>4. its \in SUBSET Emails
  BY <1>3
<1>5. IsFiniteSet(its) /\ Cardinality(its) \in Nat
  BY <1>4, EmailsFinite
<1>6. used[s] \in Nat /\ Cap \in Nat
  BY SlotsAssumption
<1>7. CASE used[s] >= Cap
  <2> HIDE DEF its
  <2> QED
    BY <1>5, <1>6, <1>7 DEF its
<1>8. CASE used[s] < Cap
  <2> DEFINE who == [n \in (used[s] + 1)..Cap |-> CHOOSE d \in es : place[d] = <<s, n>>]
  <2>1. ASSUME NEW n \in (used[s] + 1)..Cap
        PROVE  \E d \in es : place[d] = <<s, n>>
    <3>1. <<s, n>> \in Free(used)
      BY <1>6 DEF Free
    <3>2. Before(s, place[e][1])
      BY <1>1
    <3>3. NotAfter(<<s, n>>, place[e])
      BY <3>2 DEF NotAfter
    <3> QED
      BY <1>1, <3>1, <3>3
  <2>2. \A n \in (used[s] + 1)..Cap : who[n] \in es /\ place[who[n]] = <<s, n>>
    BY <2>1
  <2> HIDE DEF plan, its
  <2>3. \A n \in (used[s] + 1)..Cap : who[n] \in its
    <3> SUFFICES ASSUME NEW n \in (used[s] + 1)..Cap PROVE who[n] \in its
      OBVIOUS
    <3>1. who[n] \in es /\ place[who[n]] = <<s, n>>
      BY <2>2
    <3> HIDE DEF who
    <3>2. plan[who[n]] = s
      BY <1>1, <3>1
    <3> QED
      BY <1>3, <3>1, <3>2
  <2>4. who \in [(used[s] + 1)..Cap -> its]
    BY <2>3
  <2> HIDE DEF who
  <2>5. \A m, n \in (used[s] + 1)..Cap : who[m] = who[n] => m = n
    BY <2>2
  <2>6. who \in Injection((used[s] + 1)..Cap, its)
    BY <2>4, <2>5 DEF Injection, IsInjective
  <2>7. Cardinality((used[s] + 1)..Cap) <= Cardinality(its)
    BY <1>5, <2>6, FS_Injection
  <2>8. Cardinality((used[s] + 1)..Cap) = Cap - used[s]
    BY <1>6, <1>8, CountOfInterval
  <2>9. used[s] + Cardinality(its) >= Cap
    BY <1>5, <1>6, <2>7, <2>8
  <2> QED
    BY <2>9 DEF its, plan
<1> QED
  BY <1>6, <1>7, <1>8

\* ... and of two emails the older one is not sent on a later day, or from a
\* later inbox.
LEMMA WaterfallKeepsOrder ==
    ASSUME NEW used \in [Slots -> Nat], NEW es \in SUBSET Emails, Places(used, es),
           NEW d \in es, NEW e \in es, d < e
    PROVE  ~Before(Waterfall(used, es)[e], Waterfall(used, es)[d])
<1>1. PICK place \in [es -> Free(used)] :
              /\ \A g \in es : Waterfall(used, es)[g] = place[g][1]
              /\ \A f, g \in es : f <= g <=> NotAfter(place[f], place[g])
  BY EmailsTakePlaces
<1>2. d \in Nat /\ e \in Nat
  BY EmailsFinite
<1>3. ~NotAfter(place[e], place[d])
  BY <1>1, <1>2
<1> QED
  BY <1>1, <1>3 DEF NotAfter

-----------------------------------------------------------------------------
\* No email is without a slot once it has a row.
Placed(l) == l.status # "absent" => l.slot \in Slots

\* What a call has loaded is what it works on, the usage it has read is of a few
\* slots only, and a plan that is written has rows left.
Orderly(m) ==
    /\ m.at \in {"reading", "counting"} =>
         /\ m.call \in Calls /\ DOMAIN m.saw # {}
         /\ \A e \in DOMAIN m.saw : m.saw[e].status \in Loads(m.call) /\ Placed(m.saw[e])
    /\ m.at = "counting" => Cardinality({s \in Slots : m.used[s] > 0}) <= Cardinality(Emails)
    /\ m.at = "writing" => DOMAIN m.plan # {}

LettersFine  == letter \in [Emails -> Letter] /\ \A e \in Emails : Placed(letter[e])
PostedFine   == posted \in [Emails -> Slots \cup {Nowhere}]
PlannersFine == planner \in [Planners -> Planner] /\ \A p \in Planners : Orderly(planner[p])

SlotsInvariant == LettersFine /\ PostedFine /\ PlannersFine /\ calls \in 0..MaxCalls

LEMMA PartialFunctions ==
    /\ \A es \in SUBSET Emails : \A f \in [es -> Letter] :
          f \in UNION {[ds -> Letter] : ds \in SUBSET Emails}
    /\ \A es \in SUBSET Emails : \A f \in [es -> Slots] :
          f \in UNION {[ds -> Slots] : ds \in SUBSET Emails}
    /\ \A f \in UNION {[ds -> Letter] : ds \in SUBSET Emails} :
          DOMAIN f \in SUBSET Emails /\ f \in [DOMAIN f -> Letter]
    /\ \A f \in UNION {[ds -> Slots] : ds \in SUBSET Emails} :
          DOMAIN f \in SUBSET Emails /\ f \in [DOMAIN f -> Slots]
<1>1. ASSUME NEW T
      PROVE  /\ \A es \in SUBSET Emails : \A f \in [es -> T] :
                  f \in UNION {[ds -> T] : ds \in SUBSET Emails}
             /\ \A f \in UNION {[ds -> T] : ds \in SUBSET Emails} :
                  DOMAIN f \in SUBSET Emails /\ f \in [DOMAIN f -> T]
  <2>1. ASSUME NEW es \in SUBSET Emails, NEW f \in [es -> T]
        PROVE  f \in UNION {[ds -> T] : ds \in SUBSET Emails}
    OBVIOUS
  <2>2. ASSUME NEW f \in UNION {[ds -> T] : ds \in SUBSET Emails}
        PROVE  DOMAIN f \in SUBSET Emails /\ f \in [DOMAIN f -> T]
    <3>1. PICK ds \in SUBSET Emails : f \in [ds -> T]
      OBVIOUS
    <3> QED
      BY <3>1
  <2> QED
    BY <2>1, <2>2
<1> QED
  BY <1>1

LEMMA PlannerParts ==
    ASSUME NEW m \in Planner
    PROVE  /\ DOMAIN m.saw \in SUBSET Emails /\ m.saw \in [DOMAIN m.saw -> Letter]
           /\ DOMAIN m.plan \in SUBSET Emails /\ m.plan \in [DOMAIN m.plan -> Slots]
           /\ m.used \in [Slots -> Nat]
<1>1. /\ m.saw \in UNION {[es -> Letter] : es \in SUBSET Emails}
      /\ m.plan \in UNION {[es -> Slots] : es \in SUBSET Emails}
      /\ m.used \in [Slots -> Nat]
  BY DEF Planner
<1> QED
  BY <1>1, PartialFunctions

LEMMA UnoccupiedIsFine ==
    /\ Unoccupied \in Planner /\ Orderly(Unoccupied) /\ Unoccupied.at = "idle"
    /\ NoneUsed \in [Slots -> Nat]
    /\ Nothing \in UNION {[es -> Letter] : es \in SUBSET Emails}
    /\ Nothing \in UNION {[es -> Slots] : es \in SUBSET Emails}
    /\ Unoccupied = [call |-> "none", at |-> "idle", saw |-> Nothing, used |-> NoneUsed,
                     plan |-> Nothing]
<1>1. NoneUsed \in [Slots -> Nat]
  BY DEF NoneUsed
<1>2. {} \in SUBSET Emails /\ Nothing \in [{} -> Letter] /\ Nothing \in [{} -> Slots]
  BY DEF Nothing
<1>3. /\ Nothing \in UNION {[es -> Letter] : es \in SUBSET Emails}
      /\ Nothing \in UNION {[es -> Slots] : es \in SUBSET Emails}
  BY <1>2, PartialFunctions
<1>4. Unoccupied \in Planner
  BY <1>1, <1>3 DEF Unoccupied, Planner
<1>5. Unoccupied.at = "idle"
  BY DEF Unoccupied
<1>6. Orderly(Unoccupied)
  BY <1>5 DEF Orderly
<1> QED
  BY <1>1, <1>3, <1>4, <1>5, <1>6 DEF Unoccupied

\* A step of p only
LEMMA PlannerKept ==
    ASSUME PlannersFine, NEW p \in Planners, NEW m \in Planner, Orderly(m),
           planner' = [planner EXCEPT ![p] = m]
    PROVE  PlannersFine'
<1>1. planner' \in [Planners -> Planner]
  BY DEF PlannersFine
<1>2. \A q \in Planners : planner'[q] = IF q = p THEN m ELSE planner[q]
  BY DEF PlannersFine
<1>3. \A q \in Planners : Orderly(planner'[q])
  BY <1>2 DEF PlannersFine
<1> QED
  BY <1>1, <1>3 DEF PlannersFine

LEMMA StopsFine ==
    ASSUME PlannersFine, NEW p \in Planners, planner' = [planner EXCEPT ![p] = Unoccupied]
    PROVE  PlannersFine'
BY PlannerKept, UnoccupiedIsFine

LEMMA StartFine ==
    ASSUME SlotsInvariant, NEW p \in Planners, NEW call \in Calls, NEW es \in SUBSET Emails,
           es # {}, \A e \in es : letter[e].status \in Loads(call), StartsCall(p, call, es)
    PROVE  LettersFine' /\ PostedFine' /\ PlannersFine'
<1>1. PICK m : m = [Unoccupied EXCEPT !.call = call, !.at = "reading", !.saw = Sees(es)]
  OBVIOUS
<1>2. /\ m.call = call /\ m.at = "reading" /\ m.saw = Sees(es)
      /\ m.used = NoneUsed /\ m.plan = Nothing
      /\ m = [call |-> call, at |-> "reading", saw |-> Sees(es), used |-> NoneUsed,
              plan |-> Nothing]
  BY <1>1, UnoccupiedIsFine
<1>3. Sees(es) \in [es -> Letter] /\ \A e \in es : Sees(es)[e] = letter[e]
  BY DEF Sees, SlotsInvariant, LettersFine
<1>4. Sees(es) \in UNION {[ds -> Letter] : ds \in SUBSET Emails}
  BY <1>3, PartialFunctions
<1>5. m \in Planner
  BY <1>2, <1>4, UnoccupiedIsFine DEF Planner
<1>6. DOMAIN m.saw = es
  BY <1>2, <1>3
<1>7. \A e \in es : m.saw[e].status \in Loads(call) /\ Placed(m.saw[e])
  BY <1>2, <1>3 DEF SlotsInvariant, LettersFine
<1>8. Orderly(m)
  BY <1>2, <1>6, <1>7 DEF Orderly
<1>9. planner' = [planner EXCEPT ![p] = m]
  BY <1>1 DEF StartsCall
<1>10. PlannersFine'
  BY <1>5, <1>8, <1>9, PlannerKept DEF SlotsInvariant
<1> QED
  BY <1>10 DEF StartsCall, SlotsInvariant, LettersFine, PostedFine

LEMMA CallFine ==
    ASSUME SlotsInvariant, NEW p \in Planners, Call(p)
    PROVE  SlotsInvariant'
<1>1. PICK call \in Calls \ {"rebalance"}, es \in (SUBSET Emails) \ {{}} :
         (\A e \in es : letter[e].status \in Loads(call)) /\ StartsCall(p, call, es)
  BY DEF Call
<1>2. calls' \in 0..MaxCalls
  BY SlotsAssumption DEF Call, SlotsInvariant
<1>3. LettersFine' /\ PostedFine' /\ PlannersFine'
  <2>1. call \in Calls /\ es \in SUBSET Emails /\ es # {}
    BY <1>1
  <2> QED
    BY <1>1, <2>1, StartFine
<1> QED
  BY <1>2, <1>3 DEF SlotsInvariant

LEMMA RebalanceFine ==
    ASSUME SlotsInvariant, NEW p \in Planners, RebalanceStarts(p)
    PROVE  SlotsInvariant'
<1>1. Queued \in SUBSET Emails /\ \A e \in Queued : letter[e].status = "queued"
  BY DEF Queued
<1>2. Queued # {}
  BY DEF RebalanceStarts
<1>3. Loads("rebalance") = {"queued", "failed"}
  BY DEF Loads
<1>4. LettersFine' /\ PostedFine' /\ PlannersFine'
  BY <1>1, <1>2, <1>3, StartFine DEF RebalanceStarts, Calls
<1> QED
  BY <1>4 DEF SlotsInvariant, RebalanceStarts

\* A slot for each of a set of emails is a slot for no more than there are emails.
LEMMA FewSlots ==
    ASSUME NEW S \in SUBSET Slots, NEW at, \A s \in S : \E e \in Emails : at[e] = s
    PROVE  IsFiniteSet(S) /\ Cardinality(S) \in Nat /\ Cardinality(S) <= Cardinality(Emails)
<1> DEFINE w == [s \in S |-> CHOOSE e \in Emails : at[e] = s]
<1>1. \A s \in S : w[s] \in Emails /\ at[w[s]] = s
  OBVIOUS
<1>2. w \in [S -> Emails]
  BY <1>1
<1> HIDE DEF w
<1>3. \A s, t \in S : w[s] = w[t] => s = t
  BY <1>1
<1>4. w \in Injection(S, Emails)
  BY <1>2, <1>3 DEF Injection, IsInjective
<1> QED
  BY <1>4, SlotsAssumption, FS_Injection, FS_CardinalityType

LEMMA CountsAreNat ==
    \A s \in Slots : UsageQueued(s) \in Nat /\ UsageSent(s) \in Nat
<1> SUFFICES ASSUME NEW s \in Slots PROVE UsageQueued(s) \in Nat /\ UsageSent(s) \in Nat
  OBVIOUS
<1>1. {e \in Emails : letter[e].slot = s /\ letter[e].status \in InUse} \in SUBSET Emails
  OBVIOUS
<1>2. {e \in Emails : posted[e] = s} \in SUBSET Emails
  OBVIOUS
<1> QED
  BY <1>1, <1>2, EmailsFinite DEF UsageQueued, UsageSent

LEMMA QueuedSlotsAreFew ==
    LET S == {s \in Slots : UsageQueued(s) > 0}
    IN IsFiniteSet(S) /\ Cardinality(S) \in Nat /\ Cardinality(S) <= Cardinality(Emails)
<1> DEFINE S == {s \in Slots : UsageQueued(s) > 0}
<1> DEFINE at == [e \in Emails |-> letter[e].slot]
<1>1. ASSUME NEW s \in S PROVE \E e \in Emails : at[e] = s
  <2>1. Cardinality({e \in Emails : letter[e].slot = s /\ letter[e].status \in InUse}) # 0
    BY CountsAreNat DEF UsageQueued
  <2>2. {e \in Emails : letter[e].slot = s /\ letter[e].status \in InUse} # {}
    BY <2>1, FS_EmptySet
  <2> QED
    BY <2>2
<1>2. S \in SUBSET Slots
  OBVIOUS
<1> HIDE DEF S, at
<1>3. IsFiniteSet(S) /\ Cardinality(S) \in Nat /\ Cardinality(S) <= Cardinality(Emails)
  BY <1>1, <1>2, FewSlots
<1> QED
  BY <1>3 DEF S

LEMMA SentSlotsAreFew ==
    LET S == {s \in Slots : UsageSent(s) > 0}
    IN IsFiniteSet(S) /\ Cardinality(S) \in Nat /\ Cardinality(S) <= Cardinality(Emails)
<1> DEFINE S == {s \in Slots : UsageSent(s) > 0}
<1>1. ASSUME NEW s \in S PROVE \E e \in Emails : posted[e] = s
  <2>1. Cardinality({e \in Emails : posted[e] = s}) # 0
    BY CountsAreNat DEF UsageSent
  <2>2. {e \in Emails : posted[e] = s} # {}
    BY <2>1, FS_EmptySet
  <2> QED
    BY <2>2
<1>2. S \in SUBSET Slots
  OBVIOUS
<1> HIDE DEF S
<1>3. IsFiniteSet(S) /\ Cardinality(S) \in Nat /\ Cardinality(S) <= Cardinality(Emails)
  BY <1>1, <1>2, FewSlots
<1> QED
  BY <1>3 DEF S

\* Where few slots are in use there is a place for everybody.
LEMMA RoomForAll ==
    ASSUME NEW used \in [Slots -> Nat], NEW es \in SUBSET Emails,
           NEW A, IsFiniteSet(A), Cardinality(A) <= Cardinality(Emails),
           NEW B, IsFiniteSet(B), Cardinality(B) <= Cardinality(Emails),
           \A s \in Slots : used[s] > 0 => s \in A \cup B
    PROVE  Places(used, es)
<1> DEFINE empty == Slots \ (A \cup B)
<1> DEFINE first == [s \in empty |-> <<s, 1>>]
<1>1. /\ IsFiniteSet(Slots) /\ Cardinality(Slots) \in Nat
      /\ Cardinality(Slots) >= 3 * Cardinality(Emails)
  BY SlotsAssumption, FS_Product, FS_CardinalityType DEF Slots
<1>2. /\ IsFiniteSet(A \cup B) /\ Cardinality(A \cup B) \in Nat
      /\ Cardinality(A \cup B) <= Cardinality(A) + Cardinality(B)
  <2>1. A \cap B \in SUBSET A
    OBVIOUS
  <2>2. IsFiniteSet(A \cap B) /\ Cardinality(A \cap B) \in Nat
    BY <2>1, FS_Subset, FS_CardinalityType
  <2>3. /\ IsFiniteSet(A \cup B)
        /\ Cardinality(A \cup B) = Cardinality(A) + Cardinality(B) - Cardinality(A \cap B)
    BY FS_Union
  <2>4. Cardinality(A) \in Nat /\ Cardinality(B) \in Nat /\ Cardinality(A \cup B) \in Nat
    BY <2>3, FS_CardinalityType
  <2> QED
    BY <2>2, <2>3, <2>4
<1>3. Cardinality(Slots \cap (A \cup B)) \in Nat
        /\ Cardinality(Slots \cap (A \cup B)) <= Cardinality(A \cup B)
  <2>1. Slots \cap (A \cup B) \in SUBSET (A \cup B)
    OBVIOUS
  <2> QED
    BY <1>2, <2>1, FS_Subset, FS_CardinalityType
<1>4. /\ IsFiniteSet(empty) /\ Cardinality(empty) \in Nat
      /\ Cardinality(empty) = Cardinality(Slots) - Cardinality(Slots \cap (A \cup B))
  BY <1>1, FS_Difference, FS_CardinalityType
<1>5. Cardinality(Emails) \in Nat /\ Cardinality(A) \in Nat /\ Cardinality(B) \in Nat
  BY SlotsAssumption, FS_CardinalityType
<1>6. \A s \in empty : <<s, 1>> \in Free(used)
  <2>1. \A s \in empty : s \in Slots /\ used[s] = 0
    OBVIOUS
  <2> QED
    BY <2>1, SlotsAssumption DEF Free
<1> HIDE DEF empty
<1>7. Cardinality(empty) >= Cardinality(Emails)
  BY <1>1, <1>2, <1>3, <1>4, <1>5
<1>8. first \in [empty -> Free(used)] /\ \A s, t \in empty : first[s] = first[t] => s = t
  BY <1>6
<1> HIDE DEF first
<1>9. first \in Injection(empty, Free(used))
  BY <1>8 DEF Injection, IsInjective
<1>10. IsFiniteSet(Free(used)) /\ Cardinality(Free(used)) \in Nat
  BY FreeIsFinite
<1>11. Cardinality(empty) <= Cardinality(Free(used))
  BY <1>9, <1>10, FS_Injection
<1>12. Cardinality(es) \in Nat /\ Cardinality(es) <= Cardinality(Emails)
  BY EmailsFinite
<1> QED
  BY <1>4, <1>5, <1>7, <1>10, <1>11, <1>12 DEF Places

LEMMA ReadQueuedFine ==
    ASSUME SlotsInvariant, NEW p \in Planners, ReadQueued(p)
    PROVE  SlotsInvariant'
<1> DEFINE u == [s \in Slots |-> UsageQueued(s)]
<1>1. PICK o : o = planner[p]
  OBVIOUS
<1>2. PICK m : m = [o EXCEPT !.at = "counting", !.used = u]
  OBVIOUS
<1>3. planner' = [planner EXCEPT ![p] = m]
  <2>1. planner' = [planner EXCEPT ![p] = [@ EXCEPT !.at = "counting", !.used = u]]
    BY DEF ReadQueued, SlotsInvariant, PlannersFine
  <2> QED
    BY <1>1, <1>2, <2>1
<1>4. u \in [Slots -> Nat] /\ \A s \in Slots : u[s] = UsageQueued(s)
  BY CountsAreNat
<1>5. {s \in Slots : u[s] > 0} = {s \in Slots : UsageQueued(s) > 0}
  BY <1>4
<1>6. Cardinality({s \in Slots : u[s] > 0}) <= Cardinality(Emails)
  BY <1>5, QueuedSlotsAreFew
<1> HIDE DEF u
<1>7. o \in Planner /\ Orderly(o) /\ o.at = "reading"
  BY <1>1 DEF SlotsInvariant, PlannersFine, ReadQueued
<1>8. /\ m \in Planner /\ m.at = "counting" /\ m.used = u
      /\ m.call = o.call /\ m.saw = o.saw
  BY <1>2, <1>4, <1>7 DEF Planner
<1>9. Orderly(m)
  BY <1>6, <1>7, <1>8 DEF Orderly
<1>10. PlannersFine'
  BY <1>3, <1>8, <1>9, PlannerKept DEF SlotsInvariant
<1> QED
  BY <1>10 DEF ReadQueued, SlotsInvariant, LettersFine, PostedFine

-----------------------------------------------------------------------------
\* The whole of the usage a call has read, when it reads the second half
Read(p) == [s \in Slots |-> planner[p].used[s] + UsageSent(s)]

LEMMA ReadIsSmall ==
    ASSUME SlotsInvariant, NEW p \in Planners, planner[p].at = "counting",
           NEW left \in [Slots -> Nat], \A s \in Slots : left[s] <= Read(p)[s],
           NEW es \in SUBSET Emails
    PROVE  Places(left, es)
<1> DEFINE A == {s \in Slots : planner[p].used[s] > 0}
<1> DEFINE B == {s \in Slots : UsageSent(s) > 0}
<1>1. planner[p].used \in [Slots -> Nat]
  BY PlannerParts DEF SlotsInvariant, PlannersFine
<1>2. IsFiniteSet(A) /\ Cardinality(A) <= Cardinality(Emails)
  <2>1. IsFiniteSet(Slots) /\ A \in SUBSET Slots
    BY SlotsAssumption, FS_Product DEF Slots
  <2> QED
    BY <2>1, FS_Subset DEF SlotsInvariant, PlannersFine, Orderly
<1>3. IsFiniteSet(B) /\ Cardinality(B) <= Cardinality(Emails)
  BY SentSlotsAreFew
<1>4. \A s \in Slots : left[s] > 0 => s \in A \cup B
  BY <1>1, CountsAreNat DEF Read
<1> HIDE DEF A, B
<1> QED
  BY <1>2, <1>3, <1>4, RoomForAll

LEMMA ReadIsNat ==
    ASSUME SlotsInvariant, NEW p \in Planners
    PROVE  Read(p) \in [Slots -> Nat]
BY PlannerParts, CountsAreNat DEF SlotsInvariant, PlannersFine, Read

LEMMA ReleasedIsLess ==
    ASSUME NEW used \in [Slots -> Nat], NEW saw, DOMAIN saw \in SUBSET Emails
    PROVE  /\ Released(used, saw) \in [Slots -> Nat]
           /\ \A s \in Slots : Released(used, saw)[s] <= used[s]
<1> DEFINE own(s) == Cardinality({e \in DOMAIN saw : saw[e].slot = s /\ saw[e].status \in InUse})
<1>1. ASSUME NEW s \in Slots PROVE own(s) \in Nat
  <2>1. {e \in DOMAIN saw : saw[e].slot = s /\ saw[e].status \in InUse} \in SUBSET Emails
    OBVIOUS
  <2> QED
    BY <2>1, EmailsFinite
<1>2. Released(used, saw) =
        [s \in Slots |-> IF used[s] > own(s) THEN used[s] - own(s) ELSE 0]
  BY DEF Released
<1> HIDE DEF own
<1> QED
  BY <1>1, <1>2

\* Rows that are not in use give nothing back.
LEMMA NothingReleased ==
    ASSUME NEW used \in [Slots -> Nat], NEW saw,
           \A e \in DOMAIN saw : saw[e].status \notin InUse
    PROVE  Released(used, saw) = used
<1>1. \A s \in Slots : {e \in DOMAIN saw : saw[e].slot = s /\ saw[e].status \in InUse} = {}
  OBVIOUS
<1>2. \A s \in Slots :
        Cardinality({e \in DOMAIN saw : saw[e].slot = s /\ saw[e].status \in InUse}) = 0
  BY <1>1, FS_EmptySet
<1>3. Released(used, saw) = [s \in Slots |-> IF used[s] > 0 THEN used[s] - 0 ELSE 0]
  BY <1>2 DEF Released
<1>4. \A s \in Slots : (IF used[s] > 0 THEN used[s] - 0 ELSE 0) = used[s]
  OBVIOUS
<1> QED
  BY <1>3, <1>4

\* What a call of the waterfall has left over, and where it puts its rows
Left(p)  == Released(Read(p), planner[p].saw)
Goals(p) == Waterfall(Left(p), DOMAIN planner[p].saw)

LEMMA GoalsAreSlots ==
    ASSUME SlotsInvariant, NEW p \in Planners, planner[p].at = "counting"
    PROVE  /\ DOMAIN planner[p].saw \in SUBSET Emails /\ DOMAIN planner[p].saw # {}
           /\ Left(p) \in [Slots -> Nat]
           /\ Places(Left(p), DOMAIN planner[p].saw)
           /\ Goals(p) \in [DOMAIN planner[p].saw -> Slots]
<1>1. DOMAIN planner[p].saw \in SUBSET Emails /\ DOMAIN planner[p].saw # {}
  BY PlannerParts DEF SlotsInvariant, PlannersFine, Orderly
<1>2. /\ Left(p) \in [Slots -> Nat]
      /\ \A s \in Slots : Left(p)[s] <= Read(p)[s]
  BY <1>1, ReadIsNat, ReleasedIsLess DEF Left
<1>3. Places(Left(p), DOMAIN planner[p].saw)
  BY <1>1, <1>2, ReadIsSmall
<1> QED
  BY <1>1, <1>2, <1>3, WaterfallFits DEF Goals

\* A call that is about to write a plan
Writing(call, plan) ==
    [Unoccupied EXCEPT !.call = call, !.at = "writing", !.plan = plan]

LEMMA WritingIsFine ==
    ASSUME NEW call \in Calls, NEW es \in SUBSET Emails, es # {}, NEW plan \in [es -> Slots]
    PROVE  /\ Writing(call, plan) \in Planner /\ Orderly(Writing(call, plan))
           /\ Writing(call, plan).at = "writing" /\ Writing(call, plan).plan = plan
<1>1. PICK m : m = Writing(call, plan)
  OBVIOUS
<1>2. m = [call |-> call, at |-> "writing", saw |-> Nothing, used |-> NoneUsed, plan |-> plan]
  BY <1>1, UnoccupiedIsFine DEF Writing
<1>3. plan \in UNION {[ds -> Slots] : ds \in SUBSET Emails}
  BY PartialFunctions
<1>4. m \in Planner
  BY <1>2, <1>3, UnoccupiedIsFine DEF Planner
<1>5. Orderly(m)
  BY <1>2 DEF Orderly
<1> QED
  BY <1>1, <1>2, <1>4, <1>5

\* Reading the sent half ends in one of three ways: there is nothing to write,
\* a waterfall's plan, or the day to move to.
Decides(p) ==
    \/ planner' = [planner EXCEPT ![p] = Unoccupied]
    \/ /\ planner[p].call # "move"
       /\ \E moved \in (SUBSET DOMAIN planner[p].saw) \ {{}} :
            /\ planner' = [planner EXCEPT ![p] =
                             Writing(planner[p].call, [e \in moved |-> Goals(p)[e]])]
            /\ \A e \in DOMAIN planner[p].saw \ moved : Goals(p)[e] = planner[p].saw[e].slot
    \/ /\ planner[p].call = "move"
       /\ \E day \in Days :
            planner' = [planner EXCEPT ![p] =
              Writing("move", [e \in DOMAIN planner[p].saw |-> <<planner[p].saw[e].slot[1], day>>])]

LEMMA ReadSentDecides ==
    ASSUME SlotsInvariant, NEW p \in Planners, ReadSent(p)
    PROVE  Decides(p)
<1> DEFINE me == planner[p]
<1> DEFINE es == DOMAIN me.saw
<1>2. es \in SUBSET Emails /\ es # {} /\ Goals(p) \in [es -> Slots] /\ me.at = "counting"
  BY GoalsAreSlots DEF ReadSent
<1>3. CASE me.call \in {"enqueue", "retry"} /\
           planner' = [planner EXCEPT ![p] =
               [Unoccupied EXCEPT !.call = me.call, !.at = "writing",
                                  !.plan = Waterfall(Read(p), es)]]
  <2>1. me.call # "move"
    BY <1>3
  <2>2. \A e \in es : me.saw[e].status \notin InUse
    BY <1>2, <1>3 DEF SlotsInvariant, PlannersFine, Orderly, Loads, InUse
  <2>3. Left(p) = Read(p)
    BY <2>2, ReadIsNat, NothingReleased DEF Left
  <2>4. Waterfall(Read(p), es) = Goals(p)
    BY <2>3 DEF Goals
  <2>5. Goals(p) = [e \in es |-> Goals(p)[e]]
    BY <1>2
  <2>6. planner' = [planner EXCEPT ![p] = Writing(me.call, [e \in es |-> Goals(p)[e]])]
    BY <1>3, <2>4, <2>5 DEF Writing
  <2>7. es \in (SUBSET es) \ {{}}
    BY <1>2
  <2> QED
    BY <2>1, <2>6, <2>7 DEF Decides
<1>4. CASE /\ me.call \in {"sendNow", "rebalance"}
           /\ LET plan  == Waterfall(Released(Read(p), me.saw), es)
                  moved == {e \in es : plan[e] # me.saw[e].slot}
              IN planner' = [planner EXCEPT ![p] =
                   IF moved = {} THEN Unoccupied
                   ELSE [Unoccupied EXCEPT !.call = me.call, !.at = "writing",
                                           !.plan = [e \in moved |-> plan[e]]]]
  <2> DEFINE moved == {e \in es : Goals(p)[e] # me.saw[e].slot}
  <2>1. Waterfall(Released(Read(p), me.saw), es) = Goals(p)
    BY DEF Goals, Left
  <2>2. planner' = [planner EXCEPT ![p] =
          IF moved = {} THEN Unoccupied
          ELSE Writing(me.call, [e \in moved |-> Goals(p)[e]])]
    BY <1>4, <2>1 DEF Writing
  <2>3. me.call # "move"
    BY <1>4
  <2>4. \A e \in es \ moved : Goals(p)[e] = me.saw[e].slot
    OBVIOUS
  <2>5. moved \in SUBSET es
    OBVIOUS
  <2> HIDE DEF moved
  <2>6. CASE moved = {}
    BY <2>2, <2>6 DEF Decides
  <2>7. CASE moved # {}
    <3>1. moved \in (SUBSET es) \ {{}}
      BY <2>5, <2>7
    <3>2. planner' = [planner EXCEPT ![p] = Writing(me.call, [e \in moved |-> Goals(p)[e]])]
      BY <2>2, <2>7
    <3> QED
      BY <2>3, <2>4, <3>1, <3>2 DEF Decides
  <2> QED
    BY <2>6, <2>7
<1>5. CASE /\ me.call = "move"
           /\ \E day \in Days :
                \/ planner' = [planner EXCEPT ![p] = Unoccupied]
                \/ planner' = [planner EXCEPT ![p] =
                     [Unoccupied EXCEPT !.call = "move", !.at = "writing",
                        !.plan = [e \in es |-> <<me.saw[e].slot[1], day>>]]]
  BY <1>5 DEF Decides, Writing
<1>6. \/ me.call = "move" /\ \E day \in Days :
           LET to(e)    == <<me.saw[e].slot[1], day>>
               added(s) == {e \in es : to(e) = s /\ me.saw[e].slot # s}
           IN planner' = [planner EXCEPT ![p] =
                IF \E s \in Slots : added(s) # {} /\ Read(p)[s] + Cardinality(added(s)) > Cap
                THEN Unoccupied
                ELSE [Unoccupied EXCEPT !.call = "move", !.at = "writing",
                                        !.plan = [e \in es |-> to(e)]]]
      \/ me.call \in {"enqueue", "retry"} /\
           planner' = [planner EXCEPT ![p] =
               [Unoccupied EXCEPT !.call = me.call, !.at = "writing",
                                  !.plan = Waterfall(Read(p), es)]]
      \/ /\ me.call \in {"sendNow", "rebalance"}
         /\ LET plan  == Waterfall(Released(Read(p), me.saw), es)
                moved == {e \in es : plan[e] # me.saw[e].slot}
            IN planner' = [planner EXCEPT ![p] =
                 IF moved = {} THEN Unoccupied
                 ELSE [Unoccupied EXCEPT !.call = me.call, !.at = "writing",
                                         !.plan = [e \in moved |-> plan[e]]]]
  BY DEF ReadSent, Read
<1> QED
  BY <1>3, <1>4, <1>5, <1>6

LEMMA ReadSentFine ==
    ASSUME SlotsInvariant, NEW p \in Planners, ReadSent(p)
    PROVE  SlotsInvariant'
<1> DEFINE me == planner[p]
<1> DEFINE es == DOMAIN me.saw
<1>1. /\ es \in SUBSET Emails /\ es # {} /\ Goals(p) \in [es -> Slots]
      /\ me.at = "counting" /\ me.call \in Calls /\ me.saw \in [es -> Letter]
  BY GoalsAreSlots, PlannerParts DEF ReadSent, SlotsInvariant, PlannersFine, Orderly
<1>2. PlannersFine
  BY DEF SlotsInvariant
<1>3. CASE planner' = [planner EXCEPT ![p] = Unoccupied]
  BY <1>2, <1>3, StopsFine DEF ReadSent, SlotsInvariant, LettersFine, PostedFine
<1>4. ASSUME NEW moved \in (SUBSET es) \ {{}},
             planner' = [planner EXCEPT ![p] = Writing(me.call, [e \in moved |-> Goals(p)[e]])]
      PROVE  PlannersFine'
  <2>1. moved \in SUBSET Emails /\ moved # {} /\ [e \in moved |-> Goals(p)[e]] \in [moved -> Slots]
    BY <1>1
  <2> QED
    BY <1>1, <1>2, <1>4, <2>1, WritingIsFine, PlannerKept
<1>5. ASSUME me.call = "move", NEW day \in Days,
             planner' = [planner EXCEPT ![p] =
               Writing("move", [e \in es |-> <<me.saw[e].slot[1], day>>])]
      PROVE  PlannersFine'
  <2>1. \A e \in es : me.saw[e].slot \in Slots
    BY <1>1, <1>5 DEF SlotsInvariant, PlannersFine, Orderly, Loads, Placed
  <2>2. \A e \in es : <<me.saw[e].slot[1], day>> \in Slots
    BY <2>1 DEF Slots
  <2>3. [e \in es |-> <<me.saw[e].slot[1], day>>] \in [es -> Slots]
    BY <2>2
  <2>4. "move" \in Calls
    BY DEF Calls
  <2> DEFINE m == Writing("move", [e \in es |-> <<me.saw[e].slot[1], day>>])
  <2>5. m \in Planner /\ Orderly(m)
    BY <1>1, <2>3, <2>4, WritingIsFine
  <2>6. planner' = [planner EXCEPT ![p] = m]
    BY <1>5
  <2> HIDE DEF m
  <2> QED
    BY <1>2, <2>5, <2>6, PlannerKept
<1>6. Decides(p)
  BY ReadSentDecides
<1>7. PlannersFine'
  <2>1. CASE planner' = [planner EXCEPT ![p] = Unoccupied]
    BY <1>2, <2>1, StopsFine
  <2> QED
    BY <1>4, <1>5, <1>6, <2>1 DEF Decides
<1> QED
  BY <1>7 DEF ReadSent, SlotsInvariant, LettersFine, PostedFine

-----------------------------------------------------------------------------
\* A row that has a slot after the step, whatever it was
LEMMA LetterKept ==
    ASSUME LettersFine, NEW e \in Emails, NEW l \in Letter, Placed(l),
           letter' = [letter EXCEPT ![e] = l]
    PROVE  LettersFine'
<1>1. letter' \in [Emails -> Letter]
  BY DEF LettersFine
<1>2. \A d \in Emails : letter'[d] = IF d = e THEN l ELSE letter[d]
  BY DEF LettersFine
<1>3. \A d \in Emails : Placed(letter'[d])
  BY <1>2 DEF LettersFine
<1> QED
  BY <1>1, <1>3 DEF LettersFine

\* A planner that is writing has a next row, and a slot for it.
LEMMA NextRowIsThere ==
    ASSUME SlotsInvariant, NEW p \in Planners, planner[p].at = "writing"
    PROVE  /\ DOMAIN planner[p].plan \in SUBSET Emails
           /\ planner[p].plan \in [DOMAIN planner[p].plan -> Slots]
           /\ NextRow(p) \in DOMAIN planner[p].plan
           /\ NextRow(p) \in Emails /\ planner[p].plan[NextRow(p)] \in Slots
<1>1. planner[p] \in Planner /\ DOMAIN planner[p].plan # {}
  BY DEF SlotsInvariant, PlannersFine, Orderly
<1>2. /\ DOMAIN planner[p].plan \in SUBSET Emails
      /\ planner[p].plan \in [DOMAIN planner[p].plan -> Slots]
  BY <1>1, PlannerParts
<1>3. NextRow(p) \in DOMAIN planner[p].plan
  BY <1>1, <1>2, OldestIsThere DEF NextRow
<1> QED
  BY <1>2, <1>3

LEMMA WrittenFine ==
    ASSUME SlotsInvariant, NEW p \in Planners, planner[p].at = "writing", Written(p)
    PROVE  PlannersFine'
<1> DEFINE left == DOMAIN planner[p].plan \ {NextRow(p)}
<1>1. PICK o : o = planner[p]
  OBVIOUS
<1>2. PICK m : m = [o EXCEPT !.plan = [e \in left |-> o.plan[e]]]
  OBVIOUS
<1>3. PlannersFine /\ o \in Planner /\ o.at = "writing"
  BY <1>1 DEF SlotsInvariant, PlannersFine
<1>4. planner' = [planner EXCEPT ![p] = IF left = {} THEN Unoccupied ELSE m]
  <2>1. planner' = [planner EXCEPT ![p] =
          IF left = {} THEN Unoccupied
          ELSE [planner[p] EXCEPT !.plan = [e \in left |-> planner[p].plan[e]]]]
    BY DEF Written, SlotsInvariant, PlannersFine
  <2> QED
    BY <1>1, <1>2, <2>1
<1>5. left \in SUBSET Emails /\ [e \in left |-> o.plan[e]] \in [left -> Slots]
  BY <1>1, NextRowIsThere
<1>6. [e \in left |-> o.plan[e]] \in UNION {[es -> Slots] : es \in SUBSET Emails}
  BY <1>5, PartialFunctions
<1>7. m \in Planner /\ m.at = "writing" /\ DOMAIN m.plan = left
  BY <1>2, <1>3, <1>6 DEF Planner
<1> HIDE DEF left
<1>8. CASE left = {}
  BY <1>3, <1>4, <1>8, StopsFine
<1>9. CASE left # {}
  <2>1. Orderly(m)
    BY <1>7, <1>9 DEF Orderly
  <2> QED
    BY <1>3, <1>4, <1>7, <1>9, <2>1, PlannerKept
<1> QED
  BY <1>8, <1>9

LEMMA InsertRowFine ==
    ASSUME SlotsInvariant, NEW p \in Planners, InsertRow(p)
    PROVE  SlotsInvariant'
<1>1. planner[p].at = "writing"
  BY DEF InsertRow
<1>2. NextRow(p) \in Emails /\ planner[p].plan[NextRow(p)] \in Slots
  BY <1>1, NextRowIsThere
<1>3. PostedFine' /\ calls' \in 0..MaxCalls /\ PlannersFine /\ LettersFine
  BY DEF InsertRow, SlotsInvariant, PostedFine
<1>4. CASE letter[NextRow(p)].status = "absent"
  <2> DEFINE l == [status |-> "queued", slot |-> planner[p].plan[NextRow(p)]]
  <2>1. letter' = [letter EXCEPT ![NextRow(p)] = l] /\ Written(p)
    BY <1>4 DEF InsertRow
  <2>2. l \in Letter /\ Placed(l)
    BY <1>2 DEF Letter, LetterStatus, Placed
  <2> HIDE DEF l
  <2>3. LettersFine'
    BY <1>2, <1>3, <2>1, <2>2, LetterKept
  <2>4. PlannersFine'
    BY <1>1, <2>1, WrittenFine
  <2> QED
    BY <1>3, <2>3, <2>4 DEF SlotsInvariant
<1>5. CASE letter[NextRow(p)].status # "absent"
  <2>1. planner' = [planner EXCEPT ![p] = Unoccupied] /\ UNCHANGED letter
    BY <1>5 DEF InsertRow
  <2>2. PlannersFine'
    BY <1>3, <2>1, StopsFine
  <2> QED
    BY <1>3, <2>1, <2>2 DEF SlotsInvariant, LettersFine
<1> QED
  BY <1>4, <1>5

LEMMA UpdateRowFine ==
    ASSUME SlotsInvariant, NEW p \in Planners, UpdateRow(p)
    PROVE  SlotsInvariant'
<1>1. planner[p].at = "writing"
  BY DEF UpdateRow
<1>2. NextRow(p) \in Emails /\ planner[p].plan[NextRow(p)] \in Slots
  BY <1>1, NextRowIsThere
<1>3. PostedFine' /\ calls' \in 0..MaxCalls /\ LettersFine
  BY DEF UpdateRow, SlotsInvariant, PostedFine
<1>4. PICK e : e = NextRow(p)
  OBVIOUS
<1>5. PICK st : st = IF planner[p].call \in {"sendNow", "rebalance"}
                     THEN letter[e].status ELSE "queued"
  OBVIOUS
<1> DEFINE l == [status |-> st, slot |-> planner[p].plan[e]]
<1>6. letter' = [letter EXCEPT ![e] = l]
  BY <1>2, <1>3, <1>4, <1>5 DEF UpdateRow, LettersFine
<1>7. letter[e] \in Letter
  BY <1>2, <1>3, <1>4 DEF LettersFine
<1>8. st \in LetterStatus
  BY <1>5, <1>7 DEF Letter, LetterStatus
<1>9. l \in Letter /\ Placed(l)
  BY <1>2, <1>4, <1>8 DEF Letter, Placed
<1> HIDE DEF l
<1>10. LettersFine'
  BY <1>2, <1>3, <1>4, <1>6, <1>9, LetterKept
<1>11. PlannersFine'
  BY <1>1, WrittenFine DEF UpdateRow
<1> QED
  BY <1>3, <1>10, <1>11 DEF SlotsInvariant

LEMMA PlannerDiesFine ==
    ASSUME SlotsInvariant, NEW p \in Planners, PlannerDies(p)
    PROVE  SlotsInvariant'
<1>1. calls' \in 0..MaxCalls
  BY SlotsAssumption DEF PlannerDies, SlotsInvariant
<1>2. PlannersFine'
  BY StopsFine DEF PlannerDies, SlotsInvariant
<1> QED
  BY <1>1, <1>2 DEF PlannerDies, SlotsInvariant, LettersFine, PostedFine

LEMMA DeliveryFine ==
    ASSUME SlotsInvariant, NEW e \in Emails, NEW from \in LetterStatus, from # "absent",
           NEW to \in LetterStatus, Delivery(e, from, to)
    PROVE  LettersFine' /\ PlannersFine' /\ letter[e].slot \in Slots
<1>1. PICK l : l = [letter[e] EXCEPT !.status = to]
  OBVIOUS
<1>2. letter[e] \in Letter /\ letter[e].slot \in Slots
  BY DEF SlotsInvariant, LettersFine, Delivery, Placed
<1>3. l \in Letter /\ Placed(l)
  BY <1>1, <1>2 DEF Letter, Placed
<1>4. letter' = [letter EXCEPT ![e] = l]
  BY <1>1 DEF Delivery, SlotsInvariant, LettersFine
<1>5. LettersFine'
  BY <1>3, <1>4, LetterKept DEF SlotsInvariant
<1> QED
  BY <1>2, <1>5 DEF SlotsInvariant, PlannersFine, Delivery

LEMMA DeliveriesFine ==
    ASSUME SlotsInvariant, NEW e \in Emails, Taken(e) \/ Gone(e) \/ NotGone(e)
    PROVE  SlotsInvariant'
<1>1. {"queued", "sending", "sent", "failed"} \subseteq LetterStatus
  BY DEF LetterStatus
<1>2. CASE Taken(e)
  BY <1>1, <1>2, DeliveryFine DEF Taken, SlotsInvariant, PostedFine
<1>3. CASE Gone(e)
  <2>1. LettersFine' /\ PlannersFine' /\ letter[e].slot \in Slots
    BY <1>1, <1>3, DeliveryFine DEF Gone
  <2>2. <<letter[e].slot[1], 1>> \in Slots
    BY <2>1, SlotsAssumption DEF Slots
  <2>3. PostedFine'
    BY <1>3, <2>2 DEF Gone, SlotsInvariant, PostedFine
  <2> QED
    BY <1>3, <2>1, <2>3 DEF Gone, SlotsInvariant
<1>4. CASE NotGone(e)
  <2>1. Delivery(e, "sending", "queued") \/ Delivery(e, "sending", "failed")
    BY <1>4 DEF NotGone
  <2>2. LettersFine' /\ PlannersFine'
    BY <1>1, <2>1, DeliveryFine
  <2>3. calls' \in 0..MaxCalls /\ PostedFine'
    BY <1>4, SlotsAssumption DEF NotGone, SlotsInvariant, PostedFine
  <2> QED
    BY <2>2, <2>3 DEF SlotsInvariant
<1> QED
  BY <1>2, <1>3, <1>4

-----------------------------------------------------------------------------
LEMMA SlotsStart == SlotsInit => SlotsInvariant
<1> SUFFICES ASSUME SlotsInit PROVE SlotsInvariant
  OBVIOUS
<1>1. <<1, 1>> \in Slots
  BY SlotsAssumption DEF Slots
<1>2. LettersFine
  <2>1. \A e \in Emails : letter[e] \in Letter /\ Placed(letter[e])
    BY <1>1 DEF SlotsInit, Letter, LetterStatus, Placed
  <2>2. letter = [e \in Emails |-> letter[e]]
    BY DEF SlotsInit
  <2> QED
    BY <2>1, <2>2 DEF LettersFine
<1>3. PostedFine
  BY DEF SlotsInit, PostedFine
<1>4. PlannersFine
  BY UnoccupiedIsFine DEF SlotsInit, PlannersFine
<1>5. calls \in 0..MaxCalls
  BY SlotsAssumption DEF SlotsInit
<1> QED
  BY <1>2, <1>3, <1>4, <1>5 DEF SlotsInvariant

LEMMA SlotsInvariantHolds == SlotsSpec => []SlotsInvariant
<1>1. ASSUME SlotsInvariant, SlotsNext PROVE SlotsInvariant'
  <2>1. ASSUME NEW p \in Planners, Call(p) \/ RebalanceStarts(p) \/ Plans(p) \/ PlannerDies(p)
        PROVE  SlotsInvariant'
    BY <1>1, <2>1, CallFine, RebalanceFine, ReadQueuedFine, ReadSentFine, InsertRowFine,
       UpdateRowFine, PlannerDiesFine DEF Plans
  <2>2. ASSUME NEW e \in Emails, Taken(e) \/ Gone(e) \/ NotGone(e)
        PROVE  SlotsInvariant'
    BY <1>1, <2>2, DeliveriesFine
  <2> QED
    BY <1>1, <2>1, <2>2 DEF SlotsNext
<1>2. SlotsInvariant /\ UNCHANGED slotVars => SlotsInvariant'
  BY DEF slotVars, SlotsInvariant, LettersFine, PostedFine, PlannersFine
<1> QED
  BY <1>1, <1>2, SlotsStart, PTL DEF SlotsSpec

\* Rows, emails and planners keep their types (the rows of email_send_queue and
\* email_sends, and the calls of send-queue.ts that place them).
THEOREM SlotTypesCorrect == SlotsSpec => []SlotsTypeOK
<1>1. SlotsInvariant => SlotsTypeOK
  BY DEF SlotsInvariant, SlotsTypeOK, LettersFine, PostedFine, PlannersFine
<1> QED
  BY <1>1, SlotsInvariantHolds, PTL

\* Only its own reading takes a planner from counting to writing.
LEMMA OnlyReadingDecides ==
    ASSUME SlotsInvariant, SlotsNext, NEW p \in Planners,
           planner[p].at = "counting", planner'[p].at = "writing"
    PROVE  ReadSent(p)
<1>1. planner \in [Planners -> Planner] /\ planner'[p] # planner[p]
  BY DEF SlotsInvariant, PlannersFine
<1>2. ASSUME NEW q \in Planners, NEW m, planner' = [planner EXCEPT ![q] = m]
      PROVE  q = p
  BY <1>1, <1>2
<1>3. ASSUME NEW q \in Planners, Call(q) \/ RebalanceStarts(q) PROVE FALSE
  <2>1. planner[q].at = "idle" /\ \E m : planner' = [planner EXCEPT ![q] = m]
    BY <1>3 DEF Call, RebalanceStarts, StartsCall
  <2> QED
    BY <1>2, <2>1
<1>4. ASSUME NEW q \in Planners, ReadQueued(q) PROVE FALSE
  <2>1. planner[q].at = "reading"
    BY <1>4 DEF ReadQueued
  <2>2. q # p
    BY <2>1
  <2>3. planner'[p] = planner[p]
    BY <1>1, <1>4, <2>2 DEF ReadQueued
  <2> QED
    BY <1>1, <2>3
<1>5. ASSUME NEW q \in Planners, InsertRow(q) \/ UpdateRow(q) PROVE FALSE
  <2>1. planner[q].at = "writing" /\ \E m : planner' = [planner EXCEPT ![q] = m]
    BY <1>5 DEF InsertRow, UpdateRow, Written
  <2> QED
    BY <1>2, <2>1
<1>6. ASSUME NEW q \in Planners, PlannerDies(q) PROVE FALSE
  <2>1. planner' = [planner EXCEPT ![q] = Unoccupied]
    BY <1>6 DEF PlannerDies
  <2>2. q = p
    BY <1>2, <2>1
  <2>3. planner'[p] = Unoccupied
    BY <1>1, <2>1, <2>2
  <2> QED
    BY <2>3, UnoccupiedIsFine
<1>7. ASSUME NEW q \in Planners, ReadSent(q) PROVE q = p
  <2>1. Decides(q)
    BY <1>7, ReadSentDecides
  <2>2. \E m : planner' = [planner EXCEPT ![q] = m]
    BY <2>1 DEF Decides
  <2> QED
    BY <1>2, <2>2
<1>8. ASSUME NEW e \in Emails, Taken(e) \/ Gone(e) \/ NotGone(e) PROVE FALSE
  BY <1>1, <1>8 DEF Taken, Gone, NotGone, Delivery
<1> QED
  BY <1>3, <1>4, <1>5, <1>6, <1>7, <1>8 DEF SlotsNext, Plans

\* By what it has read, a call of the waterfall fills no inbox beyond its cap on
\* a day, none while one before it has room, and sends older emails first
\* (allocateInboxSlots with releaseRowsFromUsage).
THEOREM PlansAreInOrder == SlotsSpec => PlansFillInOrder
<1>1. ASSUME SlotsInvariant, SlotsNext, NEW p \in Planners
      PROVE  FillsInOrder(p)
  <2> DEFINE me      == planner[p]
             es      == DOMAIN me.saw
             plan    == planner'[p].plan
             goal(e) == IF e \in DOMAIN plan THEN plan[e] ELSE me.saw[e].slot
  <2> SUFFICES ASSUME me.at = "counting", planner'[p].at = "writing", me.call # "move",
                      NEW e \in es
               PROVE  /\ Left(p)[goal(e)] + Cardinality({d \in es : goal(d) = goal(e)}) <= Cap
                      /\ \A s \in Slots : Before(s, goal(e)) =>
                            Left(p)[s] + Cardinality({d \in es : goal(d) = s}) >= Cap
                      /\ \A d \in es : d < e => ~Before(goal(e), goal(d))
    BY DEF FillsInOrder, Left, Read
  <2>1. ReadSent(p)
    BY <1>1, OnlyReadingDecides
  <2>2. Decides(p)
    BY <1>1, <2>1, ReadSentDecides
  <2>3. planner' # [planner EXCEPT ![p] = Unoccupied]
    BY <1>1, UnoccupiedIsFine DEF SlotsInvariant, PlannersFine
  <2>4. PICK moved \in (SUBSET es) \ {{}} :
          /\ planner' = [planner EXCEPT ![p] = Writing(me.call, [d \in moved |-> Goals(p)[d]])]
          /\ \A d \in es \ moved : Goals(p)[d] = me.saw[d].slot
    BY <2>2, <2>3 DEF Decides
  <2>5. /\ es \in SUBSET Emails /\ es # {} /\ me.call \in Calls
        /\ Left(p) \in [Slots -> Nat] /\ Places(Left(p), es) /\ Goals(p) \in [es -> Slots]
    BY <1>1, GoalsAreSlots DEF SlotsInvariant, PlannersFine, Orderly
  <2>6. plan = [d \in moved |-> Goals(p)[d]]
    <3>1. moved \in SUBSET Emails /\ moved # {} /\ [d \in moved |-> Goals(p)[d]] \in [moved -> Slots]
      BY <2>5
    <3>2. planner'[p] = Writing(me.call, [d \in moved |-> Goals(p)[d]])
      BY <1>1, <2>4 DEF SlotsInvariant, PlannersFine
    <3> QED
      BY <2>5, <3>1, <3>2, WritingIsFine
  <2>7. \A d \in es : goal(d) = Goals(p)[d]
    BY <2>4, <2>6
  <2>8. \A s : {d \in es : goal(d) = s} = GivenTo(s, Goals(p))
    BY <2>5, <2>7 DEF GivenTo
  <2>9. goal(e) = Goals(p)[e] /\ Goals(p)[e] \in Slots
    BY <2>5, <2>7
  <2>10. Left(p)[Goals(p)[e]] + Cardinality(GivenTo(Goals(p)[e], Goals(p))) <= Cap
    BY <2>5, WaterfallFits DEF Goals
  <2>11. \A s \in Slots : Before(s, Goals(p)[e]) =>
            Left(p)[s] + Cardinality(GivenTo(s, Goals(p))) >= Cap
    BY <2>5, WaterfallFillsInOrder DEF Goals
  <2>12. \A d \in es : d < e => ~Before(Goals(p)[e], Goals(p)[d])
    BY <2>5, WaterfallKeepsOrder DEF Goals
  <2> HIDE DEF goal, es
  <2> QED
    BY <2>7, <2>8, <2>9, <2>10, <2>11, <2>12
<1>2. ASSUME UNCHANGED slotVars, NEW p \in Planners PROVE FillsInOrder(p)
  BY <1>2 DEF slotVars, FillsInOrder
<1>3. SlotsInvariant /\ [SlotsNext]_slotVars => \A p \in Planners : FillsInOrder(p)
  BY <1>1, <1>2
<1> QED
  BY <1>3, SlotsInvariantHolds, PTL DEF SlotsSpec, PlansFillInOrder

=============================================================================
