----------------------- MODULE LoLaLinkSurvival_proof -----------------------
(***************************************************************************)
(* Theorems of LoLaLinkKeeping on what an outage costs: not the link, and  *)
(* the knowledge of the partner for a while only.                          *)
(*                                                                         *)
(* Between two outages both ends report in every update period and what is *)
(* reported is heard in the unit it is sent in, so that at the end of a    *)
(* long enough calm neither end has been silent for longer than a period.  *)
(* The outage adds its own length. Once it is over the end that misses its *)
(* partner reports, and asks to be reported to, in the same unit.          *)
(***************************************************************************)
EXTENDS LoLaLinkKeeping_proof

\* What the code's periods, and the outages, must be for the properties to hold.
\* A report of an end that misses its partner asks for a reply only if what it
\* knows of the partner is stale, so that it must be stale by then. The calm has
\* room for a report of each end. After it, and the outage, a unit is left before
\* the link is given up.
Survivable ==
  /\ InfoStale = Intervention
  /\ InfoUpdate + 2 <= MinCalm
  /\ InfoUpdate + 2 + MaxOutage <= Disconnect

----------------------------------------------------------------------------
(* The inductive invariant *)

\* The unit so far was without an outage.
Calm == ~Lost /\ calm >= 1

Reporting(e) == e.status = "WaitingForSentOk" /\ IsReport(e.out)

\* An end has sent a report in this unit, which nothing but an outage can lose.
Reported(e) == Reporting(e) \/ e.sinceReport = 0

JustInformed(e) == e.sinceReceived = 0 /\ e.sincePartnerReport = 0

\* What is reported in a calm unit is on the air or has been heard.
ReportIsHeard(n) ==
  Calm /\ Reported(end[n]) => IsReport(air[n]) \/ JustInformed(end[Other(n)])

\* Who has heard nothing has had no report either.
SilentIsStale(e) ==
  e.sincePartnerReport >= e.sinceReceived \/ e.sincePartnerReport > InfoStale

\* The report of an end that misses its partner asks for one.
AsksIfSilent(e) ==
  e.status = "Sending" /\ IsReport(e.out) /\ Intervenes(e) => e.out = "ReportWithReply"

\* An end that has reported in a calm unit and still misses its partner is about
\* to be answered, or to hear something.
IsAnswered(n) ==
  Calm /\ Intervenes(end[n]) /\ Reported(end[n])
    => \/ air[n] = "ReportWithReply" \/ end[Other(n)].reportPending
       \/ air[Other(n)] # None

\* What an end has heard of its partner is no older than the partner's last
\* report, unless that one was before the calm.
HeardSinceReport(n) ==
  LET p == end[Other(n)].sinceReport
  IN  ~Lost /\ p > 0
        => \/ p >= calm
           \/ end[n].sinceReceived <= p /\ end[n].sincePartnerReport <= p

\* After a calm of an update period and a unit no end is silent for longer.
HeardInCalm(e) ==
  ~Lost /\ calm >= InfoUpdate + 2
    => e.sinceReceived <= InfoUpdate + 1 /\ e.sincePartnerReport <= InfoUpdate + 1

\* What an outage has added to that, before and after its end.
HeardInOutage(e) ==
  Lost => /\ e.sinceReceived <= InfoUpdate + 1 + outage
          /\ e.sincePartnerReport <= InfoUpdate + 1 + outage

HeardAfterOutage(e) ==
  /\ ~Lost /\ calm = 0 => e.sinceReceived <= InfoUpdate + 1 + MaxOutage
  /\ ~Lost /\ calm <= InfoUpdate + 1 /\ HasReport(e)
       => e.sincePartnerReport <= InfoUpdate + 1 + MaxOutage + calm
  /\ e.sinceReceived <= Disconnect

EndSurvives(n) ==
  /\ end[n].linked
  /\ ReportIsHeard(n) /\ IsAnswered(n) /\ HeardSinceReport(n)
  /\ SilentIsStale(end[n]) /\ AsksIfSilent(end[n])
  /\ HeardInCalm(end[n]) /\ HeardInOutage(end[n]) /\ HeardAfterOutage(end[n])

SurvivalInv == KeepingInv /\ \A n \in Ends : EndSurvives(n)

----------------------------------------------------------------------------
(* The operators on an end *)

LEMMA TwoEnds ==
  ASSUME NEW n \in Ends
  PROVE  /\ Other(n) \in Ends /\ Other(n) # n /\ Other(Other(n)) = n
         /\ \A k \in Ends : k = n \/ k = Other(n)
BY DEF Ends, Other, Host, Remote

\* What is not on the air is no report.
LEMMA NoneIsNoReport == ~IsReport(None) /\ ~IsReport("Data") /\ None \notin Nat
BY NoneAssumption DEF IsReport, Kinds

LEMMA EndFields ==
  ASSUME NEW e \in EndRecords
  PROVE  /\ e.linked \in BOOLEAN /\ e.reportPending \in BOOLEAN
         /\ e.sinceReceived \in Nat /\ e.sinceReceived <= Disconnect + 1
         /\ e.sinceReport \in Nat /\ e.sinceReport <= InfoUpdate + 1
         /\ e.sincePartnerReport \in Nat /\ e.sincePartnerReport <= Long
         /\ e.status \in {"Done", "Sending", "WaitingForSentOk"}
         /\ e.samples \in SeqOf(Rssis, SampleCount)
BY Periods DEF EndRecords

\* What a step leaves an end of what the invariant is about.
SameTimes(e, f) ==
  /\ f.linked = e.linked /\ f.samples = e.samples
  /\ f.sinceReceived = e.sinceReceived /\ f.sinceReport = e.sinceReport
  /\ f.sincePartnerReport = e.sincePartnerReport

SameService(e, f) ==
  f.reportPending = e.reportPending /\ f.status = e.status /\ f.out = e.out

LEMMA UpdateKeepsTimes ==
  ASSUME NEW e \in EndRecords
  PROVE  SameTimes(e, Update(e)) /\ SameService(e, Update(e))
BY DEF Update, SetMaxPower, SameTimes, SameService, EndRecords

\* What a run of the service makes of an end: it may begin to send, and a report
\* it sends asks for a reply if there is need.
Run(e, f) ==
  /\ SameTimes(e, f)
  /\ e.reportPending => f.reportPending
  /\ f.status \in {"Done", "Sending"}
  /\ f.status = "Sending" /\ IsReport(f.out)
       => f.out = "ReportWithReply" \/ e.sincePartnerReport <= InfoStale

LEMMA RunIsRun ==
  ASSUME NEW n \in Ends, NEW e \in EndRecords, e.status = "Done",
         NEW f \in OnKeepingLinkCommon(n, e)
  PROVE  Run(e, f)
<1> DEFINE u == Update(e)
           k == PrepareLinkReport(u)
<1>1. u \in EndRecords /\ SameTimes(e, u) /\ SameService(e, u)
  BY UpdateServes, UpdateKeepsTimes DEF Served
<1>2. k = "ReportWithReply" \/ e.sincePartnerReport <= InfoStale
  BY <1>1, Periods, KeepingAssumption DEF PrepareLinkReport, SameTimes, EndRecords
<1> HIDE DEF u
<1>3. OnKeepingLinkCommon(n, e) \subseteq
        {u, [Send(u, k) EXCEPT !.ran = TRUE], [u EXCEPT !.reportPending = TRUE]}
          \cup OnKeepingLink(n, u)
  BY DEF OnKeepingLinkCommon, u
<1>4. OnKeepingLink(n, u) \subseteq
        {Send([u EXCEPT !.txn = "Clear"], "TuneReply"), [u EXCEPT !.txn = "Clear"],
         [u EXCEPT !.txn = "Clear", !.sinceSynced = 0],
         Send([u EXCEPT !.txn = "Requested"], "TuneRequest"), [u EXCEPT !.ran = TRUE]}
  BY DEF OnKeepingLink
<1> HIDE DEF k
<1>5. Run(e, u) /\ Run(e, [u EXCEPT !.reportPending = TRUE])
  BY <1>1 DEF Run, SameTimes, SameService, EndRecords
<1>6. Run(e, [Send(u, k) EXCEPT !.ran = TRUE])
  BY <1>1, <1>2 DEF Run, SameTimes, SameService, EndRecords, Send
<1>7. /\ Run(e, [u EXCEPT !.txn = "Clear"]) /\ Run(e, [u EXCEPT !.ran = TRUE])
      /\ Run(e, [u EXCEPT !.txn = "Clear", !.sinceSynced = 0])
  BY <1>1 DEF Run, SameTimes, SameService, EndRecords
<1>8. /\ Run(e, Send([u EXCEPT !.txn = "Clear"], "TuneReply"))
      /\ Run(e, Send([u EXCEPT !.txn = "Requested"], "TuneRequest"))
  BY <1>1 DEF Run, SameTimes, SameService, EndRecords, Send, IsReport
<1> QED
  BY <1>3, <1>4, <1>5, <1>6, <1>7, <1>8

\* A linked end without an outage whose unit may end: it has reported in vain in
\* this unit, or has nothing to report.
Idle(e) ==
  /\ e.status = "Done"
  /\ \/ Intervenes(e) /\ e.sinceReport = 0
     \/ ~e.reportPending /\ ~Intervenes(e) /\ e.sinceReport <= InfoUpdate

LEMMA SettledIsIdle ==
  ASSUME NEW n \in Ends, end[n] \in EndRecords, end[n].linked, ~Lost, air[n] = None,
         Settled(n)
  PROVE  Idle(end[n])
<1> DEFINE e == end[n]
           u == Update(e)
<1> SUFFICES ASSUME OnKeepingLinkCommon(n, e) = {e}, e.status = "Done"
             PROVE  ~e.reportPending /\ ~Intervenes(e) /\ e.sinceReport <= InfoUpdate
  BY DEF Settled, Idle
<1>1. u \in EndRecords /\ SameTimes(e, u) /\ SameService(e, u)
  BY UpdateServes, UpdateKeepsTimes DEF Served
<1>2. ~Balances(e)
  <2> SUFFICES ASSUME Balances(e) PROVE FALSE
    OBVIOUS
  <2>1. u \in OnKeepingLinkCommon(n, e)
    BY DEF OnKeepingLinkCommon
  <2>2. u.sinceBalanced = 0
    BY DEF Balances, Update, EndRecords
  <2> QED
    BY <2>1, <2>2, Periods DEF Balances
<1>3. ~u.reportPending
  <2> SUFFICES ASSUME u.reportPending PROVE FALSE
    OBVIOUS
  <2>1. [Send(u, PrepareLinkReport(u)) EXCEPT !.ran = TRUE] \in OnKeepingLinkCommon(n, e)
    BY <1>2 DEF OnKeepingLinkCommon, MayResend
  <2>2. [Send(u, PrepareLinkReport(u)) EXCEPT !.ran = TRUE].status = "Sending"
    <3> HIDE DEF u
    <3> QED
      BY <1>1 DEF Send, EndRecords
  <2> QED
    BY <2>1, <2>2
<1>4. ~Intervenes(u) /\ ~(u.sinceReport > InfoUpdate)
  <2> SUFFICES ASSUME Intervenes(u) \/ u.sinceReport > InfoUpdate PROVE FALSE
    OBVIOUS
  <2>1. [u EXCEPT !.reportPending = TRUE] \in OnKeepingLinkCommon(n, e)
    BY <1>2, <1>3 DEF OnKeepingLinkCommon
  <2>2. [u EXCEPT !.reportPending = TRUE].reportPending
    <3> HIDE DEF u
    <3> QED
      BY <1>1 DEF EndRecords
  <2> QED
    BY <1>1, <1>3, <2>1, <2>2 DEF SameService
<1> QED
  BY <1>1, <1>3, <1>4, EndFields, Periods DEF SameTimes, SameService, Intervenes

----------------------------------------------------------------------------
(* The actions *)

LEMMA SurvivalFacts ==
  ASSUME SurvivalInv, NEW n \in Ends
  PROVE  /\ end[n] \in EndRecords /\ EndSurvives(n)
         /\ outage \in Nat \cup {None} /\ calm \in Nat
         /\ air[n] \in Kinds \cup {"Data", None}
BY InvParts, Periods DEF SurvivalInv, Airs, TimesOK

LEMMA SurvivablePeriods ==
  ASSUME Survivable
  PROVE  /\ InfoStale = Intervention /\ Intervention \in Nat
         /\ InfoUpdate \in Nat /\ Disconnect \in Nat /\ MaxOutage \in Nat /\ MinCalm \in Nat
         /\ InfoUpdate + 2 <= MinCalm /\ InfoUpdate + 2 + MaxOutage <= Disconnect
         /\ InfoUpdate < Intervention /\ Intervention < Disconnect
BY KeepingAssumption, BalancerAssumption DEF Survivable

\* An end that hears within Disconnect keeps its link.
LEMMA LoseLinkNever ==
  ASSUME SurvivalInv, NEW n \in Ends
  PROVE  ~LoseLink(n)
BY SurvivalFacts, EndFields, Periods DEF LoseLink, GivesUp, EndSurvives, HeardAfterOutage

LEMMA RelinkNever ==
  ASSUME SurvivalInv
  PROVE  ~Relink
BY SurvivalFacts DEF Relink, Ends, EndSurvives

LEMMA KeepLinkSurvives ==
  ASSUME Survivable, SurvivalInv, NEW n \in Ends, KeepLink(n)
  PROVE  \A k \in Ends : EndSurvives(k)'
<1>1. PICK m \in Ends : Other(n) = m /\ Other(m) = n /\ m # n /\ \A k \in Ends : k \in {n, m}
  BY TwoEnds
<1>2. PICK f \in OnKeepingLinkCommon(n, end[n]) : end' = [end EXCEPT ![n] = f]
  BY DEF KeepLink
<1>3. Run(end[n], f) /\ end[n].status = "Done"
  BY <1>2, SurvivalFacts, RunIsRun DEF KeepLink
<1>4. end'[n] = f /\ end'[m] = end[m]
  BY <1>1, <1>2, InvParts DEF SurvivalInv
<1>5. UNCHANGED <<air, outage, calm>>
  BY DEF KeepLink
<1>6. EndSurvives(n) /\ EndSurvives(m) /\ end[n] \in EndRecords /\ end[m] \in EndRecords
  BY <1>1, SurvivalFacts
<1>7. EndSurvives(m)'
  <2>1. ReportIsHeard(m)' /\ IsAnswered(m)'
    BY <1>1, <1>3, <1>4, <1>5, <1>6
       DEF EndSurvives, ReportIsHeard, IsAnswered, Calm, Lost, JustInformed, Run, SameTimes
  <2>2. HeardSinceReport(m)'
    BY <1>1, <1>3, <1>4, <1>5, <1>6
       DEF EndSurvives, HeardSinceReport, Lost, Run, SameTimes
  <2> QED
    BY <1>1, <1>4, <1>5, <1>6, <2>1, <2>2
       DEF EndSurvives, SilentIsStale, AsksIfSilent, HeardInCalm, HeardInOutage,
           HeardAfterOutage, Lost
<1>8. EndSurvives(n)'
  <2>1. ReportIsHeard(n)' /\ IsAnswered(n)'
    BY <1>1, <1>3, <1>4, <1>5, <1>6
       DEF EndSurvives, ReportIsHeard, IsAnswered, Calm, Lost, JustInformed, Run, SameTimes,
           Reported, Reporting, Intervenes
  <2>2. HeardSinceReport(n)'
    BY <1>1, <1>3, <1>4, <1>5, <1>6
       DEF EndSurvives, HeardSinceReport, Lost, Run, SameTimes
  <2>3. AsksIfSilent(f)
    BY <1>3, <1>6, SurvivablePeriods, EndFields
       DEF EndSurvives, SilentIsStale, AsksIfSilent, Run, SameTimes, Intervenes
  <2> QED
    BY <1>1, <1>3, <1>4, <1>5, <1>6, <2>1, <2>2, <2>3
       DEF EndSurvives, SilentIsStale, AsksIfSilent, HeardInCalm, HeardInOutage,
           HeardAfterOutage, Lost, Run, SameTimes, HasReport
<1> QED
  BY <1>1, <1>7, <1>8

\* An end whose times a step leaves alone, while no unit passes, and which begins
\* no report.
LEMMA TimesSurvive ==
  ASSUME NEW k \in Ends, EndSurvives(k), SameTimes(end[k], end'[k]), UNCHANGED <<outage, calm>>,
         end'[k].status = "Sending" => SameService(end[k], end'[k])
  PROVE  /\ end'[k].linked /\ SilentIsStale(end'[k]) /\ AsksIfSilent(end'[k])
         /\ HeardInCalm(end[k])' /\ HeardInOutage(end[k])' /\ HeardAfterOutage(end[k])'
BY DEF EndSurvives, SameTimes, SameService, SilentIsStale, AsksIfSilent, Intervenes, HeardInCalm,
       HeardInOutage, HeardAfterOutage, HasReport, Lost

LEMMA TransmitSurvives ==
  ASSUME SurvivalInv, NEW n \in Ends, Transmit(n)
  PROVE  \A k \in Ends : EndSurvives(k)'
<1> DEFINE f == [end[n] EXCEPT !.status = "WaitingForSentOk"]
<1>1. PICK m \in Ends : Other(n) = m /\ Other(m) = n /\ m # n /\ \A k \in Ends : k \in {n, m}
  BY TwoEnds
<1>2. EndSurvives(n) /\ EndSurvives(m) /\ end[n] \in EndRecords /\ end[m] \in EndRecords
  BY <1>1, SurvivalFacts
<1>3. end'[n] = f /\ end'[m] = end[m]
  BY <1>1, InvParts DEF SurvivalInv, Transmit
<1>4. /\ SameTimes(end[n], f) /\ f.status = "WaitingForSentOk" /\ f.out = end[n].out
      /\ f.reportPending = end[n].reportPending
  BY <1>2 DEF SameTimes, EndRecords
<1>5. /\ end[n].status = "Sending" /\ air[n] = None /\ UNCHANGED <<outage, calm>>
      /\ ~Lost => air'[n] = end[n].out
      /\ air'[m] = air[m]
  BY <1>1, InvParts DEF SurvivalInv, Transmit, Airs
<1> HIDE DEF f
<1>6. ReportIsHeard(n)' /\ IsAnswered(n)' /\ HeardSinceReport(n)'
  <2>1. ReportIsHeard(n)'
    BY <1>1, <1>2, <1>3, <1>4, <1>5, NoneIsNoReport
       DEF EndSurvives, ReportIsHeard, Reported, Reporting, Calm, Lost, SameTimes, JustInformed
  <2>2. IsAnswered(n)'
    BY <1>1, <1>2, <1>3, <1>4, <1>5, NoneAssumption
       DEF EndSurvives, IsAnswered, AsksIfSilent, Reported, Reporting, Calm, Lost, SameTimes,
           Intervenes, Kinds
  <2>3. HeardSinceReport(n)'
    BY <1>1, <1>2, <1>3, <1>4, <1>5 DEF EndSurvives, HeardSinceReport, Lost, SameTimes
  <2> QED
    BY <2>1, <2>2, <2>3
<1>7. ReportIsHeard(m)' /\ IsAnswered(m)' /\ HeardSinceReport(m)'
  BY <1>1, <1>2, <1>3, <1>4, <1>5
     DEF EndSurvives, ReportIsHeard, IsAnswered, HeardSinceReport, Calm, Lost, SameTimes,
         JustInformed
<1>8. SameTimes(end[m], end'[m]) /\ SameService(end[m], end'[m])
  BY <1>3 DEF SameTimes, SameService
<1> QED
  BY <1>1, <1>2, <1>3, <1>4, <1>5, <1>6, <1>7, <1>8, TimesSurvive DEF EndSurvives

LEMMA SendFailsSurvives ==
  ASSUME SurvivalInv, NEW n \in Ends, SendFails(n)
  PROVE  \A k \in Ends : EndSurvives(k)'
<1> DEFINE f == [end[n] EXCEPT !.status = "Done", !.out = None]
<1>1. PICK m \in Ends : Other(n) = m /\ Other(m) = n /\ m # n /\ \A k \in Ends : k \in {n, m}
  BY TwoEnds
<1>2. EndSurvives(n) /\ EndSurvives(m) /\ end[n] \in EndRecords /\ end[m] \in EndRecords
  BY <1>1, SurvivalFacts
<1>3. end'[n] = f /\ end'[m] = end[m]
  BY <1>1, InvParts DEF SurvivalInv, SendFails
<1>4. SameTimes(end[n], f) /\ f.status = "Done" /\ f.reportPending = end[n].reportPending
  BY <1>2 DEF SameTimes, EndRecords
<1>5. UNCHANGED <<air, outage, calm>>
  BY DEF SendFails
<1> HIDE DEF f
<1>6. ReportIsHeard(n)' /\ IsAnswered(n)' /\ HeardSinceReport(n)'
  BY <1>1, <1>2, <1>3, <1>4, <1>5
     DEF EndSurvives, ReportIsHeard, IsAnswered, HeardSinceReport, Reported, Reporting, Calm,
         Lost, SameTimes, JustInformed, Intervenes
<1>7. ReportIsHeard(m)' /\ IsAnswered(m)' /\ HeardSinceReport(m)'
  BY <1>1, <1>2, <1>3, <1>4, <1>5
     DEF EndSurvives, ReportIsHeard, IsAnswered, HeardSinceReport, Calm, Lost, SameTimes,
         JustInformed
<1>8. SameTimes(end[m], end'[m]) /\ SameService(end[m], end'[m])
  BY <1>3 DEF SameTimes, SameService
<1> QED
  BY <1>1, <1>2, <1>3, <1>4, <1>5, <1>6, <1>7, <1>8, TimesSurvive DEF EndSurvives

\* What the callback makes of an end: the report pending is forgotten only by an
\* end that has just reported.
LEMMA SentOkEffect ==
  ASSUME NEW e \in EndRecords, e.status = "WaitingForSentOk"
  PROVE  LET f == [OnSendOk(e) EXCEPT !.status = "Done", !.out = None]
         IN  /\ f.status = "Done" /\ f.linked = e.linked /\ f.samples = e.samples
             /\ f.sinceReceived = e.sinceReceived
             /\ f.sincePartnerReport = e.sincePartnerReport
             /\ \/ f.sinceReport = e.sinceReport /\ f.reportPending = e.reportPending
                \/ f.sinceReport = 0 /\ Reporting(e)
BY DEF OnSendOk, Reporting, EndRecords

LEMMA SentOkSurvives ==
  ASSUME SurvivalInv, NEW n \in Ends, SentOk(n)
  PROVE  \A k \in Ends : EndSurvives(k)'
<1> DEFINE f == [OnSendOk(end[n]) EXCEPT !.status = "Done", !.out = None]
<1>1. PICK m \in Ends : Other(n) = m /\ Other(m) = n /\ m # n /\ \A k \in Ends : k \in {n, m}
  BY TwoEnds
<1>2. EndSurvives(n) /\ EndSurvives(m) /\ end[n] \in EndRecords /\ end[m] \in EndRecords
  BY <1>1, SurvivalFacts
<1>3. end'[n] = f /\ end'[m] = end[m] /\ end[n].status = "WaitingForSentOk"
  BY <1>1, InvParts DEF SurvivalInv, SentOk
<1>4. /\ f.status = "Done" /\ f.linked = end[n].linked /\ f.samples = end[n].samples
      /\ f.sinceReceived = end[n].sinceReceived
      /\ f.sincePartnerReport = end[n].sincePartnerReport
      /\ \/ f.sinceReport = end[n].sinceReport /\ f.reportPending = end[n].reportPending
         \/ f.sinceReport = 0 /\ Reporting(end[n])
  BY <1>2, <1>3, SentOkEffect
<1>5. UNCHANGED <<air, outage, calm>>
  BY DEF SentOk
<1> HIDE DEF f
<1>6. ReportIsHeard(n)' /\ IsAnswered(n)' /\ HeardSinceReport(n)'
  BY <1>1, <1>2, <1>3, <1>4, <1>5
     DEF EndSurvives, ReportIsHeard, IsAnswered, HeardSinceReport, Reported, Reporting, Calm,
         Lost, JustInformed, Intervenes
<1>7. ReportIsHeard(m)' /\ HeardSinceReport(m)'
  BY <1>1, <1>2, <1>3, <1>4, <1>5
     DEF EndSurvives, ReportIsHeard, HeardSinceReport, Calm, Lost, JustInformed
<1>8. IsAnswered(m)'
  <2>1. SUFFICES ASSUME Calm, Intervenes(end[m]), Reported(end[m]), air[m] # "ReportWithReply",
                        air[n] = None, ~f.reportPending
                 PROVE  FALSE
    BY <1>1, <1>3, <1>5 DEF IsAnswered, Calm, Lost
  <2>2. end[m].sinceReceived # 0
    BY <1>2, <2>1, KeepingAssumption, EndFields DEF Intervenes
  <2>3. ~Reporting(end[n])
    BY <1>1, <1>2, <2>1, <2>2, NoneIsNoReport DEF EndSurvives, ReportIsHeard, Reported, JustInformed
  <2> QED
    BY <1>1, <1>2, <1>4, <2>1, <2>3 DEF EndSurvives, IsAnswered
<1>9. SameTimes(end[m], end'[m]) /\ SameService(end[m], end'[m])
  BY <1>3 DEF SameTimes, SameService
<1>10. /\ SilentIsStale(f) /\ AsksIfSilent(f) /\ f.linked
       /\ HeardInCalm(end[n])' /\ HeardInOutage(end[n])' /\ HeardAfterOutage(end[n])'
  BY <1>2, <1>3, <1>4, <1>5
     DEF EndSurvives, SilentIsStale, AsksIfSilent, HeardInCalm, HeardInOutage,
         HeardAfterOutage, HasReport, Lost
<1> QED
  BY <1>1, <1>2, <1>3, <1>5, <1>6, <1>7, <1>8, <1>9, <1>10, TimesSurvive DEF EndSurvives

LEMMA SendDataSurvives ==
  ASSUME SurvivalInv, NEW n \in Ends, SendData(n)
  PROVE  \A k \in Ends : EndSurvives(k)'
<1>1. PICK m \in Ends : Other(n) = m /\ Other(m) = n /\ m # n /\ \A k \in Ends : k \in {n, m}
  BY TwoEnds
<1>2. EndSurvives(n) /\ EndSurvives(m)
  BY <1>1, SurvivalFacts
<1>3. air[n] = None /\ air'[n] = "Data" /\ air'[m] = air[m] /\ UNCHANGED <<end, outage, calm>>
  BY <1>1, InvParts DEF SurvivalInv, SendData, Airs
<1>4. "Data" # None /\ None # "ReportWithReply" /\ "Data" # "ReportWithReply"
  BY NoneAssumption DEF Kinds
<1>5. \A k \in Ends : ReportIsHeard(k)' /\ IsAnswered(k)' /\ HeardSinceReport(k)'
  BY <1>1, <1>2, <1>3, <1>4, NoneIsNoReport
     DEF EndSurvives, ReportIsHeard, IsAnswered, HeardSinceReport, Calm, Lost
<1>6. \A k \in Ends : SameTimes(end[k], end'[k]) /\ SameService(end[k], end'[k])
  BY <1>3 DEF SameTimes, SameService
<1> QED
  BY <1>1, <1>2, <1>3, <1>5, <1>6, TimesSurvive DEF EndSurvives

\* What a packet makes of the end that hears it.
Hears(e, f, kind) ==
  /\ f.linked = e.linked /\ f.status = e.status /\ f.out = e.out
  /\ f.sinceReceived = 0 /\ f.sinceReport = e.sinceReport
  /\ e.reportPending \/ kind = "ReportWithReply" => f.reportPending
  /\ \/ f.sincePartnerReport = 0
     \/ /\ ~IsReport(kind)
        /\ f.sincePartnerReport = e.sincePartnerReport /\ f.samples = e.samples

LEMMA ReceiveHears ==
  ASSUME NEW n \in Ends, NEW e \in EndRecords, NEW kind,
         NEW rssi, IsReport(kind) => rssi \in Rssis
  PROVE  Hears(e, [ProcessPacket(n, e, kind, rssi) EXCEPT !.sinceReceived = 0], kind)
<1> DEFINE g == ProcessPacket(n, e, kind, rssi)
<1>1. g \in EndRecords
  BY ProcessPacketKeeps
<1>2. /\ g.linked = e.linked /\ g.status = e.status /\ g.out = e.out
      /\ g.sinceReport = e.sinceReport
      /\ e.reportPending \/ kind = "ReportWithReply" => g.reportPending
      /\ \/ g.sincePartnerReport = 0
         \/ /\ ~IsReport(kind)
            /\ g.sincePartnerReport = e.sincePartnerReport /\ g.samples = e.samples
  <2>1. CASE IsReport(kind)
    <3>1. g = OnReportReceived(e, kind, rssi)
      BY <2>1 DEF ProcessPacket, IsReport
    <3> HIDE DEF g
    <3> QED
      BY <3>1 DEF OnReportReceived, EndRecords
  <2>2. CASE ~IsReport(kind)
    <3>1. g \in {e, [e EXCEPT !.txn = "ResultIn"]} /\ kind # "ReportWithReply"
      BY <2>2 DEF ProcessPacket, IsReport
    <3> HIDE DEF g
    <3> QED
      BY <2>2, <3>1 DEF EndRecords
  <2> QED
    BY <2>1, <2>2
<1> HIDE DEF g
<1>3. Hears(e, [g EXCEPT !.sinceReceived = 0], kind)
  BY <1>1, <1>2 DEF Hears, EndRecords
<1> QED
  BY <1>3 DEF g

LEMMA ReceiveSurvives ==
  ASSUME Survivable, SurvivalInv, NEW n \in Ends, Receive(n)
  PROVE  \A k \in Ends : EndSurvives(k)'
<1>1. PICK m \in Ends : Other(n) = m /\ Other(m) = n /\ m # n /\ \A k \in Ends : k \in {n, m}
  BY TwoEnds
<1>2. EndSurvives(n) /\ EndSurvives(m) /\ end[n] \in EndRecords /\ end[m] \in EndRecords
  BY <1>1, SurvivalFacts
<1>3. /\ air[m] # None /\ air'[m] = None /\ air'[n] = air[n]
      /\ UNCHANGED <<outage, calm>>
  BY <1>1, InvParts DEF SurvivalInv, Receive, Airs
<1>4. PICK f : Hears(end[n], f, air[m]) /\ end'[n] = f /\ end'[m] = end[m]
  <2>1. end[n].linked
    BY <1>2 DEF EndSurvives
  <2>2. PICK rssi \in IF IsReport(air[m]) THEN Rssis ELSE {0} :
          end' = [end EXCEPT ![n] = [ProcessPacket(n, end[n], air[m], rssi)
                                      EXCEPT !.sinceReceived = 0]]
    BY <1>1, <2>1 DEF Receive
  <2> DEFINE f == [ProcessPacket(n, end[n], air[m], rssi) EXCEPT !.sinceReceived = 0]
  <2>3. Hears(end[n], f, air[m])
    BY <1>2, <2>2, ReceiveHears
  <2> HIDE DEF f
  <2>4. end'[n] = f /\ end'[m] = end[m]
    BY <1>1, <2>2, InvParts DEF SurvivalInv, f
  <2> QED
    BY <2>3, <2>4
<1>5. end[n].sincePartnerReport \in Nat /\ calm \in Nat /\ ~(0 > Intervention)
      /\ (outage \in Nat \/ outage = None) /\ end[n].sinceReport \in Nat
      /\ end[m].sinceReport \in Nat
  BY <1>2, EndFields, SurvivalFacts, SurvivablePeriods
<1>6. ReportIsHeard(n)' /\ HeardSinceReport(n)'
  BY <1>1, <1>2, <1>3, <1>4, <1>5
     DEF EndSurvives, ReportIsHeard, HeardSinceReport, Reported, Reporting, Calm, Lost, Hears,
         JustInformed
<1>7. ReportIsHeard(m)' /\ HeardSinceReport(m)'
  BY <1>1, <1>2, <1>3, <1>4, <1>5
     DEF EndSurvives, ReportIsHeard, HeardSinceReport, Calm, Lost, Hears, JustInformed
<1>8. IsAnswered(n)' /\ SilentIsStale(f) /\ AsksIfSilent(f)
  BY <1>4, <1>5 DEF IsAnswered, SilentIsStale, AsksIfSilent, Hears, Intervenes
<1>9. IsAnswered(m)'
  BY <1>1, <1>2, <1>3, <1>4 DEF EndSurvives, IsAnswered, Calm, Lost, Hears
<1>10. /\ f.linked
       /\ HeardInCalm(end[n])' /\ HeardInOutage(end[n])' /\ HeardAfterOutage(end[n])'
  <2>1. f.linked /\ HeardInCalm(end[n])'
    BY <1>2, <1>3, <1>4, <1>5, SurvivablePeriods DEF EndSurvives, HeardInCalm, Lost, Hears
  <2>2. HeardInOutage(end[n])'
    BY <1>2, <1>3, <1>4, <1>5, SurvivablePeriods DEF EndSurvives, HeardInOutage, Lost, Hears
  <2>3. HeardAfterOutage(end[n])'
    <3>1. f.sinceReceived = 0
      BY <1>4 DEF Hears
    <3>2. \/ f.sincePartnerReport = 0
          \/ f.sincePartnerReport = end[n].sincePartnerReport /\ f.samples = end[n].samples
      BY <1>4 DEF Hears
    <3>3. HeardAfterOutage(end[n]) /\ Lost' = Lost /\ calm' = calm /\ end'[n] = f
      BY <1>2, <1>3, <1>4 DEF EndSurvives, Lost
    <3>4. HasReport(f) /\ f.sincePartnerReport # 0 => HasReport(end[n])
      BY <3>2 DEF HasReport
    <3> QED
      BY <1>5, <3>1, <3>2, <3>3, <3>4, SurvivablePeriods DEF HeardAfterOutage
  <2> QED
    BY <2>1, <2>2, <2>3
<1>11. SameTimes(end[m], end'[m]) /\ SameService(end[m], end'[m])
  BY <1>4 DEF SameTimes, SameService
<1> QED
  BY <1>1, <1>2, <1>3, <1>4, <1>6, <1>7, <1>8, <1>9, <1>10, <1>11, TimesSurvive
     DEF EndSurvives

\* Before an outage begins both ends have long been heard.
LEMMA OutageBeginsSurvives ==
  ASSUME Survivable, SurvivalInv, OutageBegins
  PROVE  \A k \in Ends : EndSurvives(k)'
<1>1. ~Lost /\ Lost' /\ outage' = 0 /\ calm' = calm /\ end' = end /\ calm >= MinCalm
  BY NoneIsNoReport DEF OutageBegins, Lost
<1> SUFFICES ASSUME NEW k \in Ends PROVE EndSurvives(k)'
  OBVIOUS
<1>2. EndSurvives(k) /\ calm \in Nat
  BY SurvivalFacts
<1>3. ReportIsHeard(k)' /\ IsAnswered(k)' /\ HeardSinceReport(k)'
  BY <1>1 DEF ReportIsHeard, IsAnswered, HeardSinceReport, Calm
<1>4. HeardInOutage(end[k])' /\ HeardInCalm(end[k])' /\ HeardAfterOutage(end[k])'
  BY <1>1, <1>2, SurvivablePeriods, SurvivalFacts, EndFields
     DEF EndSurvives, HeardInOutage, HeardInCalm, HeardAfterOutage
<1> QED
  BY <1>1, <1>2, <1>3, <1>4 DEF EndSurvives

LEMMA OutageEndsSurvives ==
  ASSUME Survivable, SurvivalInv, OutageEnds
  PROVE  \A k \in Ends : EndSurvives(k)'
<1>1. Lost /\ ~Lost' /\ calm' = 0 /\ end' = end /\ outage \in 0 .. MaxOutage
  BY InvParts DEF SurvivalInv, OutageEnds, Lost, TimesOK
<1> SUFFICES ASSUME NEW k \in Ends PROVE EndSurvives(k)'
  OBVIOUS
<1>2. EndSurvives(k) /\ end[k] \in EndRecords
  BY SurvivalFacts
<1>3. ReportIsHeard(k)' /\ IsAnswered(k)'
  BY <1>1 DEF ReportIsHeard, IsAnswered, Calm
<1>4. HeardSinceReport(k)'
  BY <1>1, TwoEnds, SurvivalFacts, EndFields DEF HeardSinceReport
<1>5. HeardInOutage(end[k])' /\ HeardInCalm(end[k])' /\ HeardAfterOutage(end[k])'
  BY <1>1, <1>2, SurvivablePeriods, EndFields
     DEF EndSurvives, HeardInOutage, HeardInCalm, HeardAfterOutage
<1> QED
  BY <1>1, <1>2, <1>3, <1>4, <1>5 DEF EndSurvives

\* What a unit makes of an end.
Ages(e, f) ==
  /\ f.linked = e.linked /\ f.samples = e.samples /\ f.status = e.status
  /\ f.sinceReceived \in Nat /\ f.sinceReceived <= e.sinceReceived + 1
  /\ f.sincePartnerReport \in Nat /\ f.sincePartnerReport <= e.sincePartnerReport + 1
  /\ f.sinceReport \in 1 .. InfoUpdate + 1
  /\ e.sinceReport <= InfoUpdate => f.sinceReport = e.sinceReport + 1
  /\ SilentIsStale(e) => SilentIsStale(f)

LEMMA PassesAges ==
  ASSUME NEW e \in EndRecords
  PROVE  Ages(e, Passes(e))
<1> DEFINE f == Passes(e)
           r == e.sinceReceived
           q == e.sincePartnerReport
           p == e.sinceReport
<1>1. /\ f.linked = e.linked /\ f.samples = e.samples /\ f.status = e.status
      /\ f.sinceReceived = AtMost(Disconnect + 1, r + 1)
      /\ f.sinceReport = AtMost(InfoUpdate + 1, p + 1)
      /\ f.sincePartnerReport = AtMost(Long, q + 1)
  BY DEF Passes, EndRecords
<1>2. /\ r \in Nat /\ q \in Nat /\ p \in Nat /\ q <= Long
      /\ Long \in Nat /\ Disconnect \in Nat /\ InfoUpdate \in Nat /\ InfoStale \in Nat
      /\ Long > InfoStale
  BY EndFields, Periods, KeepingAssumption
<1> HIDE DEF f, r, q, p
<1>3. /\ f.sinceReceived \in Nat /\ f.sinceReceived <= r + 1
      /\ f.sincePartnerReport \in Nat /\ f.sincePartnerReport <= q + 1
      /\ f.sinceReport \in 1 .. InfoUpdate + 1
      /\ p <= InfoUpdate => f.sinceReport = p + 1
  BY <1>1, <1>2 DEF AtMost
<1>4. q >= r \/ q > InfoStale
        => f.sincePartnerReport >= f.sinceReceived \/ f.sincePartnerReport > InfoStale
  BY <1>1, <1>2 DEF AtMost
<1> QED
  BY <1>1, <1>3, <1>4 DEF Ages, SilentIsStale, f, r, q, p

\* At the end of a unit nothing is on the air, and without an outage both ends are
\* idle.
LEMMA TickFindsIdle ==
  ASSUME SurvivalInv, Tick, NEW n \in Ends
  PROVE  /\ air[n] = None /\ end[n].status = "Done"
         /\ ~Lost => Idle(end[n])
<1>1. air[n] = None /\ Settled(n) /\ end[n].linked /\ end[n] \in EndRecords
  BY SurvivalFacts DEF Tick, EndSurvives
<1> QED
  BY <1>1, SettledIsIdle DEF Settled

\* No calm unit ends before an end that misses its partner has heard of it.
LEMMA NobodyIsMissed ==
  ASSUME Survivable, SurvivalInv, Tick, Calm, NEW n \in Ends
  PROVE  ~Intervenes(end[n])
<1> SUFFICES ASSUME Intervenes(end[n]) PROVE FALSE
  OBVIOUS
<1>1. PICK m \in Ends : Other(n) = m /\ Other(m) = n
  BY TwoEnds
<1>2. Idle(end[n]) /\ Idle(end[m]) /\ air[n] = None /\ air[m] = None
  BY TickFindsIdle DEF Calm
<1>3. EndSurvives(n) /\ EndSurvives(m) /\ None # "ReportWithReply"
  BY SurvivalFacts, NoneAssumption DEF Kinds
<1>4. end[m].reportPending
  BY <1>1, <1>2, <1>3 DEF Idle, EndSurvives, IsAnswered, Reported
<1>5. end[n].sinceReceived = 0
  BY <1>1, <1>2, <1>3, <1>4, NoneIsNoReport
     DEF Idle, EndSurvives, ReportIsHeard, Reported, JustInformed
<1> QED
  BY <1>5, SurvivablePeriods DEF Intervenes

\* The time that passes.
LEMMA TickTimes ==
  ASSUME Survivable, SurvivalInv, Tick
  PROVE  /\ Lost => Lost' /\ outage' = outage + 1 /\ outage \in Nat /\ outage < MaxOutage
         /\ ~Lost => /\ ~Lost' /\ calm' >= 1
                     /\ calm' = calm + 1 \/ (calm' = calm /\ calm >= InfoUpdate + 2)
         /\ calm \in Nat /\ calm' \in Nat
<1>1. outage \in Nat \cup {None} /\ calm \in Nat
  BY InvParts, Periods DEF SurvivalInv, TimesOK
<1>2. Lost => outage \in Nat /\ outage' = outage + 1 /\ outage < MaxOutage /\ outage' # None
  BY <1>1, NoneIsNoReport DEF Tick, Lost
<1>3. /\ ~Lost => outage' = None /\ calm' = IF calm = MinCalm THEN calm ELSE calm + 1
      /\ Lost => calm' = calm
  BY DEF Tick
<1> QED
  BY <1>1, <1>2, <1>3, SurvivablePeriods DEF Lost

LEMMA TickSurvives ==
  ASSUME Survivable, SurvivalInv, Tick
  PROVE  \A k \in Ends : EndSurvives(k)'
<1> SUFFICES ASSUME NEW n \in Ends PROVE EndSurvives(n)'
  OBVIOUS
<1>1. PICK m \in Ends : Other(n) = m /\ Other(m) = n
  BY TwoEnds
<1> DEFINE e == end[n]
           f == end'[n]
           p == end[m].sinceReport
           o == end'[m].sinceReport
<1>2. Ages(e, f) /\ Ages(end[m], end'[m])
  BY SurvivalFacts, PassesAges DEF Tick
<1>3. EndSurvives(n) /\ EndSurvives(m) /\ e \in EndRecords /\ end[m] \in EndRecords
  BY SurvivalFacts
<1>4. f.status = "Done" /\ end[m].status = "Done"
  BY <1>2, TickFindsIdle DEF Ages
<1>5. ~Reported(f)
  BY <1>2, <1>4, Periods DEF Reported, Reporting, Ages
<1>6. ReportIsHeard(n)' /\ IsAnswered(n)' /\ AsksIfSilent(f) /\ SilentIsStale(f) /\ f.linked
  BY <1>2, <1>3, <1>4, <1>5
     DEF ReportIsHeard, IsAnswered, AsksIfSilent, Ages, EndSurvives, Reported, Reporting
<1>7. e.sinceReceived \in Nat /\ e.sincePartnerReport \in Nat /\ p \in Nat
  BY <1>3, EndFields
<1>8. ASSUME ~Lost
      PROVE  o >= calm' \/ (f.sinceReceived <= o /\ f.sincePartnerReport <= o)
  <2>1. o = p + 1 /\ p <= InfoUpdate
    <3>1. p <= InfoUpdate
      BY <1>8, SurvivablePeriods, TickFindsIdle DEF Idle
    <3> QED
      BY <1>2, <3>1 DEF Ages
  <2>2. CASE p = 0
    <3>1. CASE calm = 0
      BY <1>8, <2>1, <2>2, <3>1, TickTimes, SurvivablePeriods
    <3>2. CASE calm # 0
      <4>1. Calm
        BY <1>8, <3>2, TickTimes DEF Calm
      <4>2. JustInformed(e)
        BY <1>1, <1>3, <2>2, <4>1, TickFindsIdle, NoneIsNoReport
           DEF EndSurvives, ReportIsHeard, Reported
      <4> QED
        BY <1>2, <2>1, <2>2, <4>2 DEF JustInformed, Ages
    <3> QED
      BY <3>1, <3>2
  <2>3. CASE p > 0
    <3>1. p >= calm \/ (e.sinceReceived <= p /\ e.sincePartnerReport <= p)
      BY <1>1, <1>3, <1>8, <2>3 DEF EndSurvives, HeardSinceReport
    <3>2. CASE p >= calm
      <4> HIDE DEF o, p
      <4> QED
        BY <1>7, <1>8, <2>1, <3>2, TickTimes, SurvivablePeriods
    <3>3. CASE e.sinceReceived <= p /\ e.sincePartnerReport <= p
      BY <1>2, <1>7, <2>1, <3>3 DEF Ages
    <3> QED
      BY <3>1, <3>2, <3>3
  <2> QED
    BY <1>7, <2>2, <2>3
<1>9. HeardSinceReport(n)'
  BY <1>1, <1>8, TickTimes DEF HeardSinceReport
<1>10. HeardInCalm(end[n])'
  <2> SUFFICES ASSUME ~Lost, calm' >= InfoUpdate + 2
               PROVE  f.sinceReceived <= InfoUpdate + 1 /\ f.sincePartnerReport <= InfoUpdate + 1
    BY TickTimes DEF HeardInCalm
  <2>1. o \in 1 .. InfoUpdate + 1
    BY <1>2 DEF Ages
  <2> HIDE DEF o
  <2> QED
    BY <1>2, <1>8, <2>1, TickTimes, SurvivablePeriods DEF Ages
<1>11. HeardInOutage(end[n])'
  <2> SUFFICES ASSUME Lost
               PROVE  /\ f.sinceReceived <= InfoUpdate + 1 + outage'
                      /\ f.sincePartnerReport <= InfoUpdate + 1 + outage'
    BY TickTimes DEF HeardInOutage
  <2>1. /\ e.sinceReceived <= InfoUpdate + 1 + outage
        /\ e.sincePartnerReport <= InfoUpdate + 1 + outage
    BY <1>3 DEF EndSurvives, HeardInOutage
  <2> QED
    BY <1>2, <1>7, <2>1, TickTimes, SurvivablePeriods DEF Ages
<1>12. HeardAfterOutage(end[n])'
  <2>1. ~(~Lost' /\ calm' = 0)
    BY TickTimes
  <2>2. ASSUME ~Lost, calm' <= InfoUpdate + 1, HasReport(f)
        PROVE  f.sincePartnerReport <= InfoUpdate + 1 + MaxOutage + calm'
    <3>1. calm' = calm + 1
      BY <2>2, TickTimes, SurvivablePeriods
    <3>2. HasReport(e)
      BY <1>2, <2>2 DEF HasReport, Ages
    <3>3. e.sincePartnerReport <= InfoUpdate + 1 + MaxOutage + calm
      BY <1>3, <2>2, <3>1, <3>2, TickTimes, SurvivablePeriods DEF EndSurvives, HeardAfterOutage
    <3> QED
      BY <1>2, <1>7, <3>1, <3>3, TickTimes, SurvivablePeriods DEF Ages
  <2>3. f.sinceReceived <= Disconnect
    <3>1. CASE Lost
      <4>1. e.sinceReceived <= InfoUpdate + 1 + outage
        BY <1>3, <3>1 DEF EndSurvives, HeardInOutage
      <4> QED
        BY <1>2, <1>7, <3>1, <4>1, TickTimes, SurvivablePeriods DEF Ages
    <3>2. CASE ~Lost /\ calm = 0
      <4>1. e.sinceReceived <= InfoUpdate + 1 + MaxOutage
        BY <1>3, <3>2 DEF EndSurvives, HeardAfterOutage
      <4> QED
        BY <1>2, <1>7, <4>1, SurvivablePeriods DEF Ages
    <3>3. CASE ~Lost /\ calm # 0
      <4>1. ~(e.sinceReceived > Intervention)
        BY <3>3, NobodyIsMissed, TickTimes DEF Calm, Intervenes
      <4> QED
        BY <1>2, <1>7, <4>1, SurvivablePeriods DEF Ages
    <3> QED
      BY <3>1, <3>2, <3>3
  <2> QED
    BY <2>1, <2>2, <2>3, TickTimes DEF HeardAfterOutage
<1> QED
  BY <1>6, <1>9, <1>10, <1>11, <1>12 DEF EndSurvives

LEMMA InitSurvives ==
  ASSUME Survivable, Init
  PROVE  SurvivalInv
<1>1. PICK rssi \in [Ends -> Rssis], synced \in {0, TunePeriod} :
        end = [n \in Ends |-> Established(FirstBoot, rssi[n], synced)]
  BY DEF Init
<1> SUFFICES ASSUME NEW n \in Ends PROVE EndSurvives(n)
  BY InitGood DEF SurvivalInv
<1> DEFINE e == end[n]
<1>2. \A k \in Ends : /\ end[k].linked /\ end[k].status = "Done" /\ end[k].sinceReceived = 0
                      /\ end[k].sinceReport = InfoUpdate + 1
                      /\ end[k].sincePartnerReport = Long
                      /\ end[k].samples = <<rssi[k]>>
  BY <1>1 DEF Established, FirstBoot
<1>3. ~Lost /\ calm = 0 /\ Other(n) \in Ends
  BY TwoEnds DEF Init, Lost
<1>4. ReportIsHeard(n) /\ IsAnswered(n) /\ HeardSinceReport(n)
  BY <1>2, <1>3, SurvivablePeriods DEF ReportIsHeard, IsAnswered, HeardSinceReport, Calm
<1>5. SilentIsStale(e) /\ AsksIfSilent(e)
  BY <1>2, KeepingAssumption DEF SilentIsStale, AsksIfSilent
<1>6. ~HasReport(e)
  <2>1. e.samples = <<rssi[n]>>
    BY <1>2
  <2>2. \A x : Len(<<x>>) = 1
    OBVIOUS
  <2>3. Len(e.samples) = 1
    BY <2>1, <2>2
  <2> QED
    BY <2>3 DEF HasReport
<1>7. HeardInCalm(e) /\ HeardInOutage(e) /\ HeardAfterOutage(e)
  BY <1>2, <1>3, <1>6, SurvivablePeriods DEF HeardInCalm, HeardInOutage, HeardAfterOutage
<1> QED
  BY <1>2, <1>4, <1>5, <1>7 DEF EndSurvives

LEMMA NothingSurvives ==
  ASSUME SurvivalInv, UNCHANGED vars
  PROVE  \A k \in Ends : EndSurvives(k)'
<1>1. end' = end /\ air' = air /\ outage' = outage /\ calm' = calm
  BY DEF vars
<1> QED
  BY <1>1, SurvivalFacts
     DEF EndSurvives, ReportIsHeard, IsAnswered, HeardSinceReport, HeardInCalm, HeardInOutage,
         HeardAfterOutage, Calm, Lost

LEMMA NextSurvives ==
  ASSUME Survivable, SurvivalInv, [Next]_vars
  PROVE  SurvivalInv'
<1>1. KeepingInv'
  BY NextKeeps DEF SurvivalInv
<1>2. CASE Next
  BY <1>1, <1>2, LoseLinkNever, RelinkNever, KeepLinkSurvives, TransmitSurvives,
     SendFailsSurvives, SentOkSurvives, SendDataSurvives, ReceiveSurvives,
     OutageBeginsSurvives, OutageEndsSurvives, TickSurvives DEF Next, SurvivalInv
<1>3. CASE UNCHANGED vars
  BY <1>1, <1>3, NothingSurvives DEF SurvivalInv
<1> QED
  BY <1>2, <1>3

----------------------------------------------------------------------------
(* The theorems *)

\* The inductive invariant holds: a calm unit ends with everything reported in it
\* heard, so that only an outage lets either end grow older than a period.
THEOREM SurvivalInvariant == Survivable => (Spec => []SurvivalInv)
<1> SUFFICES ASSUME Survivable PROVE Spec => []SurvivalInv
  OBVIOUS
<1>1. Init => SurvivalInv
  BY InitSurvives
<1>2. SurvivalInv /\ [Next]_vars => SurvivalInv'
  BY NextSurvives
<1> QED
  BY <1>1, <1>2, PTL DEF Spec

\* Neither end gives its link up because of an outage that leaves a unit until
\* the disconnection, whenever it begins and whatever the air has lost in it.
THEOREM LinkSurvivesOutages == Survivable => (Spec => []LinkSurvives)
<1> SUFFICES ASSUME Survivable PROVE Spec => []LinkSurvives
  OBVIOUS
<1>1. Spec => []SurvivalInv
  BY SurvivalInvariant
<1>2. SurvivalInv => LinkSurvives
  BY DEF SurvivalInv, EndSurvives, LinkSurvives
<1> QED
  BY <1>1, <1>2, PTL

\* What an end knows of its partner is at most an outage and two periods old,
\* whatever requests for a reply were forgotten.
THEOREM InfoStaysFresh == Survivable => (Spec => []InfoIsFresh)
<1> SUFFICES ASSUME Survivable PROVE Spec => []InfoIsFresh
  OBVIOUS
<1>1. Spec => []SurvivalInv
  BY SurvivalInvariant
<1>2. SurvivalInv => InfoIsFresh
  <2> SUFFICES ASSUME SurvivalInv, NEW n \in Ends, HasReport(end[n])
               PROVE  end[n].sincePartnerReport <= 2 * (InfoUpdate + 1) + MaxOutage
    BY DEF InfoIsFresh
  <2> DEFINE q == end[n].sincePartnerReport
  <2>1. EndSurvives(n) /\ q \in Nat /\ calm \in Nat /\ outage \in 0 .. MaxOutage \cup {None}
    BY SurvivalFacts, EndFields, InvParts DEF SurvivalInv, TimesOK
  <2>2. CASE Lost
    <3>1. q <= InfoUpdate + 1 + outage /\ outage \in 0 .. MaxOutage
      BY <2>1, <2>2 DEF EndSurvives, HeardInOutage, Lost
    <3> HIDE DEF q
    <3> QED
      BY <2>1, <3>1, SurvivablePeriods DEF q
  <2>3. CASE ~Lost /\ calm <= InfoUpdate + 1
    <3>1. q <= InfoUpdate + 1 + MaxOutage + calm
      BY <2>1, <2>3 DEF EndSurvives, HeardAfterOutage
    <3> QED
      BY <2>1, <2>3, <3>1, SurvivablePeriods
  <2>4. CASE ~Lost /\ calm > InfoUpdate + 1
    <3>1. calm >= InfoUpdate + 2
      BY <2>1, <2>4, SurvivablePeriods
    <3>2. q <= InfoUpdate + 1
      BY <2>1, <2>4, <3>1 DEF EndSurvives, HeardInCalm
    <3> QED
      BY <2>1, <3>2, SurvivablePeriods
  <2> QED
    BY <2>1, <2>2, <2>3, <2>4, SurvivablePeriods
<1> QED
  BY <1>1, <1>2, PTL

=============================================================================
