--------------------------- MODULE LoLaLinkKeeping ---------------------------
(***************************************************************************)
(* A link that is up, in time: the two ends report to each other, ask for  *)
(* a report when the partner is silent, balance their power, tune the      *)
(* clock of the remote, and give the link up when nothing is heard         *)
(* (Services/Link/LoLaLinkService.h, LoLaLinkHostService.h and             *)
(* LoLaLinkRemoteService.h in the state Linked).                           *)
(*                                                                         *)
(* Time goes in units of LOLA_LINK_SERVICE_IDLE_PERIOD, the longest pause  *)
(* between two runs of the service in a link; the pauses of a few          *)
(* milliseconds, and the time of a packet, are shorter than a unit.  In an *)
(* outage packets are lost, or not allowed before they time out.           *)
(***************************************************************************)
EXTENDS LoLaLinkPowerBalancer, FiniteSets

CONSTANTS
  None,
  InfoUpdate,    \* LOLA_LINK_SERVICE_LINKED_INFO_UPDATE_PERIOD
  InfoStale,     \* LOLA_LINK_SERVICE_LINKED_INFO_STALE_PERIOD
  Intervention,  \* LOLA_LINK_SERVICE_LINKED_PERIOD_INTERVENTION
  Disconnect,    \* LOLA_LINK_SERVICE_LINKED_MAX_BEFORE_DISCONNECT
  TunePeriod,    \* LOLA_LINK_SERVICE_LINKED_CLOCK_TUNE_PERIOD
  Rssis,         \* bound: the RSSI a packet may arrive with
  Talkers,       \* bound: the ends whose user services send packets
  Tunes,         \* bound: the remote tunes its clock
  MaxOutage,     \* bound: the units an outage lasts
  MinCalm,       \* bound: the units between two outages
  Long           \* bound: how far the age of what is known is counted

ASSUME KeepingAssumption ==
  /\ {InfoUpdate, InfoStale, Intervention, Disconnect} \subseteq Nat
  /\ 0 < PowerUpdate /\ PowerUpdate < InfoUpdate /\ InfoUpdate < Intervention
  /\ Intervention <= InfoStale /\ Intervention < Panic /\ Panic < Disconnect
  /\ TunePeriod \in Nat /\ MaxOutage \in Nat /\ MinCalm \in Nat
  /\ Tunes \in BOOLEAN
  /\ Long \in Nat /\ Long > InfoStale

Host == "host"
Remote == "remote"
Ends == {Host, Remote}

Other(n) == IF n = Host THEN Remote ELSE Host

VARIABLES
  end,     \* the link service of each end, its link info and its balancer
  air,     \* the packet each end has on the air, None if none
  outage,  \* how long the outage has lasted, None if there is none
  calm     \* how long there has been none

vars == <<end, air, outage, calm>>

Kinds == {"Report", "ReportWithReply", "TuneRequest", "TuneReply"}

ASSUME NoneAssumption == None \notin Nat \cup Kinds \cup {"Data"}

EndRecords ==
  [linked             : BOOLEAN,
   sinceReceived      : 0 .. Disconnect + 1,  \* GetElapsedMillisLastValidReceived
   sinceReport        : 0 .. InfoUpdate + 1,  \* GetLocalInfoUpdateRemotelyElapsed
   sincePartnerReport : 0 .. Long,            \* GetPartnerLastReportElapsed
   reportPending      : BOOLEAN,
   status             : {"Done", "Sending", "WaitingForSentOk"},
   out                : Kinds \cup {None},    \* OutPacket
   txn                : {"Clear", "Requested", "ResultIn"},
   sinceSynced        : 0 .. 2 * TunePeriod + 1, \* LastSynced of the remote
   power              : PowerMin .. PowerMax,
   samples            : SeqOf(Rssis, SampleCount),
   sinceBalanced      : 0 .. PowerUpdate + 1 \cup {Never},
   ran                : BOOLEAN]              \* the service has run in this unit

\* The switch-over of the handshake: time stamps are those of the link before.
\* What the remote has of its clock decides if it starts with a tune.
Established(e, rssi, synced) ==
  [e EXCEPT !.linked = TRUE, !.sinceReceived = 0, !.samples = <<rssi>>,
            !.sinceSynced = synced, !.ran = FALSE]

FirstBoot ==
  [linked |-> FALSE, sinceReceived |-> 0, sinceReport |-> InfoUpdate + 1,
   sincePartnerReport |-> Long, reportPending |-> FALSE, status |-> "Done",
   out |-> None, txn |-> "Clear", sinceSynced |-> 0, power |-> PowerMax,
   samples |-> <<>>, sinceBalanced |-> Never, ran |-> FALSE]

Init ==
  /\ \E rssi \in [Ends -> Rssis], synced \in IF Tunes THEN {0, TunePeriod} ELSE {0} :
       end = [n \in Ends |-> Established(FirstBoot, rssi[n], synced)]
  /\ air = [n \in Ends |-> None]
  /\ outage = None /\ calm = 0

----------------------------------------------------------------------------
(* OnService in the state Linked *)

Send(e, kind) == [e EXCEPT !.out = kind, !.status = "Sending"]

Intervenes(e) == e.sinceReceived > Intervention

\* Fault: a report never asks for one.
PrepareLinkReportAlone(e) == "Report"

PrepareLinkReport(e) ==
  IF e.sincePartnerReport > InfoStale THEN "ReportWithReply" ELSE "Report"

TimeToTune(n, e) ==
  Tunes /\ n = Remote /\ e.sinceSynced > TunePeriod /\ e.txn # "Requested"

\* OnKeepingLink of the host and of the remote. An error that is not small is
\* applied, but the clock is not taken as synced.
OnKeepingLink(n, e) ==
  IF e.txn = "ResultIn"
  THEN IF n = Host
       THEN {Send([e EXCEPT !.txn = "Clear"], "TuneReply")}
       ELSE {[e EXCEPT !.txn = "Clear"], [e EXCEPT !.txn = "Clear", !.sinceSynced = 0]}
  ELSE IF TimeToTune(n, e)
  THEN {Send([e EXCEPT !.txn = "Requested"], "TuneRequest")}
  ELSE {[e EXCEPT !.ran = TRUE]}

\* LOLA_LINK_SERVICE_LINKED_RESEND_PERIOD: the last packet of the service has
\* been heard, or missed, before a report follows it.
MayResend(n) == air[n] = None

\* OnKeepingLinkCommon: what a run may leave.
OnKeepingLinkCommon(n, e) ==
  LET u == Update(e)
  IN  IF Balances(e) THEN {u}
      ELSE IF u.reportPending
      THEN {IF MayResend(n) THEN [Send(u, PrepareLinkReport(u)) EXCEPT !.ran = TRUE] ELSE u}
      ELSE IF Intervenes(u) \/ u.sinceReport > InfoUpdate
      THEN {[u EXCEPT !.reportPending = TRUE]}
      ELSE OnKeepingLink(n, u)

\* ClearSession, and SetMaxPower of AwaitingLink.
LeaveLink(e) ==
  [SetMaxPower(e) EXCEPT !.linked = FALSE, !.reportPending = FALSE, !.txn = "Clear",
                         !.samples = <<>>, !.sinceSynced = 0]

GivesUp(e) == e.sinceReceived > Disconnect

LoseLink(n) ==
  /\ end[n].linked /\ end[n].status = "Done" /\ GivesUp(end[n])
  /\ end' = [end EXCEPT ![n] = LeaveLink(@)]
  /\ UNCHANGED <<air, outage, calm>>

KeepLink(n) ==
  /\ end[n].linked /\ end[n].status = "Done" /\ ~GivesUp(end[n])
  /\ \E e \in OnKeepingLinkCommon(n, end[n]) : end' = [end EXCEPT ![n] = e]
  /\ UNCHANGED <<air, outage, calm>>

----------------------------------------------------------------------------
(* The send service and the radio *)

Lost == outage # None

Transmit(n) ==
  /\ end[n].status = "Sending" /\ air[n] = None
  /\ end' = [end EXCEPT ![n].status = "WaitingForSentOk"]
  /\ air' = [air EXCEPT ![n] = IF Lost THEN None ELSE end[n].out]
  /\ UNCHANGED <<outage, calm>>

\* In an outage the packet is never allowed, and at any time the driver may not
\* tell in time that it was sent.
SendFails(n) ==
  /\ \/ end[n].status = "Sending" /\ Lost
     \/ end[n].status = "WaitingForSentOk"
  /\ end' = [end EXCEPT ![n].status = "Done", ![n].out = None]
  /\ UNCHANGED <<air, outage, calm>>

IsReport(kind) == kind \in {"Report", "ReportWithReply"}

\* Fault: any packet of the service is taken for the report.
OnSendOkOfAny(e) == [e EXCEPT !.reportPending = FALSE, !.sinceReport = 0]

\* Fault: what the end sends is taken for a sign of its partner.
OnSendOkActive(e) == [e EXCEPT !.reportPending = FALSE, !.sinceReport = 0, !.sinceReceived = 0]

OnSendOk(e) ==
  IF IsReport(e.out) /\ e.linked /\ e.reportPending
  THEN [e EXCEPT !.reportPending = FALSE, !.sinceReport = 0]
  ELSE e

\* The callback of the service finds the packet sent.
SentOk(n) ==
  /\ end[n].status = "WaitingForSentOk"
  /\ end' = [end EXCEPT ![n] = [OnSendOk(@) EXCEPT !.status = "Done", !.out = None]]
  /\ UNCHANGED <<air, outage, calm>>

\* A packet of a user service, which has a send service of its own; a second one
\* in a unit would change nothing.
SendData(n) ==
  /\ n \in Talkers /\ end[n].linked /\ air[n] = None /\ ~Lost
  /\ end[Other(n)].sinceReceived > 0
  /\ air' = [air EXCEPT ![n] = "Data"]
  /\ UNCHANGED <<end, outage, calm>>

\* OnLinkInfoReportReceived
OnReportReceived(e, kind, rssi) ==
  [e EXCEPT !.sincePartnerReport = 0, !.samples = AddSample(@, rssi),
            !.reportPending = @ \/ kind = "ReportWithReply"]

ProcessPacket(n, e, kind, rssi) ==
  CASE IsReport(kind) -> OnReportReceived(e, kind, rssi)
    [] kind = "TuneRequest" /\ n = Host -> [e EXCEPT !.txn = "ResultIn"]
    [] kind = "TuneReply" /\ n = Remote /\ e.txn = "Requested" -> [e EXCEPT !.txn = "ResultIn"]
    [] OTHER -> e

\* An end without a link has no cipher for the packet and rejects it.
Receive(n) ==
  LET kind == air[Other(n)]
  IN  /\ kind # None
      /\ air' = [air EXCEPT ![Other(n)] = None]
      /\ \E rssi \in IF IsReport(kind) THEN Rssis ELSE {0} :
           end' = IF end[n].linked
                  THEN [end EXCEPT ![n] = [ProcessPacket(n, @, kind, rssi)
                                            EXCEPT !.sinceReceived = 0]]
                  ELSE end
      /\ UNCHANGED <<outage, calm>>

----------------------------------------------------------------------------
(* Time *)

OutageBegins ==
  /\ ~Lost /\ MaxOutage > 0 /\ calm >= MinCalm
  /\ outage' = 0
  /\ air' = [n \in Ends |-> None]
  /\ UNCHANGED <<end, calm>>

OutageEnds ==
  /\ Lost
  /\ outage' = None /\ calm' = 0
  /\ UNCHANGED <<end, air>>

\* Every pause but the idle one is over before the unit is: a service has nothing
\* left to do, or calls a silent partner again and again.
Settled(n) ==
  LET e == end[n]
  IN  e.linked => /\ e.status = "Done" /\ e.ran /\ ~GivesUp(e)
                  /\ \/ Lost
                     \/ Intervenes(e) /\ e.sinceReport = 0
                     \/ OnKeepingLinkCommon(n, e) = {e}

\* An elapsed time is counted until every comparison with it is decided.
Passes(e) ==
  [e EXCEPT !.sinceReceived = AtMost(Disconnect + 1, @ + 1),
            !.sinceReport = AtMost(InfoUpdate + 1, @ + 1),
            !.sincePartnerReport = AtMost(Long, @ + 1),
            !.sinceSynced = IF Tunes /\ e.linked
                              THEN AtMost(2 * TunePeriod + 1, @ + 1) ELSE 0,
            !.sinceBalanced = IF @ = Never THEN Never ELSE AtMost(PowerUpdate + 1, @ + 1),
            !.ran = FALSE]

Tick ==
  /\ \A n \in Ends : air[n] = None /\ Settled(n)
  /\ Lost => outage < MaxOutage
  /\ end' = [n \in Ends |-> Passes(end[n])]
  /\ outage' = IF Lost THEN outage + 1 ELSE None
  /\ calm' = IF Lost \/ calm = MinCalm THEN calm ELSE calm + 1
  /\ UNCHANGED air

\* The handshake of LoLaLink has been through again.
Relink ==
  /\ ~Lost /\ \A n \in Ends : ~end[n].linked /\ end[n].status = "Done" /\ air[n] = None
  /\ \E rssi \in [Ends -> Rssis], synced \in IF Tunes THEN {0, TunePeriod} ELSE {0} :
       end' = [n \in Ends |-> Established(end[n], rssi[n], synced)]
  /\ UNCHANGED <<air, outage, calm>>

Next ==
  \/ \E n \in Ends : \/ LoseLink(n) \/ KeepLink(n)
                     \/ Transmit(n) \/ SendFails(n) \/ SentOk(n)
                     \/ SendData(n) \/ Receive(n)
  \/ OutageBegins \/ OutageEnds \/ Tick \/ Relink

Spec == Init /\ [][Next]_vars

\* The scheduler runs every service, the driver does tell, now and then, that a
\* packet was sent, and time goes on; nothing makes anybody send data, or an
\* outage begin or end.
Fairness ==
  /\ SF_vars(Tick)
  /\ \A n \in Ends : /\ WF_vars(LoseLink(n)) /\ WF_vars(KeepLink(n))
                     /\ WF_vars(Transmit(n)) /\ SF_vars(SentOk(n)) /\ WF_vars(Receive(n))

FairSpec == Spec /\ Fairness

----------------------------------------------------------------------------
(* Properties *)

TypeOK ==
  /\ end \in [Ends -> EndRecords]
  /\ air \in [Ends -> Kinds \cup {"Data", None}]
  /\ outage \in 0 .. MaxOutage \cup {None} /\ calm \in 0 .. MinCalm

\* An outage shorter than the time between a late report and the disconnection
\* does not cost the link, whenever it begins: the silent partner is asked for a
\* report again and again until the air is back.
LinkSurvives == \A n \in Ends : end[n].linked

\* An end gives its link up at full power: it has been calling at full power
\* since it panicked, whatever the balancer had made of the power before.
GivenUpAtFullPower ==
  [][\A n \in Ends : end[n].linked /\ ~end'[n].linked => end[n].power = PowerMax]_vars

\* The first sample of a link is that of the handshake.
HasReport(e) == Len(e.samples) > 1

\* What an end knows of its partner is never older than two update periods and
\* the outage between them, although a request for a reply that comes between
\* the transmission of a report and its OnSendOk is forgotten.
InfoIsFresh ==
  \A n \in Ends :
    end[n].linked /\ HasReport(end[n])
      => end[n].sincePartnerReport <= 2 * (InfoUpdate + 1) + MaxOutage

\* A link that one end has given up is given up by the other.
LossIsMutual == \A n \in Ends : ~end[n].linked ~> ~end[Other(n)].linked

\* The README: "The clock is tuned during link time."
ClockIsTuned == end[Remote].linked => end[Remote].sinceSynced <= 2 * TunePeriod

=============================================================================
