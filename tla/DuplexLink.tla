----------------------------- MODULE DuplexLink -----------------------------
(***************************************************************************)
(* The two ends of a link in time: the remote asks the host for the error  *)
(* of its clock, first to link and then to tune it, and each end sends in  *)
(* its own half of the duplex period (Services/Link/LoLaLinkClockSyncer.h, *)
(* LoLaLinkHostService.h, LoLaLinkRemoteService.h,                         *)
(* PacketDriver/LoLaPacketDriver.h).                                       *)
(*                                                                         *)
(* A transmission keeps the air busy for AirTime from the decision to send *)
(* on, and the receiver senses it Latency after that decision. Nothing     *)
(* but the slots keeps the ends apart: a frame may be lost, so the other   *)
(* end may not sense it and its driver not hold back. One request is out   *)
(* at a time, so ids are left out.                                         *)
(***************************************************************************)
EXTENDS LoLaClock, FiniteSets

CONSTANTS
  None,
  RTT,              \* of the latency samples both ends have
  AirTime,
  Latency,
  MaxTuneError,     \* MAX_TUNE_ERROR_MICROS
  MinClockSamples,  \* LOLA_LINK_SERVICE_UNLINK_MIN_CLOCK_SAMPLES
  Builds,           \* sources of the clocks: LOLA_LINK_USE_RTC_CLOCK_SOURCE or not
  FirstMicros,      \* bound: <<of the host, of the remote>>, when time begins
  HostOffsets,      \* bound: what SetRandom can give
  RtcPhases,        \* bound: <<host, remote>> micros to the next RTC interrupt
  MaxSlips,         \* bound: times the crystals of the two ends drift apart
  Horizon           \* bound: how long time runs

ASSUME DuplexAssumption ==
  /\ Latency \in 1 .. AirTime /\ AirTime \in Nat /\ RTT \in Nat
  /\ Builds \subseteq Sources
  /\ MaxTuneError \in Nat /\ MinClockSamples \in Nat
  /\ MaxSlips \in Nat /\ Horizon \in Nat
  /\ FirstMicros \subseteq Unsigned \X Unsigned /\ HostOffsets \subseteq Unsigned
  /\ RtcPhases \subseteq (0 .. Second) \X (0 .. Second)

Host == "host"
Remote == "remote"
Ends == {Host, Remote}

ETTM == ETTMOf(RTT)

VARIABLES
  now,        \* how long time has run
  micros,     \* micros() of each end
  clock,      \* the synchronised clock of each end
  rtc,        \* micros to the next interrupt of the RTC of each end
  slips,      \* times the crystals have slipped
  linked,     \* the driver of both ends has LinkActive
  goodCount,  \* SyncGoodCount of the host
  requested,  \* the transaction of the remote: a request is out
  reply,      \* the reply the host has to send, None if it has none
  air         \* what each end is transmitting, None if nothing

vars == <<now, micros, clock, rtc, slips, linked, goodCount, requested, reply, air>>

EvenSlot(n) == n = Host

Other(n) == IF n = Host THEN Remote ELSE Host

SyncMicros(n) == GetSyncMicros(clock[n], micros[n])

\* How far the clock of the remote is ahead of the host's.
ClockError == Signed(SyncMicros(Remote) - SyncMicros(Host))

\* A frame: its payload, how long it has been on, the clock error it began with.
Frames == [kind    : {"Request", "Reply", "Data"},
           payload : Unsigned \cup (-Wrap .. Wrap) \cup {None},
           age     : 0 .. AirTime,
           error   : -Wrap .. Wrap]

ASSUME NoneAssumption == None \notin Int \cup Frames

\* The drivers were started a second ago or more: each RTC has ticked once.
InitialClock(source, m, next, offset) ==
  [source      |-> source,
   offset      |-> offset,
   lastTick    |-> IF source = "RTC" THEN (m - (Second - next)) % Wrap ELSE 0,
   lastSeconds |-> IF source = "RTC" THEN 1 ELSE 0]

Init ==
  /\ now = 0
  /\ \E source \in Builds, m \in FirstMicros, p \in RtcPhases, offset \in HostOffsets :
       /\ source = "Timer" => p = <<0, 0>>
       /\ micros = [n \in Ends |-> IF n = Host THEN m[1] ELSE m[2]]
       /\ rtc = [n \in Ends |-> IF n = Host THEN p[1] ELSE p[2]]
       /\ clock = [n \in Ends |-> IF n = Host THEN InitialClock(source, m[1], p[1], offset)
                                  ELSE InitialClock(source, m[2], p[2], 0)]
  /\ slips = 0 /\ linked = FALSE /\ goodCount = 0
  /\ requested = FALSE /\ reply = None
  /\ air = [n \in Ends |-> None]

----------------------------------------------------------------------------
(* Time *)

OnAir(n) == air[n] # None

\* A frame that has left the air is received or lost before time goes on.
Tick ==
  /\ now < Horizon
  /\ \A n \in Ends : /\ OnAir(n) => air[n].age < AirTime
                     /\ IsRTC(clock[n]) => rtc[n] > 0
  /\ now' = now + 1
  /\ micros' = [n \in Ends |-> (micros[n] + 1) % Wrap]
  /\ rtc' = [n \in Ends |-> IF IsRTC(clock[n]) THEN rtc[n] - 1 ELSE rtc[n]]
  /\ air' = [n \in Ends |-> IF OnAir(n) THEN [air[n] EXCEPT !.age = @ + 1] ELSE None]
  /\ UNCHANGED <<clock, slips, linked, goodCount, requested, reply>>

\* The crystal of the remote counts one more, or one less.
Slip ==
  /\ slips < MaxSlips /\ ~IsRTC(clock[Remote])
  /\ \E d \in {-1, 1} : micros' = [micros EXCEPT ![Remote] = (@ + d) % Wrap]
  /\ slips' = slips + 1
  /\ UNCHANGED <<now, clock, rtc, linked, goodCount, requested, reply, air>>

\* An RTC without error: a second is a second of micros().
RtcInterrupt(n) ==
  /\ IsRTC(clock[n]) /\ rtc[n] = 0
  /\ rtc' = [rtc EXCEPT ![n] = Second]
  /\ clock' = [clock EXCEPT ![n] = OnInterrupt(@, micros[n])]
  /\ UNCHANGED <<now, micros, slips, linked, goodCount, requested, reply, air>>

----------------------------------------------------------------------------
(* The driver *)

\* Fault: the host is given the slot of the remote.
AllowedSendSwapped(n) ==
  ~OnAir(n) /\ (linked => IsInSendSlot(clock[n], micros[n], ETTM, TRUE))

\* The slots are not observed before the link is up. Left out are the back-offs
\* after a frame sent (1 ms in a link), without which an end may send more often
\* than the code's, and a channel not yet applied. An ack is sent at once, in no
\* slot, but what the library acks is of the way to the link, before the slots.
AllowedSend(n) ==
  ~OnAir(n) /\ (linked => IsInSendSlot(clock[n], micros[n], ETTM, EvenSlot(n)))

Transmit(n, kind, payload) ==
  /\ AllowedSend(n)
  /\ air' = [air EXCEPT ![n] = [kind |-> kind, payload |-> payload,
                                age |-> 0, error |-> ClockError]]

\* A packet of any other service.
SendData(n) ==
  /\ linked
  /\ Transmit(n, "Data", None)
  /\ UNCHANGED <<now, micros, clock, rtc, slips, linked, goodCount, requested, reply>>

Arrived(n, kind) == OnAir(n) /\ air[n].age = AirTime /\ air[n].kind = kind

Landed(n) == air' = [air EXCEPT ![n] = None]

\* Data is received, or a frame of any kind is lost.
LeaveAir(n) ==
  /\ OnAir(n) /\ air[n].age = AirTime
  /\ Landed(n)
  /\ UNCHANGED <<now, micros, clock, rtc, slips, linked, goodCount, requested, reply>>

\* LastValidReceivedInfo.Micros at the end of a frame: stamped when it was sensed.
ReceivedMicros(n) == (micros[n] - (AirTime - Latency)) % Wrap

----------------------------------------------------------------------------
(* The clock exchange *)

\* OnClockSync and OnKeepingLink of the remote, then OnPreSend: the estimate is
\* of the time the host receives it.
RemoteRequests ==
  /\ ~requested
  /\ Transmit(Remote, "Request", (SyncMicros(Remote) + ETTM) % Wrap)
  /\ requested' = TRUE
  /\ UNCHANGED <<now, micros, clock, rtc, slips, linked, goodCount, reply>>

\* Fault: the time the request was received is replaced by the present.
EstimationErrorLate(estimate) == Signed(SyncMicros(Host) - estimate)

EstimationError(estimate) ==
  Signed(GetSyncMicrosOf(clock[Host], ReceivedMicros(Host)) - estimate)

IsSynced == goodCount > MinClockSamples

\* SyncGoodCount is counted up to what IsSynced asks for.
OnEstimationReceived(error) ==
  goodCount' = IF IsSynced THEN goodCount
               ELSE IF Abs(error) < MaxTuneError THEN goodCount + 1 ELSE 0

HostReceivesRequest ==
  /\ Arrived(Remote, "Request") /\ reply = None
  /\ Landed(Remote)
  /\ LET error == EstimationError(air[Remote].payload)
     IN  reply' = error /\ OnEstimationReceived(error)
  /\ UNCHANGED <<now, micros, clock, rtc, slips, linked, requested>>

HostReplies ==
  /\ reply # None
  /\ Transmit(Host, "Reply", reply)
  /\ reply' = None
  /\ UNCHANGED <<now, micros, clock, rtc, slips, linked, goodCount, requested>>

\* OnEstimationErrorReceived and OnTuneErrorReceived.
RemoteReceivesReply ==
  /\ Arrived(Host, "Reply") /\ requested
  /\ Landed(Host)
  /\ clock' = [clock EXCEPT ![Remote] = AddOffsetMicros(@, air[Host].payload)]
  /\ requested' = FALSE
  /\ UNCHANGED <<now, micros, rtc, slips, linked, goodCount, reply>>

\* The switch-over of both ends: whatever is out is forgotten.
Link ==
  /\ ~linked /\ IsSynced /\ \A n \in Ends : ~OnAir(n)
  /\ linked' = TRUE
  /\ requested' = FALSE /\ reply' = None
  /\ UNCHANGED <<now, micros, clock, rtc, slips, goodCount, air>>

Next ==
  \/ Tick \/ Slip \/ Link
  \/ RemoteRequests \/ HostReceivesRequest \/ HostReplies \/ RemoteReceivesReply
  \/ \E n \in Ends : RtcInterrupt(n) \/ SendData(n) \/ LeaveAir(n)

Spec == Init /\ [][Next]_vars

----------------------------------------------------------------------------
(* Properties *)

TypeOK ==
  /\ now \in 0 .. Horizon /\ slips \in 0 .. MaxSlips
  /\ micros \in [Ends -> Unsigned] /\ clock \in [Ends -> Clocks]
  /\ rtc \in [Ends -> 0 .. Second]
  /\ linked \in BOOLEAN /\ requested \in BOOLEAN
  /\ goodCount \in 0 .. MinClockSamples + 1
  /\ reply \in (-Wrap .. Wrap) \cup {None}
  /\ air \in [Ends -> Frames \cup {None}]

BothOnAir == \A n \in Ends : OnAir(n) /\ air[n].age < AirTime

\* The README: "the Host can only transmit during the first half and the Remote
\* during the second half". In a link, the two ends never transmit at once.
TakeTurns == linked => ~BothOnAir

\* How far the frame sent last has run into the other.
Overlap == IF air[Host].age < air[Remote].age THEN air[Host].age ELSE air[Remote].age

\* Whatever was lost on the way to the link and since, two frames of a link on
\* micros() overlap at most by what the clocks were apart when the remote began
\* its own and by what a transmission takes longer than was estimated. Not where
\* the clock of the host wraps: there the period is cut short.
OverlapIsBounded ==
  linked /\ BothOnAir /\ ~IsRTC(clock[Host])
    => Overlap <= Abs(air[Remote].error) + AirTime - ETTM

\* A frame sent in the slot of its sender, with exact clocks and latency, is
\* sensed in the receive slot of the other end: the driver counts no collision.
ArrivesInReceiveSlot ==
  \A n \in Ends :
    /\ linked /\ OnAir(n) /\ air[n].age = Latency
    /\ ClockError = 0 /\ air[n].error = 0 /\ Latency = ETTM
    => IsInReceiveSlot(clock[Other(n)], micros[Other(n)], 0, EvenSlot(Other(n)))

\* What the remote follows is the micros() of the host and its offset, whatever
\* the host computes its own slots from: in a link it is no further from them than
\* the last good estimation, the error of an estimation and the slips allow,
\* although a tick may come between any two steps and the last reply be lost.
FollowsHostMicros ==
  linked => Abs(Signed(SyncMicros(Remote) - GetSyncMicrosOf(clock[Host], micros[Host])))
              < MaxTuneError + Abs(Latency - ETTM) + slips

=============================================================================
