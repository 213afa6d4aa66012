-------------------------- MODULE DuplexLink_proof --------------------------
(***************************************************************************)
(* Proofs about the two ends of a link in time: that the remote follows    *)
(* micros() of the host as closely as the exchange can tell, that a frame  *)
(* sent in one slot is received in the other, and that two frames overlap  *)
(* by no more than the error of the clocks and of the estimate.            *)
(*                                                                         *)
(* Every counter wraps, so what is kept is told up to a multiple of Wrap:  *)
(* Cong relates two integers that are one number to a counter, and Near    *)
(* bounds one. Each clock has a Read, its time as an integer that never    *)
(* wraps, and the remote a Lead over micros() of the host. All steps of    *)
(* the clocks are of one form, GoOn(d, e): time passes by d and the remote *)
(* is put e further. The invariant follows the error of the remote around  *)
(* the exchange: the request holds what its clock will show, what the host *)
(* owes and the reply hold what is to be added, and one of the three is    *)
(* out at a time. A frame of a link began in the slot of its sender by the *)
(* Read of the host, and all clocks go on alike while it is on.            *)
(*                                                                         *)
(* The seconds of the RTC are masked, and when they roll over a clock      *)
(* jumps by what is no multiple of Wrap; NoRollOver keeps the time that is *)
(* modelled below that. A build on micros() alone needs no such bound.     *)
(***************************************************************************)
EXTENDS DuplexLink, TLAPS

----------------------------------------------------------------------------
(* Counters that wrap *)

\* Two integers that are one number to a counter of this width.
Cong(a, b) == \E k \in Int : a = b + k * Wrap

\* At most n from zero, as a counter has it.
Near(x, n) == \E d \in Int : -n <= d /\ d <= n /\ Cong(x, d)

LEMMA WidthType ==
  /\ Wrap \in Nat /\ Wrap > 0 /\ Wrap \div 2 \in Nat
  /\ Wrap \div 2 + Wrap \div 2 = Wrap /\ 1 < Wrap
BY ClockAssumption

LEMMA ModType ==
  ASSUME NEW x \in Int
  PROVE  x % Wrap \in Unsigned /\ x % Wrap \in Int
BY ClockAssumption DEF Unsigned

LEMMA CongEqual ==
  ASSUME NEW a \in Int
  PROVE  Cong(a, a)
<1>1. a = a + 0 * Wrap
  BY ClockAssumption
<1> QED
  BY <1>1 DEF Cong

LEMMA CongSym ==
  ASSUME NEW a \in Int, NEW b \in Int, Cong(a, b)
  PROVE  Cong(b, a)
<1>1. PICK k \in Int : a = b + k * Wrap
  BY DEF Cong
<1>2. b = a + (-k) * Wrap
  BY <1>1, ClockAssumption
<1> QED
  BY <1>2 DEF Cong

LEMMA CongTrans ==
  ASSUME NEW a \in Int, NEW b \in Int, NEW c \in Int, Cong(a, b), Cong(b, c)
  PROVE  Cong(a, c)
<1>1. PICK k \in Int : a = b + k * Wrap
  BY DEF Cong
<1>2. PICK l \in Int : b = c + l * Wrap
  BY DEF Cong
<1>3. a = c + (k + l) * Wrap
  BY <1>1, <1>2, ClockAssumption
<1> QED
  BY <1>3 DEF Cong

LEMMA CongAdd ==
  ASSUME NEW a \in Int, NEW b \in Int, NEW c \in Int, NEW d \in Int, Cong(a, b), Cong(c, d)
  PROVE  Cong(a + c, b + d) /\ Cong(a - c, b - d)
<1>1. PICK k \in Int : a = b + k * Wrap
  BY DEF Cong
<1>2. PICK l \in Int : c = d + l * Wrap
  BY DEF Cong
<1>3. a + c = (b + d) + (k + l) * Wrap /\ a - c = (b - d) + (k - l) * Wrap
  BY <1>1, <1>2, ClockAssumption
<1> QED
  BY <1>3 DEF Cong

LEMMA CongMod ==
  ASSUME NEW x \in Int
  PROVE  Cong(x % Wrap, x)
<1>1. x = Wrap * (x \div Wrap) + (x % Wrap) /\ x \div Wrap \in Int /\ x % Wrap \in Int
  BY ClockAssumption
<1>2. x % Wrap = x + (-(x \div Wrap)) * Wrap
  BY <1>1, ClockAssumption
<1> QED
  BY <1>1, <1>2 DEF Cong

\* A counter tells congruent integers not apart.
LEMMA CongUnique ==
  ASSUME NEW a \in Unsigned, NEW b \in Unsigned, Cong(a, b)
  PROVE  a = b
<1>1. PICK k \in Int : a = b + k * Wrap
  BY DEF Cong
<1>2. CASE k >= 1
  <2>1. k * Wrap >= Wrap
    BY <1>2, ClockAssumption
  <2> QED
    BY <1>1, <2>1, ClockAssumption DEF Unsigned
<1>3. CASE k <= -1
  <2>1. k * Wrap <= -Wrap
    BY <1>3, ClockAssumption
  <2> QED
    BY <1>1, <2>1, ClockAssumption DEF Unsigned
<1> QED
  BY <1>1, <1>2, <1>3, ClockAssumption DEF Unsigned

LEMMA ModEqual ==
  ASSUME NEW a \in Int, NEW b \in Int, Cong(a, b)
  PROVE  a % Wrap = b % Wrap
<1>1. Cong(a % Wrap, a) /\ Cong(b, b % Wrap)
  BY CongMod, CongSym, ModType
<1>2. Cong(a % Wrap, b % Wrap)
  BY <1>1, CongTrans, ModType
<1> QED
  BY <1>2, CongUnique, ModType

LEMMA SignedType ==
  ASSUME NEW x \in Int
  PROVE  /\ Signed(x) \in Int /\ Signed(x) \in -Wrap .. Wrap
         /\ -(Wrap \div 2) <= Signed(x) /\ Signed(x) < Wrap \div 2
BY ModType, WidthType DEF Signed, Unsigned

LEMMA SignedCong ==
  ASSUME NEW x \in Int
  PROVE  Cong(Signed(x), x)
<1>1. Cong(x % Wrap, x) /\ x % Wrap \in Int
  BY CongMod, ModType
<1>2. Cong(-Wrap, 0)
  <2>1. -Wrap = 0 + (-1) * Wrap
    BY ClockAssumption
  <2> QED
    BY <2>1 DEF Cong
<1>3. Cong((x % Wrap) + (-Wrap), x + 0)
  BY <1>1, <1>2, CongAdd, ClockAssumption
<1>4. (x % Wrap) + (-Wrap) = (x % Wrap) - Wrap /\ x + 0 = x
  BY <1>1, ClockAssumption
<1> QED
  BY <1>1, <1>3, <1>4 DEF Signed

\* Read as an int32_t, a number is the least of those it could stand for.
LEMMA SignedIsLeast ==
  ASSUME NEW x \in Int, NEW n \in Int, Near(x, n)
  PROVE  Abs(Signed(x)) <= n
<1>1. PICK d \in Int : -n <= d /\ d <= n /\ Cong(x, d)
  BY DEF Near
<1> DEFINE s == Signed(x)
<1>2. s \in Int /\ -(Wrap \div 2) <= s /\ s < Wrap \div 2 /\ Cong(s, d)
  BY <1>1, SignedType, SignedCong, CongTrans
<1> HIDE DEF s
<1>3. PICK k \in Int : s = d + k * Wrap
  BY <1>2 DEF Cong
<1>4. CASE k >= 1
  <2>1. k * Wrap >= Wrap
    BY <1>4, ClockAssumption
  <2> QED
    BY <1>1, <1>2, <1>3, <2>1, WidthType DEF Abs, s
<1>5. CASE k <= -1
  <2>1. k * Wrap <= -Wrap
    BY <1>5, ClockAssumption
  <2> QED
    BY <1>1, <1>2, <1>3, <2>1, WidthType DEF Abs, s
<1>6. CASE k = 0
  BY <1>1, <1>2, <1>3, <1>6, ClockAssumption DEF Abs, s
<1> QED
  BY <1>4, <1>5, <1>6

LEMMA NearCong ==
  ASSUME NEW x \in Int, NEW y \in Int, NEW n \in Int, Cong(x, y), Near(y, n)
  PROVE  Near(x, n)
<1>1. PICK d \in Int : -n <= d /\ d <= n /\ Cong(y, d)
  BY DEF Near
<1>2. Cong(x, d)
  BY <1>1, CongTrans
<1> QED
  BY <1>1, <1>2 DEF Near

LEMMA NearMore ==
  ASSUME NEW x \in Int, NEW n \in Int, NEW m \in Int, Near(x, n), n <= m
  PROVE  Near(x, m)
<1>1. PICK d \in Int : -n <= d /\ d <= n /\ Cong(x, d)
  BY DEF Near
<1>2. -m <= d /\ d <= m
  BY <1>1
<1> QED
  BY <1>1, <1>2 DEF Near

----------------------------------------------------------------------------
(* Types *)

\* What a frame carries is of its kind.
PayloadInv ==
  \A n \in Ends : OnAir(n) =>
    /\ air[n].kind = "Request" => air[n].payload \in Unsigned
    /\ air[n].kind = "Reply" => air[n].payload \in -Wrap .. Wrap

LEMMA EndsType == Host \in Ends /\ Remote \in Ends /\ Host # Remote /\ Ends = {Host, Remote}
BY DEF Ends, Host, Remote

LEMMA ReadingType ==
  ASSUME NEW c \in Clocks, NEW m \in Unsigned
  PROVE  /\ GetCurrentsMicros(c, m) \in Unsigned
         /\ GetSyncMicros(c, m) \in Unsigned /\ GetSyncMicrosOf(c, m) \in Unsigned
<1>1. /\ c.offset \in Int /\ c.lastTick \in Int /\ c.lastSeconds \in Int /\ m \in Int
      /\ c.lastSeconds % SecondsRange \in Int
  BY ClockAssumption DEF Clocks, Unsigned
<1>2. (c.lastSeconds % SecondsRange) * Second + m - c.lastTick \in Int
  BY <1>1, ClockAssumption
<1>3. GetCurrentsMicros(c, m) \in Unsigned
  BY <1>2, ModType DEF GetCurrentsMicros
<1>4. GetCurrentsMicros(c, m) + c.offset \in Int /\ m + c.offset \in Int
  BY <1>1, <1>3, ClockAssumption DEF Unsigned
<1> QED
  BY <1>3, <1>4, ModType DEF GetSyncMicros, GetSyncMicrosOf

LEMMA SyncType ==
  ASSUME TypeOK
  PROVE  /\ \A n \in Ends : SyncMicros(n) \in Unsigned /\ SyncMicros(n) \in Int
         /\ ClockError \in Int /\ ClockError \in -Wrap .. Wrap
<1>1. \A n \in Ends : SyncMicros(n) \in Unsigned /\ SyncMicros(n) \in Int
  BY ReadingType, ClockAssumption DEF SyncMicros, TypeOK, Unsigned
<1>2. SyncMicros(Remote) - SyncMicros(Host) \in Int
  BY <1>1, EndsType
<1> QED
  BY <1>1, <1>2, SignedType DEF ClockError

LEMMA SettingsType ==
  /\ ETTM \in Int /\ HalfPeriod \in Nat /\ HalfPeriod + HalfPeriod = Period
  /\ AirTime \in Nat /\ Latency \in Nat /\ Latency <= AirTime /\ 0 < Latency
BY DuplexAssumption, ClockAssumption DEF ETTM, ETTMOf, HalfPeriod

LEMMA InitType == Init => TypeOK
<1> SUFFICES ASSUME Init PROVE TypeOK
  OBVIOUS
<1>1. PICK source \in Builds, m \in FirstMicros, p \in RtcPhases, offset \in HostOffsets :
        /\ micros = [n \in Ends |-> IF n = Host THEN m[1] ELSE m[2]]
        /\ rtc = [n \in Ends |-> IF n = Host THEN p[1] ELSE p[2]]
        /\ clock = [n \in Ends |-> IF n = Host THEN InitialClock(source, m[1], p[1], offset)
                                   ELSE InitialClock(source, m[2], p[2], 0)]
  BY DEF Init
<1>2. /\ source \in Sources /\ offset \in Unsigned
      /\ m[1] \in Unsigned /\ m[2] \in Unsigned /\ m[1] \in Int /\ m[2] \in Int
      /\ p[1] \in 0 .. Second /\ p[2] \in 0 .. Second
  BY DuplexAssumption, ClockAssumption DEF Unsigned
<1>3. 0 \in Unsigned /\ 1 \in Unsigned
  BY WidthType DEF Unsigned
<1>4. ASSUME NEW x \in Int, NEW next \in 0 .. Second, NEW o \in Unsigned
      PROVE  InitialClock(source, x, next, o) \in Clocks
  <2>1. (x - (Second - next)) % Wrap \in Unsigned
    BY ModType, ClockAssumption
  <2> QED
    BY <1>2, <1>3, <2>1 DEF InitialClock, Clocks
<1>5. clock \in [Ends -> Clocks]
  <2>1. /\ InitialClock(source, m[1], p[1], offset) \in Clocks
        /\ InitialClock(source, m[2], p[2], 0) \in Clocks
    BY <1>2, <1>3, <1>4
  <2> QED
    BY <1>1, <2>1
<1>6. /\ now \in 0 .. Horizon /\ slips \in 0 .. MaxSlips /\ goodCount \in 0 .. MinClockSamples + 1
      /\ linked \in BOOLEAN /\ requested \in BOOLEAN
      /\ reply \in (-Wrap .. Wrap) \cup {None} /\ air \in [Ends -> Frames \cup {None}]
  <2>1. /\ now = 0 /\ slips = 0 /\ goodCount = 0 /\ linked = FALSE /\ requested = FALSE
        /\ reply = None /\ air = [n \in Ends |-> None]
    BY DEF Init
  <2>2. 0 \in 0 .. Horizon /\ 0 \in 0 .. MaxSlips /\ 0 \in 0 .. MinClockSamples + 1
    BY DuplexAssumption
  <2> QED
    BY <2>1, <2>2
<1>7. micros \in [Ends -> Unsigned]
  BY <1>1, <1>2
<1>8. rtc \in [Ends -> 0 .. Second]
  BY <1>1, <1>2
<1> QED
  BY <1>5, <1>6, <1>7, <1>8 DEF TypeOK

LEMMA FrameType ==
  ASSUME TypeOK, NEW kind \in {"Request", "Reply", "Data"},
         NEW payload \in Unsigned \cup (-Wrap .. Wrap) \cup {None}
  PROVE  [kind |-> kind, payload |-> payload, age |-> 0, error |-> ClockError] \in Frames
BY SyncType, SettingsType DEF Frames

LEMMA LandedType ==
  ASSUME TypeOK, NEW n \in Ends, Landed(n)
  PROVE  air' \in [Ends -> Frames \cup {None}]
BY DEF TypeOK, Landed

\* The error the host tells the remote, for an estimate it has received.
LEMMA EstimationType ==
  ASSUME TypeOK, NEW estimate \in Unsigned
  PROVE  /\ EstimationError(estimate) \in -Wrap .. Wrap
         /\ Cong(EstimationError(estimate),
                 micros[Host] - (AirTime - Latency) + clock[Host].offset - estimate)
<1> DEFINE past == micros[Host] - (AirTime - Latency)
           offset == clock[Host].offset
<1>1. past \in Int /\ offset \in Int /\ estimate \in Int
  BY EndsType, SettingsType DEF TypeOK, Unsigned, Clocks
<1> HIDE DEF past, offset
<1>2. /\ past % Wrap \in Int /\ Cong(past % Wrap, past)
      /\ ((past % Wrap) + offset) % Wrap \in Int
      /\ Cong(((past % Wrap) + offset) % Wrap, (past % Wrap) + offset)
  BY <1>1, ModType, CongMod
<1>3. Cong((past % Wrap) + offset, past + offset)
  BY <1>1, <1>2, CongAdd, CongEqual
<1>4. Cong(((past % Wrap) + offset) % Wrap, past + offset)
  BY <1>1, <1>2, <1>3, CongTrans
<1>5. Cong((((past % Wrap) + offset) % Wrap) - estimate, past + offset - estimate)
  BY <1>1, <1>2, <1>4, CongAdd, CongEqual
<1>6. EstimationError(estimate) = Signed((((past % Wrap) + offset) % Wrap) - estimate)
  BY DEF EstimationError, GetSyncMicrosOf, ReceivedMicros, past, offset
<1>7. (((past % Wrap) + offset) % Wrap) - estimate \in Int
  BY <1>1, <1>2
<1>8. /\ EstimationError(estimate) \in -Wrap .. Wrap /\ EstimationError(estimate) \in Int
      /\ Cong(EstimationError(estimate), (((past % Wrap) + offset) % Wrap) - estimate)
  BY <1>6, <1>7, SignedType, SignedCong
<1>9. Cong(EstimationError(estimate), past + offset - estimate)
  BY <1>1, <1>5, <1>7, <1>8, CongTrans
<1> QED
  BY <1>8, <1>9 DEF past, offset

LEMMA AddOffsetType ==
  ASSUME NEW c \in Clocks, NEW offset \in Int
  PROVE  AddOffsetMicros(c, offset) \in Clocks
<1>1. (c.offset + offset) % Wrap \in Unsigned
  BY ModType DEF Clocks, Unsigned
<1> QED
  BY <1>1 DEF AddOffsetMicros, Clocks

LEMMA NextType ==
  ASSUME TypeOK, PayloadInv, [Next]_vars
  PROVE  TypeOK'
<1>1. CASE UNCHANGED vars
  BY <1>1 DEF vars, TypeOK
<1>2. CASE Tick
  <2>1. now' \in 0 .. Horizon
    BY <1>2, DuplexAssumption DEF Tick, TypeOK
  <2>2. micros' \in [Ends -> Unsigned]
    <3>1. \A n \in Ends : (micros[n] + 1) % Wrap \in Unsigned
      BY ModType, ClockAssumption DEF TypeOK, Unsigned
    <3> QED
      BY <1>2, <3>1 DEF Tick
  <2>3. rtc' \in [Ends -> 0 .. Second]
    BY <1>2, ClockAssumption DEF Tick, TypeOK
  <2>4. air' \in [Ends -> Frames \cup {None}]
    <3>1. ASSUME NEW n \in Ends, OnAir(n)
          PROVE  [air[n] EXCEPT !.age = @ + 1] \in Frames
      <4>1. air[n] \in Frames /\ air[n].age < AirTime
        BY <1>2, <3>1 DEF Tick, TypeOK, OnAir
      <4>2. air[n].age + 1 \in 0 .. AirTime
        BY <4>1, SettingsType DEF Frames
      <4> QED
        BY <4>1, <4>2 DEF Frames
    <3> QED
      BY <1>2, <3>1 DEF Tick
  <2> QED
    BY <1>2, <2>1, <2>2, <2>3, <2>4 DEF Tick, TypeOK
<1>3. CASE Slip
  <2>1. slips' \in 0 .. MaxSlips
    BY <1>3, DuplexAssumption DEF Slip, TypeOK
  <2>2. PICK d \in {-1, 1} : micros' = [micros EXCEPT ![Remote] = (@ + d) % Wrap]
    BY <1>3 DEF Slip
  <2>3. (micros[Remote] + d) % Wrap \in Unsigned
    BY EndsType, ModType, ClockAssumption DEF TypeOK, Unsigned
  <2> QED
    BY <1>3, <2>1, <2>2, <2>3 DEF Slip, TypeOK
<1>4. ASSUME NEW n \in Ends, RtcInterrupt(n) PROVE TypeOK'
  <2>1. (clock[n].lastSeconds + 1) % Wrap \in Unsigned
    BY ModType, ClockAssumption DEF TypeOK, Clocks, Unsigned
  <2>2. OnInterrupt(clock[n], micros[n]) \in Clocks
    BY <2>1 DEF OnInterrupt, TypeOK, Clocks
  <2>3. Second \in 0 .. Second
    BY ClockAssumption
  <2> QED
    BY <1>4, <2>2, <2>3 DEF RtcInterrupt, TypeOK
<1>5. ASSUME NEW n \in Ends, SendData(n) PROVE TypeOK'
  BY <1>5, FrameType DEF SendData, Transmit, TypeOK
<1>6. ASSUME NEW n \in Ends, LeaveAir(n) PROVE TypeOK'
  BY <1>6, LandedType DEF LeaveAir, TypeOK
<1>7. CASE Link
  BY <1>7 DEF Link, TypeOK
<1>8. CASE RemoteRequests
  <2>1. (SyncMicros(Remote) + ETTM) % Wrap \in Unsigned
    BY SyncType, EndsType, SettingsType, ModType
  <2>2. air' \in [Ends -> Frames \cup {None}]
    BY <1>8, <2>1, FrameType DEF RemoteRequests, Transmit, TypeOK
  <2> QED
    BY <1>8, <2>2 DEF RemoteRequests, TypeOK
<1>9. CASE HostReceivesRequest
  <2> DEFINE error == EstimationError(air[Remote].payload)
  <2>1. reply' = error /\ OnEstimationReceived(error)
    BY <1>9 DEF HostReceivesRequest
  <2> HIDE DEF error
  <2>2. error \in -Wrap .. Wrap
    BY <1>9, EndsType, EstimationType DEF HostReceivesRequest, Arrived, PayloadInv, error
  <2>3. goodCount' \in 0 .. MinClockSamples + 1
    BY <2>1, DuplexAssumption DEF OnEstimationReceived, IsSynced, TypeOK
  <2>4. air' \in [Ends -> Frames \cup {None}]
    BY <1>9, LandedType, EndsType DEF HostReceivesRequest
  <2> QED
    BY <1>9, <2>1, <2>2, <2>3, <2>4 DEF HostReceivesRequest, TypeOK
<1>10. CASE HostReplies
  <2>1. air' \in [Ends -> Frames \cup {None}]
    BY <1>10, FrameType DEF HostReplies, Transmit, TypeOK
  <2> QED
    BY <1>10, <2>1 DEF HostReplies, TypeOK
<1>11. CASE RemoteReceivesReply
  <2>1. air' \in [Ends -> Frames \cup {None}]
    BY <1>11, LandedType, EndsType DEF RemoteReceivesReply
  <2>2. AddOffsetMicros(clock[Remote], air[Host].payload) \in Clocks
    <3>1. air[Host].payload \in Int
      BY <1>11, EndsType, WidthType DEF RemoteReceivesReply, Arrived, PayloadInv
    <3> QED
      BY <3>1, EndsType, AddOffsetType DEF TypeOK
  <2> QED
    BY <1>11, <2>1, <2>2 DEF RemoteReceivesReply, TypeOK
<1> QED
  BY <1>1, <1>2, <1>3, <1>4, <1>5, <1>6, <1>7, <1>8, <1>9, <1>10, <1>11 DEF Next

LEMMA NextPayload ==
  ASSUME TypeOK, PayloadInv, [Next]_vars
  PROVE  PayloadInv'
<1>1. ASSUME NEW m \in Ends, NEW kind, NEW payload, Transmit(m, kind, payload),
             kind = "Request" => payload \in Unsigned,
             kind = "Reply" => payload \in -Wrap .. Wrap
      PROVE  PayloadInv'
  BY <1>1 DEF Transmit, PayloadInv, OnAir, TypeOK
<1>2. ASSUME NEW m \in Ends, Landed(m) PROVE PayloadInv'
  BY <1>2 DEF Landed, PayloadInv, OnAir, TypeOK
<1>3. ASSUME UNCHANGED air PROVE PayloadInv'
  BY <1>3 DEF PayloadInv, OnAir
<1>4. CASE Tick
  <2>1. ASSUME NEW n \in Ends, air'[n] # None
        PROVE  /\ air[n] # None
               /\ air'[n].kind = air[n].kind /\ air'[n].payload = air[n].payload
    BY <1>4, <2>1 DEF Tick, OnAir, TypeOK, Frames
  <2> QED
    BY <2>1 DEF PayloadInv, OnAir
<1>5. CASE RemoteRequests
  <2>1. (SyncMicros(Remote) + ETTM) % Wrap \in Unsigned
    BY SyncType, EndsType, SettingsType, ModType
  <2> QED
    BY <1>1, <1>5, <2>1, EndsType DEF RemoteRequests
<1>6. CASE HostReplies
  <2>1. reply \in -Wrap .. Wrap
    BY <1>6 DEF HostReplies, TypeOK
  <2> QED
    BY <1>1, <1>6, <2>1, EndsType DEF HostReplies
<1>7. ASSUME NEW n \in Ends, SendData(n) PROVE PayloadInv'
  BY <1>1, <1>7 DEF SendData
<1>8. ASSUME NEW n \in Ends, LeaveAir(n) PROVE PayloadInv'
  BY <1>2, <1>8 DEF LeaveAir
<1>9. CASE HostReceivesRequest \/ RemoteReceivesReply
  BY <1>2, <1>9, EndsType DEF HostReceivesRequest, RemoteReceivesReply
<1>10. CASE UNCHANGED vars \/ Slip \/ Link \/ \E n \in Ends : RtcInterrupt(n)
  BY <1>3, <1>10 DEF vars, Slip, Link, RtcInterrupt
<1> QED
  BY <1>4, <1>5, <1>6, <1>7, <1>8, <1>9, <1>10 DEF Next

----------------------------------------------------------------------------
(* The clocks *)

\* The time of a clock, as if its counters did not wrap.
Reading(c, m) ==
  m + c.offset + IF IsRTC(c) THEN c.lastSeconds * Second - c.lastTick ELSE 0

Read(n) == Reading(clock[n], micros[n])

\* What the remote follows, and how far it is ahead of it.
HostMicros == micros[Host] + clock[Host].offset
Lead == Read(Remote) - HostMicros

\* The seconds of an RTC are counted below their mask as long as time runs.
NoRollOver == "RTC" \in Builds => Horizon + 2 * Second < SecondsRange * Second

\* An RTC goes on with micros(), and has counted no more seconds than went by.
RtcInv ==
  \A n \in Ends : IsRTC(clock[n]) =>
    /\ "RTC" \in Builds
    /\ Cong(micros[n] - clock[n].lastTick, Second - rtc[n])
    /\ clock[n].lastSeconds * Second + Second - rtc[n] <= now + 2 * Second

\* The clocks go on by d, that of the remote by e more.
GoOn(d, e) ==
  /\ Cong(HostMicros', HostMicros + d)
  /\ Cong(Read(Host)', Read(Host) + d)
  /\ Cong(Read(Remote)', Read(Remote) + d + e)

LEMMA TimesType ==
  ASSUME TypeOK
  PROVE  /\ \A n \in Ends : Read(n) \in Int /\ micros[n] \in Int /\ rtc[n] \in Int
         /\ \A n \in Ends : clock[n].offset \in Int /\ clock[n].lastTick \in Int
                            /\ clock[n].lastSeconds \in Int /\ clock[n].lastSeconds >= 0
         /\ \A n \in Ends : clock[n].lastSeconds * Second \in Int
         /\ HostMicros \in Int /\ Lead \in Int
         /\ Second \in Int /\ Second > 0 /\ now \in Int
<1>1. \A n \in Ends : /\ micros[n] \in Int /\ rtc[n] \in Int
                      /\ clock[n].offset \in Int /\ clock[n].lastTick \in Int
                      /\ clock[n].lastSeconds \in Int /\ clock[n].lastSeconds >= 0
  BY DEF TypeOK, Clocks, Unsigned
<1>2. Second \in Int /\ Second > 0 /\ now \in Int
  BY ClockAssumption, DuplexAssumption DEF TypeOK
<1>3. \A n \in Ends : clock[n].lastSeconds * Second \in Int
  BY <1>1, <1>2
<1>4. \A n \in Ends : Read(n) \in Int
  BY <1>1, <1>3 DEF Read, Reading
<1> QED
  BY <1>1, <1>2, <1>3, <1>4, EndsType DEF HostMicros, Lead

LEMMA NotRolled ==
  ASSUME TypeOK, RtcInv, NoRollOver, NEW n \in Ends, IsRTC(clock[n])
  PROVE  /\ clock[n].lastSeconds < SecondsRange
         /\ rtc[n] = 0 => clock[n].lastSeconds + 1 < SecondsRange
<1> DEFINE k == clock[n].lastSeconds
<1>1. /\ k \in Int /\ Second \in Int /\ Second > 0 /\ SecondsRange \in Int
      /\ rtc[n] \in 0 .. Second /\ now \in Int /\ now <= Horizon /\ Horizon \in Int
  BY TimesType, ClockAssumption, DuplexAssumption DEF TypeOK
<1>2. k * Second + Second - rtc[n] <= now + 2 * Second
  BY DEF RtcInv
<1>3. Horizon + 2 * Second < SecondsRange * Second
  BY DEF NoRollOver, RtcInv
<1> HIDE DEF k
<1>4. k * Second \in Int /\ SecondsRange * Second \in Int
  BY <1>1
<1>5. k * Second < SecondsRange * Second
  BY <1>1, <1>2, <1>3, <1>4
<1>6. k < SecondsRange
  <2>1. k >= SecondsRange => k * Second >= SecondsRange * Second
    BY <1>1
  <2> QED
    BY <1>1, <1>4, <1>5, <2>1
<1>7. ASSUME rtc[n] = 0 PROVE k + 1 < SecondsRange
  <2>1. (k + 1) * Second = k * Second + Second
    BY <1>1
  <2>2. (k + 1) * Second < SecondsRange * Second
    BY <1>1, <1>2, <1>3, <1>4, <1>7, <2>1
  <2>3. k + 1 >= SecondsRange => (k + 1) * Second >= SecondsRange * Second
    BY <1>1
  <2> QED
    BY <1>1, <1>4, <2>1, <2>2, <2>3
<1> QED
  BY <1>6, <1>7 DEF k

\* GetSyncMicros is the time of the clock until the seconds roll over.
LEMMA SyncIsReading ==
  ASSUME TypeOK, RtcInv, NoRollOver, NEW n \in Ends
  PROVE  Cong(SyncMicros(n), Read(n))
<1> DEFINE c == clock[n]
           m == micros[n]
           current == GetCurrentsMicros(c, m)
           whole == IF IsRTC(c) THEN c.lastSeconds * Second + m - c.lastTick ELSE m
<1>1. /\ c \in Clocks /\ m \in Unsigned /\ m \in Int /\ c.offset \in Int /\ c.lastTick \in Int
      /\ c.lastSeconds \in Int /\ c.lastSeconds >= 0 /\ c.lastSeconds * Second \in Int
  BY TimesType DEF TypeOK
<1>2. whole \in Int /\ current \in Int
  BY <1>1, ReadingType, ClockAssumption DEF Unsigned
<1>3. Cong(current, whole)
  <2>1. CASE IsRTC(c)
    <3>1. c.lastSeconds < SecondsRange
      BY <2>1, NotRolled
    <3>2. c.lastSeconds % SecondsRange = c.lastSeconds
      BY <1>1, <3>1, ClockAssumption
    <3> QED
      BY <1>1, <1>2, <2>1, <3>2, CongMod DEF GetCurrentsMicros
  <2>2. CASE ~IsRTC(c)
    BY <1>1, <2>2, CongEqual DEF GetCurrentsMicros
  <2> QED
    BY <2>1, <2>2
<1>4. Read(n) = whole + c.offset
  BY <1>1 DEF Read, Reading
<1>5. SyncMicros(n) = (current + c.offset) % Wrap
  BY DEF SyncMicros, GetSyncMicros
<1> HIDE DEF c, m, current, whole
<1>6. Cong(current + c.offset, whole + c.offset)
  BY <1>1, <1>2, <1>3, CongAdd, CongEqual
<1>7. Cong((current + c.offset) % Wrap, current + c.offset) /\ (current + c.offset) % Wrap \in Int
  BY <1>1, <1>2, CongMod, ModType
<1> QED
  BY <1>1, <1>2, <1>4, <1>5, <1>6, <1>7, CongTrans

LEMMA InitClocks == Init => RtcInv
<1> SUFFICES ASSUME Init, NEW n \in Ends, IsRTC(clock[n])
             PROVE  /\ "RTC" \in Builds
                    /\ Cong(micros[n] - clock[n].lastTick, Second - rtc[n])
                    /\ clock[n].lastSeconds * Second + Second - rtc[n] <= now + 2 * Second
  BY DEF RtcInv
<1>1. PICK source \in Builds, m \in FirstMicros, p \in RtcPhases, offset \in HostOffsets :
        /\ micros = [e \in Ends |-> IF e = Host THEN m[1] ELSE m[2]]
        /\ rtc = [e \in Ends |-> IF e = Host THEN p[1] ELSE p[2]]
        /\ clock = [e \in Ends |-> IF e = Host THEN InitialClock(source, m[1], p[1], offset)
                                   ELSE InitialClock(source, m[2], p[2], 0)]
  BY DEF Init
<1>2. PICK o : clock[n] = InitialClock(source, micros[n], rtc[n], o)
  BY <1>1
<1>3. /\ clock[n].lastTick = (micros[n] - (Second - rtc[n])) % Wrap
      /\ clock[n].lastSeconds = 1 /\ source = "RTC"
  BY <1>2 DEF InitialClock, IsRTC
<1>4. micros[n] \in Int /\ rtc[n] \in 0 .. Second /\ Second \in Int
  BY InitType, TimesType, ClockAssumption DEF TypeOK
<1>5. micros[n] - (Second - rtc[n]) \in Int
  BY <1>4
<1>6. /\ Cong(clock[n].lastTick, micros[n] - (Second - rtc[n]))
      /\ clock[n].lastTick \in Int
  BY <1>3, <1>5, CongMod, ModType
<1>7. Cong(micros[n] - clock[n].lastTick, micros[n] - (micros[n] - (Second - rtc[n])))
  BY <1>4, <1>5, <1>6, CongAdd, CongEqual
<1>8. micros[n] - (micros[n] - (Second - rtc[n])) = Second - rtc[n]
  BY <1>4
<1>9. now = 0
  BY DEF Init
<1> QED
  BY <1>3, <1>4, <1>7, <1>8, <1>9

LEMMA CongShift ==
  ASSUME NEW a \in Int, NEW b \in Int, NEW c \in Int, Cong(a, b)
  PROVE  /\ Cong(a + c, b + c) /\ Cong(a - c, b - c)
         /\ Cong(c + a, c + b) /\ Cong(c - a, c - b)
<1>1. Cong(c, c)
  BY CongEqual
<1> QED
  BY <1>1, CongAdd

\* A clock on a counter that goes on by d, or that is given d, does the same.
LEMMA GoesOn ==
  ASSUME NEW m \in Int, NEW w \in Int, NEW d \in Int, NEW k \in Int, Cong(w, m + d),
         NEW x, NEW y, x = m + k, y = w + k
  PROVE  Cong(y, x + d)
<1>1. PICK j \in Int : w = m + d + j * Wrap
  BY DEF Cong
<1>2. y = (x + d) + j * Wrap
  BY <1>1, ClockAssumption
<1> QED
  BY <1>2 DEF Cong

LEMMA StillClocks ==
  ASSUME TypeOK, RtcInv, UNCHANGED <<now, micros, clock, rtc>>
  PROVE  RtcInv' /\ GoOn(0, 0)
<1>1. RtcInv'
  BY DEF RtcInv
<1>2. /\ HostMicros' = HostMicros + 0
      /\ Read(Host)' = Read(Host) + 0 /\ Read(Remote)' = Read(Remote) + 0 + 0
  BY TimesType, EndsType DEF HostMicros, Read
<1>3. HostMicros' \in Int /\ Read(Host)' \in Int /\ Read(Remote)' \in Int
  BY <1>2, TimesType, EndsType
<1> QED
  BY <1>1, <1>2, <1>3, CongEqual DEF GoOn

LEMMA TickClocks ==
  ASSUME TypeOK, RtcInv, Tick
  PROVE  RtcInv' /\ GoOn(1, 0)
<1>1. /\ UNCHANGED clock /\ now' = now + 1
      /\ \A n \in Ends : /\ Cong(micros'[n], micros[n] + 1) /\ micros'[n] \in Int
                         /\ IsRTC(clock[n]) => rtc'[n] = rtc[n] - 1
  <2>1. /\ UNCHANGED clock /\ now' = now + 1
        /\ \A n \in Ends : /\ micros'[n] = (micros[n] + 1) % Wrap
                           /\ IsRTC(clock[n]) => rtc'[n] = rtc[n] - 1
    BY DEF Tick
  <2>2. \A n \in Ends : /\ (micros[n] + 1) % Wrap \in Int
                        /\ Cong((micros[n] + 1) % Wrap, micros[n] + 1)
    BY TimesType, ModType, CongMod
  <2> QED
    BY <2>1, <2>2
<1>2. RtcInv'
  <2> SUFFICES ASSUME NEW n \in Ends, IsRTC(clock[n])
               PROVE  /\ Cong(micros'[n] - clock[n].lastTick, Second - rtc'[n])
                      /\ clock[n].lastSeconds * Second + Second - rtc'[n] <= now' + 2 * Second
    BY <1>1 DEF RtcInv
  <2>1. /\ micros[n] \in Int /\ rtc[n] \in Int /\ clock[n].lastTick \in Int
        /\ clock[n].lastSeconds * Second \in Int /\ Second \in Int /\ now \in Int
    BY TimesType
  <2>2. /\ Cong(micros[n] - clock[n].lastTick, Second - rtc[n])
        /\ clock[n].lastSeconds * Second + Second - rtc[n] <= now + 2 * Second
    BY DEF RtcInv
  <2>3. PICK j \in Int : micros'[n] = micros[n] + 1 + j * Wrap
    BY <1>1 DEF Cong
  <2>4. PICK l \in Int : micros[n] - clock[n].lastTick = Second - rtc[n] + l * Wrap
    BY <2>2 DEF Cong
  <2>5. micros'[n] - clock[n].lastTick = (Second - rtc'[n]) + (j + l) * Wrap
    <3>1. j * Wrap \in Int /\ l * Wrap \in Int /\ (j + l) * Wrap = j * Wrap + l * Wrap
      BY ClockAssumption
    <3>2. rtc'[n] = rtc[n] - 1
      BY <1>1
    <3> QED
      BY <2>1, <2>3, <2>4, <3>1, <3>2
  <2>6. Cong(micros'[n] - clock[n].lastTick, Second - rtc'[n])
    BY <2>5 DEF Cong
  <2> QED
    BY <1>1, <2>1, <2>2, <2>6
<1>3. ASSUME NEW n \in Ends PROVE Cong(Read(n)', Read(n) + 1)
  <2> DEFINE k == clock[n].offset
                    + IF IsRTC(clock[n]) THEN clock[n].lastSeconds * Second - clock[n].lastTick ELSE 0
  <2>1. micros[n] \in Int /\ k \in Int
    BY TimesType
  <2>2. Read(n) = micros[n] + k /\ Read(n)' = micros'[n] + k
    BY <1>1, TimesType DEF Read, Reading
  <2> HIDE DEF k
  <2> QED
    BY <1>1, <2>1, <2>2, GoesOn
<1>4. Cong(HostMicros', HostMicros + 1)
  <2>1. PICK j \in Int : micros'[Host] = micros[Host] + 1 + j * Wrap
    BY <1>1, EndsType DEF Cong
  <2>2. HostMicros' = (HostMicros + 1) + j * Wrap
    BY <1>1, <2>1, TimesType, EndsType, ClockAssumption DEF HostMicros
  <2> QED
    BY <2>2 DEF Cong
<1>5. Read(Remote) + 1 + 0 = Read(Remote) + 1
  BY TimesType, EndsType
<1> QED
  BY <1>2, <1>3, <1>4, <1>5, EndsType DEF GoOn

LEMMA SlipClocks ==
  ASSUME TypeOK, RtcInv, Slip
  PROVE  RtcInv' /\ \E e \in {-1, 1} : GoOn(0, e)
<1>1. PICK e \in {-1, 1} : micros' = [micros EXCEPT ![Remote] = (@ + e) % Wrap]
  BY DEF Slip
<1>2. /\ UNCHANGED <<clock, now, rtc>> /\ ~IsRTC(clock[Remote])
      /\ micros'[Host] = micros[Host] /\ micros'[Remote] = (micros[Remote] + e) % Wrap
  BY <1>1, EndsType DEF Slip, TypeOK
<1>3. RtcInv'
  BY <1>2, EndsType DEF RtcInv
<1>4. /\ Read(Host)' = Read(Host) + 0 /\ HostMicros' = HostMicros + 0
      /\ Read(Host)' \in Int /\ HostMicros' \in Int
  BY <1>2, TimesType, EndsType DEF Read, HostMicros
<1>5. /\ Read(Remote) = micros[Remote] + clock[Remote].offset
      /\ Read(Remote)' = micros'[Remote] + clock[Remote].offset
      /\ micros'[Remote] \in Int /\ Cong(micros'[Remote], micros[Remote] + e)
      /\ Read(Remote) + 0 + e = micros[Remote] + clock[Remote].offset + e
  <2>1. micros'[Remote] \in Int /\ Cong(micros'[Remote], micros[Remote] + e)
    BY <1>2, TimesType, EndsType, ModType, CongMod
  <2> QED
    BY <1>2, <2>1, TimesType, EndsType DEF Read, Reading
<1>6. Cong(Read(Remote)', Read(Remote) + 0 + e)
  <2> DEFINE m == micros[Remote]
             w == micros'[Remote]
             k == clock[Remote].offset
  <2>1. m \in Int /\ w \in Int /\ k \in Int /\ e \in Int /\ Cong(w, m + e)
    BY <1>5, TimesType, EndsType
  <2>2. Read(Remote) = m + k /\ Read(Remote)' = w + k /\ Read(Remote) + 0 = Read(Remote)
    BY <1>5, TimesType, EndsType
  <2> HIDE DEF m, w, k
  <2> QED
    BY <2>1, <2>2, GoesOn
<1> QED
  BY <1>3, <1>4, <1>6, CongEqual DEF GoOn

LEMMA InterruptClocks ==
  ASSUME TypeOK, RtcInv, NoRollOver, NEW n \in Ends, RtcInterrupt(n)
  PROVE  RtcInv' /\ GoOn(0, 0)
<1> DEFINE c == clock[n]
           d == clock'[n]
<1>1. /\ IsRTC(c) /\ rtc[n] = 0 /\ UNCHANGED <<now, micros>>
      /\ d = OnInterrupt(c, micros[n]) /\ rtc'[n] = Second
      /\ \A m \in Ends \ {n} : clock'[m] = clock[m] /\ rtc'[m] = rtc[m]
  BY DEF RtcInterrupt, TypeOK
<1>2. /\ micros[n] \in Int /\ c.lastSeconds \in Int /\ c.lastSeconds >= 0 /\ c.offset \in Int
      /\ c.lastTick \in Int /\ c.lastSeconds * Second \in Int /\ Second \in Int /\ now \in Int
      /\ SecondsRange <= Wrap /\ SecondsRange \in Int /\ Wrap \in Int
  BY TimesType, ClockAssumption
<1>3. /\ d.source = c.source /\ d.offset = c.offset /\ d.lastTick = micros[n]
      /\ d.lastSeconds = c.lastSeconds + 1
  <2>1. c.lastSeconds + 1 < Wrap
    BY <1>1, <1>2, NotRolled
  <2>2. (c.lastSeconds + 1) % Wrap = c.lastSeconds + 1
    <3> HIDE DEF c
    <3> QED
      BY <1>2, <2>1
  <2> QED
    BY <1>1, <2>2 DEF OnInterrupt, TypeOK, Clocks
<1>4. (c.lastSeconds + 1) * Second = c.lastSeconds * Second + Second
  BY <1>2
<1>5. /\ Cong(micros[n] - c.lastTick, Second - 0)
      /\ c.lastSeconds * Second + Second - 0 <= now + 2 * Second
  BY <1>1 DEF RtcInv
<1>6. RtcInv'
  <2>1. micros[n] - micros[n] = 0 /\ Second - Second = 0
    BY <1>2
  <2>2. d.lastSeconds * Second + Second - Second <= now + 2 * Second
    BY <1>2, <1>3, <1>4, <1>5
  <2>3. Cong(micros[n] - d.lastTick, Second - Second)
    BY <1>2, <1>3, <2>1, CongEqual
  <2> QED
    BY <1>1, <2>2, <2>3 DEF RtcInv
<1>7. Cong(Read(n)', Read(n))
  <2> DEFINE k == clock[n].offset + c.lastSeconds * Second
  <2>1. Read(n) = k + (micros[n] - c.lastTick) /\ Read(n)' = k + Second
    BY <1>1, <1>2, <1>3, <1>4 DEF Read, Reading, IsRTC
  <2>2. k \in Int /\ micros[n] - c.lastTick \in Int /\ Second - 0 = Second
    BY <1>2
  <2> HIDE DEF k, c
  <2>3. Cong(k + (micros[n] - c.lastTick), k + Second)
    BY <1>2, <1>5, <2>2, CongAdd, CongEqual
  <2> QED
    BY <1>2, <2>1, <2>2, <2>3, CongSym
<1>8. \A m \in Ends \ {n} : Read(m)' = Read(m)
  BY <1>1 DEF Read
<1>9. \A m \in Ends : Cong(Read(m)', Read(m))
  BY <1>7, <1>8, TimesType, CongEqual
<1>10. HostMicros' = HostMicros
  <2>1. \A m \in Ends : clock'[m].offset = clock[m].offset
    BY <1>1, <1>3
  <2> QED
    BY <1>1, <2>1, EndsType DEF HostMicros
<1>11. /\ HostMicros + 0 = HostMicros /\ Read(Host) + 0 = Read(Host)
       /\ Read(Remote) + 0 + 0 = Read(Remote)
  BY TimesType, EndsType
<1> QED
  BY <1>6, <1>9, <1>10, <1>11, TimesType, EndsType, CongEqual DEF GoOn

LEMMA ReplyClocks ==
  ASSUME TypeOK, PayloadInv, RtcInv, RemoteReceivesReply
  PROVE  RtcInv' /\ GoOn(0, air[Host].payload)
<1> DEFINE e == air[Host].payload
           c == clock[Remote]
           d == clock'[Remote]
<1>1. e \in Int
  BY EndsType, WidthType DEF RemoteReceivesReply, Arrived, PayloadInv
<1>2. /\ UNCHANGED <<now, micros, rtc>> /\ d = AddOffsetMicros(c, e)
      /\ clock'[Host] = clock[Host]
  BY EndsType DEF RemoteReceivesReply, TypeOK
<1>3. /\ d.source = c.source /\ d.lastTick = c.lastTick /\ d.lastSeconds = c.lastSeconds
      /\ d.offset = (c.offset + e) % Wrap
  BY <1>2, EndsType DEF AddOffsetMicros, TypeOK, Clocks
<1>4. c.offset \in Int /\ d.offset \in Int /\ Cong(d.offset, c.offset + e)
  BY <1>1, <1>3, TimesType, EndsType, ModType, CongMod
<1>5. RtcInv'
  BY <1>2, <1>3, EndsType DEF RtcInv, IsRTC
<1>6. /\ Read(Host)' = Read(Host) + 0 /\ HostMicros' = HostMicros + 0
      /\ Read(Host)' \in Int /\ HostMicros' \in Int
  BY <1>2, TimesType, EndsType DEF Read, HostMicros
<1>7. Cong(Read(Remote)', Read(Remote) + 0 + e)
  <2> DEFINE k == micros[Remote] + IF IsRTC(c) THEN c.lastSeconds * Second - c.lastTick ELSE 0
  <2>1. k \in Int
    BY TimesType, EndsType
  <2>2. Read(Remote) = c.offset + k /\ Read(Remote)' = d.offset + k
    BY <1>2, <1>3, <1>4, TimesType, EndsType DEF Read, Reading, IsRTC
  <2> HIDE DEF k, c, d, e
  <2>3. Read(Remote) + 0 + e = c.offset + k + e
    BY <1>1, <1>4, <2>1, <2>2
  <2> QED
    BY <1>1, <1>3, <1>4, <2>1, <2>2, <2>3, GoesOn
<1> QED
  BY <1>5, <1>6, <1>7, CongEqual DEF GoOn

LEMMA NextClocks ==
  ASSUME TypeOK, PayloadInv, RtcInv, NoRollOver, [Next]_vars
  PROVE  RtcInv'
<1>1. CASE UNCHANGED vars
  BY <1>1, StillClocks DEF vars
<1>2. CASE Tick \/ Slip \/ RemoteReceivesReply \/ \E n \in Ends : RtcInterrupt(n)
  BY <1>2, TickClocks, SlipClocks, ReplyClocks, InterruptClocks
<1>3. CASE Link \/ RemoteRequests \/ HostReceivesRequest \/ HostReplies
  BY <1>3, StillClocks DEF Link, RemoteRequests, HostReceivesRequest, HostReplies
<1>4. CASE \E n \in Ends : SendData(n) \/ LeaveAir(n)
  BY <1>4, StillClocks DEF SendData, LeaveAir
<1> QED
  BY <1>1, <1>2, <1>3, <1>4 DEF Next

----------------------------------------------------------------------------
(* The inductive invariant *)

Sent(n, kind) == OnAir(n) /\ air[n].kind = kind

\* What an estimate is off by when the latency is not what was estimated.
Slack == Abs(Latency - ETTM)

\* One thing of the exchange is out at a time: the request, what the host has
\* to reply, or the reply.
OutInv ==
  /\ Sent(Remote, "Request") => requested /\ reply = None /\ ~Sent(Host, "Reply")
  /\ reply # None => requested /\ ~Sent(Host, "Reply")
  /\ Sent(Host, "Reply") => requested
  /\ linked => IsSynced
  /\ IsSynced => MaxTuneError > 0

\* What is out tells the error of the remote: the request what its clock shows
\* when it is sent, the reply what it is to add, up to the slack of an estimation
\* and the slips since.
RequestError == Near((air[Remote].payload - ETTM + air[Remote].age) - HostMicros - Lead, slips)
DebtError == Near(reply + Lead, Slack + slips)
ReplyError == Near(air[Host].payload + Lead, Slack + slips)
LeadError == Near(Lead, MaxTuneError - 1 + Slack + slips)

ErrorInv ==
  /\ Sent(Remote, "Request") => RequestError
  /\ reply # None => DebtError
  /\ Sent(Host, "Reply") => ReplyError
  /\ IsSynced => LeadError

\* A frame of a link that began with exact clocks began in the slot of its
\* sender, by the clock of the host.
SlotInv ==
  \A n \in Ends : linked /\ OnAir(n) /\ air[n].error = 0 =>
    SendSlot(EvenSlot(n), ((Read(Host) - air[n].age + ETTM) % Wrap) % Period, ETTM)

DuplexInv == TypeOK /\ PayloadInv /\ RtcInv /\ OutInv /\ ErrorInv /\ SlotInv

----------------------------------------------------------------------------
(* The exchange *)

LEMMA LandedAir ==
  ASSUME TypeOK, NEW n \in Ends, Landed(n)
  PROVE  air'[n] = None /\ \A m \in Ends \ {n} : air'[m] = air[m]
BY DEF TypeOK, Landed

LEMMA TransmitAir ==
  ASSUME TypeOK, NEW n \in Ends, NEW kind \in {"Request", "Reply", "Data"},
         NEW payload \in Unsigned \cup (-Wrap .. Wrap) \cup {None}, Transmit(n, kind, payload)
  PROVE  /\ ~OnAir(n) /\ air'[n] # None
         /\ air'[n].kind = kind /\ air'[n].payload = payload
         /\ air'[n].age = 0 /\ air'[n].error = ClockError
         /\ \A m \in Ends \ {n} : air'[m] = air[m]
<1>1. [kind |-> kind, payload |-> payload, age |-> 0, error |-> ClockError] # None
  BY FrameType, NoneAssumption
<1> QED
  BY <1>1 DEF Transmit, AllowedSend, TypeOK

LEMMA TickAir ==
  ASSUME TypeOK, Tick
  PROVE  \A n \in Ends : /\ OnAir(n)' <=> OnAir(n)
                         /\ OnAir(n) => /\ air'[n].kind = air[n].kind
                                        /\ air'[n].payload = air[n].payload
                                        /\ air'[n].error = air[n].error
                                        /\ air'[n].age = air[n].age + 1
<1> SUFFICES ASSUME NEW n \in Ends
             PROVE  /\ OnAir(n)' <=> OnAir(n)
                    /\ OnAir(n) => /\ air'[n].kind = air[n].kind
                                   /\ air'[n].payload = air[n].payload
                                   /\ air'[n].error = air[n].error
                                   /\ air'[n].age = air[n].age + 1
  OBVIOUS
<1>1. air'[n] = IF OnAir(n) THEN [air[n] EXCEPT !.age = @ + 1] ELSE None
  BY DEF Tick
<1>2. OnAir(n) => air[n] \in Frames
  BY DEF OnAir, TypeOK
<1>3. OnAir(n) => [air[n] EXCEPT !.age = @ + 1] # None
  <2>1. ASSUME OnAir(n) PROVE [air[n] EXCEPT !.age = @ + 1] \in Frames
    <3>1. air[n].age + 1 \in 0 .. AirTime
      BY <1>2, <2>1, SettingsType DEF Tick, Frames
    <3> QED
      BY <1>2, <2>1, <3>1 DEF Frames
  <2> QED
    BY <2>1, NoneAssumption
<1> QED
  BY <1>1, <1>2, <1>3 DEF OnAir, Frames

LEMMA NextOut ==
  ASSUME TypeOK, PayloadInv, OutInv, [Next]_vars
  PROVE  OutInv'
<1>1. CASE UNCHANGED vars
  BY <1>1 DEF vars, OutInv, Sent, OnAir, IsSynced
<1>2. CASE Tick
  <2>1. \A n \in Ends, kind \in {"Request", "Reply"} : Sent(n, kind)' <=> Sent(n, kind)
    BY <1>2, TickAir DEF Sent
  <2> QED
    BY <1>2, <2>1, EndsType DEF Tick, OutInv, IsSynced
<1>3. CASE Slip \/ \E n \in Ends : RtcInterrupt(n)
  BY <1>3 DEF Slip, RtcInterrupt, OutInv, Sent, OnAir, IsSynced
<1>4. CASE Link
  BY <1>4, EndsType DEF Link, OutInv, Sent, OnAir, IsSynced
<1>5. ASSUME NEW n \in Ends, SendData(n) PROVE OutInv'
  <2>1. Transmit(n, "Data", None)
    BY <1>5 DEF SendData
  <2>2. /\ air'[n].kind = "Data" /\ ~OnAir(n) /\ \A m \in Ends \ {n} : air'[m] = air[m]
    BY <2>1, TransmitAir
  <2>3. \A m \in Ends, kind \in {"Request", "Reply"} : Sent(m, kind)' <=> Sent(m, kind)
    BY <2>2 DEF Sent, OnAir
  <2> QED
    BY <1>5, <2>3, EndsType DEF SendData, OutInv, IsSynced
<1>6. ASSUME NEW n \in Ends, LeaveAir(n) PROVE OutInv'
  <2>1. \A m \in Ends, kind \in {"Request", "Reply"} : Sent(m, kind)' => Sent(m, kind)
    BY <1>6, LandedAir DEF LeaveAir, Sent, OnAir
  <2> QED
    BY <1>6, <2>1, EndsType DEF LeaveAir, OutInv, IsSynced
<1>7. CASE RemoteRequests
  <2>1. (SyncMicros(Remote) + ETTM) % Wrap \in Unsigned
    BY SyncType, EndsType, SettingsType, ModType
  <2>2. /\ ~requested /\ requested' = TRUE /\ UNCHANGED <<reply, linked, goodCount>>
        /\ Transmit(Remote, "Request", (SyncMicros(Remote) + ETTM) % Wrap)
    BY <1>7 DEF RemoteRequests
  <2>3. air'[Host] = air[Host]
    BY <2>1, <2>2, TransmitAir, EndsType
  <2> QED
    BY <2>2, <2>3 DEF OutInv, Sent, OnAir, IsSynced
<1>8. CASE HostReceivesRequest
  <2> DEFINE error == EstimationError(air[Remote].payload)
  <2>1. /\ Sent(Remote, "Request") /\ Landed(Remote) /\ UNCHANGED <<linked, requested>>
        /\ OnEstimationReceived(error)
    BY <1>8 DEF HostReceivesRequest, Arrived, Sent
  <2>2. air'[Remote] = None /\ air'[Host] = air[Host]
    BY <2>1, LandedAir, EndsType
  <2>3. /\ linked' => IsSynced'
        /\ IsSynced' => MaxTuneError > 0
    <3>1. error \in Int
      BY <2>1, EndsType, EstimationType, WidthType DEF Sent, PayloadInv
    <3> HIDE DEF error
    <3>2. goodCount \in Int /\ MinClockSamples \in Nat /\ MaxTuneError \in Nat
      BY DuplexAssumption DEF TypeOK
    <3> QED
      BY <2>1, <3>1, <3>2 DEF OnEstimationReceived, OutInv, IsSynced, Abs
  <2> QED
    BY <2>1, <2>2, <2>3 DEF OutInv, Sent, OnAir
<1>9. CASE HostReplies
  <2>1. /\ reply # None /\ reply' = None /\ UNCHANGED <<linked, goodCount, requested>>
        /\ Transmit(Host, "Reply", reply)
    BY <1>9 DEF HostReplies
  <2>2. reply \in -Wrap .. Wrap
    BY <2>1 DEF TypeOK
  <2>3. air'[Remote] = air[Remote]
    BY <2>1, <2>2, TransmitAir, EndsType
  <2> QED
    BY <2>1, <2>3 DEF OutInv, Sent, OnAir, IsSynced
<1>10. CASE RemoteReceivesReply
  <2>1. /\ Sent(Host, "Reply") /\ Landed(Host) /\ UNCHANGED <<linked, goodCount, reply>>
        /\ requested' = FALSE
    BY <1>10 DEF RemoteReceivesReply, Arrived, Sent
  <2>2. air'[Host] = None /\ air'[Remote] = air[Remote]
    BY <2>1, LandedAir, EndsType
  <2> QED
    BY <2>1, <2>2 DEF OutInv, Sent, OnAir, IsSynced
<1> QED
  BY <1>1, <1>2, <1>3, <1>4, <1>5, <1>6, <1>7, <1>8, <1>9, <1>10 DEF Next

LEMMA NearMoved ==
  ASSUME NEW h \in Int, NEW i \in Int, NEW l \in Int, NEW m \in Int, NEW d \in Int, NEW e \in Int,
         Cong(i, h + d), Cong(m, l + e), NEW n \in Int, NEW k \in Int, -k <= e, e <= k,
         NEW x \in Int
  PROVE  /\ Near(x - h - l, n) => Near(x + d - i - m, n + k)
         /\ Near(x + l, n) => Near(x + m, n + k)
         /\ Near(l, n) => Near(m, n + k)
<1>1. PICK a \in Int : i = h + d + a * Wrap
  BY DEF Cong
<1>2. PICK b \in Int : m = l + e + b * Wrap
  BY DEF Cong
<1>3. ASSUME NEW f \in Int, -n <= f, f <= n
      PROVE  /\ f - e \in Int /\ -(n + k) <= f - e /\ f - e <= n + k
             /\ f + e \in Int /\ -(n + k) <= f + e /\ f + e <= n + k
  BY <1>3
<1>4. ASSUME Near(x - h - l, n) PROVE Near(x + d - i - m, n + k)
  <2>1. PICK f \in Int, c \in Int : -n <= f /\ f <= n /\ x - h - l = f + c * Wrap
    BY <1>4 DEF Near, Cong
  <2>2. x + d - i - m = (f - e) + (c - a - b) * Wrap
    BY <1>1, <1>2, <2>1, ClockAssumption
  <2> QED
    BY <1>3, <2>1, <2>2 DEF Near, Cong
<1>5. ASSUME Near(x + l, n) PROVE Near(x + m, n + k)
  <2>1. PICK f \in Int, c \in Int : -n <= f /\ f <= n /\ x + l = f + c * Wrap
    BY <1>5 DEF Near, Cong
  <2>2. x + m = (f + e) + (c + b) * Wrap
    BY <1>2, <2>1, ClockAssumption
  <2> QED
    BY <1>3, <2>1, <2>2 DEF Near, Cong
<1>6. ASSUME Near(l, n) PROVE Near(m, n + k)
  <2>1. PICK f \in Int, c \in Int : -n <= f /\ f <= n /\ l = f + c * Wrap
    BY <1>6 DEF Near, Cong
  <2>2. m = (f + e) + (c + b) * Wrap
    BY <1>2, <2>1, ClockAssumption
  <2> QED
    BY <1>3, <2>1, <2>2 DEF Near, Cong
<1> QED
  BY <1>4, <1>5, <1>6

LEMMA SlackType ==
  ASSUME TypeOK
  PROVE  /\ Slack \in Int /\ 0 <= Slack /\ -Slack <= Latency - ETTM /\ Latency - ETTM <= Slack
         /\ slips \in Int /\ 0 <= slips /\ MaxTuneError \in Int
BY SettingsType, DuplexAssumption DEF Slack, Abs, TypeOK

LEMMA SentType ==
  ASSUME TypeOK, PayloadInv
  PROVE  /\ Sent(Remote, "Request") => /\ air[Remote].payload \in Unsigned
                                       /\ air[Remote].payload \in Int /\ air[Remote].age \in Int
         /\ Sent(Host, "Reply") => air[Host].payload \in Int
         /\ reply # None => reply \in Int
BY WidthType, EndsType, SettingsType DEF TypeOK, PayloadInv, Sent, OnAir, Frames, Unsigned

\* What the steps of the clocks do to what the remote is ahead by.
LEMMA LeadGoesOn ==
  ASSUME TypeOK, TypeOK', NEW d \in Int, NEW e \in Int, GoOn(d, e)
  PROVE  /\ HostMicros' \in Int /\ Lead' \in Int
         /\ Cong(HostMicros', HostMicros + d) /\ Cong(Lead', Lead + e)
<1>1. /\ HostMicros \in Int /\ Read(Remote) \in Int /\ Lead = Read(Remote) - HostMicros
  BY TimesType, EndsType DEF Lead
<1>2. /\ micros'[Host] \in Int /\ clock'[Host].offset \in Int
      /\ micros'[Remote] \in Int /\ clock'[Remote].offset \in Int
      /\ clock'[Remote].lastSeconds \in Int /\ clock'[Remote].lastTick \in Int
  BY EndsType DEF TypeOK, Clocks, Unsigned
<1>3. HostMicros' \in Int
  BY <1>2 DEF HostMicros
<1>4. Read(Remote)' \in Int
  <2>1. clock'[Remote].lastSeconds * Second \in Int
    BY <1>2, ClockAssumption
  <2> QED
    BY <1>2, <2>1 DEF Read, Reading
<1>5. Lead' = Read(Remote)' - HostMicros'
  BY DEF Lead
<1>6. PICK a \in Int : HostMicros' = HostMicros + d + a * Wrap
  BY DEF GoOn, Cong
<1>7. PICK b \in Int : Read(Remote)' = Read(Remote) + d + e + b * Wrap
  BY DEF GoOn, Cong
<1>8. Lead' = (Lead + e) + (b - a) * Wrap
  <2>1. a * Wrap \in Int /\ b * Wrap \in Int /\ (b - a) * Wrap = b * Wrap - a * Wrap
    BY ClockAssumption
  <2> QED
    BY <1>1, <1>5, <1>6, <1>7, <2>1
<1>9. Cong(Lead', Lead + e)
  BY <1>8 DEF Cong
<1> QED
  BY <1>3, <1>4, <1>5, <1>9 DEF GoOn

\* A step that goes on with what is out keeps the errors as the clocks do; what
\* it puts out itself, or settles, is left to it.
LEMMA MovedErrors ==
  ASSUME TypeOK, PayloadInv, ErrorInv, TypeOK',
         NEW d \in Int, NEW e \in Int, NEW k \in Int,
         GoOn(d, e), -k <= e, e <= k, slips' = slips + k,
         Sent(Remote, "Request")' =>
           \/ RequestError'
           \/ /\ Sent(Remote, "Request")
              /\ air'[Remote].payload = air[Remote].payload
              /\ air'[Remote].age = air[Remote].age + d,
         reply' # None => DebtError' \/ reply' = reply,
         Sent(Host, "Reply")' =>
           ReplyError' \/ (Sent(Host, "Reply") /\ air'[Host].payload = air[Host].payload),
         IsSynced' => LeadError' \/ IsSynced
  PROVE  ErrorInv'
<1> DEFINE h == HostMicros
           l == Lead
           i == HostMicros'
           m == Lead'
<1>1. /\ h \in Int /\ l \in Int /\ i \in Int /\ m \in Int
      /\ Cong(i, h + d) /\ Cong(m, l + e)
  BY LeadGoesOn, TimesType
<1>2. /\ slips \in Int /\ Slack \in Int /\ Slack + slips \in Int
      /\ MaxTuneError - 1 + Slack + slips \in Int
      /\ Slack + slips' = Slack + slips + k
      /\ MaxTuneError - 1 + Slack + slips' = MaxTuneError - 1 + Slack + slips + k
  BY SlackType
<1>3. Slack' = Slack
  BY DEF Slack
<1> HIDE DEF h, l, i, m
<1>4. ASSUME NEW n \in Int, NEW x \in Int
      PROVE  /\ Near(x - h - l, n) => Near(x + d - i - m, n + k)
             /\ Near(x + l, n) => Near(x + m, n + k)
             /\ Near(l, n) => Near(m, n + k)
  BY <1>1, NearMoved
<1>5. ASSUME Sent(Remote, "Request")' PROVE RequestError'
  <2> SUFFICES ASSUME Sent(Remote, "Request"), air'[Remote].payload = air[Remote].payload,
                      air'[Remote].age = air[Remote].age + d
               PROVE  RequestError'
    BY <1>5
  <2> DEFINE x == air[Remote].payload - ETTM + air[Remote].age
             y == air'[Remote].payload - ETTM + air'[Remote].age
  <2>1. x \in Int /\ y = x + d
    BY SentType, SettingsType
  <2>2. Near(x - h - l, slips)
    <3>1. RequestError
      BY DEF ErrorInv
    <3> QED
      BY <3>1 DEF RequestError, h, l
  <2>3. RequestError' = Near(y - i - m, slips')
    <3>1. ETTM' = ETTM
      BY DEF ETTM
    <3> QED
      BY <3>1 DEF RequestError, i, m
  <2> HIDE DEF x, y
  <2>4. Near(x + d - i - m, slips + k)
    BY <1>2, <1>4, <2>1, <2>2
  <2>5. x + d - i - m = y - i - m
    BY <1>1, <2>1
  <2> QED
    BY <1>2, <2>3, <2>4, <2>5
<1>6. ASSUME reply' # None PROVE DebtError'
  <2> SUFFICES ASSUME reply' = reply PROVE DebtError'
    BY <1>6
  <2>1. reply \in Int /\ Near(reply + l, Slack + slips)
    BY <1>6, SentType DEF ErrorInv, DebtError, l
  <2>2. Near(reply + m, Slack + slips + k)
    BY <1>2, <1>4, <2>1
  <2> QED
    BY <1>2, <1>3, <2>2 DEF DebtError, m
<1>7. ASSUME Sent(Host, "Reply")' PROVE ReplyError'
  <2> SUFFICES ASSUME Sent(Host, "Reply"), air'[Host].payload = air[Host].payload
               PROVE  ReplyError'
    BY <1>7
  <2>1. air[Host].payload \in Int /\ Near(air[Host].payload + l, Slack + slips)
    BY SentType DEF ErrorInv, ReplyError, l
  <2>2. Near(air[Host].payload + m, Slack + slips + k)
    BY <1>2, <1>4, <2>1
  <2> QED
    BY <1>2, <1>3, <2>2 DEF ReplyError, m
<1>8. ASSUME IsSynced' PROVE LeadError'
  <2> SUFFICES ASSUME IsSynced PROVE LeadError'
    BY <1>8
  <2>1. Near(l, MaxTuneError - 1 + Slack + slips)
    BY DEF ErrorInv, LeadError, l
  <2>2. Near(m, MaxTuneError - 1 + Slack + slips + k)
    BY <1>2, <1>4, <2>1
  <2> QED
    BY <1>2, <1>3, <2>2 DEF LeadError, m
<1> QED
  BY <1>5, <1>6, <1>7, <1>8 DEF ErrorInv

\* A request tells the time of the remote when the estimated transmission time
\* has gone by.
LEMMA RequestTells ==
  ASSUME TypeOK, RtcInv, NoRollOver
  PROVE  LET p == (SyncMicros(Remote) + ETTM) % Wrap
         IN  Near((p - ETTM + 0) - HostMicros - Lead, slips)
<1> DEFINE s == SyncMicros(Remote)
           p == (s + ETTM) % Wrap
           r == Read(Remote)
<1>1. /\ s \in Int /\ r \in Int /\ Cong(s, r) /\ ETTM \in Int
      /\ HostMicros \in Int /\ Lead \in Int /\ r = HostMicros + Lead
  BY SyncType, SyncIsReading, TimesType, EndsType, SettingsType DEF Lead
<1> HIDE DEF s, r
<1>2. s + ETTM \in Int
  BY <1>1
<1>3. p \in Int /\ Cong(p, s + ETTM)
  BY <1>2, ModType, CongMod
<1> HIDE DEF p
<1>4. PICK a \in Int : p = s + ETTM + a * Wrap
  BY <1>3 DEF Cong
<1>5. PICK b \in Int : s = r + b * Wrap
  BY <1>1 DEF Cong
<1>6. (p - ETTM + 0) - HostMicros - Lead = 0 + (a + b) * Wrap
  <2>1. a * Wrap \in Int /\ b * Wrap \in Int /\ (a + b) * Wrap = a * Wrap + b * Wrap
    BY ClockAssumption
  <2> QED
    BY <1>1, <1>3, <1>4, <1>5, <2>1
<1>7. Near((p - ETTM + 0) - HostMicros - Lead, slips)
  BY <1>6, SlackType DEF Near, Cong
<1> QED
  BY <1>7 DEF p, s

\* What the host estimates is what the remote is behind by, but for the slack
\* and for the slips since the request was sent.
LEMMA EstimationTells ==
  ASSUME TypeOK, PayloadInv, Sent(Remote, "Request"), air[Remote].age = AirTime, RequestError
  PROVE  Near(EstimationError(air[Remote].payload) + Lead, Slack + slips)
<1> DEFINE p == air[Remote].payload
           m == micros[Host]
           o == clock[Host].offset
           error == EstimationError(p)
<1>1. /\ p \in Unsigned /\ p \in Int /\ m \in Int /\ o \in Int /\ Lead \in Int
      /\ ETTM \in Int /\ AirTime \in Int /\ Latency \in Int
  BY SentType, TimesType, EndsType, SettingsType
<1>2. error \in Int /\ Cong(error, m - (AirTime - Latency) + o - p)
  BY <1>1, EstimationType, WidthType
<1>3. Near((p - ETTM + AirTime) - (m + o) - Lead, slips)
  BY DEF RequestError, HostMicros
<1> HIDE DEF p, m, o, error
<1>4. PICK f \in Int, c \in Int :
        -slips <= f /\ f <= slips /\ (p - ETTM + AirTime) - (m + o) - Lead = f + c * Wrap
  BY <1>3 DEF Near, Cong
<1>5. PICK b \in Int : error = (m - (AirTime - Latency) + o - p) + b * Wrap
  BY <1>2 DEF Cong
<1> DEFINE d == (Latency - ETTM) - f
<1>6. d \in Int /\ -(Slack + slips) <= d /\ d <= Slack + slips
  BY <1>1, <1>4, SlackType
<1>7. error + Lead = d + (b - c) * Wrap
  <2>1. b * Wrap \in Int /\ c * Wrap \in Int /\ (b - c) * Wrap = b * Wrap - c * Wrap
    BY ClockAssumption
  <2> QED
    BY <1>1, <1>2, <1>4, <1>5, <2>1
<1> HIDE DEF d
<1>8. Near(error + Lead, Slack + slips)
  BY <1>6, <1>7 DEF Near, Cong
<1> QED
  BY <1>8 DEF error, p

\* A good estimation says that the remote is near.
LEMMA GoodEstimation ==
  ASSUME NEW error \in Int, NEW l \in Int, NEW n \in Int, Near(error + l, n),
         NEW t \in Int, Abs(error) < t
  PROVE  Near(l, t - 1 + n)
<1>1. PICK f \in Int, c \in Int : -n <= f /\ f <= n /\ error + l = f + c * Wrap
  BY DEF Near, Cong
<1>2. l = (f - error) + c * Wrap
  BY <1>1, ClockAssumption
<1>3. f - error \in Int /\ -(t - 1 + n) <= f - error /\ f - error <= t - 1 + n
  BY <1>1 DEF Abs
<1> QED
  BY <1>2, <1>3 DEF Near, Cong

LEMMA NextErrors ==
  ASSUME TypeOK, PayloadInv, RtcInv, NoRollOver, OutInv, ErrorInv, TypeOK', [Next]_vars
  PROVE  ErrorInv'
<1>0. slips \in Int /\ slips + 0 = slips /\ Slack' = Slack
  BY SlackType DEF Slack
\* The steps that do not touch the clocks.
<1>1. ASSUME UNCHANGED <<now, micros, clock, rtc, slips>>,
             Sent(Remote, "Request")' =>
               RequestError' \/ (Sent(Remote, "Request") /\ air'[Remote] = air[Remote]),
             reply' # None => DebtError' \/ reply' = reply,
             Sent(Host, "Reply")' =>
               ReplyError' \/ (Sent(Host, "Reply") /\ air'[Host] = air[Host]),
             IsSynced' => LeadError' \/ IsSynced
      PROVE  ErrorInv'
  <2>1. GoOn(0, 0)
    BY <1>1, StillClocks
  <2>2. Sent(Remote, "Request") => air[Remote].age = air[Remote].age + 0
    BY SentType
  <2> QED
    BY <1>0, <1>1, <2>1, <2>2, MovedErrors
<1>2. ASSUME UNCHANGED <<micros, clock>> PROVE HostMicros' = HostMicros /\ Lead' = Lead
  BY <1>2 DEF HostMicros, Lead, Read
<1>3. CASE UNCHANGED vars
  BY <1>1, <1>3 DEF vars, Sent, OnAir, IsSynced
<1>4. CASE Tick
  <2>1. /\ Sent(Remote, "Request")' => /\ Sent(Remote, "Request")
                                       /\ air'[Remote].payload = air[Remote].payload
                                       /\ air'[Remote].age = air[Remote].age + 1
        /\ Sent(Host, "Reply")' => /\ Sent(Host, "Reply")
                                   /\ air'[Host].payload = air[Host].payload
    BY <1>4, TickAir, EndsType DEF Sent
  <2>2. slips' = slips + 0 /\ reply' = reply /\ (IsSynced' => IsSynced)
    BY <1>0, <1>4 DEF Tick, IsSynced
  <2>3. GoOn(1, 0)
    BY <1>4, TickClocks
  <2> QED
    BY <2>1, <2>2, <2>3, MovedErrors
<1>5. CASE Slip
  <2>1. PICK e \in {-1, 1} : GoOn(0, e)
    BY <1>5, SlipClocks
  <2>2. slips' = slips + 1 /\ UNCHANGED <<reply, air, goodCount>>
    BY <1>5 DEF Slip
  <2>3. Sent(Remote, "Request") => air[Remote].age = air[Remote].age + 0
    BY SentType
  <2>4. e \in Int /\ -1 <= e /\ e <= 1
    OBVIOUS
  <2> QED
    BY <2>1, <2>2, <2>3, <2>4, MovedErrors DEF Sent, OnAir, IsSynced
<1>6. ASSUME NEW n \in Ends, RtcInterrupt(n) PROVE ErrorInv'
  <2>1. GoOn(0, 0)
    BY <1>6, InterruptClocks
  <2>2. slips' = slips + 0 /\ UNCHANGED <<reply, air, goodCount>>
    BY <1>0, <1>6 DEF RtcInterrupt
  <2>3. Sent(Remote, "Request") => air[Remote].age = air[Remote].age + 0
    BY SentType
  <2> QED
    BY <2>1, <2>2, <2>3, MovedErrors DEF Sent, OnAir, IsSynced
<1>7. CASE Link
  BY <1>1, <1>7, EndsType DEF Link, Sent, OnAir, IsSynced
<1>8. ASSUME NEW n \in Ends, SendData(n) PROVE ErrorInv'
  <2>1. air'[n].kind = "Data" /\ \A m \in Ends \ {n} : air'[m] = air[m]
    BY <1>8, TransmitAir DEF SendData
  <2>2. \A m \in Ends, kind \in {"Request", "Reply"} :
          Sent(m, kind)' => Sent(m, kind) /\ air'[m] = air[m]
    BY <2>1 DEF Sent, OnAir
  <2> QED
    BY <1>1, <1>8, <2>2, EndsType DEF SendData, IsSynced
<1>9. ASSUME NEW n \in Ends, LeaveAir(n) PROVE ErrorInv'
  <2>1. \A m \in Ends, kind \in {"Request", "Reply"} :
          Sent(m, kind)' => Sent(m, kind) /\ air'[m] = air[m]
    BY <1>9, LandedAir DEF LeaveAir, Sent, OnAir
  <2> QED
    BY <1>1, <1>9, <2>1, EndsType DEF LeaveAir, IsSynced
<1>10. CASE RemoteRequests
  <2> DEFINE p == (SyncMicros(Remote) + ETTM) % Wrap
  <2>1. /\ Transmit(Remote, "Request", p)
        /\ UNCHANGED <<now, micros, clock, rtc, slips, reply, goodCount>>
    BY <1>10 DEF RemoteRequests
  <2>2. p \in Unsigned
    BY SyncType, EndsType, SettingsType, ModType
  <2>3. Near((p - ETTM + 0) - HostMicros - Lead, slips)
    BY RequestTells
  <2> HIDE DEF p
  <2>4. air'[Remote].payload = p /\ air'[Remote].age = 0 /\ air'[Host] = air[Host]
    BY <2>1, <2>2, TransmitAir, EndsType
  <2>5. RequestError'
    <3>1. ETTM' = ETTM
      BY DEF ETTM
    <3> QED
      BY <1>2, <2>1, <2>3, <2>4, <3>1 DEF RequestError
  <2> QED
    BY <1>1, <2>1, <2>4, <2>5 DEF Sent, OnAir, IsSynced
<1>11. CASE HostReceivesRequest
  <2> DEFINE error == EstimationError(air[Remote].payload)
  <2>1. /\ Sent(Remote, "Request") /\ air[Remote].age = AirTime /\ Landed(Remote)
        /\ reply' = error /\ OnEstimationReceived(error)
        /\ UNCHANGED <<now, micros, clock, rtc, slips>>
    BY <1>11 DEF HostReceivesRequest, Arrived, Sent
  <2>2. error \in Int
    BY <2>1, SentType, EstimationType, WidthType
  <2>3. Near(error + Lead, Slack + slips)
    BY <2>1, EstimationTells DEF ErrorInv
  <2> HIDE DEF error
  <2>4. Lead' = Lead /\ slips' = slips
    BY <1>2, <2>1
  <2>5. DebtError'
    BY <1>0, <2>1, <2>3, <2>4 DEF DebtError
  <2>6. ASSUME IsSynced', ~IsSynced PROVE LeadError'
    <3>1. Abs(error) < MaxTuneError
      BY <2>1, <2>6, DuplexAssumption DEF OnEstimationReceived, IsSynced
    <3>2. /\ Lead \in Int /\ Slack \in Int /\ slips \in Int /\ Slack + slips \in Int
          /\ MaxTuneError \in Int
          /\ MaxTuneError - 1 + Slack + slips = MaxTuneError - 1 + (Slack + slips)
      BY SlackType, TimesType
    <3>3. Near(Lead, MaxTuneError - 1 + (Slack + slips))
      BY <2>2, <2>3, <3>1, <3>2, GoodEstimation
    <3> QED
      BY <1>0, <2>4, <3>2, <3>3 DEF LeadError
  <2>7. air'[Remote] = None /\ air'[Host] = air[Host]
    BY <2>1, LandedAir, EndsType
  <2> QED
    BY <1>1, <2>1, <2>5, <2>6, <2>7 DEF Sent, OnAir
<1>12. CASE HostReplies
  <2>1. /\ reply # None /\ reply' = None /\ Transmit(Host, "Reply", reply)
        /\ UNCHANGED <<now, micros, clock, rtc, slips, goodCount>>
    BY <1>12 DEF HostReplies
  <2>2. reply \in -Wrap .. Wrap
    BY <2>1 DEF TypeOK
  <2>3. air'[Host].payload = reply /\ air'[Remote] = air[Remote]
    BY <2>1, <2>2, TransmitAir, EndsType
  <2>4. ReplyError'
    BY <1>0, <1>2, <2>1, <2>3 DEF ErrorInv, DebtError, ReplyError
  <2> QED
    BY <1>1, <2>1, <2>3, <2>4 DEF Sent, OnAir, IsSynced
<1>13. CASE RemoteReceivesReply
  <2> DEFINE e == air[Host].payload
  <2>1. /\ Sent(Host, "Reply") /\ Landed(Host)
        /\ UNCHANGED <<slips, goodCount, reply>>
    BY <1>13 DEF RemoteReceivesReply, Arrived, Sent
  <2>2. e \in Int /\ Lead \in Int
    BY <2>1, SentType, TimesType
  <2>3. Cong(Lead', Lead + e) /\ Lead' \in Int
    BY <1>13, <2>2, ReplyClocks, LeadGoesOn
  <2>4. Near(e + Lead, Slack + slips)
    BY <2>1 DEF ErrorInv, ReplyError
  <2> HIDE DEF e
  <2>5. Near(Lead', Slack + slips) /\ Slack + slips \in Int
    BY <2>2, <2>3, <2>4, NearCong, SlackType
  <2>6. ASSUME IsSynced PROVE LeadError'
    <3>1. MaxTuneError > 0
      BY <2>6 DEF OutInv
    <3>2. /\ MaxTuneError - 1 + Slack + slips \in Int
          /\ Slack + slips <= MaxTuneError - 1 + Slack + slips
      BY <3>1, SlackType
    <3> QED
      BY <1>0, <2>1, <2>3, <2>5, <3>2, NearMore DEF LeadError
  <2>7. air'[Host] = None /\ air'[Remote] = air[Remote]
    BY <2>1, LandedAir, EndsType
  <2>8. ~Sent(Remote, "Request")' /\ ~Sent(Host, "Reply")' /\ reply' = None
    BY <2>1, <2>7 DEF OutInv, Sent, OnAir
  <2> QED
    BY <2>1, <2>6, <2>8 DEF ErrorInv, IsSynced
<1> QED
  BY <1>3, <1>4, <1>5, <1>6, <1>7, <1>8, <1>9, <1>10, <1>11, <1>12, <1>13 DEF Next

----------------------------------------------------------------------------
(* The slots *)

LEMMA ExactClocks ==
  ASSUME TypeOK, RtcInv, NoRollOver, ClockError = 0, NEW n \in Ends
  PROVE  Cong(SyncMicros(n), Read(Host))
<1> DEFINE r == SyncMicros(Remote)
           h == SyncMicros(Host)
<1>1. r \in Unsigned /\ r \in Int /\ h \in Unsigned /\ h \in Int /\ r - h \in Int
  BY SyncType, EndsType
<1>2. Signed(r - h) = 0
  BY DEF ClockError
<1>3. Cong(h, Read(Host))
  BY SyncIsReading, EndsType
<1> HIDE DEF r, h
<1>4. Cong(r - h, 0)
  BY <1>1, <1>2, SignedCong, CongSym
<1>5. PICK k \in Int : r - h = 0 + k * Wrap
  BY <1>4 DEF Cong
<1>6. r = h + k * Wrap
  BY <1>1, <1>5, ClockAssumption
<1>7. r = h
  BY <1>1, <1>6, CongUnique DEF Cong
<1> QED
  BY <1>3, <1>7, EndsType DEF r, h

\* With exact clocks, a frame of a link begins in the slot of its sender.
LEMMA BeginsInSlot ==
  ASSUME TypeOK, RtcInv, NoRollOver, linked, ClockError = 0, NEW n \in Ends, AllowedSend(n)
  PROVE  SendSlot(EvenSlot(n), ((Read(Host) - 0 + ETTM) % Wrap) % Period, ETTM)
<1>1. SendSlot(EvenSlot(n), ((SyncMicros(n) + ETTM) % Wrap) % Period, ETTM)
  BY DEF AllowedSend, IsInSendSlot, SyncMicros
<1> DEFINE s == SyncMicros(n)
           h == Read(Host)
<1>2. s \in Int /\ h \in Int /\ ETTM \in Int /\ Cong(s, h)
  BY ExactClocks, SyncType, TimesType, EndsType, SettingsType
<1> HIDE DEF s, h
<1>3. s + ETTM \in Int /\ h - 0 + ETTM \in Int /\ Cong(s + ETTM, h - 0 + ETTM)
  <2>1. Cong(s + ETTM, h + ETTM) /\ h - 0 + ETTM = h + ETTM
    BY <1>2, CongShift
  <2> QED
    BY <1>2, <2>1
<1>4. (s + ETTM) % Wrap = (h - 0 + ETTM) % Wrap
  BY <1>3, ModEqual
<1> QED
  BY <1>1, <1>4 DEF s, h

LEMMA MovedSlots ==
  ASSUME TypeOK, SlotInv, linked' => linked, NEW d \in Int, NEW e \in Int, GoOn(d, e),
         Read(Host)' \in Int,
         \A n \in Ends : OnAir(n)' =>
           /\ OnAir(n) /\ air'[n].error = air[n].error /\ air'[n].age = air[n].age + d
  PROVE  SlotInv'
<1> SUFFICES ASSUME NEW n \in Ends, linked', OnAir(n)', air'[n].error = 0
             PROVE  SendSlot(EvenSlot(n), ((Read(Host)' - air'[n].age + ETTM) % Wrap) % Period, ETTM)
  <2>1. ETTM' = ETTM
    BY DEF ETTM
  <2> QED
    BY <2>1 DEF SlotInv, SendSlot, EvenSlot, HalfPeriod
<1> DEFINE h == Read(Host)
           i == Read(Host)'
           a == air[n].age
<1>1. h \in Int /\ i \in Int /\ ETTM \in Int /\ Cong(i, h + d)
  BY TimesType, EndsType, SettingsType DEF GoOn
<1>2. /\ a \in Int /\ air'[n].age = a + d
      /\ SendSlot(EvenSlot(n), ((h - a + ETTM) % Wrap) % Period, ETTM)
  BY SettingsType DEF SlotInv, TypeOK, OnAir, Frames
<1> HIDE DEF h, i, a
<1>3. PICK k \in Int : i = h + d + k * Wrap
  BY <1>1 DEF Cong
<1>4. i - (a + d) + ETTM = (h - a + ETTM) + k * Wrap
  <2>1. k * Wrap \in Int
    BY ClockAssumption
  <2> QED
    BY <1>1, <1>2, <1>3, <2>1
<1>5. /\ i - (a + d) + ETTM \in Int /\ h - a + ETTM \in Int
      /\ Cong(i - (a + d) + ETTM, h - a + ETTM)
  BY <1>1, <1>2, <1>4 DEF Cong
<1>6. (i - (a + d) + ETTM) % Wrap = (h - a + ETTM) % Wrap
  BY <1>5, ModEqual
<1> QED
  BY <1>2, <1>6 DEF i

\* A step that only sends or takes in keeps the slots: what begins does so in
\* its own.
LEMMA SentSlots ==
  ASSUME TypeOK, RtcInv, NoRollOver, SlotInv, UNCHANGED <<micros, clock>>, linked' => linked,
         \A n \in Ends : OnAir(n)' =>
           \/ OnAir(n) /\ air'[n] = air[n]
           \/ AllowedSend(n) /\ air'[n].error = ClockError /\ air'[n].age = 0
  PROVE  SlotInv'
<1> SUFFICES ASSUME NEW n \in Ends, linked', OnAir(n)', air'[n].error = 0
             PROVE  SendSlot(EvenSlot(n), ((Read(Host) - air'[n].age + ETTM) % Wrap) % Period, ETTM)
  <2>1. ETTM' = ETTM /\ Read(Host)' = Read(Host)
    BY DEF ETTM, Read
  <2> QED
    BY <2>1 DEF SlotInv, SendSlot, EvenSlot, HalfPeriod
<1>1. CASE OnAir(n) /\ air'[n] = air[n]
  BY <1>1 DEF SlotInv
<1>2. CASE AllowedSend(n) /\ air'[n].error = ClockError /\ air'[n].age = 0
  BY <1>2, BeginsInSlot
<1> QED
  BY <1>1, <1>2

LEMMA NextSlots ==
  ASSUME TypeOK, PayloadInv, RtcInv, NoRollOver, SlotInv, TypeOK', [Next]_vars
  PROVE  SlotInv'
<1>1. Read(Host)' \in Int
  <2>1. /\ micros'[Host] \in Int /\ clock'[Host].offset \in Int
        /\ clock'[Host].lastSeconds \in Int /\ clock'[Host].lastTick \in Int
    BY EndsType DEF TypeOK, Clocks, Unsigned
  <2>2. clock'[Host].lastSeconds * Second \in Int
    BY <2>1, ClockAssumption
  <2> QED
    BY <2>1, <2>2 DEF Read, Reading
<1>2. \A n \in Ends : OnAir(n) => air[n].age \in Int /\ air[n].age + 0 = air[n].age
  BY SettingsType DEF TypeOK, OnAir, Frames
<1>3. ASSUME UNCHANGED <<air, linked>>, NEW e \in Int, GoOn(0, e) PROVE SlotInv'
  BY <1>1, <1>2, <1>3, MovedSlots DEF OnAir
<1>4. CASE UNCHANGED vars
  BY <1>3, <1>4, StillClocks DEF vars
<1>5. CASE Tick
  <2>1. GoOn(1, 0) /\ UNCHANGED linked
    BY <1>5, TickClocks DEF Tick
  <2> QED
    BY <1>1, <1>5, <2>1, TickAir, MovedSlots
<1>6. CASE Slip
  <2>1. PICK e \in {-1, 1} : GoOn(0, e)
    BY <1>6, SlipClocks
  <2>2. e \in Int /\ UNCHANGED <<air, linked>>
    BY <1>6 DEF Slip
  <2> QED
    BY <1>3, <2>1, <2>2
<1>7. ASSUME NEW n \in Ends, RtcInterrupt(n) PROVE SlotInv'
  <2>1. GoOn(0, 0)
    BY <1>7, InterruptClocks
  <2> QED
    BY <1>3, <1>7, <2>1 DEF RtcInterrupt
<1>8. CASE RemoteReceivesReply
  <2>1. air[Host].payload \in Int
    BY <1>8, SentType DEF RemoteReceivesReply, Arrived, Sent
  <2>2. UNCHANGED linked /\ air'[Host] = None /\ air'[Remote] = air[Remote]
    BY <1>8, LandedAir, EndsType DEF RemoteReceivesReply
  <2>3. GoOn(0, air[Host].payload)
    BY <1>8, ReplyClocks
  <2> QED
    BY <1>1, <1>2, <2>1, <2>2, <2>3, EndsType, MovedSlots DEF OnAir
<1>9. CASE Link
  BY <1>9 DEF Link, SlotInv, OnAir
<1>10. ASSUME NEW n \in Ends, NEW kind \in {"Request", "Reply", "Data"},
              NEW payload \in Unsigned \cup (-Wrap .. Wrap) \cup {None},
              Transmit(n, kind, payload), UNCHANGED <<micros, clock, linked>>
       PROVE  SlotInv'
  <2>1. /\ AllowedSend(n) /\ air'[n].error = ClockError /\ air'[n].age = 0
        /\ \A m \in Ends \ {n} : air'[m] = air[m]
    BY <1>10, TransmitAir DEF Transmit
  <2> QED
    BY <1>10, <2>1, SentSlots DEF OnAir
<1>11. ASSUME NEW n \in Ends, Landed(n), UNCHANGED <<micros, clock, linked>>
       PROVE  SlotInv'
  <2>1. air'[n] = None /\ \A m \in Ends \ {n} : air'[m] = air[m]
    BY <1>11, LandedAir
  <2> QED
    BY <1>11, <2>1, SentSlots DEF OnAir
<1>12. ASSUME NEW n \in Ends, SendData(n) \/ LeaveAir(n) PROVE SlotInv'
  BY <1>10, <1>11, <1>12 DEF SendData, LeaveAir
<1>13. CASE RemoteRequests
  <2>1. (SyncMicros(Remote) + ETTM) % Wrap \in Unsigned
    BY SyncType, EndsType, SettingsType, ModType
  <2> QED
    BY <1>10, <1>13, <2>1, EndsType DEF RemoteRequests
<1>14. CASE HostReplies
  <2>1. reply \in -Wrap .. Wrap
    BY <1>14 DEF HostReplies, TypeOK
  <2> QED
    BY <1>10, <1>14, <2>1, EndsType DEF HostReplies
<1>15. CASE HostReceivesRequest
  BY <1>11, <1>15, EndsType DEF HostReceivesRequest
<1> QED
  BY <1>4, <1>5, <1>6, <1>7, <1>8, <1>9, <1>12, <1>13, <1>14, <1>15 DEF Next

----------------------------------------------------------------------------
(* The turns of the two ends *)

\* A host on micros() does not see its clock wrap as long as time runs: 2^32 is
\* no multiple of the period, and the one in which it wraps is cut short.
NoHostWrap ==
  "Timer" \in Builds =>
    \A m \in FirstMicros, offset \in HostOffsets :
      ((m[1] + offset) % Wrap) + Horizon + 2 * ETTM <= Wrap

HostInv ==
  ~IsRTC(clock[Host]) => SyncMicros(Host) + (Horizon - now) + 2 * ETTM <= Wrap

\* By how much more than the host's the sender's clock showed.
Ahead(n) == IF n = Host THEN 0 ELSE air[n].error

\* A frame of a link began in the slot of its sender, by the clock of its sender.
TurnInv ==
  linked /\ ~IsRTC(clock[Host]) => \A n \in Ends :
    OnAir(n) /\ (n = Host \/ Abs(air[n].error) < ETTM) =>
      SendSlot(EvenSlot(n), (SyncMicros(Host) - air[n].age + Ahead(n) + ETTM) % Period, ETTM)

\* The slots of the two ends are as far apart as a transmission is to take.
LEMMA SlotsApart ==
  ASSUME NEW u \in Int, NEW v \in Int,
         SendSlot(TRUE, u % Period, ETTM), SendSlot(FALSE, v % Period, ETTM)
  PROVE  v - u >= ETTM \/ u - v >= ETTM
<1> DEFINE x == u % Period
           y == v % Period
<1>1. PICK i \in Int : u = i * Period + x /\ x \in Int /\ 0 <= x
  <2>1. u = Period * (u \div Period) + (u % Period) /\ u \div Period \in Int
    BY ClockAssumption
  <2>2. Period * (u \div Period) = (u \div Period) * Period /\ u % Period \in Int /\ 0 <= u % Period
    BY <2>1, ClockAssumption
  <2> QED
    BY <2>1, <2>2
<1>2. PICK j \in Int : v = j * Period + y /\ y \in Int
  <2>1. v = Period * (v \div Period) + (v % Period) /\ v \div Period \in Int
    BY ClockAssumption
  <2>2. Period * (v \div Period) = (v \div Period) * Period /\ v % Period \in Int
    BY <2>1, ClockAssumption
  <2> QED
    BY <2>1, <2>2
<1>3. x <= HalfPeriod - ETTM /\ HalfPeriod <= y /\ y <= Period - ETTM
  BY DEF SendSlot
<1> HIDE DEF x, y
<1> DEFINE k == j - i
<1>4. v - u = k * Period + (y - x) /\ k \in Int /\ k * Period \in Int
  <2>1. /\ i * Period \in Int /\ j * Period \in Int
        /\ (j - i) * Period = j * Period - i * Period
    BY ClockAssumption
  <2> QED
    BY <1>1, <1>2, <2>1
<1> HIDE DEF k
<1>5. y - x >= ETTM /\ y - x <= Period - ETTM
  BY <1>1, <1>2, <1>3, SettingsType, ClockAssumption
<1>6. CASE k >= 0
  <2>1. k * Period >= 0
    BY <1>4, <1>6, ClockAssumption
  <2> QED
    BY <1>1, <1>2, <1>4, <1>5, <2>1, SettingsType
<1>7. CASE k <= -1
  <2>1. k * Period <= -Period
    BY <1>4, <1>7, ClockAssumption
  <2>2. v - u <= -ETTM
    BY <1>1, <1>2, <1>4, <1>5, <2>1, SettingsType, ClockAssumption
  <2> QED
    BY <2>2, SettingsType
<1> QED
  BY <1>4, <1>6, <1>7

\* The clock of a host on micros() goes on with the time, and the source of a
\* clock does not change.
LEMMA HostGoesOn ==
  ASSUME TypeOK, HostInv, 0 < ETTM, [Next]_vars, ~IsRTC(clock[Host]) \/ ~IsRTC(clock'[Host])
  PROVE  /\ ~IsRTC(clock[Host]) /\ ~IsRTC(clock'[Host])
         /\ SyncMicros(Host)' = SyncMicros(Host) + (now' - now)
         /\ HostInv' /\ now' \in Int
<1>1. CASE Tick
  <2> DEFINE m == micros[Host]
             o == clock[Host].offset
             s == SyncMicros(Host)
  <2>1. /\ UNCHANGED clock /\ now' = now + 1 /\ now < Horizon
        /\ micros'[Host] = (m + 1) % Wrap
    BY <1>1, EndsType DEF Tick
  <2>2. ~IsRTC(clock[Host])
    BY <2>1
  <2>3. s = (m + o) % Wrap /\ SyncMicros(Host)' = (((m + 1) % Wrap) + o) % Wrap
    BY <2>1, <2>2 DEF SyncMicros, GetSyncMicros, GetCurrentsMicros
  <2>4. /\ m \in Int /\ o \in Int /\ s \in Int /\ s \in Unsigned /\ now \in Int
        /\ Horizon \in Int /\ ETTM \in Int
    BY TimesType, SyncType, EndsType, SettingsType, DuplexAssumption
  <2>5. s + (Horizon - now) + 2 * ETTM <= Wrap
    BY <2>2 DEF HostInv
  <2> HIDE DEF m, o, s
  <2>6. s + 1 \in Unsigned
    BY <2>1, <2>4, <2>5, WidthType DEF Unsigned
  <2>7. Cong(((m + 1) % Wrap) + o, s + 1)
    <3>1. PICK a \in Int : (m + 1) % Wrap = m + 1 + a * Wrap
      BY <2>4, CongMod DEF Cong
    <3>2. PICK b \in Int : s = m + o + b * Wrap
      BY <2>3, <2>4, CongMod DEF Cong
    <3>3. ((m + 1) % Wrap) + o = (s + 1) + (a - b) * Wrap
      <4>1. a * Wrap \in Int /\ b * Wrap \in Int /\ (a - b) * Wrap = a * Wrap - b * Wrap
        BY ClockAssumption
      <4>2. (m + 1) % Wrap \in Int
        BY <2>4, ModType
      <4> HIDE DEF m, o, s
      <4> QED
        BY <2>4, <3>1, <3>2, <4>1, <4>2
    <3> QED
      BY <3>3 DEF Cong
  <2>8. ((m + 1) % Wrap) + o \in Int
    BY <2>4, ModType
  <2>9. (((m + 1) % Wrap) + o) % Wrap = s + 1
    <3>1. /\ (((m + 1) % Wrap) + o) % Wrap \in Unsigned
          /\ Cong((((m + 1) % Wrap) + o) % Wrap, ((m + 1) % Wrap) + o)
      BY <2>8, ModType, CongMod
    <3>2. Cong((((m + 1) % Wrap) + o) % Wrap, s + 1)
      BY <2>4, <2>7, <2>8, <3>1, CongTrans, ModType
    <3> QED
      BY <2>6, <3>1, <3>2, CongUnique
  <2>10. SyncMicros(Host)' = s + (now' - now)
    BY <2>1, <2>3, <2>4, <2>9
  <2>11. s + (now' - now) + (Horizon - now') + 2 * ETTM <= Wrap
    BY <2>1, <2>4, <2>5
  <2>12. HostInv'
    <3>1. ETTM' = ETTM
      BY DEF ETTM
    <3> QED
      BY <2>10, <2>11, <3>1 DEF HostInv
  <2> QED
    BY <2>1, <2>2, <2>4, <2>10, <2>12 DEF s
<1>2. CASE ~Tick
  <2>1. /\ now' = now
        /\ IsRTC(clock'[Host]) <=> IsRTC(clock[Host])
        /\ ~IsRTC(clock[Host]) => clock'[Host] = clock[Host] /\ micros'[Host] = micros[Host]
    <3>1. CASE UNCHANGED vars
      BY <3>1 DEF vars
    <3>2. CASE Slip
      BY <3>2, EndsType DEF Slip, TypeOK
    <3>3. CASE RemoteReceivesReply
      BY <3>3, EndsType DEF RemoteReceivesReply, TypeOK
    <3>4. ASSUME NEW n \in Ends, RtcInterrupt(n)
          PROVE  /\ now' = now /\ micros'[Host] = micros[Host]
                 /\ IsRTC(clock'[Host]) <=> IsRTC(clock[Host])
                 /\ ~IsRTC(clock[Host]) => clock'[Host] = clock[Host]
      BY <3>4, EndsType DEF RtcInterrupt, OnInterrupt, IsRTC, TypeOK, Clocks
    <3>5. CASE Link \/ RemoteRequests \/ HostReceivesRequest \/ HostReplies
      BY <3>5 DEF Link, RemoteRequests, HostReceivesRequest, HostReplies
    <3>6. CASE \E n \in Ends : SendData(n) \/ LeaveAir(n)
      BY <3>6 DEF SendData, LeaveAir
    <3> QED
      BY <1>2, <3>1, <3>2, <3>3, <3>4, <3>5, <3>6 DEF Next
  <2>2. SyncMicros(Host)' = SyncMicros(Host)
    BY <2>1 DEF SyncMicros
  <2>3. SyncMicros(Host) \in Int /\ now \in Int
    BY SyncType, EndsType, TimesType
  <2>4. HostInv'
    <3>1. ETTM' = ETTM
      BY DEF ETTM
    <3> QED
      BY <2>1, <2>2, <3>1 DEF HostInv
  <2> QED
    BY <2>1, <2>2, <2>3, <2>4
<1> QED
  BY <1>1, <1>2

LEMMA BeginsInTurn ==
  ASSUME TypeOK, HostInv, 0 < ETTM, linked, ~IsRTC(clock[Host]), NEW n \in Ends, AllowedSend(n),
         NEW e, e = IF n = Host THEN 0 ELSE ClockError, n = Host \/ Abs(ClockError) < ETTM
  PROVE  SendSlot(EvenSlot(n), (SyncMicros(Host) - 0 + e + ETTM) % Period, ETTM)
<1> DEFINE s == SyncMicros(Host)
           r == SyncMicros(n)
<1>1. SendSlot(EvenSlot(n), ((r + ETTM) % Wrap) % Period, ETTM)
  BY DEF AllowedSend, IsInSendSlot, SyncMicros
<1>2. /\ s \in Int /\ 0 <= s /\ r \in Int /\ ClockError \in Int /\ e \in Int /\ ETTM \in Int
      /\ now \in Int /\ now <= Horizon /\ Horizon \in Int
  BY SyncType, EndsType, SettingsType, DuplexAssumption DEF Unsigned, TypeOK
<1>3. s + (Horizon - now) + 2 * ETTM <= Wrap
  BY DEF HostInv
<1>4. Cong(r, s + e)
  <2>1. CASE n = Host
    BY <1>2, <2>1, CongEqual
  <2>2. CASE n # Host
    <3>1. e = Signed(r - s) /\ r - s \in Int
      BY <1>2, <2>2, EndsType DEF ClockError
    <3>2. Cong(r - s, e)
      BY <1>2, <3>1, SignedCong, CongSym
    <3> HIDE DEF r, s
    <3>3. PICK k \in Int : r - s = e + k * Wrap
      BY <3>2 DEF Cong
    <3>4. r = (s + e) + k * Wrap
      BY <1>2, <3>3, ClockAssumption
    <3> QED
      BY <3>4 DEF Cong
  <2> QED
    BY <2>1, <2>2
<1>5. -ETTM < e /\ e < ETTM
  BY <1>2 DEF Abs
<1> HIDE DEF r, s
<1>6. s + e + ETTM \in Unsigned /\ s + e + ETTM \in Int
  BY <1>2, <1>3, <1>5, WidthType DEF Unsigned
<1>7. Cong(r + ETTM, s + e + ETTM) /\ r + ETTM \in Int
  <2>1. s + e \in Int
    BY <1>2
  <2>2. Cong(r + ETTM, (s + e) + ETTM)
    BY <1>2, <1>4, <2>1, CongShift
  <2> QED
    BY <1>2, <2>2
<1>8. (r + ETTM) % Wrap = s + e + ETTM
  <2>1. (r + ETTM) % Wrap \in Unsigned /\ Cong((r + ETTM) % Wrap, r + ETTM)
    BY <1>7, ModType, CongMod
  <2>2. Cong((r + ETTM) % Wrap, s + e + ETTM)
    BY <1>6, <1>7, <2>1, CongTrans, ModType
  <2> QED
    BY <1>6, <2>1, <2>2, CongUnique
<1>9. s - 0 + e + ETTM = s + e + ETTM
  BY <1>2
<1> QED
  BY <1>1, <1>8, <1>9 DEF s

LEMMA NextTurns ==
  ASSUME TypeOK, HostInv, 0 < ETTM, TurnInv, PayloadInv, TypeOK', [Next]_vars
  PROVE  TurnInv'
<1> SUFFICES ASSUME linked', ~IsRTC(clock'[Host]), NEW n \in Ends, OnAir(n)',
                    n = Host \/ Abs(air'[n].error) < ETTM
             PROVE  SendSlot(EvenSlot(n),
                             (SyncMicros(Host)' - air'[n].age + Ahead(n)' + ETTM) % Period, ETTM)
  <2>1. ETTM' = ETTM
    BY DEF ETTM
  <2> QED
    BY <2>1 DEF TurnInv, SendSlot, EvenSlot, HalfPeriod
<1> DEFINE s == SyncMicros(Host)
           t == SyncMicros(Host)'
<1>1. ~IsRTC(clock[Host]) /\ t = s + (now' - now) /\ s \in Int /\ now \in Int /\ now' \in Int
  BY HostGoesOn, SyncType, EndsType, TimesType
<1>2. ETTM \in Int /\ (OnAir(n) => air[n].age \in Int /\ Ahead(n) \in Int)
  BY SettingsType, WidthType DEF TypeOK, OnAir, Frames, Ahead
<1>3. OnAir(n) /\ linked /\ (n = Host \/ Abs(air[n].error) < ETTM) =>
        SendSlot(EvenSlot(n), (s - air[n].age + Ahead(n) + ETTM) % Period, ETTM)
  BY <1>1 DEF TurnInv
<1> HIDE DEF s, t
<1>4. CASE Tick
  <2>1. /\ OnAir(n) /\ air'[n].age = air[n].age + 1 /\ air'[n].error = air[n].error
        /\ linked /\ now' = now + 1
    BY <1>4, TickAir DEF Tick
  <2>2. Ahead(n)' = Ahead(n)
    BY <2>1 DEF Ahead
  <2>3. t - air'[n].age + Ahead(n)' + ETTM = s - air[n].age + Ahead(n) + ETTM
    BY <1>1, <1>2, <2>1, <2>2
  <2> QED
    BY <1>3, <2>1, <2>3 DEF t
<1>5. ASSUME now' = now, linked, OnAir(n), air'[n] = air[n]
      PROVE  SendSlot(EvenSlot(n), (t - air'[n].age + Ahead(n)' + ETTM) % Period, ETTM)
  <2>1. Ahead(n)' = Ahead(n) /\ t = s
    BY <1>1, <1>5 DEF Ahead
  <2> QED
    BY <1>3, <1>5, <2>1
<1>6. ASSUME now' = now, linked, AllowedSend(n),
             air'[n].error = ClockError, air'[n].age = 0
      PROVE  SendSlot(EvenSlot(n), (t - air'[n].age + Ahead(n)' + ETTM) % Period, ETTM)
  <2>1. Ahead(n)' = (IF n = Host THEN 0 ELSE ClockError) /\ t = s
    BY <1>1, <1>6 DEF Ahead
  <2> QED
    BY <1>1, <1>6, <2>1, BeginsInTurn DEF s
<1>7. ASSUME NEW m \in Ends, NEW kind \in {"Request", "Reply", "Data"},
             NEW payload \in Unsigned \cup (-Wrap .. Wrap) \cup {None},
             Transmit(m, kind, payload), now' = now, linked' = linked
      PROVE  SendSlot(EvenSlot(n), (t - air'[n].age + Ahead(n)' + ETTM) % Period, ETTM)
  <2>1. /\ AllowedSend(m) /\ air'[m].error = ClockError /\ air'[m].age = 0
        /\ \A k \in Ends \ {m} : air'[k] = air[k]
    BY <1>7, TransmitAir DEF Transmit
  <2> QED
    BY <1>5, <1>6, <1>7, <2>1 DEF OnAir
<1>8. ASSUME NEW m \in Ends, Landed(m), now' = now, linked' = linked
      PROVE  SendSlot(EvenSlot(n), (t - air'[n].age + Ahead(n)' + ETTM) % Period, ETTM)
  <2>1. air'[m] = None /\ \A k \in Ends \ {m} : air'[k] = air[k]
    BY <1>8, LandedAir
  <2> QED
    BY <1>5, <1>8, <2>1 DEF OnAir
<1>9. CASE UNCHANGED vars \/ Slip \/ \E m \in Ends : RtcInterrupt(m)
  BY <1>5, <1>9 DEF t, vars, Slip, RtcInterrupt, OnAir
<1>10. CASE Link
  BY <1>10 DEF Link, OnAir
<1>11. ASSUME NEW m \in Ends, SendData(m) \/ LeaveAir(m)
       PROVE  SendSlot(EvenSlot(n), (t - air'[n].age + Ahead(n)' + ETTM) % Period, ETTM)
  BY <1>7, <1>8, <1>11 DEF SendData, LeaveAir
<1>12. CASE RemoteRequests
  <2>1. (SyncMicros(Remote) + ETTM) % Wrap \in Unsigned
    BY SyncType, EndsType, SettingsType, ModType
  <2> QED
    BY <1>7, <1>12, <2>1, EndsType DEF t, RemoteRequests
<1>13. CASE HostReplies
  <2>1. reply \in -Wrap .. Wrap
    BY <1>13 DEF HostReplies, TypeOK
  <2> QED
    BY <1>7, <1>13, <2>1, EndsType DEF t, HostReplies
<1>14. CASE HostReceivesRequest \/ RemoteReceivesReply
  BY <1>8, <1>14, EndsType DEF t, HostReceivesRequest, RemoteReceivesReply
<1> QED
  BY <1>4, <1>9, <1>10, <1>11, <1>12, <1>13, <1>14 DEF t, Next

LEMMA InitTurns == NoHostWrap /\ Init => HostInv /\ TurnInv
<1> SUFFICES ASSUME NoHostWrap, Init PROVE HostInv /\ TurnInv
  OBVIOUS
<1>1. TurnInv
  BY DEF Init, TurnInv
<1>2. ASSUME ~IsRTC(clock[Host]) PROVE SyncMicros(Host) + (Horizon - now) + 2 * ETTM <= Wrap
  <2>1. PICK source \in Builds, m \in FirstMicros, p \in RtcPhases, offset \in HostOffsets :
          /\ micros = [n \in Ends |-> IF n = Host THEN m[1] ELSE m[2]]
          /\ clock = [n \in Ends |-> IF n = Host THEN InitialClock(source, m[1], p[1], offset)
                                     ELSE InitialClock(source, m[2], p[2], 0)]
    BY DEF Init
  <2>2. /\ micros[Host] = m[1] /\ clock[Host].offset = offset /\ clock[Host].source = source
    BY <2>1, EndsType DEF InitialClock
  <2>3. "Timer" \in Builds
    BY <1>2, <2>2, DuplexAssumption DEF IsRTC, Sources
  <2>4. SyncMicros(Host) = (m[1] + offset) % Wrap
    BY <1>2, <2>2 DEF SyncMicros, GetSyncMicros, GetCurrentsMicros
  <2>5. now = 0 /\ Horizon - 0 = Horizon
    BY DuplexAssumption DEF Init
  <2> QED
    BY <2>3, <2>4, <2>5 DEF NoHostWrap
<1> QED
  BY <1>1, <1>2 DEF HostInv

----------------------------------------------------------------------------
(* The theorems *)

LEMMA InitDuplex == Init => DuplexInv
<1> SUFFICES ASSUME Init PROVE DuplexInv
  OBVIOUS
<1>1. TypeOK /\ RtcInv
  BY InitType, InitClocks
<1>2. /\ linked = FALSE /\ reply = None /\ goodCount = 0
      /\ air = [n \in Ends |-> None] /\ \A n \in Ends : ~OnAir(n)
  BY DEF Init, OnAir
<1>3. ~IsSynced
  BY <1>2, DuplexAssumption DEF IsSynced
<1>4. PayloadInv /\ SlotInv
  BY <1>2 DEF PayloadInv, SlotInv
<1>5. OutInv /\ ErrorInv
  BY <1>2, <1>3, EndsType DEF OutInv, ErrorInv, Sent
<1> QED
  BY <1>1, <1>4, <1>5 DEF DuplexInv

\* The variables of the two ends keep their types: the counters their width, a
\* frame what it may carry, the host a count of samples no larger than it asks
\* for, however long the clocks run.
THEOREM DuplexTypeCorrect == Spec => []TypeOK
<1>1. Init => TypeOK /\ PayloadInv
  BY InitDuplex DEF DuplexInv
<1>2. TypeOK /\ PayloadInv /\ [Next]_vars => (TypeOK /\ PayloadInv)'
  BY NextType, NextPayload
<1> QED
  BY <1>1, <1>2, PTL DEF Spec

\* What the two ends hold of each other in time, until the seconds roll over.
THEOREM DuplexInvariant == NoRollOver => (Spec => []DuplexInv)
<1> SUFFICES ASSUME NoRollOver PROVE Spec => []DuplexInv
  OBVIOUS
<1>1. DuplexInv /\ [Next]_vars => DuplexInv'
  <2> SUFFICES ASSUME TypeOK, PayloadInv, RtcInv, OutInv, ErrorInv, SlotInv, [Next]_vars
               PROVE  DuplexInv'
    BY DEF DuplexInv
  <2>1. TypeOK' /\ PayloadInv'
    BY NextType, NextPayload
  <2>2. RtcInv'
    BY NextClocks
  <2>3. OutInv' /\ ErrorInv' /\ SlotInv'
    BY <2>1, NextOut, NextErrors, NextSlots
  <2> QED
    BY <2>1, <2>2, <2>3 DEF DuplexInv
<1> QED
  BY InitDuplex, <1>1, PTL DEF Spec

\* The last good estimation, what its frames took longer or shorter than was
\* estimated, and the slips: the remote is no further from the micros() of the
\* host, whatever frames were lost and ticks came between.
THEOREM RemoteFollowsMicros == NoRollOver => (Spec => []FollowsHostMicros)
<1> SUFFICES ASSUME NoRollOver PROVE Spec => []FollowsHostMicros
  OBVIOUS
<1>1. DuplexInv => FollowsHostMicros
  <2> SUFFICES ASSUME DuplexInv, linked
               PROVE  Abs(Signed(SyncMicros(Remote) - GetSyncMicrosOf(clock[Host], micros[Host])))
                        < MaxTuneError + Abs(Latency - ETTM) + slips
    BY DEF FollowsHostMicros
  <2>1. TypeOK /\ RtcInv /\ LeadError
    BY DEF DuplexInv, OutInv, ErrorInv
  <2> DEFINE r == SyncMicros(Remote)
             h == GetSyncMicrosOf(clock[Host], micros[Host])
             n == MaxTuneError - 1 + Slack + slips
  <2>2. /\ r \in Int /\ Cong(r, Read(Remote)) /\ Read(Remote) \in Int
        /\ HostMicros \in Int /\ Lead \in Int /\ Lead = Read(Remote) - HostMicros
    BY <2>1, SyncType, SyncIsReading, TimesType, EndsType DEF Lead
  <2>3. h \in Int /\ Cong(h, HostMicros)
    BY <2>2, ModType, CongMod DEF GetSyncMicrosOf, HostMicros
  <2>4. n \in Int /\ n < MaxTuneError + Slack + slips /\ Near(Lead, n)
    BY <2>1, SlackType DEF LeadError
  <2> HIDE DEF r, h, n
  <2>5. Cong(r - h, Lead) /\ r - h \in Int
    BY <2>2, <2>3, CongAdd
  <2>6. Abs(Signed(r - h)) <= n /\ Signed(r - h) \in Int
    BY <2>2, <2>4, <2>5, NearCong, SignedIsLeast, SignedType
  <2>7. Abs(Signed(r - h)) \in Int
    BY <2>6 DEF Abs
  <2>8. MaxTuneError + Slack + slips \in Int
    BY <2>1, SlackType
  <2>9. Abs(Signed(r - h)) < MaxTuneError + Slack + slips
    BY <2>4, <2>6, <2>7, <2>8
  <2> QED
    BY <2>9 DEF r, h, Slack
<1> QED
  BY <1>1, DuplexInvariant, PTL

\* With exact clocks and an exact latency, a frame of a link is sensed in the
\* receive slot of the other end: the driver counts no collision.
THEOREM SlotsMatch == NoRollOver => (Spec => []ArrivesInReceiveSlot)
<1> SUFFICES ASSUME NoRollOver PROVE Spec => []ArrivesInReceiveSlot
  OBVIOUS
<1>1. DuplexInv => ArrivesInReceiveSlot
  <2> SUFFICES ASSUME DuplexInv, NEW n \in Ends, linked, OnAir(n), air[n].age = Latency,
                      ClockError = 0, air[n].error = 0, Latency = ETTM
               PROVE  IsInReceiveSlot(clock[Other(n)], micros[Other(n)], 0, EvenSlot(Other(n)))
    BY DEF ArrivesInReceiveSlot
  <2> DEFINE o == Other(n)
             s == SyncMicros(o)
             h == Read(Host)
             t == (h % Wrap) % Period
  <2>1. TypeOK /\ RtcInv /\ SlotInv
    BY DEF DuplexInv
  <2>2. o \in Ends /\ (EvenSlot(n) <=> ~EvenSlot(o))
    BY EndsType DEF Other, EvenSlot
  <2>3. s \in Int /\ h \in Int /\ Cong(s, h)
    BY <2>1, <2>2, ExactClocks, SyncType, TimesType, EndsType
  <2>4. SendSlot(EvenSlot(n), t, ETTM)
    <3>1. SendSlot(EvenSlot(n), ((h - ETTM + ETTM) % Wrap) % Period, ETTM)
      BY <2>1 DEF SlotInv
    <3>2. h - ETTM + ETTM = h
      BY <2>3, SettingsType
    <3> QED
      BY <3>1, <3>2
  <2>5. ReceiveSlot(EvenSlot(o), t)
    <3>1. t \in Int /\ HalfPeriod \in Int /\ ETTM \in Int /\ ETTM > 0
      BY <2>3, ModType, SettingsType, ClockAssumption
    <3> HIDE DEF t, o
    <3> QED
      BY <2>2, <2>4, <3>1 DEF SendSlot, ReceiveSlot
  <2> HIDE DEF s, h
  <2>6. (s + 0) % Wrap = h % Wrap
    BY <2>3, ModEqual
  <2> QED
    BY <2>5, <2>6 DEF IsInReceiveSlot, SyncMicros, s
<1> QED
  BY <1>1, DuplexInvariant, PTL

\* Between two wraps of its clock, a host on micros() and its remote overlap at
\* most by what their clocks were apart when the remote began and by what a
\* transmission takes longer than was estimated, whatever frames were lost.
THEOREM OverlapOfTurns == NoHostWrap => (Spec => []OverlapIsBounded)
<1> SUFFICES ASSUME NoHostWrap PROVE Spec => []OverlapIsBounded
  OBVIOUS
<1> DEFINE Inv == TypeOK /\ PayloadInv /\ (0 < ETTM => HostInv /\ TurnInv)
<1>1. Init => Inv
  BY InitDuplex, InitTurns DEF DuplexInv
<1>2. Inv /\ [Next]_vars => Inv'
  <2> SUFFICES ASSUME Inv, [Next]_vars PROVE Inv'
    OBVIOUS
  <2>1. TypeOK' /\ PayloadInv'
    BY NextType, NextPayload
  <2>2. (0 < ETTM)' <=> 0 < ETTM
    BY DEF ETTM
  <2>3. ASSUME 0 < ETTM PROVE HostInv' /\ TurnInv'
    <3>1. HostInv'
      BY <2>3, HostGoesOn DEF HostInv
    <3>2. TurnInv'
      BY <2>1, <2>3, NextTurns
    <3> QED
      BY <3>1, <3>2
  <2> QED
    BY <2>1, <2>2, <2>3
<1>3. Inv => OverlapIsBounded
  <2> SUFFICES ASSUME Inv, linked, BothOnAir, ~IsRTC(clock[Host])
               PROVE  Overlap <= Abs(air[Remote].error) + AirTime - ETTM
    BY DEF OverlapIsBounded
  <2> DEFINE a == air[Host].age
             b == air[Remote].age
             e == air[Remote].error
             s == SyncMicros(Host)
  <2>1. /\ a \in Int /\ b \in Int /\ 0 <= a /\ a < AirTime /\ 0 <= b /\ b < AirTime /\ e \in Int
        /\ s \in Int /\ ETTM \in Int /\ AirTime \in Int /\ OnAir(Host) /\ OnAir(Remote)
    BY EndsType, SyncType, SettingsType, WidthType DEF BothOnAir, OnAir, TypeOK, Frames
  <2>2. Overlap = IF a < b THEN a ELSE b
    BY DEF Overlap
  <2>3. Abs(e) \in Int /\ 0 <= Abs(e) /\ -Abs(e) <= e /\ e <= Abs(e)
    BY <2>1 DEF Abs
  <2>4. CASE 0 < ETTM /\ Abs(e) < ETTM
    <3> DEFINE u == s - a + 0 + ETTM
               v == s - b + e + ETTM
    <3>1. SendSlot(TRUE, u % Period, ETTM) /\ SendSlot(FALSE, v % Period, ETTM)
      BY <2>1, <2>4, EndsType DEF TurnInv, Ahead, EvenSlot
    <3>2. u \in Int /\ v \in Int /\ v - u = a - b + e
      BY <2>1
    <3> HIDE DEF u, v, a, b, e, s
    <3>3. v - u >= ETTM \/ u - v >= ETTM
      BY <3>1, <3>2, SlotsApart
    <3>4. (IF a < b THEN a ELSE b) <= Abs(e) + AirTime - ETTM
      BY <2>1, <2>3, <3>2, <3>3
    <3> QED
      BY <2>2, <3>4 DEF a, b, e
  <2>5. CASE ~(0 < ETTM /\ Abs(e) < ETTM)
    <3> HIDE DEF a, b, e
    <3>1. (IF a < b THEN a ELSE b) <= Abs(e) + AirTime - ETTM
      BY <2>1, <2>3, <2>5
    <3> QED
      BY <2>2, <3>1 DEF a, b, e
  <2> QED
    BY <2>4, <2>5
<1> HIDE DEF Inv
<1> QED
  BY <1>1, <1>2, <1>3, PTL DEF Spec

=============================================================================
