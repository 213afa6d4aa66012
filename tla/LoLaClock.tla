------------------------------ MODULE LoLaClock ------------------------------
(***************************************************************************)
(* The synchronised clock of a node, as operators on its record, and the   *)
(* slots of the duplex computed from it (LoLaClock/ILoLaClockSource.h,     *)
(* LoLaClock/RTCClockSource.h, PacketDriver/LoLaPacketDriver.h).           *)
(*                                                                         *)
(* A clock is built on micros(), a counter of the processor that wraps,    *)
(* or, with LOLA_LINK_USE_RTC_CLOCK_SOURCE as in the default build, on the *)
(* seconds of a real-time clock and the micros() since the last of them.   *)
(***************************************************************************)
EXTENDS Integers

CONSTANTS
  Wrap,           \* the range of a uint32_t
  Second,         \* microseconds between two interrupts of the RTC
  SecondsRange,   \* LastSeconds & 0xFFFF
  Period          \* DuplexPeriodMicros

ASSUME ClockAssumption ==
  /\ Wrap \in Nat /\ Period \in Nat /\ Second \in Nat
  /\ Wrap > 0 /\ Wrap % 2 = 0 /\ Period > 0 /\ Period % 2 = 0 /\ Second > 0
  /\ SecondsRange \in 1 .. Wrap

Unsigned == 0 .. Wrap - 1

\* A uint32_t read as an int32_t.
Signed(x) == LET y == x % Wrap IN IF y < Wrap \div 2 THEN y ELSE y - Wrap

Abs(x) == IF x < 0 THEN -x ELSE x

----------------------------------------------------------------------------
(* The clock source *)

Sources == {"Timer", "RTC"}

Clocks == [source : Sources, offset : Unsigned, lastTick : Unsigned, lastSeconds : Unsigned]

IsRTC(c) == c.source = "RTC"

GetCurrentsMicros(c, micros) ==
  IF IsRTC(c)
  THEN ((c.lastSeconds % SecondsRange) * Second + micros - c.lastTick) % Wrap
  ELSE micros

GetSyncMicros(c, micros) == (GetCurrentsMicros(c, micros) + c.offset) % Wrap

\* GetSyncMicros(sourceMicros): a time stamp of micros(), whatever the source.
GetSyncMicrosOf(c, stamp) == (stamp + c.offset) % Wrap

\* Fault: the offset is kept in a signed and wider integer.
AddOffsetMicrosSigned(c, offset) == [c EXCEPT !.offset = @ + offset]

AddOffsetMicros(c, offset) == [c EXCEPT !.offset = (@ + offset) % Wrap]

\* The seconds interrupt of the RTC (OnInterrupt).
OnInterrupt(c, micros) == [c EXCEPT !.lastTick = micros, !.lastSeconds = (@ + 1) % Wrap]

----------------------------------------------------------------------------
(* The duplex *)

HalfPeriod == Period \div 2

\* SetRTT: the estimated transmission time, from the round trip of a ping.
ETTMOf(rtt) == (rtt * 8) \div 20

\* IsInSendSlot for an elapsed time of the period: the even slot is the host's.
SendSlot(even, elapsed, ettm) ==
  IF even THEN elapsed <= HalfPeriod - ettm
          ELSE HalfPeriod <= elapsed /\ elapsed <= Period - ettm

ReceiveSlot(even, elapsed) ==
  IF even THEN elapsed >= HalfPeriod ELSE elapsed <= HalfPeriod

IsInSendSlot(c, micros, ettm, even) ==
  SendSlot(even, ((GetSyncMicros(c, micros) + ettm) % Wrap) % Period, ettm)

\* The packet came offset microseconds from now.
IsInReceiveSlot(c, micros, offset, even) ==
  ReceiveSlot(even, ((GetSyncMicros(c, micros) + offset) % Wrap) % Period)

=============================================================================
