----------------------- MODULE LoLaLinkPowerBalancer -----------------------
(***************************************************************************)
(* The balancer of the transmit power, as operators on the record of an    *)
(* end of a link (Services/Link/LoLaLinkPowerBalancer.h), and the samples  *)
(* of the partner's RSSI it reads (LoLaLinkInfo.h).  Bytes that the code   *)
(* computes with as int do not wrap.                                       *)
(***************************************************************************)
EXTENDS Integers, SequencesExt

CONSTANTS
  Never,          \* ILOLA_INVALID_MILLIS, of LastUpdated
  PowerMin,       \* RADIO_POWER_BALANCER_POWER_MIN
  PowerMax,       \* RADIO_POWER_BALANCER_POWER_MAX
  AdjustUpLong,   \* RADIO_POWER_BALANCER_ADJUST_UP_LONG
  AdjustDownLong, \* RADIO_POWER_BALANCER_ADJUST_DOWN_LONG
  RssiTarget,     \* RADIO_POWER_BALANCER_RSSI_TARGET
  RssiMargin,     \* RADIO_POWER_BALANCER_RSSI_TARGET_MARGIN
  SampleCount,    \* RADIO_POWER_BALANCER_RSSI_SAMPLE_COUNT
  PowerUpdate,    \* LOLA_LINK_SERVICE_LINKED_POWER_UPDATE_PERIOD
  Panic           \* LOLA_LINK_SERVICE_LINKED_MAX_PANIC

ASSUME BalancerAssumption ==
  /\ PowerMin \in Nat /\ PowerMax \in Nat /\ PowerMin <= PowerMax
  /\ AdjustUpLong \in Nat /\ AdjustDownLong \in Nat
  /\ RssiTarget \in Nat /\ RssiMargin \in 0 .. RssiTarget
  /\ SampleCount \in Nat \ {0} /\ PowerUpdate \in Nat /\ Panic \in Nat

\* SetPartnerRSSINormalized: addForce drops the oldest.
AddSample(samples, rssi) ==
  IF Len(samples) = SampleCount THEN Append(Tail(samples), rssi) ELSE Append(samples, rssi)

\* GetPartnerRSSINormalized
PartnerRSSI(samples) ==
  IF samples = <<>> THEN 0 ELSE FoldLeft(+, 0, samples) \div Len(samples)

AtLeast(low, x) == IF x < low THEN low ELSE x
AtMost(high, x) == IF x > high THEN high ELSE x

SetMaxPower(e) == [e EXCEPT !.power = PowerMax]

\* Fault: the long step down is not kept above the minimum.
NextTransmitPowerUnbounded(power, rssi) ==
  IF rssi > RssiTarget /\ power > PowerMin
  THEN IF rssi > RssiTarget + RssiMargin THEN power - AdjustDownLong ELSE power - 1
  ELSE power

NextTransmitPower(power, rssi) ==
  IF rssi > RssiTarget /\ power > PowerMin
  THEN IF rssi > RssiTarget + RssiMargin THEN AtLeast(PowerMin, power - AdjustDownLong)
                                         ELSE power - 1
  ELSE IF rssi < RssiTarget /\ power < PowerMax
  THEN IF rssi < RssiTarget - RssiMargin THEN AtMost(PowerMax, power + AdjustUpLong)
                                         ELSE power + 1
  ELSE power

\* Fault: the power is balanced however long the partner has been silent.
PanicsOnce(e) == e.sinceBalanced = Never

Panics(e) == e.sinceBalanced = Never \/ e.sinceReceived >= Panic

\* The branch of Update that changes the power and returns true.
Balances(e) ==
  /\ ~Panics(e) /\ e.sinceBalanced > PowerUpdate
  /\ NextTransmitPower(e.power, PartnerRSSI(e.samples)) # e.power

Update(e) ==
  IF Panics(e) THEN [SetMaxPower(e) EXCEPT !.sinceBalanced = 0]
  ELSE IF e.sinceBalanced > PowerUpdate
  THEN [e EXCEPT !.sinceBalanced = 0,
                 !.power = NextTransmitPower(e.power, PartnerRSSI(e.samples))]
  ELSE e

=============================================================================
