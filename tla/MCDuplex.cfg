\* Both builds: crystals that slip twice and frames that outlast the estimate.
SPECIFICATION Spec
CONSTANTS
  None = None
  Wrap = 64
  Second = 20
  SecondsRange = 64
  Period = 10
  RTT = 5
  AirTime = 3
  Latency = 2
  MaxTuneError = 2
  MinClockSamples = 2
  Builds = {"Timer", "RTC"}
  FirstMicros <- WrappingMicros
  HostOffsets <- OffsetsAtStart
  RtcPhases <- SomePhases
  MaxSlips = 2
  Horizon = 58
INVARIANTS TypeOK OverlapIsBounded FollowsHostMicros ArrivesInReceiveSlot
CHECK_DEADLOCK FALSE
