\* The default build, on ideal RTCs: the slots of the two ends.
SPECIFICATION Spec
CONSTANTS
  None = None
  Wrap = 64
  Second = 20
  SecondsRange = 64
  Period = 10
  RTT = 5
  AirTime = 2
  Latency = 2
  MaxTuneError = 2
  MinClockSamples = 2
  Builds = {"RTC"}
  FirstMicros <- WrappingMicros
  HostOffsets <- OffsetsAtStart
  RtcPhases <- SomePhases
  MaxSlips = 0
  Horizon = 58
INVARIANT TakeTurns
CHECK_DEADLOCK FALSE
