\* One short outage, and the tune request or its answer is lost.
SPECIFICATION Spec
CONSTANTS
  None = None
  Never = Never
  PowerMin = 3
  PowerMax = 8
  AdjustUpLong = 3
  AdjustDownLong = 2
  RssiTarget = 5
  RssiMargin = 1
  SampleCount = 1
  PowerUpdate = 1
  Panic = 4
  InfoUpdate = 2
  InfoStale = 3
  Intervention = 3
  Disconnect = 5
  TunePeriod = 7
  Rssis = {5}
  Talkers <- NoEnds
  MaxOutage = 1
  MinCalm = 1
  Long = 4
  Tunes = TRUE
INVARIANT ClockIsTuned
CHECK_DEADLOCK FALSE
