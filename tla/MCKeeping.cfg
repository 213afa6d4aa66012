\* The periods of the code, outages of three units that come seldom, and tunes.
SPECIFICATION Spec
CONSTANTS
  None = None
  Never = Never
  PowerMin = 13
  PowerMax = 100
  AdjustUpLong = 20
  AdjustDownLong = 10
  RssiTarget = 140
  RssiMargin = 15
  SampleCount = 3
  PowerUpdate = 3
  Panic = 8
  InfoUpdate = 5
  InfoStale = 6
  Intervention = 6
  Disconnect = 10
  TunePeriod = 2
  Rssis = {140}
  Talkers <- RemoteOnly
  MaxOutage = 3
  MinCalm = 7
  Long = 16
  Tunes = TRUE
INVARIANTS LinkSurvives InfoIsFresh
CHECK_DEADLOCK FALSE
