\* Small periods, long outages and a weak or a strong signal: links are given up.
SPECIFICATION FairSpec
CONSTANTS
  None = None
  Never = Never
  PowerMin = 4
  PowerMax = 5
  AdjustUpLong = 3
  AdjustDownLong = 2
  RssiTarget = 5
  RssiMargin = 1
  SampleCount = 1
  PowerUpdate = 1
  Panic = 4
  InfoUpdate = 2
  InfoStale = 3
  Intervention = 3
  Disconnect = 5
  TunePeriod = 7
  Rssis = {2, 7}
  Talkers <- NoEnds
  MaxOutage = 6
  MinCalm = 3
  Long = 4
  Tunes = FALSE
INVARIANT TypeOK
PROPERTIES GivenUpAtFullPower LossIsMutual
CHECK_DEADLOCK FALSE
