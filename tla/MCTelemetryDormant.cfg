CONSTANTS
  w1 = w1
  WatchedCells <- MCWatched
  Master = Master
  MaxAnchorLag = 1
  FallDelay = 2
  FailoverWindow = 3
  MaxTriggers = 1
  AnchorPeriod = 1
  MaxMonitorFaults = 1
  Checkers = {check1}
  FutureSkew = 1
  AnchorMaxLag = 1
  AnchorBacklog = 1
  MaxTSASkew = 2
  MaxHead = 2
  MaxAnchorTime = 3
  MaxAnchors = 2
  Dsts = {d1, d2}
  Sizes = {1}
  Ring = 2
  HourLen = 2
  HourRing = 2
  Word = 16
  ByteThreshold24h = 1
  ByteThreshold7d = 2
  WBytes = 5
  WOther = {0, 3}
  AlertThreshold = 5
  Hysteresis = 1
  MaxEntities = 1
  MaxBatches = 1
  RawTTL = 2
  MaxMinute = 5
  MaxFed = 4
  MaxLeafFailures = 1
  MaxStepsBack = 1
SPECIFICATION MCSpec
INVARIANT
  DormantIsIdle
CHECK_DEADLOCK FALSE
