SPECIFICATION Spec
CONSTANTS
  Channels = {0}
  Norm <- NormPeriods
  Sbm <- SbmPeriodsOfModes
  NormRing = 2
  SbmRing = 3
  QueueSize = 2
  PrcLag = 2
  MaxBatches = 5
  MaxPolluted = 1
INVARIANTS
  SbmBp1Averages
CHECK_DEADLOCK FALSE
