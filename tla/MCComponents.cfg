SPECIFICATION MCSpec
CONSTANTS
  \* Averaging
  Channels = {1, 2}
  Norm <- NormPeriods
  Sbm <- SbmPeriodsOfModes
  NormRing = 2
  SbmRing = 3
  QueueSize = 2
  PrcLag = 2
  MaxBatches = 6
  MaxPolluted = 1
  \* SpectralRing
  RingSize = 5
  Batch = 3
  Lag = 1
  IsrLag = 1
  StartsAnywhere = TRUE
  KeptByRestart <- Either
  MaxMatrices = 11
  \* SnapshotAssembly
  F1Slots = 2
  F2Slots = 32
  SnapshotPeriod <- CorrectedPeriod
  MaxShortening <- LargestCorrection
  MaxSnapshots = 4
  \* SnapshotExtraction
  FrequencyChannels = {"F1", "F2"}
  RingNodes = 5
  Samples = 2688
  TicksPerSample <- MCTicksPerSample
  DeltaT <- MCDeltaT
  DeltaF0 = 2731
  F0Ticks = 7168
  FirstF0 = 1179648
  Period <- MCPeriod
  Phases <- MCPhases
  Settings <- MCSettings
  CutLag = 1
  MaxBuffers <- MCMaxBuffers
  \* TransitionDate
  SyncBit <- MCSyncBit
  MaxDelta = 3
  MaxSetBack = 2
  \* SpectralMatrix
  Bins = 128
  First = 6
  Keep = 96
  PerBin = 8
  SkipsBins = {TRUE, FALSE}
  \* PasFilter
  Second = 4
  Durations = {1, 4}
  Moduli = {16, 20}
  Offsets = {0, 12, 16}
  Shifts = {2, 3}
  Tbads = {4, 16}
  Word = 65536
  Gap = 1
  MaxTime = 72
  \* WheelFilter
  Wheels = {1, 2}
  MaskBytes = 2
  deltaFreq = 20
  NaN = NaN
  Frequencies <- MCFrequencies
  HalfWidths = {7, 25}
  GroundMasks <- MCGroundMasks
  \* Timecode
  SPW_TIMECODE_MAX = 5
  \* Housekeeping
  SpwLow = {"parity_err"}
  SpwMedium = {"early_ep"}
  IsrLow = {"timecode_missing"}
  Rmap = {}
  Byte = 3
  Burst = 1
  MaxErrors = 3
  \* TcAcceptance
  Packets <- MCPackets
  ActnQueue = 2
  SeqCntMax = 12
  MaxPackets = 3
INVARIANTS
  TypesOK
  NormalAverages
  SbmBp1Averages
  SbmBp2Averages
  NothingDueIsLost
  RingTypeOK
  EveryMatrixOnce
  SnapshotCut
  NoEarlyPacketInSync
  StartsSoon
  DateTypeOK
  BinsInPlace
  PollutedDropped
  WheelBinsMasked
  TimecodeAnomaliesSeen
  ErrorsCounted
  AnsweredOnce
PROPERTIES
  SnapshotsTogether
  EverySnapshotResynched
  NoSnapshotLost
CHECK_DEADLOCK FALSE
