SPECIFICATION MCSpec
CONSTANTS
  \* WaveformRing
  RingSize = 4
  Lag = 2
  QueueSize = 3
  MaxBuffers = 7
  TaskMayLag = TRUE
  KeptByRestart <- Either
  \* Parameters
  CommonPars = {33}
  NormPars <- MCNormPars
  BpPars <- MCBpPars
  FilterPars <- MCFilterPars
  Frequencies = {35, 36}
  Bins = {1}
  SendQueueSize = 2
INVARIANTS
  TypeOK
  WfTypeOK
  SentBuffersIntact
  HandedOverComplete
  InTimeNextBuffer
  ParametersConsistent
  DumpTellsWhatIsUsed
PROPERTIES
  RejectedLoadsNothing
