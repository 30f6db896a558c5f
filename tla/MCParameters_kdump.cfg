SPECIFICATION Spec
CONSTANTS
  CommonPars = {33}
  NormPars <- MCNormPars
  BpPars <- MCBpPars
  FilterPars <- MCFilterPars
  Frequencies = {35, 36}
  Bins = {1}
  SendQueueSize = 2
INVARIANTS
  DumpHoldsCoefficients
