SPECIFICATION SmSpec
CONSTANTS
  Bins = 128
  First = 16
  Keep = 88
  PerBin = 8
  SkipsBins = {TRUE}
INVARIANTS
  KeptBinsSummed
CHECK_DEADLOCK FALSE
