SPECIFICATION SmSpec
CONSTANTS
  Bins = 128
  First = 6
  Keep = 96
  PerBin = 8
  SkipsBins = {FALSE}
INVARIANTS
  BinsCompressed
CHECK_DEADLOCK FALSE
