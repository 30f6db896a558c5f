SPECIFICATION PasSpec
CONSTANTS
  Second = 4
  Durations = {1, 4}
  Moduli = {16, 20}
  Offsets = {0, 12, 16}
  Shifts = {2, 3}
  Tbads = {4, 16}
  Word = 65536
  Gap = 1
  MaxTime = 72
INVARIANTS
  AnyOverlapDropped
CHECK_DEADLOCK FALSE
