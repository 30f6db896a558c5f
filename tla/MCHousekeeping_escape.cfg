SPECIFICATION HkSpec
CONSTANTS
  SpwLow = {"parity_err", "escape_err"}
  SpwMedium = {}
  IsrLow = {}
  Rmap = {"rx_rmap_header_crc_err"}
  Byte = 3
  Burst = 1
  MaxErrors = 2
INVARIANTS
  LastErrorHappened
CHECK_DEADLOCK FALSE
