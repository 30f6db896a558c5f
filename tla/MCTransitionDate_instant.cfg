SPECIFICATION DateSpec
CONSTANTS
  SyncBit <- MCSyncBit
  MaxDelta = 3
  MaxSetBack = 2
INVARIANTS
  InstantTransition
