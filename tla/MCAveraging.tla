---------------------------- MODULE MCAveraging ----------------------------
(* Model checking of Averaging with periods of one to four batches. *)
EXTENDS Averaging

NormPeriods == [bp1 |-> 2, bp2 |-> 4, asm |-> 4]

SbmPeriodsOfModes == [m \in {"BURST", "SBM1", "SBM2"} |->
  CASE m = "BURST" -> [bp1 |-> 3, bp2 |-> 3]
    [] m = "SBM1"  -> [bp1 |-> 1, bp2 |-> 2]
    [] m = "SBM2"  -> [bp1 |-> 2, bp2 |-> 4]]
=============================================================================
