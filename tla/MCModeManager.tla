---------------------------- MODULE MCModeManager ----------------------------
(* Model checking of ModeManager: every mode byte, the invalid one included. *)
EXTENDS ModeManager

MCRequestedModes == Modes \cup {InvalidMode}
=============================================================================
