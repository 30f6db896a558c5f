--------------------------- MODULE MCHousekeeping ---------------------------
(* Model checking of Housekeeping with the errors of the SpaceWire link that *)
(* spacewire_get_last_error takes one for another.                           *)
EXTENDS Housekeeping
=============================================================================
