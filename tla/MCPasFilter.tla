---------------------------- MODULE MCPasFilter ----------------------------
(* Model checking of PasFilter with a second of 4 units: a matrix lasts a    *)
(* unit, or a second as at f2.                                              *)
EXTENDS PasFilter
=============================================================================
