-------------------------- MODULE MCSpectralMatrix --------------------------
(* Model checking of SpectralMatrix with the bins of the program.          *)
EXTENDS SpectralMatrix
=============================================================================
