-------------------------- MODULE MCTransitionDate --------------------------
(* Model checking of TransitionDate with a small synchronization bit.       *)
EXTENDS TransitionDate

\* 8 dates, more than the bound of check_transition_date twice over.
MCSyncBit == 8
=============================================================================
