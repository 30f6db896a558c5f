------------------------ MODULE MCRingAndParameters ------------------------
(***************************************************************************)
(* Model checking of WaveformRing and of Parameters, one at a time: part   *)
(* names the one that takes steps in a behaviour, the other stays as it    *)
(* is.                                                                     *)
(***************************************************************************)
EXTENDS MCParameters, MCWaveformRing

VARIABLE part

MCInit == part \in {"ring", "parameters"} /\ TimelyInit /\ Init

MCNext ==
  \/ part = "ring" /\ TimelyNext /\ UNCHANGED <<part, vars>>
  \/ part = "parameters" /\ Next /\ UNCHANGED <<part, wfVars, timely>>

MCSpec == MCInit /\ [][MCNext]_<<part, wfVars, timely, vars>>
=============================================================================
