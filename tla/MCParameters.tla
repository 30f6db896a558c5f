---------------------------- MODULE MCParameters ----------------------------
(* Model checking of Parameters: beside the default values, sets that are   *)
(* consistent and sets that fail one check, each at its boundary.           *)
EXTENDS Parameters

N(l, p, a, p0, p1) ==
  [swf_l |-> l, swf_p |-> p, asm_p |-> a, bp_p0 |-> p0, bp_p1 |-> p1]

MCNormPars == {N(2048, 22, 24, 6, 24), N(2047, 22, 24, 6, 24), N(2048, 21, 24, 6, 24),
               N(2048, 22, 24, 3, 21), N(2048, 22, 0, 6, 24), N(2048, 22, 25, 6, 24),
               N(2048, 22, 24, 6, 18), N(2048, 22, 24, 6, 26)}

B(p0, p1) == [p0 |-> p0, p1 |-> p1]

\* [2, 5] is consistent in SBM1 only, where 5 s are 20 quarters.
MCBpPars == [m \in BpModes |-> CASE m = "BURST" -> {B(5, 5), B(0, 5), B(2, 5)}
                               [] m = "SBM1"  -> {B(2, 5), B(3, 5)}
                               [] OTHER       -> {B(1, 4), B(2, 5)}]

F(m, t, o, s, k) == [modulus |-> m, tbad |-> t, offset |-> o, shift |-> s, k |-> k]

MCFilterPars == {F(8, 8, 7, 1, 0), F(9, 2, 0, 1, 1), F(8, 9, 0, 1, 1), F(8, 2, 8, 1, 1),
                 F(8, 2, 7, 2, 1), F(8, 2, 0, 3, 1), F(8, 2, 0, 1, -1)}
=============================================================================
