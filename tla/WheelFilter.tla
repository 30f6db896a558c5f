----------------------------- MODULE WheelFilter -----------------------------
(***************************************************************************)
(* The frequency bins polluted by the reaction wheels: TC_LFR_UPDATE_INFO  *)
(* brings the frequencies of the wheels, from which a mask of bins is      *)
(* built for each channel and merged with the mask of the ground; PRC asks *)
(* getFBinMask for each bin.  One channel; frequencies are integers, and   *)
(* the rounding of floats is left out.                                     *)
(***************************************************************************)
EXTENDS Integers

CONSTANTS
  Wheels,        \* frequencies followed: 4 wheels times 4
  MaskBytes,     \* BYTES_PER_MASK
  deltaFreq,     \* DELTAF_F0, _F1, _F2: from a bin to the next
  NaN,           \* a frequency not to be filtered
  Frequencies,   \* numbers found in TC_LFR_UPDATE_INFO
  HalfWidths,    \* values tried of sy_lfr_sc_rw_delta_f * sy_lfr_rw_k
  GroundMasks    \* masks tried of TC_LFR_LOAD_FBINS_MASK, as sets of bits

\* NaN is a number of no wheel.
ASSUME WheelAssumption ==
  /\ MaskBytes \in Nat \ {0} /\ deltaFreq \in Nat \ {0}
  /\ Frequencies \subseteq Int /\ NaN \notin Frequencies /\ HalfWidths \subseteq Nat

MaskBins == 0 .. 8 * MaskBytes - 1  \* BIN_MIN .. BIN_MAX

\* The bit of a bin: the bytes of a mask come in decreasing order.
Bit(bin) == <<MaskBytes - 1 - (bin \div 8), bin % 8>>
AllBits == {Bit(bin) : bin \in MaskBins}

VARIABLES
  rw_f,       \* wheel -> frequency
  halfWidth,  \* wheel -> sy_lfr_sc_rw_delta_f * sy_lfr_rw_k
  fbins,      \* sy_lfr_fbins_fx_word1, the bits that are 1
  rw_mask,    \* sy_lfr_rw_mask_fx_word1
  merged,     \* merged_fbins_mask_fx
  builtWith   \* history: halfWidth when rw_mask was built

wheelVars == <<rw_f, halfWidth, fbins, rw_mask, merged, builtWith>>

\* The rw_k are 0 until they are loaded (BootFilter of Parameters); no mask
\* is built before the first TC_LFR_UPDATE_INFO.
WheelInit ==
  /\ rw_f = [w \in Wheels |-> NaN]
  /\ halfWidth = [w \in Wheels |-> 0]
  /\ fbins = AllBits /\ rw_mask = AllBits /\ merged = AllBits
  /\ builtWith = halfWidth

-----------------------------------------------------------------------------
(* setFBinMask: the range of a wheel is sampled at most deltaFreq apart.   *)

\* mutant: the end of the range is not sampled
PointsBelowMax(lo, hi) == {p \in lo .. hi : (p - lo) % deltaFreq = 0}

Points(lo, hi) == {p \in lo .. hi : (p - lo) % deltaFreq = 0} \cup {hi}

binBelow(p) == p \div deltaFreq
binAbove(p) == -((-p) \div deltaFreq)
closestBin(p) ==
  IF binAbove(p) * deltaFreq - p > p - binBelow(p) * deltaFreq
  THEN binBelow(p) ELSE binAbove(p)

Abs(n) == IF n < 0 THEN -n ELSE n
NearBin(p) == 1000 * Abs(p - closestBin(p) * deltaFreq) < 285 * deltaFreq  \* FI_INTERVAL_COEFF

\* Index 0 of a mask is bin 1 of the spectrum.
binToRemove(p) ==
  MaskBins \cap
    (IF NearBin(p) THEN closestBin(p) - 2 .. closestBin(p)
     ELSE {binBelow(p) - 1, binAbove(p) - 1})

setFBinMask(mask, f, half) ==
  IF f = NaN THEN mask
  ELSE mask \ {Bit(bin) : bin \in UNION {binToRemove(p) : p \in Points(f - half, f + half)}}

build_sy_lfr_rw_mask(f) ==
  LET masks == {setFBinMask(AllBits, f[w], halfWidth[w]) : w \in Wheels} IN
  {bit \in AllBits : \A mask \in masks : bit \in mask}

-----------------------------------------------------------------------------
(* The telecommands; ACTN is not preempted, nor are they by PRC.           *)

\* action_update_info: a negative frequency is refused, the others with it;
\* NaN is smaller than nothing.
UpdateInfo(f) ==
  /\ \A w \in Wheels : f[w] # NaN => f[w] >= 0
  /\ rw_f' = f
  /\ rw_mask' = build_sy_lfr_rw_mask(f)
  /\ merged' = fbins \cap rw_mask'
  /\ builtWith' = halfWidth
  /\ UNCHANGED <<halfWidth, fbins>>

\* action_load_fbins_mask
LoadFbins(mask) ==
  /\ fbins' = mask
  /\ merged' = mask \cap rw_mask
  /\ UNCHANGED <<rw_f, halfWidth, rw_mask, builtWith>>

\* action_load_filter_par: the masks wait for the next frequencies.
LoadFilterPar(half) ==
  /\ halfWidth' = half
  /\ UNCHANGED <<rw_f, fbins, rw_mask, merged, builtWith>>

WheelNext ==
  \/ \E f \in [Wheels -> Frequencies \cup {NaN}] : UpdateInfo(f)
  \/ \E mask \in GroundMasks : LoadFbins(mask)
  \/ \E half \in [Wheels -> HalfWidths] : LoadFilterPar(half)

WheelSpec == WheelInit /\ [][WheelNext]_wheelVars

-----------------------------------------------------------------------------
(* Property *)

\* getFBinMask
getFBinMask(index) == <<MaskBytes - 1 - (index \div 8), index % 8>> \in merged

\* The distance of frequency x to the range of a wheel
Distance(x, w) ==
  LET out == Abs(x - rw_f[w]) - builtWith[w] IN IF out < 0 THEN 0 ELSE out

\* A bin is used exactly if the ground wants it and it is at least 1.285 bins
\* away from every frequency of the range of every wheel, with the factors of
\* the last TC_LFR_UPDATE_INFO: what a point of the range removes reaches no
\* further, and the samples leave no gap (setFBinMask, getFBinMask).
WheelBinsMasked ==
  \A bin \in MaskBins :
    getFBinMask(bin) <=>
      /\ Bit(bin) \in fbins
      /\ \A w \in Wheels : rw_f[w] # NaN =>
           1000 * Distance((bin + 1) * deltaFreq, w) >= 1285 * deltaFreq
=============================================================================
