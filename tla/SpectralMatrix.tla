--------------------------- MODULE SpectralMatrix ---------------------------
(***************************************************************************)
(* One averaged matrix through memory: AVF sums the elements of the        *)
(* matrices of the module, PRC copies each kept frequency bin into a 5 x 5 *)
(* matrix, changes its basis, and compresses the result.  The loops are    *)
(* pointer arithmetic on two layouts; a value is known by the place it     *)
(* comes from.                                                             *)
(*                                                                         *)
(* The matrices are Hermitian: the upper triangle is stored, one float on  *)
(* the diagonal and two elsewhere, 25 floats in all.  The module writes    *)
(* the real elements of the diagonal bin after bin, the complex ones with  *)
(* real and imaginary parts interleaved; PRC writes bin after bin.         *)
(***************************************************************************)
EXTENDS Integers

CONSTANTS
  Bins,        \* NB_BINS_PER_SM
  First,       \* ASM_F0_INDICE_START, _F1_, _F2_
  Keep,        \* ASM_F0_KEEP_BINS, _F1_, _F2_
  PerBin,      \* NB_BINS_TO_AVERAGE_ASM_F0, ..., which divides Keep
  SkipsBins    \* whether the discarded bins are skipped: SM_average does, SM_average_f2 does not

ASSUME LayoutAssumption ==
  /\ Bins \in Nat /\ First \in Nat /\ Keep \in Nat \ {0} /\ PerBin \in Nat \ {0}
  /\ First + Keep <= Bins /\ SkipsBins \subseteq BOOLEAN

Floats == 25  \* NB_FLOATS_PER_SM
Component == 0 .. Floats - 1
Line == 0 .. 4
Limit == First + Keep
Kept == First .. Limit - 1
CompressedBins == Keep \div PerBin  \* NB_BINS_COMPRESSED_SM_F0, ...

\* The floats of the upper triangle before an element, line by line
Offset(l, c) == l * (10 - l) + (IF l = c THEN 0 ELSE 2 * (c - l) - 1)

\* Where the module writes the (real part of the) element of a bin
HwIndex(l, c, f) == Offset(l, c) * Bins + (IF l = c THEN f ELSE 2 * f)

VARIABLES
  pc,                \* the loop that runs
  component,         \* SM_average
  summed,            \* floats of the averaged matrix that hold the sums
  frequency_offset, line, column, in_ptr, out_ptr,  \* SM_calibrate_and_reorder
  cal,               \* the calibration matrices pointed to
  work,              \* work_matrix: where each float was read
  asm,               \* output matrix: bins changed so far -> what was taken
  compressed_bin, bin, \* ASM_compress_divide_and_mask
  cells              \* compressed_spec_mat: what was added to its floats

average == <<component, summed>>
reorder == <<frequency_offset, line, column, in_ptr, out_ptr, cal, work, asm>>
compress == <<compressed_bin, bin, cells>>
smVars == <<pc, average, reorder, compress>>

Nothing == -1

SmInit ==
  /\ pc \in {IF skip THEN "average" ELSE "average_f2" : skip \in SkipsBins}
  /\ component = 0 /\ summed = {}
  /\ frequency_offset = First /\ line = 0 /\ column = 0
  /\ in_ptr = First /\ out_ptr = 0 /\ cal = 0
  /\ work = [k \in Component |-> Nothing]
  /\ asm = [f \in First .. First - 1 |-> [work |-> work, cal |-> cal]]
  /\ compressed_bin = 0 /\ bin = 0
  /\ cells = {}

-----------------------------------------------------------------------------
(* AVF *)

\* SM_average, the loop over a component: two floats at a time
Average ==
  /\ pc = "average"
  /\ summed' = summed \cup
       (component * Bins + First .. component * Bins + Limit - 1 + (Keep % 2))
  /\ component' = component + 1
  /\ pc' = IF component' = Floats THEN "reorder" ELSE "average"
  /\ UNCHANGED <<reorder, compress>>

\* SM_average_f2
AverageAll ==
  /\ pc = "average_f2"
  /\ summed' = 0 .. Bins * Floats - 1
  /\ component' = Floats /\ pc' = "reorder"
  /\ UNCHANGED <<reorder, compress>>

-----------------------------------------------------------------------------
(* PRC, SM_calibrate_and_reorder *)

\* mutant: the pointer is not brought back at the end of a line
PointerRunsOn(ptr) ==
  IF column < 4 THEN /\ column' = column + 1 /\ line' = line
                     /\ in_ptr' = ptr
                ELSE /\ line' = line + 1 /\ column' = line + 1
                     /\ in_ptr' = ptr

\* The inner loop: the next column, or the diagonal of the next line, for
\* which the pointer has advanced by a bin too many.
NextElement(ptr) ==
  IF column < 4 THEN /\ column' = column + 1 /\ line' = line
                     /\ in_ptr' = ptr
                ELSE /\ line' = line + 1 /\ column' = line + 1
                     /\ in_ptr' = ptr - frequency_offset

CopyReal ==
  /\ pc = "reorder" /\ line \in Line /\ line = column
  /\ work' = [work EXCEPT ![out_ptr] = in_ptr]
  /\ out_ptr' = out_ptr + 1
  /\ NextElement(in_ptr + Bins + frequency_offset)
  /\ UNCHANGED <<pc, frequency_offset, cal, asm, average, compress>>

CopyComplex ==
  /\ pc = "reorder" /\ line \in Line /\ line # column
  /\ work' = [work EXCEPT ![out_ptr] = in_ptr, ![out_ptr + 1] = in_ptr + 1]
  /\ out_ptr' = out_ptr + 2
  /\ NextElement(in_ptr + 2 * Bins)
  /\ UNCHANGED <<pc, frequency_offset, cal, asm, average, compress>>

\* Matrix_change_of_basis, from the work matrix to the output, with the
\* calibration matrices of the bin; then the next bin
ChangeOfBasis ==
  /\ pc = "reorder" /\ line \notin Line
  /\ asm' = [f \in First .. frequency_offset |->
               IF f = frequency_offset THEN [work |-> work, cal |-> cal] ELSE asm[f]]
  /\ cal' = cal + 1
  /\ frequency_offset' = frequency_offset + 1
  /\ line' = 0 /\ column' = 0 /\ in_ptr' = frequency_offset' /\ out_ptr' = 0
  /\ pc' = IF frequency_offset' = Limit THEN "compress" ELSE "reorder"
  /\ UNCHANGED <<work, average, compress>>

-----------------------------------------------------------------------------
(* PRC, ASM_compress_divide_and_mask *)

\* input_asm_ptr is never moved: the float it reads, and the bin of that float
input_asm_ptr == First * Floats

\* A bin of the matrix is added to a compressed one.  The mask is that of the
\* bin, getFBinMask(freq_offset); compressed_asm_ptr starts at the number of
\* the compressed bin.
Compress ==
  /\ pc = "compress"
  /\ cells' = cells \cup
       {[to |-> compressed_bin + k, from |-> input_asm_ptr,
         mask |-> First + compressed_bin * PerBin + bin] : k \in Component}
  /\ IF bin + 1 < PerBin
     THEN bin' = bin + 1 /\ UNCHANGED compressed_bin
     ELSE bin' = 0 /\ compressed_bin' = compressed_bin + 1
  /\ pc' = IF compressed_bin' = CompressedBins THEN "done" ELSE "compress"
  /\ UNCHANGED <<average, reorder>>

SmNext == Average \/ AverageAll \/ CopyReal \/ CopyComplex \/ ChangeOfBasis \/ Compress

SmSpec == SmInit /\ [][SmNext]_smVars

-----------------------------------------------------------------------------
(* Properties *)

\* Every element PRC reads holds the sum of the matrices, and not the zero
\* it was cleared to: only discarded frequencies are skipped (SM_average,
\* SM_average_f2 against SM_calibrate_and_reorder).
KeptBinsSummed ==
  pc = "reorder" /\ line \in Line =>
    in_ptr \in summed /\ (line # column => in_ptr + 1 \in summed)

\* m holds the upper triangle of bin f, line by line.
TriangleOf(m, f) ==
  \A l \in Line : \A c \in l .. 4 :
    /\ m[Offset(l, c)] = HwIndex(l, c, f)
    /\ l # c => m[Offset(l, c) + 1] = HwIndex(l, c, f) + 1

\* The change of basis of a bin has taken the elements of this bin, in order,
\* and the calibration matrices of this bin: the pointers of the loops never
\* drift (SM_calibrate_and_reorder).
BinsInPlace ==
  \A f \in Kept : f < frequency_offset => TriangleOf(asm[f].work, f) /\ asm[f].cal = f - First

\* "matr0[0 .. 24] matr1[0 .. 24] .. matr11[0 .. 24]": a float of a compressed
\* matrix is the sum of this float over its bins (ASM_compress_divide_and_mask).
BinsCompressed ==
  pc = "done" =>
    cells = {[to |-> ((f - First) \div PerBin) * Floats + k, from |-> f * Floats + k,
              mask |-> f] : f \in Kept, k \in Component}
=============================================================================
