------------------------ MODULE SpectralMatrix_proofs ------------------------
(***************************************************************************)
(* Which bins of which spectral matrices are used: the layout and the      *)
(* pointers of SpectralMatrix, for any number of bins and any bins kept,   *)
(* the matrices that PasFilter drops, for all accepted parameters, and the *)
(* bins that WheelFilter removes, for all frequencies and widths.          *)
(***************************************************************************)
EXTENDS SpectralMatrix, PasFilter, WheelFilter, TLAPS

-----------------------------------------------------------------------------
(* SpectralMatrix *)

\* The elements copied for the bin in progress: those before line and column.
Copied(l, c) == l < line \/ (l = line /\ c < column)

\* The locals of the loops
LoopTypes ==
  /\ pc \in {"average", "average_f2", "reorder", "compress", "done"}
  /\ frequency_offset \in Int /\ First <= frequency_offset
  /\ pc \in {"average", "average_f2", "reorder"} => frequency_offset \in Kept
  /\ cal = frequency_offset - First
  /\ line \in Int /\ column \in Int
  /\ 0 <= line /\ line <= 5 /\ line <= column /\ (line < 5 => column <= 4)
  /\ work \in [Component -> Int]
  /\ asm \in [First .. frequency_offset - 1 -> [work : [Component -> Int], cal : Int]]

\* The pointers are where the layouts say.
PointersInPlace ==
  line < 5 /\ pc \in {"average", "average_f2", "reorder"} =>
    /\ in_ptr = HwIndex(line, column, frequency_offset)
    /\ out_ptr = Offset(line, column)

\* So is what has been copied.
CopiesInPlace ==
  pc \in {"average", "average_f2", "reorder"} =>
    \A l \in Line : \A c \in l .. 4 : Copied(l, c) =>
      /\ work[Offset(l, c)] = HwIndex(l, c, frequency_offset)
      /\ l # c => work[Offset(l, c) + 1] = HwIndex(l, c, frequency_offset) + 1

IInv == LoopTypes /\ PointersInPlace /\ CopiesInPlace /\ BinsInPlace

-----------------------------------------------------------------------------
(* The layout *)

\* The places of the elements in the triangle: one float after an element of
\* the diagonal, two after another.
LEMMA OffsetTable ==
  /\ Offset(0, 0) = 0 /\ Offset(0, 1) = 1 /\ Offset(0, 2) = 3 /\ Offset(0, 3) = 5 /\ Offset(0, 4) = 7
  /\ Offset(1, 1) = 9 /\ Offset(1, 2) = 10 /\ Offset(1, 3) = 12 /\ Offset(1, 4) = 14
  /\ Offset(2, 2) = 16 /\ Offset(2, 3) = 17 /\ Offset(2, 4) = 19
  /\ Offset(3, 3) = 21 /\ Offset(3, 4) = 22 /\ Offset(4, 4) = 24
  BY DEF Offset

LEMMA OffsetNext ==
  ASSUME NEW l \in Line, NEW c \in l .. 4
  PROVE  /\ Offset(l, c) \in Component
         /\ l # c => Offset(l, c) + 1 \in Component
         /\ c < 4 => Offset(l, c + 1) = Offset(l, c) + (IF l = c THEN 1 ELSE 2)
         /\ c = 4 /\ l < 4 => Offset(l + 1, l + 1) = Offset(l, c) + (IF l = c THEN 1 ELSE 2)
<1>1. /\ l = 0 \/ l = 1 \/ l = 2 \/ l = 3 \/ l = 4
      /\ c = 0 \/ c = 1 \/ c = 2 \/ c = 3 \/ c = 4
  BY DEF Line
<1>2. CASE l = 0
  BY <1>1, <1>2, OffsetTable DEF Component, Floats
<1>3. CASE l = 1
  BY <1>1, <1>3, OffsetTable DEF Component, Floats
<1>4. CASE l = 2
  BY <1>1, <1>4, OffsetTable DEF Component, Floats
<1>5. CASE l = 3
  BY <1>1, <1>5, OffsetTable DEF Component, Floats
<1>6. CASE l = 4
  BY <1>1, <1>6, OffsetTable DEF Component, Floats
<1> QED
  BY <1>1, <1>2, <1>3, <1>4, <1>5, <1>6

\* An element that comes before another one lies wholly before it.
LEMMA OffsetOrder ==
  ASSUME NEW l \in Line, NEW c \in l .. 4, NEW m \in Line, NEW d \in m .. 4,
         l < m \/ (l = m /\ c < d)
  PROVE  /\ Offset(l, c) < Offset(m, d)
         /\ l # c => Offset(l, c) + 1 < Offset(m, d)
<1>1. /\ l = 0 \/ l = 1 \/ l = 2 \/ l = 3 \/ l = 4
      /\ c = 0 \/ c = 1 \/ c = 2 \/ c = 3 \/ c = 4
      /\ m = 0 \/ m = 1 \/ m = 2 \/ m = 3 \/ m = 4
      /\ d = 0 \/ d = 1 \/ d = 2 \/ d = 3 \/ d = 4
  BY DEF Line
<1>2. CASE l = 0
  BY <1>1, <1>2, OffsetTable
<1>3. CASE l = 1
  BY <1>1, <1>3, OffsetTable
<1>4. CASE l = 2
  BY <1>1, <1>4, OffsetTable
<1>5. CASE l = 3
  BY <1>1, <1>5, OffsetTable
<1>6. CASE l = 4
  BY <1>1, <1>6, OffsetTable
<1> QED
  BY <1>1, <1>2, <1>3, <1>4, <1>5, <1>6

\* The same for the matrices of the module: the pointer advances by the bins
\* of one block after the diagonal, of two blocks elsewhere.
LEMMA HwNext ==
  ASSUME NEW l \in Line, NEW c \in l .. 4, NEW f \in Int
  PROVE  /\ HwIndex(l, c, f) \in Int
         /\ c < 4 => HwIndex(l, c + 1, f) =
              HwIndex(l, c, f) + (IF l = c THEN Bins + f ELSE 2 * Bins)
         /\ c = 4 /\ l < 4 => HwIndex(l + 1, l + 1, f) =
              HwIndex(l, c, f) + (IF l = c THEN Bins + f ELSE 2 * Bins) - f
<1> DEFINE o == Offset(l, c)
<1>1. o \in Int /\ l \in Int /\ c \in Int /\ Bins \in Int
  BY OffsetNext, LayoutAssumption DEF Component, Floats, Line
<1>2. (o + 1) * Bins = o * Bins + Bins /\ (o + 2) * Bins = o * Bins + 2 * Bins
  <2> HIDE DEF o
  <2> QED
    BY <1>1
<1>3. o * Bins \in Int
  <2> HIDE DEF o
  <2> QED
    BY <1>1
<1>4. c < 4 => Offset(l, c + 1) * Bins = o * Bins + (IF l = c THEN Bins ELSE 2 * Bins)
  BY <1>2, OffsetNext
<1>5. c = 4 /\ l < 4 => Offset(l + 1, l + 1) * Bins = o * Bins + (IF l = c THEN Bins ELSE 2 * Bins)
  BY <1>2, OffsetNext
<1> HIDE DEF o
<1>6. HwIndex(l, c, f) = o * Bins + (IF l = c THEN f ELSE 2 * f)
  BY DEF HwIndex, o
<1>7. c < 4 => HwIndex(l, c + 1, f) = Offset(l, c + 1) * Bins + 2 * f
  BY DEF HwIndex, Line
<1>8. HwIndex(l + 1, l + 1, f) = Offset(l + 1, l + 1) * Bins + f
  BY DEF HwIndex
<1> QED
  BY <1>1, <1>3, <1>4, <1>5, <1>6, <1>7, <1>8

-----------------------------------------------------------------------------
(* The invariant *)

LEMMA SmInitIInv == SmInit => IInv
<1> SUFFICES ASSUME SmInit PROVE IInv
  OBVIOUS
<1>1. First \in Kept /\ First \in Int
  BY LayoutAssumption DEF Kept, Limit
<1>2. Nothing \in Int
  BY DEF Nothing
<1>3. work \in [Component -> Int]
  BY <1>2 DEF SmInit
<1>4. asm \in [First .. frequency_offset - 1 -> [work : [Component -> Int], cal : Int]]
  BY <1>1, <1>3 DEF SmInit
<1>5. LoopTypes
  BY <1>1, <1>3, <1>4 DEF SmInit, LoopTypes
<1>6. PointersInPlace
  <2>1. Offset(0, 0) * Bins = 0
    BY OffsetTable, LayoutAssumption
  <2> QED
    BY <2>1, <1>1, OffsetTable DEF SmInit, PointersInPlace, HwIndex
<1>7. CopiesInPlace
  BY DEF SmInit, CopiesInPlace, Copied, Line
<1>8. BinsInPlace
  BY LayoutAssumption DEF SmInit, BinsInPlace, Kept, Limit
<1> QED
  BY <1>5, <1>6, <1>7, <1>8 DEF IInv

\* The loop over the elements of a bin: what it writes at out_ptr and where it
\* goes next.
LEMMA CopyIInv ==
  ASSUME IInv, pc = "reorder", line \in Line, column \in line .. 4,
         UNCHANGED <<pc, frequency_offset, cal, asm>>,
         work' \in [Component -> Int],
         \A k \in Component : k < out_ptr => work'[k] = work[k],
         work'[out_ptr] = in_ptr,
         line # column => work'[out_ptr + 1] = in_ptr + 1,
         out_ptr' = out_ptr + (IF line = column THEN 1 ELSE 2),
         NEW step \in Int,
         step = IF line = column THEN Bins + frequency_offset ELSE 2 * Bins,
         NextElement(in_ptr + step)
  PROVE  IInv'
<1> DEFINE f == frequency_offset
<1>1. /\ in_ptr = HwIndex(line, column, f) /\ out_ptr = Offset(line, column)
      /\ f \in Int /\ line \in Int /\ column \in Int /\ 0 <= line /\ line <= 4
      /\ line <= column /\ column <= 4
  BY DEF IInv, LoopTypes, PointersInPlace, Line
<1>2. /\ line' \in Int /\ column' \in Int /\ 0 <= line' /\ line' <= 5
      /\ line' <= column' /\ (line' < 5 => column' <= 4)
  BY <1>1 DEF NextElement
<1>3. LoopTypes'
  BY <1>2 DEF IInv, LoopTypes, Kept, Limit
<1>4. PointersInPlace'
  <2>1. SUFFICES ASSUME line' < 5
                 PROVE  in_ptr' = HwIndex(line', column', f) /\ out_ptr' = Offset(line', column')
    BY DEF PointersInPlace, HwIndex, Offset
  <2>2. CASE column < 4
    BY <2>2, <1>1, OffsetNext, HwNext DEF NextElement
  <2>3. CASE column = 4
    <3>1. line' = line + 1 /\ column' = line + 1 /\ line < 4
      BY <2>1, <2>3, <1>1 DEF NextElement
    <3>2. out_ptr' = Offset(line + 1, line + 1)
      BY <2>3, <3>1, <1>1, OffsetNext
    <3>3. in_ptr' = HwIndex(line + 1, line + 1, f)
      <4>1. in_ptr' = in_ptr + step - f
        <5>1. in_ptr \in Int
          BY <1>1, HwNext
        <5> QED
          BY <5>1, <1>1, <2>3 DEF NextElement
      <4>2. HwIndex(line + 1, line + 1, f) = HwIndex(line, column, f) + step - f
        <5>1. f \in Int /\ line \in Line /\ column \in line .. 4 /\ column = 4 /\ line < 4
          BY <1>1, <2>3, <3>1
        <5> HIDE DEF f
        <5> QED
          BY <5>1, HwNext
      <4> QED
        BY <1>1, <4>1, <4>2
    <3> QED
      BY <3>1, <3>2, <3>3
  <2> QED
    BY <1>1, <2>2, <2>3
<1>5. CopiesInPlace'
  <2>1. SUFFICES ASSUME NEW l \in Line, NEW c \in l .. 4, Copied(l, c)'
                 PROVE  /\ work'[Offset(l, c)] = HwIndex(l, c, f)
                        /\ l # c => work'[Offset(l, c) + 1] = HwIndex(l, c, f) + 1
    BY DEF CopiesInPlace, HwIndex, Offset
  <2>2. Copied(l, c) \/ (l = line /\ c = column)
    BY <2>1, <1>1 DEF Copied, NextElement, Line
  <2>3. CASE Copied(l, c)
    <3>1. /\ work[Offset(l, c)] = HwIndex(l, c, f)
          /\ l # c => work[Offset(l, c) + 1] = HwIndex(l, c, f) + 1
      BY <2>3 DEF IInv, CopiesInPlace
    <3>2. /\ Offset(l, c) \in Component /\ Offset(l, c) < out_ptr
          /\ l # c => Offset(l, c) + 1 \in Component /\ Offset(l, c) + 1 < out_ptr
      BY <2>3, <1>1, OffsetNext, OffsetOrder DEF Copied
    <3> QED
      BY <3>1, <3>2
  <2>4. CASE l = line /\ c = column
    BY <2>4, <1>1
  <2> QED
    BY <2>2, <2>3, <2>4
<1>6. BinsInPlace'
  BY DEF IInv, BinsInPlace, TriangleOf
<1> QED
  BY <1>3, <1>4, <1>5, <1>6 DEF IInv

LEMMA ChangeIInv == ASSUME IInv, ChangeOfBasis PROVE IInv'
<1> DEFINE f == frequency_offset
<1>1. /\ f \in Kept /\ f \in Int /\ cal = f - First /\ line = 5
      /\ work \in [Component -> Int] /\ First \in Int /\ Keep \in Int
  BY LayoutAssumption DEF IInv, LoopTypes, ChangeOfBasis, Line
<1>2. /\ frequency_offset' = f + 1 /\ cal' = cal + 1 /\ line' = 0 /\ column' = 0
      /\ in_ptr' = f + 1 /\ out_ptr' = 0 /\ work' = work
      /\ pc' = IF f + 1 = Limit THEN "compress" ELSE "reorder"
      /\ asm' = [g \in First .. f |-> IF g = f THEN [work |-> work, cal |-> cal] ELSE asm[g]]
  BY DEF ChangeOfBasis
<1>3. asm' \in [First .. frequency_offset' - 1 -> [work : [Component -> Int], cal : Int]]
  <2>1. \A g \in First .. f : g # f => g \in First .. f - 1
    BY <1>1
  <2>2. \A g \in First .. f - 1 : asm[g] \in [work : [Component -> Int], cal : Int]
    BY DEF IInv, LoopTypes
  <2>3. cal \in Int /\ frequency_offset' - 1 = f
    BY <1>1, <1>2
  <2> HIDE DEF f
  <2>4. \A g \in First .. f : asm'[g] \in [work : [Component -> Int], cal : Int]
    BY <2>1, <2>2, <2>3, <1>1, <1>2
  <2> QED
    BY <2>3, <2>4, <1>2
<1>4. LoopTypes'
  BY <1>1, <1>2, <1>3 DEF LoopTypes, Kept, Limit
<1>5. PointersInPlace'
  <2>1. Offset(0, 0) * Bins = 0
    BY OffsetTable, LayoutAssumption
  <2>2. HwIndex(0, 0, f + 1) = f + 1
    BY <2>1, <1>1 DEF HwIndex
  <2>3. PointersInPlace' = (line' < 5 /\ pc' \in {"average", "average_f2", "reorder"} =>
          /\ in_ptr' = HwIndex(line', column', frequency_offset')
          /\ out_ptr' = Offset(line', column'))
    BY DEF PointersInPlace, HwIndex, Offset
  <2> QED
    BY <2>2, <2>3, <1>2, OffsetTable
<1>6. CopiesInPlace'
  BY <1>2 DEF CopiesInPlace, Copied, Line
<1>7. TriangleOf(work, f)
  <2>1. \A l \in Line : \A c \in l .. 4 : Copied(l, c)
    BY <1>1 DEF Copied, Line
  <2>2. pc \in {"average", "average_f2", "reorder"}
    BY DEF ChangeOfBasis
  <2> QED
    BY <2>1, <2>2 DEF IInv, CopiesInPlace, TriangleOf
<1>8. BinsInPlace'
  <2>1. SUFFICES ASSUME NEW g \in Kept, g < f + 1
                 PROVE  TriangleOf(asm'[g].work, g) /\ asm'[g].cal = g - First
    BY <1>2 DEF BinsInPlace, TriangleOf, HwIndex, Offset
  <2>2. CASE g = f
    <3>1. asm'[g] = [work |-> work, cal |-> cal]
      BY <2>2, <1>1, <1>2 DEF IInv, LoopTypes
    <3> QED
      BY <3>1, <2>2, <1>1, <1>7
  <2>3. CASE g # f
    <3>1. asm'[g] = asm[g] /\ g < f
      BY <2>1, <2>3, <1>1, <1>2 DEF IInv, LoopTypes, Kept, Limit
    <3> QED
      BY <3>1 DEF IInv, BinsInPlace
  <2> QED
    BY <2>2, <2>3
<1> QED
  BY <1>4, <1>5, <1>6, <1>8 DEF IInv

\* The other loops leave what PRC has reordered.
LEMMA OtherIInv ==
  ASSUME IInv, UNCHANGED reorder, pc' \in {"average", "average_f2", "reorder", "compress", "done"},
         pc' \in {"average", "average_f2", "reorder"} => pc \in {"average", "average_f2", "reorder"}
  PROVE  IInv'
  BY SMTT(30) DEF IInv, LoopTypes, PointersInPlace, CopiesInPlace, Copied, BinsInPlace, TriangleOf,
                  HwIndex, Offset, reorder

LEMMA SmNextIInv == IInv /\ [SmNext]_smVars => IInv'
<1> SUFFICES ASSUME IInv, [SmNext]_smVars PROVE IInv'
  OBVIOUS
<1>1. CASE Average
  BY <1>1, OtherIInv DEF Average
<1>2. CASE AverageAll
  BY <1>2, OtherIInv DEF AverageAll
<1>3. CASE CopyReal
  <2>0. /\ line \in Line /\ column \in line .. 4 /\ frequency_offset \in Int /\ line = column
        /\ in_ptr = HwIndex(line, column, frequency_offset) /\ out_ptr = Offset(line, column)
    BY <1>3 DEF CopyReal, IInv, LoopTypes, PointersInPlace, Line
  <2>1. out_ptr \in Component /\ in_ptr \in Int
    BY <2>0, OffsetNext, HwNext
  <2>2. /\ work' \in [Component -> Int] /\ work'[out_ptr] = in_ptr
        /\ \A k \in Component : k < out_ptr => work'[k] = work[k]
    <3>1. work \in [Component -> Int] /\ work' = [work EXCEPT ![out_ptr] = in_ptr]
      BY <1>3 DEF CopyReal, IInv, LoopTypes
    <3> QED
      BY <2>1, <3>1 DEF Component, Floats
  <2> DEFINE step == Bins + frequency_offset
  <2>3. NextElement(in_ptr + step)
    <3>1. in_ptr + Bins + frequency_offset = in_ptr + step
      BY <2>0, <2>1, LayoutAssumption
    <3> QED
      BY <1>3, <3>1 DEF CopyReal
  <2>4. step \in Int /\ step = IF line = column THEN Bins + frequency_offset ELSE 2 * Bins
    BY <2>0, LayoutAssumption
  <2> HIDE DEF step
  <2> QED
    BY <1>3, <2>0, <2>2, <2>3, <2>4, CopyIInv DEF CopyReal
<1>4. CASE CopyComplex
  <2>0. /\ line \in Line /\ column \in line .. 4 /\ frequency_offset \in Int /\ line # column
        /\ in_ptr = HwIndex(line, column, frequency_offset) /\ out_ptr = Offset(line, column)
    BY <1>4 DEF CopyComplex, IInv, LoopTypes, PointersInPlace, Line
  <2>1. out_ptr \in Component /\ out_ptr + 1 \in Component /\ in_ptr \in Int
    BY <2>0, OffsetNext, HwNext
  <2>2. /\ work' \in [Component -> Int] /\ work'[out_ptr] = in_ptr
        /\ work'[out_ptr + 1] = in_ptr + 1
        /\ \A k \in Component : k < out_ptr => work'[k] = work[k]
    <3>1. /\ work \in [Component -> Int]
          /\ work' = [work EXCEPT ![out_ptr] = in_ptr, ![out_ptr + 1] = in_ptr + 1]
      BY <1>4 DEF CopyComplex, IInv, LoopTypes
    <3> QED
      BY <2>1, <3>1 DEF Component, Floats
  <2>3. 2 * Bins \in Int /\ 2 * Bins = IF line = column THEN Bins + frequency_offset ELSE 2 * Bins
    BY <2>0, LayoutAssumption
  <2> QED
    BY <1>4, <2>0, <2>2, <2>3, CopyIInv DEF CopyComplex
<1>5. CASE ChangeOfBasis
  BY <1>5, ChangeIInv
<1>6. CASE Compress
  BY <1>6, OtherIInv DEF Compress
<1>7. CASE UNCHANGED smVars
  BY <1>7, OtherIInv DEF smVars, IInv, LoopTypes
<1> QED
  BY <1>1, <1>2, <1>3, <1>4, <1>5, <1>6, <1>7 DEF SmNext

\* For any number of bins, and any bins kept, the change of basis of each bin
\* takes the elements of this bin, in order, and its calibration matrices
\* (SM_calibrate_and_reorder).
THEOREM EveryBinInPlace == SmSpec => []BinsInPlace
<1>1. IInv => BinsInPlace
  BY DEF IInv
<1> QED
  BY <1>1, SmInitIInv, SmNextIInv, PTL DEF SmSpec

-----------------------------------------------------------------------------
(* PasFilter *)

\* A matrix from a to b and a perturbation from s to e overlap, and not in the
\* way isPolluted misses.
Meets(a, b, s, e) ==
  s < b /\ a < e /\ ~(s = a /\ e <= b) /\ ~(e = b /\ a <= s)

\* Types, and the parameters are those check_sy_lfr_filter_parameters accepts.
PasTypes ==
  /\ filterPar \in [modulus : Nat, offset : Nat, shift : Nat, tbad : Nat, enabled : BOOLEAN]
  /\ Accepted(filterPar)
  /\ duration \in 1 .. Second
  /\ t0 \in Nat /\ 8 * Second <= t0
  /\ verdict \in {"kept", "dropped", "none"}

\* The verdict is that of the strict comparisons.
JudgedStrictly ==
  verdict # "none" =>
    (verdict = "dropped" <=> Filtering /\ \E k \in AllPeriods : Overlaps(k) /\ ~Touches(k))

PasInv == PasTypes /\ JudgedStrictly

\* The four cases of isPolluted
LEMMA PollutedIsMeets ==
  ASSUME NEW a \in Int, NEW b \in Int, NEW s \in Int, NEW e \in Int, a < b, s < e
  PROVE  isPolluted(a, b, s, e) <=> Meets(a, b, s, e)
BY DEF isPolluted, Meets

\* A matrix that meets the perturbation of any period meets that of the period
\* of its centre, the one before or the one after.  If the perturbation lasts
\* nearly the whole period it may also meet one more, never alone.
LEMMA ThreePeriodsEnough ==
  ASSUME NEW m \in Nat \ {0}, NEW o \in Nat, NEW tb \in Nat \ {0}, NEW a \in Nat, NEW d \in Nat \ {0},
         NEW q \in Int, NEW k \in Int,
         o < m, tb <= m, 4 * d <= m,
         q * m <= a + (d \div 2), a + (d \div 2) < q * m + m,
         Meets(a, a + d, k * m + o, k * m + o + tb)
  PROVE  \E i \in Periods : Meets(a, a + d, (q + i) * m + o, (q + i) * m + o + tb)
<1> DEFINE P == q * m
           h == d \div 2
<1>1. P \in Int /\ h \in Nat /\ 2 * h <= d /\ d <= 2 * h + 1
  OBVIOUS
<1>2. /\ (q - 1) * m = P - m /\ (q + 1) * m = P + m
      /\ (q - 2) * m = P - 2 * m /\ (q + 2) * m = P + 2 * m /\ (q - 3) * m = P - 3 * m
  OBVIOUS
<1>3. k <= q + 1
  <2> SUFFICES ASSUME k >= q + 2 PROVE FALSE
    OBVIOUS
  <2>1. k * m >= (q + 2) * m
    OBVIOUS
  <2>2. k * m \in Int
    OBVIOUS
  <2> HIDE DEF P, h
  <2> QED
    BY <2>1, <2>2, <1>1, <1>2 DEF Meets, P, h
<1>4. k >= q - 2
  <2> SUFFICES ASSUME k <= q - 3 PROVE FALSE
    OBVIOUS
  <2>1. k * m <= (q - 3) * m
    OBVIOUS
  <2>2. k * m \in Int
    OBVIOUS
  <2> QED
    BY <2>1, <2>2, <1>1, <1>2 DEF Meets
<1>5. CASE k = q - 2
  <2>1. k * m = P - 2 * m
    BY <1>2, <1>5
  <2>2. (q + (-1)) * m = P - m
    BY <1>2
  <2>3. Meets(a, a + d, P - m + o, P - m + o + tb)
    BY <2>1, <1>1 DEF Meets
  <2> QED
    BY <2>2, <2>3 DEF Periods
<1>6. CASE k \in {q - 1, q, q + 1}
  <2>1. k - q \in Periods /\ q + (k - q) = k
    BY <1>6 DEF Periods
  <2> QED
    BY <2>1
<1> QED
  BY <1>3, <1>4, <1>5, <1>6

\* acquisitionTimeIsValid looks at the perturbations of the three periods: no
\* date passes 2 ^ 64.
LEMMA ValidIsClear ==
  ASSUME PasTypes, NEW a \in Nat, 8 * Second <= a, a <= MaxTime,
         filterPar.enabled, filterPar.tbad > 0
  PROVE  LET q == (a + (duration \div 2)) \div filterPar.modulus
             o == filterPar.offset + filterPar.shift IN
         acquisitionTimeIsValid(a) <=>
           \A i \in Periods :
             ~Meets(a, a + duration, (q + i) * filterPar.modulus + o,
                    (q + i) * filterPar.modulus + o + filterPar.tbad)
<1> DEFINE m == filterPar.modulus
           tc == a + (duration \div 2)
           q == tc \div m
           o == filterPar.offset + filterPar.shift
           ref(i) == (tc - (tc % m) + i * m) % Word
           bad0(i) == (ref(i) + filterPar.offset + filterPar.shift) % Word
           bad1(i) == (bad0(i) + filterPar.tbad) % Word
<1>1. /\ m \in Nat /\ 4 * Second <= m /\ m <= 8 * Second
      /\ o \in Nat /\ o < m /\ filterPar.tbad \in Nat \ {0} /\ filterPar.tbad <= 4 * Second
      /\ filterPar.offset \in Nat /\ filterPar.shift \in Nat
      /\ Second \in Nat \ {0} /\ Word \in Nat /\ MaxTime \in Nat /\ MaxTime + 24 * Second <= Word
      /\ duration \in Nat \ {0} /\ duration <= Second
  BY PasAssumption DEF PasTypes, Accepted, MinModulus
<1>2. tc \in Nat /\ tc <= a + Second /\ a <= tc
  BY <1>1
<1>3. tc - (tc % m) = q * m /\ q \in Nat /\ q * m <= tc /\ q >= 1
  BY <1>1, <1>2
<1>4. q * m \in Nat
  BY <1>1, <1>3
<1>5. ASSUME NEW i \in Periods
      PROVE  /\ (q + i) * m = q * m + i * m /\ (q + i) * m \in Nat
             /\ i * m <= m /\ i * m \in Int
  <2>1. q * m >= m
    BY <1>1, <1>3
  <2> QED
    BY <2>1, <1>1, <1>3 DEF Periods
<1>6. ASSUME NEW i \in Periods
      PROVE  /\ ref(i) = (q + i) * m
             /\ bad0(i) = (q + i) * m + o
             /\ bad1(i) = (q + i) * m + o + filterPar.tbad
  <2>1. (q + i) * m \in Nat /\ (q + i) * m + o + filterPar.tbad < Word
    BY <1>1, <1>2, <1>3, <1>4, <1>5
  <2>2. ref(i) = (q + i) * m
    <3>1. tc - (tc % m) + i * m = (q + i) * m
      BY <1>3, <1>5
    <3> HIDE DEF q, m, tc
    <3> QED
      BY <3>1, <2>1, <1>1
  <2>3. bad0(i) = (q + i) * m + o
    <3> HIDE DEF ref, q
    <3> QED
      BY <2>1, <2>2, <1>1
  <2>4. bad1(i) = (q + i) * m + o + filterPar.tbad
    <3> HIDE DEF bad0, q, m, o
    <3> QED
      BY <2>1, <2>3, <1>1
  <2> HIDE DEF ref, bad0, bad1, q, m, o
  <2> QED
    BY <2>2, <2>3, <2>4
<1>7. acquisitionTimeIsValid(a) <=>
        \A i \in Periods : ~isPolluted(a, a + duration, bad0(i), bad1(i))
  BY <1>1 DEF acquisitionTimeIsValid
<1>8. ASSUME NEW i \in Periods
      PROVE  isPolluted(a, a + duration, bad0(i), bad1(i)) <=>
               Meets(a, a + duration, (q + i) * m + o, (q + i) * m + o + filterPar.tbad)
  <2> HIDE DEF bad0, bad1, q, m, o
  <2> QED
    BY <1>1, <1>5, <1>6, PollutedIsMeets
<1> HIDE DEF bad0, bad1
<1> QED
  BY <1>7, <1>8

\* The periods that JudgedStrictly looks at hold those of acquisitionTimeIsValid.
LEMMA JudgedRight ==
  ASSUME PasTypes, NEW a \in Nat, 8 * Second <= a, a <= MaxTime
  PROVE  ~acquisitionTimeIsValid(a) <=>
           /\ filterPar.enabled /\ filterPar.tbad > 0
           /\ \E k \in AllPeriods :
                Meets(a, a + duration, BadStart(k), BadEnd(k))
<1> DEFINE m == filterPar.modulus
           tc == a + (duration \div 2)
           q == tc \div m
           o == filterPar.offset + filterPar.shift
<1>1. /\ m \in Nat \ {0} /\ 4 * Second <= m
      /\ o \in Nat /\ o < m /\ filterPar.tbad \in Nat /\ filterPar.tbad <= 4 * Second
      /\ filterPar.offset \in Nat /\ filterPar.shift \in Nat
      /\ Second \in Nat \ {0} /\ MaxTime \in Nat
      /\ duration \in Nat \ {0} /\ duration <= Second /\ filterPar.enabled \in BOOLEAN
  BY PasAssumption DEF PasTypes, Accepted, MinModulus
<1>2. CASE ~filterPar.enabled \/ filterPar.tbad = 0
  BY <1>1, <1>2 DEF acquisitionTimeIsValid
<1>3. CASE filterPar.enabled /\ filterPar.tbad > 0
  <2>1. ~acquisitionTimeIsValid(a) <=>
          \E i \in Periods : Meets(a, a + duration, (q + i) * m + o, (q + i) * m + o + filterPar.tbad)
    BY <1>3, ValidIsClear
  <2>2. q \in Nat /\ q * m \in Nat /\ q * m <= tc /\ tc < q * m + m /\ tc \in Nat /\ tc <= a + Second
    <3>1. tc \in Nat /\ tc <= a + Second
      BY <1>1
    <3>2. q \in Nat /\ tc = m * q + (tc % m) /\ tc % m \in 0 .. m - 1
      <4> HIDE DEF m, tc
      <4> QED
        BY <3>1, <1>1
    <3>3. m * q = q * m /\ q * m \in Nat
      <4>1. m \in Nat /\ q \in Nat
        BY <3>2, <1>1
      <4> HIDE DEF m, q
      <4> QED
        BY <4>1
    <3> HIDE DEF q, m, tc
    <3> QED
      BY <3>1, <3>2, <3>3, <1>1
  <2>3. q <= MaxTime \div MinModulus + 1
    <3> DEFINE M == 4 * Second
               D == MaxTime \div M
    <3>1. D \in Nat /\ MaxTime < D * M + M /\ M \in Nat \ {0}
      BY <1>1
    <3>2. tc < D * M + 2 * M /\ D * M + 2 * M = (D + 2) * M
      <4>1. D * M \in Nat /\ a + Second < D * M + M + M /\ M + M = 2 * M
        BY <3>1, <1>1
      <4> HIDE DEF D, q, m, tc
      <4>2. D * M + 2 * M = (D + 2) * M
        BY <3>1
      <4> QED
        BY <4>1, <4>2, <2>2, <3>1, <1>1
    <3>3. ASSUME q >= D + 2 PROVE FALSE
      <4>1. q * m >= q * M
        BY <1>1, <2>2
      <4>2. q * M >= (D + 2) * M
        BY <3>1, <3>3, <2>2
      <4> HIDE DEF q, m, M, D, tc
      <4>3. q * m \in Int /\ q * M \in Int /\ (D + 2) * M \in Int
        BY <1>1, <2>2, <3>1
      <4> QED
        BY <4>1, <4>2, <4>3, <3>2, <2>2
    <3> QED
      BY <3>1, <3>3, <2>2 DEF MinModulus
  <2>4. ASSUME NEW k \in Int
        PROVE  BadStart(k) = k * m + o /\ BadEnd(k) = k * m + o + filterPar.tbad
    BY <1>1 DEF BadStart, BadEnd
  <2>5. ASSUME NEW i \in Periods, Meets(a, a + duration, (q + i) * m + o, (q + i) * m + o + filterPar.tbad)
        PROVE  \E k \in AllPeriods :
                 Meets(a, a + duration, BadStart(k), BadEnd(k))
    <3>1. q + i \in AllPeriods
      <4>1. MaxTime \div MinModulus \in Nat
        BY <1>1 DEF MinModulus
      <4> HIDE DEF q
      <4> QED
        BY <4>1, <2>2, <2>3 DEF Periods, AllPeriods
    <3>2. Meets(a, a + duration, BadStart(q + i), BadEnd(q + i))
      <4>1. q + i \in Int
        BY <3>1 DEF AllPeriods
      <4> HIDE DEF q, m, o
      <4> QED
        BY <2>4, <2>5, <4>1
    <3> QED
      BY <3>1, <3>2
  <2>6. ASSUME NEW k \in AllPeriods,
               Meets(a, a + duration, BadStart(k), BadEnd(k))
        PROVE  \E i \in Periods :
                 Meets(a, a + duration, (q + i) * m + o, (q + i) * m + o + filterPar.tbad)
    <3>1. k \in Int
      BY DEF AllPeriods
    <3>2. Meets(a, a + duration, k * m + o, k * m + o + filterPar.tbad)
      BY <2>4, <2>6, <3>1
    <3>3. 4 * duration <= m /\ filterPar.tbad \in Nat \ {0} /\ filterPar.tbad <= m /\ q \in Int
      BY <1>1, <1>3, <2>2
    <3> HIDE DEF q, m, o
    <3> QED
      BY <3>1, <3>2, <3>3, <1>1, <2>2, ThreePeriodsEnough DEF tc
  <2> QED
    BY <1>3, <2>1, <2>5, <2>6
<1> QED
  BY <1>1, <1>2, <1>3

\* Every step keeps the invariant.
LEMMA PasInvNext == PasInv /\ [PasNext]_pasVars => PasInv'
<1> SUFFICES ASSUME PasInv, [PasNext]_pasVars
             PROVE  PasInv'
  OBVIOUS
<1>1. CASE LoadPasFilter
  <2> USE <1>1
  <2>1. PasTypes'
    BY PasAssumption DEF PasInv, PasTypes, LoadPasFilter, FilterPar, Accepted, MinModulus
  <2>2. JudgedStrictly'
    BY DEF LoadPasFilter, JudgedStrictly
  <2> QED
    BY <2>1, <2>2 DEF PasInv
<1>2. CASE JudgeMatrix
  <2> USE <1>2
  <2>1. PICK a \in t0 + duration .. t0 + duration + Gap :
          /\ a <= MaxTime /\ t0' = a
          /\ verdict' = IF acquisitionTimeIsValid(a) THEN "kept" ELSE "dropped"
          /\ UNCHANGED <<filterPar, duration>>
    BY DEF JudgeMatrix
  <2>2. a \in Nat /\ 8 * Second <= a
    BY PasAssumption DEF PasInv, PasTypes
  <2>3. PasTypes'
    BY <2>1, <2>2 DEF PasInv, PasTypes, Accepted
  <2>4. JudgedStrictly'
    <3>1. verdict' = "dropped" <=> ~acquisitionTimeIsValid(a)
      BY <2>1
    <3>2. ASSUME NEW k \in AllPeriods
          PROVE  Meets(a, a + duration, BadStart(k), BadEnd(k)) <=> (Overlaps(k) /\ ~Touches(k))'
      BY <2>1 DEF AllPeriods, Meets, Overlaps, Touches, BadStart, BadEnd
    <3>3. ~acquisitionTimeIsValid(a) <=>
           /\ filterPar.enabled /\ filterPar.tbad > 0
           /\ \E k \in AllPeriods :
                Meets(a, a + duration, BadStart(k), BadEnd(k))
      BY <2>1, <2>2, JudgedRight DEF PasInv
    <3> QED
      BY <3>1, <3>2, <3>3, <2>1 DEF JudgedStrictly, Filtering, AllPeriods
  <2> QED
    BY <2>3, <2>4 DEF PasInv
<1>3. CASE UNCHANGED pasVars
  BY <1>3 DEF PasInv, PasTypes, JudgedStrictly, Filtering, AllPeriods, pasVars, Accepted, Overlaps, Touches, BadStart, BadEnd
<1> QED
  BY <1>1, <1>2, <1>3 DEF PasNext

\* For all accepted parameters, all channels and all dates, a matrix that
\* overlaps the perturbation of some period is dropped, one that touches it
\* apart, and no other is: the three periods acquisitionTimeIsValid looks at are
\* enough (acquisitionTimeIsValid, isPolluted).
THEOREM PasFilterRight == PasSpec => []PollutedDropped
<1>1. PasInit => PasInv
  BY PasAssumption DEF PasInit, PasInv, PasTypes, JudgedStrictly, Accepted, MinModulus
<1>2. PasInv => PollutedDropped
  <2> SUFFICES ASSUME JudgedStrictly PROVE PollutedDropped
    BY DEF PasInv
  <2> QED
    BY DEF JudgedStrictly, PollutedDropped
<1> QED
  BY <1>1, <1>2, PasInvNext, PTL DEF PasSpec

-----------------------------------------------------------------------------
(* WheelFilter *)

\* A frequency is less than 1.285 bins from x.
Close(x, p) == 1000 * Abs(x - p) < 1285 * deltaFreq

\* The distance of x to the range of half-width half around f
DistanceTo(x, f, half) ==
  LET out == Abs(x - f) - half IN IF out < 0 THEN 0 ELSE out

\* A sample of this range is close to x.
SampleClose(x, f, half) == \E p \in Points(f - half, f + half) : Close(x, p)

\* Each bin has a bit of its own in the mask.
LEMMA BitInjective ==
  ASSUME NEW a \in MaskBins, NEW b \in MaskBins
  PROVE  Bit(a) = Bit(b) => a = b
<1>1. MaskBytes \in Nat /\ a \in Nat /\ b \in Nat
  BY WheelAssumption DEF MaskBins
<1>2. a = 8 * (a \div 8) + (a % 8) /\ b = 8 * (b \div 8) + (b % 8)
  BY <1>1
<1>3. a \div 8 \in Nat /\ b \div 8 \in Nat
  BY <1>1
<1>4. SUFFICES ASSUME Bit(a) = Bit(b) PROVE a = b
  OBVIOUS
<1>5. MaskBytes - 1 - (a \div 8) = MaskBytes - 1 - (b \div 8) /\ a % 8 = b % 8
  BY <1>4 DEF Bit
<1>6. a \div 8 = b \div 8
  BY <1>1, <1>3, <1>5
<1> QED
  BY <1>2, <1>5, <1>6

\* The bins around a frequency
LEMMA BinsAround ==
  ASSUME NEW p \in Int
  PROVE  /\ binBelow(p) \in Int
         /\ \E r \in 0 .. deltaFreq - 1 :
              /\ p = binBelow(p) * deltaFreq + r
              /\ binAbove(p) = IF r = 0 THEN binBelow(p) ELSE binBelow(p) + 1
<1> DEFINE d == deltaFreq
           b == p \div d
           r == p % d
           c == (-p) \div d
           s == (-p) % d
<1>1. d \in Nat \ {0}
  BY WheelAssumption
<1>2. p = d * b + r /\ r \in 0 .. d - 1 /\ b \in Int
  BY <1>1
<1>3. -p = d * c + s /\ s \in 0 .. d - 1 /\ c \in Int
  <2>1. -p \in Int
    OBVIOUS
  <2> QED
    BY <2>1, <1>1
<1> HIDE DEF d, b, c, r, s
<1>4. d * (b + c) = -(r + s) /\ d * b = b * d
  BY <1>1, <1>2, <1>3
<1>5. b + c < 1
  <2> SUFFICES ASSUME b + c >= 1 PROVE FALSE
    BY <1>2, <1>3
  <2>1. d * (b + c) >= d
    BY <1>1, <1>2, <1>3
  <2> QED
    BY <2>1, <1>1, <1>2, <1>3, <1>4
<1>6. b + c > -2
  <2> SUFFICES ASSUME b + c <= -2 PROVE FALSE
    BY <1>2, <1>3
  <2>1. d * (b + c) <= -(2 * d)
    BY <1>1, <1>2, <1>3
  <2> QED
    BY <2>1, <1>1, <1>2, <1>3, <1>4
<1>7. CASE b + c = 0
  <2>1. r = 0 /\ -c = b
    BY <1>1, <1>2, <1>3, <1>4, <1>7
  <2> QED
    BY <2>1, <1>2, <1>4 DEF b, c, d, r, binBelow, binAbove
<1>8. CASE b + c = -1
  <2>1. r + s = d
    BY <1>1, <1>2, <1>3, <1>4, <1>8
  <2>2. r # 0 /\ -c = b + 1
    BY <2>1, <1>1, <1>2, <1>3, <1>8
  <2> QED
    BY <2>2, <1>2, <1>4 DEF b, c, d, r, binBelow, binAbove
<1> QED
  BY <1>2, <1>3, <1>5, <1>6, <1>7, <1>8

\* A point of the range removes the bins less than 1.285 bins away from it.
LEMMA PointRemoves ==
  ASSUME NEW p \in Int, NEW index \in MaskBins
  PROVE  index \in binToRemove(p) <=> Close((index + 1) * deltaFreq, p)
<1> DEFINE d == deltaFreq
           b == binBelow(p)
           n == index + 1
           B == b * d
           X == n * d
<1>1. d \in Nat \ {0} /\ b \in Int /\ index \in Nat /\ n \in Int
  BY WheelAssumption, BinsAround DEF MaskBins
<1>2. PICK r \in 0 .. d - 1 :
        p = B + r /\ binAbove(p) = IF r = 0 THEN b ELSE b + 1
  BY BinsAround
<1>3. /\ n <= b - 2 => X <= B - 2 * d
      /\ n = b - 1 => X = B - d
      /\ n = b => X = B
      /\ n = b + 1 => X = B + d
      /\ n = b + 2 => X = B + 2 * d
      /\ n >= b + 3 => X >= B + 3 * d
      /\ X \in Int /\ B \in Int
  <2> HIDE DEF b, n, d
  <2>1. X \in Int /\ B \in Int
    BY <1>1
  <2>2. (b - 2) * d = B - 2 * d /\ (b - 1) * d = B - d /\ (b + 1) * d = B + d
        /\ (b + 2) * d = B + 2 * d /\ (b + 3) * d = B + 3 * d
    BY <1>1
  <2>3. n <= b - 2 => n * d <= (b - 2) * d
    BY <1>1
  <2>4. n >= b + 3 => n * d >= (b + 3) * d
    BY <1>1
  <2> QED
    BY <2>1, <2>2, <2>3, <2>4
<1>4. (b + 1) * d = B + d
  BY <1>1
<1>5. n <= b - 2 \/ n = b - 1 \/ n = b \/ n = b + 1 \/ n = b + 2 \/ n >= b + 3
  BY <1>1
<1>6. closestBin(p) = IF r = 0 \/ d - r > r THEN b ELSE b + 1
  <2>1. CASE r = 0
    BY <2>1, <1>1, <1>2 DEF closestBin
  <2>2. CASE r # 0
    <3>1. binAbove(p) * d - p = d - r /\ p - b * d = r
      <4>1. binAbove(p) * d = B + d
        BY <2>2, <1>2, <1>4
      <4> HIDE DEF B, d, b
      <4> QED
        BY <4>1, <1>1, <1>2, <1>3 DEF B
    <3> QED
      BY <3>1, <2>2, <1>2 DEF closestBin
  <2> QED
    BY <2>1, <2>2
<1>7. NearBin(p) <=> \/ r = 0
                     \/ d - r > r /\ 1000 * r < 285 * d
                     \/ r # 0 /\ d - r <= r /\ 1000 * (d - r) < 285 * d
  <2>1. CASE r = 0 \/ d - r > r
    <3>1. closestBin(p) * d = B
      BY <2>1, <1>6
    <3>2. Abs(p - closestBin(p) * d) = r
      BY <3>1, <1>1, <1>2, <1>3 DEF Abs
    <3> QED
      BY <3>2, <2>1, <1>1 DEF NearBin
  <2>2. CASE ~(r = 0 \/ d - r > r)
    <3>1. closestBin(p) * d = B + d
      BY <2>2, <1>4, <1>6
    <3>2. Abs(p - closestBin(p) * d) = d - r
      <4> HIDE DEF B, d
      <4> QED
        BY <3>1, <1>1, <1>2, <1>3 DEF Abs, d
    <3> QED
      BY <3>2, <2>2, <1>1 DEF NearBin
  <2> QED
    BY <2>1, <2>2
<1>8. Close(X, p) <=> 1000 * (X - p) < 1285 * d /\ 1000 * (p - X) < 1285 * d
  <2> HIDE DEF X
  <2> QED
    BY <1>1, <1>3 DEF Close, Abs
<1>9. index \in binToRemove(p) <=>
        IF NearBin(p) THEN closestBin(p) - 1 <= n /\ n <= closestBin(p) + 1
        ELSE n = b \/ n = binAbove(p)
  <2>1. closestBin(p) \in Int /\ binAbove(p) \in Int
    BY <1>1, <1>2, <1>6
  <2> HIDE DEF b
  <2> QED
    BY <2>1, <1>1 DEF binToRemove, b
<1>10. 1000 * (X - p) < 1285 * d /\ 1000 * (p - X) < 1285 * d <=>
         IF NearBin(p) THEN closestBin(p) - 1 <= n /\ n <= closestBin(p) + 1
         ELSE n = b \/ n = binAbove(p)
  <2> HIDE DEF X, B, n, b, d
  <2>1. CASE n <= b - 2
    BY <2>1, <1>1, <1>2, <1>3, <1>6, <1>7
  <2>2. CASE n = b - 1
    BY <2>2, <1>1, <1>2, <1>3, <1>6, <1>7
  <2>3. CASE n = b
    BY <2>3, <1>1, <1>2, <1>3, <1>6, <1>7
  <2>4. CASE n = b + 1
    BY <2>4, <1>1, <1>2, <1>3, <1>6, <1>7
  <2>5. CASE n = b + 2
    BY <2>5, <1>1, <1>2, <1>3, <1>6, <1>7
  <2>6. CASE n >= b + 3
    BY <2>6, <1>1, <1>2, <1>3, <1>6, <1>7
  <2> QED
    BY <1>5, <2>1, <2>2, <2>3, <2>4, <2>5, <2>6
<1> QED
  BY <1>8, <1>9, <1>10

\* The samples of a range leave no gap: one is close to x if the range is.
LEMMA SamplesEnough ==
  ASSUME NEW f \in Int, NEW half \in Nat, NEW x \in Int
  PROVE  SampleClose(x, f, half) <=> 1000 * DistanceTo(x, f, half) < 1285 * deltaFreq
<1> DEFINE d == deltaFreq
           lo == f - half
           hi == f + half
           out == Abs(x - f) - half
           far == IF out < 0 THEN 0 ELSE out
<1>1. d \in Nat \ {0} /\ lo \in Int /\ hi \in Int /\ lo <= hi
  BY WheelAssumption
<1>2. /\ x < lo => far = lo - x
      /\ x > hi => far = x - hi
      /\ lo <= x /\ x <= hi => far = 0
  BY DEF Abs
<1>3. ASSUME NEW p \in Int
      PROVE  Close(x, p) <=> 1000 * (x - p) < 1285 * d /\ 1000 * (p - x) < 1285 * d
  BY <1>1 DEF Close, Abs
<1>4. lo \in Points(lo, hi) /\ hi \in Points(lo, hi) /\ Points(lo, hi) \subseteq lo .. hi
  <2>1. (lo - lo) % d = 0
    BY <1>1
  <2> HIDE DEF lo, hi
  <2> QED
    BY <2>1, <1>1 DEF Points
<1>5. ASSUME NEW p \in Points(lo, hi), Close(x, p)
      PROVE  1000 * far < 1285 * d
  <2>1. p \in Int /\ lo <= p /\ p <= hi
    BY <1>1, <1>4
  <2> HIDE DEF far, lo, hi, d
  <2> QED
    BY <2>1, <1>1, <1>2, <1>3, <1>5
<1>6. ASSUME 1000 * far < 1285 * d
      PROVE  \E p \in Points(lo, hi) : Close(x, p)
  <2>1. CASE x < lo
    <3>1. Close(x, lo)
      BY <2>1, <1>1, <1>2, <1>3, <1>6
    <3> QED
      BY <3>1, <1>4
  <2>2. CASE x > hi
    <3>1. Close(x, hi)
      BY <2>2, <1>1, <1>2, <1>3, <1>6
    <3> QED
      BY <3>1, <1>4
  <2>3. CASE lo <= x /\ x <= hi
    <3> DEFINE k == (x - lo) \div d
               p == lo + d * k
    <3>1. x - lo \in Nat
      BY <2>3, <1>1
    <3>2. k \in Nat /\ x - lo = d * k + ((x - lo) % d) /\ (x - lo) % d \in 0 .. d - 1
      <4> HIDE DEF lo, d
      <4> QED
        BY <3>1, <1>1
    <3>3. p \in Int /\ lo <= p /\ p <= x /\ x < p + d /\ p - lo = d * k
      <4>1. d * k \in Nat
        BY <3>2, <1>1
      <4> HIDE DEF lo, d, k
      <4> QED
        BY <4>1, <3>2, <1>1
    <3>4. (p - lo) % d = 0
      <4>1. (d * k) % d = 0
        <5> HIDE DEF k, d
        <5> QED
          BY <3>2, <1>1
      <4> QED
        BY <4>1, <3>3
    <3> HIDE DEF p, lo, hi
    <3>5. p \in Points(lo, hi)
      BY <3>3, <3>4, <2>3, <1>1 DEF Points
    <3>6. Close(x, p)
      BY <3>3, <1>1, <1>3
    <3> QED
      BY <3>5, <3>6
  <2> QED
    BY <2>1, <2>2, <2>3, <1>1
<1>7. DistanceTo(x, f, half) = far
  BY DEF DistanceTo
<1> HIDE DEF far, lo, hi
<1> QED
  BY <1>5, <1>6, <1>7 DEF SampleClose, lo, hi

\* What a wheel removes from a mask
LEMMA WheelRemoves ==
  ASSUME NEW f \in Int, NEW half \in Nat, NEW index \in MaskBins
  PROVE  Bit(index) \in setFBinMask(AllBits, f, half) <=>
           f = NaN \/ 1000 * DistanceTo((index + 1) * deltaFreq, f, half) >= 1285 * deltaFreq
<1> DEFINE x == (index + 1) * deltaFreq
           far == DistanceTo(x, f, half)
           P == Points(f - half, f + half)
           removed == UNION {binToRemove(p) : p \in P}
<1>1. x \in Int /\ deltaFreq \in Nat \ {0} /\ far \in Int
  BY WheelAssumption DEF MaskBins, Abs, DistanceTo
<1>2. P \subseteq Int
  BY DEF Points
<1>3. Bit(index) \in {Bit(b) : b \in removed} <=> index \in removed
  <2>1. removed \subseteq MaskBins
    BY DEF binToRemove
  <2> HIDE DEF removed
  <2> QED
    BY <2>1, BitInjective
<1>4. index \in removed <=> \E p \in P : Close(x, p)
  <2>1. \A p \in P : index \in binToRemove(p) <=> Close(x, p)
    BY <1>2, PointRemoves
  <2> HIDE DEF P
  <2> QED
    BY <2>1
<1>5. (\E p \in P : Close(x, p)) <=> 1000 * far < 1285 * deltaFreq
  BY <1>1, SamplesEnough DEF SampleClose
<1>6. Bit(index) \in AllBits
  BY DEF AllBits
<1>7. Bit(index) \in setFBinMask(AllBits, f, half) <=>
        f = NaN \/ Bit(index) \notin {Bit(b) : b \in removed}
  <2> HIDE DEF removed
  <2> QED
    BY <1>6 DEF setFBinMask, removed
<1>8. ~(1000 * far < 1285 * deltaFreq) <=> 1000 * far >= 1285 * deltaFreq
  <2> HIDE DEF far
  <2> QED
    BY <1>1
<1> HIDE DEF removed, P, far
<1> QED
  BY <1>3, <1>4, <1>5, <1>7, <1>8 DEF far

-----------------------------------------------------------------------------
(* The invariant *)

\* The mask of the wheels is that of the frequencies and the factors of the
\* last TC_LFR_UPDATE_INFO.
RwMaskRight ==
  \A index \in MaskBins :
    Bit(index) \in rw_mask <=>
      \A w \in Wheels : rw_f[w] # NaN =>
        1000 * Distance((index + 1) * deltaFreq, w) >= 1285 * deltaFreq

WheelInv ==
  /\ halfWidth \in [Wheels -> Nat]
  /\ RwMaskRight
  /\ merged = fbins \cap rw_mask

\* Every telecommand keeps the masks right.
LEMMA WheelInvNext == WheelInv /\ [WheelNext]_wheelVars => WheelInv'
<1> SUFFICES ASSUME WheelInv, [WheelNext]_wheelVars
             PROVE  WheelInv'
  OBVIOUS
<1>1. ASSUME NEW f \in [Wheels -> Frequencies \cup {NaN}], UpdateInfo(f)
      PROVE  WheelInv'
  <2> USE <1>1
  <2>1. ASSUME NEW index \in MaskBins
        PROVE  (Bit(index) \in rw_mask <=>
                 \A w \in Wheels : rw_f[w] # NaN =>
                   1000 * Distance((index + 1) * deltaFreq, w) >= 1285 * deltaFreq)'
    <3>1. Bit(index) \in AllBits
      BY DEF AllBits
    <3>2. Bit(index) \in rw_mask' <=>
            \A w \in Wheels : Bit(index) \in setFBinMask(AllBits, f[w], halfWidth[w])
      BY <3>1 DEF UpdateInfo, build_sy_lfr_rw_mask
    <3>3. ASSUME NEW w \in Wheels
          PROVE  Bit(index) \in setFBinMask(AllBits, f[w], halfWidth[w]) <=>
                   (rw_f[w] # NaN =>
                     1000 * Distance((index + 1) * deltaFreq, w) >= 1285 * deltaFreq)'
      <4>1. CASE f[w] = NaN
        BY <3>1, <4>1 DEF UpdateInfo, setFBinMask
      <4>2. CASE f[w] # NaN
        <5>1. f[w] \in Int /\ halfWidth[w] \in Nat
          BY <4>2, WheelAssumption DEF WheelInv
        <5>2. Bit(index) \in setFBinMask(AllBits, f[w], halfWidth[w]) <=>
                1000 * DistanceTo((index + 1) * deltaFreq, f[w], halfWidth[w]) >= 1285 * deltaFreq
          BY <4>2, <5>1, WheelRemoves
        <5> QED
          BY <4>2, <5>2 DEF UpdateInfo, Distance, DistanceTo
      <4> QED
        BY <4>1, <4>2
    <3> QED
      BY <3>2, <3>3
  <2>2. RwMaskRight'
    BY <2>1 DEF RwMaskRight
  <2> QED
    BY <2>2 DEF WheelInv, UpdateInfo
<1>2. ASSUME NEW mask \in GroundMasks, LoadFbins(mask)
      PROVE  WheelInv'
  BY <1>2 DEF WheelInv, LoadFbins, RwMaskRight, Distance
<1>3. ASSUME NEW half \in [Wheels -> HalfWidths], LoadFilterPar(half)
      PROVE  WheelInv'
  <2>1. halfWidth' \in [Wheels -> Nat]
    BY <1>3, WheelAssumption DEF LoadFilterPar
  <2>2. RwMaskRight'
    BY <1>3 DEF WheelInv, LoadFilterPar, RwMaskRight, Distance
  <2> QED
    BY <1>3, <2>1, <2>2 DEF WheelInv, LoadFilterPar
<1>4. CASE UNCHANGED wheelVars
  BY <1>4 DEF WheelInv, wheelVars, RwMaskRight, Distance
<1> QED
  BY <1>1, <1>2, <1>3, <1>4 DEF WheelNext

\* For any frequencies of any number of wheels, any widths and any size of the
\* mask, a bin is used exactly if the ground wants it and it is at least 1.285
\* bins away from the range of every wheel (setFBinMask, getFBinMask).
THEOREM WheelFilterRight == WheelSpec => []WheelBinsMasked
<1>1. WheelInit => WheelInv
  <2>1. WheelInit => RwMaskRight
    BY DEF WheelInit, RwMaskRight, AllBits
  <2> QED
    BY <2>1 DEF WheelInit, WheelInv
<1>2. WheelInv => WheelBinsMasked
  BY DEF WheelInv, RwMaskRight, WheelBinsMasked, getFBinMask, Bit
<1> QED
  BY <1>1, <1>2, WheelInvNext, PTL DEF WheelSpec
=============================================================================
