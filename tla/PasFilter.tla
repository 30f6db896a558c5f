------------------------------ MODULE PasFilter ------------------------------
(***************************************************************************)
(* The filter of the spectral matrices polluted by the PAS instrument,     *)
(* which emits once per period: between two dates of each period, a matrix *)
(* must not be averaged.  AVF0, AVF1 and AVF2 ask acquisitionTimeIsValid   *)
(* for each matrix; the parameters come from TC_LFR_LOAD_FILTER_PAR.       *)
(***************************************************************************)
EXTENDS Integers

CONSTANTS
  Second,      \* units of the fine time in a second: 65536
  Durations,   \* ACQUISITION_DURATION_F0, _F1, _F2
  Moduli, Offsets, Shifts, Tbads,   \* parameters tried, in fine time
  Word,        \* 2 ^ 64: dates are unsigned
  Gap,         \* bound: units between a matrix and the next
  MaxTime      \* bound: dates of a behaviour

\* A matrix lasts at most a second, and dates stay far from 2 ^ 64: they have
\* 48 bits (ACQUISITION_DURATION_F2).
ASSUME PasAssumption ==
  /\ Second \in Nat \ {0} /\ Durations \subseteq 1 .. Second
  /\ Moduli \subseteq Nat /\ Offsets \subseteq Nat /\ Shifts \subseteq Nat /\ Tbads \subseteq Nat
  /\ MaxTime \in Nat /\ Word \in Nat /\ MaxTime + 24 * Second <= Word
  /\ Gap \in Nat

VARIABLES
  filterPar,   \* modulus, offset, shift and tbad in fine time; enabled
  duration,    \* the channel, by the duration of a matrix
  t0,          \* start of the last matrix
  verdict      \* "kept", "dropped", or "none" if no matrix was judged with
               \* these parameters

pasVars == <<filterPar, duration, t0, verdict>>

MinModulus == 4 * Second  \* MIN_PAS_FILTER_MODULUS

\* check_sy_lfr_filter_parameters
Accepted(p) ==
  /\ MinModulus <= p.modulus /\ p.modulus <= 8 * Second
  /\ p.tbad <= 4 * Second
  /\ p.offset <= 7 * Second
  /\ p.shift <= Second
  /\ p.offset + p.shift < p.modulus

FilterPar == [modulus : Moduli, offset : Offsets, shift : Shifts, tbad : Tbads, enabled : BOOLEAN]

\* init_parameter_dump, Init.  LFR boots with bit 31 of its time set: dates start
\* after more than one period.
PasInit ==
  /\ filterPar = [modulus |-> 4 * Second, offset |-> 0, shift |-> Second \div 2,
                  tbad |-> Second, enabled |-> FALSE]
  /\ duration \in Durations
  /\ t0 = 8 * Second /\ verdict = "none"

\* action_load_filter_par
LoadPasFilter ==
  /\ \E p \in FilterPar : Accepted(p) /\ filterPar' = p
  /\ verdict' = "none"
  /\ UNCHANGED <<duration, t0>>

-----------------------------------------------------------------------------
(* acquisitionTimeIsValid *)

\* isPolluted, for a matrix from a to b and a perturbation from bad0 to bad1
isPolluted(a, b, bad0, bad1) ==
  \/ bad0 < a /\ a < bad1
  \/ bad0 < b /\ b < bad1
  \/ a < bad0 /\ bad1 < b
  \/ bad0 < a /\ b < bad1

\* The perturbations looked at: in the period of the centre of the matrix,
\* the one before and the one after
Periods == {-1, 0, 1}

\* mutant: the period of the centre only
CentreOnly(a) ==
  LET tc == a + (duration \div 2)
      timecodeReference == tc - (tc % filterPar.modulus)
      tbad0 == timecodeReference + filterPar.offset + filterPar.shift
  IN ~isPolluted(a, a + duration, tbad0, tbad0 + filterPar.tbad)

acquisitionTimeIsValid(a) ==
  \/ filterPar.tbad = 0 \/ ~filterPar.enabled
  \/ LET tc == a + (duration \div 2) IN
     \A k \in Periods :
       LET timecodeReference == (tc - (tc % filterPar.modulus) + k * filterPar.modulus) % Word
           tbad0 == (timecodeReference + filterPar.offset + filterPar.shift) % Word
           tbad1 == (tbad0 + filterPar.tbad) % Word
       IN ~isPolluted(a, a + duration, tbad0, tbad1)

\* A matrix comes for SM_average: the next one, or one some units later.
JudgeMatrix ==
  \E a \in t0 + duration .. t0 + duration + Gap :
    /\ a <= MaxTime
    /\ t0' = a
    /\ verdict' = IF acquisitionTimeIsValid(a) THEN "kept" ELSE "dropped"
    /\ UNCHANGED <<filterPar, duration>>

PasNext == LoadPasFilter \/ JudgeMatrix

PasSpec == PasInit /\ [][PasNext]_pasVars

-----------------------------------------------------------------------------
(* Properties *)

\* The perturbation of a period
BadStart(k) == k * filterPar.modulus + filterPar.offset + filterPar.shift
BadEnd(k) == BadStart(k) + filterPar.tbad

Overlaps(k) == BadStart(k) < t0 + duration /\ t0 < BadEnd(k)

\* A perturbation inside the matrix that begins or ends with it
Touches(k) == \/ BadStart(k) = t0 /\ BadEnd(k) <= t0 + duration
              \/ BadEnd(k) = t0 + duration /\ t0 <= BadStart(k)

Filtering == filterPar.enabled /\ filterPar.tbad > 0

\* Every period whose perturbation can meet a matrix
AllPeriods == -2 .. MaxTime \div MinModulus + 2

\* With the filter on, a matrix that overlaps the perturbation of any period
\* is dropped, one that touches it apart, and only a matrix that overlaps one
\* is: the three periods looked at are enough, for all accepted parameters
\* (acquisitionTimeIsValid).
PollutedDropped ==
  /\ verdict = "dropped" => Filtering /\ \E k \in AllPeriods : Overlaps(k)
  /\ verdict = "kept" /\ Filtering => \A k \in AllPeriods : Overlaps(k) => Touches(k)

\* "if there is any overlap between t0:t1 and tbad0:tbad1 ranges" (isPolluted):
\* the matrix is dropped.
AnyOverlapDropped ==
  verdict = "kept" /\ Filtering => \A k \in AllPeriods : ~Overlaps(k)
=============================================================================
