----------------------------- MODULE Housekeeping -----------------------------
(***************************************************************************)
(* The error counters of the housekeeping packet.  HOUS reads and clears   *)
(* the statistics of the SpaceWire driver once per second, adds them to    *)
(* its own, copies these to counters of one byte, and adds what all the    *)
(* counters have gained to the counters of the severities.  SPIQ, which    *)
(* preempts HOUS, reads and clears the same statistics when the link is    *)
(* lost; the counters of the timecodes are increased under interrupt       *)
(* (Timecode); errors happen at any time.                                  *)
(***************************************************************************)
EXTENDS Integers, FiniteSetsExt

CONSTANTS
  SpwLow,     \* statistics of low severity
  SpwMedium,  \* statistics of medium severity
  Rmap,       \* statistics the packet has no counter for
  IsrLow,     \* counters of low severity increased under interrupt
  Byte,       \* 256: values of a counter of the packet
  Burst,      \* bound: errors of a kind from a packet to the next
  MaxErrors   \* bound: errors of a behaviour

ASSUME HousekeepingAssumption ==
  /\ Byte \in Nat /\ Burst \in Nat \ {0} /\ 2 * Burst < Byte
  /\ IsFiniteSet(SpwLow) /\ IsFiniteSet(SpwMedium) /\ IsFiniteSet(IsrLow)
  /\ (IsrLow \cup {"not_synchro"}) \cap (SpwLow \cup SpwMedium \cup Rmap) = {}

Spw == SpwLow \cup SpwMedium
Low == SpwLow \cup IsrLow \cup {"not_synchro"}
Counters == Low \cup SpwMedium
Statistics == Spw \cup Rmap
ErrorKinds == Counters \cup Rmap
Severities == {"le", "me"}
Members(s) == IF s = "le" THEN Low ELSE SpwMedium

VARIABLES
  driver,       \* statistics of the driver since they were cleared
  at,           \* where HOUS and SPIQ are
  sums,         \* task -> its local copy, current, then what it will store
  previous,     \* static variable of spacewire_get_last_error
  grspw_stats,
  hk,           \* one-byte counters of the packet
  old,          \* old_hk_lfr_le, old_hk_lfr_me
  cnt,          \* hk_lfr_le_cnt, hk_lfr_me_cnt, two bytes each
  last_er,      \* hk_lfr_last_er_code
  synchroLost,
  happened,     \* history: errors of each kind
  recent,       \* history: those the last packet could not tell
  told,         \* history: errors of each kind told by the last packet
  mixed         \* history: SPIQ has read the statistics between the two calls
                \* HOUS reads and clears them with

tasks == <<at, sums, previous, grspw_stats>>
packet == <<hk, old, cnt, synchroLost, told>>
hkVars == <<driver, tasks, packet, last_er, happened, recent, mixed>>

NoErrors == [e \in Statistics |-> 0]
NoCounts == [c \in Counters |-> 0]

HkInit ==
  /\ driver = NoErrors
  /\ at = [t \in {"HOUS", "SPIQ"} |-> "idle"] /\ sums = [t \in {"HOUS", "SPIQ"} |-> NoErrors]
  /\ previous = NoErrors /\ grspw_stats = [e \in Spw |-> 0]
  /\ hk = NoCounts /\ old = NoCounts /\ told = NoCounts
  /\ cnt = [s \in Severities |-> 0]
  /\ last_er = "none" /\ synchroLost = TRUE
  /\ happened = [k \in ErrorKinds |-> 0] /\ recent = [k \in ErrorKinds |-> 0] /\ mixed = FALSE

-----------------------------------------------------------------------------
(* Errors                                                                  *)

\* update_hk_lfr_last_er_fields
update_hk_lfr_last_er_fields(code) == last_er' = code

MoreErrors == SumFunctionOnSet(happened, ErrorKinds) < MaxErrors

\* Another error of kind c
Happens(c) ==
  /\ recent[c] < Burst /\ MoreErrors
  /\ happened' = [happened EXCEPT ![c] = @ + 1]
  /\ recent' = [recent EXCEPT ![c] = @ + 1]

\* The interrupt of the driver counts an error of the link.
LinkError ==
  /\ \E e \in Statistics : Happens(e) /\ driver' = [driver EXCEPT ![e] = @ + 1]
  /\ UNCHANGED <<tasks, packet, last_er, mixed>>

increase_unsigned_char_counter(n) == (n + 1) % Byte

\* timecode_irq_handler, timecode_timer_routine
IsrCounts ==
  /\ \E c \in IsrLow :
       /\ Happens(c)
       /\ hk' = [hk EXCEPT ![c] = increase_unsigned_char_counter(@)]
       /\ update_hk_lfr_last_er_fields(c)
  /\ UNCHANGED <<driver, tasks, old, cnt, synchroLost, told, mixed>>

-----------------------------------------------------------------------------
(* spacewire_read_statistics                                               *)

\* SPIQ has the processor while it has something to do.
Runs(t, place) == at[t] = place /\ (t = "HOUS" => at["SPIQ"] = "idle")
Moves(t, place) == at' = [at EXCEPT ![t] = place]

\* spacewire_get_last_error: the statistics, in the order they are compared;
\* the one compared for escape_err is parity_err.
Order == <<"rx_rmap_header_crc_err", "rx_rmap_data_crc_err", "rx_eep_err", "rx_truncated",
           "parity_err", "escape_err", "credit_err", "write_sync_err", "disconnect_err",
           "early_ep", "invalid_address">>
Compared(e) == IF e = "escape_err" THEN "parity_err" ELSE e
Changed(current) ==
  {i \in DOMAIN Order : /\ Order[i] \in Statistics
                        /\ previous[Compared(Order[i])] # current[Compared(Order[i])]}

\* Its SPACEWIRE_IOCTRL_GET_STATISTICS
ReadForLastError(t) ==
  /\ Runs(t, "idle") /\ Moves(t, "compare")
  /\ sums' = [sums EXCEPT ![t] = driver]
  /\ UNCHANGED <<driver, previous, grspw_stats, packet, last_er, happened, recent, mixed>>

CompareWithPrevious(t) ==
  /\ Runs(t, "compare") /\ Moves(t, "keep")
  /\ IF Changed(sums[t]) = {} THEN UNCHANGED last_er
     ELSE update_hk_lfr_last_er_fields(Order[Max(Changed(sums[t]))])
  /\ UNCHANGED <<driver, sums, previous, grspw_stats, packet, happened, recent, mixed>>

\* previous = current
KeepAsPrevious(t) ==
  /\ Runs(t, "keep") /\ Moves(t, "get")
  /\ previous' = sums[t]
  /\ sums' = [sums EXCEPT ![t] = NoErrors]
  /\ UNCHANGED <<driver, grspw_stats, packet, last_er, happened, recent, mixed>>

GetLastError(t) == ReadForLastError(t) \/ CompareWithPrevious(t) \/ KeepAsPrevious(t)

\* SPACEWIRE_IOCTRL_GET_STATISTICS
GetStatistics(t) ==
  /\ Runs(t, "get") /\ Moves(t, "clear")
  /\ sums' = [sums EXCEPT ![t] = driver]
  /\ mixed' = (mixed \/ (t = "SPIQ" /\ at["HOUS"] = "clear"))
  /\ UNCHANGED <<driver, previous, grspw_stats, packet, last_er, happened, recent>>

\* SPACEWIRE_IOCTRL_CLR_STATISTICS
ClearStatistics(t) ==
  /\ Runs(t, "clear") /\ Moves(t, "add")
  /\ driver' = NoErrors
  /\ UNCHANGED <<sums, previous, grspw_stats, packet, last_er, happened, recent, mixed>>

\* grspw_stats.x = grspw_stats.x + current.x: loads, then stores
LoadStatistics(t) ==
  /\ Runs(t, "add") /\ Moves(t, "store")
  /\ sums' = [sums EXCEPT ![t] =
               [e \in Statistics |-> IF e \in Spw THEN grspw_stats[e] + @[e] ELSE 0]]
  /\ UNCHANGED <<driver, previous, grspw_stats, packet, last_er, happened, recent, mixed>>

StoreStatistics(t) ==
  /\ Runs(t, "store") /\ Moves(t, IF t = "HOUS" THEN "update" ELSE "idle")
  /\ grspw_stats' = [e \in Spw |-> sums[t][e]]
  /\ sums' = [sums EXCEPT ![t] = NoErrors]
  /\ UNCHANGED <<driver, previous, packet, last_er, happened, recent, mixed>>

ReadStatistics(t) ==
  GetLastError(t) \/ GetStatistics(t) \/ ClearStatistics(t) \/ LoadStatistics(t)
    \/ StoreStatistics(t)

-----------------------------------------------------------------------------
(* HOUS                                                                    *)

\* Does set_hk_lfr_time_not_synchro find that the synchronization has been lost?
LosesSynchronization(synchronizationBit) == synchronizationBit /\ ~synchroLost

\* update_hk_with_grspw_stats, set_hk_lfr_time_not_synchro
UpdatePacket ==
  /\ Runs("HOUS", "update") /\ Moves("HOUS", "count")
  /\ \E synchronizationBit \in BOOLEAN :
       LET lost == LosesSynchronization(synchronizationBit) IN
       /\ lost => MoreErrors
       /\ synchroLost' = synchronizationBit
       /\ hk' = [c \in Counters |->
                   IF c \in Spw THEN grspw_stats[c] % Byte
                   ELSE IF c = "not_synchro" /\ lost THEN increase_unsigned_char_counter(hk[c])
                   ELSE hk[c]]
       /\ IF lost THEN /\ happened' = [happened EXCEPT !["not_synchro"] = @ + 1]
                       /\ update_hk_lfr_last_er_fields("not_synchro")
                  ELSE UNCHANGED <<last_er, happened>>
  /\ told' = [c \in Counters |-> IF c \in Spw THEN grspw_stats[c] ELSE told[c]]
  /\ recent' = [k \in ErrorKinds |-> IF k \in Statistics THEN driver[k] ELSE recent[k]]
  /\ UNCHANGED <<driver, sums, previous, grspw_stats, old, cnt, mixed>>

\* increment_hk_counter, with MAX_OF(unsigned char) = Byte - 1
Delta(new, before) == IF new >= before THEN new - before ELSE (Byte - 1 - before) + new

Gain(s) == SumFunctionOnSet([c \in Counters |-> Delta(hk[c], old[c])], Members(s))

\* mutant: old_hk_lfr_me is not updated
CountLowOnly ==
  /\ Runs("HOUS", "count") /\ Moves("HOUS", "idle")
  /\ cnt' = [s \in Severities |-> cnt[s] + Gain(s)]
  /\ old' = [c \in Counters |-> IF c \in Low THEN hk[c] ELSE old[c]]
  /\ told' = [c \in Counters |-> IF c \in Spw THEN told[c] ELSE happened[c]]
  /\ recent' = [k \in ErrorKinds |-> IF k \in Statistics THEN recent[k] ELSE 0]
  /\ UNCHANGED <<driver, sums, previous, grspw_stats, hk, synchroLost, last_er, happened, mixed>>

\* hk_lfr_le_me_he_update: the packet is complete.  MaxErrors keeps the
\* counters below 65536.
CountErrors ==
  /\ Runs("HOUS", "count") /\ Moves("HOUS", "idle")
  /\ cnt' = [s \in Severities |-> cnt[s] + Gain(s)]
  /\ old' = hk
  /\ told' = [c \in Counters |-> IF c \in Spw THEN told[c] ELSE happened[c]]
  /\ recent' = [k \in ErrorKinds |-> IF k \in Statistics THEN recent[k] ELSE 0]
  /\ UNCHANGED <<driver, sums, previous, grspw_stats, hk, synchroLost, last_er, happened, mixed>>

HkNext ==
  \/ LinkError \/ IsrCounts
  \/ \E t \in {"HOUS", "SPIQ"} : ReadStatistics(t)
  \/ UpdatePacket \/ CountErrors

HkSpec == HkInit /\ [][HkNext]_hkVars

-----------------------------------------------------------------------------
(* Properties                                                              *)

\* The counter of a severity tells the errors known to LFR at the last packet,
\* each of its kind once, less one each time a counter of one byte has passed
\* from 255 to 0 (increment_hk_counter); and LFR does not know of more errors
\* of the link than happened, unless SPIQ came between the two calls HOUS reads
\* and clears the statistics with (spacewire_read_statistics).
ErrorsCounted ==
  /\ \A s \in Severities : at["HOUS"] # "count" =>
       cnt[s] = SumFunctionOnSet([c \in Counters |-> told[c] - (told[c] \div Byte)], Members(s))
  /\ ~mixed => \A e \in Spw : told[e] <= happened[e]

\* "escape_err": the last error the packet names is one that has happened
\* (spacewire_get_last_error).
LastErrorHappened == last_er # "none" => happened[last_er] > 0
=============================================================================
