------------------------- MODULE SnapshotExtraction -------------------------
(***************************************************************************)
(* The snapshots at f1 and f2 are cut out of the continuous waveforms:     *)
(* build_snapshot_from_ring looks in the ring for the buffer with the      *)
(* first sample, by the dates of the buffers, and copies the end of this   *)
(* buffer and the beginning of the next one.  The picker goes on filling   *)
(* the ring, and the local time may be set.  One channel; SnapshotAssembly *)
(* has the handshake of the tasks.                                         *)
(*                                                                         *)
(* Buffers are numbered from the launch of the picker; real times are in   *)
(* ticks since then, and a date is a real time plus what the clock shows   *)
(* more.                                                                   *)
(***************************************************************************)
EXTENDS Integers

CONSTANTS
  FrequencyChannels,  \* the channels looked at, of "F1" and "F2"
  RingNodes,          \* NB_RING_NODES_F1, _F2
  Samples,            \* NB_SAMPLES_PER_SNAPSHOT, which is also a buffer
  TicksPerSample,     \* channel -> TICKS_PER_T1, TICKS_PER_T2
  DeltaT,             \* channel -> DELTAT_F1, DELTAT_F2
  DeltaF0,            \* DELTAT_F0
  F0Ticks,            \* from the date of an f0 snapshot to its interrupt
  FirstF0,            \* from the launch to the first one
  Period,             \* channel -> from an f0 snapshot to the next
  Phases,             \* instants tried for an f0 interrupt, in a buffer
  Settings,           \* ticks by which the clock may be set
  CutLag,             \* buffers filled at most while a snapshot is cut
  MaxBuffers          \* bound: channel -> buffers

ASSUME ExtractionAssumption ==
  /\ RingNodes \in Nat \ {0} /\ Samples \in Nat \ {0}
  /\ \A c \in FrequencyChannels : TicksPerSample[c] \in Nat \ {0}

VARIABLES
  frequencyChannel,
  written,            \* the buffer being filled
  started,            \* date of this buffer, in the registers of the picker
  dates,              \* node -> coarseTime and fineTime
  clockShift,         \* what the clock shows more than the real time
  swf0,               \* the last f0 snapshot: real time and date
  swf0Ready,          \* swf0_ready_flag_f1, _f2
  extractSWF,         \* extractSWF1, extractSWF2
  acquisitionTimeF0,  \* of cwf2_task
  asked,              \* history: real time of the f0 snapshot to extract for
  cut                 \* the extraction in progress, or the last one

cutVars == <<frequencyChannel, written, started, dates, clockShift, swf0, swf0Ready, extractSWF,
             acquisitionTimeF0, asked, cut>>

Ticks == TicksPerSample[frequencyChannel]
BufferTicks == Samples * Ticks
RingNode(b) == b % RingNodes

\* The last of the buffers up to b that is in a node
LastIn(n, b) == b - ((b - n) % RingNodes)

\* Dates of the buffers not filled since the launch: those of an earlier
\* acquisition, or what init_ring writes, which is later than any date
Unfilled == {-1, 2000000000}

NoCut == [at |-> "idle", late |-> 0, node |-> 0, acq |-> 0, asked |-> 0, sameClock |-> FALSE,
          clock |-> 0, offset |-> 0, part1 |-> 0, date |-> 0, first |-> 0, second |-> 0]
Cutting == cut.at \in {"search", "part1", "part2"}

CutInit ==
  /\ frequencyChannel \in FrequencyChannels
  /\ written = FirstF0 \div BufferTicks /\ started = written * BufferTicks
  /\ \E unfilled \in Unfilled :
       dates = [n \in 0 .. RingNodes - 1 |->
                  LET b == LastIn(n, written - 1) IN IF b < 0 THEN unfilled ELSE b * BufferTicks]
  /\ clockShift = 0
  /\ swf0 = [time |-> -Period[frequencyChannel], date |-> 0]
  /\ swf0Ready = FALSE /\ extractSWF = FALSE
  /\ acquisitionTimeF0 = 0 /\ asked = 0 /\ cut = NoCut

-----------------------------------------------------------------------------
(* Interrupts and time *)

\* The interrupt of a full buffer, then CWF1 or CWF2: an extraction asked for
\* at the last buffer begins, and the next one is asked for.
BufferIsFull ==
  /\ written < MaxBuffers[frequencyChannel]
  /\ Cutting => cut.late < CutLag
  /\ written' = written + 1 /\ started' = written' * BufferTicks + clockShift
  /\ dates' = [dates EXCEPT ![RingNode(written)] = started]
  /\ extractSWF' = swf0Ready /\ swf0Ready' = FALSE
  /\ IF swf0Ready THEN acquisitionTimeF0' = swf0.date /\ asked' = swf0.time
                  ELSE UNCHANGED <<acquisitionTimeF0, asked>>
  /\ cut' = IF extractSWF
            THEN [NoCut EXCEPT !.at = "search", !.node = RingNode(written),
                               !.acq = acquisitionTimeF0, !.asked = asked]
            ELSE IF Cutting THEN [cut EXCEPT !.late = @ + 1] ELSE cut
  /\ UNCHANGED <<frequencyChannel, clockShift, swf0>>

\* The interrupt of an f0 snapshot
F0Snapshot ==
  /\ \E p \in Phases : LET now == written * BufferTicks + p IN
       /\ p < BufferTicks /\ now >= FirstF0
       /\ now - F0Ticks >= swf0.time + Period[frequencyChannel]
       /\ swf0' = [time |-> now - F0Ticks, date |-> now - F0Ticks + clockShift]
  /\ swf0Ready' = TRUE
  /\ UNCHANGED <<frequencyChannel, written, started, dates, clockShift, extractSWF,
                 acquisitionTimeF0, asked, cut>>

\* TC_LFR_UPDATE_TIME, at the next timecode
TimeIsSet ==
  /\ clockShift = 0 /\ clockShift' \in Settings
  /\ UNCHANGED <<frequencyChannel, written, started, dates, swf0, swf0Ready, extractSWF,
                 acquisitionTimeF0, asked, cut>>

-----------------------------------------------------------------------------
(* build_snapshot_from_ring, by SWBD at f1 and by CWF2 at f2 *)

Back(n, k) == (n - k) % RingNodes

\* mutant: the first buffer looked at is used
NoSearch(n, acq) == [node |-> n, date |-> dates[n]]

\* (4) From node n back to the first one that begins before the snapshot; if
\* there is none the pointer has gone round, and the date is that of the last
\* node looked at.
FindNode(n, acq) ==
  LET before == {k \in 0 .. RingNodes - 1 : dates[Back(n, k)] <= acq} IN
  IF before = {} THEN [node |-> n, date |-> dates[Back(n, RingNodes - 1)]]
  ELSE LET k == CHOOSE k \in before : \A l \in before : k <= l IN
       [node |-> Back(n, k), date |-> dates[Back(n, k)]]

\* SWBD reads the date of the f0 snapshot when it runs, CWF2 when it asked
\* for the extraction; CWF2 reads the pointer to the last buffer when it runs.
AcquisitionTimeF0 == IF frequencyChannel = "F1" THEN swf0.date ELSE cut.acq
NodeToSend == IF frequencyChannel = "F1" THEN cut.node ELSE RingNode(written - 1)

\* Is the clock the same for the f0 snapshot and for the buffers of the ring?
SameClock ==
  /\ AcquisitionTimeF0 = cut.asked + clockShift
  /\ \A n \in DOMAIN dates : LET b == LastIn(n, written - 1) IN
       b >= 0 => dates[n] = b * BufferTicks + clockShift

\* (2) to (6).  The unsigned difference of two dates in the wrong order gives an
\* offset far beyond the buffer, hence 0 samples.
Search ==
  /\ cut.at = "search"
  /\ LET acquisitionTime == AcquisitionTimeF0 + DeltaF0 - DeltaT[frequencyChannel]
         found == FindNode(NodeToSend, acquisitionTime)
         sampleOffset == (acquisitionTime - found.date) \div Ticks
     IN cut' = [cut EXCEPT !.at = "part1", !.node = found.node, !.offset = sampleOffset,
                           !.part1 = IF sampleOffset \in 0 .. Samples THEN Samples - sampleOffset
                                     ELSE 0,
                           !.date = found.date + sampleOffset * Ticks,
                           !.sameClock = SameClock, !.clock = clockShift]
  /\ UNCHANGED <<frequencyChannel, written, started, dates, clockShift, swf0, swf0Ready,
                 extractSWF, acquisitionTimeF0, asked>>

\* The copies; a buffer is known by its number.
CopyPart1 ==
  /\ cut.at = "part1"
  /\ cut' = [cut EXCEPT !.at = "part2", !.first = LastIn(cut.node, written),
                        !.node = RingNode(cut.node + 1)]
  /\ UNCHANGED <<frequencyChannel, written, started, dates, clockShift, swf0, swf0Ready,
                 extractSWF, acquisitionTimeF0, asked>>

CopyPart2 ==
  /\ cut.at = "part2"
  /\ cut' = [cut EXCEPT !.at = "done", !.second = LastIn(cut.node, written)]
  /\ UNCHANGED <<frequencyChannel, written, started, dates, clockShift, swf0, swf0Ready,
                 extractSWF, acquisitionTimeF0, asked>>

CutNext == BufferIsFull \/ F0Snapshot \/ TimeIsSet \/ Search \/ CopyPart1 \/ CopyPart2

CutSpec == CutInit /\ [][CutNext]_cutVars

-----------------------------------------------------------------------------
(* Property *)

\* The first sample copied: of the second buffer if there is none of the first
FirstSample == IF cut.part1 = 0 THEN cut.second * Samples
               ELSE cut.first * Samples + cut.offset

\* If the clock is not set meanwhile, a snapshot is made of consecutive samples,
\* all acquired and none overwritten yet, it bears the date of the first one,
\* and the first one is the sample DeltaT before the centre of the f0 snapshot
\* it was asked for (cwf1_task, cwf2_task, swbd_task, build_snapshot_from_ring).
SnapshotCut ==
  cut.at = "done" /\ cut.sameClock =>
    LET start == cut.asked + DeltaF0 - DeltaT[frequencyChannel] IN
    /\ cut.part1 \in 1 .. Samples
    /\ cut.part1 < Samples => cut.second = cut.first + 1
    /\ (IF cut.part1 < Samples THEN cut.second ELSE cut.first) < written
    /\ FirstSample = start \div Ticks
    /\ cut.date = FirstSample * Ticks + cut.clock
=============================================================================
