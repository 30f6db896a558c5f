---------------------------- MODULE MCComponents ----------------------------
(***************************************************************************)
(* Model checking of the components that TLC examines one at a time: part  *)
(* names the one that takes steps in a behaviour, the others stay as they  *)
(* are.  The constants are those of all of them.                           *)
(***************************************************************************)
EXTENDS Averaging, SpectralRing, SnapshotAssembly, TransitionDate, SpectralMatrix, PasFilter,
        WheelFilter, Timecode, Housekeeping, TcAcceptance, SnapshotExtraction

VARIABLE part

-----------------------------------------------------------------------------
(* Constants *)

\* Averaging: periods of one to four batches
NormPeriods == [bp1 |-> 2, bp2 |-> 4, asm |-> 4]
SbmPeriodsOfModes == [m \in {"BURST", "SBM1", "SBM2"} |->
  CASE m = "BURST" -> [bp1 |-> 3, bp2 |-> 3]
    [] m = "SBM1"  -> [bp1 |-> 1, bp2 |-> 2]
    [] m = "SBM2"  -> [bp1 |-> 2, bp2 |-> 4]]

\* SpectralRing: the event of AVF survives its restart or not
Either == BOOLEAN

\* SnapshotAssembly: a slot is 1344 samples at 4096 Hz.  The shortest period a
\* TC can set, MIN_SY_LFR_N_SWF_P, is 22 s, and a correction takes twice half a
\* second off it at most: the shortest interval, 64 slots, is two buffers of f2.
Slots(s) == (s * 4096) \div 1344
CorrectedPeriod == Slots(22)
LargestCorrection == Slots(1)

\* SnapshotExtraction: the numbers of the program.  At f1 the snapshots come
\* every 5 buffers and not 32; the instants are those where the first sample
\* passes from a buffer to another, and some others.
MCTicksPerSample == [F1 |-> 16, F2 |-> 256]
MCDeltaT == [F1 |-> 16384, F2 |-> 262144]
MCPeriod == [F1 |-> 5 * 2688 * 16, F2 |-> 21 * 65536]
MCMaxBuffers == [F1 |-> 36, F2 |-> 7]
MCPhases == {0, 7168, 20820, 20821, 20837, 43007, 266580, 266581, 266837, 500000, 688127}
MCSettings == {-400000, 5000000}

\* TransitionDate: 8 dates, more than twice the bound of check_transition_date
MCSyncBit == 8

\* WheelFilter: frequencies off, between two bins, on a bin, near the width of
\* a bin, and beyond the mask
MCFrequencies == {-3, 0, 46, 150, 165, 178, 340}
MCGroundMasks == {AllBits, {Bit(b) : b \in {0, 3, 7, 8, 9, 15}}}

\* TcAcceptance: telecommands of each way to be answered, and packets that fail
\* each test of the parser
TcPacket(type, subtype, source) ==
  [apid |-> TRUE, bytes |-> TC_LEN[subtype] + 3, length |-> TC_LEN[subtype] - 7,
   type |-> type, subtype |-> subtype, sourceID |-> source, crc |-> TRUE]
MCPackets ==
  LET dump == TcPacket("GEN", "DUMP", "OBCP") IN
  {dump, TcPacket("GEN", "DUMP_K", "AOCS"), TcPacket("GEN", "ENTER", "OBCP"),
   TcPacket("GEN", "LOAD_K", "AOCS"), TcPacket("GEN", "RESET", "OBCP"),
   TcPacket("TIME", "UPDT_TIME", "OBCP"),
   TcPacket("GEN", "LOAD_COMM", "unknown"), TcPacket("unknown", "LOAD_FILTER_PAR", "GROUND"),
   [TcPacket("GEN", "UPDT_INFO", "OBCP") EXCEPT !.crc = FALSE],
   [dump EXCEPT !.crc = FALSE], [dump EXCEPT !.length = 7], [dump EXCEPT !.bytes = 14],
   [dump EXCEPT !.subtype = "ENTER"]}

-----------------------------------------------------------------------------
(* One component at a time *)

Parts == {"averaging", "ring", "snapshots", "date", "matrix", "pas", "wheels", "timecode",
          "housekeeping", "telecommands", "extraction"}

\* A component that takes no step starts in one of its initial states only.
Pinned ==
  /\ part # "averaging" => channel = 1
  /\ part # "date" => notSynced
  /\ part # "matrix" => pc = "average"
  /\ part # "pas" => duration = 1
  /\ part # "extraction" => frequencyChannel = "F1"

MCInit ==
  /\ part \in Parts
  /\ Init /\ RingInit /\ SnapInit /\ DateInit /\ SmInit /\ PasInit /\ WheelInit
  /\ TimecodeInit /\ HkInit /\ TcInit /\ CutInit
  /\ Pinned

MCNext ==
  \/ /\ part = "averaging" /\ Next
     /\ UNCHANGED <<part, ringVars, snapVars, dateVars, smVars, pasVars, wheelVars, timecodeVars, hkVars, tcVars, cutVars>>
  \/ /\ part = "ring" /\ RingNext
     /\ UNCHANGED <<part, vars, snapVars, dateVars, smVars, pasVars, wheelVars, timecodeVars, hkVars, tcVars, cutVars>>
  \/ /\ part = "snapshots" /\ SnapNext
     /\ UNCHANGED <<part, vars, ringVars, dateVars, smVars, pasVars, wheelVars, timecodeVars, hkVars, tcVars, cutVars>>
  \/ /\ part = "date" /\ DateNext
     /\ UNCHANGED <<part, vars, ringVars, snapVars, smVars, pasVars, wheelVars, timecodeVars, hkVars, tcVars, cutVars>>
  \/ /\ part = "matrix" /\ SmNext
     /\ UNCHANGED <<part, vars, ringVars, snapVars, dateVars, pasVars, wheelVars, timecodeVars, hkVars, tcVars, cutVars>>
  \/ /\ part = "pas" /\ PasNext
     /\ UNCHANGED <<part, vars, ringVars, snapVars, dateVars, smVars, wheelVars, timecodeVars, hkVars, tcVars, cutVars>>
  \/ /\ part = "wheels" /\ WheelNext
     /\ UNCHANGED <<part, vars, ringVars, snapVars, dateVars, smVars, pasVars, timecodeVars, hkVars, tcVars, cutVars>>
  \/ /\ part = "timecode" /\ TimecodeNext
     /\ UNCHANGED <<part, vars, ringVars, snapVars, dateVars, smVars, pasVars, wheelVars, hkVars, tcVars, cutVars>>
  \/ /\ part = "housekeeping" /\ HkNext
     /\ UNCHANGED <<part, vars, ringVars, snapVars, dateVars, smVars, pasVars, wheelVars, timecodeVars, tcVars, cutVars>>
  \/ /\ part = "telecommands" /\ TcNext
     /\ UNCHANGED <<part, vars, ringVars, snapVars, dateVars, smVars, pasVars, wheelVars, timecodeVars, hkVars, cutVars>>
  \/ /\ part = "extraction" /\ CutNext
     /\ UNCHANGED <<part, vars, ringVars, snapVars, dateVars, smVars, pasVars, wheelVars, timecodeVars, hkVars, tcVars>>

MCSpec == MCInit /\ [][MCNext]_<<part, vars, ringVars, snapVars, dateVars, smVars, pasVars,
                                wheelVars, timecodeVars, hkVars, tcVars, cutVars>>

\* The types of the components that have no theorem about them
TypesOK == TypeOK /\ SnapTypeOK
=============================================================================
