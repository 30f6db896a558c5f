----------------------------- MODULE Parameters -----------------------------
(***************************************************************************)
(* The parameters of LFR: the telecommands that load and dump them, the    *)
(* packet TM_LFR_PARAMETER_DUMP that is also where the program keeps them, *)
(* and the copies it works with (the picker's register, the merged masks,  *)
(* the filter, the periods AVF reads when it starts, the calibration       *)
(* matrices).  ACTN is not preempted: each telecommand is one step.        *)
(*                                                                         *)
(* One AVF task stands for the three, each of which reads the periods by   *)
(* itself.  What TC_LFR_ENTER_MODE does besides setting lfrCurrentMode and *)
(* restarting AVF, and what it answers, is ModeManager's.                  *)
(***************************************************************************)
EXTENDS Integers, Sequences

CONSTANTS
  CommonPars,     \* bytes BW SP0 SP1 R0 R1 R2 found in TC_LFR_LOAD_COMMON_PAR
  NormPars,       \* sets of normal parameters found in telecommands
  BpPars,         \* mode -> pairs of basic parameter periods [p0, p1], likewise
  FilterPars,     \* sets of filter parameters, likewise
  Frequencies,    \* numbers found in TC_LFR_LOAD_KCOEFFICIENTS
  Bins,           \* frequency bins of the masks
  SendQueueSize   \* messages held by the SEND queue

Modes == {"STANDBY", "NORMAL", "BURST", "SBM1", "SBM2", "INVALID"}
ScienceModes == {"NORMAL", "BURST", "SBM1", "SBM2"}
SharedModes == {"NORMAL", "SBM1", "SBM2"}
BpModes == {"BURST", "SBM1", "SBM2"}

NormFields == {"swf_l", "swf_p", "asm_p", "bp_p0", "bp_p1"}
\* tbad and shift are counted in halves of a second.  k stands for
\* the sixteen rw_k; sy_lfr_sc_rw_delta_f, checked alike, is left out.
FilterFields == {"modulus", "tbad", "offset", "shift", "k"}

ASSUME ParameterAssumption ==
  /\ NormPars \subseteq [NormFields -> Nat]
  /\ BpPars \in [BpModes -> SUBSET [{"p0", "p1"} -> Nat]]
  /\ FilterPars \subseteq [FilterFields -> Int]
  /\ Frequencies \subseteq Nat
  /\ SendQueueSize \in Nat \ {0}

DefaultCommon == 32
DefaultNorm == [swf_l |-> 2048, swf_p |-> 300, asm_p |-> 3600, bp_p0 |-> 4, bp_p1 |-> 20]
MinSwfP == 22
DefaultBp == [m \in BpModes |-> [p0 |-> 1, p1 |-> IF m = "SBM1" THEN 1 ELSE 5]]
DefaultFilter == [modulus |-> 4, tbad |-> 2, offset |-> 0, shift |-> 1, k |-> 1]

\* filterPar is a global in zeroed memory; Init sets it, the rw_k excepted.
BootFilter == [DefaultFilter EXCEPT !.k = 0]

\* The periods before AVF runs for the first time.
NoNorm == [f \in NormFields |-> 0]
NoBp == [p \in {"p0", "p1"} |-> 0]

\* Bins of the compressed matrices of each channel.
Channels == 0 .. 2
CompressedBins(c) == <<11, 13, 12>>[c + 1]
NbBins == 36

\* Blocks of a dump packet, one per matrix; a channel has one more than it
\* has bins.
DumpBlocks == 1 .. 30
NoBlock == 3

VARIABLES
  lfrCurrentMode,
  parameter_dump,  \* parameter_dump_packet
  inUse,           \* the copies the program works with
  starting,        \* AVF was restarted and has not run yet
  kcoeff,          \* calibration matrices, one content per compressed bin
  kdump,           \* the two packets: the channel found in each block
  sendQueue,       \* "tm": a packet by value; "k1", "k2": a pointer to a packet
  filterLoaded,    \* history: a TC_LFR_LOAD_FILTER_PAR was executed
  verdict          \* history: what became of the telecommand of this step

pars == <<parameter_dump, inUse>>
vars == <<lfrCurrentMode, parameter_dump, inUse, starting, kcoeff, kdump,
          sendQueue, filterLoaded, verdict>>

BpPairs == UNION {BpPars[m] \cup {DefaultBp[m]} : m \in BpModes}

Dumps ==
  [common : CommonPars \cup {DefaultCommon},
   norm   : NormPars \cup {DefaultNorm},
   bp     : [BpModes -> BpPairs],
   fbins  : SUBSET Bins, rwMask : SUBSET Bins,
   filter : FilterPars \cup {DefaultFilter}]

Copies ==
  [shaping : CommonPars \cup {DefaultCommon},
   merged  : SUBSET Bins,
   filter  : FilterPars \cup {BootFilter},
   norm    : NormPars \cup {DefaultNorm, NoNorm},
   bp      : BpPairs \cup {NoBp}]

TypeOK ==
  /\ lfrCurrentMode \in Modes
  /\ parameter_dump \in Dumps
  /\ inUse \in Copies
  /\ starting \in BOOLEAN
  /\ kcoeff \in [0 .. NbBins - 1 -> {"default", "loaded", "overwritten"}]
  /\ kdump \in [{"k1", "k2"} -> [DumpBlocks -> Channels \cup {NoBlock}]]
  /\ sendQueue \in Seq({"tm", "k1", "k2"}) /\ Len(sendQueue) <= SendQueueSize
  /\ filterLoaded \in BOOLEAN
  /\ verdict \in {"none", "executed", "rejected", "silent"}

Init ==
  /\ lfrCurrentMode = "STANDBY"
  /\ parameter_dump = [common |-> DefaultCommon, norm |-> DefaultNorm, bp |-> DefaultBp,
                       fbins |-> Bins, rwMask |-> Bins, filter |-> DefaultFilter]
  /\ inUse = [shaping |-> DefaultCommon, merged |-> Bins, filter |-> BootFilter,
              norm |-> NoNorm, bp |-> NoBp]
  /\ starting = FALSE
  /\ kcoeff = [f \in 0 .. NbBins - 1 |-> "default"]
  /\ kdump = [p \in {"k1", "k2"} |-> [b \in DumpBlocks |-> NoBlock]]
  /\ sendQueue = <<>>
  /\ filterLoaded = FALSE
  /\ verdict = "none"

-----------------------------------------------------------------------------
(* Answers.  The TM_LFR_TC_EXE packet is lost when the SEND queue is full; *)
(* the housekeeping counters are updated all the same.                     *)

\* mutant: the limit of the queue is not tested
SentAnyway(q, msg) == Append(q, msg)

Sent(q, msg) == IF Len(q) < SendQueueSize THEN Append(q, msg) ELSE q

Answer(v) == sendQueue' = Sent(sendQueue, "tm") /\ verdict' = v

\* No answer and no counter.
Silence == verdict' = "silent" /\ UNCHANGED sendQueue

Refuse == Answer("rejected") /\ UNCHANGED <<pars, filterLoaded>>

-----------------------------------------------------------------------------
(* Consistency of a set of parameters.                                     *)

Multiple(n, d) == n % d = 0

\* mutant: the asm period is not compared with bp_p0
NormConsistentNoAsm(n) ==
  /\ n.swf_l = DefaultNorm.swf_l /\ n.swf_p >= MinSwfP
  /\ n.bp_p0 >= DefaultNorm.bp_p0 /\ n.asm_p # 0
  /\ n.bp_p1 >= DefaultNorm.bp_p1 /\ Multiple(n.bp_p1, n.bp_p0)

\* check_normal_par_consistency: in the order of the code, so that the
\* periods are known to be positive when they divide.
NormConsistent(n) ==
  /\ n.swf_l = DefaultNorm.swf_l
  /\ n.swf_p >= MinSwfP
  /\ n.bp_p0 >= DefaultNorm.bp_p0
  /\ n.asm_p # 0
  /\ Multiple(n.asm_p, n.bp_p0)
  /\ n.bp_p1 >= DefaultNorm.bp_p1
  /\ Multiple(n.bp_p1, n.bp_p0)

\* In SBM1 bp_p0 counts quarters of a second, bp_p1 seconds.
BpConsistent(m, b) ==
  /\ b.p0 >= DefaultBp[m].p0
  /\ b.p1 >= DefaultBp[m].p1
  /\ Multiple(IF m = "SBM1" THEN 4 * b.p1 ELSE b.p1, b.p0)

FilterConsistent(f) ==
  /\ f.modulus \in 4 .. 8
  /\ f.tbad \in 0 .. 8
  /\ f.offset <= 7
  /\ f.shift \in 0 .. 2
  /\ 2 * f.offset + f.shift < 2 * f.modulus
  /\ f.k >= 0

-----------------------------------------------------------------------------
(* Loading.  The telecommand of a mode is refused in that mode.            *)

LoadCommon(c) ==
  /\ parameter_dump' = [parameter_dump EXCEPT !.common = c]
  /\ inUse' = [inUse EXCEPT !.shaping = c]
  /\ Answer("executed")
  /\ UNCHANGED <<lfrCurrentMode, starting, kcoeff, kdump, filterLoaded>>

\* mutant: refused in NORMAL only
LoadNormInSbm(n) ==
  /\ IF lfrCurrentMode # "NORMAL" /\ NormConsistent(n)
     THEN /\ parameter_dump' = [parameter_dump EXCEPT !.norm = n]
          /\ Answer("executed")
          /\ UNCHANGED <<inUse, filterLoaded>>
     ELSE Refuse
  /\ UNCHANGED <<lfrCurrentMode, starting, kcoeff, kdump>>

LoadNorm(n) ==
  /\ IF lfrCurrentMode \notin SharedModes /\ NormConsistent(n)
     THEN /\ parameter_dump' = [parameter_dump EXCEPT !.norm = n]
          /\ Answer("executed")
          /\ UNCHANGED <<inUse, filterLoaded>>
     ELSE Refuse
  /\ UNCHANGED <<lfrCurrentMode, starting, kcoeff, kdump>>

\* TC_LFR_LOAD_BURST_PAR, _SBM1_PAR and _SBM2_PAR.
LoadBp(m, b) ==
  /\ IF lfrCurrentMode # m /\ BpConsistent(m, b)
     THEN /\ parameter_dump' = [parameter_dump EXCEPT !.bp[m] = b]
          /\ Answer("executed")
          /\ UNCHANGED <<inUse, filterLoaded>>
     ELSE Refuse
  /\ UNCHANGED <<lfrCurrentMode, starting, kcoeff, kdump>>

\* mutant: the parameters are stored before they are checked
LoadFilterParEarly(f) ==
  /\ parameter_dump' = [parameter_dump EXCEPT !.filter = f]
  /\ inUse' = [inUse EXCEPT !.filter = f]
  /\ filterLoaded' = TRUE
  /\ Answer(IF FilterConsistent(f) THEN "executed" ELSE "rejected")
  /\ UNCHANGED <<lfrCurrentMode, starting, kcoeff, kdump>>

\* The masks of the wheels are not built again with the new rw_k.
LoadFilterPar(f) ==
  /\ IF FilterConsistent(f)
     THEN /\ parameter_dump' = [parameter_dump EXCEPT !.filter = f]
          /\ inUse' = [inUse EXCEPT !.filter = f]
          /\ filterLoaded' = TRUE
          /\ Answer("executed")
     ELSE Refuse
  /\ UNCHANGED <<lfrCurrentMode, starting, kcoeff, kdump>>

LoadFbins(mask) ==
  /\ parameter_dump' = [parameter_dump EXCEPT !.fbins = mask]
  /\ inUse' = [inUse EXCEPT !.merged = mask \cap parameter_dump.rwMask]
  /\ Answer("executed")
  /\ UNCHANGED <<lfrCurrentMode, starting, kcoeff, kdump, filterLoaded>>

\* TC_LFR_UPDATE_INFO: mask is built from the frequencies of the reaction
\* wheels, ok tells that they and the modes are acceptable.  No answer.
UpdateInfo(ok, mask) ==
  /\ IF ok
     THEN /\ parameter_dump' = [parameter_dump EXCEPT !.rwMask = mask]
          /\ inUse' = [inUse EXCEPT !.merged = parameter_dump.fbins \cap mask]
     ELSE UNCHANGED pars
  /\ Silence
  /\ UNCHANGED <<lfrCurrentMode, starting, kcoeff, kdump, filterLoaded>>

-----------------------------------------------------------------------------
(* The calibration matrices, "k coefficients" in the code.                 *)

\* Loading the last bin starts the interpolation, which takes the floats
\* of a matrix for the frequencies of one float: it writes over the loaded
\* matrices.
WithCoefficient(k, f) ==
  IF f = NbBins - 1 THEN [g \in DOMAIN k |-> "overwritten"]
  ELSE [k EXCEPT ![f] = "loaded"]

\* A number out of range is refused; index 0 is then used with the null
\* pointer for the additional line of the last matrix.  The processor
\* ignores the writes, or stops on them, as any behaviour of Spec may.
LoadKcoefficients(f) ==
  /\ IF lfrCurrentMode = "STANDBY" /\ f < NbBins
     THEN /\ kcoeff' = WithCoefficient(kcoeff, f)
          /\ Answer("executed")
          /\ UNCHANGED <<pars, filterLoaded>>
     ELSE Refuse /\ UNCHANGED kcoeff
  /\ UNCHANGED <<lfrCurrentMode, starting, kdump>>

\* Copies the matrices of a channel to blks, after n blocks.  The loops
\* run from 0 to NB_BINS_COMPRESSED_SM included.
CopyBlocks(blks, n, c) ==
  [b \in DumpBlocks |-> IF b \in n + 1 .. n + CompressedBins(c) + 1 THEN c ELSE blks[b]]

\* The pointer of the second packet is set to the blocks of the first.
DumpedPackets ==
  [kdump EXCEPT !["k1"] =
     CopyBlocks(CopyBlocks(CopyBlocks(@, 0, 0), CompressedBins(0) + 1, 1), 0, 2)]

\* The status is the one of the second message: RTEMS_TOO_MANY means
\* nothing to close_action.
DumpKcoefficients ==
  LET queued == Sent(Sent(sendQueue, "k1"), "k2")
  IN  /\ kdump' = DumpedPackets
      /\ IF Len(sendQueue) + 2 <= SendQueueSize
         THEN sendQueue' = Sent(queued, "tm") /\ verdict' = "executed"
         ELSE sendQueue' = queued /\ verdict' = "silent"
      /\ UNCHANGED <<lfrCurrentMode, pars, starting, kcoeff, filterLoaded>>

\* action_dump_par: the packet is copied to the queue.
DumpPar ==
  /\ IF Len(sendQueue) < SendQueueSize
     THEN sendQueue' = Sent(Sent(sendQueue, "tm"), "tm") /\ verdict' = "executed"
     ELSE Silence
  /\ UNCHANGED <<lfrCurrentMode, pars, starting, kcoeff, kdump, filterLoaded>>

-----------------------------------------------------------------------------
(* Modes, and the other tasks.                                             *)

\* TC_LFR_ENTER_MODE: n packets are queued for it, a refusal included.
EnterMode(m, n) ==
  /\ lfrCurrentMode' = m
  /\ starting' = (m \in ScienceModes)
  /\ LET q == Sent(sendQueue, "tm")
     IN  sendQueue' = IF n = 1 THEN q ELSE Sent(q, "tm")
  /\ verdict' = "executed"
  /\ UNCHANGED <<pars, kcoeff, kdump, filterLoaded>>

\* AVF runs after a restart: reset_nb_sm_f0, _f1 and _f2.  Its argument is
\* the mode entered (AsmTasksCarryMode of ModeManager).
AvfStarts ==
  /\ starting
  /\ starting' = FALSE
  /\ inUse' = [inUse EXCEPT
        !.norm = parameter_dump.norm,
        !.bp = parameter_dump.bp[IF lfrCurrentMode \in BpModes THEN lfrCurrentMode
                                 ELSE "BURST"]]
  /\ verdict' = "none"
  /\ UNCHANGED <<lfrCurrentMode, parameter_dump, kcoeff, kdump, sendQueue,
                 filterLoaded>>

\* SPIQ gives the link up.
ForceStandby ==
  /\ lfrCurrentMode' = "STANDBY"
  /\ starting' = FALSE
  /\ verdict' = "none"
  /\ UNCHANGED <<pars, kcoeff, kdump, sendQueue, filterLoaded>>

\* SEND takes a message; a pointer is followed at that time.
SendTask ==
  /\ sendQueue # <<>>
  /\ sendQueue' = Tail(sendQueue)
  /\ verdict' = "none"
  /\ UNCHANGED <<lfrCurrentMode, pars, starting, kcoeff, kdump, filterLoaded>>

\* RECV: tc_parser finds the telecommand corrupted.
RejectCorrupted ==
  /\ Refuse
  /\ UNCHANGED <<lfrCurrentMode, starting, kcoeff, kdump>>

\* TC_LFR_RESET ends the program: a behaviour of Spec may stop anywhere.
Next ==
  \/ \E c \in CommonPars : LoadCommon(c)
  \/ \E n \in NormPars : LoadNorm(n)
  \/ \E m \in BpModes : \E b \in BpPars[m] : LoadBp(m, b)
  \/ \E f \in FilterPars : LoadFilterPar(f)
  \/ \E mask \in SUBSET Bins : LoadFbins(mask)
  \/ \E ok \in BOOLEAN, mask \in SUBSET Bins : UpdateInfo(ok, mask)
  \/ \E f \in Frequencies : LoadKcoefficients(f)
  \/ DumpKcoefficients
  \/ DumpPar
  \/ \E m \in Modes, n \in 1 .. 2 : EnterMode(m, n)
  \/ AvfStarts
  \/ ForceStandby
  \/ SendTask
  \/ RejectCorrupted

Spec == Init /\ [][Next]_vars

-----------------------------------------------------------------------------
(* Properties.                                                             *)

\* What the tasks take for granted when they count and divide: no period is
\* 0, BP2 and the matrices of the normal modes are due only where BP1 is,
\* the same for the pairs of BURST, SBM1 and SBM2, and two snapshots are
\* far enough from each other.  Groups of parameters are loaded in any mode
\* and order; no sequence of loads breaks it.
ParametersConsistent ==
  /\ LET n == parameter_dump.norm
     IN  /\ n.bp_p0 > 0 /\ n.bp_p1 > 0 /\ n.asm_p > 0
         /\ n.bp_p1 % n.bp_p0 = 0
         /\ n.asm_p % n.bp_p0 = 0
         /\ n.swf_p >= 22
  /\ \A m \in BpModes :
       LET b == parameter_dump.bp[m]
       IN  /\ b.p0 > 0 /\ b.p1 > 0
           /\ (IF m = "SBM1" THEN 4 * b.p1 ELSE b.p1) % b.p0 = 0

\* What TM_LFR_PARAMETER_DUMP tells is what LFR works with: the picker's
\* data shaping, the merged masks, the PAS filter and, while science runs,
\* the periods AVF counts with, although AVF reads them once, some time
\* after the telecommand.  The rw_k are so once they have been loaded.
DumpTellsWhatIsUsed ==
  /\ inUse.shaping = parameter_dump.common
  /\ inUse.merged = parameter_dump.fbins \cap parameter_dump.rwMask
  /\ \A f \in FilterFields \ {"k"} : inUse.filter[f] = parameter_dump.filter[f]
  /\ filterLoaded => inUse.filter = parameter_dump.filter
  /\ ~starting =>
       /\ lfrCurrentMode \in SharedModes => inUse.norm = parameter_dump.norm
       /\ lfrCurrentMode \in BpModes => inUse.bp = parameter_dump.bp[lfrCurrentMode]

\* A telecommand reported as rejected, by ACTN or by RECV, has loaded none
\* of its parameters and no matrix, whichever of its fields was refused.
Rejected == verdict' = "rejected"
RejectedLoadsNothing == [][Rejected => UNCHANGED <<pars, kcoeff>>]_vars

\* While a packet of coefficients waits for SEND, it holds the matrices of
\* its channels: 12 blocks of f0 and 14 of f1 in the first packet, 13 blocks
\* of f2 in the second.
DumpHoldsCoefficients ==
  \A i \in 1 .. Len(sendQueue) :
    /\ sendQueue[i] = "k1" => /\ \A b \in 1 .. 12 : kdump["k1"][b] = 0
                             /\ \A b \in 13 .. 26 : kdump["k1"][b] = 1
    /\ sendQueue[i] = "k2" => \A b \in 1 .. 13 : kdump["k2"][b] = 2
=============================================================================
