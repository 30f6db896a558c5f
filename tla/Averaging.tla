----------------------------- MODULE Averaging -----------------------------
(***************************************************************************)
(* The averages of one channel: AVF adds each batch of spectral matrices   *)
(* to two sums, one for the normal products and one for the BURST or SBM   *)
(* products, each in a node of a ring; at f2 there is the first one only,  *)
(* and a batch is one matrix.  When the period of a product ends, AVF      *)
(* sends PRC a message that points to the two nodes; PRC computes the      *)
(* basic parameters (BP1, BP2) and the matrix to transmit (ASM).           *)
(*                                                                         *)
(* The step of each task is atomic: AVF is the more urgent one, and PRC is *)
(* not preemptible.  A mode change restarts both, but empties no queue.    *)
(***************************************************************************)
EXTENDS Naturals, FiniteSets, Sequences

CONSTANTS
  Channels,     \* the channels looked at: 0 for f0, 1 for f1, 2 for f2
  Norm,         \* periods in batches [bp1, bp2, asm]: sy_lfr_n_bp_p0, ...
  Sbm,          \* mode -> periods [bp1, bp2]
  NormRing,     \* NB_RING_NODES_ASM_NORM_F0, _F1
  SbmRing,      \* NB_RING_NODES_ASM_BURST_SBM_F0, _F1
  QueueSize,    \* messages held by the PRC queue
  PrcLag,       \* batches added at most while a message waits for PRC
  MaxBatches,   \* bound: batches in a behaviour
  MaxPolluted   \* bound: polluted batches in a behaviour

NormMode == {"NORMAL", "SBM1", "SBM2"}
Mode == NormMode \cup {"BURST"}

\* The parameters are consistent (check_normal_par_consistency and the other
\* checks of the load commands), and a node is not summed again while a
\* message points to it.
ASSUME ParameterAssumption ==
  /\ Norm \in [bp1 : Nat \ {0}, bp2 : Nat \ {0}, asm : Nat \ {0}]
  /\ Norm.bp2 % Norm.bp1 = 0 /\ Norm.asm % Norm.bp1 = 0
  /\ Sbm \in [{"BURST", "SBM1", "SBM2"} -> [bp1 : Nat \ {0}, bp2 : Nat \ {0}]]
  /\ \A m \in DOMAIN Sbm : Sbm[m].bp2 % Sbm[m].bp1 = 0
ASSUME RingAssumption ==
  /\ NormRing \in Nat /\ SbmRing \in Nat /\ QueueSize \in Nat /\ PrcLag \in Nat
  /\ PrcLag <= (NormRing - 1) * Norm.bp1
  /\ \A m \in DOMAIN Sbm : PrcLag <= (SbmRing - 1) * Sbm[m].bp1
ASSUME BoundAssumption == MaxBatches \in Nat /\ MaxPolluted \in Nat /\ Channels \subseteq {0, 1, 2}

SbmCounter == {"sbm_bp1", "sbm_bp2"}
Counter == {"norm_bp1", "norm_bp2", "norm_asm"} \cup SbmCounter
Batches == 1 .. MaxBatches
Sum == SUBSET Batches

VARIABLES
  channel,   \* the channel of the two tasks; it never changes
  mode,      \* lfrCurrentMode, which is also the argument of the last restart
  clock,     \* batches so far
  since,     \* history: clock at the last restart
  polluted,  \* history: batches with no valid matrix (PAS filter)
  nb,        \* counter -> nb_norm_bp1, ...
  cur,       \* the two current ring nodes
  acc,       \* rings of sums: node -> batches summed in it
  msg,       \* what stays in msgForPRC: number of matrices and date of each sum
  queue,     \* messages for PRC
  comp,      \* compressed_sm_norm, compressed_sm_sbm: the last matrices
  sent       \* packets produced by the last step

vars == <<channel, mode, clock, since, polluted, nb, cur, acc, msg, queue, comp, sent>>

Matrix == [sum : Sum, n : 0 .. MaxBatches]

TypeOK ==
  /\ channel \in Channels
  /\ mode \in Mode \cup {"STANDBY"}
  /\ clock \in 0 .. MaxBatches /\ since \in 0 .. MaxBatches
  /\ polluted \in Sum
  /\ nb \in [Counter -> 0 .. MaxBatches]
  /\ cur \in [norm : 0 .. NormRing - 1, sbm : 0 .. SbmRing - 1]
  /\ acc \in [norm : [0 .. NormRing - 1 -> Sum], sbm : [0 .. SbmRing - 1 -> Sum]]
  /\ msg \in [norm : [n : 0 .. MaxBatches, time : 0 .. MaxBatches],
              sbm : [n : 0 .. MaxBatches, time : 0 .. MaxBatches]]
  /\ Len(queue) <= QueueSize
  /\ comp \in [norm : Matrix, sbm : Matrix]

-----------------------------------------------------------------------------
(* Periods *)

\* The modes with BURST or SBM products
SbmMode == IF channel = 0 THEN {"BURST", "SBM1", "SBM2"}
           ELSE IF channel = 1 THEN {"BURST", "SBM2"} ELSE {}

\* avf2_task has no counter of BURST and SBM products.
Counts(c) == channel # 2 \/ c \notin SbmCounter

\* mutant: SBM2 uses the periods of SBM1
SbmPeriodsSwapped == Sbm[IF mode = "SBM2" THEN "SBM1" ELSE "BURST"]

\* reset_nb_sm_f0, _f1: any other mode takes the periods of BURST
SbmPeriods == Sbm[IF mode \in SbmMode THEN mode ELSE "BURST"]

\* nb_sm_before_f0, _f1, _f2
Before(c) == CASE c = "norm_bp1" -> Norm.bp1
               [] c = "norm_bp2" -> Norm.bp2
               [] c = "norm_asm" -> Norm.asm
               [] c = "sbm_bp1"  -> SbmPeriods.bp1
               [] c = "sbm_bp2"  -> SbmPeriods.bp2

Due(c) == Counts(c) /\ nb[c] + 1 = Before(c)

\* The events AVF sends in each mode
Enabled == (IF mode \in NormMode THEN {"norm_bp1", "norm_bp2", "norm_asm"} ELSE {})
             \cup (IF mode \in SbmMode THEN {"sbm_bp1", "sbm_bp2"} ELSE {})

-----------------------------------------------------------------------------
(* Mode changes *)

Zero == [c \in Counter |-> 0]
Empty == [sum |-> {}, n |-> 0]

Init ==
  /\ channel \in Channels
  /\ mode = "STANDBY" /\ clock = 0 /\ since = 0 /\ polluted = {}
  /\ nb = Zero /\ cur = [norm |-> 0, sbm |-> 0]
  /\ acc = [norm |-> [i \in 0 .. NormRing - 1 |-> {}], sbm |-> [i \in 0 .. SbmRing - 1 |-> {}]]
  /\ msg = [norm |-> [n |-> 0, time |-> 0], sbm |-> [n |-> 0, time |-> 0]]
  /\ queue = <<>> /\ comp = [norm |-> Empty, sbm |-> Empty] /\ sent = {}

\* mutant: the counters go on
RestartKeepsCounters(m) ==
  /\ m # mode
  /\ mode' = m /\ since' = clock
  /\ cur' = [norm |-> 0, sbm |-> 0]
  /\ sent' = {}
  /\ UNCHANGED <<channel, clock, polluted, nb, acc, msg, queue, comp>>

\* restart_science_tasks or restart_asm_tasks: AVF and PRC begin again, with
\* the mode as argument.  Their arrays and the queue stay as they are.
Restart(m) ==
  /\ m # mode
  /\ mode' = m /\ since' = clock
  /\ nb' = Zero /\ cur' = [norm |-> 0, sbm |-> 0]
  /\ sent' = {}
  /\ UNCHANGED <<channel, clock, polluted, acc, msg, queue, comp>>

\* suspend_science_tasks
Suspend ==
  /\ mode # "STANDBY" /\ mode' = "STANDBY" /\ sent' = {}
  /\ UNCHANGED <<channel, clock, since, polluted, nb, cur, acc, msg, queue, comp>>

-----------------------------------------------------------------------------
(* AVF *)

Fresh(m) == m.last > since

\* PRC is not later than the rings allow.
InTime == \A i \in 1 .. Len(queue) : Fresh(queue[i]) => clock < queue[i].last + PrcLag

\* mutant: a sum is not cleared at the beginning of its period
AddToOld(s, count, valid) == s \cup (IF valid THEN {clock + 1} ELSE {})

\* SM_average, SM_average_f2, one sum: cleared when its count is 0
Add(s, count, valid) == (IF count = 0 THEN {} ELSE s)
                           \cup (IF valid THEN {clock + 1} ELSE {})

\* SM_average, the number of matrices of the sum and its date
Note(m, count, valid) ==
  IF count = 0 THEN [n |-> IF valid THEN 1 ELSE 0, time |-> clock + 1]
  ELSE [m EXCEPT !.n = @ + (IF valid THEN 1 ELSE 0)]

\* mutant: the last node is not linked to the first one
OpenRing(n, size) == n + 1

\* ASM_generic_init_ring: node->next
NextNode(n, size) == IF n = size - 1 THEN 0 ELSE n + 1

\* avf0_task, avf1_task, avf2_task.  The message holds the nodes as they were before
\* they moved; last and mode are history.  It is lost if the queue is full.
Avf ==
  /\ mode # "STANDBY" /\ clock < MaxBatches /\ InTime
  /\ \E valid \in {TRUE, Cardinality(polluted) >= MaxPolluted} :
       /\ polluted' = IF valid THEN polluted ELSE polluted \cup {clock + 1}
       /\ acc' = [norm |-> [acc.norm EXCEPT ![cur.norm] = Add(@, nb["norm_bp1"], valid)],
                  sbm  |-> IF channel = 2 THEN acc.sbm
                           ELSE [acc.sbm EXCEPT ![cur.sbm] = Add(@, nb["sbm_bp1"], valid)]]
       /\ msg' = [norm |-> Note(msg.norm, nb["norm_bp1"], valid),
                  sbm  |-> IF channel = 2 THEN msg.sbm ELSE Note(msg.sbm, nb["sbm_bp1"], valid)]
  /\ clock' = clock + 1
  /\ nb' = [c \in Counter |-> IF Due(c) \/ ~Counts(c) THEN 0 ELSE nb[c] + 1]
  /\ cur' = [norm |-> IF Due("norm_bp1") THEN NextNode(cur.norm, NormRing) ELSE cur.norm,
             sbm  |-> IF Due("sbm_bp1") THEN NextNode(cur.sbm, SbmRing) ELSE cur.sbm]
  /\ LET event == {c \in Enabled : Due(c)} IN
       queue' = IF event # {} /\ Len(queue) < QueueSize
                THEN Append(queue, [node |-> cur, info |-> msg', event |-> event,
                                    last |-> clock'])
                ELSE queue
  /\ sent' = {}
  /\ UNCHANGED <<channel, mode, since, comp>>

-----------------------------------------------------------------------------
(* PRC *)

Packet(kind, m, info, matrix) ==
  [kind |-> kind, mode |-> mode, sum |-> matrix.sum, n |-> matrix.n,
   time |-> info.time, last |-> m.last]

\* mutant: the matrix of the previous message is used
StaleMatrix(m) == [norm |-> comp.norm, sbm |-> comp.sbm]

\* ASM_compress_divide_and_mask on the matrices of a message, at f2 on every one
Compressed(m) ==
  [norm |-> IF channel = 2 \/ "norm_bp1" \in m.event
            THEN [sum |-> acc.norm[m.node.norm], n |-> m.info.norm.n] ELSE comp.norm,
   sbm  |-> IF "sbm_bp1" \in m.event
            THEN [sum |-> acc.sbm[m.node.sbm], n |-> m.info.sbm.n] ELSE comp.sbm]

\* The BURST, SBM1 and SBM2 part.  prc0_task computes BP1 from
\* compressed_sm_norm_f0, prc1_task from compressed_sm_sbm_f1.
SbmPackets(m, c) ==
  IF "sbm_bp1" \notin m.event THEN {}
  ELSE {Packet("sbm_bp1", m, m.info.sbm, IF channel = 0 THEN comp.norm ELSE c.sbm)}
         \cup (IF "sbm_bp2" \in m.event
               THEN {Packet("sbm_bp2", m, m.info.sbm, c.sbm)} ELSE {})

\* What ASM_divide divides the matrix to transmit by: prc2_task takes the period.
Divisor(m) == IF channel = 2 THEN Norm.bp1 ELSE m.info.norm.n

\* The NORMAL part: BP2 inside BP1, but at f2; the matrix transmitted is that
\* of the message.
NormPackets(m, c) ==
  (IF "norm_bp1" \in m.event THEN {Packet("norm_bp1", m, m.info.norm, c.norm)} ELSE {})
  \cup (IF "norm_bp2" \in m.event /\ (channel = 2 \/ "norm_bp1" \in m.event)
        THEN {Packet("norm_bp2", m, m.info.norm, c.norm)} ELSE {})
  \cup (IF "norm_asm" \in m.event
        THEN {Packet("norm_asm", m, m.info.norm,
                     [sum |-> acc.norm[m.node.norm], n |-> Divisor(m)])} ELSE {})

\* prc0_task, prc1_task, prc2_task: one message.  A packet of the BURST or SBM part may
\* be dropped: BP_send_s1_s2 drops it before the date of the mode.
Prc ==
  /\ mode # "STANDBY" /\ queue # <<>>
  /\ LET m == Head(queue) IN
       /\ comp' = Compressed(m)
       /\ \E early \in BOOLEAN :
            sent' = NormPackets(m, comp') \cup (IF early THEN {} ELSE SbmPackets(m, comp'))
  /\ queue' = Tail(queue)
  /\ UNCHANGED <<channel, mode, clock, since, polluted, nb, cur, acc, msg>>

Next == (\E m \in Mode : Restart(m)) \/ Suspend \/ Avf \/ Prc

Spec == Init /\ [][Next]_vars

-----------------------------------------------------------------------------
(* Properties *)

\* p holds the valid batches of a period that ended at p.last, all of them and
\* no other, and is dated by the first batch.
WholePeriod(p, period) ==
  /\ p.sum = (p.last - period + 1 .. p.last) \ polluted
  /\ p.time = p.last - period + 1

\* p is their average.
AverageOfPeriod(p, period) == WholePeriod(p, period) /\ p.n = Cardinality(p.sum)

\* Normal basic parameters and matrices are averages of a whole period, since
\* the last mode change (avf0_task, SM_average, prc0_task).  The matrices of f2
\* are sums of one, divided by its length: too weak if the filter dropped some.
NormalAverages ==
  \A p \in sent : Fresh(p) /\ p.kind \in {"norm_bp1", "norm_bp2", "norm_asm"} =>
    IF channel = 2 /\ p.kind = "norm_asm"
    THEN WholePeriod(p, Norm.bp1) /\ p.n = Norm.bp1
    ELSE AverageOfPeriod(p, Norm.bp1)

\* So are BP2 of BURST, SBM1 and SBM2.
SbmBp2Averages ==
  \A p \in sent : Fresh(p) /\ p.kind = "sbm_bp2" => AverageOfPeriod(p, Sbm[p.mode].bp1)

\* So are BP1, computed from "compressed_sm_sbm" (comments of prc0_task and prc1_task).
SbmBp1Averages ==
  \A p \in sent : Fresh(p) /\ p.kind = "sbm_bp1" => AverageOfPeriod(p, Sbm[p.mode].bp1)

\* PRC0 and PRC1 look at BP2 only inside BP1, and transmits the sum of BP1 as the ASM:
\* consistent periods ensure that no product is due without BP1, and so lost
\* or cut short.
NothingDueIsLost ==
  \A i \in 1 .. Len(queue) :
    LET e == queue[i].event IN
      /\ "norm_bp2" \in e \/ "norm_asm" \in e => "norm_bp1" \in e
      /\ "sbm_bp2" \in e => "sbm_bp1" \in e
=============================================================================
