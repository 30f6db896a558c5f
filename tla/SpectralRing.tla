---------------------------- MODULE SpectralRing ----------------------------
(***************************************************************************)
(* One channel of spectral matrices, from the matrix module to the task    *)
(* that averages them.  The module fills two buffers in turn; its          *)
(* interrupt counts the matrices, gives the module the next node of the    *)
(* ring, and once per batch (8 matrices at f0 and f1, 1 at f2) wakes the   *)
(* averaging task, which walks back over the nodes of the batch while the  *)
(* module goes on.                                                         *)
(*                                                                         *)
(* The module is never stopped: after a mode change the first matrices,    *)
(* begun before it, are dropped by the restart sequence of the interrupt.  *)
(***************************************************************************)
EXTENDS Naturals, FiniteSets

CONSTANTS
  RingSize,      \* NB_RING_NODES_SM_F0, _F1, _F2
  Batch,         \* NB_SM_BEFORE_AVF0_F1, NB_SM_BEFORE_AVF2
  Lag,           \* matrices completed at most while a batch is averaged
  IsrLag,        \* matrices that may wait for the interrupt when one more comes
  StartsAnywhere,\* may a restart find the module in either buffer?
  KeptByRestart, \* may an event pending be kept by rtems_task_restart?
  MaxMatrices    \* bound: matrices in a behaviour

ASSUME SmRingAssumption == /\ RingSize \in Nat /\ RingSize >= 2
                         /\ Batch \in Nat /\ 1 <= Batch /\ Batch <= RingSize
ASSUME SmTimingAssumption == /\ Lag \in 0 .. Batch - 1 /\ IsrLag \in 0 .. 1
                           /\ StartsAnywhere \in BOOLEAN
                           /\ KeptByRestart \in (SUBSET BOOLEAN) \ {{}}
ASSUME SmBoundAssumption == MaxMatrices \in Nat

Node == 0 .. RingSize - 1
NoNode == RingSize  \* NULL

NodeAfter(n) == IF n = RingSize - 1 THEN 0 ELSE n + 1
NodeBefore(n) == IF n = 0 THEN RingSize - 1 ELSE n - 1

VARIABLES
  current,    \* current_ring_node_sm
  forAvg,     \* ring_node_for_averaging_sm
  nbSm,       \* nb_sm: matrices of the batch in progress
  addr,       \* address registers of the two buffers of the module
  full,       \* status bits: buffers found full
  active,     \* buffer the module fills
  writing,    \* node the module fills
  irq,        \* the interrupt is not masked
  dropping,   \* thisIsAnASMRestart
  data,       \* node -> matrix it holds, 0 if it is being written
  filled,     \* matrices so far; also the clock
  event,      \* event pending for AVF
  avf,        \* the averaging task
  batch,      \* nodes AVF averages: ring_node_tab
  handed,     \* history: filled when the last batch was complete
  averaged,   \* history: last matrix averaged, or dropped by a restart
  stale,      \* history: AVF has an event of the mode before, pending or in hand
  lost        \* history: matrices dropped by the interrupt

ringVars == <<current, forAvg, nbSm, addr, full, active, writing, irq, dropping,
          data, filled, event, avf, batch, handed, averaged, stale, lost>>

module == <<addr, full, active, writing, data, filled>>
task == <<avf, batch, averaged, stale>>

MatrixCount == 0 .. MaxMatrices

RingTypeOK ==
  /\ current \in Node /\ forAvg \in Node \cup {NoNode}
  /\ nbSm \in 0 .. Batch - 1
  /\ addr \in [0 .. 1 -> Node] /\ full \in SUBSET (0 .. 1)
  /\ active \in 0 .. 1 /\ writing \in Node
  /\ irq \in BOOLEAN /\ dropping \in BOOLEAN /\ event \in BOOLEAN
  /\ data \in [Node -> MatrixCount] /\ filled \in MatrixCount
  /\ avf \in {"suspended", "wait", "ready", "averaging"}
  /\ batch \in [1 .. Batch -> Node \cup {NoNode}] /\ stale \in BOOLEAN
  /\ handed \in MatrixCount /\ averaged \in MatrixCount /\ lost \subseteq MatrixCount

RingInit ==
  /\ current = NodeAfter(0) /\ forAvg = NoNode /\ nbSm = 0
  /\ addr = [b \in 0 .. 1 |-> b] /\ full = {} /\ active = 0 /\ writing = 0
  /\ irq = FALSE /\ dropping = FALSE
  /\ data = [n \in Node |-> 0] /\ filled = 0
  /\ event = FALSE /\ avf = "suspended" /\ batch = [i \in 1 .. Batch |-> 0]
  /\ handed = 0 /\ averaged = 0 /\ stale = FALSE /\ lost = {}

-----------------------------------------------------------------------------
(* Mode changes, seen from the channel *)

\* rtems_task_restart of AVF.  The source does not say whether an event sent
\* before the restart is still pending after it.
RestartAvf ==
  /\ avf' = "wait"
  /\ \E kept \in KeptByRestart : event' = (event /\ kept)
  /\ stale' = event'

\* mutant: the count of matrices is not reset
LaunchKeepsCount ==
  /\ current' = NodeAfter(0) /\ forAvg' = NoNode
  /\ addr' = [b \in 0 .. 1 |-> IF b = 0 THEN 0 ELSE NodeAfter(0)] /\ full' = {}
  /\ irq' = TRUE /\ dropping' = TRUE
  /\ RestartAvf /\ handed' = filled
  /\ UNCHANGED <<nbSm, active, writing, data, filled, batch, averaged, lost>>

\* restart_asm_activities: AVF is restarted, then launch_spectral_matrix.  The
\* module goes on with the node it is filling, and takes the new addresses
\* afterwards.
Launch ==
  /\ current' = NodeAfter(0) /\ forAvg' = NoNode /\ nbSm' = 0
  /\ addr' = [b \in 0 .. 1 |-> IF b = 0 THEN 0 ELSE NodeAfter(0)] /\ full' = {}
  /\ irq' = TRUE /\ dropping' = TRUE
  /\ RestartAvf /\ handed' = filled
  /\ UNCHANGED <<active, writing, data, filled, batch, averaged, lost>>

\* stop_spectral_matrices, when the mode is left for STANDBY
Stop ==
  /\ irq
  /\ irq' = FALSE /\ full' = {} /\ avf' = "suspended"
  /\ UNCHANGED <<current, forAvg, nbSm, addr, active, writing, dropping, data,
                 filled, event, batch, handed, averaged, stale, lost>>

-----------------------------------------------------------------------------
(* The matrix module and its interrupt *)

\* The timing the design relies on: the interrupt comes before two buffers
\* are full (before one is, if IsrLag = 0), and the average of a batch is
\* computed within Lag matrices.
RingInTime == irq =>
  /\ Cardinality(full) <= IsrLag
  /\ event \/ avf \in {"ready", "averaging"} => filled + 1 <= handed + Lag

\* The active buffer is full; the module goes on with the other one.
MatrixReady ==
  /\ filled < MaxMatrices /\ RingInTime
  /\ filled' = filled + 1
  /\ writing' = addr[1 - active] /\ active' = 1 - active
  /\ data' = [data EXCEPT ![writing] = filled + 1, ![writing'] = 0]
  /\ full' = full \cup {active}
  /\ UNCHANGED <<current, forAvg, nbSm, addr, irq, dropping, event,
                 avf, batch, handed, averaged, stale, lost>>

\* mutant: the batch ends one matrix late
OneLate == nbSm = Batch

BatchComplete == nbSm + 1 = Batch

\* spectral_matrices_isr_f0, _f1, _f2, one buffer full
MatrixIsr ==
  /\ irq /\ ~dropping
  /\ \E b \in 0 .. 1 :
       /\ full = {b}
       /\ current' = NodeAfter(current)
       /\ addr' = [addr EXCEPT ![b] = current']
  /\ full' = {}
  /\ IF BatchComplete
     THEN nbSm' = 0 /\ forAvg' = NodeBefore(current) /\ event' = TRUE /\ handed' = filled
     ELSE nbSm' = nbSm + 1 /\ UNCHANGED <<forAvg, event, handed>>
  /\ UNCHANGED <<active, writing, irq, dropping, data, filled, task, lost>>

\* Both buffers full, the "UNEXPECTED VALUE": the two matrices are dropped.
BothIsr ==
  /\ irq /\ ~dropping
  /\ full = {0, 1}
  /\ full' = {}
  /\ lost' = lost \cup {filled - 1, filled}
  /\ UNCHANGED <<current, forAvg, nbSm, addr, active, writing, irq, dropping,
                 data, filled, event, handed, task>>

\* The restart sequence, which waits for a matrix of f2, f1, then f0: at least
\* one matrix of each channel is dropped, when it starts from its beginning.
\* How many more is not known, nor the buffer the module is in at the end.
RestartIsr ==
  /\ irq /\ dropping /\ full # {}
  /\ full' = {}
  /\ dropping' \in BOOLEAN
  /\ ~dropping' => StartsAnywhere \/ active = 0
  /\ averaged' = filled
  /\ UNCHANGED <<current, forAvg, nbSm, addr, active, writing, irq, data,
                 filled, event, avf, batch, handed, stale, lost>>

-----------------------------------------------------------------------------
(* The averaging task *)

\* rtems_event_receive
AvfWakes ==
  /\ avf = "wait" /\ event
  /\ event' = FALSE /\ avf' = "ready"
  /\ UNCHANGED <<module, current, forAvg, nbSm, irq, dropping, batch, handed, averaged, stale, lost>>

\* n->previous, k times
StepsBack(n, k) == IF n >= k THEN n - k ELSE n + RingSize - k

\* getRingNodeForAveraging, then the walk back; the last node is the newest.
\* From NULL the nodes are whatever is read there: no node of the ring.
AvfTakes ==
  /\ avf = "ready" /\ avf' = "averaging"
  /\ batch' = [i \in 1 .. Batch |-> IF forAvg = NoNode THEN NoNode
                                    ELSE StepsBack(forAvg, Batch - i)]
  /\ UNCHANGED <<module, current, forAvg, nbSm, irq, dropping, event, handed, averaged, stale, lost>>

\* SM_average is done with the nodes
AvfDone ==
  /\ avf = "averaging" /\ avf' = "wait"
  /\ averaged' = IF stale THEN averaged ELSE handed
  /\ stale' = FALSE
  /\ UNCHANGED <<module, current, forAvg, nbSm, irq, dropping, event, batch, handed, lost>>

RingNext == \/ Launch \/ Stop
        \/ MatrixReady \/ MatrixIsr \/ BothIsr \/ RestartIsr
        \/ AvfWakes \/ AvfTakes \/ AvfDone

RingSpec == RingInit /\ [][RingNext]_ringVars

-----------------------------------------------------------------------------
(* Properties *)

FollowsNull == \E i \in 1 .. Batch : batch[i] = NoNode
InBatch == {data[batch[i]] : i \in 1 .. Batch}

\* As long as AVF reads them, the nodes of a batch hold complete matrices begun
\* after the last mode change, and each matrix that was not dropped by the
\* interrupt is averaged exactly once: a batch begins where the last one ended
\* (avf0_task, avf1_task, avf2_task against the interrupt and the module).
\* AVF follows a NULL pointer only for an event sent before its restart and
\* received after it; the batches that come next are not disturbed.
EveryMatrixOnce ==
  avf = "averaging" =>
    IF FollowsNull THEN stale
    ELSE /\ InBatch = (averaged + 1 .. handed) \ lost
         /\ Cardinality(InBatch) = Batch
=============================================================================
