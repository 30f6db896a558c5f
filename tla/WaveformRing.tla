---------------------------- MODULE WaveformRing ----------------------------
(***************************************************************************)
(* One continuous waveform channel, from the waveform picker to the        *)
(* SpaceWire link.  The picker fills two buffers in turn; its interrupt    *)
(* hands the full one to the CWF task and gives the picker the next node   *)
(* of the ring; the CWF task queues a pointer to the node, and SEND reads  *)
(* the node when the packet goes out.  Nobody copies the data and nobody   *)
(* marks a node as used: only time protects it.                            *)
(*                                                                         *)
(* The three rings (f1, f2, f3) run the same code with other names.        *)
(***************************************************************************)
EXTENDS Naturals, Sequences

CONSTANTS
  RingSize,      \* NB_RING_NODES_F1, _F2, _F3
  Lag,           \* buffers filled at most while a node waits for SEND
  QueueSize,     \* messages held by the SEND queue
  MaxBuffers,    \* bound: buffers filled in a behaviour
  TaskMayLag,    \* may a buffer be filled before CWF has read the last one?
  KeptByRestart  \* may an event survive the restart of its task?

\* fsw_params.h: "AT LEAST 3"
ASSUME RingAssumption == /\ RingSize \in Nat /\ RingSize >= 3
                         /\ Lag \in Nat /\ 1 <= Lag /\ Lag <= RingSize - 2
ASSUME BoundAssumption == QueueSize \in Nat /\ MaxBuffers \in Nat
ASSUME TimingAssumption == /\ TaskMayLag \in BOOLEAN
                           /\ KeptByRestart \in (SUBSET BOOLEAN) \ {{}}

Node == 0 .. RingSize - 1

\* mutant: the last node is not linked to the first one
OpenRing(n) == n + 1

NextNode(n) == IF n = RingSize - 1 THEN 0 ELSE n + 1
PrevNode(n) == IF n = 0 THEN RingSize - 1 ELSE n - 1

VARIABLES
  current,     \* current_ring_node
  toSend,      \* ring_node_to_send_cwf
  stamp,       \* node -> acquisition time in the node
  addr,        \* address registers of the two buffers of the picker
  time,        \* time registers of the two buffers
  full,        \* status bits: buffers found full
  active,      \* buffer the picker fills
  picker,      \* the picker runs and its interrupt is not masked
  data,        \* node -> acquisition whose samples it holds, 0 if mixed
  filled,      \* acquisitions so far; also the clock
  launched,    \* history: filled at the last launch
  event,       \* event pending for CWF
  cwf,         \* "ready": between the event and the read of toSend
  read,        \* history: last acquisition read by CWF
  outstanding  \* nodes queued for SEND; the first may be in transmission

wfVars == <<current, toSend, stamp, addr, time, full, active, picker, data,
          filled, launched, event, cwf, read, outstanding>>

ringVars == <<current, toSend, stamp, addr, time, full, active>>
taskVars == <<event, cwf, read, outstanding>>

Acquisition == 0 .. MaxBuffers

\* acq is history: the acquisition CWF meant to send.
Message == [node : Node, acq : Acquisition]

FlagsOK == picker \in BOOLEAN /\ event \in BOOLEAN

WfTypeOK ==
  /\ FlagsOK
  /\ current \in Node /\ toSend \in Node
  /\ stamp \in [Node -> Acquisition]
  /\ addr \in [0 .. 1 -> Node]
  /\ time \in [0 .. 1 -> Acquisition]
  /\ full \in SUBSET (0 .. 1)
  /\ active \in 0 .. 1
  /\ data \in [Node -> Acquisition]
  /\ filled \in Acquisition /\ launched \in Acquisition
  /\ cwf \in {"wait", "ready", "suspended"}
  /\ read \in Acquisition
  /\ outstanding \in Seq(Message)

\* WFP_reset_current_ring_nodes
ResetRing == /\ current' = NextNode(0)
             /\ toSend' = 0

WfInit ==
  /\ current = NextNode(0) /\ toSend = 0
  /\ stamp = [n \in Node |-> 0]
  /\ addr = [b \in 0 .. 1 |-> 0]
  /\ time = [b \in 0 .. 1 |-> 0]
  /\ full = {} /\ active = 0 /\ picker = FALSE
  /\ data = [n \in Node |-> 0]
  /\ filled = 0 /\ launched = 0
  /\ event = FALSE /\ cwf = "suspended" /\ read = 0
  /\ outstanding = <<>>

-----------------------------------------------------------------------------
(* Mode changes, seen from the channel *)

\* restart_science_tasks and launch_waveform_picker: the picker starts with
\* buffer 0, in the first node.  The SEND queue keeps its messages.
Launch ==
  /\ ~picker
  /\ ResetRing
  /\ addr' = [addr EXCEPT ![0] = 0, ![1] = NextNode(0)]
  /\ full' = {} /\ active' = 0 /\ picker' = TRUE
  /\ data' = [data EXCEPT ![0] = 0]
  /\ launched' = filled
  /\ cwf' = "wait" /\ read' = filled
  /\ \E kept \in KeptByRestart : event' = (event /\ kept)
  /\ UNCHANGED <<stamp, time, filled, outstanding>>

\* stop_current_mode, the status bits reset
Stop ==
  /\ picker
  /\ picker' = FALSE /\ full' = {}
  /\ cwf' = "suspended"
  /\ UNCHANGED <<current, toSend, stamp, addr, time, active, data, filled, launched, event, read, outstanding>>

-----------------------------------------------------------------------------
(* The waveform picker and its interrupt *)

Fresh(m) == m.acq > launched

\* The timing the design relies on: the interrupt is served within the time
\* of a buffer (0.6 s at f1), and SEND is done with a node within Lag buffers.
InTime ==
  /\ full = {}
  /\ ~TaskMayLag => ~event /\ cwf # "ready"
  /\ \A i \in 1 .. Len(outstanding) :
       Fresh(outstanding[i]) => filled + 1 <= outstanding[i].acq + Lag

\* The active buffer is full: its bit and its time are set, and the picker
\* goes on with the other buffer, whose node loses its data.
BufferFull ==
  /\ picker /\ InTime
  /\ filled < MaxBuffers
  /\ filled' = filled + 1
  /\ data' = [data EXCEPT ![addr[active]] = filled + 1, ![addr[1 - active]] = 0]
  /\ time' = [time EXCEPT ![active] = filled + 1]
  /\ full' = {active}
  /\ active' = 1 - active
  /\ UNCHANGED <<current, toSend, stamp, addr, picker, launched, taskVars>>

\* mutant: the current node is handed over instead of the previous one
IsrSendsCurrent ==
  /\ picker /\ full # {}
  /\ LET b == IF 0 \in full THEN 0 ELSE 1 IN
       /\ toSend' = current
       /\ current' = NextNode(current)
       /\ stamp' = [stamp EXCEPT ![toSend'] = time[b]]
       /\ addr' = [addr EXCEPT ![b] = current']
       /\ full' = full \ {b}
  /\ event' = TRUE
  /\ UNCHANGED <<time, active, picker, data, filled, launched, cwf, read, outstanding>>

\* mutant: the branch of buffer 1 writes the address register of buffer 0
IsrSetsAddress0 ==
  /\ picker /\ full # {}
  /\ LET b == IF 0 \in full THEN 0 ELSE 1 IN
       /\ toSend' = PrevNode(current)
       /\ current' = NextNode(current)
       /\ stamp' = [stamp EXCEPT ![toSend'] = time[b]]
       /\ addr' = [addr EXCEPT ![0] = current']
       /\ full' = full \ {b}
  /\ event' = TRUE
  /\ UNCHANGED <<time, active, picker, data, filled, launched, cwf, read, outstanding>>

\* waveforms_isr: buffer 0 first
WaveformsIsr ==
  /\ picker /\ full # {}
  /\ LET b == IF 0 \in full THEN 0 ELSE 1 IN
       /\ toSend' = PrevNode(current)
       /\ current' = NextNode(current)
       /\ stamp' = [stamp EXCEPT ![toSend'] = time[b]]
       /\ addr' = [addr EXCEPT ![b] = current']
       /\ full' = full \ {b}
  /\ event' = TRUE
  /\ UNCHANGED <<time, active, picker, data, filled, launched, cwf, read, outstanding>>

-----------------------------------------------------------------------------
(* The tasks *)

\* mutant: the event stays pending
CwfKeepsEvent ==
  /\ cwf = "wait" /\ event
  /\ cwf' = "ready"
  /\ UNCHANGED <<ringVars, picker, data, filled, launched, event, read, outstanding>>

\* rtems_event_receive; several events that were not received are one
CwfWakes ==
  /\ cwf = "wait" /\ event
  /\ event' = FALSE
  /\ cwf' = "ready"
  /\ UNCHANGED <<ringVars, picker, data, filled, launched, read, outstanding>>

\* getRingNodeToSendCWF and the queueing.  A buffer is not queued before the
\* date of the mode, nor when the queue, which other tasks use too, is full.
CwfSends ==
  /\ cwf = "ready"
  /\ cwf' = "wait"
  /\ read' = stamp[toSend]
  /\ \/ /\ Len(outstanding) < QueueSize
        /\ outstanding' = Append(outstanding, [node |-> toSend, acq |-> stamp[toSend]])
     \/ UNCHANGED outstanding
  /\ UNCHANGED <<ringVars, picker, data, filled, launched, event>>

\* SEND has transmitted the first node.
SendNode ==
  /\ outstanding # <<>>
  /\ outstanding' = Tail(outstanding)
  /\ UNCHANGED <<ringVars, picker, data, filled, launched, event, cwf, read>>

WfNext == \/ Launch \/ Stop \/ BufferFull \/ WaveformsIsr
        \/ CwfWakes \/ CwfSends \/ SendNode

WfSpec == WfInit /\ [][WfNext]_wfVars

-----------------------------------------------------------------------------
(* Properties *)

\* Until SEND is done with it, a node queued since the last launch holds all
\* the samples, and the date, of the acquisition CWF meant to send: the
\* picker is neither in it nor past it (waveforms_isr, cwf1/2/3_task).
SentBuffersIntact ==
  \A i \in 1 .. Len(outstanding) :
    LET m == outstanding[i] IN
      Fresh(m) => data[m.node] = m.acq /\ stamp[m.node] = m.acq

\* The node handed to CWF is complete even while the interrupt for the next
\* one has not run yet, and dated with its own acquisition.
HandedOverComplete ==
  picker /\ stamp[toSend] > launched =>
    /\ data[toSend] = stamp[toSend]
    /\ stamp[toSend] + (IF full = {} THEN 0 ELSE 1) = filled

\* When CWF is about to read the pointer, it points to the first buffer CWF
\* has not read: none is skipped, none is sent twice.
NextBufferOnly == cwf = "ready" => stamp[toSend] = read + 1
=============================================================================
