------------------------- MODULE WaveformRing_proofs -------------------------
(***************************************************************************)
(* The ring protocol protects every buffer on its way to SEND, for every   *)
(* size of the ring, when no node waits for more than Lag buffers.         *)
(*                                                                         *)
(* The heart of the argument is a distance: a node that holds acquisition  *)
(* a is exactly filled + 1 - a nodes behind the one the picker is filling, *)
(* so the picker reaches it again only after RingSize - 1 buffers.         *)
(***************************************************************************)
EXTENDS MCWaveformRing, TLAPS

\* WfTypeOK without the flags
DataOK ==
  /\ current \in Node /\ toSend \in Node
  /\ stamp \in [Node -> Acquisition]
  /\ addr \in [0 .. 1 -> Node]
  /\ time \in [0 .. 1 -> Acquisition]
  /\ full \in SUBSET (0 .. 1)
  /\ active \in 0 .. 1
  /\ data \in [Node -> Acquisition]
  /\ filled \in Acquisition /\ launched \in Acquisition
  /\ cwf \in {"wait", "ready", "suspended"}
  /\ read \in Acquisition
  /\ outstanding \in Seq(Message)

\* Number of steps along the ring from node a to node b.
Dist(a, b) == IF a <= b THEN b - a ELSE b + RingSize - a

\* The node the picker is filling.
Writing == addr[active]

\* What a node must satisfy to be sent as acquisition a.
Safe(n, a) ==
  /\ data[n] = a /\ stamp[n] = a
  /\ a <= filled
  /\ Dist(n, Writing) = filled + 1 - a

\* The registers of the picker follow the ring.
Registers ==
  picker =>
    \/ /\ full = {}
       /\ Writing = PrevNode(current)
       /\ addr[1 - active] = current
    \/ /\ full = {1 - active}
       /\ Writing = current
       /\ addr[1 - active] = PrevNode(current)
       /\ time[1 - active] = filled
       /\ data[PrevNode(current)] = filled
       /\ launched < filled

\* The node handed to CWF.
HandedOver ==
  picker /\ launched < stamp[toSend] =>
    /\ Safe(toSend, stamp[toSend])
    /\ stamp[toSend] + (IF full = {} THEN 0 ELSE 1) = filled

\* The nodes queued for SEND.
Queued ==
  \A i \in 1 .. Len(outstanding) :
    Fresh(outstanding[i]) =>
      Safe(outstanding[i].node, outstanding[i].acq)

Clock == /\ launched <= filled
         /\ \A n \in Node : stamp[n] <= filled

ReadyRuns == cwf # "suspended" => picker

IInv == FlagsOK /\ DataOK /\ Clock /\ ReadyRuns /\ Registers /\ HandedOver /\ Queued

-----------------------------------------------------------------------------
(* The ring *)

LEMMA NodeStep ==
  ASSUME NEW n \in Node
  PROVE  /\ NextNode(n) \in Node
         /\ PrevNode(n) \in Node
         /\ NextNode(PrevNode(n)) = n
         /\ PrevNode(NextNode(n)) = n
         /\ NextNode(n) # n
         /\ PrevNode(n) # n
  BY RingAssumption DEF Node, NextNode, PrevNode

LEMMA DistStep ==
  ASSUME NEW a \in Node, NEW b \in Node
  PROVE  /\ Dist(a, b) \in 0 .. RingSize - 1
         /\ Dist(a, b) = 0 <=> a = b
         /\ Dist(a, b) < RingSize - 1 =>
              Dist(a, NextNode(b)) = Dist(a, b) + 1
         /\ Dist(PrevNode(b), b) = 1
  BY RingAssumption DEF Node, NextNode, PrevNode, Dist

-----------------------------------------------------------------------------
(* Type correctness *)

\* The two flags, apart from the rest: only here do the values of Boolean
\* expressions matter.
LEMMA FlagsStep == FlagsOK /\ [WfNext]_wfVars => FlagsOK'
<1> SUFFICES ASSUME FlagsOK, [WfNext]_wfVars PROVE FlagsOK'
  OBVIOUS
<1> USE DEF FlagsOK
<1>1. CASE Launch
  <2>1. \A b, c \in BOOLEAN : (b /\ c) \in BOOLEAN
    OBVIOUS
  <2>2. KeptByRestart \subseteq BOOLEAN
    BY TimingAssumption
  <2>3. event' \in BOOLEAN
    BY <1>1, <2>1, <2>2, Zenon DEF Launch
  <2> QED
    BY <1>1, <2>3, Zenon DEF Launch
<1>2. CASE Stop
  BY <1>2, Zenon DEF Stop
<1>3. CASE BufferFull
  BY <1>3, Zenon DEF BufferFull, taskVars
<1>4. CASE WaveformsIsr
  BY <1>4, Zenon DEF WaveformsIsr
<1>5. CASE CwfWakes
  BY <1>5, Zenon DEF CwfWakes
<1>6. CASE CwfSends
  BY <1>6, Zenon DEF CwfSends
<1>7. CASE SendNode
  BY <1>7, Zenon DEF SendNode
<1>8. CASE UNCHANGED wfVars
  BY <1>8, Zenon DEF wfVars
<1> QED
  BY <1>1, <1>2, <1>3, <1>4, <1>5, <1>6, <1>7, <1>8, Zenon DEF WfNext

LEMMA DataInit == WfInit => DataOK
<1>1. 0 \in Node /\ 0 \in Acquisition
  BY RingAssumption, BoundAssumption DEF Node, Acquisition
<1>2. NextNode(0) \in Node
  BY <1>1, NodeStep
<1> QED
  BY <1>1, <1>2 DEF WfInit, DataOK

LEMMA DataStep == DataOK /\ [WfNext]_wfVars => DataOK'
<1> SUFFICES ASSUME DataOK, [WfNext]_wfVars PROVE DataOK'
  OBVIOUS
<1>0. 0 \in Node /\ 0 \in Acquisition /\ Acquisition \subseteq Nat
  BY RingAssumption, BoundAssumption DEF Node, Acquisition
<1>1. CASE Launch
  <2>1. NextNode(0) \in Node
    BY <1>0, NodeStep
  <2> QED
    BY <1>0, <1>1, <2>1 DEF Launch, ResetRing, DataOK
<1>2. CASE Stop
  BY <1>2 DEF Stop, DataOK
<1>3. CASE BufferFull
  <2>1. filled + 1 \in Acquisition
    BY <1>3, BoundAssumption DEF BufferFull, DataOK, Acquisition
  <2>2. 1 - active \in 0 .. 1
    BY DEF DataOK
  <2>3. data' \in [Node -> Acquisition] /\ time' \in [0 .. 1 -> Acquisition]
    BY <1>0, <1>3, <2>1 DEF BufferFull, DataOK
  <2> QED
    BY <1>3, <2>1, <2>2, <2>3 DEF BufferFull, DataOK, taskVars
<1>4. CASE WaveformsIsr
  <2> DEFINE b == IF 0 \in full THEN 0 ELSE 1
  <2>1. b \in 0 .. 1 /\ time[b] \in Acquisition
    BY DEF DataOK
  <2>2. toSend' \in Node /\ current' \in Node
    BY <1>4, NodeStep DEF WaveformsIsr, DataOK
  <2>3. /\ stamp' = [stamp EXCEPT ![toSend'] = time[b]]
        /\ addr' = [addr EXCEPT ![b] = current']
        /\ full' = full \ {b}
    BY <1>4 DEF WaveformsIsr
  <2> HIDE DEF b
  <2> QED
    BY <1>4, <2>1, <2>2, <2>3 DEF WaveformsIsr, DataOK
<1>5. CASE CwfWakes
  BY <1>5 DEF CwfWakes, DataOK, ringVars
<1>6. CASE CwfSends
  <2>1. stamp[toSend] \in Acquisition
    BY DEF DataOK
  <2>2. [node |-> toSend, acq |-> stamp[toSend]] \in Message
    BY <2>1 DEF DataOK, Message
  <2>3. outstanding' \in Seq(Message)
    BY <1>6, <2>2 DEF CwfSends, DataOK
  <2> QED
    BY <1>6, <2>1, <2>3 DEF CwfSends, DataOK, ringVars
<1>7. CASE SendNode
  <2>1. outstanding' \in Seq(Message)
    BY <1>7 DEF SendNode, DataOK
  <2> QED
    BY <1>7, <2>1 DEF SendNode, DataOK, ringVars
<1>8. CASE UNCHANGED wfVars
  BY <1>8 DEF wfVars, DataOK
<1> QED
  BY <1>1, <1>2, <1>3, <1>4, <1>5, <1>6, <1>7, <1>8 DEF WfNext


-----------------------------------------------------------------------------
(* The ring protocol *)

LEMMA Naturals1 == DataOK => /\ filled \in Nat /\ launched \in Nat /\ read \in Nat
                             /\ \A n \in Node : data[n] \in Nat /\ stamp[n] \in Nat
                             /\ \A b \in 0 .. 1 : time[b] \in Nat
                             /\ addr[0] \in Node /\ addr[1] \in Node
                             /\ 1 - active \in 0 .. 1 /\ 1 - active # active
                             /\ Writing \in Node
  BY BoundAssumption DEF DataOK, Acquisition, Writing

LEMMA RingInit == WfInit => Clock /\ ReadyRuns /\ Registers /\ HandedOver /\ Queued
  BY RingAssumption DEF WfInit, Clock, ReadyRuns, Registers, HandedOver, Queued, Node

LEMMA LaunchStep ==
  ASSUME IInv, DataOK', Launch
  PROVE  Clock' /\ ReadyRuns' /\ Registers' /\ HandedOver' /\ Queued'
<1> USE DEF IInv
<1>1. 0 \in Node /\ NextNode(0) \in Node /\ PrevNode(NextNode(0)) = 0
  BY RingAssumption, NodeStep DEF Node
<1>2. Clock' /\ \A n \in Node : stamp'[n] <= launched'
  BY Naturals1 DEF Launch, Clock
<1>3. ReadyRuns'
  BY DEF Launch, ReadyRuns
<1>4. Registers'
  BY <1>1 DEF Launch, ResetRing, Registers, Writing, DataOK
<1>5. HandedOver'
  <2>1. stamp'[toSend'] <= launched' /\ stamp'[toSend'] \in Nat /\ launched' \in Nat
    BY <1>1, <1>2, Naturals1 DEF Launch, ResetRing
  <2> QED
    BY <2>1 DEF HandedOver
<1>6. Queued'
  <2> SUFFICES ASSUME NEW i \in 1 .. Len(outstanding), launched' < outstanding[i].acq
               PROVE  FALSE
    BY DEF Queued, Fresh, Launch
  <2>1. outstanding[i] \in Message
    BY DEF DataOK
  <2>2. outstanding[i].acq \in Nat /\ launched' = filled /\ filled \in Nat /\ launched \in Nat
    BY <2>1, Naturals1, BoundAssumption DEF Message, Acquisition, Launch
  <2>3. launched < outstanding[i].acq
    BY <2>2 DEF Clock
  <2> QED
    BY <2>2, <2>3 DEF Queued, Fresh, Safe
<1> QED
  BY <1>2, <1>3, <1>4, <1>5, <1>6

LEMMA BufferStep ==
  ASSUME IInv, DataOK', BufferFull
  PROVE  Clock' /\ ReadyRuns' /\ Registers' /\ HandedOver' /\ Queued'
<1> USE DEF IInv
<1>1. /\ Writing = PrevNode(current) /\ addr[1 - active] = current
      /\ current \in Node /\ PrevNode(current) \in Node
      /\ NextNode(PrevNode(current)) = current
      /\ PrevNode(current) # current
  BY NodeStep DEF BufferFull, InTime, Registers, DataOK
<1>2. /\ filled' = filled + 1 /\ filled \in Nat /\ launched \in Nat
      /\ launched <= filled
  BY Naturals1 DEF BufferFull, Clock
<1>3. Writing' = current
  BY <1>1 DEF BufferFull, Writing, DataOK
<1>4. \A n \in Node : n # current /\ n # PrevNode(current) => data'[n] = data[n]
  BY <1>1 DEF BufferFull, DataOK, Writing
\* A node that is behind the picker stays intact.
<1>5. ASSUME NEW n \in Node, NEW a \in Nat, Safe(n, a), filled + 1 <= a + Lag
      PROVE  Safe(n, a)'
  <2>1. Dist(n, Writing) = filled + 1 - a /\ a <= filled
    BY <1>5 DEF Safe
  <2>2. 1 <= Dist(n, Writing) /\ Dist(n, Writing) < RingSize - 1
    BY <1>2, <1>5, <2>1, RingAssumption
  <2>3. Dist(n, current) = filled + 2 - a
    BY <1>1, <1>2, <2>1, <2>2, DistStep
  <2>4. n # PrevNode(current) /\ n # current
    BY <1>1, <1>2, <2>1, <2>2, <2>3, DistStep
  <2>5. data'[n] = a /\ stamp'[n] = a
    BY <1>4, <1>5, <2>4 DEF Safe, BufferFull
  <2> QED
    BY <1>2, <1>3, <2>1, <2>3, <2>5 DEF Safe, Dist
<1>6. Clock' /\ ReadyRuns'
  BY <1>2, Naturals1 DEF Clock, ReadyRuns, BufferFull, taskVars
<1>7. Registers'
  <2>1. data'[PrevNode(current)] = filled'
    BY <1>1, <1>2 DEF BufferFull, DataOK, Writing
  <2>2. active' = 1 - active /\ 1 - active' = active /\ full' = {active}
    BY DEF BufferFull, DataOK
  <2>3. time'[active] = filled' /\ addr' = addr /\ current' = current
    BY <1>2 DEF BufferFull, DataOK
  <2> QED
    BY <1>1, <1>2, <1>3, <2>1, <2>2, <2>3 DEF Registers, Writing, BufferFull
<1>8. HandedOver'
  <2> SUFFICES ASSUME launched < stamp[toSend]
               PROVE  Safe(toSend, stamp[toSend])' /\ stamp[toSend] + 1 = filled'
    BY DEF HandedOver, BufferFull
  <2>2. toSend \in Node /\ stamp[toSend] \in Nat
    BY Naturals1 DEF DataOK
  <2>0. picker /\ full = {}
    BY DEF BufferFull, InTime
  <2>1. Safe(toSend, stamp[toSend]) /\ stamp[toSend] = filled
    BY <1>2, <2>0, <2>2 DEF HandedOver
  <2>3. filled + 1 <= stamp[toSend] + Lag
    BY <1>2, <2>1, RingAssumption
  <2>5. stamp' = stamp /\ toSend' = toSend
    BY DEF BufferFull
  <2> QED
    BY <1>2, <1>5, <2>1, <2>2, <2>3, <2>5 DEF Safe
<1>9. Queued'
  <2> SUFFICES ASSUME NEW i \in 1 .. Len(outstanding), Fresh(outstanding[i])
               PROVE  Safe(outstanding[i].node, outstanding[i].acq)'
    BY DEF Queued, Fresh, BufferFull, taskVars
  <2> DEFINE m == outstanding[i]
  <2>1. m \in Message
    BY DEF DataOK
  <2>2. m.node \in Node /\ m.acq \in Nat
    BY <2>1, BoundAssumption DEF Message, Acquisition
  <2>3. Safe(m.node, m.acq)
    BY DEF Queued
  <2>4. filled + 1 <= m.acq + Lag
    BY DEF BufferFull, InTime
  <2>5. outstanding' = outstanding
    BY DEF BufferFull, taskVars
  <2> QED
    BY <1>5, <2>2, <2>3, <2>4, <2>5 DEF Safe
<1> QED
  BY <1>6, <1>7, <1>8, <1>9

LEMMA IsrStep ==
  ASSUME IInv, DataOK', WaveformsIsr
  PROVE  Clock' /\ ReadyRuns' /\ Registers' /\ HandedOver' /\ Queued'
<1> USE DEF IInv
<1> DEFINE b == 1 - active
<1>0. b \in 0 .. 1 /\ b # active /\ active \in 0 .. 1
  BY DEF DataOK
<1>1. /\ full = {b} /\ Writing = current /\ addr[b] = PrevNode(current)
      /\ time[b] = filled /\ data[PrevNode(current)] = filled
      /\ launched < filled
  BY DEF WaveformsIsr, Registers
<1>2. (IF 0 \in full THEN 0 ELSE 1) = b
  BY <1>0, <1>1
<1>3. /\ toSend' = PrevNode(current)
      /\ current' = NextNode(current)
      /\ stamp' = [stamp EXCEPT ![PrevNode(current)] = filled]
      /\ addr' = [addr EXCEPT ![b] = NextNode(current)]
      /\ full' = {}
      /\ UNCHANGED <<data, filled, launched, active, picker, outstanding, cwf>>
  BY <1>1, <1>2 DEF WaveformsIsr
<1>4. /\ current \in Node /\ PrevNode(current) \in Node
      /\ NextNode(current) \in Node /\ PrevNode(NextNode(current)) = current
  BY NodeStep DEF DataOK
<1>5. Writing' = Writing /\ addr'[b] = NextNode(current)
  BY <1>0, <1>3 DEF Writing, DataOK
<1>6. filled \in Nat /\ launched \in Nat
  BY Naturals1
<1>7. ASSUME NEW n \in Node, NEW a \in Nat, n = PrevNode(current), a = filled
      PROVE  Safe(n, a)'
  <2>1. Dist(n, current) = 1
    BY <1>4, <1>7, DistStep
  <2>2. stamp'[n] = a /\ data'[n] = a
    BY <1>1, <1>3, <1>4, <1>7 DEF DataOK
  <2>3. Writing' = current /\ filled' = filled
    BY <1>1, <1>3, <1>5
  <2> QED
    BY <1>6, <1>7, <2>1, <2>2, <2>3 DEF Safe, Dist
\* The new date is the one of the data: nodes that were intact still are.
<1>8. ASSUME NEW n \in Node, NEW a \in Nat, Safe(n, a)
      PROVE  Safe(n, a)'
  <2>1. stamp'[n] = a
    BY <1>1, <1>3, <1>4, <1>8 DEF Safe, DataOK
  <2> QED
    BY <1>3, <1>5, <1>8, <2>1 DEF Safe, Dist
<1>9. Clock' /\ ReadyRuns'
  BY <1>3, <1>4, <1>6, Naturals1 DEF Clock, ReadyRuns, DataOK
<1>10. Registers'
  BY <1>1, <1>3, <1>4, <1>5 DEF Registers, Writing
<1>11. HandedOver'
  <2>1. stamp'[toSend'] = filled /\ filled' = filled
    BY <1>3, <1>4 DEF DataOK
  <2> QED
    BY <1>3, <1>4, <1>6, <1>7, <2>1 DEF HandedOver, Safe
<1>12. Queued'
  <2> SUFFICES ASSUME NEW i \in 1 .. Len(outstanding), Fresh(outstanding[i])
               PROVE  Safe(outstanding[i].node, outstanding[i].acq)'
    BY <1>3 DEF Queued, Fresh
  <2>1. outstanding[i] \in Message
    BY DEF DataOK
  <2>2. outstanding[i].node \in Node /\ outstanding[i].acq \in Nat
    BY <2>1, BoundAssumption DEF Message, Acquisition
  <2> QED
    BY <1>3, <1>8, <2>2 DEF Queued, Safe
<1> QED
  BY <1>9, <1>10, <1>11, <1>12

LEMMA SendsStep ==
  ASSUME IInv, DataOK', CwfSends
  PROVE  Clock' /\ ReadyRuns' /\ Registers' /\ HandedOver' /\ Queued'
<1> USE DEF IInv
<1>1. UNCHANGED <<current, toSend, stamp, addr, time, full, active, picker,
                  data, filled, launched>>
  BY DEF CwfSends, ringVars
<1>2. Clock' /\ ReadyRuns' /\ Registers' /\ HandedOver'
  BY <1>1 DEF Clock, ReadyRuns, Registers, HandedOver, Safe, Writing, CwfSends
<1>3. Queued'
  <2>1. CASE UNCHANGED outstanding
    BY <1>1, <2>1 DEF Queued, Fresh, Safe, Writing
  <2>2. CASE outstanding' = Append(outstanding, [node |-> toSend, acq |-> stamp[toSend]])
    <3> DEFINE m == [node |-> toSend, acq |-> stamp[toSend]]
    <3>1. picker
      BY DEF CwfSends, ReadyRuns
    <3>2. launched < m.acq => Safe(m.node, m.acq)
      BY <3>1 DEF HandedOver
    <3>3. outstanding \in Seq(Message) /\ m \in Message
      BY DEF DataOK, Message
    <3>4. /\ Len(outstanding') = Len(outstanding) + 1
          /\ \A i \in 1 .. Len(outstanding) : outstanding'[i] = outstanding[i]
          /\ outstanding'[Len(outstanding) + 1] = m
      BY <2>2, <3>3
    <3> HIDE DEF m
    <3> SUFFICES ASSUME NEW i \in 1 .. Len(outstanding'), launched < outstanding'[i].acq
                 PROVE  Safe(outstanding'[i].node, outstanding'[i].acq)
      BY <1>1 DEF Queued, Fresh, Safe, Writing
    <3>5. CASE i = Len(outstanding) + 1
      BY <3>2, <3>4, <3>5
    <3>6. CASE i \in 1 .. Len(outstanding)
      BY <3>4, <3>6 DEF Queued, Fresh
    <3>7. i = Len(outstanding) + 1 \/ i \in 1 .. Len(outstanding)
      BY <3>3, <3>4
    <3> QED
      BY <3>5, <3>6, <3>7
  <2> QED
    BY <2>1, <2>2 DEF CwfSends
<1> QED
  BY <1>2, <1>3

LEMMA SendStep ==
  ASSUME IInv, DataOK', SendNode
  PROVE  Clock' /\ ReadyRuns' /\ Registers' /\ HandedOver' /\ Queued'
<1> USE DEF IInv
<1>1. UNCHANGED <<current, toSend, stamp, addr, time, full, active, picker,
                  data, filled, launched, cwf>>
  BY DEF SendNode, ringVars
<1>2. Clock' /\ ReadyRuns' /\ Registers' /\ HandedOver'
  BY <1>1 DEF Clock, ReadyRuns, Registers, HandedOver, Safe, Writing
<1>3. Queued'
  <2>1. outstanding \in Seq(Message) /\ outstanding # <<>>
    BY DEF SendNode, DataOK
  <2>2. /\ Len(outstanding') = Len(outstanding) - 1
        /\ \A i \in 1 .. Len(outstanding') :
             i + 1 \in 1 .. Len(outstanding) /\ outstanding'[i] = outstanding[i + 1]
    BY <2>1 DEF SendNode
  <2> QED
    BY <1>1, <2>2 DEF Queued, Fresh, Safe, Writing
<1> QED
  BY <1>2, <1>3

LEMMA RingStep == IInv /\ [WfNext]_wfVars => IInv'
<1> SUFFICES ASSUME IInv, [WfNext]_wfVars PROVE IInv'
  OBVIOUS
<1>0. FlagsOK' /\ DataOK'
  BY FlagsStep, DataStep DEF IInv
<1> SUFFICES Clock' /\ ReadyRuns' /\ Registers' /\ HandedOver' /\ Queued'
  BY <1>0 DEF IInv
<1>1. CASE Launch
  BY <1>0, <1>1, LaunchStep
<1>2. CASE Stop
  BY <1>2 DEF IInv, Stop, Clock, ReadyRuns, Registers, HandedOver,
              Queued, Fresh, Safe, Writing
<1>3. CASE BufferFull
  BY <1>0, <1>3, BufferStep
<1>4. CASE WaveformsIsr
  BY <1>0, <1>4, IsrStep
<1>5. CASE CwfWakes
  <2>1. picker
    BY <1>5 DEF CwfWakes, IInv, ReadyRuns
  <2> QED
    BY <1>5, <2>1 DEF IInv, CwfWakes, ringVars, Clock, ReadyRuns, Registers,
              HandedOver, Queued, Fresh, Safe, Writing
<1>6. CASE CwfSends
  BY <1>0, <1>6, SendsStep
<1>7. CASE SendNode
  BY <1>0, <1>7, SendStep
<1>8. CASE UNCHANGED wfVars
  BY <1>8 DEF IInv, wfVars, Clock, ReadyRuns, Registers, HandedOver, Queued,
              Fresh, Safe, Writing
<1> QED
  BY <1>1, <1>2, <1>3, <1>4, <1>5, <1>6, <1>7, <1>8 DEF WfNext

-----------------------------------------------------------------------------
(* Results *)

THEOREM Invariance == WfSpec => []IInv
<1>1. WfInit => IInv
  BY RingInit, DataInit, Zenon DEF IInv, WfInit, FlagsOK
<1> QED
  BY <1>1, RingStep, PTL DEF WfSpec

\* Every variable keeps its type.
THEOREM TypeCorrect == WfSpec => []WfTypeOK
<1>1. IInv => WfTypeOK
  BY Zenon DEF IInv, WfTypeOK, DataOK
<1> QED
  BY <1>1, Invariance, PTL

\* Whatever the size of the ring, a node queued since the last launch holds
\* the samples and the date of its acquisition until SEND is done with it.
THEOREM SentIntact == WfSpec => []SentBuffersIntact
<1>1. IInv => SentBuffersIntact
  BY DEF IInv, SentBuffersIntact, Queued, Safe
<1> QED
  BY <1>1, Invariance, PTL

\* Whatever the size of the ring, the node handed to CWF is complete.
THEOREM HandedOverIntact == WfSpec => []HandedOverComplete
<1>1. IInv => HandedOverComplete
  BY DEF IInv, HandedOverComplete, HandedOver, Safe
<1> QED
  BY <1>1, Invariance, PTL

-----------------------------------------------------------------------------
(* When CWF keeps up *)

\* CWF has read each buffer it was told of, and an event is for the last one.
Served ==
  picker =>
    /\ ~(event /\ cwf = "ready")
    /\ event \/ cwf = "ready" =>
         full = {} /\ stamp[toSend] = filled /\ read + 1 = filled
    /\ ~event /\ cwf # "ready" =>
         read + (IF full = {} THEN 0 ELSE 1) = filled

\* A step keeps it unless a buffer is full too soon, or an event is kept.
LEMMA ServedStep ==
  IInv /\ Served /\ [WfNext]_wfVars /\ ~CwfIsLate /\ ~EventIsKept => Served'
<1> SUFFICES ASSUME IInv, Served, [WfNext]_wfVars, ~CwfIsLate, ~EventIsKept PROVE Served'
  OBVIOUS
<1>0. filled \in Nat /\ read \in Nat
  BY Naturals1 DEF IInv
<1>1. CASE Launch
  <2>1. cwf' = "wait" /\ full' = {} /\ read' = filled /\ filled' = filled
    BY <1>1 DEF Launch
  <2>2. ~event'
    BY <1>1 DEF Launch, EventIsKept, IInv, FlagsOK
  <2> QED
    BY <1>0, <2>1, <2>2 DEF Served
<1>2. CASE Stop
  BY <1>2 DEF Stop, Served
<1>3. CASE BufferFull
  <2>1. full = {} /\ picker /\ filled' = filled + 1
    BY <1>3 DEF BufferFull, InTime
  <2>2. ~event /\ cwf # "ready"
    BY <1>0, <2>1 DEF CwfIsLate
  <2>3. UNCHANGED <<event, cwf, read>> /\ full' = {active}
    BY <1>3 DEF BufferFull, taskVars
  <2>4. read = filled
    BY <1>0, <2>1, <2>2 DEF Served
  <2> QED
    BY <1>0, <2>1, <2>2, <2>3, <2>4 DEF Served
<1>4. CASE WaveformsIsr
  <2>1. picker /\ full # {}
    BY <1>4 DEF WaveformsIsr
  <2>2. ~event /\ cwf # "ready" /\ read + 1 = filled
    BY <2>1 DEF Served
  <2>3. full = {1 - active} /\ time[1 - active] = filled /\ active \in 0 .. 1
    BY <2>1 DEF IInv, Registers, DataOK
  <2>4. (IF 0 \in full THEN 0 ELSE 1) = 1 - active
    BY <2>3
  <2>5. toSend' \in Node /\ stamp' = [stamp EXCEPT ![toSend'] = filled] /\ full' = {}
    BY <1>4, <2>3, <2>4, NodeStep DEF WaveformsIsr, IInv, DataOK
  <2>6. stamp'[toSend'] = filled
    BY <2>5 DEF IInv, DataOK
  <2>7. event' /\ UNCHANGED <<cwf, read, filled>>
    BY <1>4 DEF WaveformsIsr
  <2> QED
    BY <2>2, <2>5, <2>6, <2>7 DEF Served
<1>5. CASE CwfWakes
  BY <1>5 DEF CwfWakes, ringVars, Served, IInv, ReadyRuns
<1>6. CASE CwfSends
  BY <1>0, <1>6 DEF CwfSends, ringVars, Served, IInv, ReadyRuns
<1>7. CASE SendNode
  BY <1>7 DEF SendNode, ringVars, Served
<1>8. CASE UNCHANGED wfVars
  BY <1>8 DEF wfVars, Served
<1> QED
  BY <1>1, <1>2, <1>3, <1>4, <1>5, <1>6, <1>7, <1>8 DEF WfNext

\* If CWF reads the pointer before the next buffer is full, and no event
\* outlives the restart of the task, no buffer is skipped or read twice.
THEOREM NextOnly ==
  ASSUME ~TaskMayLag, KeptByRestart = {FALSE}
  PROVE  WfSpec => []NextBufferOnly
<1>1. [WfNext]_wfVars => ~CwfIsLate
  <2>1. BufferFull => ~event /\ cwf # "ready"
    BY DEF BufferFull, InTime
  <2> QED
    BY <2>1 DEF WfNext, CwfIsLate, Launch, Stop, WaveformsIsr, CwfWakes, CwfSends, SendNode, wfVars
<1>2. [WfNext]_wfVars => ~EventIsKept
  BY DEF WfNext, EventIsKept, Launch, Stop, BufferFull, WaveformsIsr, CwfWakes, CwfSends,
         SendNode, wfVars
<1>3. WfInit => Served
  BY DEF WfInit, Served
<1>4. IInv /\ Served /\ [WfNext]_wfVars => Served'
  BY <1>1, <1>2, ServedStep
<1>5. IInv /\ Served => NextBufferOnly
  BY DEF IInv, ReadyRuns, Served, NextBufferOnly
<1> QED
  BY <1>3, <1>4, <1>5, Invariance, PTL DEF WfSpec

\* Even if CWF may be late and RTEMS may keep events: as long as neither has happened,
\* CWF is about to read the first buffer it has not read (waveforms_isr,
\* getRingNodeToSendCWF).
THEOREM InTimeNext == TimelySpec => []InTimeNextBuffer
<1> DEFINE Inv == IInv /\ (timely => Served)
<1>1. TimelyInit => Inv
  BY RingInit, DataInit, Zenon DEF TimelyInit, IInv, WfInit, FlagsOK, Served
<1>2. Inv /\ [TimelyNext]_<<wfVars, timely>> => Inv'
  <2> SUFFICES ASSUME Inv, [TimelyNext]_<<wfVars, timely>> PROVE Inv'
    OBVIOUS
  <2>1. [WfNext]_wfVars
    BY Zenon DEF TimelyNext
  <2>2. IInv'
    BY <2>1, RingStep
  <2>3. ASSUME timely' PROVE Served'
    <3>1. CASE TimelyNext
      <4>1. timely /\ ~CwfIsLate /\ ~EventIsKept
        BY <2>3, <3>1 DEF TimelyNext
      <4> QED
        BY <2>1, <4>1, ServedStep
    <3>2. CASE UNCHANGED <<wfVars, timely>>
      BY <2>3, <3>2 DEF wfVars, Served
    <3> QED
      BY <3>1, <3>2
  <2> QED
    BY <2>2, <2>3
<1>3. Inv => InTimeNextBuffer
  BY DEF IInv, ReadyRuns, Served, NextBufferOnly, InTimeNextBuffer
<1> QED
  BY <1>1, <1>2, <1>3, PTL DEF TimelySpec
=============================================================================
