------------------------ MODULE SpectralRing_proofs ------------------------
(***************************************************************************)
(* The matrices of a channel, for rings and batches of any size.           *)
(*                                                                         *)
(* What makes "each matrix is averaged once" inductive is where the nodes  *)
(* are: those of the batch in progress and those of the batch AVF has in   *)
(* hands are the ones before the current node, as far back as there are    *)
(* matrices, and the two nodes the module has are apart from them as long  *)
(* as the ring is large enough (RoomyRing).                                *)
(***************************************************************************)
EXTENDS SpectralRing, Integers, FiniteSetTheorems, TLAPS

\* AVF reads the pointer only after the interrupt has set it: the pointer is
\* NULL after a restart, and the event that follows it comes with a node; so does
\* an event sent while AVF has one of before the restart in hand.
PointerSet ==
  /\ ~stale /\ (event \/ avf = "ready") => forAvg \in Node
  /\ event /\ avf \in {"ready", "averaging"} => forAvg \in Node

\* A full buffer holds a matrix.
FullIsFilled == full # {} => filled >= 1

IInv == RingTypeOK /\ PointerSet /\ FullIsFilled

\* One step along the ring, either way, stays in the ring.
LEMMA RingSteps == ASSUME NEW n \in Node
                   PROVE  NodeAfter(n) \in Node /\ NodeBefore(n) \in Node
BY SmRingAssumption DEF Node, NodeAfter, NodeBefore

\* The walk of AVF stays in the ring, whatever node it starts from.
LEMMA WalkInRing == ASSUME NEW n \in Node, NEW i \in 1 .. Batch
                    PROVE  StepsBack(n, Batch - i) \in Node
BY SmRingAssumption DEF Node, StepsBack

\* No event is pending at the start.
LEMMA InitIInv == RingInit => IInv
<1>1. 0 \in Node /\ 0 .. 1 \subseteq Node
  BY SmRingAssumption DEF Node
<1>2. NodeAfter(0) \in Node
  BY <1>1, RingSteps
<1>3. 0 \in 0 .. Batch - 1 /\ 0 \in MatrixCount
  BY SmRingAssumption, SmBoundAssumption DEF MatrixCount
<1> SUFFICES ASSUME RingInit PROVE IInv
  OBVIOUS
<1>4. /\ addr \in [0 .. 1 -> Node]
      /\ data \in [Node -> MatrixCount]
      /\ batch \in [1 .. Batch -> Node \cup {NoNode}]
  BY <1>1, <1>3 DEF RingInit
<1>5. forAvg \in Node \cup {NoNode} /\ full \in SUBSET (0 .. 1)
  BY DEF RingInit
<1>6. current \in Node /\ nbSm \in 0 .. Batch - 1 /\ active \in 0 .. 1 /\ writing \in Node
  BY <1>1, <1>2, <1>3 DEF RingInit
<1>7. filled \in MatrixCount /\ handed \in MatrixCount /\ averaged \in MatrixCount
  BY <1>3 DEF RingInit
<1> QED
  BY <1>4, <1>5, <1>6, <1>7, Zenon DEF RingInit, IInv, RingTypeOK, PointerSet, FullIsFilled

\* A step that makes an event pending sets the node.
LEMMA NextIInv == IInv /\ [RingNext]_ringVars => IInv'
<1> SUFFICES ASSUME IInv, [RingNext]_ringVars PROVE IInv'
  OBVIOUS
<1> USE DEF IInv, RingTypeOK, PointerSet, FullIsFilled
<1>0. 0 \in Node /\ NodeAfter(0) \in Node /\ 0 \in 0 .. Batch - 1
  BY SmRingAssumption, RingSteps DEF Node
<1>1. CASE Launch
  <2>1. stale' \in BOOLEAN /\ event' = stale' /\ avf' = "wait"
    BY <1>1, SmTimingAssumption DEF Launch, RestartAvf
  <2> QED
    BY <1>0, <1>1, <2>1 DEF Launch
<1>2. CASE Stop
  BY <1>2 DEF Stop
<1>3. CASE MatrixReady
  <2>1. filled + 1 \in MatrixCount /\ 0 \in MatrixCount
    BY <1>3, SmBoundAssumption DEF MatrixReady, MatrixCount
  <2>2. 1 - active \in 0 .. 1
    OBVIOUS
  <2>3. addr[1 - active] \in Node
    BY <2>2
  <2>4. FullIsFilled'
    BY <1>3, <2>1 DEF MatrixReady, MatrixCount
  <2>5. RingTypeOK'
    BY <1>3, <2>1, <2>2, <2>3 DEF MatrixReady
  <2>6. PointerSet'
    BY <1>3 DEF MatrixReady
  <2> QED
    BY <2>4, <2>5, <2>6
<1>4. CASE MatrixIsr
  <2>1. NodeAfter(current) \in Node /\ NodeBefore(current) \in Node
    BY RingSteps
  <2>2. addr' \in [0 .. 1 -> Node] /\ current' \in Node
    BY <1>4, <2>1 DEF MatrixIsr
  <2>3. CASE BatchComplete
    BY <1>0, <1>4, <2>1, <2>2, <2>3 DEF MatrixIsr, task
  <2>4. CASE ~BatchComplete
    <3>1. nbSm + 1 \in 0 .. Batch - 1
      BY <2>4, SmRingAssumption DEF BatchComplete
    <3> QED
      BY <1>4, <2>2, <2>4, <3>1 DEF MatrixIsr, task
  <2> QED
    BY <2>3, <2>4
<1>5. CASE BothIsr
  <2>1. filled >= 1
    BY <1>5 DEF BothIsr
  <2>2. {filled - 1, filled} \subseteq MatrixCount
    BY <2>1, SmBoundAssumption DEF MatrixCount
  <2> QED
    BY <1>5, <2>2 DEF BothIsr, task
<1>6. CASE RestartIsr
  BY <1>6 DEF RestartIsr
<1>7. CASE AvfWakes
  BY <1>7 DEF AvfWakes, module
<1>8. CASE AvfTakes
  <2>1. batch' \in [1 .. Batch -> Node \cup {NoNode}]
    BY <1>8, WalkInRing DEF AvfTakes
  <2> QED
    BY <1>8, <2>1 DEF AvfTakes, module
<1>9. CASE AvfDone
  BY <1>9 DEF AvfDone, module
<1>10. CASE UNCHANGED ringVars
  BY <1>10 DEF ringVars
<1> QED
  BY <1>1, <1>2, <1>3, <1>4, <1>5, <1>6, <1>7, <1>8, <1>9, <1>10 DEF RingNext

\* Type correctness; in particular the nodes AVF reads are nodes of the ring, or
\* come from NULL (SM_reset_current_ring_nodes, getRingNodeForAveraging).
THEOREM TypeCorrect == RingSpec => []RingTypeOK
<1>1. IInv => RingTypeOK
  BY DEF IInv
<1> QED
  BY <1>1, InitIInv, NextIInv, PTL DEF RingSpec

\* AVF takes the NULL pointer that a restart leaves for no event the interrupt has
\* sent since, but only for one of before the restart (getRingNodeForAveraging).
THEOREM NullOnlyIfStale == RingSpec => [](avf = "ready" /\ forAvg = NoNode => stale)
<1>1. NoNode \notin Node
  BY SmRingAssumption DEF Node, NoNode
<1>2. IInv => (avf = "ready" /\ forAvg = NoNode => stale)
  BY <1>1 DEF IInv, PointerSet
<1> QED
  BY <1>2, InitIInv, NextIInv, PTL DEF RingSpec

\* If the restart of AVF clears its events, it never takes the NULL pointer
\* (rtems_task_restart in restart_asm_tasks).
THEOREM NeverNull ==
  KeptByRestart = {FALSE} /\ RingSpec => [](avf = "ready" => forAvg \in Node)
<1> SUFFICES ASSUME KeptByRestart = {FALSE}
             PROVE  RingSpec => [](avf = "ready" => forAvg \in Node)
  OBVIOUS
<1> DEFINE Inv == IInv /\ ~stale
<1>1. RingInit => Inv
  BY InitIInv DEF RingInit
<1>2. ASSUME Inv, [RingNext]_ringVars PROVE Inv'
  <2>1. CASE Launch
    <3>1. stale' = FALSE
      BY <1>2, <2>1 DEF Launch, RestartAvf
    <3> QED
      BY <1>2, <3>1, NextIInv
  <2>2. CASE ~Launch
    <3>1. stale' = FALSE
      BY <1>2, <2>2 DEF RingNext, Stop, MatrixReady, MatrixIsr, BothIsr, RestartIsr, AvfWakes,
                        AvfTakes, AvfDone, task, ringVars
    <3> QED
      BY <1>2, <3>1, NextIInv
  <2> QED
    BY <2>1, <2>2
<1>3. Inv => (avf = "ready" => forAvg \in Node)
  BY DEF IInv, PointerSet
<1> QED
  BY <1>1, <1>2, <1>3, PTL DEF RingSpec

-----------------------------------------------------------------------------
(* Each matrix is averaged once *)

\* The ring holds a batch, the matrices that come while it is averaged, and the
\* one in progress; a channel that may restart in either buffer has a batch of
\* two matrices at least.
RoomyRing == RingSize >= Batch + Lag + 1 /\ (StartsAnywhere => Batch >= 2)

\* AVF has a batch to average, one of after its restart.
InHand == ~stale /\ (event \/ avf \in {"ready", "averaging"})

\* The last matrix that is not of the batch in progress
Base == IF InHand THEN handed ELSE averaged

\* Full buffers the interrupt has not seen
Waiting == IF full = {} THEN 0 ELSE IF full = {0, 1} THEN 2 ELSE 1

\* Node the next interrupt counts, and the one after it
First == IF Waiting = 1 THEN addr[1 - active] ELSE writing
Second == IF Waiting = 1 THEN writing ELSE addr[1 - active]

\* The nodes are filled in the order of the ring, but for the first two of a
\* restart that finds the module in its second buffer.
InRingOrder == First = NodeBefore(current) /\ Second = current
FirstSwapped == /\ nbSm = 0 /\ ~InHand /\ Batch >= 2
                /\ First = current /\ Second = NodeBefore(current)
SecondSwapped == /\ nbSm = 1 /\ ~InHand /\ Batch >= 2
                 /\ First = StepsBack(current, 2) /\ Second = current

\* Nodes of the batch in progress, and of the one AVF has in hand
Collected == IF SecondSwapped THEN {NodeBefore(current)}
             ELSE {StepsBack(current, k + 1) : k \in 1 .. nbSm}
Taken == {StepsBack(forAvg, Batch - i) : i \in 1 .. Batch}

\* These nodes hold the matrices after from, up to to, but for those lost, each
\* of them once.
Once(held, dropped, nodes, from, to) ==
  /\ \A n \in nodes : held[n] \in from + 1 .. to /\ held[n] \notin dropped
  /\ \A m \in from + 1 .. to : m \notin dropped => \E n \in nodes : held[n] = m
  /\ \A n1, n2 \in nodes : held[n1] = held[n2] => n1 = n2
OnceIn(nodes, from, to) == Once(data, lost, nodes, from, to)

\* After a mode change, until the restart sequence is over
Restarting ==
  /\ current = NodeAfter(0) /\ nbSm = 0 /\ handed <= filled
  /\ event \/ avf \in {"ready", "averaging"} => stale
  /\ addr = [b \in 0 .. 1 |-> IF b = 0 THEN 0 ELSE NodeAfter(0)]
  /\ full # {} => writing = addr[active]

\* What the interrupt has counted
Counting ==
  /\ writing = addr[active]
  /\ InRingOrder \/ FirstSwapped \/ SecondSwapped
  /\ Waiting = 1 => data[First] = filled
  /\ Base + nbSm + Waiting <= filled
  /\ OnceIn(Collected, Base, filled - Waiting)

\* What it has handed to AVF
Handing ==
  /\ stale => handed <= averaged
  /\ avf = "averaging" /\ ~stale =>
       \A i \in 1 .. Batch : batch[i] = StepsBack(forAvg, Batch - i)
  /\ InHand => /\ forAvg = StepsBack(current, nbSm + 2)
               /\ filled <= handed + Lag
               /\ OnceIn(Taken, averaged, handed)

\* An event of before the restart is over before a batch is complete.
OneEvent ==
  /\ avf # "suspended"
  /\ avf \in {"ready", "averaging"} => ~event
  /\ stale => /\ event \/ avf \in {"ready", "averaging"}
              /\ forAvg = NoNode /\ filled <= handed + Lag
              /\ avf = "averaging" => \A i \in 1 .. Batch : batch[i] = NoNode

Buffers ==
  /\ full = {} \/ full = {1 - active} \/ full = {0, 1}
  /\ Waiting <= filled
  /\ \A m \in lost : m <= filled - Waiting
  /\ avf # "suspended" => irq

Running == irq /\ ~dropping

OnceInv ==
  /\ IInv /\ Buffers
  /\ irq => OneEvent
  /\ irq /\ dropping => Restarting
  /\ Running => Counting /\ Handing

\* Nodes that are not written
LEMMA OnceKept ==
  ASSUME NEW held, NEW now, NEW dropped, NEW nodes, NEW from, NEW to,
         Once(held, dropped, nodes, from, to), \A n \in nodes : now[n] = held[n]
  PROVE  Once(now, dropped, nodes, from, to)
BY DEF Once

\* A node counted by the interrupt
LEMMA OnceGrows ==
  ASSUME NEW held, NEW dropped, NEW nodes, NEW n, NEW from \in Nat, NEW to \in Nat, from <= to,
         Once(held, dropped, nodes, from, to), held[n] = to + 1, to + 1 \notin dropped
  PROVE  Once(held, dropped, nodes \cup {n}, from, to + 1)
<1>1. \A x \in nodes \cup {n} : held[x] \in from + 1 .. to + 1 /\ held[x] \notin dropped
  BY DEF Once
<1>2. \A m \in from + 1 .. to + 1 : m \notin dropped => \E x \in nodes \cup {n} : held[x] = m
  <2>1. \A m \in from + 1 .. to + 1 : m = to + 1 \/ m \in from + 1 .. to
    OBVIOUS
  <2> QED
    BY <2>1 DEF Once
<1>3. \A x \in nodes : held[x] # held[n]
  BY DEF Once
<1>4. \A n1, n2 \in nodes \cup {n} : held[n1] = held[n2] => n1 = n2
  BY <1>3 DEF Once
<1> QED
  BY <1>1, <1>2, <1>4 DEF Once

\* Two matrices dropped by the interrupt
LEMMA OnceDropped ==
  ASSUME NEW held, NEW dropped, NEW nodes, NEW from \in Nat, NEW to \in Nat, to >= 2,
         Once(held, dropped, nodes, from, to - 2)
  PROVE  Once(held, dropped \cup {to - 1, to}, nodes, from, to)
<1>1. \A n \in nodes : held[n] \in from + 1 .. to /\ held[n] \notin dropped \cup {to - 1, to}
  BY DEF Once
<1>2. \A m \in from + 1 .. to : m \notin dropped \cup {to - 1, to} => m \in from + 1 .. to - 2
  OBVIOUS
<1>3. \A n1, n2 \in nodes : held[n1] = held[n2] => n1 = n2
  BY DEF Once
<1>4. \A m \in from + 1 .. to - 2 : m \notin dropped => \E n \in nodes : held[n] = m
  BY DEF Once
<1> QED
  BY <1>1, <1>2, <1>3, <1>4 DEF Once

\* The walk in the ring
LEMMA Walk ==
  ASSUME NEW n \in Node
  PROVE  /\ \A k \in 0 .. RingSize : StepsBack(n, k) \in Node
         /\ \A k, l \in 0 .. RingSize - 1 : StepsBack(n, k) = StepsBack(n, l) => k = l
         /\ \A k \in 0 .. RingSize - 1 : StepsBack(NodeAfter(n), k + 1) = StepsBack(n, k)
         /\ \A k, l \in 0 .. RingSize :
              k + l <= RingSize => StepsBack(StepsBack(n, k), l) = StepsBack(n, k + l)
         /\ StepsBack(n, 0) = n /\ StepsBack(n, RingSize) = n
         /\ StepsBack(n, 1) = NodeBefore(n)
<1>1. RingSize \in Nat /\ RingSize >= 2 /\ n \in 0 .. RingSize - 1
  BY SmRingAssumption DEF Node
<1>2. \A k \in 0 .. RingSize : StepsBack(n, k) \in Node
  BY <1>1 DEF StepsBack, Node
<1>3. \A k, l \in 0 .. RingSize - 1 : StepsBack(n, k) = StepsBack(n, l) => k = l
  BY <1>1 DEF StepsBack
<1>4. \A k \in 0 .. RingSize - 1 : StepsBack(NodeAfter(n), k + 1) = StepsBack(n, k)
  BY <1>1 DEF StepsBack, NodeAfter
<1>5. \A k, l \in 0 .. RingSize :
        k + l <= RingSize => StepsBack(StepsBack(n, k), l) = StepsBack(n, k + l)
  BY <1>1 DEF StepsBack
<1>6. StepsBack(n, 0) = n /\ StepsBack(n, RingSize) = n /\ StepsBack(n, 1) = NodeBefore(n)
  BY <1>1 DEF StepsBack, NodeBefore
<1> QED
  BY <1>2, <1>3, <1>4, <1>5, <1>6

\* The numbers of the ring
LEMMA RingFacts ==
  ASSUME RoomyRing
  PROVE  /\ RingSize \in Nat /\ Batch \in Nat /\ Lag \in Nat /\ IsrLag \in Nat
         /\ Batch >= 1 /\ Lag <= Batch - 1 /\ IsrLag <= 1
         /\ RingSize >= 2 /\ RingSize >= Batch + Lag + 1
BY SmRingAssumption, SmTimingAssumption DEF RoomyRing

\* The nodes that are read are apart from the two that are written.
LEMMA Apart ==
  ASSUME RoomyRing, IInv, Counting
  PROVE  /\ First \in Node /\ Second \in Node /\ First # Second
         /\ Collected \subseteq Node
         /\ \A n \in Collected : n # First /\ n # Second
<1>1. /\ RingSize \in Nat /\ Batch \in Nat /\ Lag \in Nat
      /\ Batch >= 1 /\ RingSize >= 2 /\ RingSize >= Batch + 1
  BY RingFacts
<1>2. current \in Node /\ nbSm \in Nat /\ nbSm <= Batch - 1
  BY <1>1 DEF IInv, RingTypeOK
<1>3. /\ \A k \in 0 .. RingSize : StepsBack(current, k) \in Node
      /\ \A k, l \in 0 .. RingSize - 1 : StepsBack(current, k) = StepsBack(current, l) => k = l
      /\ StepsBack(current, 0) = current /\ StepsBack(current, 1) = NodeBefore(current)
  BY <1>2, Walk
<1>4. /\ 0 \in 0 .. RingSize - 1 /\ 1 \in 0 .. RingSize - 1 /\ 1 \in 0 .. RingSize
      /\ current # NodeBefore(current) /\ NodeBefore(current) \in Node
  BY <1>1, <1>2, <1>3
<1>5. CASE SecondSwapped
  <2>1. 2 \in 0 .. RingSize - 1 /\ 2 \in 0 .. RingSize
    BY <1>1, <1>5 DEF SecondSwapped
  <2>2. /\ First = StepsBack(current, 2) /\ Second = current
        /\ Collected = {NodeBefore(current)}
    BY <1>5 DEF SecondSwapped, Collected
  <2>3. First \in Node /\ First # current /\ First # NodeBefore(current)
    BY <1>3, <1>4, <2>1, <2>2
  <2> QED
    BY <1>2, <1>4, <2>2, <2>3
<1>6. CASE ~SecondSwapped
  <2>1. \/ First = NodeBefore(current) /\ Second = current
        \/ First = current /\ Second = NodeBefore(current)
    BY <1>6 DEF Counting, InRingOrder, FirstSwapped
  <2>2. ASSUME NEW n \in Collected
        PROVE  n \in Node /\ n # current /\ n # NodeBefore(current)
    <3>1. PICK k \in 1 .. nbSm : n = StepsBack(current, k + 1)
      BY <1>6 DEF Collected
    <3>2. k + 1 \in 0 .. RingSize - 1 /\ k + 1 \in 0 .. RingSize /\ k + 1 # 0 /\ k + 1 # 1
      BY <1>1, <1>2
    <3> QED
      BY <1>3, <1>4, <3>1, <3>2
  <2> QED
    BY <1>2, <1>4, <2>1, <2>2
<1> QED
  BY <1>5, <1>6

\* The batch AVF has in hand is not overtaken.
LEMMA TakenApart ==
  ASSUME RoomyRing, IInv, Counting, Handing, InHand
  PROVE  /\ InRingOrder /\ nbSm + Waiting <= Lag
         /\ Taken \subseteq Node
         /\ \A i \in 1 .. Batch : StepsBack(forAvg, Batch - i) = StepsBack(current, nbSm + 2 + (Batch - i))
         /\ \A n \in Taken : n # First /\ (nbSm + 1 <= Lag => n # Second)
<1>1. /\ RingSize \in Nat /\ Batch \in Nat /\ Lag \in Nat
      /\ Batch >= 1 /\ RingSize >= 2 /\ RingSize >= Batch + Lag + 1
  BY RingFacts
<1>2. /\ current \in Node /\ nbSm \in Nat /\ filled \in Nat /\ handed \in Nat /\ Waiting \in Nat
  BY <1>1 DEF IInv, RingTypeOK, MatrixCount, Waiting
<1>3. /\ \A k \in 0 .. RingSize : StepsBack(current, k) \in Node
      /\ \A k, l \in 0 .. RingSize - 1 : StepsBack(current, k) = StepsBack(current, l) => k = l
      /\ \A k, l \in 0 .. RingSize :
           k + l <= RingSize => StepsBack(StepsBack(current, k), l) = StepsBack(current, k + l)
      /\ StepsBack(current, 0) = current /\ StepsBack(current, RingSize) = current
      /\ StepsBack(current, 1) = NodeBefore(current)
  BY <1>2, Walk
<1>4. InRingOrder
  BY DEF Counting, FirstSwapped, SecondSwapped
<1>5. nbSm + Waiting <= Lag
  <2>1. handed + nbSm + Waiting <= filled /\ filled <= handed + Lag
    BY DEF Counting, Handing, Base
  <2> QED
    BY <1>1, <1>2, <2>1
<1>6. forAvg = StepsBack(current, nbSm + 2)
  BY DEF Handing
<1>7. ASSUME NEW i \in 1 .. Batch
      PROVE  /\ nbSm + 2 + (Batch - i) \in 2 .. RingSize
             /\ nbSm + 1 <= Lag => nbSm + 2 + (Batch - i) \in 2 .. RingSize - 1
             /\ StepsBack(forAvg, Batch - i) = StepsBack(current, nbSm + 2 + (Batch - i))
  <2>1. /\ nbSm + 2 \in 0 .. RingSize /\ Batch - i \in 0 .. RingSize
        /\ nbSm + 2 + (Batch - i) \in 2 .. RingSize
        /\ nbSm + 1 <= Lag => nbSm + 2 + (Batch - i) \in 2 .. RingSize - 1
    BY <1>1, <1>2, <1>5
  <2>2. (nbSm + 2) + (Batch - i) <= RingSize
    BY <2>1
  <2> QED
    BY <1>3, <1>6, <2>1, <2>2
<1>8. ASSUME NEW n \in Taken
      PROVE  n \in Node /\ n # First /\ (nbSm + 1 <= Lag => n # Second)
  <2>1. PICK i \in 1 .. Batch : n = StepsBack(forAvg, Batch - i)
    BY DEF Taken
  <2> DEFINE k == nbSm + 2 + (Batch - i)
  <2>2. /\ n = StepsBack(current, k) /\ k \in 2 .. RingSize
        /\ nbSm + 1 <= Lag => k \in 2 .. RingSize - 1
    BY <1>7, <2>1
  <2> HIDE DEF k
  <2>3. n \in Node
    BY <1>1, <1>3, <2>2
  <2>4. First = StepsBack(current, 1) /\ Second = StepsBack(current, 0)
        /\ Second = StepsBack(current, RingSize)
    BY <1>3, <1>4 DEF InRingOrder
  <2>5. CASE k = RingSize
    <3>1. n = StepsBack(current, 0)
      BY <1>3, <2>2, <2>5
    <3>2. StepsBack(current, 0) # StepsBack(current, 1)
      BY <1>1, <1>3
    <3>3. ~(k \in 2 .. RingSize - 1)
      BY <1>1, <2>5
    <3> QED
      BY <2>2, <2>3, <2>4, <3>1, <3>2, <3>3
  <2>6. CASE k # RingSize
    <3>1. k \in 0 .. RingSize - 1 /\ k # 0 /\ k # 1
          /\ 0 \in 0 .. RingSize - 1 /\ 1 \in 0 .. RingSize - 1
      BY <1>1, <2>2, <2>6
    <3> QED
      BY <1>3, <2>2, <2>3, <2>4, <3>1
  <2> QED
    BY <2>5, <2>6
<1> QED
  BY <1>4, <1>5, <1>7, <1>8

\* The buffers, whatever the channel does
LEMMA WaitingFacts ==
  ASSUME IInv, Buffers
  PROVE  /\ Waiting \in 0 .. 2
         /\ Waiting = 0 <=> full = {}
         /\ Waiting = 1 <=> full = {1 - active}
         /\ Waiting = 2 <=> full = {0, 1}
         /\ active \in 0 .. 1 /\ 1 - active \in 0 .. 1 /\ filled \in Nat
<1>1. active \in 0 .. 1 /\ 1 - active \in 0 .. 1 /\ filled \in Nat
  BY DEF IInv, RingTypeOK, MatrixCount
<1>2. {1 - active} # {} /\ {1 - active} # {0, 1} /\ {0, 1} # {}
  OBVIOUS
<1>3. full = {} \/ full = {1 - active} \/ full = {0, 1}
  BY DEF Buffers
<1> QED
  BY <1>1, <1>2, <1>3 DEF Waiting

\* A matrix is complete.
LEMMA FilledMoves ==
  ASSUME IInv, Buffers, MatrixReady
  PROVE  /\ filled' = filled + 1 /\ active' = 1 - active
         /\ Waiting' = IF Waiting = 2 THEN 2 ELSE Waiting + 1
         /\ full' = {1 - active'} \/ full' = {0, 1}
         /\ writing' = addr[1 - active]
<1>1. /\ filled' = filled + 1 /\ active' = 1 - active /\ full' = full \cup {active}
      /\ writing' = addr[1 - active] /\ active \in 0 .. 1
  BY DEF MatrixReady, IInv, RingTypeOK
<1>2. CASE full = {}
  <2>1. full' = {1 - active'} /\ full' # {} /\ full' # {0, 1}
    BY <1>1, <1>2
  <2> QED
    BY <1>1, <1>2, <2>1 DEF Waiting
<1>3. CASE full = {1 - active}
  <2>1. full' = {0, 1} /\ full # {} /\ full # {0, 1}
    <3>1. active = 0 \/ active = 1
      BY <1>1
    <3>2. {1 - active} \cup {active} = {0, 1}
      BY <3>1
    <3> QED
      BY <1>1, <1>3, <3>2
  <2> QED
    BY <1>1, <1>3, <2>1 DEF Waiting
<1>4. CASE full = {0, 1}
  <2>1. full' = {0, 1}
    BY <1>1, <1>4
  <2> QED
    BY <1>1, <1>4, <2>1 DEF Waiting
<1> QED
  BY <1>2, <1>3, <1>4 DEF Buffers

\* The buffers and the pointers, at every step
LEMMA BuffersInv ==
  ASSUME IInv, Buffers, [RingNext]_ringVars
  PROVE  Buffers'
<1>1. /\ Waiting \in 0 .. 2 /\ filled \in Nat /\ Waiting <= filled
      /\ active \in 0 .. 1
      /\ lost \subseteq Nat /\ (\A m \in lost : m <= filled - Waiting)
      /\ avf # "suspended" => irq
      /\ full = {} \/ full = {1 - active} \/ full = {0, 1}
  BY WaitingFacts DEF Buffers, IInv, RingTypeOK, MatrixCount
<1>2. ASSUME full' = {}, UNCHANGED <<filled, lost>>, avf' # "suspended" => irq' PROVE Buffers'
  <2>1. Waiting' = 0
    BY <1>2 DEF Waiting
  <2>2. \A m \in lost : m <= filled
    BY <1>1
  <2> QED
    BY <1>1, <1>2, <2>1, <2>2 DEF Buffers
<1>3. ASSUME UNCHANGED <<full, active, filled, lost>>, avf' # "suspended" => irq' PROVE Buffers'
  <2>1. Waiting' = Waiting
    BY <1>3 DEF Waiting
  <2> QED
    BY <1>1, <1>3, <2>1 DEF Buffers
<1>4. CASE Launch
  BY <1>2, <1>4 DEF Launch
<1>5. CASE Stop
  BY <1>2, <1>5 DEF Stop
<1>6. CASE MatrixReady
  <2>1. /\ filled' = filled + 1 /\ Waiting' = IF Waiting = 2 THEN 2 ELSE Waiting + 1
        /\ full' = {1 - active'} \/ full' = {0, 1}
    BY <1>6, FilledMoves
  <2>2. Waiting' <= filled' /\ filled - Waiting <= filled' - Waiting'
    BY <1>1, <2>1
  <2>3. \A m \in lost : m <= filled' - Waiting'
    BY <1>1, <2>1, <2>2
  <2>4. UNCHANGED <<lost, avf, irq>>
    BY <1>6 DEF MatrixReady
  <2> QED
    BY <1>1, <2>1, <2>2, <2>3, <2>4 DEF Buffers
<1>7. CASE MatrixIsr
  BY <1>1, <1>2, <1>7 DEF MatrixIsr, task
<1>8. CASE BothIsr
  <2>1. /\ full' = {} /\ lost' = lost \cup {filled - 1, filled}
        /\ UNCHANGED <<filled, avf, irq>>
    BY <1>8 DEF BothIsr, task
  <2>2. Waiting' = 0
    BY <2>1 DEF Waiting
  <2>3. \A m \in lost' : m <= filled
    BY <1>1, <2>1
  <2> QED
    BY <1>1, <2>1, <2>2, <2>3 DEF Buffers
<1>9. CASE RestartIsr
  BY <1>1, <1>2, <1>9 DEF RestartIsr
<1>10. CASE AvfWakes \/ AvfTakes \/ AvfDone
  BY <1>1, <1>3, <1>10 DEF AvfWakes, AvfTakes, AvfDone, module
<1>11. CASE UNCHANGED ringVars
  BY <1>1, <1>3, <1>11 DEF ringVars
<1> QED
  BY <1>4, <1>5, <1>6, <1>7, <1>8, <1>9, <1>10, <1>11 DEF RingNext

\* What the module writes
LEMMA ReadyOnce ==
  ASSUME RoomyRing, OnceInv, Running, MatrixReady
  PROVE  Counting' /\ Handing'
<1>1. IInv /\ Buffers /\ Counting /\ Handing
  BY DEF OnceInv
<1>2. /\ filled' = filled + 1 /\ active' = 1 - active
      /\ Waiting' = IF Waiting = 2 THEN 2 ELSE Waiting + 1
      /\ writing' = addr[1 - active]
  BY <1>1, FilledMoves
<1>3. /\ data' = [data EXCEPT ![writing] = filled + 1, ![writing'] = 0]
      /\ UNCHANGED <<current, forAvg, nbSm, addr, irq, dropping, event, avf, batch, handed,
                     averaged, stale, lost>>
      /\ Cardinality(full) <= IsrLag
      /\ InHand => filled + 1 <= handed + Lag
  BY DEF MatrixReady, RingInTime, Running, InHand
<1>4. /\ Waiting \in 0 .. 2 /\ active \in 0 .. 1 /\ filled \in Nat
      /\ Waiting = 2 <=> full = {0, 1}
  BY <1>1, WaitingFacts
<1>5. Waiting \in 0 .. 1
  <2>1. 0 .. 1 = {0, 1} /\ Cardinality(0 .. 1) = 2
    <3>1. 0 \in Int /\ 1 \in Int
      OBVIOUS
    <3>2. Cardinality(0 .. 1) = IF 0 > 1 THEN 0 ELSE 1 - 0 + 1
      BY <3>1, FS_Interval
    <3> QED
      BY <3>2
  <2>2. Waiting # 2
    BY <1>3, <1>4, <2>1, RingFacts
  <2> QED
    BY <1>4, <2>2
<1>6. InHand' = InHand /\ Base' = Base
  BY <1>3 DEF InHand, Base
<1>7. 1 - (1 - active) = active
  BY <1>4
<1>8. First' = First /\ Second' = Second
  <2>1. CASE Waiting = 0
    <3>1. Waiting' = 1
      BY <1>2, <2>1
    <3> QED
      BY <1>1, <1>2, <1>3, <1>7, <2>1, <3>1 DEF First, Second, Counting
  <2>2. CASE Waiting = 1
    <3>1. Waiting' = 2
      BY <1>2, <2>2
    <3> QED
      BY <1>1, <1>2, <1>3, <1>7, <2>2, <3>1 DEF First, Second, Counting
  <2> QED
    BY <1>5, <2>1, <2>2
<1>9. /\ InRingOrder' = InRingOrder /\ FirstSwapped' = FirstSwapped
      /\ SecondSwapped' = SecondSwapped /\ Collected' = Collected /\ Taken' = Taken
  BY <1>3, <1>6, <1>8 DEF InRingOrder, FirstSwapped, SecondSwapped, Collected, Taken
<1>10. /\ First \in Node /\ Second \in Node /\ First # Second
       /\ Collected \subseteq Node
       /\ \A n \in Collected : n # First /\ n # Second
  BY <1>1, Apart
<1>11. /\ writing \in {First, Second} /\ writing' \in {First, Second}
       /\ writing # writing'
       /\ Waiting = 0 => writing = First
  BY <1>2, <1>5, <1>10 DEF First, Second
<1>12. data \in [Node -> MatrixCount]
  BY <1>1 DEF IInv, RingTypeOK
<1>13. \A n \in Node : n # First /\ n # Second => data'[n] = data[n]
  BY <1>3, <1>10, <1>11, <1>12
<1>14. writing' = addr'[active']
  BY <1>2, <1>3
<1>15. Waiting' = 1 => data'[First'] = filled'
  <2>1. ASSUME Waiting' = 1 PROVE Waiting = 0
    BY <1>2, <1>5, <2>1
  <2>2. data'[writing] = filled + 1
    BY <1>3, <1>10, <1>11, <1>12
  <2> QED
    BY <1>2, <1>8, <1>11, <2>1, <2>2
<1>16. filled' - Waiting' = filled - Waiting
  BY <1>2, <1>4, <1>5
<1>17. OnceIn(Collected, Base, filled - Waiting)'
  <2>1. Once(data, lost, Collected, Base, filled - Waiting)
    BY <1>1 DEF Counting, OnceIn
  <2>2. \A n \in Collected : data'[n] = data[n]
    BY <1>10, <1>13
  <2>3. Once(data', lost, Collected, Base, filled - Waiting)
    BY <2>1, <2>2, OnceKept
  <2> QED
    BY <1>3, <1>6, <1>9, <1>16, <2>3 DEF OnceIn
<1>18. Base' + nbSm' + Waiting' <= filled'
  <2>1. Base \in Nat /\ nbSm \in Nat
    BY <1>1, RingFacts DEF IInv, RingTypeOK, Base, MatrixCount
  <2>2. Base + nbSm + Waiting <= filled
    BY <1>1 DEF Counting
  <2> QED
    BY <1>2, <1>3, <1>4, <1>5, <1>6, <2>1, <2>2
<1>19. Counting'
  BY <1>1, <1>9, <1>14, <1>15, <1>17, <1>18 DEF Counting
<1>20. ASSUME InHand PROVE OnceIn(Taken, averaged, handed)'
  <2>1. InRingOrder /\ nbSm + Waiting <= Lag /\ Taken \subseteq Node
        /\ \A n \in Taken : n # First /\ (nbSm + 1 <= Lag => n # Second)
    BY <1>1, <1>20, TakenApart
  <2>2. nbSm + 1 <= Lag
    <3>1. /\ handed + nbSm + Waiting <= filled /\ filled + 1 <= handed + Lag
          /\ handed \in Nat /\ nbSm \in Nat /\ Lag \in Nat
      BY <1>1, <1>3, <1>20, RingFacts DEF Counting, Base, IInv, RingTypeOK, MatrixCount
    <3> QED
      BY <1>4, <3>1
  <2>3. \A n \in Taken : data'[n] = data[n]
    BY <1>13, <2>1, <2>2
  <2>4. Once(data, lost, Taken, averaged, handed)
    BY <1>1, <1>20 DEF Handing, OnceIn
  <2>5. Once(data', lost, Taken, averaged, handed)
    BY <2>3, <2>4, OnceKept
  <2> QED
    BY <1>3, <1>9, <2>5 DEF OnceIn
<1>21. Handing'
  BY <1>1, <1>2, <1>3, <1>6, <1>20 DEF Handing
<1> QED
  BY <1>19, <1>21

\* The nodes counted so far, when one more is
LEMMA CollectedGrows ==
  ASSUME RoomyRing, IInv, Counting, InRingOrder \/ SecondSwapped
  PROVE  {StepsBack(current, j) : j \in 1 .. nbSm + 1} = Collected \cup {First}
<1>1. /\ current \in Node /\ nbSm \in Nat
      /\ StepsBack(current, 1) = NodeBefore(current)
  BY Walk, RingFacts DEF IInv, RingTypeOK
<1>2. CASE SecondSwapped
  <2>1. nbSm + 1 = 2 /\ First = StepsBack(current, 2) /\ Collected = {NodeBefore(current)}
    BY <1>2 DEF SecondSwapped, Collected
  <2>2. 1 .. 2 = {1, 2}
    OBVIOUS
  <2> QED
    BY <1>1, <2>1, <2>2
<1>3. CASE ~SecondSwapped
  <2>1. /\ Collected = {StepsBack(current, k + 1) : k \in 1 .. nbSm}
        /\ First = StepsBack(current, 1)
    BY <1>1, <1>3 DEF Collected, InRingOrder
  <2>2. ASSUME NEW n \in {StepsBack(current, j) : j \in 1 .. nbSm + 1}
        PROVE  n \in Collected \cup {First}
    <3>1. PICK j \in 1 .. nbSm + 1 : n = StepsBack(current, j)
      OBVIOUS
    <3>2. CASE j = 1
      BY <2>1, <3>1, <3>2
    <3>3. CASE j # 1
      <4>1. j - 1 \in 1 .. nbSm /\ (j - 1) + 1 = j
        BY <1>1, <3>3
      <4> QED
        BY <2>1, <3>1, <4>1
    <3> QED
      BY <3>2, <3>3
  <2>3. ASSUME NEW n \in Collected
        PROVE  n \in {StepsBack(current, j) : j \in 1 .. nbSm + 1}
    <3>1. PICK k \in 1 .. nbSm : n = StepsBack(current, k + 1)
      BY <2>1
    <3>2. k + 1 \in 1 .. nbSm + 1
      BY <1>1
    <3> QED
      BY <3>1, <3>2
  <2>4. First \in {StepsBack(current, j) : j \in 1 .. nbSm + 1}
    <3>1. 1 \in 1 .. nbSm + 1
      BY <1>1
    <3> QED
      BY <2>1, <3>1
  <2> QED
    BY <2>2, <2>3, <2>4
<1> QED
  BY <1>2, <1>3

\* No batch is complete before AVF is done with an event of before the restart.
LEMMA NotYet ==
  ASSUME RoomyRing, OnceInv, Running, stale
  PROVE  nbSm + Waiting <= Lag
<1>1. /\ filled <= handed + Lag /\ handed <= averaged
      /\ averaged + nbSm + Waiting <= filled
  BY DEF OnceInv, Running, OneEvent, Handing, Counting, Base, InHand
<1>2. RingTypeOK /\ Batch \in Nat /\ Lag \in Nat
  BY RingFacts DEF OnceInv, IInv
<1>3. filled \in Nat /\ handed \in Nat /\ averaged \in Nat /\ nbSm \in Nat
  BY <1>2 DEF RingTypeOK, MatrixCount
<1>4. Waiting \in Nat
  BY DEF Waiting
<1> QED
  BY <1>1, <1>2, <1>3, <1>4

\* Nor before it is done with the batch before.
LEMMA NoBatchYet ==
  ASSUME RoomyRing, OnceInv, Running, MatrixIsr, BatchComplete
  PROVE  ~InHand /\ ~stale
<1>1. IInv /\ Buffers /\ Counting /\ Handing
  BY DEF OnceInv
<1>2. Waiting = 1
  <2>1. PICK b \in 0 .. 1 : full = {b}
    BY DEF MatrixIsr
  <2>2. full # {} /\ full # {0, 1}
    BY <2>1
  <2> QED
    BY <2>2 DEF Waiting
<1>3. nbSm \in Nat /\ Batch \in Nat /\ Lag \in Nat /\ Lag <= Batch - 1
  BY <1>1, RingFacts DEF IInv, RingTypeOK
<1>4. nbSm + 1 > Lag
  BY <1>3 DEF BatchComplete
<1>5. InHand => nbSm + Waiting <= Lag
  BY <1>1, TakenApart
<1>6. stale => nbSm + Waiting <= Lag
  BY NotYet
<1> QED
  BY <1>2, <1>3, <1>4, <1>5, <1>6

\* What the interrupt counts
LEMMA IsrOnce ==
  ASSUME RoomyRing, OnceInv, Running, MatrixIsr
  PROVE  Counting' /\ Handing'
<1>1. IInv /\ Buffers /\ Counting /\ Handing
  BY DEF OnceInv
<1>2. PICK b \in 0 .. 1 :
        full = {b} /\ current' = NodeAfter(current) /\ addr' = [addr EXCEPT ![b] = current']
  BY DEF MatrixIsr
<1>3. /\ full' = {}
      /\ IF BatchComplete
         THEN nbSm' = 0 /\ forAvg' = NodeBefore(current) /\ event' = TRUE /\ handed' = filled
         ELSE nbSm' = nbSm + 1 /\ UNCHANGED <<forAvg, event, handed>>
      /\ UNCHANGED <<active, writing, irq, dropping, data, filled, avf, batch, averaged,
                     stale, lost>>
  BY DEF MatrixIsr, task
<1>4. b = 1 - active /\ active \in 0 .. 1 /\ Waiting = 1 /\ filled \in Nat
  <2>1. {b} # {} /\ {b} # {0, 1}
    BY <1>2
  <2>2. full = {1 - active}
    BY <1>1, <1>2, <2>1 DEF Buffers
  <2> QED
    BY <1>1, <1>2, <2>2, WaitingFacts
<1>5. Waiting' = 0
  BY <1>3 DEF Waiting
<1>6. /\ current \in Node /\ nbSm \in Nat /\ nbSm <= Batch - 1 /\ addr \in [0 .. 1 -> Node]
      /\ Base \in Nat /\ averaged \in Nat /\ handed \in Nat
  BY <1>1, RingFacts DEF IInv, RingTypeOK, Base, MatrixCount
<1>7. First' = Second /\ Second' = current' /\ writing' = addr'[active']
  <2>1. active # b
    BY <1>4
  <2>2. addr'[1 - active] = current' /\ addr'[active] = addr[active]
    BY <1>2, <1>4, <1>6, <2>1
  <2> QED
    BY <1>1, <1>3, <1>4, <1>5, <2>2 DEF First, Second, Counting
<1>8. /\ RingSize \in Nat /\ Batch \in Nat /\ Lag \in Nat /\ Batch >= 1 /\ Lag <= Batch - 1
      /\ RingSize >= Batch + 1 /\ RingSize >= 2 /\ RingSize >= Batch + Lag + 1
  BY RingFacts
<1>9. /\ current' \in Node
      /\ \A k \in 0 .. RingSize - 1 : StepsBack(current', k + 1) = StepsBack(current, k)
      /\ StepsBack(current, 0) = current /\ StepsBack(current, 1) = NodeBefore(current)
      /\ StepsBack(current', 1) = NodeBefore(current')
      /\ \A k, l \in 0 .. RingSize - 1 : StepsBack(current', k) = StepsBack(current', l) => k = l
  <2>1. current' \in Node
    BY <1>2, <1>6, RingSteps
  <2> QED
    BY <1>2, <1>6, <2>1, Walk
<1>10. /\ StepsBack(current', 1) = current /\ NodeBefore(current') = current
       /\ StepsBack(current', 2) = NodeBefore(current)
  <2>1. 0 \in 0 .. RingSize - 1 /\ 1 \in 0 .. RingSize - 1 /\ 0 + 1 = 1 /\ 1 + 1 = 2
    BY <1>8
  <2> QED
    BY <1>9, <2>1
<1>11. data[First] = filled /\ First \in Node /\ Collected \subseteq Node
  BY <1>1, <1>4, Apart DEF Counting
<1>12. Base + nbSm + 1 <= filled /\ filled \notin lost
  BY <1>1, <1>4, <1>6 DEF Counting, Buffers
<1>13. Once(data, lost, Collected \cup {First}, Base, filled)
  <2>1. Once(data, lost, Collected, Base, filled - 1)
    BY <1>1, <1>4 DEF Counting, OnceIn
  <2>2. filled - 1 \in Nat /\ Base <= filled - 1 /\ (filled - 1) + 1 = filled
    BY <1>4, <1>6, <1>12
  <2> QED
    BY <1>6, <1>11, <1>12, <2>1, <2>2, OnceGrows
<1>14. BatchComplete => ~InHand /\ ~stale
  BY NoBatchYet
<1>15. CASE BatchComplete
  <2>1. ~InHand /\ ~stale /\ nbSm + 1 = Batch /\ Base = averaged
    BY <1>14, <1>15 DEF BatchComplete, Base
  <2>2. /\ nbSm' = 0 /\ forAvg' = NodeBefore(current) /\ event' = TRUE /\ handed' = filled
        /\ InHand' /\ Base' = filled
    BY <1>3, <1>15, <2>1 DEF InHand, Base
  <2>3. InRingOrder \/ SecondSwapped
    BY <1>1, <1>6, <1>8, <2>1 DEF Counting, FirstSwapped
  <2>4. InRingOrder'
    BY <1>7, <1>10, <2>3 DEF InRingOrder, SecondSwapped
  <2>5. Collected' = {}
    <3>1. ~SecondSwapped'
      BY <2>2 DEF SecondSwapped
    <3>2. 1 .. nbSm' = {}
      BY <2>2
    <3> QED
      BY <3>1, <3>2 DEF Collected
  <2>6. OnceIn(Collected, Base, filled - Waiting)'
    <3>1. filled + 1 .. filled = {} /\ filled - 0 = filled
      BY <1>4
    <3>2. Once(data, lost, {}, filled, filled)
      BY <3>1 DEF Once
    <3> QED
      BY <1>3, <1>5, <2>2, <2>5, <3>1, <3>2 DEF OnceIn
  <2>7. Counting'
    BY <1>3, <1>4, <1>5, <1>7, <2>2, <2>4, <2>6 DEF Counting
  <2>8. forAvg' = StepsBack(current', nbSm' + 2)
    BY <1>10, <2>2
  <2>9. Taken' = Collected \cup {First}
    <3>1. \A k, l \in 0 .. RingSize :
            k + l <= RingSize => StepsBack(StepsBack(current, k), l) = StepsBack(current, k + l)
      BY <1>6, Walk
    <3>2. ASSUME NEW i \in 1 .. Batch
          PROVE  StepsBack(forAvg', Batch - i) = StepsBack(current, 1 + (Batch - i))
      <4>1. 1 \in 0 .. RingSize /\ Batch - i \in 0 .. RingSize /\ 1 + (Batch - i) <= RingSize
        BY <1>8
      <4> QED
        BY <1>9, <2>2, <3>1, <4>1
    <3>3. Taken' = {StepsBack(current, 1 + (Batch - i)) : i \in 1 .. Batch}
      BY <3>2 DEF Taken
    <3>4. {StepsBack(current, 1 + (Batch - i)) : i \in 1 .. Batch}
            = {StepsBack(current, j) : j \in 1 .. nbSm + 1}
      <4>1. ASSUME NEW i \in 1 .. Batch
            PROVE  1 + (Batch - i) \in 1 .. nbSm + 1
        BY <1>8, <2>1
      <4>2. ASSUME NEW j \in 1 .. nbSm + 1
            PROVE  \E i \in 1 .. Batch : j = 1 + (Batch - i)
        <5>1. 1 + Batch - j \in 1 .. Batch /\ j = 1 + (Batch - (1 + Batch - j))
          BY <1>8, <2>1
        <5> QED
          BY <5>1
      <4> QED
        BY <4>1, <4>2
    <3> QED
      BY <1>1, <2>3, <3>3, <3>4, CollectedGrows
  <2>10. OnceIn(Taken, averaged, handed)'
    BY <1>3, <1>13, <2>1, <2>2, <2>9 DEF OnceIn
  <2>11. avf \notin {"ready", "averaging"}
    BY <2>1 DEF InHand
  <2>12. filled' <= handed' + Lag
    BY <1>3, <1>4, <1>8, <2>2
  <2>13. Handing'
    BY <1>3, <2>1, <2>8, <2>10, <2>11, <2>12 DEF Handing
  <2> QED
    BY <2>7, <2>13
<1>16. CASE ~BatchComplete
  <2>1. /\ nbSm' = nbSm + 1 /\ UNCHANGED <<forAvg, event, handed>>
        /\ InHand' = InHand /\ Base' = Base /\ nbSm + 2 <= Batch
    <3>1. nbSm' = nbSm + 1 /\ UNCHANGED <<forAvg, event, handed>>
      BY <1>3, <1>16
    <3>2. nbSm + 2 <= Batch
      BY <1>6, <1>8, <1>16 DEF BatchComplete
    <3> QED
      BY <1>3, <3>1, <3>2 DEF InHand, Base
  <2>2. \/ InRingOrder' /\ (InRingOrder \/ SecondSwapped)
        \/ SecondSwapped' /\ FirstSwapped
    <3>1. CASE InRingOrder \/ SecondSwapped
      BY <1>7, <1>10, <3>1 DEF InRingOrder, SecondSwapped
    <3>2. CASE FirstSwapped
      BY <1>7, <1>10, <2>1, <3>2 DEF FirstSwapped, SecondSwapped
    <3> QED
      BY <1>1, <3>1, <3>2 DEF Counting
  <2>3. Collected' = Collected \cup {First}
    <3>1. CASE InRingOrder' /\ (InRingOrder \/ SecondSwapped)
      <4>1. ~SecondSwapped'
        <5>1. 1 \in 0 .. RingSize - 1 /\ 2 \in 0 .. RingSize - 1
          BY <1>6, <1>8, <2>1
        <5>2. StepsBack(current', 1) # StepsBack(current', 2)
          BY <1>9, <5>1
        <5> QED
          BY <1>9, <3>1, <5>2 DEF InRingOrder, SecondSwapped
      <4>2. Collected' = {StepsBack(current', k + 1) : k \in 1 .. nbSm + 1}
        BY <2>1, <4>1 DEF Collected
      <4>3. \A k \in 1 .. nbSm + 1 : StepsBack(current', k + 1) = StepsBack(current, k)
        BY <1>6, <1>8, <1>9, <2>1
      <4>4. Collected' = {StepsBack(current, k) : k \in 1 .. nbSm + 1}
        BY <4>2, <4>3
      <4> QED
        BY <1>1, <3>1, <4>4, CollectedGrows
    <3>2. CASE SecondSwapped' /\ FirstSwapped
      <4>1. Collected = {}
        <5>1. ~SecondSwapped /\ 1 .. nbSm = {}
          BY <3>2 DEF FirstSwapped, SecondSwapped
        <5> QED
          BY <5>1 DEF Collected
      <4>2. Collected' = {current} /\ First = current
        BY <1>10, <3>2 DEF Collected, FirstSwapped
      <4> QED
        BY <4>1, <4>2
    <3> QED
      BY <2>2, <3>1, <3>2
  <2>4. OnceIn(Collected, Base, filled - Waiting)'
    <3>1. filled - 0 = filled
      BY <1>4
    <3> QED
      BY <1>3, <1>5, <1>13, <2>1, <2>3, <3>1 DEF OnceIn
  <2>5. Base + (nbSm + 1) + 0 <= filled
    BY <1>4, <1>6, <1>12
  <2>6. Counting'
    BY <1>3, <1>5, <1>7, <2>1, <2>2, <2>4, <2>5 DEF Counting
  <2>7. Taken' = Taken
    BY <2>1 DEF Taken
  <2>8. InHand => forAvg' = StepsBack(current', nbSm' + 2)
    <3>1. InHand => nbSm + 2 \in 0 .. RingSize - 1
      BY <1>6, <1>8, <2>1
    <3>2. nbSm' + 2 = (nbSm + 2) + 1
      BY <1>6, <2>1
    <3> QED
      BY <1>1, <1>9, <2>1, <3>1, <3>2 DEF Handing
  <2>9. Handing'
    BY <1>1, <1>3, <2>1, <2>7, <2>8 DEF Handing, OnceIn
  <2> QED
    BY <2>6, <2>9
<1> QED
  BY <1>15, <1>16

\* What the interrupt drops
LEMMA BothOnce ==
  ASSUME RoomyRing, OnceInv, Running, BothIsr
  PROVE  Counting' /\ Handing'
<1>1. IInv /\ Buffers /\ Counting /\ Handing
  BY DEF OnceInv
<1>2. /\ full = {0, 1} /\ full' = {} /\ lost' = lost \cup {filled - 1, filled}
      /\ UNCHANGED <<current, forAvg, nbSm, addr, active, writing, irq, dropping,
                     data, filled, event, handed, avf, batch, averaged, stale>>
  BY DEF BothIsr, task
<1>3. Waiting = 2 /\ Waiting' = 0 /\ filled \in Nat
  BY <1>1, <1>2, WaitingFacts DEF Waiting
<1>4. First' = First /\ Second' = Second
  BY <1>2, <1>3 DEF First, Second
<1>5. /\ InHand' = InHand /\ Base' = Base
      /\ InRingOrder' = InRingOrder /\ FirstSwapped' = FirstSwapped
      /\ SecondSwapped' = SecondSwapped /\ Collected' = Collected /\ Taken' = Taken
  BY <1>2, <1>4 DEF InHand, Base, InRingOrder, FirstSwapped, SecondSwapped, Collected, Taken
<1>6. /\ Base \in Nat /\ nbSm \in Nat /\ handed \in Nat /\ averaged \in Nat
      /\ Base + nbSm + 2 <= filled
  BY <1>1, <1>3, RingFacts DEF IInv, RingTypeOK, Base, MatrixCount, Counting
<1>7. OnceIn(Collected, Base, filled - Waiting)'
  <2>1. Once(data, lost, Collected, Base, filled - 2)
    BY <1>1, <1>3 DEF Counting, OnceIn
  <2>2. filled >= 2 /\ filled - 0 = filled
    BY <1>3, <1>6
  <2>3. Once(data, lost \cup {filled - 1, filled}, Collected, Base, filled)
    BY <1>3, <1>6, <2>1, <2>2, OnceDropped
  <2> QED
    BY <1>2, <1>3, <1>5, <2>2, <2>3 DEF OnceIn
<1>8. Counting'
  <2>1. Base' + nbSm' + Waiting' <= filled'
    BY <1>2, <1>3, <1>5, <1>6
  <2> QED
    BY <1>1, <1>2, <1>3, <1>5, <1>7, <2>1 DEF Counting
<1>9. ASSUME InHand PROVE OnceIn(Taken, averaged, handed)'
  <2>1. Once(data, lost, Taken, averaged, handed)
    BY <1>1, <1>9 DEF Handing, OnceIn
  <2>2. handed <= filled - 2
    BY <1>3, <1>6, <1>9 DEF Base
  <2>3. \A m \in averaged + 1 .. handed : m \notin {filled - 1, filled}
    BY <1>3, <1>6, <2>2
  <2>4. Once(data, lost \cup {filled - 1, filled}, Taken, averaged, handed)
    BY <2>1, <2>3 DEF Once
  <2> QED
    BY <1>2, <1>5, <2>4 DEF OnceIn
<1>10. Handing'
  BY <1>1, <1>2, <1>5, <1>9 DEF Handing
<1> QED
  BY <1>8, <1>10

\* The end of the restart sequence
LEMMA RestartOnce ==
  ASSUME RoomyRing, OnceInv, RestartIsr
  PROVE  (dropping' => Restarting') /\ (~dropping' => Counting' /\ Handing')
<1>1. /\ irq /\ dropping /\ full # {} /\ full' = {} /\ averaged' = filled
      /\ ~dropping' => StartsAnywhere \/ active = 0
      /\ UNCHANGED <<current, forAvg, nbSm, addr, active, writing, irq, data,
                     filled, event, avf, batch, handed, stale, lost>>
  BY DEF RestartIsr
<1>2. IInv /\ Restarting
  BY <1>1 DEF OnceInv
<1>3. Restarting'
  BY <1>1, <1>2 DEF Restarting
<1>4. /\ current = NodeAfter(0) /\ nbSm = 0 /\ handed <= filled
      /\ event \/ avf \in {"ready", "averaging"} => stale
      /\ addr[0] = 0 /\ addr[1] = NodeAfter(0) /\ writing = addr[active]
      /\ active \in 0 .. 1 /\ filled \in Nat /\ 0 \in Node
  BY <1>1, <1>2, SmRingAssumption DEF Restarting, IInv, RingTypeOK, MatrixCount, Node
<1>5. NodeBefore(current) = 0
  BY <1>4, SmRingAssumption DEF NodeBefore, NodeAfter
<1>6. Waiting' = 0 /\ ~InHand' /\ Base' = filled
  BY <1>1, <1>4 DEF Waiting, InHand, Base
<1>7. Collected' = {}
  <2>1. ~SecondSwapped' /\ 1 .. nbSm' = {}
    BY <1>1, <1>4 DEF SecondSwapped
  <2> QED
    BY <2>1 DEF Collected
<1>8. ASSUME ~dropping' PROVE InRingOrder' \/ FirstSwapped'
  <2>1. CASE active = 0
    <3>1. First' = 0 /\ Second' = current
      BY <1>1, <1>4, <1>6, <2>1 DEF First, Second
    <3> QED
      BY <1>1, <1>5, <3>1 DEF InRingOrder
  <2>2. CASE active = 1
    <3>1. First' = current /\ Second' = 0
      BY <1>1, <1>4, <1>6, <2>2 DEF First, Second
    <3>2. Batch >= 2
      BY <1>1, <1>8, <2>2 DEF RoomyRing
    <3> QED
      BY <1>1, <1>4, <1>5, <1>6, <3>1, <3>2 DEF FirstSwapped
  <2> QED
    BY <1>4, <2>1, <2>2
<1>9. OnceIn(Collected, Base, filled - Waiting)'
  <2>1. filled + 1 .. filled = {} /\ filled - 0 = filled
    BY <1>4
  <2>2. Once(data, lost, {}, filled, filled)
    BY <2>1 DEF Once
  <2> QED
    BY <1>1, <1>6, <1>7, <2>1, <2>2 DEF OnceIn
<1>10. ASSUME ~dropping' PROVE Counting'
  BY <1>1, <1>4, <1>6, <1>8, <1>9, <1>10 DEF Counting
<1>11. Handing'
  BY <1>1, <1>4, <1>6 DEF Handing
<1> QED
  BY <1>3, <1>10, <1>11

\* The event of AVF
LEMMA OneEventStep ==
  ASSUME RoomyRing, OnceInv, [RingNext]_ringVars, irq'
  PROVE  OneEvent'
<1>1. Lag \in Nat /\ filled \in Nat
  <2>1. filled \in MatrixCount
    BY DEF OnceInv, IInv, RingTypeOK
  <2> QED
    BY <2>1, RingFacts DEF MatrixCount
<1>2. irq => OneEvent
  BY DEF OnceInv
<1>3. CASE Launch
  <2>1. /\ avf' = "wait" /\ event' = stale' /\ forAvg' = NoNode
        /\ handed' = filled /\ filled' = filled
    BY <1>3 DEF Launch, RestartAvf
  <2>2. filled' <= handed' + Lag
    BY <1>1, <2>1
  <2> QED
    BY <2>1, <2>2 DEF OneEvent
<1>4. CASE Stop
  BY <1>4 DEF Stop
<1>5. CASE MatrixReady
  <2>1. /\ irq /\ UNCHANGED <<event, avf, forAvg, stale, handed, batch>>
        /\ event \/ avf \in {"ready", "averaging"} => filled' <= handed + Lag
    BY <1>5 DEF MatrixReady, RingInTime
  <2> QED
    BY <1>2, <2>1 DEF OneEvent
<1>6. CASE MatrixIsr /\ BatchComplete
  <2>1. Running /\ irq
    BY <1>6 DEF MatrixIsr, Running
  <2>2. ~InHand /\ ~stale
    BY <1>6, <2>1, NoBatchYet
  <2>3. avf \notin {"ready", "averaging"} /\ avf' = avf /\ stale' = stale
    BY <1>6, <2>2 DEF MatrixIsr, InHand, task
  <2> QED
    BY <1>2, <2>1, <2>2, <2>3 DEF OneEvent
<1>7. CASE MatrixIsr /\ ~BatchComplete
  <2>1. irq /\ UNCHANGED <<event, avf, forAvg, stale, handed, batch, filled>>
    BY <1>7 DEF MatrixIsr, task
  <2> QED
    BY <1>2, <2>1 DEF OneEvent
<1>8. CASE BothIsr \/ RestartIsr \/ UNCHANGED ringVars
  <2>1. irq /\ UNCHANGED <<event, avf, forAvg, stale, handed, batch, filled>>
    BY <1>8 DEF BothIsr, RestartIsr, ringVars, task
  <2> QED
    BY <1>2, <2>1 DEF OneEvent
<1>9. CASE AvfWakes
  <2>1. /\ irq /\ UNCHANGED <<forAvg, stale, handed, batch, filled>>
        /\ avf' = "ready" /\ ~event'
    BY <1>9 DEF AvfWakes, module
  <2> QED
    BY <1>2, <2>1 DEF OneEvent
<1>10. CASE AvfTakes
  <2>1. /\ irq /\ UNCHANGED <<forAvg, stale, handed, event, filled>>
        /\ avf = "ready" /\ avf' = "averaging"
        /\ forAvg = NoNode => \A i \in 1 .. Batch : batch'[i] = NoNode
    BY <1>10 DEF AvfTakes, module
  <2> QED
    BY <1>2, <2>1 DEF OneEvent
<1>11. CASE AvfDone
  <2>1. irq /\ ~stale' /\ avf' = "wait"
    BY <1>11 DEF AvfDone, module
  <2> QED
    BY <2>1 DEF OneEvent
<1> QED
  BY <1>3, <1>4, <1>5, <1>6, <1>7, <1>8, <1>9, <1>10, <1>11 DEF RingNext

\* What AVF does
LEMMA AvfOnce ==
  ASSUME RoomyRing, OnceInv, Running, AvfWakes \/ AvfTakes \/ AvfDone
  PROVE  Counting' /\ Handing'
<1>1. IInv /\ Buffers /\ Counting /\ Handing /\ OneEvent
  BY DEF OnceInv, Running
<1>2. UNCHANGED <<addr, full, active, writing, data, filled, current, forAvg, nbSm, irq,
                  dropping, handed, lost>>
  BY DEF AvfWakes, AvfTakes, AvfDone, module
<1>3. Waiting' = Waiting /\ First' = First /\ Second' = Second /\ Taken' = Taken
  BY <1>2 DEF Waiting, First, Second, Taken
<1>4. ASSUME InHand' = InHand, averaged' = averaged PROVE Counting'
  <2>1. /\ Base' = Base /\ InRingOrder' = InRingOrder /\ FirstSwapped' = FirstSwapped
        /\ SecondSwapped' = SecondSwapped
    BY <1>2, <1>3, <1>4 DEF Base, InRingOrder, FirstSwapped, SecondSwapped
  <2>2. Collected' = Collected
    BY <1>2, <2>1 DEF Collected
  <2> QED
    BY <1>1, <1>2, <1>3, <2>1, <2>2 DEF Counting, OnceIn
<1>5. CASE AvfWakes
  <2>1. /\ InHand' = InHand /\ averaged' = averaged /\ stale' = stale
        /\ ~event' /\ avf' = "ready"
    BY <1>5 DEF AvfWakes, InHand
  <2>2. Handing'
    BY <1>1, <1>2, <1>3, <2>1 DEF Handing, OnceIn
  <2> QED
    BY <1>4, <2>1, <2>2
<1>6. CASE AvfTakes
  <2>1. /\ InHand' = InHand /\ averaged' = averaged /\ stale' = stale
        /\ event' = event /\ avf = "ready"
        /\ batch' = [i \in 1 .. Batch |-> IF forAvg = NoNode THEN NoNode
                                           ELSE StepsBack(forAvg, Batch - i)]
    BY <1>6 DEF AvfTakes, InHand
  <2>2. ~stale => forAvg # NoNode
    <3>1. NoNode \notin Node
      BY SmRingAssumption DEF Node, NoNode
    <3> QED
      BY <1>1, <2>1, <3>1 DEF IInv, PointerSet
  <2>3. Handing'
    BY <1>1, <1>2, <1>3, <2>1, <2>2 DEF Handing, OnceIn
  <2> QED
    BY <1>4, <2>1, <2>3
<1>7. CASE AvfDone /\ stale
  <2>1. InHand' = InHand /\ averaged' = averaged /\ avf' = "wait" /\ ~InHand' /\ ~stale'
    BY <1>1, <1>7 DEF AvfDone, InHand, OneEvent
  <2>2. Handing'
    BY <2>1 DEF Handing
  <2> QED
    BY <1>4, <2>1, <2>2
<1>8. CASE AvfDone /\ ~stale
  <2>1. /\ InHand /\ ~InHand' /\ averaged' = handed /\ avf' = "wait" /\ event' = event
        /\ ~stale'
    BY <1>1, <1>8 DEF AvfDone, InHand, OneEvent
  <2>2. Base' = Base
    BY <1>2, <2>1 DEF Base
  <2>3. InRingOrder /\ InRingOrder'
    BY <1>1, <1>2, <1>3, <2>1, TakenApart DEF InRingOrder
  <2>4. ~SecondSwapped
    BY <2>1 DEF SecondSwapped
  <2>5. ~SecondSwapped'
    <3>1. current \in Node /\ RingSize >= Batch + 1 /\ RingSize \in Nat /\ Batch \in Nat
      BY <1>1, RingFacts DEF IInv, RingTypeOK
    <3>2. Batch >= 2 => StepsBack(current, 1) # StepsBack(current, 2)
      <4>1. Batch >= 2 => 1 \in 0 .. RingSize - 1 /\ 2 \in 0 .. RingSize - 1
        BY <3>1
      <4> QED
        BY <3>1, <4>1, Walk
    <3>3. StepsBack(current, 1) = NodeBefore(current)
      BY <3>1, Walk
    <3> QED
      BY <1>2, <2>3, <3>2, <3>3 DEF SecondSwapped, InRingOrder
  <2>6. Collected' = Collected
    BY <1>2, <2>4, <2>5 DEF Collected
  <2>7. Counting'
    BY <1>1, <1>2, <1>3, <2>2, <2>3, <2>6 DEF Counting, OnceIn
  <2>8. Handing'
    BY <2>1 DEF Handing, InHand
  <2> QED
    BY <2>7, <2>8
<1> QED
  BY <1>5, <1>6, <1>7, <1>8

\* Every step keeps it.
LEMMA OnceInvStep ==
  ASSUME RoomyRing, OnceInv, [RingNext]_ringVars
  PROVE  OnceInv'
<1>1. IInv' /\ Buffers'
  BY NextIInv, BuffersInv DEF OnceInv
<1> SUFFICES (irq' /\ dropping' => Restarting') /\ (Running' => Counting' /\ Handing')
  BY <1>1, OneEventStep DEF OnceInv, Running
<1>2. CASE Launch
  <2>1. filled <= filled
    BY DEF OnceInv, IInv, RingTypeOK, MatrixCount
  <2> QED
    BY <1>2, <2>1 DEF Launch, RestartAvf, Restarting, Running
<1>3. CASE Stop
  BY <1>3 DEF Stop, Running
<1>4. CASE MatrixReady
  <2>1. UNCHANGED <<irq, dropping, current, nbSm, event, avf, addr, stale, handed>>
        /\ filled' = filled + 1
    BY <1>4 DEF MatrixReady
  <2>2. writing' = addr[active']
    BY <1>4 DEF MatrixReady
  <2>3. irq /\ dropping => Restarting'
    <3>1. handed \in Nat /\ filled \in Nat
      BY DEF OnceInv, IInv, RingTypeOK, MatrixCount
    <3> QED
      BY <2>1, <2>2, <3>1 DEF OnceInv, Restarting
  <2>4. Running => Counting' /\ Handing'
    BY <1>4, ReadyOnce
  <2> QED
    BY <2>1, <2>3, <2>4 DEF Running
<1>5. CASE MatrixIsr
  <2>1. Running /\ irq' = irq /\ dropping' = dropping
    BY <1>5 DEF MatrixIsr, Running
  <2> QED
    BY <1>5, <2>1, IsrOnce DEF Running
<1>6. CASE BothIsr
  <2>1. Running /\ irq' = irq /\ dropping' = dropping
    BY <1>6 DEF BothIsr, Running
  <2> QED
    BY <1>6, <2>1, BothOnce DEF Running
<1>7. CASE RestartIsr
  BY <1>7, RestartOnce DEF Running
<1>8. CASE AvfWakes \/ AvfTakes \/ AvfDone
  <2>1. irq' = irq /\ dropping' = dropping
    BY <1>8 DEF AvfWakes, AvfTakes, AvfDone, module
  <2>2. irq /\ dropping => Restarting'
    <3>1. /\ UNCHANGED <<current, nbSm, handed, filled, addr, full, writing, active>>
          /\ event \/ avf \in {"ready", "averaging"}
          /\ AvfDone \/ (avf' \in {"ready", "averaging"} /\ stale' = stale)
      BY <1>8 DEF AvfWakes, AvfTakes, AvfDone, module
    <3>2. AvfDone /\ irq => ~event' /\ avf' = "wait"
      BY DEF AvfDone, OnceInv, OneEvent
    <3> QED
      BY <2>1, <3>1, <3>2 DEF OnceInv, Restarting
  <2> QED
    BY <1>8, <2>1, <2>2, AvfOnce DEF Running
<1>9. CASE UNCHANGED ringVars
  <2>1. UNCHANGED <<current, forAvg, nbSm, addr, full, active, writing, irq, dropping,
                    data, filled, event, avf, batch, handed, averaged, stale, lost>>
    BY <1>9 DEF ringVars
  <2>2. /\ Waiting' = Waiting /\ InHand' = InHand /\ Taken' = Taken
        /\ Running' = Running /\ Restarting' = Restarting
    BY <2>1 DEF Waiting, InHand, Taken, Running, Restarting
  <2>3. First' = First /\ Second' = Second /\ Base' = Base
    BY <2>1, <2>2 DEF First, Second, Base
  <2>4. /\ InRingOrder' = InRingOrder /\ FirstSwapped' = FirstSwapped
        /\ SecondSwapped' = SecondSwapped
    BY <2>1, <2>2, <2>3 DEF InRingOrder, FirstSwapped, SecondSwapped
  <2>5. Collected' = Collected
    BY <2>1, <2>4 DEF Collected
  <2>6. Counting' = Counting /\ Handing' = Handing
    BY <2>1, <2>2, <2>3, <2>4, <2>5 DEF Counting, Handing, OnceIn
  <2> QED
    BY <2>1, <2>2, <2>6 DEF OnceInv, Running
<1> QED
  BY <1>2, <1>3, <1>4, <1>5, <1>6, <1>7, <1>8, <1>9 DEF RingNext

\* It holds from the start, module and interrupt running.
LEMMA OnceInvHolds == ASSUME RoomyRing PROVE RingSpec => []OnceInv
<1>1. RingInit => OnceInv
  <2> SUFFICES ASSUME RingInit PROVE OnceInv
    OBVIOUS
  <2>1. IInv
    BY InitIInv
  <2>2. Buffers
    BY DEF RingInit, Buffers, Waiting
  <2>3. ~irq
    BY DEF RingInit
  <2> QED
    BY <2>1, <2>2, <2>3 DEF OnceInv, Running
<1>2. OnceInv /\ [RingNext]_ringVars => OnceInv'
  BY OnceInvStep
<1> QED
  BY <1>1, <1>2, PTL DEF RingSpec

\* Every matrix since the restart of the channel is averaged once, in its order and
\* whole, except those the interrupt or the restart drops: while AVF walks back over
\* the nodes of its batch, the module and the interrupt, which go on, are elsewhere in
\* the ring (spectral_matrices_isr, getRingNodeForAveraging, avf0_task).
THEOREM MatricesAveragedOnce == RoomyRing /\ RingSpec => []EveryMatrixOnce
<1> SUFFICES ASSUME RoomyRing PROVE RingSpec => []EveryMatrixOnce
  BY DEF RoomyRing
<1>1. ASSUME OnceInv PROVE EveryMatrixOnce
  <2> SUFFICES ASSUME avf = "averaging"
               PROVE  IF FollowsNull THEN stale
                      ELSE /\ InBatch = (averaged + 1 .. handed) \ lost
                           /\ Cardinality(InBatch) = Batch
    BY DEF EveryMatrixOnce
  <2>0. CASE stale
    <3>1. 1 \in 1 .. Batch /\ batch[1] = NoNode
      BY <1>1, <2>0, RingFacts DEF OnceInv, Buffers, OneEvent
    <3> QED
      BY <2>0, <3>1 DEF FollowsNull
  <2> SUFFICES ASSUME ~stale
               PROVE  /\ ~FollowsNull
                      /\ InBatch = (averaged + 1 .. handed) \ lost
                      /\ Cardinality(InBatch) = Batch
    BY <2>0
  <2>1. Running /\ InHand
    BY <1>1 DEF OnceInv, Running, Buffers, Restarting, InHand
  <2>2. /\ \A i \in 1 .. Batch : batch[i] = StepsBack(forAvg, Batch - i)
        /\ Once(data, lost, Taken, averaged, handed)
        /\ \A i \in 1 .. Batch :
             StepsBack(forAvg, Batch - i) = StepsBack(current, nbSm + 2 + (Batch - i))
        /\ nbSm + Waiting <= Lag /\ IInv /\ Counting
    BY <1>1, <2>1, TakenApart DEF OnceInv, Handing, OnceIn
  <2>3. Taken = {batch[i] : i \in 1 .. Batch}
    BY <2>2 DEF Taken
  <2>7. ~FollowsNull
    <3>1. NoNode \notin Node
      BY SmRingAssumption DEF Node, NoNode
    <3>2. Taken \subseteq Node
      BY <1>1, <2>1, TakenApart DEF OnceInv
    <3> QED
      BY <2>3, <3>1, <3>2 DEF FollowsNull
  <2>4. InBatch = (averaged + 1 .. handed) \ lost
    BY <2>2, <2>3 DEF InBatch, Once
  <2>5. ASSUME NEW i \in 1 .. Batch, NEW j \in 1 .. Batch, data[batch[i]] = data[batch[j]]
        PROVE  i = j
    <3>1. batch[i] = batch[j]
      BY <2>2, <2>3, <2>5 DEF Once
    <3> DEFINE k == nbSm + 2 + (Batch - i)
               l == nbSm + 2 + (Batch - j)
    <3>2. /\ RingSize \in Nat /\ Batch \in Nat /\ Lag \in Nat /\ nbSm \in Nat /\ Waiting \in Nat
          /\ RingSize >= Batch + Lag + 1 /\ nbSm + Waiting <= Lag /\ current \in Node
      <4>1. RingSize \in Nat /\ Batch \in Nat /\ Lag \in Nat /\ RingSize >= Batch + Lag + 1
        BY RingFacts DEF RoomyRing
      <4>2. RingTypeOK
        BY <2>2 DEF IInv
      <4>3. nbSm \in Nat /\ current \in Node
        BY <4>2, RingFacts DEF RingTypeOK
      <4>4. Waiting \in Nat
        BY DEF Waiting
      <4> QED
        BY <2>2, <4>1, <4>3, <4>4
    <3>3. k \in 2 .. RingSize /\ l \in 2 .. RingSize
      BY <3>2
    <3>4. StepsBack(current, k) = StepsBack(current, l)
      BY <2>2, <3>1
    <3> HIDE DEF k, l
    <3>5. /\ StepsBack(current, RingSize) = StepsBack(current, 0)
          /\ \A x, y \in 0 .. RingSize - 1 : StepsBack(current, x) = StepsBack(current, y) => x = y
      BY <3>2, Walk
    <3>6. k = l
      <4>1. CASE k = RingSize /\ l # RingSize
        <5>1. l \in 0 .. RingSize - 1 /\ 0 \in 0 .. RingSize - 1 /\ l # 0
          BY <3>2, <3>3, <4>1
        <5> QED
          BY <3>4, <3>5, <4>1, <5>1
      <4>2. CASE k # RingSize /\ l = RingSize
        <5>1. k \in 0 .. RingSize - 1 /\ 0 \in 0 .. RingSize - 1 /\ k # 0
          BY <3>2, <3>3, <4>2
        <5> QED
          BY <3>4, <3>5, <4>2, <5>1
      <4>3. CASE k # RingSize /\ l # RingSize
        <5>1. k \in 0 .. RingSize - 1 /\ l \in 0 .. RingSize - 1
          BY <3>2, <3>3, <4>3
        <5> QED
          BY <3>4, <3>5, <5>1
      <4> QED
        BY <4>1, <4>2, <4>3
    <3> QED
      BY <3>2, <3>6 DEF k, l
  <2>6. Cardinality(InBatch) = Batch
    <3> DEFINE f == [i \in 1 .. Batch |-> data[batch[i]]]
    <3>1. f \in Bijection(1 .. Batch, InBatch)
      BY <2>5, Zenon DEF InBatch, Bijection, Injection, Surjection, IsInjective
    <3>2. ExistsBijection(1 .. Batch, InBatch)
      BY <3>1 DEF ExistsBijection
    <3> QED
      BY <3>2, FS_CountingElements, RingFacts
  <2> QED
    BY <2>4, <2>6, <2>7
<1> QED
  BY <1>1, OnceInvHolds, PTL

=============================================================================
