-------------------------- MODULE Averaging_proofs --------------------------
(***************************************************************************)
(* Proofs about Averaging, for all consistent periods and rings of any     *)
(* size: nothing due is lost, and each product averages one whole period.  *)
(*                                                                         *)
(* The first needs the counters in step (IInv).  The second needs what     *)
(* each sum of the ring holds (SumInv): the sum in progress is whole since *)
(* its first batch, and one that waits for PRC is as many nodes behind as  *)
(* whole periods have ended since, hence is not overwritten in time.       *)
(***************************************************************************)
EXTENDS Averaging, Integers, FiniteSetTheorems, TLAPS

\* The counter of a product and that of BP1 advance together: they differ by
\* whole periods of BP1, and that of BP1 is below its period.
InStep(one, other) ==
  /\ nb[one] \in Nat /\ nb[one] < Before(one)
  /\ \E q \in Nat : nb[other] = q * Before(one) + nb[one]

CountersInStep ==
  mode # "STANDBY" =>
    /\ InStep("norm_bp1", "norm_bp2")
    /\ InStep("norm_bp1", "norm_asm")
    /\ InStep("sbm_bp1", "sbm_bp2")

\* A message with a product asks for BP1 too.
Complete(e) ==
  /\ "norm_bp2" \in e \/ "norm_asm" \in e => "norm_bp1" \in e
  /\ "sbm_bp2" \in e => "sbm_bp1" \in e

\* Messages are looked at through their events only.
QueueComplete ==
  /\ \E S : queue \in Seq(S)
  /\ \A i \in 1 .. Len(queue) : Complete(queue[i].event)

IInv == /\ mode \in Mode \cup {"STANDBY"}
        /\ CountersInStep
        /\ QueueComplete

-----------------------------------------------------------------------------
(* Periods *)

\* Two counters in step reach the end of the longer period together.
LEMMA TogetherAtTheEnd ==
  ASSUME NEW p \in Nat \ {0}, NEW k \in Nat, NEW q \in Nat, NEW a \in Nat,
         a < p, q * p + a + 1 = k * p
  PROVE  a + 1 = p
<1>1. (k - q) * p = a + 1
  OBVIOUS
<1>2. k - q \in Int /\ p \in Int
  OBVIOUS
<1>3. k - q >= 1
  <2>1. CASE k - q <= 0
    <3>1. (k - q) * p <= 0
      BY <2>1, <1>2
    <3> QED
      BY <3>1, <1>1
  <2> QED
    BY <2>1, <1>2
<1>4. CASE k - q >= 2
  <2>1. (k - q) * p >= 2 * p
    BY <1>4, <1>2
  <2> QED
    BY <2>1, <1>1
<1>5. CASE k - q = 1
  BY <1>5, <1>1
<1> QED
  BY <1>2, <1>3, <1>4, <1>5

\* A multiple of a period is a whole number of periods.
LEMMA Multiple == ASSUME NEW p \in Nat \ {0}, NEW m \in Nat, m % p = 0
                  PROVE  \E k \in Nat : m = k * p
<1>1. m = p * (m \div p) + (m % p) /\ m \div p \in Nat
  OBVIOUS
<1> QED
  BY <1>1

\* The periods of every mode are positive, and those of the products are
\* whole numbers of periods of BP1 (ParameterAssumption).
LEMMA PeriodsPositive ==
  /\ Before("norm_bp1") \in Nat \ {0} /\ Before("sbm_bp1") \in Nat \ {0}
  /\ \E k \in Nat : Before("norm_bp2") = k * Before("norm_bp1")
  /\ \E k \in Nat : Before("norm_asm") = k * Before("norm_bp1")
  /\ \E k \in Nat : Before("sbm_bp2") = k * Before("sbm_bp1")
<1>1. /\ Before("norm_bp1") = Norm.bp1 /\ Before("norm_bp2") = Norm.bp2
      /\ Before("norm_asm") = Norm.asm
      /\ Before("sbm_bp1") = SbmPeriods.bp1 /\ Before("sbm_bp2") = SbmPeriods.bp2
  BY DEF Before
<1>2. \E m \in DOMAIN Sbm : SbmPeriods = Sbm[m]
  BY ParameterAssumption DEF SbmPeriods, SbmMode
<1>3. SbmPeriods.bp1 \in Nat \ {0} /\ SbmPeriods.bp2 \in Nat /\ SbmPeriods.bp2 % SbmPeriods.bp1 = 0
  BY <1>2, ParameterAssumption
<1>4. /\ Norm.bp1 \in Nat \ {0} /\ Norm.bp2 \in Nat /\ Norm.asm \in Nat
      /\ Norm.bp2 % Norm.bp1 = 0 /\ Norm.asm % Norm.bp1 = 0
  BY ParameterAssumption
<1>5. /\ \E k \in Nat : Norm.bp2 = k * Norm.bp1
      /\ \E k \in Nat : Norm.asm = k * Norm.bp1
  BY <1>4, Multiple
<1>6. \E k \in Nat : SbmPeriods.bp2 = k * SbmPeriods.bp1
  BY <1>3, Multiple
<1> QED
  BY <1>1, <1>3, <1>4, <1>5, <1>6, Zenon

\* A batch keeps two counters in step, and ends the longer period only with
\* the shorter one (the counters of avf0_task, avf1_task and avf2_task).
LEMMA BatchInStep ==
  ASSUME NEW one \in Counter, NEW other \in Counter, InStep(one, other),
         Before(one) \in Nat \ {0}, \E k \in Nat : Before(other) = k * Before(one),
         Counts(one) <=> Counts(other),
         nb' = [c \in Counter |-> IF Due(c) \/ ~Counts(c) THEN 0 ELSE nb[c] + 1],
         UNCHANGED <<mode, channel>>
  PROVE  InStep(one, other)' /\ (Due(other) => Due(one))
<1> DEFINE p == Before(one)
<1>0. p \in Nat \ {0}
  OBVIOUS
<1>1. PICK q \in Nat : nb[other] = q * p + nb[one]
  BY DEF InStep
<1>2. PICK k \in Nat : Before(other) = k * p
  OBVIOUS
<1>3. Before(one)' = p
  BY DEF Before, SbmPeriods, SbmMode
<1>4. nb[one] \in Nat /\ nb[one] < p
  BY DEF InStep
<1>5. Due(other) => Due(one)
  <2>1. SUFFICES ASSUME Due(other) PROVE nb[one] + 1 = p
    BY DEF Due
  <2>2. q * p + nb[one] + 1 = k * p
    BY <2>1, <1>1, <1>2 DEF Due
  <2> HIDE DEF p
  <2> QED
    BY <2>2, <1>0, <1>4, TogetherAtTheEnd
<1>6. /\ nb'[one] = IF Due(one) \/ ~Counts(one) THEN 0 ELSE nb[one] + 1
      /\ nb'[other] = IF Due(other) \/ ~Counts(other) THEN 0 ELSE nb[other] + 1
  OBVIOUS
<1>7. nb'[one] \in Nat /\ nb'[one] < p
  BY <1>4, <1>6 DEF Due
<1>8. \E r \in Nat : nb'[other] = r * p + nb'[one]
  <2>0. CASE ~Counts(other)
    <3>1. nb'[other] = 0 * p + nb'[one]
      BY <2>0, <1>6
    <3> QED
      BY <3>1
  <2>1. CASE Due(other)
    <3>1. nb'[other] = 0 * p + nb'[one]
      BY <2>1, <1>5, <1>6
    <3> QED
      BY <3>1
  <2>2. CASE Counts(other) /\ ~Due(other) /\ Due(one)
    <3>1. nb'[other] = q * p + p /\ nb'[one] = 0
      BY <2>2, <1>1, <1>4, <1>6 DEF Due
    <3>2. q * p + p = (q + 1) * p + 0
      BY DEF p
    <3> HIDE DEF p
    <3> QED
      BY <3>1, <3>2
  <2>3. CASE Counts(other) /\ ~Due(other) /\ ~Due(one)
    <3>1. nb'[other] = q * p + nb'[one]
      BY <2>3, <1>1, <1>4, <1>6
    <3> HIDE DEF p
    <3> QED
      BY <3>1
  <2> QED
    BY <2>0, <2>1, <2>2, <2>3
<1> QED
  BY <1>3, <1>5, <1>7, <1>8 DEF InStep

-----------------------------------------------------------------------------
(* The invariant *)

LEMMA InitIInv == Init => IInv
<1>1. <<>> \in Seq({}) /\ Len(<<>>) = 0
  OBVIOUS
<1> QED
  BY <1>1 DEF Init, IInv, CountersInStep, QueueComplete

\* Restarted counters are in step.
LEMMA RestartIInv == ASSUME IInv, NEW m \in Mode, Restart(m) PROVE IInv'
<1>1. nb' = Zero /\ mode' \in Mode /\ UNCHANGED queue
  BY DEF Restart
<1>2. \A c \in Counter : nb'[c] = 0
  BY <1>1 DEF Zero
<1>3. Before("norm_bp1")' \in Nat \ {0}
  BY ParameterAssumption DEF Before
<1>4. Before("sbm_bp1")' \in Nat \ {0}
  <2>1. \E d \in DOMAIN Sbm : SbmPeriods' = Sbm[d]
    BY ParameterAssumption DEF SbmPeriods, SbmMode
  <2> QED
    BY <2>1, ParameterAssumption DEF Before
<1>5. ASSUME NEW one \in Counter, NEW other \in Counter, Before(one)' \in Nat \ {0}
      PROVE  InStep(one, other)'
  <2>1. nb'[other] = 0 * Before(one)' + nb'[one] /\ nb'[one] = 0
    BY <1>2, <1>5
  <2> QED
    BY <1>5, <2>1 DEF InStep
<1>6. CountersInStep'
  BY <1>3, <1>4, <1>5 DEF CountersInStep, Counter, SbmCounter
<1> QED
  BY <1>1, <1>6 DEF IInv, QueueComplete

\* A batch keeps the counters in step, and its message is complete.
LEMMA AvfIInv == ASSUME IInv, Avf PROVE IInv'
<1>1. /\ mode # "STANDBY" /\ UNCHANGED <<mode, channel>>
      /\ nb' = [c \in Counter |-> IF Due(c) \/ ~Counts(c) THEN 0 ELSE nb[c] + 1]
  BY DEF Avf
<1>2. /\ InStep("norm_bp1", "norm_bp2")' /\ (Due("norm_bp2") => Due("norm_bp1"))
      /\ InStep("norm_bp1", "norm_asm")' /\ (Due("norm_asm") => Due("norm_bp1"))
      /\ InStep("sbm_bp1", "sbm_bp2")' /\ (Due("sbm_bp2") => Due("sbm_bp1"))
  <2>1. {"norm_bp1", "norm_bp2", "norm_asm", "sbm_bp1", "sbm_bp2"} \subseteq Counter
    BY DEF Counter, SbmCounter
  <2>3. /\ Counts("norm_bp1") /\ Counts("norm_bp2") /\ Counts("norm_asm")
        /\ Counts("sbm_bp1") <=> Counts("sbm_bp2")
    BY DEF Counts, SbmCounter
  <2>2. /\ InStep("norm_bp1", "norm_bp2") /\ InStep("norm_bp1", "norm_asm")
        /\ InStep("sbm_bp1", "sbm_bp2")
    BY <1>1 DEF IInv, CountersInStep
  <2> QED
    BY <1>1, <2>1, <2>2, <2>3, PeriodsPositive, BatchInStep
<1>3. Complete({c \in Enabled : Due(c)})
  BY <1>2 DEF Complete, Enabled
<1>4. QueueComplete'
  <2> DEFINE m == [node |-> cur, info |-> msg', event |-> {c \in Enabled : Due(c)},
                   last |-> clock']
  <2>1. CASE queue' = queue
    BY <2>1 DEF IInv, QueueComplete
  <2>2. CASE queue' = Append(queue, m)
    <3>1. m.event = {c \in Enabled : Due(c)}
      OBVIOUS
    <3>2. Complete(m.event)
      BY <1>3, <3>1
    <3> HIDE DEF m
    <3>3. PICK S : queue \in Seq(S)
      BY DEF IInv, QueueComplete
    <3>4. /\ Len(queue') = Len(queue) + 1
          /\ \A i \in 1 .. Len(queue') :
               queue'[i] = IF i <= Len(queue) THEN queue[i] ELSE m
      BY <2>2, <3>3
    <3>5. queue' \in Seq(S \cup {m})
      BY <2>2, <3>3
    <3>6. \A i \in 1 .. Len(queue') : Complete(queue'[i].event)
      BY <3>2, <3>4 DEF IInv, QueueComplete
    <3> QED
      BY <3>4, <3>5, <3>6 DEF IInv, QueueComplete
  <2> QED
    BY <2>1, <2>2 DEF Avf
<1> QED
  BY <1>1, <1>2, <1>4 DEF IInv, CountersInStep

\* PRC takes the first message only.
LEMMA PrcIInv == ASSUME IInv, Prc PROVE IInv'
<1>1. queue # <<>> /\ queue' = Tail(queue) /\ UNCHANGED <<mode, channel, nb>>
  BY DEF Prc
<1>2. PICK S : queue \in Seq(S)
  BY DEF IInv, QueueComplete
<1>3. /\ Len(queue') = Len(queue) - 1 /\ Len(queue') \in Nat
      /\ \A i \in 1 .. Len(queue') : queue'[i] = queue[i + 1]
      /\ queue' \in Seq(S)
  BY <1>1, <1>2
<1>4. QueueComplete'
  BY <1>3 DEF IInv, QueueComplete
<1>5. CountersInStep'
  BY <1>1 DEF IInv, CountersInStep, InStep, Before, SbmPeriods, SbmMode
<1> QED
  BY <1>1, <1>4, <1>5 DEF IInv

LEMMA NextIInv == IInv /\ [Next]_vars => IInv'
<1> SUFFICES ASSUME IInv, [Next]_vars PROVE IInv'
  OBVIOUS
<1>1. ASSUME NEW m \in Mode, Restart(m) PROVE IInv'
  BY <1>1, RestartIInv
<1>2. CASE Suspend
  BY <1>2 DEF Suspend, IInv, CountersInStep, QueueComplete
<1>3. CASE Avf
  BY <1>3, AvfIInv
<1>4. CASE Prc
  BY <1>4, PrcIInv
<1>5. CASE UNCHANGED vars
  BY <1>5 DEF vars, IInv, CountersInStep, InStep, Before, SbmPeriods, SbmMode, QueueComplete
<1> QED
  BY <1>1, <1>2, <1>3, <1>4, <1>5 DEF Next

\* With consistent periods, whatever they are, a product is never due without
\* BP1, on which PRC relies to compute it (avf0_task, prc0_task, avf1_task, prc1_task).
THEOREM NothingLost == Spec => []NothingDueIsLost
<1>1. IInv => NothingDueIsLost
  BY DEF IInv, QueueComplete, Complete, NothingDueIsLost
<1> QED
  BY <1>1, InitIInv, NextIInv, PTL DEF Spec

-----------------------------------------------------------------------------
(* Each sum is that of a whole period                                      *)

\* The valid batches from first to last, their number and the date of the first
Whole(sum, info, bad, first, last) ==
  /\ sum = (first .. last) \ bad
  /\ info.n = Cardinality(sum) /\ info.time = first

\* gap batches ago node was left for the next one, and whole periods have ended
\* since: the current node is here, and not node again before all the others.
Behind(node, here, gap, count, period, size) ==
  \E k \in 0 .. size - 1 :
    /\ gap = k * period + count
    /\ here = IF node + 1 + k < size THEN node + 1 + k ELSE node + 1 + k - size

\* A sum a message points to, which ended at last
Held(sums, node, info, bad, last, period, now, here, count, size) ==
  /\ Whole(sums[node], info, bad, last - period + 1, last)
  /\ Behind(node, here, now - last, count, period, size)

Info == [n : 0 .. MaxBatches, time : 0 .. MaxBatches]
Nodes == [norm : 0 .. NormRing - 1, sbm : 0 .. SbmRing - 1]
MessageSet == [node : Nodes, info : [norm : Info, sbm : Info],
               event : SUBSET Counter, last : Batches]

History == /\ since <= clock /\ polluted \subseteq 1 .. clock
           /\ \A c \in Counter : nb[c] <= clock

\* The sum in progress
Gathering(count, sum, info) ==
  count > 0 => Whole(sum, info, polluted, clock - count + 1, clock)
Gathered == /\ Gathering(nb["norm_bp1"], acc.norm[cur.norm], msg.norm)
            /\ Gathering(nb["sbm_bp1"], acc.sbm[cur.sbm], msg.sbm)

\* The sums of a message sent since the last mode change
NormHeld(m) ==
  Held(acc.norm, m.node.norm, m.info.norm, polluted, m.last, Norm.bp1,
       clock, cur.norm, nb["norm_bp1"], NormRing)
SbmHeld(m) ==
  /\ mode \in SbmMode /\ channel # 2
  /\ Held(acc.sbm, m.node.sbm, m.info.sbm, polluted, m.last, SbmPeriods.bp1,
          clock, cur.sbm, nb["sbm_bp1"], SbmRing)

HeldForPrc ==
  \A i \in 1 .. Len(queue) :
    /\ queue[i].last <= clock
    /\ Fresh(queue[i]) /\ "norm_bp1" \in queue[i].event => NormHeld(queue[i])
    /\ Fresh(queue[i]) /\ "sbm_bp1" \in queue[i].event /\ mode # "STANDBY" => SbmHeld(queue[i])

SumInv == /\ IInv /\ TypeOK /\ queue \in Seq(MessageSet)
          /\ History /\ Gathered /\ HeldForPrc

\* SM_average keeps a sum whole, with its number of matrices and its date.
LEMMA BatchAdded ==
  ASSUME NEW bad, clock \in Nat, bad \subseteq 1 .. clock, NEW count \in 0 .. clock,
         NEW sum, NEW info \in [n : Nat, time : Nat], NEW valid \in BOOLEAN,
         count > 0 => Whole(sum, info, bad, clock - count + 1, clock)
  PROVE  Whole(Add(sum, count, valid), Note(info, count, valid),
               IF valid THEN bad ELSE bad \cup {clock + 1}, clock - count + 1, clock + 1)
<1> DEFINE s == IF count = 0 THEN {} ELSE sum
           s2 == s \cup (IF valid THEN {clock + 1} ELSE {})
<1>1. s = (clock - count + 1 .. clock) \ bad
  BY DEF Whole
<1>2. IsFiniteSet(s) /\ clock + 1 \notin s
  <2>1. IsFiniteSet(clock - count + 1 .. clock)
    BY FS_Interval
  <2> QED
    BY <1>1, <2>1, FS_Subset
<1>3. Cardinality(s) = (IF count = 0 THEN 0 ELSE info.n) /\ Cardinality(s) \in Nat
  BY <1>2, FS_EmptySet, FS_CardinalityType DEF Whole
<1>4. Cardinality(s2) = Cardinality(s) + (IF valid THEN 1 ELSE 0)
  <2>1. CASE valid
    <3>1. s2 = s \cup {clock + 1}
      BY <2>1
    <3> HIDE DEF s, s2
    <3> QED
      BY <3>1, <2>1, <1>2, FS_AddElement
  <2>2. CASE ~valid
    <3>1. s2 = s
      BY <2>2
    <3> HIDE DEF s, s2
    <3> QED
      BY <3>1, <2>2, <1>3
  <2> QED
    BY <2>1, <2>2
<1>5. s2 = (clock - count + 1 .. clock + 1) \ (IF valid THEN bad ELSE bad \cup {clock + 1})
  <2>1. CASE valid
    BY <1>1, <2>1
  <2>2. CASE ~valid
    BY <1>1, <2>2
  <2> QED
    BY <2>1, <2>2
<1>6. s2 = Add(sum, count, valid)
  BY DEF Add
<1>7. /\ Note(info, count, valid).time = clock - count + 1
      /\ Note(info, count, valid).n = Cardinality(s) + (IF valid THEN 1 ELSE 0)
  <2>1. CASE count = 0
    BY <2>1, <1>3 DEF Note
  <2>2. CASE count # 0
    <3>1. info.time = clock - count + 1
      BY <2>2 DEF Whole
    <3>2. Note(info, count, valid) = [info EXCEPT !.n = @ + (IF valid THEN 1 ELSE 0)]
      BY <2>2 DEF Note
    <3> QED
      BY <3>1, <3>2, <2>2, <1>3
  <2> QED
    BY <2>1, <2>2
<1> QED
  BY <1>4, <1>5, <1>6, <1>7 DEF Whole

\* A node comes back after all the others only.
LEMMA BehindMoves ==
  ASSUME NEW size \in Nat \ {0}, NEW period \in Nat \ {0}, NEW count \in Nat, count < period,
         NEW node \in 0 .. size - 1, NEW here \in 0 .. size - 1, NEW gap \in Nat,
         Behind(node, here, gap, count, period, size), gap < (size - 1) * period
  PROVE  /\ here # node
         /\ Behind(node, IF count + 1 = period THEN NextNode(here, size) ELSE here, gap + 1,
                   IF count + 1 = period THEN 0 ELSE count + 1, period, size)
<1>1. PICK k \in 0 .. size - 1 :
        /\ gap = k * period + count
        /\ here = IF node + 1 + k < size THEN node + 1 + k ELSE node + 1 + k - size
  BY DEF Behind
<1>2. k < size - 1
  <2>1. SUFFICES ASSUME k >= size - 1 PROVE FALSE
    OBVIOUS
  <2>2. k = size - 1
    BY <2>1
  <2> QED
    BY <1>1, <2>2
<1>3. here # node
  BY <1>1, <1>2
<1>4. CASE count + 1 = period
  <2>1. gap + 1 = (k + 1) * period + 0
    <3>1. (k + 1) * period = k * period + period
      OBVIOUS
    <3> QED
      BY <1>1, <1>4, <3>1
  <2>2. NextNode(here, size) = IF node + 1 + (k + 1) < size THEN node + 1 + (k + 1)
                               ELSE node + 1 + (k + 1) - size
    BY <1>1, <1>2 DEF NextNode
  <2>3. k + 1 \in 0 .. size - 1
    BY <1>2
  <2> QED
    BY <1>3, <1>4, <2>1, <2>2, <2>3 DEF Behind
<1>5. CASE count + 1 # period
  <2>1. gap + 1 = k * period + (count + 1)
    BY <1>1
  <2> QED
    BY <1>1, <1>3, <1>5, <2>1 DEF Behind
<1> QED
  BY <1>4, <1>5

\* One ring of sums and its state after a batch
OneBatch(bad, bad2, valid, size, period, count, count2, sums, sums2, here, here2, info, info2) ==
  /\ clock \in Nat /\ bad \subseteq 1 .. clock /\ valid \in BOOLEAN
  /\ bad2 = IF valid THEN bad ELSE bad \cup {clock + 1}
  /\ size \in Nat \ {0} /\ period \in Nat \ {0} /\ PrcLag <= (size - 1) * period
  /\ count \in 0 .. clock /\ count < period
  /\ sums \in [0 .. size - 1 -> SUBSET Nat] /\ here \in 0 .. size - 1
  /\ info \in [n : Nat, time : Nat]
  /\ count > 0 => Whole(sums[here], info, bad, clock - count + 1, clock)
  /\ sums2 = [sums EXCEPT ![here] = Add(@, count, valid)]
  /\ info2 = Note(info, count, valid)
  /\ count2 = IF count + 1 = period THEN 0 ELSE count + 1
  /\ here2 = IF count + 1 = period THEN NextNode(here, size) ELSE here

\* The sum in progress grows, a period may end, and the sums that wait for PRC
\* stay as they are.
Moved(bad, bad2, valid, size, period, count, count2, sums, sums2, here, here2, info, info2) ==
  /\ Whole(sums2[here], info2, bad2, clock - count + 1, clock + 1)
  /\ count2 > 0 => Whole(sums2[here2], info2, bad2, clock + 1 - count2 + 1, clock + 1)
  /\ \A i : \A node \in 0 .. size - 1, last \in 0 .. clock :
       clock < last + PrcLag /\ Held(sums, node, i, bad, last, period, clock, here, count, size) =>
         Held(sums2, node, i, bad2, last, period, clock + 1, here2, count2, size)
  /\ count + 1 = period =>
       Held(sums2, here, info2, bad2, clock + 1, period, clock + 1, here2, count2, size)

\* SM_average and the counters of AVF on one ring
LEMMA RingMoves ==
  ASSUME NEW bad, NEW bad2, NEW valid, NEW size, NEW period, NEW count, NEW count2,
         NEW sums, NEW sums2, NEW here, NEW here2, NEW info, NEW info2,
         OneBatch(bad, bad2, valid, size, period, count, count2, sums, sums2, here, here2, info, info2)
  PROVE  Moved(bad, bad2, valid, size, period, count, count2, sums, sums2, here, here2, info, info2)
<1> USE DEF OneBatch
<1>1. sums2[here] = Add(sums[here], count, valid)
  OBVIOUS
<1>2. Whole(sums2[here], info2, bad2, clock - count + 1, clock + 1)
  BY <1>1, BatchAdded
<1>3. count2 > 0 => Whole(sums2[here2], info2, bad2, clock + 1 - count2 + 1, clock + 1)
  <2>1. SUFFICES ASSUME count2 > 0
                 PROVE  Whole(sums2[here2], info2, bad2, clock + 1 - count2 + 1, clock + 1)
    OBVIOUS
  <2>2. count2 = count + 1 /\ here2 = here
    BY <2>1
  <2>3. clock + 1 - count2 + 1 = clock - count + 1
    BY <2>2
  <2> QED
    BY <1>2, <2>2, <2>3
<1>4. ASSUME NEW node \in 0 .. size - 1, NEW last \in 0 .. clock, NEW i, clock < last + PrcLag,
             Held(sums, node, i, bad, last, period, clock, here, count, size)
      PROVE  Held(sums2, node, i, bad2, last, period, clock + 1, here2, count2, size)
  <2>0. PrcLag \in Nat
    BY RingAssumption
  <2> DEFINE gap == clock - last
             room == (size - 1) * period
  <2>1. gap \in Nat /\ gap < room
    <3>1. room \in Int /\ PrcLag <= room
      OBVIOUS
    <3> HIDE DEF room
    <3> QED
      BY <1>4, <2>0, <3>1
  <2>2. Behind(node, here, gap, count, period, size)
    BY <1>4 DEF Held
  <2>3. here # node /\ Behind(node, here2, gap + 1, count2, period, size)
    <3> HIDE DEF gap
    <3> QED
      BY <2>1, <2>2, BehindMoves DEF room
  <2>4. clock + 1 - last = gap + 1
    OBVIOUS
  <2>5. sums2[node] = sums[node]
    BY <2>3
  <2>6. (last - period + 1 .. last) \ bad2 = (last - period + 1 .. last) \ bad
    <3>1. CASE valid
      BY <3>1
    <3>2. CASE ~valid
      BY <3>2
    <3> QED
      BY <3>1, <3>2
  <2>7. Whole(sums2[node], i, bad2, last - period + 1, last)
    BY <1>4, <2>5, <2>6 DEF Held, Whole
  <2> HIDE DEF gap
  <2> QED
    BY <2>3, <2>4, <2>7 DEF Held
<1>5. ASSUME count + 1 = period
      PROVE  Held(sums2, here, info2, bad2, clock + 1, period, clock + 1, here2, count2, size)
  <2>1. clock + 1 - period + 1 = clock - count + 1
    BY <1>5
  <2>2. count2 = 0 /\ here2 = NextNode(here, size)
    BY <1>5
  <2>3. /\ 0 \in 0 .. size - 1 /\ clock + 1 - (clock + 1) = 0 * period + 0
        /\ here2 = IF here + 1 + 0 < size THEN here + 1 + 0 ELSE here + 1 + 0 - size
    BY <2>2 DEF NextNode
  <2>4. Behind(here, here2, clock + 1 - (clock + 1), count2, period, size)
    BY <2>2, <2>3 DEF Behind
  <2> QED
    BY <1>2, <2>1, <2>4 DEF Held
<1> QED
  BY <1>2, <1>3, <1>4, <1>5 DEF Moved

\* The periods and the rings
LEMMA RingsFacts ==
  /\ NormRing \in Nat \ {0} /\ SbmRing \in Nat \ {0} /\ PrcLag \in Nat
  /\ Norm.bp1 \in Nat \ {0} /\ SbmPeriods.bp1 \in Nat \ {0}
  /\ PrcLag <= (NormRing - 1) * Norm.bp1 /\ PrcLag <= (SbmRing - 1) * SbmPeriods.bp1
  /\ Before("norm_bp1") = Norm.bp1 /\ Before("sbm_bp1") = SbmPeriods.bp1
<1>1. Before("norm_bp1") = Norm.bp1 /\ Before("sbm_bp1") = SbmPeriods.bp1
  BY DEF Before
<1>2. PICK m \in DOMAIN Sbm : SbmPeriods = Sbm[m]
  BY ParameterAssumption DEF SbmPeriods, SbmMode
<1>3. Norm.bp1 \in Nat \ {0} /\ SbmPeriods.bp1 \in Nat \ {0}
  BY <1>1, PeriodsPositive
<1>4. /\ NormRing \in Nat /\ SbmRing \in Nat /\ PrcLag \in Nat
      /\ PrcLag <= (NormRing - 1) * Norm.bp1 /\ PrcLag <= (SbmRing - 1) * SbmPeriods.bp1
  BY <1>2, RingAssumption
<1>5. ASSUME NEW n \in Nat, NEW p \in Nat \ {0}, PrcLag <= (n - 1) * p PROVE n # 0
  <2>1. SUFFICES ASSUME n = 0 PROVE FALSE
    OBVIOUS
  <2>2. (n - 1) * p = -p
    BY <2>1
  <2> QED
    BY <1>4, <1>5, <2>2
<1> QED
  BY <1>1, <1>3, <1>4, <1>5

\* A sum of batches has no more matrices than there are batches.
LEMMA WholeSize ==
  ASSUME NEW sum, NEW info, NEW bad, NEW first \in Nat \ {0}, NEW last \in Nat,
         Whole(sum, info, bad, first, last)
  PROVE  info.n \in 0 .. last /\ sum \subseteq 1 .. last
<1>1. IsFiniteSet(1 .. last) /\ Cardinality(1 .. last) = last
  BY FS_Interval
<1>2. sum \subseteq 1 .. last
  BY DEF Whole
<1>3. IsFiniteSet(sum) /\ Cardinality(sum) <= last /\ Cardinality(sum) \in Nat
  BY <1>1, <1>2, FS_Subset, FS_CardinalityType
<1> QED
  BY <1>2, <1>3 DEF Whole

-----------------------------------------------------------------------------
(* The steps *)

\* At boot all sums are empty and no batch has come.
LEMMA SumInit == ASSUME Init PROVE SumInv
<1>1. <<>> \in Seq(MessageSet) /\ Len(<<>>) = 0 /\ queue = <<>>
  BY DEF Init
<1>2. IInv
  BY InitIInv
<1>3. TypeOK
  <2>1. 0 \in 0 .. MaxBatches /\ {} \in Sum
    BY BoundAssumption DEF Sum
  <2>2. cur \in [norm : 0 .. NormRing - 1, sbm : 0 .. SbmRing - 1]
    BY RingsFacts DEF Init
  <2>3. acc \in [norm : [0 .. NormRing - 1 -> Sum], sbm : [0 .. SbmRing - 1 -> Sum]]
    BY <2>1 DEF Init
  <2>4. msg \in [norm : [n : 0 .. MaxBatches, time : 0 .. MaxBatches],
                 sbm : [n : 0 .. MaxBatches, time : 0 .. MaxBatches]]
    BY <2>1 DEF Init
  <2>5. comp \in [norm : Matrix, sbm : Matrix]
    BY <2>1 DEF Init, Matrix, Empty
  <2>6. nb \in [Counter -> 0 .. MaxBatches]
    BY <2>1 DEF Init, Zero
  <2>7. Len(queue) <= QueueSize
    BY <1>1, RingAssumption
  <2> QED
    BY <2>1, <2>2, <2>3, <2>4, <2>5, <2>6, <2>7 DEF Init, TypeOK
<1>4. History
  BY DEF Init, History, Zero
<1>5. Gathered
  BY DEF Init, Gathered, Gathering, Zero, Counter, SbmCounter
<1>6. HeldForPrc
  BY <1>1 DEF HeldForPrc
<1> QED
  BY <1>1, <1>2, <1>3, <1>4, <1>5, <1>6 DEF SumInv

\* Messages of before a restart are told by their dates.
LEMMA RestartSum == ASSUME SumInv, NEW m \in Mode, Restart(m) PROVE SumInv'
<1>1. /\ mode' = m /\ since' = clock /\ nb' = Zero /\ cur' = [norm |-> 0, sbm |-> 0]
      /\ UNCHANGED <<channel, clock, polluted, acc, msg, queue, comp>>
  BY DEF Restart
<1>2. clock \in Nat /\ clock \in 0 .. MaxBatches
  BY BoundAssumption DEF SumInv, TypeOK
<1>3. \A c \in Counter : nb'[c] = 0
  BY <1>1 DEF Zero
<1>4. IInv'
  BY RestartIInv DEF SumInv
<1>5. TypeOK'
  <2>1. nb' \in [Counter -> 0 .. MaxBatches]
    BY <1>1, BoundAssumption DEF Zero
  <2>2. cur' \in [norm : 0 .. NormRing - 1, sbm : 0 .. SbmRing - 1]
    BY <1>1, RingsFacts
  <2> QED
    BY <1>1, <1>2, <2>1, <2>2 DEF SumInv, TypeOK
<1>6. History'
  BY <1>1, <1>2, <1>3 DEF SumInv, History
<1>7. Gathered'
  BY <1>3 DEF Gathered, Gathering, Counter, SbmCounter
<1>8. HeldForPrc'
  <2>1. \A i \in 1 .. Len(queue) : queue[i].last <= clock /\ ~(queue[i].last > clock)
    <3> TAKE i \in 1 .. Len(queue)
    <3>1. queue[i] \in MessageSet
      BY DEF SumInv
    <3>2. queue[i].last \in Nat
      BY <3>1, BoundAssumption DEF MessageSet, Batches
    <3> QED
      BY <1>2, <3>2 DEF SumInv, HeldForPrc
  <2> QED
    BY <1>1, <2>1 DEF HeldForPrc, Fresh
<1> QED
  BY <1>1, <1>4, <1>5, <1>6, <1>7, <1>8 DEF SumInv

\* STANDBY leaves the sums as they are; the next mode starts with a restart.
LEMMA SuspendSum == ASSUME SumInv, Suspend PROVE SumInv'
<1>1. /\ mode' = "STANDBY"
      /\ UNCHANGED <<channel, clock, since, polluted, nb, cur, acc, msg, queue, comp>>
  BY DEF Suspend
<1>2. IInv'
  BY <1>1 DEF SumInv, IInv, CountersInStep, QueueComplete
<1>3. TypeOK'
  BY <1>1 DEF SumInv, TypeOK
<1>4. History' /\ Gathered'
  BY <1>1 DEF SumInv, History, Gathered, Gathering
<1>5. HeldForPrc'
  BY <1>1 DEF SumInv, HeldForPrc, NormHeld, Fresh
<1> QED
  BY <1>1, <1>2, <1>3, <1>4, <1>5 DEF SumInv

\* A stutter changes nothing.
LEMMA StutterSum == ASSUME SumInv, UNCHANGED vars PROVE SumInv'
<1>1. IInv'
  BY NextIInv DEF SumInv
<1>2. UNCHANGED <<channel, mode, clock, since, polluted, nb, cur, acc, msg, queue, comp>>
  BY DEF vars
<1>3. TypeOK' /\ History' /\ Gathered'
  BY <1>2 DEF SumInv, TypeOK, History, Gathered, Gathering
<1>4. HeldForPrc'
  BY <1>2 DEF SumInv, HeldForPrc, NormHeld, SbmHeld, SbmMode, SbmPeriods, Fresh
<1> QED
  BY <1>1, <1>2, <1>3, <1>4 DEF SumInv

\* AVF adds a batch, ends periods and tells PRC.
LEMMA AvfSum == ASSUME SumInv, Avf PROVE SumInv'
<1> DEFINE n == nb["norm_bp1"]
           b == nb["sbm_bp1"]
<1>1. /\ mode # "STANDBY" /\ clock < MaxBatches /\ InTime
      /\ clock' = clock + 1 /\ UNCHANGED <<channel, mode, since, comp>>
      /\ nb' = [c \in Counter |-> IF Due(c) \/ ~Counts(c) THEN 0 ELSE nb[c] + 1]
      /\ cur' = [norm |-> IF Due("norm_bp1") THEN NextNode(cur.norm, NormRing) ELSE cur.norm,
                 sbm  |-> IF Due("sbm_bp1") THEN NextNode(cur.sbm, SbmRing) ELSE cur.sbm]
  BY DEF Avf
<1>2. PICK valid \in BOOLEAN :
        /\ polluted' = IF valid THEN polluted ELSE polluted \cup {clock + 1}
        /\ acc' = [norm |-> [acc.norm EXCEPT ![cur.norm] = Add(@, n, valid)],
                   sbm  |-> IF channel = 2 THEN acc.sbm
                            ELSE [acc.sbm EXCEPT ![cur.sbm] = Add(@, b, valid)]]
        /\ msg' = [norm |-> Note(msg.norm, n, valid),
                   sbm  |-> IF channel = 2 THEN msg.sbm ELSE Note(msg.sbm, b, valid)]
  <2>1. (Cardinality(polluted) >= MaxPolluted) \in BOOLEAN
    OBVIOUS
  <2> QED
    BY <2>1, Zenon DEF Avf, n, b
<1>3. /\ clock \in Nat /\ clock + 1 \in 1 .. MaxBatches /\ MaxBatches \in Nat /\ since \in Nat
      /\ since <= clock /\ polluted \subseteq 1 .. clock
      /\ polluted' \subseteq 1 .. clock + 1
  <2>1. clock \in 0 .. MaxBatches /\ since \in 0 .. MaxBatches
    BY DEF SumInv, TypeOK
  <2>2. MaxBatches \in Nat /\ clock < MaxBatches
    BY <1>1, BoundAssumption
  <2>3. since <= clock /\ polluted \subseteq 1 .. clock
    BY DEF SumInv, History
  <2>4. clock \in Nat /\ clock + 1 \in 1 .. MaxBatches /\ since \in Nat
    BY <2>1, <2>2
  <2>5. 1 .. clock \subseteq 1 .. clock + 1 /\ clock + 1 \in 1 .. clock + 1
    BY <2>4
  <2>6. polluted' \subseteq 1 .. clock + 1
    BY <1>2, <2>3, <2>5
  <2> QED
    BY <2>2, <2>3, <2>4, <2>6
<1>4. /\ {"norm_bp1", "sbm_bp1"} \subseteq Counter
      /\ \A c \in Counter : nb[c] \in 0 .. MaxBatches /\ nb[c] <= clock
      /\ n \in 0 .. clock /\ b \in 0 .. clock
  <2>1. {"norm_bp1", "sbm_bp1"} \subseteq Counter
    BY DEF Counter, SbmCounter
  <2>2. \A c \in Counter : nb[c] \in 0 .. MaxBatches /\ nb[c] <= clock
    BY DEF SumInv, TypeOK, History
  <2> QED
    BY <1>3, <2>1, <2>2
<1>5. n < Norm.bp1 /\ b < SbmPeriods.bp1
  BY <1>1, RingsFacts DEF SumInv, IInv, CountersInStep, InStep
<1>6. /\ Counts("norm_bp1") /\ (Counts("sbm_bp1") <=> channel # 2)
      /\ (Due("norm_bp1") <=> n + 1 = Norm.bp1)
      /\ (Due("sbm_bp1") <=> channel # 2 /\ b + 1 = SbmPeriods.bp1)
  BY RingsFacts DEF Counts, SbmCounter, Due
<1>7. /\ nb'["norm_bp1"] = (IF n + 1 = Norm.bp1 THEN 0 ELSE n + 1)
      /\ channel # 2 => nb'["sbm_bp1"] = (IF b + 1 = SbmPeriods.bp1 THEN 0 ELSE b + 1)
      /\ channel = 2 => nb'["sbm_bp1"] = 0
      /\ cur'.norm = (IF n + 1 = Norm.bp1 THEN NextNode(cur.norm, NormRing) ELSE cur.norm)
      /\ channel # 2 =>
           cur'.sbm = (IF b + 1 = SbmPeriods.bp1 THEN NextNode(cur.sbm, SbmRing) ELSE cur.sbm)
  BY <1>1, <1>4, <1>6
<1>8. /\ acc.norm \in [0 .. NormRing - 1 -> Sum] /\ acc.sbm \in [0 .. SbmRing - 1 -> Sum]
      /\ acc.norm \in [0 .. NormRing - 1 -> SUBSET Nat] /\ acc.sbm \in [0 .. SbmRing - 1 -> SUBSET Nat]
      /\ cur.norm \in 0 .. NormRing - 1 /\ cur.sbm \in 0 .. SbmRing - 1
      /\ msg.norm \in Info /\ msg.sbm \in Info
  <2>1. \A S : S \in Sum => S \in SUBSET Nat
    BY BoundAssumption DEF Sum, Batches
  <2>2. /\ acc.norm \in [0 .. NormRing - 1 -> Sum] /\ acc.sbm \in [0 .. SbmRing - 1 -> Sum]
        /\ cur.norm \in 0 .. NormRing - 1 /\ cur.sbm \in 0 .. SbmRing - 1
        /\ msg.norm \in Info /\ msg.sbm \in Info
    BY DEF SumInv, TypeOK, Info
  <2> QED
    BY <2>1, <2>2
<1>9. msg.norm \in [n : Nat, time : Nat] /\ msg.sbm \in [n : Nat, time : Nat]
  BY <1>3, <1>8 DEF Info
<1>10. /\ n > 0 => Whole(acc.norm[cur.norm], msg.norm, polluted, clock - n + 1, clock)
       /\ b > 0 => Whole(acc.sbm[cur.sbm], msg.sbm, polluted, clock - b + 1, clock)
  BY DEF SumInv, Gathered, Gathering
<1> DEFINE sums == [acc.norm EXCEPT ![cur.norm] = Add(@, n, valid)]
           sbms == [acc.sbm EXCEPT ![cur.sbm] = Add(@, b, valid)]
           info == Note(msg.norm, n, valid)
           sbmInfo == Note(msg.sbm, b, valid)
<1>11. /\ acc'.norm = sums /\ msg'.norm = info
       /\ channel # 2 => acc'.sbm = sbms /\ msg'.sbm = sbmInfo
       /\ channel = 2 => acc'.sbm = acc.sbm /\ msg'.sbm = msg.sbm
  BY <1>2
<1> HIDE DEF n, b, sums, sbms, info, sbmInfo
<1>12. Moved(polluted, polluted', valid, NormRing, Norm.bp1, n, nb'["norm_bp1"],
             acc.norm, acc'.norm, cur.norm, cur'.norm, msg.norm, msg'.norm)
  <2>1. sums = [acc.norm EXCEPT ![cur.norm] = Add(@, n, valid)] /\ info = Note(msg.norm, n, valid)
    BY DEF sums, info
  <2>2. OneBatch(polluted, polluted', valid, NormRing, Norm.bp1, n, nb'["norm_bp1"],
                 acc.norm, acc'.norm, cur.norm, cur'.norm, msg.norm, msg'.norm)
    BY <1>2, <1>3, <1>4, <1>5, <1>7, <1>8, <1>9, <1>10, <1>11, <2>1, RingsFacts DEF OneBatch
  <2> QED
    BY <2>2, RingMoves
<1>13. channel # 2 =>
         Moved(polluted, polluted', valid, SbmRing, SbmPeriods.bp1, b, nb'["sbm_bp1"],
               acc.sbm, acc'.sbm, cur.sbm, cur'.sbm, msg.sbm, msg'.sbm)
  <2>1. sbms = [acc.sbm EXCEPT ![cur.sbm] = Add(@, b, valid)] /\ sbmInfo = Note(msg.sbm, b, valid)
    BY DEF sbms, sbmInfo
  <2>2. channel # 2 =>
          OneBatch(polluted, polluted', valid, SbmRing, SbmPeriods.bp1, b, nb'["sbm_bp1"],
                   acc.sbm, acc'.sbm, cur.sbm, cur'.sbm, msg.sbm, msg'.sbm)
    BY <1>2, <1>3, <1>4, <1>5, <1>7, <1>8, <1>9, <1>10, <1>11, <2>1, RingsFacts DEF OneBatch
  <2> QED
    BY <2>2, RingMoves
<1> DEFINE NormThen(m) ==
             Held(acc'.norm, m.node.norm, m.info.norm, polluted', m.last, Norm.bp1,
                  clock + 1, cur'.norm, nb'["norm_bp1"], NormRing)
           SbmThen(m) ==
             /\ mode \in SbmMode /\ channel # 2
             /\ Held(acc'.sbm, m.node.sbm, m.info.sbm, polluted', m.last, SbmPeriods.bp1,
                     clock + 1, cur'.sbm, nb'["sbm_bp1"], SbmRing)
           Waits(m) ==
             /\ m.last <= clock + 1
             /\ Fresh(m) /\ "norm_bp1" \in m.event => NormThen(m)
             /\ Fresh(m) /\ "sbm_bp1" \in m.event => SbmThen(m)
           new == [node |-> cur, info |-> msg', event |-> {c \in Enabled : Due(c)},
                   last |-> clock']
\* The messages that wait
<1>14. ASSUME NEW i \in 1 .. Len(queue) PROVE Waits(queue[i])
  <2> DEFINE m == queue[i]
  <2>1. m \in MessageSet
    BY DEF SumInv
  <2>2. /\ m.node.norm \in 0 .. NormRing - 1 /\ m.node.sbm \in 0 .. SbmRing - 1
        /\ m.last \in Nat
    BY <2>1, BoundAssumption DEF MessageSet, Nodes, Batches
  <2>3. /\ m.last <= clock
        /\ Fresh(m) /\ "norm_bp1" \in m.event => NormHeld(m)
        /\ Fresh(m) /\ "sbm_bp1" \in m.event => SbmHeld(m)
        /\ Fresh(m) => clock < m.last + PrcLag
    BY <1>1 DEF SumInv, HeldForPrc, InTime
  <2> HIDE DEF m
  <2>4. m.last \in 0 .. clock
    BY <1>3, <2>2, <2>3
  <2>5. Fresh(m) /\ "norm_bp1" \in m.event => NormThen(m)
    BY <1>12, <2>2, <2>3, <2>4 DEF NormHeld, Moved, n
  <2>6. Fresh(m) /\ "sbm_bp1" \in m.event => SbmThen(m)
    BY <1>13, <2>2, <2>3, <2>4 DEF SbmHeld, Moved, b
  <2>7. m.last <= clock + 1
    BY <1>3, <2>4
  <2> HIDE DEF NormThen, SbmThen
  <2>8. Waits(m)
    BY <2>5, <2>6, <2>7
  <2> QED
    BY <2>8 DEF m
\* The new one
<1>15. new \in MessageSet /\ Waits(new)
  <2>1. cur \in Nodes
    BY DEF SumInv, TypeOK, Nodes
  <2>2. /\ msg'.norm \in Info
        /\ msg'.sbm \in Info
    <3>1. ASSUME NEW count \in 0 .. clock, NEW i \in Info, NEW j, j = Note(i, count, valid), NEW s,
                 Whole(s, j, polluted', clock - count + 1, clock + 1)
          PROVE  j \in Info
      <4>1. j \in [n : Nat, time : Nat]
        <5>1. CASE count = 0
          BY <1>3, <3>1, <5>1 DEF Note
        <5>2. CASE count # 0
          <6>1. i \in [n : Nat, time : Nat]
            BY <1>3 DEF Info
          <6> QED
            BY <6>1, <3>1, <5>2 DEF Note
        <5> QED
          BY <5>1, <5>2
      <4>2. clock - count + 1 \in Nat \ {0} /\ clock - count + 1 <= clock + 1 /\ clock + 1 \in Nat
        BY <1>3
      <4>3. j.n \in 0 .. clock + 1 /\ j.time = clock - count + 1
        BY <3>1, <4>2, WholeSize DEF Whole
      <4> QED
        BY <1>3, <4>1, <4>2, <4>3 DEF Info
    <3>2. msg'.norm \in Info
      BY <1>4, <1>8, <1>11, <1>12, <3>1 DEF Moved, n, info
    <3>3. channel # 2 => msg'.sbm \in Info
      BY <1>4, <1>8, <1>11, <1>13, <3>1 DEF Moved, b, sbmInfo
    <3>4. channel = 2 => msg'.sbm \in Info
      BY <1>8, <1>11
    <3> QED
      BY <3>2, <3>3, <3>4
  <2>3. msg' \in [norm : Info, sbm : Info]
    BY <1>2, <2>2
  <2>4. {c \in Enabled : Due(c)} \in SUBSET Counter
    BY DEF Enabled, Counter, SbmCounter
  <2>5. clock' \in Batches
    BY <1>1, <1>3 DEF Batches
  <2>6. new \in MessageSet
    BY <2>1, <2>3, <2>4, <2>5 DEF MessageSet
  <2>7. /\ new.node = cur /\ new.info = msg' /\ new.last = clock + 1
        /\ new.event = {c \in Enabled : Due(c)}
    BY <1>1
  <2> HIDE DEF new
  <2>8. "norm_bp1" \in new.event => NormThen(new)
    BY <1>6, <1>12, <2>7 DEF Moved
  <2>9. "sbm_bp1" \in new.event => SbmThen(new)
    <3>1. "sbm_bp1" \in new.event => mode \in SbmMode /\ channel # 2 /\ b + 1 = SbmPeriods.bp1
      BY <1>6, <2>7 DEF Enabled
    <3> QED
      BY <1>13, <2>7, <3>1 DEF Moved
  <2>10. new.last <= clock + 1
    BY <1>3, <2>7
  <2> HIDE DEF NormThen, SbmThen
  <2> QED
    BY <2>6, <2>8, <2>9, <2>10 DEF new
<1>16. queue' \in Seq(MessageSet) /\ Len(queue') <= QueueSize /\ \A i \in 1 .. Len(queue') : Waits(queue'[i])
  <2> HIDE DEF Waits, new
  <2>1. queue \in Seq(MessageSet) /\ Len(queue) <= QueueSize /\ QueueSize \in Nat
    BY RingAssumption DEF SumInv, TypeOK
  <2>2. CASE queue' = queue
    BY <1>14, <2>1, <2>2
  <2>3. CASE queue' = Append(queue, new) /\ Len(queue) < QueueSize
    <3>1. /\ queue' \in Seq(MessageSet) /\ Len(queue') = Len(queue) + 1
          /\ \A i \in 1 .. Len(queue') : queue'[i] = IF i <= Len(queue) THEN queue[i] ELSE new
      BY <1>15, <2>1, <2>3
    <3> QED
      BY <1>14, <1>15, <2>1, <2>3, <3>1
  <2> QED
    BY <2>2, <2>3 DEF Avf, new
<1>17. HeldForPrc'
  <2>1. SbmMode' = SbmMode /\ SbmPeriods' = SbmPeriods
    BY <1>1 DEF SbmMode, SbmPeriods
  <2> QED
    BY <1>1, <1>16, <2>1 DEF HeldForPrc, NormHeld, SbmHeld, Fresh
<1>18. Gathered'
  <2>1. channel = 2 => ~(nb'["sbm_bp1"] > 0)
    BY <1>7
  <2>2. nb'["norm_bp1"] > 0 =>
          Whole(acc'.norm[cur'.norm], msg'.norm, polluted', clock' - nb'["norm_bp1"] + 1, clock')
    <3>1. nb'["norm_bp1"] > 0 =>
            Whole(acc'.norm[cur'.norm], msg'.norm, polluted', clock + 1 - nb'["norm_bp1"] + 1, clock + 1)
      BY <1>12, Zenon DEF Moved
    <3>2. clock' = clock + 1 /\ clock \in Nat /\ nb'["norm_bp1"] \in Nat
      BY <1>1, <1>3, <1>4
    <3>3. clock + 1 - nb'["norm_bp1"] + 1 = clock' - nb'["norm_bp1"] + 1
      BY <3>2
    <3> QED
      BY <3>1, <3>2, <3>3, Zenon
  <2>3. nb'["sbm_bp1"] > 0 =>
          Whole(acc'.sbm[cur'.sbm], msg'.sbm, polluted', clock' - nb'["sbm_bp1"] + 1, clock')
    <3>1. nb'["sbm_bp1"] > 0 =>
            Whole(acc'.sbm[cur'.sbm], msg'.sbm, polluted', clock + 1 - nb'["sbm_bp1"] + 1, clock + 1)
      BY <1>13, <2>1, Zenon DEF Moved
    <3>2. clock' = clock + 1 /\ clock \in Nat /\ nb'["sbm_bp1"] \in Nat
      BY <1>1, <1>3, <1>4
    <3>3. clock + 1 - nb'["sbm_bp1"] + 1 = clock' - nb'["sbm_bp1"] + 1
      BY <3>2
    <3> QED
      BY <3>1, <3>2, <3>3, Zenon
  <2> QED
    BY <2>2, <2>3, Zenon DEF Gathered, Gathering
<1>19. History'
  <2>1. \A c \in Counter : nb'[c] <= clock + 1
    BY <1>1, <1>3, <1>4
  <2> QED
    BY <1>1, <1>3, <2>1 DEF History
<1>20. TypeOK'
  <2>1. nb' \in [Counter -> 0 .. MaxBatches]
    BY <1>1, <1>3, <1>4
  <2>2. /\ cur'.norm \in 0 .. NormRing - 1 /\ cur'.sbm \in 0 .. SbmRing - 1
    <3>1. \A size \in Nat \ {0} : \A x \in 0 .. size - 1 : NextNode(x, size) \in 0 .. size - 1
      BY DEF NextNode
    <3>2. cur'.sbm = NextNode(cur.sbm, SbmRing) \/ cur'.sbm = cur.sbm
      BY <1>1
    <3>3. cur'.norm = NextNode(cur.norm, NormRing) \/ cur'.norm = cur.norm
      BY <1>1
    <3> QED
      BY <1>8, <3>1, <3>2, <3>3, RingsFacts
  <2>3. cur' \in [norm : 0 .. NormRing - 1, sbm : 0 .. SbmRing - 1]
    BY <1>1, <2>2
  <2>4. /\ acc'.norm \in [0 .. NormRing - 1 -> Sum]
        /\ acc'.sbm \in [0 .. SbmRing - 1 -> Sum]
    <3>1. \A S \in Sum : S \cup {clock + 1} \in Sum /\ {clock + 1} \in Sum /\ {} \in Sum /\ S \cup {} \in Sum
      BY <1>3 DEF Sum, Batches
    <3>2. \A S \in Sum : \A count : Add(S, count, valid) \in Sum
      BY <3>1 DEF Add
    <3>3. /\ Add(acc.norm[cur.norm], n, valid) \in Sum
          /\ Add(acc.sbm[cur.sbm], b, valid) \in Sum
      BY <1>8, <3>2
    <3>4. sums \in [0 .. NormRing - 1 -> Sum] /\ sbms \in [0 .. SbmRing - 1 -> Sum]
      BY <1>8, <3>3 DEF sums, sbms
    <3> QED
      BY <1>8, <1>11, <3>4
  <2>5. acc' \in [norm : [0 .. NormRing - 1 -> Sum], sbm : [0 .. SbmRing - 1 -> Sum]]
    BY <1>2, <2>4
  <2>6. msg' \in [norm : Info, sbm : Info]
    <3>1. new.info = msg' /\ new \in MessageSet
      BY <1>15
    <3> QED
      BY <3>1 DEF MessageSet
  <2>7. polluted' \in Sum
    BY <1>3 DEF Sum, Batches
  <2> QED
    BY <1>1, <1>3, <1>16, <2>1, <2>3, <2>5, <2>6, <2>7, SMTT(30) DEF SumInv, TypeOK, Info
<1>21. IInv'
  BY AvfIInv DEF SumInv
<1> QED
  BY <1>16, <1>17, <1>18, <1>19, <1>20, <1>21 DEF SumInv

\* The first message, of the queue of PRC
LEMMA FirstMessage ==
  ASSUME SumInv, Prc
  PROVE  /\ Head(queue) \in MessageSet /\ Complete(Head(queue).event)
         /\ Fresh(Head(queue)) /\ "norm_bp1" \in Head(queue).event => NormHeld(Head(queue))
         /\ Fresh(Head(queue)) /\ "sbm_bp1" \in Head(queue).event => SbmHeld(Head(queue))
<1>1. queue \in Seq(MessageSet) /\ queue # <<>> /\ mode # "STANDBY"
  BY DEF SumInv, Prc
<1>2. 1 \in 1 .. Len(queue) /\ Head(queue) = queue[1] /\ queue[1] \in MessageSet
  BY <1>1
<1> QED
  BY <1>1, <1>2 DEF SumInv, IInv, QueueComplete, HeldForPrc

\* PRC takes a message and leaves the sums as they are.
LEMMA PrcSum == ASSUME SumInv, Prc PROVE SumInv'
<1>1. /\ queue # <<>> /\ queue' = Tail(queue) /\ comp' = Compressed(Head(queue))
      /\ UNCHANGED <<channel, mode, clock, since, polluted, nb, cur, acc, msg>>
  BY DEF Prc
<1>2. queue \in Seq(MessageSet) /\ Len(queue) <= QueueSize /\ QueueSize \in Nat
  BY RingAssumption DEF SumInv, TypeOK
<1>3. /\ queue' \in Seq(MessageSet) /\ Len(queue') <= QueueSize
      /\ \A i \in 1 .. Len(queue') : i + 1 \in 1 .. Len(queue) /\ queue'[i] = queue[i + 1]
  BY <1>1, <1>2
<1>4. IInv'
  BY PrcIInv DEF SumInv
<1>5. HeldForPrc'
  <2>1. SbmMode' = SbmMode /\ SbmPeriods' = SbmPeriods
    BY <1>1 DEF SbmMode, SbmPeriods
  <2>2. \A i \in 1 .. Len(queue') :
          /\ queue'[i].last <= clock
          /\ Fresh(queue'[i]) /\ "norm_bp1" \in queue'[i].event => NormHeld(queue'[i])
          /\ Fresh(queue'[i]) /\ "sbm_bp1" \in queue'[i].event /\ mode # "STANDBY" => SbmHeld(queue'[i])
    BY <1>3 DEF SumInv, HeldForPrc
  <2> QED
    BY <1>1, <2>1, <2>2 DEF HeldForPrc, NormHeld, SbmHeld, Fresh
<1>6. comp' \in [norm : Matrix, sbm : Matrix]
  <2> DEFINE m == Head(queue)
  <2>1. m \in MessageSet
    BY FirstMessage
  <2>2. /\ m.node.norm \in 0 .. NormRing - 1 /\ m.node.sbm \in 0 .. SbmRing - 1
        /\ m.info.norm.n \in 0 .. MaxBatches /\ m.info.sbm.n \in 0 .. MaxBatches
    BY <2>1 DEF MessageSet, Nodes, Info
  <2>3. /\ acc.norm \in [0 .. NormRing - 1 -> Sum] /\ acc.sbm \in [0 .. SbmRing - 1 -> Sum]
        /\ comp.norm \in Matrix /\ comp.sbm \in Matrix
    BY DEF SumInv, TypeOK
  <2> HIDE DEF m
  <2>4. /\ [sum |-> acc.norm[m.node.norm], n |-> m.info.norm.n] \in Matrix
        /\ [sum |-> acc.sbm[m.node.sbm], n |-> m.info.sbm.n] \in Matrix
    BY <2>2, <2>3 DEF Matrix
  <2>5. Compressed(m) \in [norm : Matrix, sbm : Matrix]
    BY <2>3, <2>4 DEF Compressed
  <2> QED
    BY <1>1, <2>5 DEF m
<1>7. TypeOK' /\ History' /\ Gathered'
  BY <1>1, <1>3, <1>6 DEF SumInv, TypeOK, History, Gathered, Gathering
<1> QED
  BY <1>3, <1>4, <1>5, <1>7 DEF SumInv

\* What PRC sends for a message of the present mode
LEMMA NormSent ==
  ASSUME SumInv, Prc, NEW p \in NormPackets(Head(queue), Compressed(Head(queue))), p.last > since
  PROVE  IF channel = 2 /\ p.kind = "norm_asm"
         THEN WholePeriod(p, Norm.bp1) /\ p.n = Norm.bp1
         ELSE AverageOfPeriod(p, Norm.bp1)
<1> DEFINE m == Head(queue)
           c == Compressed(m)
           matrix == [sum |-> acc.norm[m.node.norm], n |-> m.info.norm.n]
<1>1. Complete(m.event) /\ (Fresh(m) /\ "norm_bp1" \in m.event => NormHeld(m))
  BY FirstMessage
<1> HIDE DEF m
<1>2. \/ p = Packet("norm_bp1", m, m.info.norm, c.norm) /\ "norm_bp1" \in m.event
      \/ p = Packet("norm_bp2", m, m.info.norm, c.norm) /\ "norm_bp2" \in m.event
      \/ /\ p = Packet("norm_asm", m, m.info.norm, [sum |-> acc.norm[m.node.norm], n |-> Divisor(m)])
         /\ "norm_asm" \in m.event
  BY DEF NormPackets, m
<1>3. /\ p.last = m.last /\ p.time = m.info.norm.time
      /\ p.kind \in {"norm_bp1", "norm_bp2", "norm_asm"}
      /\ p.kind # "norm_asm" => p.sum = c.norm.sum /\ p.n = c.norm.n
      /\ p.kind = "norm_asm" => p.sum = acc.norm[m.node.norm] /\ p.n = Divisor(m)
  BY <1>2 DEF Packet
<1>4. "norm_bp1" \in m.event /\ Fresh(m)
  BY <1>1, <1>2, <1>3 DEF Complete, Fresh
<1>5. c.norm.sum = acc.norm[m.node.norm] /\ c.norm.n = m.info.norm.n
  BY <1>4 DEF Compressed
<1>6. Whole(acc.norm[m.node.norm], m.info.norm, polluted, m.last - Norm.bp1 + 1, m.last)
  BY <1>1, <1>4 DEF NormHeld, Held
<1>7. WholePeriod(p, Norm.bp1) /\ m.info.norm.n = Cardinality(p.sum)
  BY <1>3, <1>5, <1>6 DEF WholePeriod, Whole
<1>8. p.n = IF channel = 2 /\ p.kind = "norm_asm" THEN Norm.bp1 ELSE m.info.norm.n
  BY <1>3, <1>5 DEF Divisor
<1> QED
  BY <1>7, <1>8 DEF AverageOfPeriod

\* So is what PRC sends in BURST, SBM1 and SBM2.
LEMMA SbmSent ==
  ASSUME SumInv, Prc, NEW p \in SbmPackets(Head(queue), Compressed(Head(queue))), p.last > since
  PROVE  p.kind = "sbm_bp2" \/ (p.kind = "sbm_bp1" /\ channel # 0) =>
           AverageOfPeriod(p, Sbm[p.mode].bp1)
<1> DEFINE m == Head(queue)
           c == Compressed(m)
<1>1. Fresh(m) /\ "sbm_bp1" \in m.event => SbmHeld(m)
  BY FirstMessage
<1> HIDE DEF m
<1>2. /\ "sbm_bp1" \in m.event
      /\ \/ p = Packet("sbm_bp1", m, m.info.sbm, IF channel = 0 THEN comp.norm ELSE c.sbm)
         \/ p = Packet("sbm_bp2", m, m.info.sbm, c.sbm)
  BY DEF SbmPackets, m
<1>3. /\ p.last = m.last /\ p.time = m.info.sbm.time /\ p.mode = mode
      /\ p.kind = "sbm_bp2" \/ channel # 0 => p.sum = c.sbm.sum /\ p.n = c.sbm.n
  BY <1>2 DEF Packet
<1>4. SbmHeld(m)
  BY <1>1, <1>2, <1>3 DEF Fresh
<1>5. c.sbm.sum = acc.sbm[m.node.sbm] /\ c.sbm.n = m.info.sbm.n
  BY <1>2 DEF Compressed
<1>6. SbmPeriods.bp1 = Sbm[p.mode].bp1
  BY <1>3, <1>4 DEF SbmHeld, SbmPeriods
<1>7. Whole(acc.sbm[m.node.sbm], m.info.sbm, polluted, m.last - SbmPeriods.bp1 + 1, m.last)
  BY <1>4 DEF SbmHeld, Held
<1> QED
  BY <1>3, <1>5, <1>6, <1>7 DEF AverageOfPeriod, WholePeriod, Whole

\* A packet is of one kind.
LEMMA Kinds ==
  ASSUME NEW m, NEW c
  PROVE  /\ \A p \in NormPackets(m, c) : p.kind \in {"norm_bp1", "norm_bp2", "norm_asm"}
         /\ \A p \in SbmPackets(m, c) : p.kind \in {"sbm_bp1", "sbm_bp2"}
BY DEF NormPackets, SbmPackets, Packet

\* What holds of the packets; f0 has BP1 of the other sum.
SentWhole ==
  /\ NormalAverages /\ SbmBp2Averages
  /\ channel # 0 => SbmBp1Averages

\* Every step keeps the sums whole, and so the packets.
LEMMA SumInvNext == SumInv /\ SentWhole /\ [Next]_vars => SumInv' /\ SentWhole'
<1> SUFFICES ASSUME SumInv, SentWhole, [Next]_vars PROVE SumInv' /\ SentWhole'
  OBVIOUS
<1>1. ASSUME sent' = {} PROVE SentWhole'
  BY <1>1 DEF SentWhole, NormalAverages, SbmBp1Averages, SbmBp2Averages
<1>2. ASSUME NEW m \in Mode, Restart(m) PROVE SumInv' /\ SentWhole'
  BY <1>1, <1>2, RestartSum DEF Restart
<1>3. CASE Suspend
  BY <1>1, <1>3, SuspendSum DEF Suspend
<1>4. CASE Avf
  BY <1>1, <1>4, AvfSum DEF Avf
<1>5. CASE Prc
  <2> DEFINE m == Head(queue)
             norm == NormPackets(m, Compressed(m))
             sbm == SbmPackets(m, Compressed(m))
  <2>1. /\ UNCHANGED <<channel, since, polluted>>
        /\ sent' \subseteq norm \cup sbm
    BY <1>5 DEF Prc
  <2>2. \A p \in norm : p.kind \notin {"sbm_bp1", "sbm_bp2"}
    BY Kinds
  <2>3. \A p \in sbm : p.kind \notin {"norm_bp1", "norm_bp2", "norm_asm"}
    BY Kinds
  <2>4. \A p \in norm : p.last > since =>
          IF channel = 2 /\ p.kind = "norm_asm"
          THEN WholePeriod(p, Norm.bp1) /\ p.n = Norm.bp1
          ELSE AverageOfPeriod(p, Norm.bp1)
    BY <1>5, NormSent
  <2>5. \A p \in sbm : p.last > since =>
          (p.kind = "sbm_bp2" \/ (p.kind = "sbm_bp1" /\ channel # 0) =>
             AverageOfPeriod(p, Sbm[p.mode].bp1))
    BY <1>5, SbmSent
  <2> HIDE DEF norm, sbm
  <2>6. NormalAverages'
    BY <2>1, <2>3, <2>4 DEF NormalAverages, Fresh, AverageOfPeriod, WholePeriod
  <2>7. SbmBp2Averages' /\ (channel' # 0 => SbmBp1Averages')
    BY <2>1, <2>2, <2>5 DEF SbmBp2Averages, SbmBp1Averages, Fresh, AverageOfPeriod, WholePeriod
  <2> QED
    BY <1>5, <2>6, <2>7, PrcSum DEF SentWhole
<1>6. CASE UNCHANGED vars
  <2>1. UNCHANGED <<channel, since, polluted, sent>>
    BY <1>6 DEF vars
  <2>2. SentWhole'
    BY <2>1 DEF SentWhole, NormalAverages, SbmBp1Averages, SbmBp2Averages, Fresh, AverageOfPeriod, WholePeriod
  <2> QED
    BY <1>6, <2>2, StutterSum
<1> QED
  BY <1>2, <1>3, <1>4, <1>5, <1>6 DEF Next

\* The sums, the messages and the packets, in every state
LEMMA SumInvHolds == Spec => [](SumInv /\ SentWhole)
<1>1. Init => SumInv /\ SentWhole
  BY SumInit DEF Init, SentWhole, NormalAverages, SbmBp1Averages, SbmBp2Averages
<1> QED
  BY <1>1, SumInvNext, PTL DEF Spec

\* Every variable keeps its type: counters, rings and queue stay within their sizes.
THEOREM TypeCorrect == Spec => []TypeOK
<1>1. SumInv => TypeOK
  BY DEF SumInv
<1> QED
  BY <1>1, SumInvHolds, PTL

\* Normal basic parameters and matrices average the valid batches of one whole period of
\* the present mode, and are dated by the first, while sums go on in the same ring:
\* for all consistent periods, and rings that PRC is not too late for (avf0_task,
\* SM_average, prc0_task and those of f1 and f2).
THEOREM NormalWhole == Spec => []NormalAverages
<1>1. SentWhole => NormalAverages
  BY DEF SentWhole
<1> QED
  BY <1>1, SumInvHolds, PTL

\* So do BP2 of BURST, SBM1 and SBM2.
THEOREM SbmBp2Whole == Spec => []SbmBp2Averages
<1>1. SentWhole => SbmBp2Averages
  BY DEF SentWhole
<1> QED
  BY <1>1, SumInvHolds, PTL

\* BP1 of BURST, SBM1 and SBM2 does at f1 and f2; at f0, prc0_task takes the normal sum.
THEOREM SbmBp1Whole == 0 \notin Channels /\ Spec => []SbmBp1Averages
<1> SUFFICES ASSUME 0 \notin Channels PROVE Spec => []SbmBp1Averages
  OBVIOUS
<1>1. SumInv /\ SentWhole => SbmBp1Averages
  BY DEF SumInv, TypeOK, SentWhole
<1> QED
  BY <1>1, SumInvHolds, PTL
=============================================================================
