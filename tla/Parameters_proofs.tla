-------------------------- MODULE Parameters_proofs --------------------------
(* Proofs about Parameters, for any sets of candidate values and any queue. *)
EXTENDS Parameters, TLAPS

\* The queue never holds more than its limit.
LEMMA SentTyped ==
  ASSUME NEW q \in Seq({"tm", "k1", "k2"}), Len(q) <= SendQueueSize,
         NEW msg \in {"tm", "k1", "k2"}
  PROVE  /\ Sent(q, msg) \in Seq({"tm", "k1", "k2"})
         /\ Len(Sent(q, msg)) <= SendQueueSize
<1>1. CASE Len(q) < SendQueueSize
  BY <1>1, ParameterAssumption DEF Sent
<1>2. CASE ~(Len(q) < SendQueueSize)
  BY <1>2 DEF Sent
<1> QED BY <1>1, <1>2

\* The candidate sets hold their default values.
LEMMA Defaults ==
  /\ DefaultCommon \in CommonPars \cup {DefaultCommon}
  /\ DefaultBp \in [BpModes -> BpPairs]
  /\ \A m \in BpModes : BpPars[m] \subseteq BpPairs
BY DEF DefaultBp, BpPairs

\* Initially the parameters are the default ones.
LEMMA InitTyped == Init => TypeOK
<1> SUFFICES ASSUME Init PROVE TypeOK OBVIOUS
<1>1. lfrCurrentMode \in Modes /\ starting \in BOOLEAN /\ filterLoaded \in BOOLEAN
      /\ verdict \in {"none", "executed", "rejected", "silent"}
  BY DEF Init, Modes
<1>2. parameter_dump \in Dumps
  BY Defaults DEF Init, Dumps
<1>3. inUse \in Copies
  BY Defaults DEF Init, Copies
<1>4. kcoeff \in [0 .. NbBins - 1 -> {"default", "loaded", "overwritten"}]
  BY DEF Init
<1>5. kdump \in [{"k1", "k2"} -> [DumpBlocks -> Channels \cup {NoBlock}]]
  BY DEF Init
<1>6. sendQueue \in Seq({"tm", "k1", "k2"}) /\ Len(sendQueue) <= SendQueueSize
  BY ParameterAssumption DEF Init
<1> QED BY <1>1, <1>2, <1>3, <1>4, <1>5, <1>6 DEF TypeOK

\* Every answer is queued within the limit; the rest is not its business.
LEMMA AnswerTyped ==
  ASSUME TypeOK, NEW v \in {"executed", "rejected"}, Answer(v)
  PROVE  /\ sendQueue' \in Seq({"tm", "k1", "k2"})
         /\ Len(sendQueue') <= SendQueueSize
         /\ verdict' \in {"none", "executed", "rejected", "silent"}
<1>1. /\ sendQueue' \in Seq({"tm", "k1", "k2"})
      /\ Len(sendQueue') <= SendQueueSize
  BY SentTyped DEF TypeOK, Answer
<1>2. verdict' \in {"none", "executed", "rejected", "silent"}
  BY DEF Answer
<1> QED BY <1>1, <1>2

\* The frame of the telecommands that touch neither mode nor matrices.
LEMMA ParametersTyped ==
  ASSUME TypeOK, NEW v \in {"executed", "rejected"}, Answer(v),
         parameter_dump' \in Dumps, inUse' \in Copies, filterLoaded' \in BOOLEAN,
         UNCHANGED <<lfrCurrentMode, starting, kcoeff, kdump>>
  PROVE  TypeOK'
<1>1. /\ sendQueue' \in Seq({"tm", "k1", "k2"})
      /\ Len(sendQueue') <= SendQueueSize
      /\ verdict' \in {"none", "executed", "rejected", "silent"}
  BY AnswerTyped
<1> QED BY <1>1 DEF TypeOK

\* A refusal keeps the types.
LEMMA RefuseTyped ==
  ASSUME TypeOK, Refuse, UNCHANGED <<lfrCurrentMode, starting, kcoeff, kdump>>
  PROVE  TypeOK'
<1>1. parameter_dump' \in Dumps /\ inUse' \in Copies /\ filterLoaded' \in BOOLEAN
  BY DEF Refuse, pars, TypeOK
<1>2. Answer("rejected")
  BY DEF Refuse
<1> QED BY <1>1, <1>2, ParametersTyped

\* Type correctness of the step of each telecommand and task.
LEMMA NextTyped == TypeOK /\ [Next]_vars => TypeOK'
<1> SUFFICES ASSUME TypeOK, [Next]_vars PROVE TypeOK'
  OBVIOUS
<1>0. parameter_dump \in Dumps /\ inUse \in Copies /\ filterLoaded \in BOOLEAN
  BY DEF TypeOK
<1>1. ASSUME NEW c \in CommonPars, LoadCommon(c) PROVE TypeOK'
  <2>1. parameter_dump' \in Dumps /\ inUse' \in Copies /\ filterLoaded' \in BOOLEAN
    BY <1>0, <1>1 DEF LoadCommon, Dumps, Copies
  <2> QED BY <2>1, <1>1, ParametersTyped DEF LoadCommon
<1>2. ASSUME NEW n \in NormPars, LoadNorm(n) PROVE TypeOK'
  <2>1. CASE lfrCurrentMode \notin SharedModes /\ NormConsistent(n)
    <3>1. parameter_dump' \in Dumps /\ inUse' \in Copies /\ filterLoaded' \in BOOLEAN
      BY <1>0, <1>2, <2>1 DEF LoadNorm, Dumps
    <3> QED BY <3>1, <1>2, <2>1, ParametersTyped DEF LoadNorm
  <2>2. CASE ~(lfrCurrentMode \notin SharedModes /\ NormConsistent(n))
    BY <1>2, <2>2, RefuseTyped DEF LoadNorm
  <2> QED BY <2>1, <2>2
<1>3. ASSUME NEW m \in BpModes, NEW b \in BpPars[m], LoadBp(m, b) PROVE TypeOK'
  <2>1. CASE lfrCurrentMode # m /\ BpConsistent(m, b)
    <3>1. b \in BpPairs
      BY Defaults
    <3>2. parameter_dump' \in Dumps /\ inUse' \in Copies /\ filterLoaded' \in BOOLEAN
      BY <1>0, <1>3, <2>1, <3>1 DEF LoadBp, Dumps
    <3> QED BY <3>2, <1>3, <2>1, ParametersTyped DEF LoadBp
  <2>2. CASE ~(lfrCurrentMode # m /\ BpConsistent(m, b))
    BY <1>3, <2>2, RefuseTyped DEF LoadBp
  <2> QED BY <2>1, <2>2
<1>4. ASSUME NEW f \in FilterPars, LoadFilterPar(f) PROVE TypeOK'
  <2>1. CASE FilterConsistent(f)
    <3>1. parameter_dump' \in Dumps /\ inUse' \in Copies /\ filterLoaded' \in BOOLEAN
      BY <1>0, <1>4, <2>1 DEF LoadFilterPar, Dumps, Copies
    <3> QED BY <3>1, <1>4, <2>1, ParametersTyped DEF LoadFilterPar
  <2>2. CASE ~FilterConsistent(f)
    BY <1>4, <2>2, RefuseTyped DEF LoadFilterPar
  <2> QED BY <2>1, <2>2
<1>5. ASSUME NEW mask \in SUBSET Bins, LoadFbins(mask) PROVE TypeOK'
  <2>1. parameter_dump' \in Dumps /\ inUse' \in Copies /\ filterLoaded' \in BOOLEAN
    BY <1>0, <1>5 DEF LoadFbins, Dumps, Copies
  <2> QED BY <2>1, <1>5, ParametersTyped DEF LoadFbins
<1>6. ASSUME NEW ok \in BOOLEAN, NEW mask \in SUBSET Bins, UpdateInfo(ok, mask)
      PROVE TypeOK'
  <2>1. parameter_dump' \in Dumps /\ inUse' \in Copies
    <3>1. CASE ok
      BY <1>0, <1>6, <3>1 DEF UpdateInfo, Dumps, Copies
    <3>2. CASE ~ok
      BY <1>0, <1>6, <3>2 DEF UpdateInfo, pars
    <3> QED BY <3>1, <3>2
  <2> QED BY <2>1, <1>6 DEF UpdateInfo, Silence, TypeOK
<1>7. ASSUME NEW f \in Frequencies, LoadKcoefficients(f) PROVE TypeOK'
  <2>1. CASE lfrCurrentMode = "STANDBY" /\ f < NbBins
    <3>1. kcoeff' \in [0 .. NbBins - 1 -> {"default", "loaded", "overwritten"}]
      BY <1>7, <2>1 DEF LoadKcoefficients, WithCoefficient, TypeOK
    <3>2. Answer("executed")
      BY <1>7, <2>1 DEF LoadKcoefficients
    <3>3. /\ sendQueue' \in Seq({"tm", "k1", "k2"})
          /\ Len(sendQueue') <= SendQueueSize
          /\ verdict' \in {"none", "executed", "rejected", "silent"}
      BY <3>2, AnswerTyped
    <3> QED BY <1>7, <2>1, <3>1, <3>3 DEF LoadKcoefficients, pars, TypeOK
  <2>2. CASE ~(lfrCurrentMode = "STANDBY" /\ f < NbBins)
    BY <1>7, <2>2, RefuseTyped DEF LoadKcoefficients
  <2> QED BY <2>1, <2>2
<1>8. CASE DumpKcoefficients
  <2>1. kdump' \in [{"k1", "k2"} -> [DumpBlocks -> Channels \cup {NoBlock}]]
    <3>1. \A blks \in [DumpBlocks -> Channels \cup {NoBlock}] :
            \A n \in Nat, c \in Channels :
              CopyBlocks(blks, n, c) \in [DumpBlocks -> Channels \cup {NoBlock}]
      BY DEF CopyBlocks
    <3>2. CompressedBins(0) + 1 \in Nat
      BY DEF CompressedBins, Channels
    <3>3. 0 \in Channels /\ 1 \in Channels /\ 2 \in Channels
      BY DEF Channels
    <3>4. DumpedPackets \in [{"k1", "k2"} -> [DumpBlocks -> Channels \cup {NoBlock}]]
      <4> DEFINE D == [DumpBlocks -> Channels \cup {NoBlock}]
                 x == CopyBlocks(kdump["k1"], 0, 0)
                 y == CopyBlocks(x, CompressedBins(0) + 1, 1)
                 z == CopyBlocks(y, 0, 2)
      <4>1. kdump \in [{"k1", "k2"} -> D]
        BY DEF TypeOK
      <4>2. x \in D
        BY <4>1, <3>1, <3>3
      <4>3. y \in D
        BY <4>2, <3>1, <3>2, <3>3
      <4>4. z \in D
        BY <4>3, <3>1, <3>3
      <4>5. DumpedPackets = [kdump EXCEPT !["k1"] = z]
        BY DEF DumpedPackets
      <4> HIDE DEF x, y, z
      <4> QED BY <4>1, <4>4, <4>5
    <3> QED BY <1>8, <3>4 DEF DumpKcoefficients
  <2>2. sendQueue' \in Seq({"tm", "k1", "k2"}) /\ Len(sendQueue') <= SendQueueSize
    <3> DEFINE Queues == {q \in Seq({"tm", "k1", "k2"}) : Len(q) <= SendQueueSize}
               queued == Sent(Sent(sendQueue, "k1"), "k2")
    <3>1. \A q \in Queues, msg \in {"tm", "k1", "k2"} : Sent(q, msg) \in Queues
      BY SentTyped
    <3>2. queued \in Queues /\ Sent(queued, "tm") \in Queues
      BY <3>1 DEF TypeOK
    <3>3. sendQueue' = queued \/ sendQueue' = Sent(queued, "tm")
      BY <1>8 DEF DumpKcoefficients
    <3> QED BY <3>2, <3>3
  <2>3. verdict' \in {"none", "executed", "rejected", "silent"}
    BY <1>8 DEF DumpKcoefficients
  <2> QED BY <1>8, <2>1, <2>2, <2>3 DEF DumpKcoefficients, pars, TypeOK
<1>9. CASE DumpPar
  <2>1. sendQueue' \in Seq({"tm", "k1", "k2"}) /\ Len(sendQueue') <= SendQueueSize
    BY <1>9, SentTyped DEF DumpPar, Silence, TypeOK
  <2>2. verdict' \in {"none", "executed", "rejected", "silent"}
    BY <1>9 DEF DumpPar, Silence
  <2> QED BY <1>9, <2>1, <2>2 DEF DumpPar, pars, TypeOK
<1>10. ASSUME NEW m \in Modes, NEW n \in 1 .. 2, EnterMode(m, n) PROVE TypeOK'
  <2>1. sendQueue' \in Seq({"tm", "k1", "k2"}) /\ Len(sendQueue') <= SendQueueSize
    BY <1>10, SentTyped DEF EnterMode, TypeOK
  <2> QED BY <1>10, <2>1 DEF EnterMode, pars, TypeOK
<1>11. CASE AvfStarts
  <2>1. inUse' \in Copies
    BY <1>0, <1>11 DEF AvfStarts, Dumps, Copies, BpModes
  <2> QED BY <1>11, <2>1 DEF AvfStarts, TypeOK
<1>12. CASE ForceStandby
  BY <1>12 DEF ForceStandby, pars, TypeOK, Modes
<1>13. CASE SendTask
  <2>1. sendQueue' \in Seq({"tm", "k1", "k2"}) /\ Len(sendQueue') <= SendQueueSize
    <3>1. sendQueue \in Seq({"tm", "k1", "k2"}) /\ sendQueue # <<>>
          /\ sendQueue' = Tail(sendQueue) /\ Len(sendQueue) <= SendQueueSize
      BY <1>13 DEF SendTask, TypeOK
    <3>2. Len(Tail(sendQueue)) = Len(sendQueue) - 1
          /\ Tail(sendQueue) \in Seq({"tm", "k1", "k2"})
      BY <3>1
    <3> QED BY <3>1, <3>2, ParameterAssumption
  <2> QED BY <1>13, <2>1 DEF SendTask, pars, TypeOK
<1>14. CASE RejectCorrupted
  BY <1>14, RefuseTyped DEF RejectCorrupted
<1>15. CASE UNCHANGED vars
  BY <1>15 DEF vars, TypeOK
<1> QED BY <1>1, <1>2, <1>3, <1>4, <1>5, <1>6, <1>7, <1>8, <1>9, <1>10, <1>11,
           <1>12, <1>13, <1>14, <1>15 DEF Next

\* The types are kept by every behaviour.
THEOREM TypeCorrect == Spec => []TypeOK
BY InitTyped, NextTyped, PTL DEF Spec

-----------------------------------------------------------------------------
(* The consistency of the stored parameters.                               *)

\* What ParametersConsistent says of a set of normal parameters, of a pair.
PeriodsGood(n) ==
  /\ n.bp_p0 > 0 /\ n.bp_p1 > 0 /\ n.asm_p > 0
  /\ n.bp_p1 % n.bp_p0 = 0
  /\ n.asm_p % n.bp_p0 = 0
  /\ n.swf_p >= 22

PairGood(m, b) ==
  /\ b.p0 > 0 /\ b.p1 > 0
  /\ (IF m = "SBM1" THEN 4 * b.p1 ELSE b.p1) % b.p0 = 0

\* The invariant, by its two parts.
LEMMA ConsistentParts ==
  ParametersConsistent <=> /\ PeriodsGood(parameter_dump.norm)
                           /\ \A m \in BpModes : PairGood(m, parameter_dump.bp[m])
BY DEF ParametersConsistent, PeriodsGood, PairGood

\* What the checks accept is good.
LEMMA AcceptedNorm ==
  ASSUME NEW n \in NormPars, NormConsistent(n)
  PROVE  PeriodsGood(n)
<1>1. n \in [NormFields -> Nat]
  BY ParameterAssumption
<1>2. n.bp_p0 \in Nat /\ n.bp_p1 \in Nat /\ n.asm_p \in Nat /\ n.swf_p \in Nat
  BY <1>1 DEF NormFields
<1>3. n.bp_p0 >= 4 /\ n.bp_p1 >= 20 /\ n.asm_p # 0 /\ n.swf_p >= 22
      /\ n.bp_p1 % n.bp_p0 = 0 /\ n.asm_p % n.bp_p0 = 0
  BY DEF NormConsistent, DefaultNorm, MinSwfP, Multiple
<1> QED BY <1>2, <1>3 DEF PeriodsGood

LEMMA AcceptedPair ==
  ASSUME NEW m \in BpModes, NEW b \in BpPars[m], BpConsistent(m, b)
  PROVE  PairGood(m, b)
<1>1. b \in [{"p0", "p1"} -> Nat]
  BY ParameterAssumption
<1>2. b.p0 \in Nat /\ b.p1 \in Nat
  BY <1>1
<1>3. DefaultBp[m].p0 = 1 /\ DefaultBp[m].p1 \in {1, 5}
  BY DEF DefaultBp
<1>4. b.p0 >= 1 /\ b.p1 >= 1
  BY <1>2, <1>3 DEF BpConsistent
<1> QED BY <1>2, <1>4 DEF BpConsistent, Multiple, PairGood

\* The default parameters are good.
LEMMA InitConsistent == Init => ParametersConsistent
<1> SUFFICES ASSUME Init PROVE ParametersConsistent OBVIOUS
<1>1. parameter_dump.norm = DefaultNorm /\ parameter_dump.bp = DefaultBp
  BY DEF Init
<1>2. PeriodsGood(DefaultNorm)
  BY DEF PeriodsGood, DefaultNorm
<1>3. \A m \in BpModes : PairGood(m, DefaultBp[m])
  BY DEF PairGood, DefaultBp, BpModes
<1> QED BY <1>1, <1>2, <1>3, ConsistentParts

\* A step keeps the normal parameters, or stores accepted ones.
LEMMA NormStep ==
  ASSUME TypeOK, [Next]_vars
  PROVE  \/ parameter_dump'.norm = parameter_dump.norm
         \/ \E n \in NormPars : NormConsistent(n) /\ parameter_dump'.norm = n
<1>0. parameter_dump \in Dumps
  BY DEF TypeOK
<1>1. ASSUME NEW n \in NormPars, LoadNorm(n), parameter_dump' # parameter_dump
      PROVE  NormConsistent(n) /\ parameter_dump'.norm = n
  BY <1>0, <1>1 DEF LoadNorm, Refuse, pars, Dumps
<1>2. ASSUME NEW c \in CommonPars, LoadCommon(c)
      PROVE  parameter_dump'.norm = parameter_dump.norm
  BY <1>0, <1>2 DEF LoadCommon, Dumps
<1>3. ASSUME NEW m \in BpModes, NEW b \in BpPars[m], LoadBp(m, b)
      PROVE  parameter_dump'.norm = parameter_dump.norm
  BY <1>0, <1>3 DEF LoadBp, Refuse, pars, Dumps
<1>4. ASSUME NEW f \in FilterPars, LoadFilterPar(f)
      PROVE  parameter_dump'.norm = parameter_dump.norm
  BY <1>0, <1>4 DEF LoadFilterPar, Refuse, pars, Dumps
<1>5. ASSUME NEW mask \in SUBSET Bins, LoadFbins(mask)
      PROVE  parameter_dump'.norm = parameter_dump.norm
  BY <1>0, <1>5 DEF LoadFbins, Dumps
<1>6. ASSUME NEW ok \in BOOLEAN, NEW mask \in SUBSET Bins, UpdateInfo(ok, mask)
      PROVE  parameter_dump'.norm = parameter_dump.norm
  BY <1>0, <1>6 DEF UpdateInfo, pars, Dumps
<1>7. ASSUME NEW f \in Frequencies, LoadKcoefficients(f)
      PROVE  parameter_dump' = parameter_dump
  BY <1>7 DEF LoadKcoefficients, Refuse, pars
<1>8. CASE \/ DumpKcoefficients \/ DumpPar \/ AvfStarts \/ ForceStandby \/ SendTask
           \/ RejectCorrupted \/ UNCHANGED vars
           \/ \E m \in Modes, n \in 1 .. 2 : EnterMode(m, n)
  BY <1>8 DEF DumpKcoefficients, DumpPar, AvfStarts, ForceStandby, SendTask,
              RejectCorrupted, Refuse, EnterMode, pars, vars
<1> QED BY <1>1, <1>2, <1>3, <1>4, <1>5, <1>6, <1>7, <1>8 DEF Next

\* A step keeps the pairs of each mode, or stores an accepted one.
LEMMA PairStep ==
  ASSUME TypeOK, [Next]_vars, NEW m \in BpModes
  PROVE  \/ parameter_dump'.bp[m] = parameter_dump.bp[m]
         \/ \E b \in BpPars[m] : BpConsistent(m, b) /\ parameter_dump'.bp[m] = b
<1>0. parameter_dump \in Dumps
  BY DEF TypeOK
<1>1. ASSUME NEW n \in BpModes, NEW b \in BpPars[n], LoadBp(n, b),
             parameter_dump'.bp[m] # parameter_dump.bp[m]
      PROVE  BpConsistent(m, b) /\ n = m /\ parameter_dump'.bp[m] = b
  <2>1. CASE lfrCurrentMode # n /\ BpConsistent(n, b)
    <3>1. parameter_dump'.bp = [parameter_dump.bp EXCEPT ![n] = b]
      BY <1>0, <1>1, <2>1 DEF LoadBp, Dumps
    <3>2. parameter_dump.bp \in [BpModes -> BpPairs]
      BY <1>0 DEF Dumps
    <3> QED BY <1>1, <2>1, <3>1, <3>2
  <2>2. CASE ~(lfrCurrentMode # n /\ BpConsistent(n, b))
    BY <1>1, <2>2 DEF LoadBp, Refuse, pars
  <2> QED BY <2>1, <2>2
<1>2. ASSUME NEW c \in CommonPars, LoadCommon(c)
      PROVE  parameter_dump'.bp = parameter_dump.bp
  BY <1>0, <1>2 DEF LoadCommon, Dumps
<1>3. ASSUME NEW n \in NormPars, LoadNorm(n)
      PROVE  parameter_dump'.bp = parameter_dump.bp
  BY <1>0, <1>3 DEF LoadNorm, Refuse, pars, Dumps
<1>4. ASSUME NEW f \in FilterPars, LoadFilterPar(f)
      PROVE  parameter_dump'.bp = parameter_dump.bp
  BY <1>0, <1>4 DEF LoadFilterPar, Refuse, pars, Dumps
<1>5. ASSUME NEW mask \in SUBSET Bins, LoadFbins(mask)
      PROVE  parameter_dump'.bp = parameter_dump.bp
  BY <1>0, <1>5 DEF LoadFbins, Dumps
<1>6. ASSUME NEW ok \in BOOLEAN, NEW mask \in SUBSET Bins, UpdateInfo(ok, mask)
      PROVE  parameter_dump'.bp = parameter_dump.bp
  BY <1>0, <1>6 DEF UpdateInfo, pars, Dumps
<1>7. ASSUME NEW f \in Frequencies, LoadKcoefficients(f)
      PROVE  parameter_dump' = parameter_dump
  BY <1>7 DEF LoadKcoefficients, Refuse, pars
<1>8. CASE \/ DumpKcoefficients \/ DumpPar \/ AvfStarts \/ ForceStandby \/ SendTask
           \/ RejectCorrupted \/ UNCHANGED vars
           \/ \E n \in Modes, k \in 1 .. 2 : EnterMode(n, k)
  BY <1>8 DEF DumpKcoefficients, DumpPar, AvfStarts, ForceStandby, SendTask,
              RejectCorrupted, Refuse, EnterMode, pars, vars
<1> QED BY <1>1, <1>2, <1>3, <1>4, <1>5, <1>6, <1>7, <1>8 DEF Next

\* No sequence of telecommands, in any mode, stores periods that the tasks
\* would divide by zero or whose products would never be due together.
THEOREM Consistent == Spec => []ParametersConsistent
<1>1. ASSUME TypeOK, ParametersConsistent, [Next]_vars
      PROVE  ParametersConsistent'
  <2>1. /\ PeriodsGood(parameter_dump.norm)
        /\ \A m \in BpModes : PairGood(m, parameter_dump.bp[m])
    BY <1>1, ConsistentParts
  <2>2. PeriodsGood(parameter_dump'.norm)
    BY <1>1, <2>1, NormStep, AcceptedNorm
  <2>3. \A m \in BpModes : PairGood(m, parameter_dump'.bp[m])
    BY <1>1, <2>1, PairStep, AcceptedPair
  <2> QED BY <2>2, <2>3 DEF ParametersConsistent, PeriodsGood, PairGood
<1> QED BY <1>1, InitConsistent, TypeCorrect, PTL DEF Spec

-----------------------------------------------------------------------------
(* The dump and the copies in use.                                         *)

\* Initially the copies are the default parameters; the rw_k are not yet.
LEMMA InitTells == Init => DumpTellsWhatIsUsed
<1> SUFFICES ASSUME Init PROVE DumpTellsWhatIsUsed OBVIOUS
<1>1. inUse.shaping = parameter_dump.common /\ inUse.merged = Bins
      /\ parameter_dump.fbins = Bins /\ parameter_dump.rwMask = Bins
  BY DEF Init
<1>2. inUse.filter = BootFilter /\ parameter_dump.filter = DefaultFilter
  BY DEF Init
<1>3. \A f \in FilterFields \ {"k"} : BootFilter[f] = DefaultFilter[f]
  BY DEF FilterFields, BootFilter, DefaultFilter
<1>4. ~filterLoaded /\ lfrCurrentMode = "STANDBY"
  BY DEF Init
<1> QED BY <1>1, <1>2, <1>3, <1>4 DEF DumpTellsWhatIsUsed, SharedModes, BpModes

\* A step that changes neither the copies, the dump, nor the mode keeps it.
LEMMA TellsFrame ==
  ASSUME DumpTellsWhatIsUsed,
         UNCHANGED <<pars, filterLoaded, lfrCurrentMode, starting>>
  PROVE  DumpTellsWhatIsUsed'
BY DEF DumpTellsWhatIsUsed, pars

\* No step separates the dump from what is in use: a load in the mode that
\* uses it is refused, and entering a mode makes AVF read the dump again.
LEMMA NextTells ==
  ASSUME TypeOK, DumpTellsWhatIsUsed, [Next]_vars
  PROVE  DumpTellsWhatIsUsed'
<1>0. parameter_dump \in Dumps /\ inUse \in Copies
  BY DEF TypeOK
<1>a. ASSUME Refuse, UNCHANGED <<lfrCurrentMode, starting>>
      PROVE  DumpTellsWhatIsUsed'
  BY <1>a, TellsFrame DEF Refuse
<1>1. ASSUME NEW c \in CommonPars, LoadCommon(c) PROVE DumpTellsWhatIsUsed'
  <2>1. /\ parameter_dump' = [parameter_dump EXCEPT !.common = c]
        /\ inUse' = [inUse EXCEPT !.shaping = c]
        /\ UNCHANGED <<lfrCurrentMode, starting, filterLoaded>>
    BY <1>1 DEF LoadCommon
  <2> QED BY <1>0, <2>1 DEF DumpTellsWhatIsUsed, Dumps, Copies
<1>2. ASSUME NEW n \in NormPars, LoadNorm(n) PROVE DumpTellsWhatIsUsed'
  <2>1. CASE lfrCurrentMode \notin SharedModes /\ NormConsistent(n)
    <3>1. /\ parameter_dump' = [parameter_dump EXCEPT !.norm = n]
          /\ UNCHANGED <<inUse, lfrCurrentMode, starting, filterLoaded>>
      BY <1>2, <2>1 DEF LoadNorm
    <3> QED BY <1>0, <2>1, <3>1 DEF DumpTellsWhatIsUsed, Dumps
  <2>2. CASE ~(lfrCurrentMode \notin SharedModes /\ NormConsistent(n))
    BY <1>2, <1>a, <2>2 DEF LoadNorm
  <2> QED BY <2>1, <2>2
<1>3. ASSUME NEW m \in BpModes, NEW b \in BpPars[m], LoadBp(m, b)
      PROVE  DumpTellsWhatIsUsed'
  <2>1. CASE lfrCurrentMode # m /\ BpConsistent(m, b)
    <3>1. /\ parameter_dump' = [parameter_dump EXCEPT !.bp[m] = b]
          /\ UNCHANGED <<inUse, lfrCurrentMode, starting, filterLoaded>>
      BY <1>3, <2>1 DEF LoadBp
    <3>2. /\ parameter_dump'.bp = [parameter_dump.bp EXCEPT ![m] = b]
          /\ parameter_dump.bp \in [BpModes -> BpPairs]
          /\ parameter_dump'.common = parameter_dump.common
          /\ parameter_dump'.norm = parameter_dump.norm
          /\ parameter_dump'.fbins = parameter_dump.fbins
          /\ parameter_dump'.rwMask = parameter_dump.rwMask
          /\ parameter_dump'.filter = parameter_dump.filter
      BY <1>0, <3>1 DEF Dumps
    <3>3. lfrCurrentMode \in BpModes =>
            parameter_dump'.bp[lfrCurrentMode] = parameter_dump.bp[lfrCurrentMode]
      BY <2>1, <3>2
    <3> QED BY <3>1, <3>2, <3>3 DEF DumpTellsWhatIsUsed
  <2>2. CASE ~(lfrCurrentMode # m /\ BpConsistent(m, b))
    BY <1>3, <1>a, <2>2 DEF LoadBp
  <2> QED BY <2>1, <2>2
<1>4. ASSUME NEW f \in FilterPars, LoadFilterPar(f) PROVE DumpTellsWhatIsUsed'
  <2>1. CASE FilterConsistent(f)
    <3>1. /\ parameter_dump' = [parameter_dump EXCEPT !.filter = f]
          /\ inUse' = [inUse EXCEPT !.filter = f]
          /\ UNCHANGED <<lfrCurrentMode, starting>>
      BY <1>4, <2>1 DEF LoadFilterPar
    <3>2. inUse'.filter = f /\ parameter_dump'.filter = f
      BY <1>0, <3>1 DEF Dumps, Copies
    <3>3. /\ parameter_dump'.common = parameter_dump.common
          /\ parameter_dump'.norm = parameter_dump.norm
          /\ parameter_dump'.bp = parameter_dump.bp
          /\ parameter_dump'.fbins = parameter_dump.fbins
          /\ parameter_dump'.rwMask = parameter_dump.rwMask
      BY <1>0, <3>1 DEF Dumps
    <3>4. /\ inUse'.shaping = inUse.shaping /\ inUse'.merged = inUse.merged
          /\ inUse'.norm = inUse.norm /\ inUse'.bp = inUse.bp
      BY <1>0, <3>1 DEF Copies
    <3> QED BY <3>1, <3>2, <3>3, <3>4 DEF DumpTellsWhatIsUsed
  <2>2. CASE ~FilterConsistent(f)
    BY <1>4, <1>a, <2>2 DEF LoadFilterPar
  <2> QED BY <2>1, <2>2
<1>5. ASSUME NEW mask \in SUBSET Bins, LoadFbins(mask) PROVE DumpTellsWhatIsUsed'
  <2>1. /\ parameter_dump' = [parameter_dump EXCEPT !.fbins = mask]
        /\ inUse' = [inUse EXCEPT !.merged = mask \cap parameter_dump.rwMask]
        /\ UNCHANGED <<lfrCurrentMode, starting, filterLoaded>>
    BY <1>5 DEF LoadFbins
  <2> QED BY <1>0, <2>1 DEF DumpTellsWhatIsUsed, Dumps, Copies
<1>6. ASSUME NEW ok \in BOOLEAN, NEW mask \in SUBSET Bins, UpdateInfo(ok, mask)
      PROVE  DumpTellsWhatIsUsed'
  <2>1. CASE ok
    <3>1. /\ parameter_dump' = [parameter_dump EXCEPT !.rwMask = mask]
          /\ inUse' = [inUse EXCEPT !.merged = parameter_dump.fbins \cap mask]
          /\ UNCHANGED <<lfrCurrentMode, starting, filterLoaded>>
      BY <1>6, <2>1 DEF UpdateInfo
    <3> QED BY <1>0, <3>1 DEF DumpTellsWhatIsUsed, Dumps, Copies
  <2>2. CASE ~ok
    BY <1>6, <2>2, TellsFrame DEF UpdateInfo
  <2> QED BY <2>1, <2>2
<1>7. ASSUME NEW f \in Frequencies, LoadKcoefficients(f) PROVE DumpTellsWhatIsUsed'
  BY <1>7, <1>a, TellsFrame DEF LoadKcoefficients
<1>8. CASE DumpKcoefficients \/ DumpPar \/ SendTask \/ UNCHANGED vars
  BY <1>8, TellsFrame DEF DumpKcoefficients, DumpPar, SendTask, pars, vars
<1>9. ASSUME NEW m \in Modes, NEW n \in 1 .. 2, EnterMode(m, n)
      PROVE  DumpTellsWhatIsUsed'
  BY <1>9 DEF EnterMode, pars, DumpTellsWhatIsUsed, ScienceModes, SharedModes, BpModes
<1>10. CASE AvfStarts
  <2>1. /\ UNCHANGED <<lfrCurrentMode, parameter_dump, filterLoaded>>
        /\ inUse'.norm = parameter_dump.norm
        /\ lfrCurrentMode \in BpModes => inUse'.bp = parameter_dump.bp[lfrCurrentMode]
        /\ inUse'.shaping = inUse.shaping /\ inUse'.merged = inUse.merged
        /\ inUse'.filter = inUse.filter
    BY <1>0, <1>10 DEF AvfStarts, Copies
  <2> QED BY <2>1 DEF DumpTellsWhatIsUsed
<1>11. CASE ForceStandby
  BY <1>11 DEF ForceStandby, pars, DumpTellsWhatIsUsed, SharedModes, BpModes
<1>12. CASE RejectCorrupted
  BY <1>12, <1>a DEF RejectCorrupted
<1> QED BY <1>1, <1>2, <1>3, <1>4, <1>5, <1>6, <1>7, <1>8, <1>9, <1>10, <1>11,
           <1>12 DEF Next

\* TM_LFR_PARAMETER_DUMP tells the truth, whatever was loaded and whenever.
THEOREM DumpTruthful == Spec => []DumpTellsWhatIsUsed
BY InitTells, NextTells, TypeCorrect, PTL DEF Spec
-----------------------------------------------------------------------------
(* What a refusal leaves alone.                                            *)

\* A step is a refusal, which changes no parameter and no matrix, or its
\* telecommand is not rejected.
LEMMA RejectedStep ==
  ASSUME Next
  PROVE  verdict' # "rejected" \/ (Refuse /\ UNCHANGED kcoeff)
<1> USE DEF Answer, Silence
<1>1. ASSUME NEW c \in CommonPars, LoadCommon(c) PROVE verdict' # "rejected"
  BY <1>1 DEF LoadCommon
<1>2. ASSUME NEW n \in NormPars, LoadNorm(n)
      PROVE  verdict' # "rejected" \/ (Refuse /\ UNCHANGED kcoeff)
  BY <1>2 DEF LoadNorm
<1>3. ASSUME NEW m \in BpModes, NEW b \in BpPars[m], LoadBp(m, b)
      PROVE  verdict' # "rejected" \/ (Refuse /\ UNCHANGED kcoeff)
  BY <1>3 DEF LoadBp
<1>4. ASSUME NEW f \in FilterPars, LoadFilterPar(f)
      PROVE  verdict' # "rejected" \/ (Refuse /\ UNCHANGED kcoeff)
  BY <1>4 DEF LoadFilterPar
<1>5. ASSUME NEW mask \in SUBSET Bins, LoadFbins(mask) PROVE verdict' # "rejected"
  BY <1>5 DEF LoadFbins
<1>6. ASSUME NEW ok \in BOOLEAN, NEW mask \in SUBSET Bins, UpdateInfo(ok, mask)
      PROVE  verdict' # "rejected"
  BY <1>6 DEF UpdateInfo
<1>7. ASSUME NEW f \in Frequencies, LoadKcoefficients(f)
      PROVE  verdict' # "rejected" \/ (Refuse /\ UNCHANGED kcoeff)
  BY <1>7 DEF LoadKcoefficients
<1>8. CASE DumpKcoefficients \/ DumpPar
  BY <1>8 DEF DumpKcoefficients, DumpPar
<1>9. ASSUME NEW m \in Modes, NEW n \in 1 .. 2, EnterMode(m, n) PROVE verdict' # "rejected"
  BY <1>9 DEF EnterMode
<1>10. CASE AvfStarts \/ ForceStandby \/ SendTask
  BY <1>10 DEF AvfStarts, ForceStandby, SendTask
<1>11. CASE RejectCorrupted
  BY <1>11 DEF RejectCorrupted
<1> QED BY <1>1, <1>2, <1>3, <1>4, <1>5, <1>6, <1>7, <1>8, <1>9, <1>10, <1>11 DEF Next

\* A telecommand answered as rejected, by ACTN or by RECV, has loaded nothing,
\* for any candidate values and whichever of its fields was refused.
THEOREM RejectionLoadsNothing == Spec => RejectedLoadsNothing
<1>1. [Next]_vars => [Rejected => UNCHANGED <<pars, kcoeff>>]_vars
  BY RejectedStep DEF Rejected, Refuse
<1> QED BY <1>1, PTL DEF Spec, RejectedLoadsNothing
=============================================================================
