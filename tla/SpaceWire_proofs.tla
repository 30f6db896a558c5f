-------------------------- MODULE SpaceWire_proofs --------------------------
(***************************************************************************)
(* The tasks of the SpaceWire link: its recovery, the telecommands and     *)
(* timecodes that come over it and the errors counted on it.               *)
(*                                                                         *)
(* SpaceWireLink: the recovery is never lost and has one owner, for every  *)
(* number of attempts and whatever the driver and RTEMS do with events.    *)
(* What makes it inductive is the hand-over from SPIQ to LINK and back: the*)
(* event of LINK is pending only while SPIQ is suspended, LINK consumes it *)
(* before it touches the driver, and of its three restarts the one of SPIQ *)
(* comes first, the one of SEND before the one of RECV.                    *)
(*                                                                         *)
(* TcAcceptance: a telecommand is answered by one task, for every set of   *)
(* packets and every size of the queue.  What makes it inductive is the    *)
(* order: those done, those in the queue of ACTN and the one RECV has in   *)
(* hands follow each other, and a number in hands is above those used.     *)
(*                                                                         *)
(* Timecode: the routine and the timer together miss no anomaly, for every *)
(* largest timecode.  What makes it inductive is what each of them knows   *)
(* of the last timecode while the other has not spoken yet.                *)
(*                                                                         *)
(* Housekeeping: the counters of the severities tell the errors of the     *)
(* last packet, for every set of counters.  What makes it inductive is     *)
(* where the errors of a kind are: in the driver, in the statistics, in the*)
(* copies HOUS and SPIQ are about to add; and that fewer than Byte of them *)
(* come from a packet to the next, a read mixed by SPIQ counted twice.     *)
(***************************************************************************)
EXTENDS SpaceWireLink, TcAcceptance, Timecode, Housekeeping, Integers, FiniteSetsExt,
        FiniteSetTheorems, WellFoundedInduction, TLAPS

-----------------------------------------------------------------------------
(* The recovery of the link *)

HandOver ==
  /\ linkEvent => spiq = "suspended"
  /\ link \in {"poll", "starting"} => ~linkEvent
  /\ link = "restartRecv" /\ spiq = "wait" => suspended \subseteq {"RECV"}

Owners == /\ spiq \in SpiqStates /\ attempt \in 0 .. ConnectAttempts
          /\ link \in LinkStates /\ suspended \in SUBSET Comm
          /\ RecoveryNeverLost /\ OneDriverOwner /\ HandOver

IInv == FlagsOK /\ Owners

\* The four flags stay Boolean.  Kept apart from the rest: the flags are the
\* only place where the values of Boolean expressions matter.
LEMMA FlagsInit == Init => FlagsOK
BY Zenon DEF Init, FlagsOK

LEMMA FlagsNext == FlagsOK /\ [Next]_vars => FlagsOK'
<1>. SUFFICES ASSUME FlagsOK, [Next]_vars PROVE FlagsOK'
  OBVIOUS
<1>. USE DEF FlagsOK
<1>1. CASE LinkFails
  <2>1. \A b, c \in BOOLEAN : (b \/ c) \in BOOLEAN
    OBVIOUS
  <2>2. PostedStopped \subseteq BOOLEAN /\ {TRUE} \subseteq BOOLEAN
    BY OutcomeAssumption
  <2>3. PICK posted \in IF running THEN {TRUE} ELSE PostedStopped :
           errorEvent' = (errorEvent \/ posted)
    BY <1>1, Zenon DEF LinkFails
  <2>4. posted \in BOOLEAN
    BY <2>2, <2>3, Zenon
  <2>5. errorEvent' \in BOOLEAN
    BY <2>1, <2>3, <2>4, Zenon
  <2>. QED BY <1>1, <2>5, Zenon DEF LinkFails
<1>2. CASE LinkComesUp
  BY <1>2, Zenon DEF LinkComesUp
<1>3. CASE Spiq
  <2>1. CASE SpiqWakes
    BY <2>1, Zenon DEF SpiqWakes
  <2>2. CASE SpiqDelayEnds
    BY <2>2, Zenon DEF SpiqDelayEnds
  <2>3. CASE SpiqRechecks
    BY <2>3, Zenon DEF SpiqRechecks
  <2>4. CASE SpiqPauseEnds
    BY <2>4, Zenon DEF SpiqPauseEnds
  <2>5. CASE SpiqRestarted
    BY <2>5, Zenon DEF SpiqRestarted, Recovered, GivesUp
  <2>6. CASE SpiqConnected
    BY <2>6, Zenon DEF SpiqConnected, Recovered, GivesUp
  <2>. QED BY <1>3, <2>1, <2>2, <2>3, <2>4, <2>5, <2>6 DEF Spiq
<1>4. CASE LinkTask
  <2>1. CASE LinkWakes
    BY <2>1, Zenon DEF LinkWakes, LinkSeesStatus
  <2>2. CASE LinkPolls
    BY <2>2, Zenon DEF LinkPolls, LinkSeesStatus
  <2>3. CASE LinkStarted
    <3>1. \A b, c \in BOOLEAN : (b /\ c) \in BOOLEAN
      OBVIOUS
    <3>2. KeptByRestart \subseteq BOOLEAN
      BY OutcomeAssumption
    <3>3. errorEvent' \in BOOLEAN
      BY <2>3, <3>1, <3>2, Zenon DEF LinkStarted
    <3>. QED BY <2>3, <3>3, Zenon DEF LinkStarted
  <2>4. CASE LinkRestartsSend
    BY <2>4, Zenon DEF LinkRestartsSend
  <2>5. CASE LinkRestartsRecv
    BY <2>5, Zenon DEF LinkRestartsRecv
  <2>. QED BY <1>4, <2>1, <2>2, <2>3, <2>4, <2>5 DEF LinkTask
<1>5. CASE UNCHANGED vars
  BY <1>5, Zenon DEF vars
<1>. QED BY <1>1, <1>2, <1>3, <1>4, <1>5 DEF Next

LEMMA InitOwners == Init => Owners
BY AttemptsAssumption
   DEF Init, Owners, RecoveryNeverLost, OneDriverOwner, HandOver, SpiqStates,
       LinkStates

LEMMA SpiqOwners == Owners /\ Spiq => Owners'
<1>. SUFFICES ASSUME Owners, Spiq PROVE Owners'
  OBVIOUS
<1>. USE AttemptsAssumption
     DEF Owners, RecoveryNeverLost, OneDriverOwner, HandOver, SpiqStates,
         LinkStates, Comm
<1>1. CASE SpiqWakes
  BY <1>1 DEF SpiqWakes
<1>2. CASE SpiqDelayEnds
  BY <1>2 DEF SpiqDelayEnds
<1>3. CASE SpiqRechecks
  BY <1>3 DEF SpiqRechecks
<1>4. CASE SpiqPauseEnds
  BY <1>4 DEF SpiqPauseEnds
<1>5. CASE SpiqRestarted
  <2>1. ~linkEvent /\ link' \notin {"poll", "starting"} /\ attempt' = attempt
    BY <1>5 DEF SpiqRestarted
  <2>2. CASE Recovered
    BY <2>1, <2>2, <1>5 DEF SpiqRestarted, Recovered
  <2>3. CASE GivesUp
    BY <2>1, <2>3, <1>5 DEF SpiqRestarted, GivesUp
  <2>. QED BY <1>5, <2>2, <2>3 DEF SpiqRestarted
<1>6. CASE SpiqConnected
  <2>1. /\ ~linkEvent /\ link' \notin {"poll", "starting"}
        /\ attempt' \in 0 .. ConnectAttempts
    BY <1>6 DEF SpiqConnected
  <2>2. CASE Recovered
    BY <2>1, <2>2, <1>6 DEF SpiqConnected, Recovered
  <2>3. CASE GivesUp
    BY <2>1, <2>3, <1>6 DEF SpiqConnected, GivesUp
  <2>4. CASE spiq' = "pause" /\ UNCHANGED <<suspended, linkEvent>>
    BY <2>1, <2>4, <1>6 DEF SpiqConnected
  <2>. QED BY <1>6, <2>2, <2>3, <2>4 DEF SpiqConnected
<1>. QED BY <1>1, <1>2, <1>3, <1>4, <1>5, <1>6 DEF Spiq

LEMMA LinkTaskOwners == Owners /\ LinkTask => Owners'
<1>. SUFFICES ASSUME Owners, LinkTask PROVE Owners'
  OBVIOUS
<1>. USE DEF Owners, RecoveryNeverLost, OneDriverOwner, HandOver, SpiqStates,
             LinkStates, Comm
<1>1. CASE LinkWakes
  BY <1>1 DEF LinkWakes, LinkSeesStatus
<1>2. CASE LinkPolls
  BY <1>2 DEF LinkPolls, LinkSeesStatus
<1>3. CASE LinkStarted
  BY <1>3 DEF LinkStarted
<1>4. CASE LinkRestartsSend
  BY <1>4 DEF LinkRestartsSend, SpiqReady
<1>5. CASE LinkRestartsRecv
  BY <1>5 DEF LinkRestartsRecv, SpiqReady
<1>. QED BY <1>1, <1>2, <1>3, <1>4, <1>5 DEF LinkTask

\* The link failing or coming up, and stuttering, touch none of it.
LEMMA OtherOwners ==
  Owners /\ (LinkFails \/ LinkComesUp \/ UNCHANGED vars) => Owners'
<1>1. LinkFails \/ LinkComesUp \/ UNCHANGED vars
        => UNCHANGED <<linkEvent, spiq, attempt, link, suspended>>
  BY Zenon DEF LinkFails, LinkComesUp, vars
<1>2. Owners /\ UNCHANGED <<linkEvent, spiq, attempt, link, suspended>> => Owners'
  BY DEF Owners, RecoveryNeverLost, OneDriverOwner, HandOver
<1>. QED BY <1>1, <1>2

\* The recovery starts with nobody suspended.
LEMMA InitIInv == Init => IInv
BY FlagsInit, InitOwners DEF IInv

\* Every step keeps it, whoever takes it.
LEMMA NextIInv == IInv /\ [Next]_vars => IInv'
BY FlagsNext, SpiqOwners, LinkTaskOwners, OtherOwners DEF IInv, Next

\* The flags and the owners, in every state
THEOREM Invariance == Spec => []IInv
BY InitIInv, NextIInv, PTL DEF Spec

-----------------------------------------------------------------------------
\* Every variable keeps its type; no more than ConnectAttempts are counted.
THEOREM TypeCorrect == Spec => []TypeOK
<1>1. FlagsOK /\ Owners => TypeOK
  BY Zenon DEF Owners, TypeOK
<1>. QED BY <1>1, Invariance, PTL DEF IInv

\* A dead link always has a task in charge, and so have suspended RECV and SEND.
THEOREM RecoveryKept == Spec => []RecoveryNeverLost
BY Invariance, PTL DEF IInv, Owners

\* The driver is never stopped and started by both tasks at once.
THEOREM OneOwner == Spec => []OneDriverOwner
BY Invariance, PTL DEF IInv, Owners

-----------------------------------------------------------------------------
(* Telecommands and their answers *)

\* The numbers of a counter do not come back: a telecommand takes three of
\* them at most.
NoWrap == MaxPackets \in Nat /\ SeqCntMax \in Nat /\ 3 * MaxPackets <= SeqCntMax

Places == {"read", "check", "increment", "send"}
AnswerSet == [tc : Nat, counter : Numbered, number : Nat]

TcTypes ==
  /\ received \in Seq(Packets) /\ Len(received) <= MaxPackets
  /\ recv \in [at : Places, number : Nat]
  /\ recvHeld \in BOOLEAN
  /\ tcQueue \in Seq(Nat) /\ tcDone \in Seq(Nat)
  /\ tcAnswers \in Seq(AnswerSet)
  /\ sequenceCounters_TC_EXE \in [Numbered -> Nat]

IsTc(tc) == tc \in 1 .. Len(received)

\* The telecommand RECV has in hands
InHands == recv.at # "read" => Len(received) >= 1

\* Telecommands are executed in the order they came, those in the queue after
\* those that are done, and before the one RECV has in hands.
InOrder ==
  /\ \A i \in 1 .. Len(tcQueue) : IsTc(tcQueue[i]) /\ tc_parser(received[tcQueue[i]])
  /\ \A i, j \in 1 .. Len(tcQueue) : i < j => tcQueue[i] < tcQueue[j]
  /\ \A k \in 1 .. Len(tcDone) : IsTc(tcDone[k])
  /\ \A k \in 1 .. Len(tcDone), i \in 1 .. Len(tcQueue) : tcDone[k] < tcQueue[i]
  /\ recv.at # "read" => /\ \A i \in 1 .. Len(tcQueue) : tcQueue[i] < Current
                         /\ \A k \in 1 .. Len(tcDone) : tcDone[k] < Current

Done(tc) == \E k \in 1 .. Len(tcDone) : tcDone[k] = tc

\* ACTN answers what is done, RECV what is not valid.
AnswersFromOne ==
  /\ recv.at \in {"increment", "send"} => ~tc_parser(received[Current])
  /\ \A i \in 1 .. Len(tcAnswers) :
       LET tc == tcAnswers[i].tc IN
       /\ IsTc(tc)
       /\ IF tc_parser(received[tc]) THEN Done(tc) ELSE recv.at # "read" => tc # Current

OneEach ==
  \A i, j \in 1 .. Len(tcAnswers) :
    i < j /\ tcAnswers[i].tc = tcAnswers[j].tc =>
      received[tcAnswers[i].tc].subtype = "ENTER" /\ Done(tcAnswers[i].tc)

\* What RECV and the queue may still take of the numbers
Pledged == IF recv.at = "check" THEN 3 ELSE IF recv.at = "increment" THEN 1 ELSE 0

Budget ==
  \A c \in Numbered :
    sequenceCounters_TC_EXE[c] + 3 * Len(tcQueue) + Pledged <= 3 * Len(received)

\* The numbers of a counter increase, and RECV's is the next one unless it is
\* suspended, which makes it forget it.
Rising ==
  /\ \A i \in 1 .. Len(tcAnswers) :
       tcAnswers[i].number < sequenceCounters_TC_EXE[tcAnswers[i].counter]
  /\ \A i, j \in 1 .. Len(tcAnswers) :
       i < j /\ tcAnswers[i].counter = tcAnswers[j].counter =>
         tcAnswers[i].number < tcAnswers[j].number

NumberInHands ==
  ~recvHeld =>
    LET c == CounterOf(received[Current]) IN
    /\ recv.at = "increment" => recv.number = sequenceCounters_TC_EXE[c]
    /\ recv.at = "send" =>
         /\ recv.number < sequenceCounters_TC_EXE[c]
         /\ \A i \in 1 .. Len(tcAnswers) :
              tcAnswers[i].counter = c => tcAnswers[i].number < recv.number

TcInv == /\ TcTypes /\ InHands /\ InOrder /\ AnswersFromOne /\ OneEach
         /\ Budget /\ Rising /\ NumberInHands

-----------------------------------------------------------------------------
(* Operators                                                               *)

\* Every packet has a counter: that of GROUND if its source is unknown.
LEMMA CounterIsNumbered == ASSUME NEW p PROVE CounterOf(p) \in Numbered
BY DEF CounterOf, Numbered

\* ACTN says at most three things, and more than one to TC_LFR_ENTER_MODE only.
LEMMA AnswersShape ==
  ASSUME NEW p, NEW free \in 0 .. 3, NEW said \in AnswersOf(p, free)
  PROVE  Len(said) \in 0 .. 3 /\ (p.subtype = "ENTER" \/ Len(said) \in {0, 1})
<1>1. ASSUME NEW s \in EnterAnswers(free) PROVE Len(s) \in 0 .. 3
  BY DEF EnterAnswers
<1>2. CASE Silent(p)
  <2>1. CASE p.type = "TIME" /\ p.subtype = "UPDT_TIME"
    <3>1. said = <<>>
      BY <1>2, <2>1 DEF AnswersOf
    <3> QED
      BY <3>1
  <2>2. CASE p.type = "GEN" /\ p.subtype = "UPDT_INFO"
    <3>1. said = <<>>
      BY <1>2, <2>2 DEF AnswersOf
    <3> QED
      BY <3>1
  <2> QED
    BY <1>2, <2>1, <2>2 DEF Silent
<1>3. CASE ~Silent(p) /\ p.subtype = "ENTER"
  <2>1. said \in EnterAnswers(free)
    BY <1>3 DEF AnswersOf
  <2> QED
    BY <2>1, <1>1, <1>3
<1>4. CASE ~Silent(p) /\ p.subtype # "ENTER"
  <2>1. \/ said = <<>> \/ said = <<"success">> \/ said = <<"inconsistent">>
        \/ said = <<"not_executable">>
    BY <1>4 DEF AnswersOf
  <2>2. /\ Len(<<>>) = 0 /\ Len(<<"success">>) = 1 /\ Len(<<"inconsistent">>) = 1
        /\ Len(<<"not_executable">>) = 1
    OBVIOUS
  <2>3. Len(said) = 0 \/ Len(said) = 1
    BY <2>1, <2>2, Zenon
  <2>4. Len(said) \in 0 .. 3
    BY <2>3
  <2>5. Len(said) \in {0, 1}
    BY <2>3
  <2> QED
    BY <2>4, <2>5, Zenon
<1> QED
  BY <1>2, <1>3, <1>4

\* Within the budget a number is the counter itself.
LEMMA NumberIsCounter ==
  ASSUME NoWrap, TcInv, NEW p, NEW i \in 1 .. 4,
         sequenceCounters_TC_EXE[CounterOf(p)] + i - 1 <= 3 * Len(received)
  PROVE  NumberOf(p, i) = sequenceCounters_TC_EXE[CounterOf(p)] + i - 1
<1> DEFINE n == sequenceCounters_TC_EXE[CounterOf(p)] + i - 1
<1>1. n \in Nat /\ n <= SeqCntMax
  BY CounterIsNumbered DEF NoWrap, TcInv, TcTypes
<1>2. SeqCntMax \in Nat
  BY DEF NoWrap
<1>3. NumberOf(p, i) = n % (SeqCntMax + 1)
  BY DEF NumberOf
<1> HIDE DEF n
<1>4. n % (SeqCntMax + 1) = n
  BY <1>1, <1>2
<1> QED
  BY <1>3, <1>4 DEF n

-----------------------------------------------------------------------------
(* The invariant                                                           *)

\* Nothing is received yet.
LEMMA TcInitInv == ASSUME NoWrap, TcInit PROVE TcInv
<1> USE DEF TcInit, AtRead, Places
<1>1. <<>> \in Seq(Packets) /\ <<>> \in Seq(Nat) /\ <<>> \in Seq(AnswerSet) /\ Len(<<>>) = 0
  OBVIOUS
<1>2. TcTypes
  <2>1. recv \in [at : Places, number : Nat]
    OBVIOUS
  <2>2. sequenceCounters_TC_EXE \in [Numbered -> Nat]
    OBVIOUS
  <2>3. /\ received = <<>> /\ tcQueue = <<>> /\ tcAnswers = <<>> /\ tcDone = <<>>
        /\ recvHeld = FALSE
    OBVIOUS
  <2>4. received \in Seq(Packets) /\ tcQueue \in Seq(Nat) /\ tcDone \in Seq(Nat)
    BY <2>3
  <2>5. tcAnswers \in Seq(AnswerSet)
    BY <2>3
  <2>6. Len(received) <= MaxPackets
    BY <2>3, <1>1 DEF NoWrap
  <2> QED
    BY <2>1, <2>2, <2>3, <2>4, <2>5, <2>6 DEF TcTypes
<1>3. InHands /\ InOrder /\ AnswersFromOne /\ OneEach /\ Rising /\ NumberInHands
  BY <1>1 DEF InHands, InOrder, AnswersFromOne, OneEach, Rising, NumberInHands
<1>4. Budget
  BY <1>1 DEF Budget, Pledged
<1> QED
  BY <1>2, <1>3, <1>4 DEF TcInv

\* recv_task reads a packet: the budget grows by three.
LEMMA ReadsInv == ASSUME NoWrap, TcInv, RecvReads PROVE TcInv'
<1>1. PICK p \in Packets :
        /\ received' = Append(received, p)
        /\ recv' = IF p.bytes + 1 < CCSDS_TC_PKT_MIN_SIZE THEN recv
                   ELSE [recv EXCEPT !.at = "check"]
  BY DEF RecvReads
<1>2. /\ recv.at = "read" /\ Len(received) < MaxPackets
      /\ UNCHANGED <<recvHeld, tcQueue, sequenceCounters_TC_EXE, tcAnswers, tcDone, halted>>
  BY DEF RecvReads, Receiving
<1>3. /\ received' \in Seq(Packets) /\ Len(received') = Len(received) + 1
      /\ \A tc \in 1 .. Len(received) : received'[tc] = received[tc]
      /\ Len(received) \in Nat
  BY <1>1 DEF TcInv, TcTypes
<1>4. recv' \in [at : Places, number : Nat] /\ recv'.at \in {"read", "check"}
  BY <1>1, <1>2 DEF TcInv, TcTypes, Places
<1>5. TcTypes' /\ InHands'
  BY <1>2, <1>3, <1>4 DEF TcInv, TcTypes, InHands, NoWrap
<1>6. InOrder'
  <2>1. \A i \in 1 .. Len(tcQueue) :
          IsTc(tcQueue[i]) /\ received'[tcQueue[i]] = received[tcQueue[i]]
    BY <1>3 DEF TcInv, InOrder, IsTc
  <2>2. \A k \in 1 .. Len(tcDone) : IsTc(tcDone[k])
    BY DEF TcInv, InOrder
  <2>3. \A tc : IsTc(tc) => IsTc(tc)' /\ tc < Current'
    BY <1>3 DEF IsTc, Current
  <2> QED
    BY <1>2, <2>1, <2>2, <2>3 DEF TcInv, TcTypes, InOrder
<1>7. AnswersFromOne'
  <2>1. \A i \in 1 .. Len(tcAnswers) :
          /\ IsTc(tcAnswers[i].tc) /\ IsTc(tcAnswers[i].tc)'
          /\ received'[tcAnswers[i].tc] = received[tcAnswers[i].tc]
          /\ tcAnswers[i].tc # Current'
    <3>1. \A i \in 1 .. Len(tcAnswers) : tcAnswers[i].tc \in 1 .. Len(received)
      BY DEF TcInv, AnswersFromOne, IsTc
    <3>2. ASSUME NEW tc \in 1 .. Len(received)
          PROVE  IsTc(tc) /\ IsTc(tc)' /\ received'[tc] = received[tc] /\ tc # Current'
      <4>1. IsTc(tc) /\ IsTc(tc)' /\ received'[tc] = received[tc]
        BY <1>3 DEF IsTc
      <4>2. tc < Current'
        BY <1>3 DEF Current
      <4> QED
        BY <4>1, <4>2
    <3> QED
      BY <1>2, <3>1, <3>2
  <2> QED
    BY <1>2, <1>4, <2>1 DEF TcInv, AnswersFromOne, Done
<1>8. OneEach'
  <2>1. \A i \in 1 .. Len(tcAnswers) : received'[tcAnswers[i].tc] = received[tcAnswers[i].tc]
    BY <1>3 DEF TcInv, AnswersFromOne, IsTc
  <2>2. tcAnswers' = tcAnswers /\ (\A tc : Done(tc)' <=> Done(tc))
    BY <1>2 DEF Done
  <2> QED
    BY <2>1, <2>2 DEF TcInv, OneEach
<1>9. Budget'
  BY <1>2, <1>3, <1>4 DEF TcInv, TcTypes, Budget, Pledged
<1>10. Rising' /\ NumberInHands'
  BY <1>2, <1>3, <1>4 DEF TcInv, TcTypes, Rising, NumberInHands
<1> QED
  BY <1>5, <1>6, <1>7, <1>8, <1>9, <1>10 DEF TcInv

\* A valid packet goes to ACTN, or is refused because its queue is full.
LEMMA AcceptsInv == ASSUME NoWrap, TcInv, RecvAccepts PROVE TcInv'
<1>1. /\ recv.at = "check" /\ tc_parser(received[Current])
      /\ recv' = AtRead
      /\ UNCHANGED <<received, recvHeld, sequenceCounters_TC_EXE, tcAnswers, tcDone, halted>>
  BY DEF RecvAccepts, Receiving
<1>2. Len(received) >= 1 /\ IsTc(Current)
  BY <1>1 DEF TcInv, TcTypes, InHands, IsTc, Current
<1>3. recv' \in [at : Places, number : Nat] /\ recv'.at = "read"
  BY <1>1 DEF AtRead, Places
<1>4. CASE tcQueue' = tcQueue
  <2>1. TcTypes' /\ InHands'
    BY <1>1, <1>3, <1>4 DEF TcInv, TcTypes, InHands
  <2>1a. InOrder'
    BY <1>1, <1>3, <1>4 DEF TcInv, InOrder, IsTc, Current
  <2>1b. AnswersFromOne' /\ OneEach'
    BY <1>1, <1>3, <1>4 DEF TcInv, AnswersFromOne, OneEach, IsTc, Done, Current
  <2>2. Budget'
    BY <1>1, <1>3, <1>4 DEF TcInv, TcTypes, Budget, Pledged
  <2>3. Rising' /\ NumberInHands'
    BY <1>1, <1>3, <1>4 DEF TcInv, Rising, NumberInHands
  <2> QED
    BY <2>1, <2>1a, <2>1b, <2>2, <2>3 DEF TcInv
<1>5. CASE tcQueue' = Append(tcQueue, Current)
  <2>1. /\ tcQueue' \in Seq(Nat) /\ Len(tcQueue') = Len(tcQueue) + 1 /\ Len(tcQueue) \in Nat
        /\ \A i \in 1 .. Len(tcQueue') :
             tcQueue'[i] = IF i <= Len(tcQueue) THEN tcQueue[i] ELSE Current
    BY <1>2, <1>5 DEF TcInv, TcTypes, IsTc
  <2>2. TcTypes' /\ InHands'
    BY <1>1, <1>3, <2>1 DEF TcInv, TcTypes, InHands
  <2>3. InOrder'
    <3>1. \A i \in 1 .. Len(tcQueue') : IsTc(tcQueue'[i]) /\ tc_parser(received[tcQueue'[i]])
      BY <1>1, <1>2, <2>1 DEF TcInv, InOrder
    <3>2. \A i \in 1 .. Len(tcQueue) : tcQueue[i] < Current
      BY <1>1 DEF TcInv, InOrder
    <3>3. \A k \in 1 .. Len(tcDone) : tcDone[k] < Current
      BY <1>1 DEF TcInv, InOrder
    <3>4. \A i, j \in 1 .. Len(tcQueue') : i < j => tcQueue'[i] < tcQueue'[j]
      BY <2>1, <3>2 DEF TcInv, InOrder
    <3>5. \A k \in 1 .. Len(tcDone), i \in 1 .. Len(tcQueue') : tcDone[k] < tcQueue'[i]
      BY <2>1, <3>3 DEF TcInv, InOrder
    <3> QED
      BY <1>1, <1>3, <3>1, <3>4, <3>5 DEF TcInv, InOrder, IsTc
  <2>4. AnswersFromOne' /\ OneEach'
    BY <1>1, <1>3 DEF TcInv, AnswersFromOne, OneEach, IsTc, Done, Current
  <2>5. Budget'
    BY <1>1, <1>3, <2>1 DEF TcInv, TcTypes, Budget, Pledged
  <2>6. Rising' /\ NumberInHands'
    BY <1>1, <1>3 DEF TcInv, Rising, NumberInHands
  <2> QED
    BY <2>2, <2>3, <2>4, <2>5, <2>6 DEF TcInv
<1> QED
  BY <1>4, <1>5 DEF RecvAccepts

\* A packet that is not valid takes the next number.
LEMMA RejectsInv == ASSUME NoWrap, TcInv, RecvRejects PROVE TcInv'
<1> DEFINE p == received[Current]
<1>1. /\ recv.at = "check" /\ ~tc_parser(p)
      /\ recv' = IF Silent(p) THEN AtRead ELSE [at |-> "increment", number |-> NumberOf(p, 1)]
      /\ UNCHANGED <<received, recvHeld, tcQueue, sequenceCounters_TC_EXE, tcAnswers, tcDone,
                     halted>>
  BY DEF RecvRejects, Receiving
<1>2. /\ sequenceCounters_TC_EXE[CounterOf(p)] \in Nat
      /\ sequenceCounters_TC_EXE[CounterOf(p)] + 1 - 1 <= 3 * Len(received)
  <2>1. /\ CounterOf(p) \in Numbered /\ sequenceCounters_TC_EXE[CounterOf(p)] \in Nat
        /\ Len(tcQueue) \in Nat /\ Len(received) \in Nat
    BY CounterIsNumbered DEF TcInv, TcTypes
  <2>2. sequenceCounters_TC_EXE[CounterOf(p)] + 3 * Len(tcQueue) + 3 <= 3 * Len(received)
    BY <1>1, <2>1 DEF TcInv, Budget, Pledged
  <2> QED
    BY <2>1, <2>2
<1>3. NumberOf(p, 1) = sequenceCounters_TC_EXE[CounterOf(p)]
  BY <1>2, NumberIsCounter
<1>4. /\ recv' \in [at : Places, number : Nat] /\ recv'.at \in {"read", "increment"}
      /\ recv'.at = "increment" => recv'.number = sequenceCounters_TC_EXE[CounterOf(p)]
  BY <1>1, <1>2, <1>3 DEF AtRead, Places
<1>5. TcTypes' /\ InHands'
  BY <1>1, <1>4 DEF TcInv, TcTypes, InHands
<1>6. InOrder'
  BY <1>1 DEF TcInv, InOrder, IsTc, Current
<1>7. AnswersFromOne' /\ OneEach'
  BY <1>1, <1>4 DEF TcInv, AnswersFromOne, OneEach, IsTc, Done, Current
<1>8. Budget'
  BY <1>1, <1>4 DEF TcInv, TcTypes, Budget, Pledged
<1>9. Rising' /\ NumberInHands'
  BY <1>1, <1>4 DEF TcInv, Rising, NumberInHands, Current
<1> QED
  BY <1>5, <1>6, <1>7, <1>8, <1>9 DEF TcInv

\* The counter moves beyond the number RECV has.
LEMMA IncrementsInv == ASSUME NoWrap, TcInv, RecvIncrements PROVE TcInv'
<1> DEFINE c == CounterOf(received[Current])
           n == sequenceCounters_TC_EXE[c]
<1>1. /\ recv.at = "increment" /\ ~recvHeld
      /\ recv' = [recv EXCEPT !.at = "send"]
      /\ sequenceCounters_TC_EXE' = [sequenceCounters_TC_EXE EXCEPT ![c] = After(n)]
      /\ UNCHANGED <<received, recvHeld, tcQueue, tcAnswers, tcDone, halted>>
  BY DEF RecvIncrements, Receiving
<1>2. /\ c \in Numbered /\ n \in Nat /\ Len(tcQueue) \in Nat /\ Len(received) \in Nat
      /\ Len(received) <= MaxPackets
  BY CounterIsNumbered DEF TcInv, TcTypes
<1>3. n + 3 * Len(tcQueue) + 1 <= 3 * Len(received)
  BY <1>1, <1>2 DEF TcInv, Budget, Pledged
<1>4. After(n) = n + 1
  BY <1>2, <1>3 DEF After, NoWrap
<1>5. /\ sequenceCounters_TC_EXE' \in [Numbered -> Nat]
      /\ \A d \in Numbered :
           sequenceCounters_TC_EXE'[d] = IF d = c THEN n + 1 ELSE sequenceCounters_TC_EXE[d]
  BY <1>1, <1>2, <1>4 DEF TcInv, TcTypes
<1>6. /\ recv' \in [at : Places, number : Nat] /\ recv'.at = "send"
      /\ recv'.number = recv.number
  BY <1>1 DEF TcInv, TcTypes, Places
<1>7. TcTypes' /\ InHands'
  BY <1>1, <1>5, <1>6 DEF TcInv, TcTypes, InHands
<1>8. InOrder'
  BY <1>1 DEF TcInv, InOrder, IsTc, Current
<1>9. AnswersFromOne' /\ OneEach'
  BY <1>1, <1>6 DEF TcInv, AnswersFromOne, OneEach, IsTc, Done, Current
<1>10. Budget'
  <2>1. ASSUME NEW d \in Numbered
        PROVE  sequenceCounters_TC_EXE'[d] + 3 * Len(tcQueue) <= 3 * Len(received)
    <3>1. /\ sequenceCounters_TC_EXE[d] \in Nat
          /\ sequenceCounters_TC_EXE[d] + 3 * Len(tcQueue) + 1 <= 3 * Len(received)
      BY <1>1 DEF TcInv, TcTypes, Budget, Pledged
    <3> QED
      BY <3>1, <1>2, <1>3, <1>5, SMTT(30)
  <2> QED
    BY <1>1, <1>2, <1>5, <1>6, <2>1 DEF Budget, Pledged
<1>11. /\ \A i \in 1 .. Len(tcAnswers) : tcAnswers[i] \in AnswerSet
       /\ \A i \in 1 .. Len(tcAnswers) :
            tcAnswers[i].number < sequenceCounters_TC_EXE[tcAnswers[i].counter]
  BY DEF TcInv, TcTypes, Rising
<1>12. \A i \in 1 .. Len(tcAnswers) :
         tcAnswers[i].number < sequenceCounters_TC_EXE'[tcAnswers[i].counter]
  BY <1>2, <1>5, <1>11 DEF AnswerSet
<1>13. Rising'
  BY <1>1, <1>12 DEF TcInv, Rising
<1>14. recv.number = n
  BY <1>1 DEF TcInv, NumberInHands
<1>15. NumberInHands'
  BY <1>1, <1>2, <1>5, <1>6, <1>11, <1>14 DEF NumberInHands, Current
<1> QED
  BY <1>7, <1>8, <1>9, <1>10, <1>13, <1>15 DEF TcInv

\* RECV sends its answer.
LEMMA AnswersInv == ASSUME NoWrap, TcInv, RecvAnswers PROVE TcInv'
<1> DEFINE p == received[Current]
           m == Answer(Current, recv.number)
<1>1. /\ recv.at = "send" /\ ~recvHeld /\ recv' = AtRead
      /\ tcAnswers' \in {tcAnswers, Append(tcAnswers, m)}
      /\ UNCHANGED <<received, recvHeld, sequenceCounters_TC_EXE, tcQueue, tcDone, halted>>
  BY DEF RecvAnswers, Receiving
<1>2. recv' \in [at : Places, number : Nat] /\ recv'.at = "read"
  BY <1>1 DEF AtRead, Places
<1>3. InHands' /\ InOrder' /\ Budget' /\ NumberInHands'
  <2>1. InHands' /\ NumberInHands'
    BY <1>1, <1>2 DEF InHands, NumberInHands
  <2>2. InOrder'
    BY <1>1, <1>2 DEF TcInv, InOrder, IsTc, Current
  <2>3. Budget'
    BY <1>1, <1>2 DEF TcInv, TcTypes, Budget, Pledged
  <2> QED
    BY <2>1, <2>2, <2>3
<1>4. CASE tcAnswers' = tcAnswers
  <2>1. TcTypes'
    BY <1>1, <1>2, <1>4 DEF TcInv, TcTypes
  <2>2. AnswersFromOne'
    BY <1>1, <1>2, <1>4 DEF TcInv, AnswersFromOne, IsTc, Done, Current
  <2>3. OneEach' /\ Rising'
    BY <1>1, <1>4 DEF TcInv, OneEach, Rising, Done
  <2> QED
    BY <1>3, <2>1, <2>2, <2>3 DEF TcInv
<1>5. CASE tcAnswers' = Append(tcAnswers, m)
  <2>1. /\ Len(received) \in Nat /\ Len(received) >= 1 /\ recv.number \in Nat
        /\ Current \in 1 .. Len(received) /\ ~tc_parser(p)
    BY <1>1 DEF TcInv, TcTypes, InHands, AnswersFromOne, Current
  <2>2. /\ m \in AnswerSet
        /\ m.tc = Current /\ m.counter = CounterOf(p) /\ m.number = recv.number
    BY <2>1, CounterIsNumbered DEF Answer, AnswerSet
  <2> HIDE DEF m
  <2>3. /\ tcAnswers' \in Seq(AnswerSet) /\ Len(tcAnswers') = Len(tcAnswers) + 1
        /\ Len(tcAnswers) \in Nat
        /\ \A i \in 1 .. Len(tcAnswers') :
             tcAnswers'[i] = IF i <= Len(tcAnswers) THEN tcAnswers[i] ELSE m
    BY <1>5, <2>2 DEF TcInv, TcTypes
  <2>4. TcTypes'
    BY <1>1, <1>2, <2>3 DEF TcInv, TcTypes
  <2>5. \A i \in 1 .. Len(tcAnswers) : tcAnswers[i].tc # Current
    BY <1>1, <2>1 DEF TcInv, AnswersFromOne
  <2>6. AnswersFromOne'
    <3>1. ASSUME NEW i \in 1 .. Len(tcAnswers')
          PROVE  /\ IsTc(tcAnswers'[i].tc)
                 /\ tc_parser(received[tcAnswers'[i].tc]) => Done(tcAnswers'[i].tc)
      BY <2>1, <2>2, <2>3 DEF TcInv, AnswersFromOne, IsTc
    <3> QED
      BY <1>1, <1>2, <3>1 DEF AnswersFromOne, IsTc, Done
  <2>7. OneEach'
    <3>1. \A i, j \in 1 .. Len(tcAnswers') :
            i < j /\ tcAnswers'[i].tc = tcAnswers'[j].tc => i <= Len(tcAnswers) /\ j <= Len(tcAnswers)
      BY <2>2, <2>3, <2>5
    <3> QED
      BY <1>1, <2>3, <3>1 DEF TcInv, OneEach, Done
  <2>8. /\ recv.number < sequenceCounters_TC_EXE[CounterOf(p)]
        /\ \A i \in 1 .. Len(tcAnswers) :
             tcAnswers[i].counter = CounterOf(p) => tcAnswers[i].number < recv.number
    BY <1>1 DEF TcInv, NumberInHands
  <2>9. Rising'
    <3>1. \A i \in 1 .. Len(tcAnswers') :
            tcAnswers'[i].number < sequenceCounters_TC_EXE[tcAnswers'[i].counter]
      BY <2>2, <2>3, <2>8 DEF TcInv, Rising
    <3>2. \A i, j \in 1 .. Len(tcAnswers') :
            i < j /\ tcAnswers'[i].counter = tcAnswers'[j].counter =>
              tcAnswers'[i].number < tcAnswers'[j].number
      BY <2>2, <2>3, <2>8 DEF TcInv, Rising
    <3> QED
      BY <1>1, <3>1, <3>2 DEF Rising
  <2> QED
    BY <1>3, <2>4, <2>6, <2>7, <2>9 DEF TcInv
<1> QED
  BY <1>1, <1>4, <1>5

\* SPIQ suspends and restarts RECV: it forgets what it has in hands.
LEMMA SpiqInv == ASSUME NoWrap, TcInv, SpiqSuspends \/ SpiqRestarts PROVE TcInv'
<1>1. /\ recvHeld' \in BOOLEAN
      /\ UNCHANGED <<received, tcQueue, sequenceCounters_TC_EXE, tcAnswers, tcDone, halted>>
      /\ \/ recvHeld' /\ recv' = recv
         \/ recv' = AtRead
  BY DEF SpiqSuspends, SpiqRestarts
<1>2. \/ recvHeld' /\ recv' = recv
      \/ recv' \in [at : Places, number : Nat] /\ recv'.at = "read"
  BY <1>1 DEF AtRead, Places
<1>3. TcTypes' /\ InHands'
  BY <1>1, <1>2 DEF TcInv, TcTypes, InHands
<1>4. InOrder'
  BY <1>1, <1>2 DEF TcInv, InOrder, IsTc, Current
<1>5. AnswersFromOne' /\ OneEach'
  BY <1>1, <1>2 DEF TcInv, AnswersFromOne, OneEach, IsTc, Done, Current
<1>6. Budget'
  BY <1>1, <1>2 DEF TcInv, TcTypes, Budget, Pledged
<1>7. Rising' /\ NumberInHands'
  BY <1>1, <1>2 DEF TcInv, Rising, NumberInHands
<1> QED
  BY <1>3, <1>4, <1>5, <1>6, <1>7 DEF TcInv

\* ACTN executes the first telecommand of its queue and answers it.
LEMMA ExecutesInv == ASSUME NoWrap, TcInv, ActnExecutes PROVE TcInv'
<1> DEFINE tc == Head(tcQueue)
           p == received[tc]
           c == CounterOf(p)
           n == sequenceCounters_TC_EXE[c]
<1> DEFINE Room(free) == IF free < Dumped(p.subtype) THEN 0 ELSE free - Dumped(p.subtype)
           Sent(free, said) == IF Room(free) < Len(said) THEN Room(free) ELSE Len(said)
<1>0. PICK free \in 0 .. 3 : \E said \in AnswersOf(p, free) :
        /\ tcAnswers' = tcAnswers \o [i \in 1 .. Sent(free, said) |-> Answer(tc, NumberOf(p, i))]
        /\ sequenceCounters_TC_EXE' = [sequenceCounters_TC_EXE EXCEPT
                                         ![c] = NumberOf(p, Len(said) + 1)]
  BY DEF ActnExecutes
<1>1. PICK said \in AnswersOf(p, free) :
        /\ tcAnswers' = tcAnswers \o [i \in 1 .. Sent(free, said) |-> Answer(tc, NumberOf(p, i))]
        /\ sequenceCounters_TC_EXE' = [sequenceCounters_TC_EXE EXCEPT
                                         ![c] = NumberOf(p, Len(said) + 1)]
  BY <1>0
<1> DEFINE sent == Sent(free, said)
<1>2. /\ tcQueue # <<>> /\ tcQueue' = Tail(tcQueue) /\ tcDone' = Append(tcDone, tc)
      /\ recvHeld \/ recv.at = "read"
      /\ UNCHANGED <<received, recv, recvHeld, halted>>
  BY DEF ActnExecutes
<1>3. Len(said) \in 0 .. 3 /\ (p.subtype = "ENTER" \/ Len(said) \in {0, 1})
  BY AnswersShape
<1>4. sent \in 0 .. Len(said)
  <2>1. Dumped(p.subtype) \in 0 .. 2
    BY DEF Dumped
  <2> QED
    BY <1>3, <2>1
<1>5. /\ Len(tcQueue) \in Nat /\ Len(tcQueue) >= 1 /\ tc = tcQueue[1] /\ tc \in Nat
      /\ tcQueue' \in Seq(Nat) /\ Len(tcQueue') = Len(tcQueue) - 1
      /\ \A i \in 1 .. Len(tcQueue') : tcQueue'[i] = tcQueue[i + 1]
  <2>1. tcQueue \in Seq(Nat) /\ tcQueue # <<>> /\ tcQueue' = Tail(tcQueue)
    BY <1>2 DEF TcInv, TcTypes
  <2> QED
    BY <2>1
<1>5a. Len(tcQueue) \in Nat /\ Len(tcQueue) >= 1 /\ Len(tcQueue') = Len(tcQueue) - 1
  BY <1>5
<1>6. IsTc(tc) /\ tc_parser(p) /\ ~Done(tc)
  BY <1>5 DEF TcInv, TcTypes, InOrder, Done
<1> DEFINE l == Len(said)
           DoneThen(t) == \E k \in 1 .. Len(tcDone') : tcDone'[k] = t
<1> HIDE DEF tc, sent, l
<1>6a. /\ l \in Nat /\ l <= 3 /\ sent \in Nat /\ sent <= l
       /\ sent <= 1 \/ p.subtype = "ENTER"
  <2>1. l \in Nat /\ l <= 3 /\ sent \in Nat /\ sent <= l
    <3>1. l \in 0 .. 3
      BY <1>3 DEF l
    <3>2. sent \in 0 .. l
      BY <1>4 DEF l
    <3> QED
      BY <3>1, <3>2
  <2>2. CASE p.subtype = "ENTER"
    BY <2>1, <2>2
  <2>3. CASE l \in {0, 1}
    <3>1. sent <= 1
      BY <2>1, <2>3
    <3> QED
      BY <2>1, <3>1
  <2> QED
    BY <1>3, <2>2, <2>3 DEF l
<1>6b. l \in Nat /\ l <= 3 /\ sent \in Nat /\ sent <= l
  BY <1>6a
<1>7. /\ c \in Numbered /\ n \in Nat /\ Len(received) \in Nat
      /\ n + 3 * Len(tcQueue) <= 3 * Len(received)
  <2>1. /\ c \in Numbered /\ n \in Nat /\ Len(received) \in Nat
        /\ n + 3 * Len(tcQueue) + Pledged <= 3 * Len(received)
    BY CounterIsNumbered DEF TcInv, TcTypes, Budget
  <2>2. Pledged \in Nat
    BY DEF Pledged
  <2> QED
    BY <1>5, <2>1, <2>2
<1>7a. n \in Nat
  BY <1>7
<1>8. \A i \in 1 .. 4 : NumberOf(p, i) = n + i - 1
  <2>1. \A i \in 1 .. 4 : n + i - 1 <= 3 * Len(received)
    BY <1>5, <1>7
  <2> QED
    BY <2>1, NumberIsCounter
<1>9. /\ sequenceCounters_TC_EXE' \in [Numbered -> Nat]
      /\ \A d \in Numbered : sequenceCounters_TC_EXE'[d] =
           IF d = c THEN n + l ELSE sequenceCounters_TC_EXE[d]
  <2> HIDE DEF n
  <2>1. l + 1 \in 1 .. 4 /\ n + l \in Nat /\ n + (l + 1) - 1 = n + l
    BY <1>6b, <1>7a
  <2> HIDE DEF c, p
  <2>2. NumberOf(p, l + 1) = n + l
    BY <1>8, <2>1
  <2> USE DEF c, p
  <2>3. sequenceCounters_TC_EXE' = [sequenceCounters_TC_EXE EXCEPT ![c] = n + l]
    BY <1>1, <2>2 DEF l
  <2> USE DEF n
  <2> QED
    BY <1>7, <2>1, <2>3 DEF TcInv, TcTypes
<1> DEFINE new == [i \in 1 .. sent |-> Answer(tc, NumberOf(p, i))]
<1>10. /\ new \in Seq(AnswerSet) /\ Len(new) = sent
       /\ \A i \in 1 .. sent : new[i].tc = tc /\ new[i].counter = c /\ new[i].number = n + i - 1
  <2>1. \A i \in 1 .. sent : i \in 1 .. 4
    BY <1>6a
  <2>2. ASSUME NEW i \in 1 .. sent
        PROVE  /\ new[i] \in AnswerSet
               /\ new[i].tc = tc /\ new[i].counter = c /\ new[i].number = n + i - 1
    <3>1. new[i] = [tc |-> tc, counter |-> c, number |-> n + i - 1]
      BY <1>8, <2>1 DEF Answer
    <3>2. n + i - 1 \in Nat
      <4> HIDE DEF n
      <4> QED
        BY <1>7a, <2>1
    <3>3. tc \in Nat /\ c \in Numbered
      BY <1>5, <1>7
    <3> QED
      BY <3>1, <3>2, <3>3 DEF AnswerSet
  <2>3. sent \in Nat
    BY <1>6a
  <2> QED
    BY <2>2, <2>3
<1>11. tcAnswers' = tcAnswers \o new
  BY <1>1 DEF sent
<1> HIDE DEF new, c, n, p
<1> DEFINE kept == Len(tcAnswers)
<1>12. /\ tcAnswers' \in Seq(AnswerSet) /\ kept \in Nat
       /\ Len(tcAnswers') = kept + sent
       /\ \A i \in 1 .. kept : tcAnswers'[i] = tcAnswers[i]
       /\ \A i \in 1 .. kept + sent : i > kept =>
            tcAnswers'[i] = new[i - kept] /\ i - kept \in 1 .. sent
  <2>1. tcAnswers \in Seq(AnswerSet)
    BY DEF TcInv, TcTypes
  <2>2. sent \in Nat
    BY <1>6a
  <2> QED
    BY <1>10, <1>11, <2>1, <2>2
<1>13. \A i \in 1 .. kept + sent : i > kept =>
         /\ tcAnswers'[i].tc = tc /\ tcAnswers'[i].counter = c
         /\ tcAnswers'[i].number = n + (i - kept) - 1
  BY <1>10, <1>12
<1>14. /\ tcDone' \in Seq(Nat) /\ Len(tcDone') = Len(tcDone) + 1 /\ Len(tcDone) \in Nat
       /\ \A k \in 1 .. Len(tcDone') : tcDone'[k] = IF k <= Len(tcDone) THEN tcDone[k] ELSE tc
  BY <1>2, <1>5 DEF TcInv, TcTypes
<1>14a. Len(tcDone) \in Nat /\ Len(tcDone') = Len(tcDone) + 1
  BY <1>14
<1>15. DoneThen(tc) /\ \A t : Done(t) => DoneThen(t)
  BY <1>14 DEF Done
<1>16. TcTypes' /\ InHands'
  BY <1>2, <1>5, <1>9, <1>12, <1>14 DEF TcInv, TcTypes, InHands
<1>17. InOrder'
  <2>1. \A i \in 1 .. Len(tcQueue') : i + 1 \in 1 .. Len(tcQueue)
    BY <1>5
  <2>2. \A i \in 1 .. Len(tcQueue') : IsTc(tcQueue'[i]) /\ tc_parser(received[tcQueue'[i]])
    BY <1>5, <2>1 DEF TcInv, InOrder
  <2>3. ASSUME NEW i \in 1 .. Len(tcQueue'), NEW j \in 1 .. Len(tcQueue'), i < j
        PROVE  tcQueue'[i] < tcQueue'[j]
    <3>1. i + 1 \in 1 .. Len(tcQueue) /\ j + 1 \in 1 .. Len(tcQueue) /\ i + 1 < j + 1
      BY <2>1, <2>3
    <3>2. tcQueue[i + 1] < tcQueue[j + 1]
      BY <3>1 DEF TcInv, InOrder
    <3> QED
      BY <1>5, <3>2
  <2>4. \A k \in 1 .. Len(tcDone') : IsTc(tcDone'[k])
    BY <1>6, <1>14, SMTT(30) DEF TcInv, InOrder
  <2>5. \A i \in 1 .. Len(tcQueue') : tc < tcQueue'[i]
    BY <1>5, <2>1 DEF TcInv, InOrder
  <2>6. ASSUME NEW k \in 1 .. Len(tcDone'), NEW i \in 1 .. Len(tcQueue')
        PROVE  tcDone'[k] < tcQueue'[i]
    <3>1. CASE k <= Len(tcDone)
      <4>1. k \in 1 .. Len(tcDone) /\ i + 1 \in 1 .. Len(tcQueue)
        BY <1>14a, <2>1, <3>1
      <4>2. tcDone[k] < tcQueue[i + 1]
        BY <4>1 DEF TcInv, InOrder
      <4> QED
        BY <1>5, <1>14, <3>1, <4>2
    <3>2. CASE ~(k <= Len(tcDone))
      BY <1>14, <2>5, <3>2
    <3> QED
      BY <3>1, <3>2
  <2>7. recv.at # "read" => /\ \A i \in 1 .. Len(tcQueue') : tcQueue'[i] < Current
                            /\ \A k \in 1 .. Len(tcDone') : tcDone'[k] < Current
    <3>1. ASSUME recv.at # "read"
          PROVE  /\ \A i \in 1 .. Len(tcQueue) : tcQueue[i] < Current
                 /\ \A k \in 1 .. Len(tcDone) : tcDone[k] < Current
      BY <3>1 DEF TcInv, InOrder
    <3>2. recv.at # "read" => tc < Current
      BY <1>5, <3>1
    <3>3. recv.at # "read" => \A i \in 1 .. Len(tcQueue') : tcQueue'[i] < Current
      BY <1>5, <2>1, <3>1
    <3>4. recv.at # "read" => \A k \in 1 .. Len(tcDone') : tcDone'[k] < Current
      BY <1>14, <3>1, <3>2
    <3> QED
      BY <3>3, <3>4
  <2> QED
    BY <1>2, <2>2, <2>3, <2>4, <2>6, <2>7 DEF InOrder, IsTc, Current
<1>18. AnswersFromOne'
  <2>1. ASSUME NEW i \in 1 .. kept + sent
        PROVE  /\ IsTc(tcAnswers'[i].tc)
               /\ IF tc_parser(received[tcAnswers'[i].tc]) THEN DoneThen(tcAnswers'[i].tc)
                  ELSE recv.at # "read" => tcAnswers'[i].tc # Current
    <3>1. CASE i > kept
      BY <1>6, <1>13, <1>15, <3>1 DEF p
    <3>2. CASE i \in 1 .. kept
      BY <1>12, <1>15, <3>2 DEF TcInv, AnswersFromOne
    <3> QED
      BY <1>12, <1>6a, <3>1, <3>2
  <2> QED
    BY <1>2, <1>12, <2>1 DEF TcInv, AnswersFromOne, IsTc, Done, Current
<1>19. OneEach'
  <2>1. ASSUME NEW i \in 1 .. kept + sent, NEW j \in 1 .. kept + sent, i < j,
               tcAnswers'[i].tc = tcAnswers'[j].tc
        PROVE  received[tcAnswers'[i].tc].subtype = "ENTER" /\ DoneThen(tcAnswers'[i].tc)
    <3>1. CASE j \in 1 .. kept
      <4>1. i \in 1 .. kept
        BY <1>12, <3>1, <2>1
      <4> QED
        BY <1>12, <1>15, <2>1, <3>1, <4>1 DEF TcInv, OneEach
    <3>2. CASE j > kept /\ i > kept
      <4>1. ~(sent <= 1)
        BY <1>6a, <1>12, <2>1, <3>2
      <4> QED
        BY <1>6a, <1>13, <1>15, <3>2, <4>1 DEF p
    <3>3. CASE j > kept /\ i \in 1 .. kept
      <4>1. tcAnswers[i].tc = tc
        BY <1>12, <1>13, <2>1, <3>3
      <4> QED
        BY <1>6, <3>3, <4>1 DEF TcInv, AnswersFromOne, p
    <3> QED
      BY <1>12, <1>6a, <3>1, <3>2, <3>3
  <2> QED
    BY <1>2, <1>12, <2>1 DEF OneEach, Done
<1>20. Budget'
  <2>1. ASSUME NEW d \in Numbered
        PROVE  sequenceCounters_TC_EXE'[d] + 3 * Len(tcQueue') + Pledged <= 3 * Len(received)
    <3>1. /\ sequenceCounters_TC_EXE[d] \in Nat /\ Pledged \in Nat
          /\ sequenceCounters_TC_EXE[d] + 3 * Len(tcQueue) + Pledged <= 3 * Len(received)
      BY DEF TcInv, TcTypes, Budget, Pledged
    <3>2. n + 3 * Len(tcQueue) + Pledged <= 3 * Len(received)
      BY <1>7 DEF TcInv, Budget, n, c
    <3>3. CASE d = c
      <4>1. sequenceCounters_TC_EXE'[d] = n + l
        BY <1>9, <3>3
      <4>2. Len(tcQueue') = Len(tcQueue) - 1
        BY <1>5
      <4> QED
        BY <1>5a, <1>6b, <1>7, <3>1, <3>2, <4>1
    <3>4. CASE d # c
      <4>1. sequenceCounters_TC_EXE'[d] = sequenceCounters_TC_EXE[d]
        BY <1>9, <3>4
      <4> QED
        BY <1>5a, <1>7, <3>1, <4>1
    <3> QED
      BY <3>3, <3>4
  <2> QED
    BY <1>2, <2>1 DEF Budget, Pledged
<1>21. \A i \in 1 .. kept : /\ tcAnswers[i] \in AnswerSet
                           /\ tcAnswers[i].number < sequenceCounters_TC_EXE[tcAnswers[i].counter]
  BY DEF TcInv, TcTypes, Rising
<1>22. Rising'
  <2>1. ASSUME NEW i \in 1 .. kept + sent
        PROVE  tcAnswers'[i].number < sequenceCounters_TC_EXE'[tcAnswers'[i].counter]
    <3>1. CASE i > kept
      BY <1>6a, <1>7, <1>9, <1>12, <1>13, <3>1
    <3>2. CASE i \in 1 .. kept
      <4>1. /\ tcAnswers[i].counter \in Numbered /\ tcAnswers[i].number \in Nat
            /\ tcAnswers[i].number < sequenceCounters_TC_EXE[tcAnswers[i].counter]
        BY <1>21, <3>2 DEF AnswerSet
      <4>2. tcAnswers[i].number < sequenceCounters_TC_EXE'[tcAnswers[i].counter]
        <5>1. CASE tcAnswers[i].counter = c
          <6>1. tcAnswers[i].number < n /\ sequenceCounters_TC_EXE'[tcAnswers[i].counter] = n + l
            BY <1>9, <4>1, <5>1 DEF n
          <6> QED
            BY <1>6a, <1>7, <4>1, <6>1
        <5>2. CASE tcAnswers[i].counter # c
          BY <1>9, <4>1, <5>2
        <5> QED
          BY <5>1, <5>2
      <4> QED
        BY <1>12, <3>2, <4>2
    <3> QED
      BY <1>12, <1>6a, <3>1, <3>2
  <2>2. ASSUME NEW i \in 1 .. kept + sent, NEW j \in 1 .. kept + sent, i < j,
               tcAnswers'[i].counter = tcAnswers'[j].counter
        PROVE  tcAnswers'[i].number < tcAnswers'[j].number
    <3>1. CASE j \in 1 .. kept
      <4>1. i \in 1 .. kept
        BY <1>12, <3>1, <2>2
      <4> QED
        BY <1>12, <2>2, <3>1, <4>1 DEF TcInv, Rising
    <3>2. CASE j > kept /\ i > kept
      BY <1>6a, <1>7, <1>12, <1>13, <2>2, <3>2
    <3>3. CASE j > kept /\ i \in 1 .. kept
      <4>1. tcAnswers[i].number < n
        BY <1>12, <1>13, <1>21, <2>2, <3>3 DEF n
      <4> QED
        <5>1. tcAnswers[i].number \in Nat
          BY <1>21, <3>3 DEF AnswerSet
        <5>2. tcAnswers'[i].number < n /\ tcAnswers'[j].number = n + (j - kept) - 1 /\ j - kept >= 1
          BY <1>12, <1>13, <3>3, <4>1, SMTT(30)
        <5> QED
          BY <1>7, <1>12, <3>3, <5>1, <5>2, SMTT(30)
    <3> QED
      BY <1>12, <1>6a, <3>1, <3>2, <3>3
  <2> QED
    BY <1>12, <2>1, <2>2 DEF Rising
<1>23. NumberInHands'
  BY <1>2 DEF NumberInHands
<1> QED
  BY <1>16, <1>17, <1>18, <1>19, <1>20, <1>22, <1>23 DEF TcInv

\* A reset ends the behaviour, and a stutter changes nothing.
LEMMA StopsInv == ASSUME TcInv, ActnResets \/ UNCHANGED tcVars PROVE TcInv'
<1>1. UNCHANGED <<received, recv, recvHeld, tcQueue, sequenceCounters_TC_EXE, tcAnswers, tcDone>>
  BY DEF ActnResets, tcVars
<1>2. TcTypes' /\ InHands' /\ InOrder'
  BY <1>1 DEF TcInv, TcTypes, InHands, InOrder, IsTc, Current
<1>3. AnswersFromOne' /\ OneEach' /\ Budget' /\ Rising' /\ NumberInHands'
  BY <1>1 DEF TcInv, AnswersFromOne, OneEach, IsTc, Done, Current, Budget, Pledged, Rising,
              NumberInHands
<1> QED
  BY <1>2, <1>3 DEF TcInv

\* The invariant holds as long as no number comes back.
LEMMA TcInvIsInductive == ASSUME NoWrap PROVE TcSpec => []TcInv
<1>1. TcInit => TcInv
  BY TcInitInv
<1>2. TcInv /\ [TcNext]_tcVars => TcInv'
  BY ReadsInv, AcceptsInv, RejectsInv, IncrementsInv, AnswersInv, SpiqInv, ExecutesInv, StopsInv
     DEF TcNext
<1> QED
  BY <1>1, <1>2, PTL DEF TcSpec

\* A telecommand is answered once, TC_LFR_ENTER_MODE at most three times, by ACTN
\* if it is valid and by RECV if not, and no two answers to the same source have the
\* same number, although RECV and ACTN use the same counters and SPIQ may stop RECV
\* between its steps (recv_task, actn_task, increment_seq_counter_destination_id).
THEOREM OneAnswer == NoWrap /\ TcSpec => []AnsweredOnce
<1> SUFFICES ASSUME NoWrap PROVE TcSpec => []AnsweredOnce
  BY DEF NoWrap
<1>1. TcInv => AnsweredOnce
  <2> SUFFICES ASSUME TcInv PROVE AnsweredOnce
    OBVIOUS
  <2>1. /\ DOMAIN tcAnswers = 1 .. Len(tcAnswers) /\ DOMAIN tcDone = 1 .. Len(tcDone)
        /\ \A i \in 1 .. Len(tcAnswers) : tcAnswers[i].number \in Nat
    <3>1. tcAnswers \in Seq(AnswerSet) /\ tcDone \in Seq(Nat)
      BY DEF TcInv, TcTypes
    <3>2. \A i \in 1 .. Len(tcAnswers) : tcAnswers[i] \in AnswerSet
      BY <3>1
    <3>3. DOMAIN tcAnswers = 1 .. Len(tcAnswers) /\ DOMAIN tcDone = 1 .. Len(tcDone)
      BY <3>1
    <3> QED
      BY <3>2, <3>3 DEF AnswerSet
  <2>2. \A t : Done(t) => t \in {tcDone[k] : k \in DOMAIN tcDone}
    BY <2>1 DEF Done
  <2>3. \A i, j \in 1 .. Len(tcAnswers) : i < j =>
          /\ tcAnswers[i].tc = tcAnswers[j].tc =>
               /\ received[tcAnswers[i].tc].subtype = "ENTER"
               /\ tcAnswers[i].tc \in {tcDone[k] : k \in DOMAIN tcDone}
          /\ tcAnswers[i].counter = tcAnswers[j].counter =>
               tcAnswers[i].number # tcAnswers[j].number
    BY <2>1, <2>2 DEF TcInv, OneEach, Rising
  <2> QED
    BY <2>1, <2>3 DEF AnsweredOnce
<1> QED
  BY <1>1, TcInvIsInductive, PTL

-----------------------------------------------------------------------------
(* Timecodes *)

\* The counters of the errors of timecodes
TimecodeErrors == {"timecode_erroneous", "timecode_missing", "timecode_invalid"}
Seen == reported \cap TimecodeErrors # {}

TimecodeFlags == /\ ticked \in BOOLEAN /\ firstTickout \in BOOLEAN
                 /\ anomaly \in BOOLEAN /\ interval.anomaly \in BOOLEAN

\* Since the first tick-out the routine and the core have the same last timecode,
\* unless a timecode came to nothing: the timer then counts it, if it has
\* expired, and otherwise will, since the core only passes over a successor with a
\* tick-out.
Supervised ==
  ~firstTickout =>
    /\ timer \in {0, 1}
    /\ timer = 0 => anomaly /\ Seen
    /\ (timer = 1 /\ slot = "timecode") \/ (slot = "timer" /\ ticked) =>
         timer = 1 /\ ~anomaly /\ ~Seen /\ ctr = previousTimecodeCtr
    /\ slot = "timer" /\ ~ticked =>
         /\ anomaly
         /\ timer = 1 => ctr = previousTimecodeCtr \/ ctr # Successor(previousTimecodeCtr)

TimecodeInv ==
  /\ ctr \in Timecodes /\ previousTimecodeCtr \in Timecodes
  /\ slot \in {"timecode", "timer"} /\ TimecodeFlags
  /\ Supervised /\ TimecodeAnomaliesSeen

\* A timecode and its successor
LEMMA Successors ==
  ASSUME NEW t \in Timecodes
  PROVE  /\ Successor(t) \in Timecodes
         /\ t + 1 \in Timecodes => t + 1 = Successor(t)
BY TimecodeAssumption DEF Timecodes, Successor

\* The routine counts a timecode that is not the successor of the last one.
LEMMA TickInv ==
  ASSUME TimecodeInv, TimecodeArrives, NEW t \in Timecodes, ctr' = t, timecode_irq_handler(t)
  PROVE  TimecodeInv'
<1>1. PICK it \in Timecodes, load \in Timecodes :
        interval' = IF firstTickout THEN Quiet ELSE
          [anomaly |-> anomaly \/ t # Successor(ctr),
           reported |-> reported \cup Found(t, it, load)]
  BY DEF timecode_irq_handler
<1>2. /\ anomaly' = FALSE /\ reported' = {} /\ ticked' = TRUE
      /\ firstTickout' = FALSE /\ previousTimecodeCtr' = t /\ timer' = 1
      /\ slot = "timecode" /\ slot' = "timer"
  BY DEF timecode_irq_handler, TimecodeArrives
<1>3. Supervised'
  BY <1>2 DEF Supervised, Seen
<1>4. CASE firstTickout
  <2>1. interval'.anomaly = FALSE /\ interval'.reported = {}
    BY <1>1, <1>4 DEF Quiet
  <2> QED
    BY <1>2, <1>3, <2>1 DEF TimecodeInv, TimecodeFlags, TimecodeAnomaliesSeen
<1>5. CASE ~firstTickout
  <2>1. /\ interval'.anomaly = (anomaly \/ t # Successor(ctr))
        /\ interval'.reported = reported \cup Found(t, it, load)
    BY <1>1, <1>5
  <2>2. Found(t, it, load) \cap TimecodeErrors # {} <=> t # Successor(previousTimecodeCtr)
    BY <1>5 DEF Found, Coherent, TimecodeErrors
  <2>3. interval'.reported \cap TimecodeErrors # {} <=> Seen \/ t # Successor(previousTimecodeCtr)
    BY <2>1, <2>2 DEF Seen
  <2>4. \/ anomaly /\ Seen
        \/ ~anomaly /\ ~Seen /\ ctr = previousTimecodeCtr
    BY <1>2, <1>5 DEF TimecodeInv, Supervised
  <2>5. TimecodeAnomaliesSeen'
    BY <2>1, <2>3, <2>4 DEF TimecodeAnomaliesSeen, TimecodeErrors
  <2>6. interval'.anomaly \in BOOLEAN
    BY <2>1, Zenon DEF TimecodeInv, TimecodeFlags
  <2> QED
    BY <1>2, <1>3, <2>5, <2>6 DEF TimecodeInv, TimecodeFlags
<1> QED
  BY <1>4, <1>5 DEF TimecodeInv, TimecodeFlags

\* A second without a tick-out leaves an anomaly, which the timer will see.
LEMMA SilenceInv ==
  ASSUME TimecodeInv, slot = "timecode", slot' = "timer", anomaly' = TRUE, ticked' = FALSE,
         ctr' \in Timecodes, ctr' = ctr \/ ctr' # Successor(ctr),
         UNCHANGED <<previousTimecodeCtr, firstTickout, timer, reported, interval>>
  PROVE  TimecodeInv'
<1>1. Supervised'
  BY DEF TimecodeInv, Supervised, Seen, Successor
<1> QED
  BY <1>1 DEF TimecodeInv, TimecodeFlags, TimecodeAnomaliesSeen

\* The timer counts a missing or an invalid timecode when it expires.
LEMMA TimerInv == ASSUME TimecodeInv, EndOfSecond PROVE TimecodeInv'
<1>1. /\ slot = "timer" /\ slot' = "timecode"
      /\ UNCHANGED <<ctr, previousTimecodeCtr, firstTickout, ticked, anomaly, interval>>
  BY DEF EndOfSecond
<1>2. CASE ticked \/ timer = 0
  BY <1>1, <1>2 DEF EndOfSecond, TimecodeInv, TimecodeFlags, Supervised, Seen,
                    TimecodeAnomaliesSeen
<1>3. CASE ~(ticked \/ timer = 0)
  <2>1. timer' = timer - 1
    BY <1>3 DEF EndOfSecond
  <2>2. ASSUME ~firstTickout PROVE timer' = 0 /\ anomaly /\ Seen'
    <3>1. timer = 1 /\ anomaly /\ TimerRoutine
      BY <1>1, <1>3, <2>2 DEF EndOfSecond, TimecodeInv, Supervised
    <3>2. ctr = previousTimecodeCtr \/ ctr # previousTimecodeCtr + 1
      BY <1>1, <1>3, <2>2, <3>1, Successors DEF TimecodeInv, Supervised
    <3>3. "timecode_missing" \in reported' \/ "timecode_invalid" \in reported'
      BY <3>1, <3>2 DEF TimerRoutine
    <3> QED
      BY <2>1, <3>1, <3>3 DEF Seen, TimecodeErrors
  <2>3. Supervised'
    BY <1>1, <2>2 DEF Supervised
  <2> QED
    BY <1>1, <2>3 DEF TimecodeInv, TimecodeFlags, TimecodeAnomaliesSeen
<1> QED
  BY <1>2, <1>3

\* Every step keeps it.
LEMMA TimecodeInvNext == TimecodeInv /\ [TimecodeNext]_timecodeVars => TimecodeInv'
<1> SUFFICES ASSUME TimecodeInv, [TimecodeNext]_timecodeVars PROVE TimecodeInv'
  OBVIOUS
<1>1. CASE TimecodeArrives
  <2>1. PICK t \in Timecodes :
          /\ ctr' = t
          /\ \/ timecode_irq_handler(t)
             \/ /\ t # Successor(ctr)
                /\ anomaly' = TRUE /\ ticked' = FALSE
                /\ UNCHANGED <<previousTimecodeCtr, firstTickout, timer, reported, interval>>
    BY <1>1 DEF TimecodeArrives
  <2>2. CASE timecode_irq_handler(t)
    BY <1>1, <2>1, <2>2, TickInv
  <2>3. CASE ~timecode_irq_handler(t)
    BY <1>1, <2>1, <2>3, SilenceInv DEF TimecodeArrives
  <2> QED
    BY <2>2, <2>3
<1>2. CASE NoTimecode
  BY <1>2, SilenceInv DEF NoTimecode, TimecodeInv
<1>3. CASE EndOfSecond
  BY <1>3, TimerInv
<1>4. CASE UpdateTime \/ UNCHANGED timecodeVars
  BY <1>4 DEF UpdateTime, timecodeVars, TimecodeInv, TimecodeFlags, Supervised, Seen,
              TimecodeAnomaliesSeen
<1> QED
  BY <1>1, <1>2, <1>3, <1>4 DEF TimecodeNext

\* Between two tick-outs a counter of the timecodes has increased exactly if a timecode
\* was missing or wrong, for every largest timecode: timecode_irq_handler and
\* timecode_timer_routine, each with its idea of the last one, miss nothing together.
THEOREM AnomaliesSeen == TimecodeSpec => []TimecodeAnomaliesSeen
<1>1. TimecodeInit => TimecodeInv
  <2> SUFFICES ASSUME TimecodeInit PROVE TimecodeInv
    OBVIOUS
  <2>1. interval.anomaly = FALSE /\ interval.reported = {}
    BY DEF TimecodeInit, Quiet
  <2>2. ctr \in Timecodes /\ previousTimecodeCtr \in Timecodes
    BY TimecodeAssumption DEF TimecodeInit, Timecodes
  <2> QED
    BY <2>1, <2>2
       DEF TimecodeInit, TimecodeInv, TimecodeFlags, Supervised, TimecodeAnomaliesSeen
<1>2. TimecodeInv => TimecodeAnomaliesSeen
  BY DEF TimecodeInv
<1> QED
  BY <1>1, <1>2, TimecodeInvNext, PTL DEF TimecodeSpec

-----------------------------------------------------------------------------
(* Sums over a set: an induction over its finite subsets, told as the       *)
(* absence of a least number of elements for which it fails                 *)

\* Every set of naturals has a least element: what stands for an induction below.
LEMMA LeastNatural ==
  ASSUME NEW T \in SUBSET Nat, T # {}
  PROVE  \E x \in T : \A y \in T : x <= y
<1>1. PICK x \in T : \A y \in T : <<y, x>> \notin OpToRel(<, Nat)
  BY NatLessThanWellFounded, WFMin
<1>2. \A y \in T : ~(y < x)
  BY <1>1 DEF OpToRel
<1>3. \A y \in T : x <= y
  BY <1>2
<1> QED
  BY <1>3, Zenon

\* The element taken first from a set
First(s) == CHOOSE x \in s : TRUE

\* The fold of SumFunctionOnSet, on the subsets of S in D
IsIterOn(iter, f, D) ==
  iter = [s \in D |-> IF s = {} THEN 0 ELSE f[First(s)] + iter[s \ {First(s)}]]

\* The sum is what any fold of that shape gives on the whole set.
LEMMA SumIsIter ==
  ASSUME NEW f, NEW S
  PROVE  SumFunctionOnSet(f, S) = (CHOOSE iter : IsIterOn(iter, f, SUBSET S))[S]
BY DEF SumFunctionOnSet, FoldFunctionOnSet, MapThenFoldSet, IsIterOn, First

\* The subsets of at most n elements
UpTo(S, n) == {s \in SUBSET S : Cardinality(s) <= n}

\* Without its first element a set has one element less.
LEMMA TakeFirst ==
  ASSUME NEW S, IsFiniteSet(S), NEW n \in Nat \ {0}, NEW s \in UpTo(S, n), s # {}
  PROVE  First(s) \in s /\ First(s) \in S /\ s \ {First(s)} \in UpTo(S, n - 1)
<1>1. First(s) \in s
  BY DEF First
<1>2. IsFiniteSet(s) /\ s \subseteq S /\ Cardinality(s) <= n
  BY FS_Subset DEF UpTo
<1>3. Cardinality(s) \in Nat /\ Cardinality(s \ {First(s)}) = Cardinality(s) - 1
  BY <1>1, <1>2, FS_RemoveElement, FS_CardinalityType
<1>4. Cardinality(s \ {First(s)}) <= n - 1
  BY <1>2, <1>3
<1> QED
  BY <1>1, <1>2, <1>4 DEF UpTo

\* There is such a fold: the least n without one on the subsets of n elements
\* would have one.
LEMMA IterExists ==
  ASSUME NEW f, NEW S, IsFiniteSet(S)
  PROVE  IsIterOn(CHOOSE iter : IsIterOn(iter, f, SUBSET S), f, SUBSET S)
<1> DEFINE Without == {n \in Nat : ~\E iter : IsIterOn(iter, f, UpTo(S, n))}
<1>1. Without = {}
  <2> SUFFICES ASSUME Without # {} PROVE FALSE
    OBVIOUS
  <2>1. PICK m \in Without : \A n \in Without : m <= n
    BY LeastNatural
  <2>2. m \in Nat /\ ~\E iter : IsIterOn(iter, f, UpTo(S, m))
    OBVIOUS
  <2>3. CASE m = 0
    <3>1. ASSUME NEW s \in UpTo(S, 0) PROVE s = {}
      <4>1. IsFiniteSet(s) /\ Cardinality(s) = 0
        BY FS_Subset, FS_CardinalityType DEF UpTo
      <4> QED
        BY <4>1, FS_EmptySet
    <3>2. IsIterOn([s \in UpTo(S, 0) |-> 0], f, UpTo(S, 0))
      BY <3>1 DEF IsIterOn
    <3> QED
      BY <2>2, <2>3, <3>2
  <2>4. CASE m # 0
    <3>1. m - 1 \in Nat /\ m - 1 \notin Without
      BY <2>1, <2>2, <2>4
    <3>2. PICK iter : IsIterOn(iter, f, UpTo(S, m - 1))
      BY <3>1
    <3> DEFINE more == [s \in UpTo(S, m) |->
                          IF s = {} THEN 0 ELSE f[First(s)] + iter[s \ {First(s)}]]
    <3>3. ASSUME NEW s \in UpTo(S, m), s # {}
          PROVE  more[s \ {First(s)}] = iter[s \ {First(s)}]
      <4> DEFINE r == s \ {First(s)}
      <4>1. r \in UpTo(S, m - 1)
        BY <2>2, <2>4, <3>3, TakeFirst
      <4>2. r \in UpTo(S, m)
        <5>1. IsFiniteSet(r) /\ r \in SUBSET S /\ Cardinality(r) <= m - 1
          BY <4>1, FS_Subset DEF UpTo
        <5>2. Cardinality(r) \in Nat
          BY <5>1, FS_CardinalityType
        <5> QED
          BY <5>1, <5>2, <2>2 DEF UpTo
      <4> HIDE DEF r
      <4> QED
        BY <3>2, <4>1, <4>2 DEF IsIterOn, r
    <3>4. more = [s \in UpTo(S, m) |-> IF s = {} THEN 0 ELSE f[First(s)] + more[s \ {First(s)}]]
      <4> DEFINE again == [s \in UpTo(S, m) |-> IF s = {} THEN 0 ELSE f[First(s)] + more[s \ {First(s)}]]
      <4>1. \A s \in UpTo(S, m) : more[s] = again[s]
        BY <3>3
      <4> QED
        BY <4>1
    <3>5. IsIterOn(more, f, UpTo(S, m))
      <4> HIDE DEF more
      <4> QED
        BY <3>4 DEF IsIterOn
    <3> QED
      BY <2>2, <3>5
  <2> QED
    BY <2>3, <2>4
<1>2. Cardinality(S) \in Nat /\ UpTo(S, Cardinality(S)) = SUBSET S
  BY FS_CardinalityType, FS_Subset DEF UpTo
<1>3. \E iter : IsIterOn(iter, f, SUBSET S)
  <2>1. \E iter : IsIterOn(iter, f, UpTo(S, Cardinality(S)))
    <3>1. Cardinality(S) \notin Without
      BY <1>1
    <3> QED
      BY <1>2, <3>1
  <2> QED
    BY <1>2, <2>1
<1> QED
  BY <1>3

\* Sums are integers and add up.
LEMMA SumAdds ==
  ASSUME NEW f, NEW g, NEW h, NEW S, IsFiniteSet(S),
         \A x \in S : f[x] \in Int /\ g[x] \in Int /\ h[x] = f[x] + g[x]
  PROVE  /\ SumFunctionOnSet(f, S) \in Int /\ SumFunctionOnSet(g, S) \in Int
         /\ SumFunctionOnSet(h, S) = SumFunctionOnSet(f, S) + SumFunctionOnSet(g, S)
<1> DEFINE a == CHOOSE iter : IsIterOn(iter, f, SUBSET S)
           b == CHOOSE iter : IsIterOn(iter, g, SUBSET S)
           c == CHOOSE iter : IsIterOn(iter, h, SUBSET S)
           Right(s) == a[s] \in Int /\ b[s] \in Int /\ c[s] = a[s] + b[s]
           Wrong == {n \in Nat : \E s \in SUBSET S : Cardinality(s) = n /\ ~Right(s)}
<1>1. IsIterOn(a, f, SUBSET S) /\ IsIterOn(b, g, SUBSET S) /\ IsIterOn(c, h, SUBSET S)
  BY IterExists
<1> HIDE DEF a, b, c
<1>2. ASSUME NEW s \in SUBSET S
      PROVE  /\ a[s] = IF s = {} THEN 0 ELSE f[First(s)] + a[s \ {First(s)}]
             /\ b[s] = IF s = {} THEN 0 ELSE g[First(s)] + b[s \ {First(s)}]
             /\ c[s] = IF s = {} THEN 0 ELSE h[First(s)] + c[s \ {First(s)}]
  BY <1>1 DEF IsIterOn
<1>3. Wrong = {}
  <2> SUFFICES ASSUME Wrong # {} PROVE FALSE
    OBVIOUS
  <2>1. PICK m \in Wrong : \A n \in Wrong : m <= n
    BY LeastNatural
  <2>2. PICK s \in SUBSET S : Cardinality(s) = m /\ ~Right(s)
    OBVIOUS
  <2>3. s # {}
    <3> SUFFICES ASSUME s = {} PROVE Right(s)
      BY <2>2
    <3>1. a[s] = 0 /\ b[s] = 0 /\ c[s] = 0
      BY <1>2
    <3> QED
      BY <3>1
  <2> DEFINE x == First(s)
             r == s \ {x}
  <2>4. x \in s /\ IsFiniteSet(s)
    BY <2>3, FS_Subset DEF First
  <2>5. r \in SUBSET S /\ Cardinality(r) \in Nat /\ Cardinality(r) < m /\ m \in Nat
    <3>1. IsFiniteSet(r) /\ Cardinality(r) = Cardinality(s) - 1
      BY <2>4, FS_RemoveElement
    <3>2. m \in Nat /\ Cardinality(s) = m /\ Cardinality(r) \in Nat
      BY <2>2, <3>1, FS_CardinalityType
    <3> QED
      BY <3>1, <3>2
  <2>6. Right(r)
    <3> HIDE DEF r, Right
    <3> QED
      BY <2>1, <2>5
  <2>7. f[x] \in Int /\ g[x] \in Int /\ h[x] = f[x] + g[x]
    BY <2>4
  <2>8. a[s] = f[x] + a[r] /\ b[s] = g[x] + b[r] /\ c[s] = h[x] + c[r]
    BY <1>2, <2>3
  <2> HIDE DEF x, r
  <2>9. Right(s)
    BY <2>6, <2>7, <2>8
  <2> QED
    BY <2>2, <2>9
<1>4. Right(S)
  <2> SUFFICES ASSUME ~Right(S) PROVE FALSE
    OBVIOUS
  <2>1. Cardinality(S) \in Wrong
    <3> HIDE DEF Right
    <3> QED
      BY FS_CardinalityType
  <2> QED
    BY <1>3, <2>1
<1> QED
  BY <1>4, SumIsIter DEF a, b, c

\* Functions equal on a set have the same sum; that of zeros is zero.
LEMMA SumOfZeros ==
  ASSUME NEW f, NEW S, IsFiniteSet(S), \A x \in S : f[x] = 0
  PROVE  SumFunctionOnSet(f, S) = 0
<1>1. /\ SumFunctionOnSet(f, S) \in Int
      /\ SumFunctionOnSet(f, S) = SumFunctionOnSet(f, S) + SumFunctionOnSet(f, S)
  BY SumAdds
<1> DEFINE sum == SumFunctionOnSet(f, S)
<1> HIDE DEF sum
<1>2. sum \in Int /\ sum = sum + sum
  BY <1>1 DEF sum
<1>3. sum = 0
  BY <1>2
<1> QED
  BY <1>3 DEF sum

-----------------------------------------------------------------------------
(* The error counters of the housekeeping packet *)

\* The errors of kind e that the statistics of LFR and of the driver hold, and
\* the copy SPIQ is about to add.
Known(e) == IF at["SPIQ"] = "add" THEN grspw_stats[e] + sums["SPIQ"][e] + driver[e]
            ELSE IF at["SPIQ"] = "store" THEN sums["SPIQ"][e] + driver[e]
            ELSE grspw_stats[e] + driver[e]

\* What is not told yet happened since the last packet; a read of SPIQ between
\* the two calls of HOUS counts it twice at most.
FewSinceTold(e) ==
  /\ told[e] <= grspw_stats[e]
  /\ at["SPIQ"] = "store" => told[e] <= sums["SPIQ"][e]
  /\ at["SPIQ"] = "clear" => sums["SPIQ"][e] <= driver[e]
  /\ driver[e] <= recent[e] /\ recent[e] <= Burst
  /\ at["HOUS"] \notin {"store", "update"} => Known(e) - told[e] <= recent[e]
  /\ at["HOUS"] \in {"clear", "add"} => sums["HOUS"][e] <= recent[e]
  /\ at["HOUS"] = "store" =>
       told[e] <= sums["HOUS"][e] /\ (sums["HOUS"][e] + driver[e]) - told[e] <= 2 * recent[e]
  /\ at["HOUS"] = "update" => Known(e) - told[e] <= 2 * recent[e]

\* Unless mixed, each error known has happened, wherever its copies are.
KnownHappened(e) ==
  ~mixed =>
    /\ told[e] <= happened[e]
    /\ at["HOUS"] \notin {"add", "store"} => Known(e) <= happened[e]
    /\ at["HOUS"] = "clear" => at["SPIQ"] \in {"idle", "compare", "keep", "get"}
                              /\ sums["HOUS"][e] <= driver[e]
    /\ at["HOUS"] = "add" => sums["HOUS"][e] + Known(e) <= happened[e]
    /\ at["HOUS"] = "store" => sums["HOUS"][e] + driver[e] <= happened[e]

\* A counter increased at once has its errors, the last of them not told.
HeldAtOnce(c) ==
  /\ hk[c] = happened[c] % Byte
  /\ told[c] <= happened[c] /\ recent[c] <= Burst
  /\ happened[c] - told[c] <= recent[c] + (IF at["HOUS"] = "count" THEN 1 ELSE 0)

\* Numbers of errors less the times their counters of one byte wrapped
LessWraps(before) == [c \in Counters |-> before[c] - (before[c] \div Byte)]

\* What the counters of the severities were last computed from: before, the
\* numbers of errors told by the packet before while HOUS is to count.
CountedFrom(before) ==
  /\ \A c \in Counters :
       /\ old[c] = before[c] % Byte
       /\ before[c] <= told[c] /\ told[c] - before[c] <= 2 * Burst
       /\ at["HOUS"] # "count" \/ c \notin Spw => before[c] = told[c]
  /\ \A s \in Severities : cnt[s] = SumFunctionOnSet(LessWraps(before), Members(s))

\* The values of the variables
HkTyped ==
  /\ driver \in [Statistics -> Nat] /\ grspw_stats \in [Spw -> Nat]
  /\ sums \in [{"HOUS", "SPIQ"} -> [Statistics -> Nat]]
  /\ at \in [{"HOUS", "SPIQ"} -> {"idle", "compare", "keep", "get", "clear", "add", "store",
                                  "update", "count"}]
  /\ at["SPIQ"] \notin {"update", "count"}
  /\ hk \in [Counters -> Nat] /\ told \in [Counters -> Nat]
  /\ happened \in [ErrorKinds -> Nat] /\ recent \in [ErrorKinds -> Nat]

\* The statistics of the link, and the counters increased at once
StatisticsRight == \A e \in Spw : FewSinceTold(e) /\ KnownHappened(e) /\ hk[e] = told[e] % Byte
CountersRight == \A c \in Counters \ Spw : HeldAtOnce(c)

\* The inductive invariant; the numbers the counters of the severities come from
\* are apart, as nothing else depends on them.
HkInv == HkTyped /\ StatisticsRight /\ CountersRight
HkHistory == \E before \in [Counters -> Nat] : CountedFrom(before)

\* What the proofs need of the constants
LEMMA HkConstants ==
  /\ Byte \in Nat \ {0} /\ Burst \in Nat \ {0} /\ 2 * Burst < Byte
  /\ Spw \subseteq Counters /\ "not_synchro" \in Counters \ Spw
  /\ IsrLow \subseteq Counters \ Spw
  /\ Spw \subseteq Statistics /\ Statistics \subseteq ErrorKinds /\ Counters \subseteq ErrorKinds
  /\ \A c \in Counters \ Spw : c \notin Statistics
  /\ \A s \in Severities : Members(s) \subseteq Counters /\ IsFiniteSet(Members(s))
<1>1. IsFiniteSet(Low) /\ IsFiniteSet(SpwMedium)
  <2>1. IsFiniteSet({"not_synchro"})
    BY FS_Singleton
  <2> QED
    BY <2>1, HousekeepingAssumption, FS_Union DEF Low
<1>2. /\ Byte \in Nat \ {0} /\ Burst \in Nat \ {0} /\ 2 * Burst < Byte
  BY HousekeepingAssumption
<1>3. Spw \subseteq Counters /\ IsrLow \subseteq Counters /\ "not_synchro" \in Counters
  BY DEF Spw, Counters, Low
<1>4. /\ IsrLow \cap Statistics = {} /\ "not_synchro" \notin Statistics
      /\ Spw \subseteq Statistics /\ Statistics \subseteq ErrorKinds /\ Counters \subseteq ErrorKinds
  BY HousekeepingAssumption DEF Spw, Statistics, ErrorKinds, Counters, Low
<1>5. \A s \in Severities : Members(s) \subseteq Counters /\ IsFiniteSet(Members(s))
  BY <1>1 DEF Members, Counters
<1>6. \A c \in Counters \ Spw : c \in IsrLow \cup {"not_synchro"}
  BY DEF Counters, Low, Spw
<1> QED
  BY <1>2, <1>3, <1>4, <1>5, <1>6

\* At the start nothing has happened and nothing is told.
LEMMA HkBegins == HkInit => HkInv /\ HkHistory
<1> SUFFICES ASSUME HkInit PROVE HkInv /\ HkHistory
  OBVIOUS
<1>1. 0 % Byte = 0 /\ 0 \div Byte = 0
  BY HkConstants
<1>2. HkTyped
  BY DEF HkInit, HkTyped, NoErrors, NoCounts
<1>3. \A e \in Spw : FewSinceTold(e)
  BY HkConstants DEF HkInit, FewSinceTold, Known, NoErrors, NoCounts
<1>4. \A e \in Spw : KnownHappened(e) /\ hk[e] = told[e] % Byte
  BY HkConstants, <1>1 DEF HkInit, KnownHappened, Known, NoErrors, NoCounts
<1>5. CountersRight
  BY HkConstants, <1>1 DEF HkInit, CountersRight, HeldAtOnce, NoCounts
<1>6. CountedFrom(NoCounts)
  <2>1. \A s \in Severities : SumFunctionOnSet(LessWraps(NoCounts), Members(s)) = 0
    BY HkConstants, <1>1, SumOfZeros DEF LessWraps, NoCounts
  <2> QED
    BY HkConstants, <1>1, <2>1 DEF HkInit, CountedFrom, NoCounts
<1>7. NoCounts \in [Counters -> Nat]
  BY DEF NoCounts
<1> QED
  BY <1>2, <1>3, <1>4, <1>5, <1>6, <1>7 DEF HkInv, StatisticsRight, HkHistory

\* spacewire_get_last_error changes no statistics but the copy of its task.
LEMMA LastErrorStep ==
  ASSUME HkTyped, NEW t \in {"HOUS", "SPIQ"}, GetLastError(t)
  PROVE  /\ HkTyped'
         /\ at[t] \in {"idle", "compare", "keep"} /\ at'[t] \in {"compare", "keep", "get"}
         /\ \A u \in {"HOUS", "SPIQ"} : u # t => at'[u] = at[u] /\ sums'[u] = sums[u]
         /\ UNCHANGED <<driver, grspw_stats, hk, told, happened, recent, mixed>>
<1>1. CASE ReadForLastError(t)
  BY <1>1 DEF ReadForLastError, Moves, Runs, packet, HkTyped
<1>2. CASE CompareWithPrevious(t)
  BY <1>2 DEF CompareWithPrevious, Moves, Runs, packet, HkTyped
<1>3. CASE KeepAsPrevious(t)
  BY <1>3 DEF KeepAsPrevious, Moves, Runs, packet, HkTyped, NoErrors
<1> QED
  BY <1>1, <1>2, <1>3 DEF GetLastError

\* The values stay in their sets.
LEMMA HkTypedNext == HkTyped /\ [HkNext]_hkVars => HkTyped'
<1> SUFFICES ASSUME HkTyped, [HkNext]_hkVars PROVE HkTyped'
  OBVIOUS
<1> USE DEF HkTyped
<1>1. CASE LinkError
  BY <1>1, HkConstants DEF LinkError, Happens, tasks, packet
<1>2. CASE IsrCounts
  <2>1. \A n \in Nat : increase_unsigned_char_counter(n) \in Nat
    BY HkConstants DEF increase_unsigned_char_counter
  <2> QED
    BY <1>2, <2>1, HkConstants DEF IsrCounts, Happens, tasks
<1>3. ASSUME NEW t \in {"HOUS", "SPIQ"}, GetLastError(t) PROVE HkTyped'
  BY <1>3, LastErrorStep
<1>4. ASSUME NEW t \in {"HOUS", "SPIQ"}, GetStatistics(t) PROVE HkTyped'
  BY <1>4 DEF GetStatistics, Moves, Runs, packet
<1>5. ASSUME NEW t \in {"HOUS", "SPIQ"}, ClearStatistics(t) PROVE HkTyped'
  BY <1>5 DEF ClearStatistics, Moves, Runs, packet, NoErrors
<1>6. ASSUME NEW t \in {"HOUS", "SPIQ"}, LoadStatistics(t) PROVE HkTyped'
  BY <1>6 DEF LoadStatistics, Moves, Runs, packet
<1>7. ASSUME NEW t \in {"HOUS", "SPIQ"}, StoreStatistics(t) PROVE HkTyped'
  BY <1>7, HkConstants DEF StoreStatistics, Moves, Runs, packet, NoErrors
<1>8. CASE UpdatePacket
  <2>1. \A n \in Nat : increase_unsigned_char_counter(n) \in Nat /\ n % Byte \in Nat
    BY HkConstants DEF increase_unsigned_char_counter
  <2>2. hk' \in [Counters -> Nat]
    BY <1>8, <2>1 DEF UpdatePacket, Spw, Counters, Low
  <2>3. told' \in [Counters -> Nat] /\ recent' \in [ErrorKinds -> Nat]
    BY <1>8 DEF UpdatePacket
  <2>4. happened' \in [ErrorKinds -> Nat]
    BY <1>8, HkConstants DEF UpdatePacket
  <2>5. at' = [at EXCEPT !["HOUS"] = "count"] /\ UNCHANGED <<driver, sums, grspw_stats>>
    BY <1>8 DEF UpdatePacket, Moves
  <2> QED
    BY <2>2, <2>3, <2>4, <2>5
<1>9. CASE CountErrors
  BY <1>9, HkConstants DEF CountErrors, Moves, Runs
<1>10. CASE UNCHANGED hkVars
  BY <1>10 DEF hkVars, tasks, packet
<1> QED
  BY <1>1, <1>2, <1>3, <1>4, <1>5, <1>6, <1>7, <1>8, <1>9, <1>10 DEF HkNext, ReadStatistics

\* What each step does of the numbers of an error e of the link
LEMMA OneMoreError ==
  ASSUME HkTyped, LinkError, NEW e \in Spw
  PROVE  \/ /\ recent'[e] = recent[e] + 1 /\ recent'[e] <= Burst
            /\ happened'[e] = happened[e] + 1 /\ driver'[e] = driver[e] + 1
         \/ UNCHANGED <<recent[e], happened[e], driver[e]>>
<1>1. PICK f \in Statistics : Happens(f) /\ driver' = [driver EXCEPT ![f] = @ + 1]
  BY DEF LinkError
<1>2. f \in ErrorKinds /\ e \in ErrorKinds /\ e \in Statistics /\ recent[f] \in Nat /\ recent[f] < Burst
  BY <1>1, HkConstants DEF Happens, HkTyped
<1>3. CASE e = f
  <2>1. /\ recent'[e] = recent[e] + 1 /\ happened'[e] = happened[e] + 1
        /\ driver'[e] = driver[e] + 1
    BY <1>1, <1>2, <1>3 DEF Happens, HkTyped
  <2> QED
    BY <1>2, <1>3, <2>1, HkConstants
<1>4. CASE e # f
  BY <1>1, <1>2, <1>4 DEF Happens, HkTyped
<1> QED
  BY <1>3, <1>4

\* What is not told of an error of the link stays bounded by what happened
\* since the packet, wherever HOUS and SPIQ are.
LEMMA FewSinceToldNext ==
  ASSUME HkTyped, [HkNext]_hkVars, NEW e \in Spw, FewSinceTold(e)
  PROVE  FewSinceTold(e)'
<1> USE DEF FewSinceTold, Known
<1>1. /\ driver[e] \in Nat /\ grspw_stats[e] \in Nat /\ told[e] \in Nat /\ recent[e] \in Nat
      /\ sums["HOUS"][e] \in Nat /\ sums["SPIQ"][e] \in Nat
      /\ e \in Counters /\ e \in ErrorKinds /\ e \in Statistics /\ Burst \in Nat
  BY HkConstants DEF HkTyped
<1>2. CASE LinkError
  <2>1. UNCHANGED <<at, sums, grspw_stats, told>>
    BY <1>2 DEF LinkError, tasks, packet
  <2> QED
    BY <1>1, <1>2, <2>1, OneMoreError
<1>3. CASE IsrCounts
  <2>1. recent'[e] = recent[e]
    BY <1>1, <1>3, HkConstants DEF IsrCounts, Happens, HkTyped
  <2>2. UNCHANGED <<at, sums, grspw_stats, told, driver>>
    BY <1>3 DEF IsrCounts, tasks
  <2> QED
    BY <2>1, <2>2
<1>4. ASSUME NEW t \in {"HOUS", "SPIQ"}, GetLastError(t) PROVE FewSinceTold(e)'
  BY <1>1, <1>4, LastErrorStep
<1>5. ASSUME NEW t \in {"HOUS", "SPIQ"}, GetStatistics(t) PROVE FewSinceTold(e)'
  BY <1>1, <1>5 DEF GetStatistics, Moves, Runs, packet, HkTyped
<1>6. ASSUME NEW t \in {"HOUS", "SPIQ"}, ClearStatistics(t) PROVE FewSinceTold(e)'
  BY <1>1, <1>6 DEF ClearStatistics, Moves, Runs, packet, NoErrors, HkTyped
<1>7. ASSUME NEW t \in {"HOUS", "SPIQ"}, LoadStatistics(t) PROVE FewSinceTold(e)'
  BY <1>1, <1>7 DEF LoadStatistics, Moves, Runs, packet, HkTyped
<1>8. ASSUME NEW t \in {"HOUS", "SPIQ"}, StoreStatistics(t) PROVE FewSinceTold(e)'
  BY <1>1, <1>8 DEF StoreStatistics, Moves, Runs, packet, NoErrors, HkTyped
<1>9. CASE UpdatePacket
  <2>1. at["HOUS"] = "update" /\ at["SPIQ"] = "idle" /\ at'["HOUS"] = "count" /\ at'["SPIQ"] = "idle"
    BY <1>9 DEF UpdatePacket, Runs, Moves, HkTyped
  <2>2. told'[e] = grspw_stats[e] /\ recent'[e] = driver[e]
    BY <1>1, <1>9 DEF UpdatePacket
  <2>3. UNCHANGED <<driver, sums, grspw_stats>>
    BY <1>9 DEF UpdatePacket
  <2> QED
    BY <1>1, <2>1, <2>2, <2>3
<1>10. CASE CountErrors
  <2>1. at["HOUS"] = "count" /\ at["SPIQ"] = "idle" /\ at'["HOUS"] = "idle" /\ at'["SPIQ"] = "idle"
    BY <1>10 DEF CountErrors, Runs, Moves, HkTyped
  <2>2. told'[e] = told[e] /\ recent'[e] = recent[e]
    BY <1>1, <1>10 DEF CountErrors
  <2>3. UNCHANGED <<driver, sums, grspw_stats>>
    BY <1>10 DEF CountErrors
  <2> QED
    BY <1>1, <2>1, <2>2, <2>3
<1>11. CASE UNCHANGED hkVars
  BY <1>11 DEF hkVars, tasks, packet
<1> QED
  BY <1>2, <1>3, <1>4, <1>5, <1>6, <1>7, <1>8, <1>9, <1>10, <1>11 DEF HkNext, ReadStatistics

\* No step but a mixed read makes an error known that has not happened.
LEMMA KnownHappenedNext ==
  ASSUME HkTyped, [HkNext]_hkVars, NEW e \in Spw, FewSinceTold(e), KnownHappened(e)
  PROVE  KnownHappened(e)'
<1> USE DEF KnownHappened, Known
<1>1. /\ driver[e] \in Nat /\ grspw_stats[e] \in Nat /\ told[e] \in Nat /\ happened[e] \in Nat
      /\ sums["HOUS"][e] \in Nat /\ sums["SPIQ"][e] \in Nat
      /\ e \in Counters /\ e \in ErrorKinds /\ e \in Statistics /\ e # "not_synchro"
      /\ at["SPIQ"] = "clear" => sums["SPIQ"][e] <= driver[e]
  BY HkConstants DEF HkTyped, FewSinceTold
<1>2. CASE LinkError
  <2>1. UNCHANGED <<at, sums, grspw_stats, told, mixed>>
    BY <1>2 DEF LinkError, tasks, packet
  <2> QED
    BY <1>1, <1>2, <2>1, OneMoreError
<1>3. CASE IsrCounts
  <2>1. happened'[e] = happened[e]
    BY <1>1, <1>3, HkConstants DEF IsrCounts, Happens, HkTyped
  <2>2. UNCHANGED <<at, sums, grspw_stats, told, driver, mixed>>
    BY <1>3 DEF IsrCounts, tasks
  <2> QED
    BY <2>1, <2>2
<1>4. ASSUME NEW t \in {"HOUS", "SPIQ"}, GetLastError(t) PROVE KnownHappened(e)'
  BY <1>1, <1>4, LastErrorStep
<1>5. ASSUME NEW t \in {"HOUS", "SPIQ"}, GetStatistics(t) PROVE KnownHappened(e)'
  <2>1. ~mixed' => ~mixed /\ ~(t = "SPIQ" /\ at["HOUS"] = "clear")
    BY <1>5, Zenon DEF GetStatistics
  <2>2. /\ at[t] = "get" /\ (t = "HOUS" => at["SPIQ"] = "idle")
        /\ at' = [at EXCEPT ![t] = "clear"] /\ sums' = [sums EXCEPT ![t] = driver]
        /\ UNCHANGED <<driver, grspw_stats, told, happened>>
    BY <1>5 DEF GetStatistics, Moves, Runs, packet
  <2>3. CASE t = "HOUS"
    <3>1. /\ at["SPIQ"] = "idle" /\ at["HOUS"] = "get" /\ at'["SPIQ"] = "idle"
          /\ at'["HOUS"] = "clear" /\ sums'["HOUS"][e] = driver[e]
      BY <2>2, <2>3 DEF HkTyped
    <3> QED
      BY <1>1, <2>1, <2>2, <3>1
  <2>4. CASE t = "SPIQ"
    <3>1. /\ at["SPIQ"] = "get" /\ at'["SPIQ"] = "clear" /\ at'["HOUS"] = at["HOUS"]
          /\ sums'["HOUS"] = sums["HOUS"]
      BY <2>2, <2>4 DEF HkTyped
    <3> QED
      BY <1>1, <2>1, <2>2, <2>4, <3>1
  <2> QED
    BY <2>3, <2>4
<1>6. ASSUME NEW t \in {"HOUS", "SPIQ"}, ClearStatistics(t) PROVE KnownHappened(e)'
  BY <1>1, <1>6 DEF ClearStatistics, Moves, Runs, packet, NoErrors, HkTyped
<1>7. ASSUME NEW t \in {"HOUS", "SPIQ"}, LoadStatistics(t) PROVE KnownHappened(e)'
  BY <1>1, <1>7 DEF LoadStatistics, Moves, Runs, packet, HkTyped
<1>8. ASSUME NEW t \in {"HOUS", "SPIQ"}, StoreStatistics(t) PROVE KnownHappened(e)'
  BY <1>1, <1>8 DEF StoreStatistics, Moves, Runs, packet, NoErrors, HkTyped
<1>9. CASE UpdatePacket
  <2>1. at["HOUS"] = "update" /\ at["SPIQ"] = "idle" /\ at'["HOUS"] = "count" /\ at'["SPIQ"] = "idle"
    BY <1>9 DEF UpdatePacket, Runs, Moves, HkTyped
  <2>2. told'[e] = grspw_stats[e] /\ happened'[e] = happened[e]
    BY <1>1, <1>9 DEF UpdatePacket, HkTyped
  <2>3. UNCHANGED <<driver, sums, grspw_stats, mixed>>
    BY <1>9 DEF UpdatePacket
  <2> QED
    BY <1>1, <2>1, <2>2, <2>3
<1>10. CASE CountErrors
  <2>1. at["HOUS"] = "count" /\ at["SPIQ"] = "idle" /\ at'["HOUS"] = "idle" /\ at'["SPIQ"] = "idle"
    BY <1>10 DEF CountErrors, Runs, Moves, HkTyped
  <2>2. told'[e] = told[e] /\ happened'[e] = happened[e]
    BY <1>1, <1>10 DEF CountErrors
  <2>3. UNCHANGED <<driver, sums, grspw_stats, mixed>>
    BY <1>10 DEF CountErrors
  <2> QED
    BY <1>1, <2>1, <2>2, <2>3
<1>11. CASE UNCHANGED hkVars
  BY <1>11 DEF hkVars, tasks, packet
<1> QED
  BY <1>2, <1>3, <1>4, <1>5, <1>6, <1>7, <1>8, <1>9, <1>10, <1>11 DEF HkNext, ReadStatistics

\* HOUS and SPIQ leave the counters of the packet alone while they read.
LEMMA ReadingKeepsCounters ==
  ASSUME HkTyped, NEW t \in {"HOUS", "SPIQ"}, ReadStatistics(t)
  PROVE  /\ UNCHANGED <<packet, happened, recent>>
         /\ at["HOUS"] = "count" <=> at'["HOUS"] = "count"
<1>1. UNCHANGED <<packet, happened, recent>>
  BY DEF ReadStatistics, GetLastError, ReadForLastError, CompareWithPrevious, KeepAsPrevious,
         GetStatistics, ClearStatistics, LoadStatistics, StoreStatistics
<1>2. PICK place : /\ at' = [at EXCEPT ![t] = place] /\ at[t] # "count" /\ place # "count"
  BY DEF ReadStatistics, GetLastError, ReadForLastError, CompareWithPrevious, KeepAsPrevious,
         GetStatistics, ClearStatistics, LoadStatistics, StoreStatistics, Moves, Runs
<1> QED
  BY <1>1, <1>2 DEF HkTyped

\* Quotient and remainder are unique.
LEMMA QuotientIsUnique ==
  ASSUME NEW a \in Int, NEW b \in Nat \ {0}, NEW q \in Int, NEW r \in 0 .. b - 1, a = b * q + r
  PROVE  a % b = r /\ a \div b = q
<1> DEFINE d == a \div b
           m == a % b
<1>1. a = b * d + m /\ m \in 0 .. b - 1 /\ d \in Int
  OBVIOUS
<1> HIDE DEF d, m
<1>2. b * (q - d) = m - r
  BY <1>1
<1>3. CASE q - d >= 1
  <2>1. b * (q - d) >= b
    BY <1>1, <1>3
  <2> QED
    BY <2>1, <1>1, <1>2
<1>4. CASE q - d <= -1
  <2>1. b * (q - d) <= -b
    BY <1>1, <1>4
  <2> QED
    BY <2>1, <1>1, <1>2
<1>5. CASE q = d
  BY <1>1, <1>5 DEF d, m
<1> QED
  BY <1>1, <1>3, <1>4, <1>5

\* increase_unsigned_char_counter gives the remainder of the next number.
LEMMA NextRemainder ==
  ASSUME NEW n \in Nat, NEW b \in Nat \ {0}
  PROVE  ((n % b) + 1) % b = (n + 1) % b
<1> DEFINE q == n \div b
           r == n % b
<1>1. q \in Nat /\ r \in 0 .. b - 1 /\ n = b * q + r
  OBVIOUS
<1> HIDE DEF q, r
<1>2. CASE r + 1 < b
  <2>1. n + 1 = b * q + (r + 1) /\ r + 1 \in 0 .. b - 1 /\ n + 1 \in Int
    BY <1>1, <1>2
  <2>2. r + 1 = b * 0 + (r + 1) /\ r + 1 \in Int
    BY <1>1, <1>2
  <2>3. (n + 1) % b = r + 1
    BY <1>1, <2>1, QuotientIsUnique
  <2>4. (r + 1) % b = r + 1
    BY <2>1, <2>2, QuotientIsUnique
  <2> QED
    BY <2>3, <2>4 DEF r
<1>3. CASE r + 1 = b
  <2>1. n + 1 = b * (q + 1) + 0 /\ r + 1 = b * 1 + 0 /\ 0 \in 0 .. b - 1 /\ q + 1 \in Int
    BY <1>1, <1>3
  <2>2. (n + 1) % b = 0 /\ (r + 1) % b = 0
    BY <2>1, <1>1, QuotientIsUnique
  <2> QED
    BY <2>2 DEF r
<1> QED
  BY <1>1, <1>2, <1>3

\* increment_hk_counter finds the difference, less one when the counter wrapped.
LEMMA DeltaCounts ==
  ASSUME NEW m \in Nat, NEW n \in Nat, m <= n, n - m < Byte
  PROVE  Delta(n % Byte, m % Byte) = (n - (n \div Byte)) - (m - (m \div Byte))
<1> DEFINE q == m \div Byte
           r == m % Byte
           s == r + (n - m)
<1>1. Byte \in Nat \ {0} /\ q \in Nat /\ r \in 0 .. Byte - 1 /\ m = Byte * q + r
  BY HkConstants
<1> HIDE DEF q, r
<1>2. CASE s < Byte
  <2>1. n = Byte * q + s /\ s \in 0 .. Byte - 1
    BY <1>1, <1>2
  <2>2. n % Byte = s /\ n \div Byte = q
    BY <1>1, <2>1, QuotientIsUnique
  <2>3. Delta(s, r) = n - m
    BY <1>1 DEF Delta
  <2> QED
    BY <1>1, <2>2, <2>3 DEF q, r
<1>3. CASE s >= Byte
  <2>1. n = Byte * (q + 1) + (s - Byte) /\ s - Byte \in 0 .. Byte - 1 /\ q + 1 \in Int
    BY <1>1, <1>3
  <2>2. n % Byte = s - Byte /\ n \div Byte = q + 1
    BY <1>1, <2>1, QuotientIsUnique
  <2>3. Delta(s - Byte, r) = (n - m) - 1
    BY <1>1, <1>3 DEF Delta
  <2>4. Delta(n % Byte, m % Byte) = (n - m) - 1 /\ m \div Byte = q
    BY <2>2, <2>3 DEF q, r
  <2> QED
    BY <1>1, <2>2, <2>4
<1> QED
  BY <1>1, <1>2, <1>3

\* A counter increased at once keeps the remainder of its errors.
LEMMA HeldAtOnceNext ==
  ASSUME HkTyped, [HkNext]_hkVars, NEW c \in Counters \ Spw, HeldAtOnce(c)
  PROVE  HeldAtOnce(c)'
<1> USE DEF HeldAtOnce
<1>1. /\ hk[c] \in Nat /\ told[c] \in Nat /\ happened[c] \in Nat /\ recent[c] \in Nat
      /\ c \in Counters /\ c \in ErrorKinds /\ c \notin Spw /\ c \notin Statistics /\ Burst \in Nat /\ Byte \in Nat \ {0}
  BY HkConstants DEF HkTyped
<1>2. increase_unsigned_char_counter(hk[c]) = (happened[c] + 1) % Byte
  BY <1>1, NextRemainder DEF increase_unsigned_char_counter
<1>3. CASE LinkError
  <2>1. happened'[c] = happened[c] /\ recent'[c] = recent[c]
    BY <1>1, <1>3 DEF LinkError, Happens, HkTyped
  <2>2. UNCHANGED <<at, hk, told>>
    BY <1>3 DEF LinkError, tasks, packet
  <2> QED
    BY <2>1, <2>2
<1>4. CASE IsrCounts
  <2>1. PICK f \in IsrLow : Happens(f) /\ hk' = [hk EXCEPT ![f] = increase_unsigned_char_counter(@)]
    BY <1>4 DEF IsrCounts
  <2>2. UNCHANGED <<at, told>> /\ f \in Counters /\ f \in ErrorKinds
    BY <1>4, HkConstants DEF IsrCounts, tasks
  <2>3. CASE f = c
    <3>1. /\ happened'[c] = happened[c] + 1 /\ recent'[c] = recent[c] + 1 /\ recent[c] < Burst
          /\ hk'[c] = (happened[c] + 1) % Byte
      BY <1>1, <1>2, <2>1, <2>3 DEF Happens, HkTyped
    <3> QED
      BY <1>1, <2>2, <3>1
  <2>4. CASE f # c
    BY <1>1, <2>1, <2>2, <2>4 DEF Happens, HkTyped
  <2> QED
    BY <2>3, <2>4
<1>5. ASSUME NEW t \in {"HOUS", "SPIQ"}, ReadStatistics(t) PROVE HeldAtOnce(c)'
  BY <1>5, ReadingKeepsCounters DEF packet
<1>6. CASE UpdatePacket
  <2>1. at["HOUS"] = "update" /\ at'["HOUS"] = "count" /\ told'[c] = told[c] /\ recent'[c] = recent[c]
    BY <1>1, <1>6 DEF UpdatePacket, Runs, Moves, HkTyped
  <2>2. \/ hk'[c] = hk[c] /\ happened'[c] = happened[c]
        \/ hk'[c] = (happened[c] + 1) % Byte /\ happened'[c] = happened[c] + 1
    <3>1. PICK lost \in BOOLEAN :
            /\ hk' = [k \in Counters |->
                      IF k \in Spw THEN grspw_stats[k] % Byte
                      ELSE IF k = "not_synchro" /\ lost THEN increase_unsigned_char_counter(hk[k])
                      ELSE hk[k]]
            /\ happened' = IF lost THEN [happened EXCEPT !["not_synchro"] = @ + 1] ELSE happened
      BY <1>6 DEF UpdatePacket, LosesSynchronization
    <3> QED
      BY <1>1, <1>2, <3>1, HkConstants DEF HkTyped
  <2> QED
    BY <1>1, <2>1, <2>2
<1>7. CASE CountErrors
  <2>1. /\ at'["HOUS"] = "idle" /\ told'[c] = happened[c] /\ recent'[c] = 0
        /\ UNCHANGED <<hk, happened>>
    BY <1>1, <1>7 DEF CountErrors, Moves, HkTyped
  <2> QED
    BY <1>1, <2>1
<1>8. CASE UNCHANGED hkVars
  BY <1>8 DEF hkVars, tasks, packet
<1> QED
  BY <1>3, <1>4, <1>5, <1>6, <1>7, <1>8 DEF HkNext

\* At CountErrors the counters of the severities gain what is told since.
LEMMA SumsCounted ==
  ASSUME HkTyped, CountErrors, StatisticsRight, CountersRight,
         NEW before \in [Counters -> Nat], CountedFrom(before),
         NEW after \in [Counters -> Nat], after = told'
  PROVE  CountedFrom(after)'
<1>1. ASSUME NEW c \in Counters
      PROVE  /\ before[c] \in Nat /\ after[c] \in Nat /\ hk[c] = after[c] % Byte
             /\ before[c] <= after[c] /\ after[c] - before[c] < Byte
             /\ old[c] = before[c] % Byte
  <2>1. /\ before[c] \in Nat /\ told[c] \in Nat /\ happened[c] \in Nat /\ recent[c] \in Nat
        /\ old[c] = before[c] % Byte /\ before[c] <= told[c] /\ told[c] - before[c] <= 2 * Burst
        /\ at["HOUS"] = "count" /\ Burst \in Nat \ {0} /\ Byte \in Nat /\ 2 * Burst < Byte
    BY HkConstants DEF HkTyped, CountedFrom, CountErrors, Runs
  <2>2. CASE c \in Spw
    <3>1. after[c] = told[c] /\ hk[c] = told[c] % Byte
      BY <2>2 DEF CountErrors, StatisticsRight
    <3> QED
      BY <2>1, <3>1
  <2>3. CASE c \notin Spw
    <3>1. after[c] = happened[c] /\ HeldAtOnce(c) /\ before[c] = told[c]
      BY <2>1, <2>3 DEF CountErrors, CountersRight, CountedFrom
    <3> QED
      BY <2>1, <3>1 DEF HeldAtOnce
  <2> QED
    BY <2>2, <2>3
<1> DEFINE gains == [c \in Counters |-> Delta(hk[c], old[c])]
           from == LessWraps(before)
           to == LessWraps(after)
<1>2. ASSUME NEW c \in Counters
      PROVE  from[c] \in Int /\ gains[c] \in Int /\ to[c] = from[c] + gains[c]
  <2>1. gains[c] = (after[c] - (after[c] \div Byte)) - (before[c] - (before[c] \div Byte))
    BY <1>1, DeltaCounts
  <2>2. from[c] = before[c] - (before[c] \div Byte) /\ to[c] = after[c] - (after[c] \div Byte)
    BY DEF LessWraps
  <2>3. before[c] \div Byte \in Int /\ after[c] \div Byte \in Int
    BY <1>1, HkConstants
  <2> QED
    BY <1>1, <2>1, <2>2, <2>3
<1>3. ASSUME NEW s \in Severities
      PROVE  cnt'[s] = SumFunctionOnSet(to, Members(s))
  <2>1. Members(s) \subseteq Counters /\ IsFiniteSet(Members(s))
    BY HkConstants
  <2>2. cnt'[s] = SumFunctionOnSet(from, Members(s)) + SumFunctionOnSet(gains, Members(s))
    BY DEF CountErrors, CountedFrom, Gain
  <2> HIDE DEF from, to, gains
  <2> QED
    BY <1>2, <2>1, <2>2, SumAdds
<1>4. old' = hk
  BY DEF CountErrors
<1>5. told' = after
  OBVIOUS
<1> QED
  BY <1>1, <1>3, <1>4, <1>5, HkConstants DEF CountedFrom

\* The counters of the severities come from numbers the packet has told.
LEMMA HkHistoryNext ==
  ASSUME HkInv, HkHistory, [HkNext]_hkVars
  PROVE  HkHistory'
<1>1. PICK before \in [Counters -> Nat] : CountedFrom(before)
  BY DEF HkHistory
<1>2. HkTyped /\ StatisticsRight /\ CountersRight
  BY DEF HkInv
<1>3. ASSUME UNCHANGED <<old, cnt, told>>, at["HOUS"] = "count" <=> at'["HOUS"] = "count"
      PROVE  HkHistory'
  BY <1>1, <1>3 DEF HkHistory, CountedFrom
<1>4. CASE LinkError \/ IsrCounts \/ UNCHANGED hkVars
  BY <1>3, <1>4 DEF LinkError, IsrCounts, hkVars, tasks, packet
<1>5. ASSUME NEW t \in {"HOUS", "SPIQ"}, ReadStatistics(t) PROVE HkHistory'
  BY <1>2, <1>3, <1>5, ReadingKeepsCounters DEF packet
<1>6. CASE UpdatePacket
  <2>1. at["HOUS"] = "update" /\ at["SPIQ"] = "idle" /\ old' = old /\ cnt' = cnt
    BY <1>6 DEF UpdatePacket, Runs
  <2>2. ASSUME NEW c \in Counters
        PROVE  /\ before[c] <= told'[c] /\ told'[c] - before[c] <= 2 * Burst
               /\ c \notin Spw => before[c] = told'[c]
    <3>1. before[c] = told[c] /\ told[c] \in Nat /\ Burst \in Nat
      BY <1>1, <1>2, <2>1, HkConstants DEF CountedFrom, HkTyped
    <3>2. CASE c \in Spw
      <4>1. told'[c] = grspw_stats[c] /\ FewSinceTold(c)
        BY <1>2, <1>6, <3>2 DEF UpdatePacket, StatisticsRight
      <4>2. grspw_stats[c] \in Nat /\ driver[c] \in Nat /\ recent[c] \in Nat
        BY <1>2, <3>2, HkConstants DEF HkTyped
      <4> QED
        BY <2>1, <3>1, <3>2, <4>1, <4>2 DEF FewSinceTold, Known
    <3>3. CASE c \notin Spw
      BY <1>6, <3>1, <3>3 DEF UpdatePacket
    <3> QED
      BY <3>2, <3>3
  <2>3. at'["HOUS"] = "count"
    BY <1>2, <1>6 DEF UpdatePacket, Moves, HkTyped
  <2>4. CountedFrom(before)'
    BY <1>1, <2>1, <2>2, <2>3 DEF CountedFrom
  <2> QED
    BY <1>1, <2>4 DEF HkHistory
<1>7. CASE CountErrors
  <2>1. PICK after \in [Counters -> Nat] : after = told'
    BY <1>2, HkTypedNext DEF HkTyped
  <2>2. CountedFrom(after)'
    BY <1>1, <1>2, <1>7, <2>1, SumsCounted
  <2> QED
    BY <2>1, <2>2 DEF HkHistory
<1> QED
  BY <1>4, <1>5, <1>6, <1>7 DEF HkNext

\* The counter of a severity tells the errors of its kinds known at the packet,
\* less one per wrap; and unless mixed no error of the link is told that has
\* not happened.
THEOREM ErrorsRight == HkSpec => []ErrorsCounted
<1>1. HkInit => HkInv /\ HkHistory
  BY HkBegins
<1>2. ASSUME HkInv, HkHistory, [HkNext]_hkVars PROVE HkInv' /\ HkHistory'
  <2>1. HkTyped' /\ HkHistory'
    BY <1>2, HkTypedNext, HkHistoryNext DEF HkInv
  <2>2. ASSUME NEW e \in Spw
        PROVE  FewSinceTold(e)' /\ KnownHappened(e)' /\ (hk[e] = told[e] % Byte)'
    <3>1. HkTyped /\ FewSinceTold(e) /\ KnownHappened(e) /\ hk[e] = told[e] % Byte
      BY <1>2 DEF HkInv, StatisticsRight
    <3>2. (hk[e] = told[e] % Byte)'
      <4>1. e \in Counters /\ e # "not_synchro" /\ e \notin IsrLow
        BY HkConstants
      <4>2. CASE IsrCounts
        BY <3>1, <4>1, <4>2 DEF IsrCounts, HkTyped
      <4>3. CASE UpdatePacket
        BY <4>1, <4>3 DEF UpdatePacket
      <4>4. CASE CountErrors
        BY <3>1, <4>1, <4>4 DEF CountErrors
      <4>5. CASE LinkError \/ UNCHANGED hkVars
        BY <3>1, <4>5 DEF LinkError, hkVars, packet
      <4>6. ASSUME NEW t \in {"HOUS", "SPIQ"}, ReadStatistics(t) PROVE (hk[e] = told[e] % Byte)'
        BY <3>1, <4>6, ReadingKeepsCounters DEF packet
      <4> QED
        BY <1>2, <4>2, <4>3, <4>4, <4>5, <4>6 DEF HkNext
    <3> QED
      BY <1>2, <3>1, <3>2, FewSinceToldNext, KnownHappenedNext
  <2>3. ASSUME NEW c \in Counters \ Spw PROVE HeldAtOnce(c)'
    BY <1>2, <2>3, HeldAtOnceNext DEF HkInv, CountersRight
  <2> QED
    BY <2>1, <2>2, <2>3 DEF HkInv, StatisticsRight, CountersRight, Spw, Counters, Low
<1>3. HkInv /\ HkHistory => ErrorsCounted
  <2> SUFFICES ASSUME HkInv, HkHistory PROVE ErrorsCounted
    OBVIOUS
  <2>1. PICK before \in [Counters -> Nat] : CountedFrom(before)
    BY DEF HkHistory
  <2>2. ASSUME at["HOUS"] # "count", NEW s \in Severities
        PROVE  cnt[s] = SumFunctionOnSet([c \in Counters |-> told[c] - (told[c] \div Byte)], Members(s))
    <3>1. told \in [Counters -> Nat] /\ \A c \in Counters : before[c] = told[c]
      BY <2>1, <2>2 DEF CountedFrom, HkInv, HkTyped
    <3>2. before = told
      BY <2>1, <3>1
    <3> QED
      BY <2>1, <3>2 DEF CountedFrom, LessWraps
  <2>3. ~mixed => \A e \in Spw : told[e] <= happened[e]
    BY DEF HkInv, StatisticsRight, KnownHappened
  <2> QED
    BY <2>2, <2>3 DEF ErrorsCounted
<1> QED
  BY <1>1, <1>2, <1>3, PTL DEF HkSpec
=============================================================================
