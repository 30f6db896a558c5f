---------------------------- MODULE TcAcceptance ----------------------------
(***************************************************************************)
(* Telecommands, from the SpaceWire driver to their TC_EXE answers.  RECV  *)
(* reads a packet, tc_parser accepts it or not; ACTN executes the accepted *)
(* ones.  Both answer, and number their answers with the same counters,    *)
(* one for each source of telecommands.                                    *)
(*                                                                         *)
(* RECV and ACTN have the same priority and ACTN is not preemptible, so    *)
(* ACTN runs when RECV waits in read, or when SPIQ has suspended it,       *)
(* wherever it was; SPIQ or LINK then restarts RECV from its beginning.    *)
(***************************************************************************)
EXTENDS Naturals, Sequences, FiniteSets

CONSTANTS
  Packets,      \* packets found on the link
  ActnQueue,    \* telecommands held by the RECV queue
  SeqCntMax,    \* SEQ_CNT_MAX
  MaxPackets    \* bound: packets in a behaviour

\* The sources tc_check_sid accepts; GROUND has a counter too.
Sources == {"MISSION_TIMELINE", "TC_SEQUENCES", "RECOVERY_ACTION_CMD",
            "BACKUP_MISSION_TIMELINE", "DIRECT_CMD", "SPARE_GRD_SRC1", "SPARE_GRD_SRC2",
            "OBCP", "SYSTEM_CONTROL", "AOCS", "RPW_INTERNAL"}
Numbered == Sources \cup {"GROUND"}

\* TC_LEN_RESET, ...: bytes of a telecommand from its packet identifier on
TC_LEN ==
  [RESET |-> 12, LOAD_COMM |-> 14, LOAD_NORM |-> 22, LOAD_BURST |-> 14, LOAD_SBM1 |-> 14,
   LOAD_SBM2 |-> 14, DUMP |-> 12, ENTER |-> 20, UPDT_INFO |-> 110, EN_CAL |-> 12,
   DIS_CAL |-> 12, LOAD_K |-> 142, DUMP_K |-> 12, LOAD_FBINS |-> 60,
   LOAD_FILTER_PAR |-> 92, UPDT_TIME |-> 18]
CCSDS_TC_TM_PACKET_OFFSET == 7
PROTID_RES_APP == 3
CCSDS_TC_PKT_MIN_SIZE == 16
CCSDS_TC_PKT_MAX_SIZE == 232

VARIABLES
  received,   \* history: packets read by RECV; a telecommand is its index
  recv,       \* where RECV is, and the number it has read
  recvHeld,   \* RECV is suspended
  tcQueue,    \* telecommands for ACTN
  sequenceCounters_TC_EXE,
  tcAnswers,  \* history: what the SEND queue took [tc, counter, number]
  tcDone,     \* history: telecommands ACTN has executed
  halted      \* TC_LFR_RESET has been executed

tcVars == <<received, recv, recvHeld, tcQueue, sequenceCounters_TC_EXE, tcAnswers, tcDone,
            halted>>

AtRead == [at |-> "read", number |-> 0]

TcInit ==
  /\ received = <<>> /\ recv = AtRead /\ recvHeld = FALSE
  /\ tcQueue = <<>> /\ tcAnswers = <<>> /\ tcDone = <<>> /\ halted = FALSE
  /\ sequenceCounters_TC_EXE = [s \in Numbered |-> 0]

-----------------------------------------------------------------------------
(* tc_parser *)

\* The length field the packet should have, from the bytes read
EstimatedLength(p) == p.bytes - CCSDS_TC_TM_PACKET_OFFSET - PROTID_RES_APP

tc_check_type_subtype(type, subtype) ==
  IF type = "TIME" THEN subtype = "UPDT_TIME" ELSE subtype \in DOMAIN TC_LEN \ {"UPDT_TIME"}

tc_check_length(subtype, length) == length = TC_LEN[subtype] - CCSDS_TC_TM_PACKET_OFFSET

tc_check_type(type) == type \in {"GEN", "TIME"}
tc_check_sid(sid) == sid \in Sources
tc_check_crc(p) == p.crc

\* Does tc_parser return CCSDS_TM_VALID?  The other codes are all answered by
\* TM_LFR_TC_EXE_CORRUPTED.
tc_parser(p) ==
  /\ p.apid
  /\ p.length = EstimatedLength(p) /\ p.length <= CCSDS_TC_PKT_MAX_SIZE
  /\ tc_check_type(p.type) /\ tc_check_type_subtype(p.type, p.subtype)
  /\ tc_check_sid(p.sourceID)
  /\ tc_check_length(p.subtype, p.length)
  /\ tc_check_crc(p)

\* UPDATE_TIME and UPDATE_INFO are never answered.
Silent(p) == \/ p.type = "TIME" /\ p.subtype = "UPDT_TIME"
             \/ p.type = "GEN" /\ p.subtype = "UPDT_INFO"

-----------------------------------------------------------------------------
(* Numbers of the answers *)

\* The counter of an unknown source is that of GROUND.
CounterOf(p) == IF p.sourceID \in Numbered THEN p.sourceID ELSE "GROUND"

After(n) == IF n < SeqCntMax THEN n + 1 ELSE 0

\* The number of the i-th answer from now on
NumberOf(p, i) == (sequenceCounters_TC_EXE[CounterOf(p)] + i - 1) % (SeqCntMax + 1)

Answer(tc, n) == [tc |-> tc, counter |-> CounterOf(received[tc]), number |-> n]

-----------------------------------------------------------------------------
(* RECV *)

Current == Len(received)
Receiving(place) == ~halted /\ ~recvHeld /\ recv.at = place

\* read; a packet that is too short is dropped, and so is an error of read
RecvReads ==
  /\ Receiving("read") /\ Len(received) < MaxPackets
  /\ \E p \in Packets :
       /\ received' = Append(received, p)
       /\ recv' = IF p.bytes + 1 < CCSDS_TC_PKT_MIN_SIZE THEN recv
                  ELSE [recv EXCEPT !.at = "check"]
  /\ UNCHANGED <<recvHeld, tcQueue, sequenceCounters_TC_EXE, tcAnswers, tcDone, halted>>

\* A valid telecommand goes to ACTN; it is lost if the queue is full.
RecvAccepts ==
  /\ Receiving("check") /\ tc_parser(received[Current])
  /\ tcQueue' = IF Len(tcQueue) < ActnQueue THEN Append(tcQueue, Current) ELSE tcQueue
  /\ recv' = AtRead
  /\ UNCHANGED <<received, recvHeld, sequenceCounters_TC_EXE, tcAnswers, tcDone, halted>>

\* increment_seq_counter_destination_id, first the number of the packet
RecvRejects ==
  /\ Receiving("check") /\ ~tc_parser(received[Current])
  /\ recv' = IF Silent(received[Current]) THEN AtRead
             ELSE [at |-> "increment", number |-> NumberOf(received[Current], 1)]
  /\ UNCHANGED <<received, recvHeld, tcQueue, sequenceCounters_TC_EXE, tcAnswers, tcDone,
                 halted>>

\* then the counter
RecvIncrements ==
  /\ Receiving("increment")
  /\ sequenceCounters_TC_EXE' = [sequenceCounters_TC_EXE EXCEPT
                                   ![CounterOf(received[Current])] = After(@)]
  /\ recv' = [recv EXCEPT !.at = "send"]
  /\ UNCHANGED <<received, recvHeld, tcQueue, tcAnswers, tcDone, halted>>

\* TM_LFR_TC_EXE_CORRUPTED, lost if the SEND queue is full
RecvAnswers ==
  /\ Receiving("send")
  /\ tcAnswers' \in {tcAnswers, Append(tcAnswers, Answer(Current, recv.number))}
  /\ recv' = AtRead
  /\ UNCHANGED <<received, recvHeld, sequenceCounters_TC_EXE, tcQueue, tcDone, halted>>

-----------------------------------------------------------------------------
(* SPIQ *)

SpiqSuspends ==
  /\ ~halted /\ ~recvHeld /\ recvHeld' = TRUE
  /\ UNCHANGED <<received, recv, tcQueue, sequenceCounters_TC_EXE, tcAnswers, tcDone, halted>>

\* mutant: RECV goes on from where it was
SpiqResumes ==
  /\ recvHeld /\ recvHeld' = FALSE
  /\ UNCHANGED <<received, recv, tcQueue, sequenceCounters_TC_EXE, tcAnswers, tcDone, halted>>

\* rtems_task_restart, also by LINK: RECV begins again with read.
SpiqRestarts ==
  /\ ~halted /\ recvHeld /\ recvHeld' = FALSE /\ recv' = AtRead
  /\ UNCHANGED <<received, tcQueue, sequenceCounters_TC_EXE, tcAnswers, tcDone, halted>>

-----------------------------------------------------------------------------
(* ACTN *)

\* Messages the dumps put in the SEND queue before their answer
Dumped(subtype) ==
  CASE subtype = "DUMP" -> 1 [] subtype = "DUMP_K" -> 2 [] OTHER -> 0

\* The answers of action_enter_mode and close_action.  A refusal that is
\* queued does not end the action (ModeManager).
EnterAnswers(free) ==
  {<<"success">>, <<"error">>}
    \cup {<<no>> : no \in IF free = 0 THEN {"inconsistent", "not_executable"} ELSE {}}
    \cup (IF free = 0 THEN {}
          ELSE {<<no, end>> : no \in {"inconsistent", "not_executable"},
                              end \in {"success", "error"}})
    \cup (IF free = 1 THEN {<<no, "not_executable">> : no \in {"inconsistent", "not_executable"}}
          ELSE {})
    \cup (IF free < 2 THEN {}
          ELSE {<<no, "not_executable", end>> : no \in {"inconsistent", "not_executable"},
                                                end \in {"success", "error"}})

\* The answers of an action and its close_action, when the SEND queue has room
\* for free messages: a load answers its refusal, and returns LFR_DEFAULT; a
\* dump returns the status of the queue.
AnswersOf(p, free) ==
  CASE Silent(p) -> {<<>>}
    [] p.subtype = "ENTER" -> EnterAnswers(free)
    [] p.subtype \in {"DUMP", "DUMP_K"} ->
         IF free < Dumped(p.subtype) THEN {<<>>} ELSE {<<"success">>}
    [] p.subtype \in {"LOAD_COMM", "EN_CAL", "DIS_CAL", "LOAD_FBINS"} -> {<<"success">>}
    [] p.subtype = "LOAD_FILTER_PAR" -> {<<"success">>, <<"inconsistent">>}
    [] OTHER -> {<<"success">>, <<"not_executable">>, <<"inconsistent">>}

\* An action, from the reception of the telecommand to the end of close_action
ActnExecutes ==
  /\ ~halted /\ tcQueue # <<>>
  /\ recvHeld \/ recv.at = "read"
  /\ LET tc == Head(tcQueue)
         p == received[tc] IN
       /\ p.subtype # "RESET"
       /\ \E free \in 0 .. 3 : \E said \in AnswersOf(p, free) :
            LET room == IF free < Dumped(p.subtype) THEN 0 ELSE free - Dumped(p.subtype)
                sent == IF room < Len(said) THEN room ELSE Len(said) IN
            /\ tcAnswers' = tcAnswers \o [i \in 1 .. sent |-> Answer(tc, NumberOf(p, i))]
            /\ sequenceCounters_TC_EXE' = [sequenceCounters_TC_EXE EXCEPT
                                             ![CounterOf(p)] = NumberOf(p, Len(said) + 1)]
       /\ tcDone' = Append(tcDone, tc)
  /\ tcQueue' = Tail(tcQueue)
  /\ UNCHANGED <<received, recv, recvHeld, halted>>

\* action_reset: exit(0)
ActnResets ==
  /\ ~halted /\ tcQueue # <<>>
  /\ recvHeld \/ recv.at = "read"
  /\ received[Head(tcQueue)].subtype = "RESET"
  /\ halted' = TRUE
  /\ UNCHANGED <<received, recv, recvHeld, tcQueue, sequenceCounters_TC_EXE, tcAnswers, tcDone>>

TcNext ==
  \/ RecvReads \/ RecvAccepts \/ RecvRejects \/ RecvIncrements \/ RecvAnswers
  \/ SpiqSuspends \/ SpiqRestarts
  \/ ActnExecutes \/ ActnResets

TcSpec == TcInit /\ [][TcNext]_tcVars

-----------------------------------------------------------------------------
(* Properties *)

\* A telecommand is answered once, or not at all, but for TC_LFR_ENTER_MODE
\* (whose refusal does not end it); and an answer does not bear the number of
\* another of the same source, although RECV and ACTN number them with the same
\* counters and SPIQ may come between the number and its increment
\* (recv_task, actn_task, increment_seq_counter_destination_id).
AnsweredOnce ==
  \A i, j \in DOMAIN tcAnswers : i < j =>
    /\ tcAnswers[i].tc = tcAnswers[j].tc =>
         LET tc == tcAnswers[i].tc IN
         received[tc].subtype = "ENTER" /\ tc \in {tcDone[k] : k \in DOMAIN tcDone}
    /\ tcAnswers[i].counter = tcAnswers[j].counter => tcAnswers[i].number # tcAnswers[j].number
=============================================================================
