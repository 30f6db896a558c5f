------------------------- MODULE ModeManager_proofs -------------------------
(***************************************************************************)
(* Safety of the mode automaton for every set of requested mode bytes and  *)
(* every size of the two queues.                                           *)
(*                                                                         *)
(* The properties speak of ACTN idle, or of what is open between two       *)
(* calls.  They are not inductive as such: the invariant says, for each    *)
(* call of a mode change, what the calls made before it have left of the   *)
(* acquisition (Stage), and that the last one leaves the acquisition of    *)
(* the mode entered (Done).                                                *)
(*                                                                         *)
(* The date of a transition, for every width of the local time: it is      *)
(* respected while LFR stays synchronized, since then the register is the  *)
(* time, and the date kept is the date asked for, unless that is 0.        *)
(***************************************************************************)
EXTENDS ModeManager, TransitionDate, SequenceTheorems, TLAPS

ActiveModes == Modes \ {"STANDBY"}

Carries(a, m) == \A t \in ModeTasks : a.arg[t] = m

EventsReachTasks(a) ==
  /\ "SM" \in a.irq => a.suspended \cap AsmTasks = {}
  /\ "WFP" \in a.irq => a.suspended \cap WaveformTasks = {}

\* The acquisition is that of mode, as far as mode is one.
Coherent(a, mode) == /\ EventsReachTasks(a)
                     /\ mode \in Modes => RunsAs(a, mode)
                     /\ mode \in ActiveModes => Carries(a, mode)

\* What is stopped for a change from mode to m
Stopped(a, mode, m) ==
  /\ a.irq = IF AsmOnly(mode, m) THEN {"WFP"} ELSE {}
  /\ a.picker = IF AsmOnly(mode, m) THEN "shared" ELSE "off"
  /\ ~a.newMatrix

\* Every task to restart is restarted with mode m.
Restarted(a, mode, m) ==
  /\ a.suspended = {}
  /\ Carries(a, m)
  /\ a.touched \cap ScienceTasks = RestartedTasks(mode, m)

\* The acquisition when the calls before call are made, and those for the
\* tasks of T are not.
Stage(call, T, mode, m, a) ==
  /\ call \in {"maskWFP", "maskSM", "resetWFP", "resetSM", "suspend", "request"}
       => a.touched = {}
  /\ call \in {"maskWFP", "maskSM", "resetWFP", "resetSM"} /\ mode = "STANDBY"
       => a.suspended = ScienceTasks
  /\ call = "maskWFP" => ~AsmOnly(mode, m) /\ EventsReachTasks(a)
  /\ call = "maskSM" =>
       IF AsmOnly(mode, m) THEN RunsAs(a, mode)
       ELSE EventsReachTasks(a) /\ "WFP" \notin a.irq
  /\ call = "resetWFP" => ~AsmOnly(mode, m) /\ a.irq = {}
  /\ call = "resetSM" =>
       IF AsmOnly(mode, m)
       THEN a.suspended = {} /\ a.irq = {"WFP"} /\ a.picker = "shared"
       ELSE a.irq = {} /\ a.picker = "off"
  /\ call = "suspend" => /\ Stopped(a, mode, m)
                         /\ AsmOnly(mode, m) => a.suspended \cup T = AsmTasks
                         /\ ~AsmOnly(mode, m) => a.suspended \cup T = ScienceTasks
  /\ call = "request" => /\ AsmOnly(mode, m)
                         /\ Stopped(a, mode, m)
                         /\ a.suspended = AsmTasks
  /\ call = "restart" => /\ Stopped(a, mode, m)
                         /\ a.suspended \subseteq T
                         /\ T \subseteq RestartedTasks(mode, m)
                         /\ a.touched = RestartedTasks(mode, m) \ T
                         /\ \A t \in ModeTasks \ T : a.arg[t] = m
  /\ call \in {"enableSM", "unmaskSM", "enableWFP", "unmaskWFP"} => Restarted(a, mode, m)
  /\ call \in {"enableSM", "unmaskSM", "enableWFP"} => "PICKER" \notin a.touched
  /\ call = "enableSM" => Stopped(a, mode, m)
  /\ call = "unmaskSM" => /\ a.newMatrix
                          /\ AsmOnly(mode, m) => a.irq = {"WFP"} /\ a.picker = "shared"
                          /\ ~AsmOnly(mode, m) => a.irq = {}
  /\ call \in {"enableWFP", "unmaskWFP"} =>
       ~AsmOnly(mode, m) /\ a.newMatrix /\ a.irq = {"SM"}
  /\ call = "unmaskWFP" => a.picker = PickerConfig(m) /\ "PICKER" \in a.touched

\* What holds when the calls are made: m runs as it should.
Done(mode, m, a) ==
  /\ RunsAs(a, m)
  /\ m \in ActiveModes => Carries(a, m)
  /\ m \in SharedModes =>
       a.touched = IF mode \in SharedModes THEN AsmTasks ELSE ScienceTasks \cup {"PICKER"}

\* Who makes the calls, and to which end.
CallerInv ==
  /\ pc \in Calls => TC \in Modes /\ result = "LFR_SUCCESSFUL"
  /\ pc \in Calls \ {"maskWFP", "maskSM", "resetWFP", "resetSM", "suspend"} =>
       TC # "STANDBY"
  /\ pc \in Calls /\ TC \in SharedModes => lfrCurrentMode \notin {TC, InvalidMode}
  /\ pc \in Calls /\ caller = "SPIQ" => TC = "STANDBY"
  /\ pc = "idle" => caller = "ACTN" /\ result = "LFR_SUCCESSFUL" /\ acq.touched = {}
  /\ pc = "updating" => TC = "STANDBY"

IInv ==
  /\ TypeOK
  /\ CallerInv
  /\ Stage(pc, todo, lfrCurrentMode, TC, acq)
  /\ pc = "idle" => Coherent(acq, lfrCurrentMode)
  /\ pc = "updating" => RunsAs(acq, "STANDBY")
  /\ pc = "closing" =>
       IF result = "LFR_SUCCESSFUL" /\ TC \in Modes
       THEN Done(lfrCurrentMode, TC, acq)
       ELSE Coherent(acq, lfrCurrentMode) /\ (TC \in Modes => result # "LFR_SUCCESSFUL")

-----------------------------------------------------------------------------
(* The two kinds of mode changes *)

LEMMA AsmOnlyModes ==
  ASSUME NEW mode, NEW m, AsmOnly(mode, m)
  PROVE  /\ mode \in SharedModes /\ m \in SharedModes
         /\ mode # "STANDBY" /\ m # "STANDBY" /\ mode # m
         /\ PickerConfig(m) = "shared" /\ PickerConfig(mode) = "shared"
BY DEF AsmOnly, SharedModes, PickerConfig

\* Two modes of SharedModes that differ make a change of the ASM tasks only.
LEMMA SharedAsmOnly ==
  ASSUME NEW mode \in SharedModes, NEW m \in SharedModes, mode # m
  PROVE  AsmOnly(mode, m)
BY DEF AsmOnly

LEMMA TaskSets ==
  /\ AsmTasks \subseteq ScienceTasks /\ WaveformTasks \subseteq ScienceTasks
  /\ AsmTasks \cap WaveformTasks = {}
  /\ ScienceTasks = AsmTasks \cup WaveformTasks
  /\ ModeTasks \subseteq AsmTasks /\ "AVF0" \in ModeTasks
  /\ "PICKER" \notin ScienceTasks
  /\ AsmTasks # {}
BY DEF ScienceTasks, AsmTasks, WaveformTasks, ModeTasks

\* In a mode's acquisition no open line wakes a suspended task.
LEMMA RunsReachTasks ==
  ASSUME NEW a, NEW m, RunsAs(a, m)
  PROVE  EventsReachTasks(a)
BY DEF RunsAs, EventsReachTasks

\* The calls and what follows them
LEMMA FollowingType ==
  ASSUME NEW call \in Calls
  PROVE  /\ Following(call) \in Calls \cup Ends
         /\ Following(call) = "closing" => caller = "ACTN"
         /\ Following(call) = "updating" => caller # "ACTN"
BY DEF Following, AfterStop, End, Calls, Ends

LEMMA TasksOfType ==
  ASSUME NEW call, NEW mode, NEW m
  PROVE  TasksOf(call, mode, m) \subseteq ScienceTasks
BY TaskSets DEF TasksOf, SuspendedTasks, RestartedTasks

-----------------------------------------------------------------------------
(* The TC_EXE packets of one TC *)

LEMMA SingleAnswer ==
  ASSUME NEW x \in Answers
  PROVE  <<x>> \in Seq(Answers) /\ Len(<<x>>) = 1
OBVIOUS

LEMMA AnswersConcat ==
  ASSUME NEW s \in Seq(Answers), NEW t \in Seq(Answers)
  PROVE  s \o t \in Seq(Answers) /\ Len(s \o t) \in Nat
BY ConcatProperties

LEMMA RefusalsType ==
  ASSUME NEW m, NEW dateOk
  PROVE  Refusals(m, dateOk) \in Seq(Answers) /\ Len(Refusals(m, dateOk)) \in Nat
<1>. DEFINE value      == IF m \notin Modes THEN <<"inconsistent">> ELSE <<>>
            transition == IF m = lfrCurrentMode /\ m \in Modes
                          THEN <<"not_executable">> ELSE <<>>
            date       == IF dateOk THEN <<>> ELSE <<"not_executable">>
<1>1. /\ <<>> \in Seq(Answers)
      /\ <<"inconsistent">> \in Seq(Answers)
      /\ <<"not_executable">> \in Seq(Answers)
  BY SingleAnswer DEF Answers
<1>2. value \in Seq(Answers) /\ transition \in Seq(Answers) /\ date \in Seq(Answers)
  BY <1>1
<1>. HIDE DEF value, transition, date
<1>3. (value \o transition) \o date \in Seq(Answers)
  BY <1>2, AnswersConcat
<1>4. Refusals(m, dateOk) = (value \o transition) \o date
  BY DEF Refusals, value, transition, date
<1>. QED BY <1>3, <1>4, LenProperties

LEMMA FinalAnswerType == FinalAnswer \in Seq(Answers) /\ Len(FinalAnswer) \in Nat
<1>1. /\ <<>> \in Seq(Answers)
      /\ <<"success">> \in Seq(Answers)
      /\ <<"error">> \in Seq(Answers)
  BY SingleAnswer DEF Answers
<1>2. FinalAnswer \in Seq(Answers)
  <2>1. CASE result = "LFR_SUCCESSFUL"
    BY <1>1, <2>1 DEF FinalAnswer
  <2>2. CASE result = "LFR_EXE_ERROR"
    BY <1>1, <2>2 DEF FinalAnswer
  <2>3. CASE result \notin {"LFR_SUCCESSFUL", "LFR_EXE_ERROR"}
    BY <1>1, <2>3 DEF FinalAnswer
  <2>. QED BY <2>1, <2>2, <2>3
<1>. QED BY <1>2, LenProperties

-----------------------------------------------------------------------------
(* The inductive invariant *)

LEMMA InitIInv == Init => IInv
<1>. SUFFICES ASSUME Init PROVE IInv
  OBVIOUS
<1>1. TypeOK
  BY QueueAssumption
     DEF Init, TypeOK, Acquisitions, Modes, ModeTasks, ScienceTasks, IrqLines,
         RestartStates, Results
<1>2. Coherent(acq, lfrCurrentMode)
  BY DEF Init, Coherent, EventsReachTasks, RunsAs, ActiveModes
<1>3. CallerInv /\ Stage(pc, todo, lfrCurrentMode, TC, acq)
  BY DEF Init, CallerInv, Stage, Calls
<1>. QED BY <1>1, <1>2, <1>3 DEF Init, IInv

\* Nothing has been done yet when the first call is made.
LEMMA FirstStage ==
  ASSUME NEW mode \in Modes \cup {InvalidMode}, NEW m \in Modes \cup {InvalidMode},
         NEW a \in Acquisitions, Coherent(a, mode), a.touched = {},
         NEW c, c = FirstCall(mode, m)
  PROVE  /\ c \in {"restart", "maskSM", "maskWFP", "closing"}
         /\ Stage(c, TasksOf(c, mode, m), mode, m, a)
         /\ c = "closing" => \/ m = InvalidMode
                             \/ m \in SharedModes /\ mode \in {m, InvalidMode}
         /\ c # "closing" => /\ m \in Modes
                             /\ m \in SharedModes => mode \notin {m, InvalidMode}
                             /\ c = "restart" => m # "STANDBY"
<1>1. CASE m \in SharedModes /\ mode = "STANDBY"
  <2>1. c = "restart" /\ ~AsmOnly(mode, m) /\ mode \in Modes
    <3>1. ~AsmOnly(mode, m)
      BY <1>1, AsmOnlyModes
    <3>. QED BY <1>1, <3>1 DEF FirstCall, Modes, InvalidMode, SharedModes
  <2>2. RunsAs(a, "STANDBY")
    BY <1>1, <2>1 DEF Coherent
  <2>3. TasksOf(c, mode, m) = ScienceTasks /\ RestartedTasks(mode, m) = ScienceTasks
    BY <2>1 DEF TasksOf, RestartedTasks
  <2>4. Stage("restart", ScienceTasks, mode, m, a)
    BY <2>1, <2>2, <2>3, TaskSets DEF Stage, RunsAs, Stopped
  <2>. QED BY <1>1, <2>1, <2>3, <2>4 DEF SharedModes, Modes, InvalidMode
<1>2. CASE AsmOnly(mode, m)
  <2>1. c = "maskSM" /\ mode \in Modes
    <3>1. mode \in SharedModes /\ m \in SharedModes /\ mode # "STANDBY" /\ mode # m
      BY <1>2, AsmOnlyModes
    <3>2. ~(mode \in {m, InvalidMode}) /\ m # InvalidMode /\ mode \in Modes
      BY <3>1 DEF SharedModes, InvalidMode, Modes
    <3>. QED BY <1>2, <3>1, <3>2 DEF FirstCall
  <2>2. RunsAs(a, mode)
    BY <2>1 DEF Coherent
  <2>3. Stage("maskSM", TasksOf(c, mode, m), mode, m, a)
    BY <1>2, <2>1, <2>2, AsmOnlyModes DEF Stage
  <2>. QED BY <1>2, <2>1, <2>3, AsmOnlyModes DEF SharedModes, Modes, InvalidMode
<1>3. CASE (m \in SharedModes /\ mode \in {m, InvalidMode}) \/ m = InvalidMode
  <2>1. c = "closing"
    BY <1>3 DEF FirstCall, AsmOnly, SharedModes, InvalidMode
  <2>2. Stage(c, TasksOf(c, mode, m), mode, m, a)
    BY <2>1 DEF Stage
  <2>. QED BY <1>3, <2>1, <2>2
<1>4. CASE /\ ~(m \in SharedModes /\ mode = "STANDBY") /\ ~AsmOnly(mode, m)
           /\ ~((m \in SharedModes /\ mode \in {m, InvalidMode}) \/ m = InvalidMode)
  <2>1. c = "maskWFP"
    BY <1>4 DEF FirstCall
  <2>2. mode = "STANDBY" => a.suspended = ScienceTasks
    BY DEF Coherent, RunsAs, Modes
  <2>3. Stage("maskWFP", TasksOf(c, mode, m), mode, m, a)
    BY <1>4, <2>2 DEF Stage, Coherent
  <2>. QED BY <1>4, <2>1, <2>3 DEF InvalidMode
<1>. QED BY <1>1, <1>2, <1>3, <1>4

\* A TC is taken from the queue and its refusals are posted.
LEMMA ActionEnterModeIInv ==
  ASSUME IInv, NEW dateOk \in BOOLEAN, ActionEnterMode(dateOk)
  PROVE  IInv'
<1>. DEFINE m == Head(recvQueue)
            c == FirstCall(lfrCurrentMode, m)
            refused == Refusals(m, dateOk)
<1>1. /\ m \in Modes \cup {InvalidMode}
      /\ Tail(recvQueue) \in Seq(Modes \cup {InvalidMode})
      /\ lfrCurrentMode \in Modes \cup {InvalidMode} /\ acq \in Acquisitions
      /\ pc = "idle" /\ acq.touched = {} /\ Coherent(acq, lfrCurrentMode)
      /\ caller = "ACTN"
  BY DEF IInv, TypeOK, CallerInv, ActionEnterMode
<1>2. /\ c \in {"restart", "maskSM", "maskWFP", "closing"}
      /\ Stage(c, TasksOf(c, lfrCurrentMode, m), lfrCurrentMode, m, acq)
      /\ c = "closing" => \/ m = InvalidMode
                          \/ m \in SharedModes /\ lfrCurrentMode \in {m, InvalidMode}
      /\ c # "closing" => /\ m \in Modes
                          /\ m \in SharedModes => lfrCurrentMode \notin {m, InvalidMode}
                          /\ c = "restart" => m # "STANDBY"
  BY ONLY <1>1, FirstStage
<1>. HIDE DEF m, c
<1>3. /\ pc' = c /\ TC' = m /\ todo' = TasksOf(c, lfrCurrentMode, m)
      /\ result' = EnterModeStatus(lfrCurrentMode, m)
      /\ UNCHANGED <<lfrCurrentMode, acq, restartState, caller>>
  BY DEF ActionEnterMode, m, c
<1>4. refused \in Seq(Answers) /\ Len(refused) \in Nat
  BY RefusalsType
<1>5. TypeOK'
  <2>1. sendCount' \in 0 .. SendQueueSize
    BY <1>4, QueueAssumption DEF IInv, TypeOK, ActionEnterMode, Room, m
  <2>2. result' \in Results
    BY <1>3 DEF EnterModeStatus, Results
  <2>3. answers' \in Seq(Answers) /\ recvQueue' \in Seq(Modes \cup {InvalidMode})
    BY <1>1, <1>4 DEF ActionEnterMode, m
  <2>4. todo' \subseteq ScienceTasks
    BY <1>3, TasksOfType
  <2>. QED BY <1>1, <1>2, <1>3, <2>1, <2>2, <2>3, <2>4 DEF IInv, TypeOK, Calls, Ends
<1>6. c # "closing" => result' = "LFR_SUCCESSFUL"
  BY <1>2, <1>3 DEF EnterModeStatus
<1>7. CallerInv'
  BY <1>1, <1>2, <1>3, <1>6 DEF CallerInv, Calls
<1>8. Stage(pc, todo, lfrCurrentMode, TC, acq)'
  BY <1>2, <1>3 DEF Stage, Stopped, Restarted, RunsAs, Carries, EventsReachTasks
<1>9. c = "closing" => Coherent(acq, lfrCurrentMode)'
  BY <1>1, <1>3 DEF Coherent, RunsAs, Carries, EventsReachTasks
<1>10. c = "closing" /\ m \in Modes => result' # "LFR_SUCCESSFUL"
  BY <1>2, <1>3 DEF EnterModeStatus, Modes, InvalidMode
<1>. QED BY <1>2, <1>3, <1>5, <1>7, <1>8, <1>9, <1>10 DEF IInv

LEMMA ActionEnterModeStoppedIInv ==
  ASSUME IInv, NEW dateOk \in BOOLEAN, ActionEnterModeStopped(dateOk)
  PROVE  IInv'
<1>. DEFINE refused == Refusals(Head(recvQueue), dateOk)
<1>1. /\ Head(recvQueue) \in Modes \cup {InvalidMode}
      /\ Tail(recvQueue) \in Seq(Modes \cup {InvalidMode})
  BY DEF IInv, TypeOK, ActionEnterModeStopped
<1>2. refused \in Seq(Answers) /\ Len(refused) \in Nat
  BY RefusalsType
<1>3. SubSeq(refused, 1, Room) \in Seq(Answers)
  BY <1>2, QueueAssumption DEF IInv, TypeOK, ActionEnterModeStopped, Room
<1>4. /\ pc' = "closing" /\ result' = "RTEMS_TOO_MANY"
      /\ UNCHANGED <<lfrCurrentMode, acq, restartState, todo, caller>>
      /\ TC' = Head(recvQueue) /\ recvQueue' = Tail(recvQueue) /\ pc = "idle"
  BY DEF ActionEnterModeStopped
<1>5. TypeOK'
  <2>1. sendCount' \in 0 .. SendQueueSize /\ result' \in Results
    BY <1>4, QueueAssumption DEF ActionEnterModeStopped, Results
  <2>2. answers' \in Seq(Answers)
    BY <1>3 DEF ActionEnterModeStopped
  <2>. QED BY <1>1, <1>4, <2>1, <2>2 DEF IInv, TypeOK, Calls, Ends
<1>6. Coherent(acq, lfrCurrentMode)'
  BY <1>4 DEF IInv, Coherent, EventsReachTasks, RunsAs, Carries
<1>7. CallerInv' /\ Stage(pc, todo, lfrCurrentMode, TC, acq)'
  BY <1>4 DEF CallerInv, Calls, Stage
<1>. QED BY <1>4, <1>5, <1>6, <1>7 DEF IInv

LEMMA ForceStandbyIInv ==
  ASSUME IInv, ForceStandby
  PROVE  IInv'
<1>. DEFINE c == FirstCall(lfrCurrentMode, "STANDBY")
<1>1. /\ acq \in Acquisitions /\ lfrCurrentMode \in Modes \cup {InvalidMode}
      /\ acq.touched = {} /\ Coherent(acq, lfrCurrentMode)
      /\ result = "LFR_SUCCESSFUL"
  BY DEF IInv, TypeOK, CallerInv, ForceStandby
<1>2. c = "maskWFP"
  BY DEF FirstCall, SharedModes, AsmOnly, InvalidMode
<1>3. Stage(c, TasksOf(c, lfrCurrentMode, "STANDBY"), lfrCurrentMode, "STANDBY", acq)
  BY <1>1, FirstStage DEF Modes
<1>4. /\ pc' = "maskWFP" /\ TC' = "STANDBY" /\ caller' = "SPIQ" /\ answers' = <<>>
      /\ UNCHANGED <<lfrCurrentMode, acq, restartState, recvQueue, sendCount, todo, result>>
  BY <1>2 DEF ForceStandby
<1>5. TypeOK'
  BY <1>4 DEF IInv, TypeOK, Calls, Modes
<1>6. CallerInv'
  BY <1>1, <1>4 DEF CallerInv, Calls, Modes, SharedModes
<1>7. Stage(pc, todo, lfrCurrentMode, TC, acq)'
  BY <1>2, <1>3, <1>4 DEF Stage, EventsReachTasks
<1>. QED BY <1>4, <1>5, <1>6, <1>7 DEF IInv

-----------------------------------------------------------------------------
(* The calls *)

\* A call leaves the queues and the modes alone, and the next one is known.
LEMMA MakeTypes ==
  ASSUME IInv, NEW call \in Calls \ {"suspend", "restart"}, NEW a \in Acquisitions,
         Make(call, a)
  PROVE  /\ TypeOK' /\ pc' = Following(call) /\ acq' = a /\ pc = call
         /\ todo' = TasksOf(Following(call), lfrCurrentMode, TC)
         /\ UNCHANGED <<lfrCurrentMode, caller, TC, result>>
         /\ TC \in Modes /\ result = "LFR_SUCCESSFUL"
         /\ pc' = "closing" => caller = "ACTN"
         /\ pc' = "updating" => caller = "SPIQ" /\ TC = "STANDBY"
<1>1. /\ pc' = Following(call) /\ acq' = a /\ pc = call
      /\ todo' = TasksOf(Following(call), lfrCurrentMode, TC)
      /\ UNCHANGED <<lfrCurrentMode, restartState, recvQueue, sendCount, caller, TC,
                     result, answers>>
  BY DEF Make
<1>2. TC \in Modes /\ result = "LFR_SUCCESSFUL" /\ (caller = "SPIQ" => TC = "STANDBY")
      /\ caller \in {"ACTN", "SPIQ"}
  BY <1>1 DEF IInv, CallerInv, TypeOK
<1>3. /\ Following(call) \in Calls \cup Ends
      /\ Following(call) = "closing" => caller = "ACTN"
      /\ Following(call) = "updating" => caller # "ACTN"
  BY FollowingType
<1>4. TypeOK'
  BY <1>1, <1>3, TasksOfType DEF IInv, TypeOK
<1>. QED BY <1>1, <1>2, <1>3, <1>4

LEMMA MakeForTypes ==
  ASSUME IInv, NEW call \in {"suspend", "restart"}, NEW t \in todo,
         NEW a \in Acquisitions, MakeFor(t, call, a)
  PROVE  /\ TypeOK' /\ acq' = a /\ pc = call
         /\ \/ /\ pc' = Following(call) /\ todo = {t}
               /\ todo' = TasksOf(Following(call), lfrCurrentMode, TC)
            \/ pc' = pc /\ todo' = todo \ {t} /\ todo # {t}
         /\ UNCHANGED <<lfrCurrentMode, caller, TC, result>>
         /\ TC \in Modes /\ result = "LFR_SUCCESSFUL"
         /\ pc' = "closing" => caller = "ACTN"
         /\ pc' = "updating" => caller = "SPIQ" /\ TC = "STANDBY"
<1>0. call \in Calls
  BY DEF Calls
<1>1. /\ acq' = a /\ pc = call
      /\ \/ /\ pc' = Following(call) /\ todo = {t}
            /\ todo' = TasksOf(Following(call), lfrCurrentMode, TC)
         \/ pc' = pc /\ todo' = todo \ {t} /\ todo # {t}
      /\ UNCHANGED <<lfrCurrentMode, restartState, recvQueue, sendCount, caller, TC,
                     result, answers>>
  BY DEF MakeFor
<1>2. TC \in Modes /\ result = "LFR_SUCCESSFUL" /\ (caller = "SPIQ" => TC = "STANDBY")
      /\ caller \in {"ACTN", "SPIQ"}
  BY <1>0, <1>1 DEF IInv, CallerInv, TypeOK
<1>3. /\ Following(call) \in Calls \cup Ends
      /\ Following(call) = "closing" => caller = "ACTN"
      /\ Following(call) = "updating" => caller # "ACTN"
  BY <1>0, FollowingType
<1>4. TypeOK'
  BY <1>1, <1>3, TasksOfType DEF IInv, TypeOK
<1>5. call # "closing" /\ call # "updating"
  OBVIOUS
<1>. QED BY <1>1, <1>2, <1>3, <1>4, <1>5

\* stop_current_mode, stop_spectral_matrices

LEMMA MaskWfpIInv == ASSUME IInv, MaskWfp PROVE IInv'
<1>. DEFINE a == [acq EXCEPT !.irq = @ \ {"WFP"}]
<1>1. a \in Acquisitions
  BY DEF IInv, TypeOK, Acquisitions
<1>2. Make("maskWFP", a)
  BY DEF MaskWfp
<1>3. /\ TypeOK' /\ pc' = Following("maskWFP") /\ acq' = a /\ pc = "maskWFP"
      /\ UNCHANGED <<lfrCurrentMode, caller, TC, result>>
      /\ TC \in Modes /\ result = "LFR_SUCCESSFUL"
  BY <1>1, <1>2, MakeTypes DEF Calls
<1>4. pc' = "maskSM"
  BY <1>3 DEF Following
<1>5. ~AsmOnly(lfrCurrentMode, TC) /\ EventsReachTasks(acq) /\ acq.touched = {}
      /\ (lfrCurrentMode = "STANDBY" => acq.suspended = ScienceTasks)
  BY <1>3 DEF IInv, Stage
<1>6. Stage(pc, todo, lfrCurrentMode, TC, acq)'
  BY <1>3, <1>4, <1>5 DEF Stage, EventsReachTasks, IInv, TypeOK, Acquisitions
<1>7. CallerInv'
  BY <1>3, <1>4 DEF IInv, CallerInv, Calls
<1>. QED BY <1>3, <1>4, <1>6, <1>7 DEF IInv

LEMMA MaskSmIInv == ASSUME IInv, MaskSm PROVE IInv'
<1>. DEFINE a == [acq EXCEPT !.irq = @ \ {"SM"}]
<1>1. a \in Acquisitions
  BY DEF IInv, TypeOK, Acquisitions
<1>2. Make("maskSM", a)
  BY DEF MaskSm
<1>3. /\ TypeOK' /\ pc' = Following("maskSM") /\ acq' = a /\ pc = "maskSM"
      /\ UNCHANGED <<lfrCurrentMode, caller, TC, result>>
      /\ TC \in Modes /\ result = "LFR_SUCCESSFUL"
  BY <1>1, <1>2, MakeTypes DEF Calls
<1>4. pc' = IF AsmOnly(lfrCurrentMode, TC) THEN "resetSM" ELSE "resetWFP"
  BY <1>3 DEF Following
<1>5. /\ acq.touched = {}
      /\ lfrCurrentMode = "STANDBY" => acq.suspended = ScienceTasks
      /\ IF AsmOnly(lfrCurrentMode, TC) THEN RunsAs(acq, lfrCurrentMode)
         ELSE EventsReachTasks(acq) /\ "WFP" \notin acq.irq
  BY <1>3 DEF IInv, Stage
<1>6. Stage(pc, todo, lfrCurrentMode, TC, acq)'
  <2>1. CASE AsmOnly(lfrCurrentMode, TC)
    <3>1. lfrCurrentMode # "STANDBY" /\ PickerConfig(lfrCurrentMode) = "shared"
      BY <2>1, AsmOnlyModes
    <3>2. /\ a.suspended = {} /\ a.irq = {"WFP"} /\ a.picker = "shared" /\ a.touched = {}
      BY <1>5, <2>1, <3>1 DEF RunsAs, IInv, TypeOK, Acquisitions, IrqLines
    <3>. QED BY <1>3, <1>4, <2>1, <3>1, <3>2 DEF Stage
  <2>2. CASE ~AsmOnly(lfrCurrentMode, TC)
    <3>1. a.irq = {} /\ a.touched = {} /\ a.suspended = acq.suspended
      BY <1>5, <2>2 DEF IInv, TypeOK, Acquisitions, IrqLines
    <3>. QED BY <1>3, <1>4, <1>5, <2>2, <3>1 DEF Stage
  <2>. QED BY <2>1, <2>2
<1>7. CallerInv'
  BY <1>3, <1>4 DEF IInv, CallerInv, Calls
<1>. QED BY <1>3, <1>4, <1>6, <1>7 DEF IInv

LEMMA ResetWfpIInv == ASSUME IInv, ResetWfp PROVE IInv'
<1>. DEFINE a == [acq EXCEPT !.picker = "off"]
<1>1. a \in Acquisitions
  BY DEF IInv, TypeOK, Acquisitions
<1>2. Make("resetWFP", a)
  BY DEF ResetWfp
<1>3. /\ TypeOK' /\ pc' = Following("resetWFP") /\ acq' = a /\ pc = "resetWFP"
      /\ UNCHANGED <<lfrCurrentMode, caller, TC, result>>
      /\ TC \in Modes /\ result = "LFR_SUCCESSFUL"
  BY <1>1, <1>2, MakeTypes DEF Calls
<1>4. pc' = "resetSM"
  BY <1>3 DEF Following
<1>5. /\ acq.touched = {} /\ acq.irq = {} /\ ~AsmOnly(lfrCurrentMode, TC)
      /\ lfrCurrentMode = "STANDBY" => acq.suspended = ScienceTasks
  BY <1>3 DEF IInv, Stage
<1>6. Stage(pc, todo, lfrCurrentMode, TC, acq)'
  BY <1>3, <1>4, <1>5 DEF Stage, IInv, TypeOK, Acquisitions
<1>7. CallerInv'
  BY <1>3, <1>4 DEF IInv, CallerInv, Calls
<1>. QED BY <1>3, <1>4, <1>6, <1>7 DEF IInv

\* What follows the stop, of one kind or the other
LEMMA AfterStopIInv ==
  ASSUME IInv, TypeOK', UNCHANGED <<lfrCurrentMode, caller, TC, result>>,
         pc \in {"resetSM", "suspend"}, pc' = AfterStop,
         todo' = TasksOf(AfterStop, lfrCurrentMode, TC),
         Stopped(acq', lfrCurrentMode, TC), acq'.touched = {},
         AsmOnly(lfrCurrentMode, TC) => acq'.suspended = AsmTasks,
         ~AsmOnly(lfrCurrentMode, TC) => acq'.suspended = ScienceTasks
  PROVE  IInv'
<1>1. TC \in Modes /\ result = "LFR_SUCCESSFUL" /\ (caller = "SPIQ" => TC = "STANDBY")
      /\ caller \in {"ACTN", "SPIQ"} /\ acq' \in Acquisitions
      /\ (TC \in SharedModes => lfrCurrentMode \notin {TC, InvalidMode})
  BY DEF IInv, CallerInv, TypeOK, Calls
<1>2. CASE TC = "STANDBY"
  <2>1. ~AsmOnly(lfrCurrentMode, TC)
    BY <1>2, AsmOnlyModes
  <2>2. pc' = IF caller = "ACTN" THEN "closing" ELSE "updating"
    BY <1>2 DEF AfterStop, End
  <2>3. RunsAs(acq, "STANDBY")'
    BY <2>1 DEF RunsAs, Stopped
  <2>4. Stage(pc, todo, lfrCurrentMode, TC, acq)' /\ CallerInv'
    BY <1>1, <1>2, <2>2 DEF Stage, CallerInv, Calls
  <2>5. Done(lfrCurrentMode, TC, acq)'
    BY <1>2, <2>3 DEF Done, ActiveModes, SharedModes, RunsAs
  <2>. QED BY <1>1, <2>2, <2>3, <2>4, <2>5 DEF IInv
<1>3. CASE TC # "STANDBY" /\ AsmOnly(lfrCurrentMode, TC)
  <2>1. pc' = "request"
    BY <1>3 DEF AfterStop
  <2>2. Stage(pc, todo, lfrCurrentMode, TC, acq)'
    BY <1>3, <2>1 DEF Stage, Stopped
  <2>3. CallerInv'
    BY <1>1, <1>3, <2>1 DEF CallerInv, Calls
  <2>. QED BY <2>1, <2>2, <2>3 DEF IInv
<1>4. CASE TC # "STANDBY" /\ ~AsmOnly(lfrCurrentMode, TC)
  <2>1. pc' = "restart"
    BY <1>4 DEF AfterStop
  <2>2. todo' = ScienceTasks /\ RestartedTasks(lfrCurrentMode, TC) = ScienceTasks
    BY <1>4, <2>1 DEF TasksOf, RestartedTasks
  <2>3. Stage(pc, todo, lfrCurrentMode, TC, acq)'
    BY <1>4, <2>1, <2>2, TaskSets DEF Stage, Stopped, RestartedTasks
  <2>4. CallerInv'
    BY <1>1, <1>4, <2>1 DEF CallerInv, Calls
  <2>. QED BY <2>1, <2>3, <2>4 DEF IInv
<1>. QED BY <1>2, <1>3, <1>4

LEMMA ResetSmIInv == ASSUME IInv, ResetSm PROVE IInv'
<1>. DEFINE a == [acq EXCEPT !.newMatrix = FALSE]
<1>1. a \in Acquisitions
  BY DEF IInv, TypeOK, Acquisitions
<1>2. Make("resetSM", a)
  BY DEF ResetSm
<1>3. /\ TypeOK' /\ pc' = Following("resetSM") /\ acq' = a /\ pc = "resetSM"
      /\ todo' = TasksOf(Following("resetSM"), lfrCurrentMode, TC)
      /\ UNCHANGED <<lfrCurrentMode, caller, TC, result>>
      /\ TC \in Modes /\ result = "LFR_SUCCESSFUL"
  BY <1>1, <1>2, MakeTypes DEF Calls
<1>5. /\ acq.touched = {}
      /\ lfrCurrentMode = "STANDBY" => acq.suspended = ScienceTasks
      /\ IF AsmOnly(lfrCurrentMode, TC)
         THEN acq.suspended = {} /\ acq.irq = {"WFP"} /\ acq.picker = "shared"
         ELSE acq.irq = {} /\ acq.picker = "off"
  BY <1>3 DEF IInv, Stage
<1>6. /\ acq'.touched = {} /\ acq'.suspended = acq.suspended
      /\ Stopped(acq', lfrCurrentMode, TC)
  BY <1>3, <1>5 DEF IInv, TypeOK, Acquisitions, Stopped
<1>7. CASE lfrCurrentMode = "STANDBY"
  <2>1. pc' = AfterStop /\ todo' = TasksOf(AfterStop, lfrCurrentMode, TC)
    BY <1>3, <1>7 DEF Following
  <2>2. ~AsmOnly(lfrCurrentMode, TC)
    BY <1>7, AsmOnlyModes
  <2>. QED BY <1>3, <1>5, <1>6, <1>7, <2>1, <2>2, AfterStopIInv
<1>8. CASE lfrCurrentMode # "STANDBY"
  <2>1. pc' = "suspend" /\ todo' = SuspendedTasks(lfrCurrentMode, TC)
    BY <1>3, <1>8 DEF Following, TasksOf
  <2>2. acq'.suspended \subseteq ScienceTasks
    BY <1>1, <1>3 DEF Acquisitions
  <2>3. Stage(pc, todo, lfrCurrentMode, TC, acq)'
    BY <1>3, <1>5, <1>6, <1>8, <2>1, <2>2 DEF Stage, SuspendedTasks, Stopped
  <2>4. CallerInv'
    BY <1>3, <2>1 DEF IInv, CallerInv, Calls
  <2>. QED BY <1>3, <2>1, <2>3, <2>4 DEF IInv
<1>. QED BY <1>7, <1>8

LEMMA SuspendTaskIInv == ASSUME IInv, SuspendTask PROVE IInv'
<1>1. PICK t \in todo : MakeFor(t, "suspend", [acq EXCEPT !.suspended = @ \cup {t}])
  BY DEF SuspendTask
<1>. DEFINE a == [acq EXCEPT !.suspended = @ \cup {t}]
<1>2. a \in Acquisitions
  BY DEF IInv, TypeOK, Acquisitions
<1>3. /\ TypeOK' /\ acq' = a /\ pc = "suspend"
      /\ \/ /\ pc' = Following("suspend") /\ todo = {t}
            /\ todo' = TasksOf(Following("suspend"), lfrCurrentMode, TC)
         \/ pc' = pc /\ todo' = todo \ {t} /\ todo # {t}
      /\ UNCHANGED <<lfrCurrentMode, caller, TC, result>>
      /\ TC \in Modes /\ result = "LFR_SUCCESSFUL"
  BY <1>1, <1>2, MakeForTypes
<1>4. /\ acq.touched = {} /\ Stopped(acq, lfrCurrentMode, TC)
      /\ AsmOnly(lfrCurrentMode, TC) => acq.suspended \cup todo = AsmTasks
      /\ ~AsmOnly(lfrCurrentMode, TC) => acq.suspended \cup todo = ScienceTasks
  BY <1>3 DEF IInv, Stage
<1>5. /\ acq'.touched = {} /\ acq'.suspended = acq.suspended \cup {t}
      /\ Stopped(acq', lfrCurrentMode, TC)
  BY <1>3, <1>4 DEF IInv, TypeOK, Acquisitions, Stopped
<1>6. CASE todo = {t} /\ pc' = Following("suspend")
           /\ todo' = TasksOf(Following("suspend"), lfrCurrentMode, TC)
  <2>1. Following("suspend") = AfterStop
    BY DEF Following
  <2>2. /\ AsmOnly(lfrCurrentMode, TC) => acq'.suspended = AsmTasks
        /\ ~AsmOnly(lfrCurrentMode, TC) => acq'.suspended = ScienceTasks
    BY <1>4, <1>5, <1>6
  <2>. QED BY <1>3, <1>5, <1>6, <2>1, <2>2, AfterStopIInv
<1>7. CASE pc' = pc /\ todo' = todo \ {t}
  <2>1. acq'.suspended \cup todo' = acq.suspended \cup todo
    BY <1>5, <1>7
  <2>2. Stage(pc, todo, lfrCurrentMode, TC, acq)'
    <3>. HIDE DEF a
    <3>. QED BY <1>3, <1>4, <1>5, <1>7, <2>1 DEF Stage, Stopped, IInv
  <2>3. CallerInv'
    BY <1>3, <1>7 DEF IInv, CallerInv, Calls
  <2>. QED BY <1>3, <1>7, <2>2, <2>3 DEF IInv
<1>. QED BY <1>3, <1>6, <1>7

\* restart_asm_activities, restart_science_tasks

LEMMA RequestAsmRestartIInv == ASSUME IInv, RequestAsmRestart PROVE IInv'
<1>. DEFINE a == [acq EXCEPT !.asmRestart = TRUE]
<1>1. a \in Acquisitions
  BY DEF IInv, TypeOK, Acquisitions
<1>2. Make("request", a)
  BY DEF RequestAsmRestart
<1>3. /\ TypeOK' /\ pc' = Following("request") /\ acq' = a /\ pc = "request"
      /\ todo' = TasksOf(Following("request"), lfrCurrentMode, TC)
      /\ UNCHANGED <<lfrCurrentMode, caller, TC, result>>
      /\ TC \in Modes /\ result = "LFR_SUCCESSFUL"
  BY <1>1, <1>2, MakeTypes DEF Calls
<1>4. pc' = "restart" /\ todo' = RestartedTasks(lfrCurrentMode, TC)
  BY <1>3 DEF Following, TasksOf
<1>5. /\ acq.touched = {} /\ Stopped(acq, lfrCurrentMode, TC)
      /\ AsmOnly(lfrCurrentMode, TC) /\ acq.suspended = AsmTasks
  BY <1>3 DEF IInv, Stage
<1>6. /\ acq'.touched = {} /\ acq'.suspended = AsmTasks
      /\ Stopped(acq', lfrCurrentMode, TC)
  BY <1>3, <1>5 DEF IInv, TypeOK, Acquisitions, Stopped
<1>7. todo' = AsmTasks
  BY <1>4, <1>5 DEF RestartedTasks
<1>8. Stage(pc, todo, lfrCurrentMode, TC, acq)'
  BY <1>3, <1>4, <1>6, <1>7, TaskSets DEF Stage, Stopped, RestartedTasks
<1>9. CallerInv'
  BY <1>3, <1>4, <1>5, AsmOnlyModes DEF IInv, CallerInv, Calls
<1>. QED BY <1>3, <1>4, <1>8, <1>9 DEF IInv

LEMMA RestartTaskIInv == ASSUME IInv, RestartTask PROVE IInv'
<1>. DEFINE a(t) == [acq EXCEPT !.suspended = @ \ {t}, !.touched = @ \cup {t},
                                !.arg = IF t \in ModeTasks THEN [@ EXCEPT ![t] = TC] ELSE @]
<1>1. PICK t \in todo : MakeFor(t, "restart", a(t))
  BY DEF RestartTask
<1>2. t \in ScienceTasks /\ acq \in Acquisitions /\ TC \in Modes
  <2>1. pc = "restart"
    BY <1>1 DEF MakeFor
  <2>. QED BY <2>1 DEF IInv, TypeOK, CallerInv, Calls
<1>3. /\ a(t) \in Acquisitions
      /\ a(t).suspended = acq.suspended \ {t} /\ a(t).touched = acq.touched \cup {t}
      /\ \A u \in ModeTasks : a(t).arg[u] = IF u = t THEN TC ELSE acq.arg[u]
      /\ a(t).irq = acq.irq /\ a(t).picker = acq.picker /\ a(t).newMatrix = acq.newMatrix
  BY <1>2 DEF Acquisitions
<1>. HIDE DEF a
<1>4. /\ TypeOK' /\ acq' = a(t) /\ pc = "restart"
      /\ \/ /\ pc' = Following("restart") /\ todo = {t}
            /\ todo' = TasksOf(Following("restart"), lfrCurrentMode, TC)
         \/ pc' = pc /\ todo' = todo \ {t} /\ todo # {t}
      /\ UNCHANGED <<lfrCurrentMode, caller, TC, result>>
      /\ result = "LFR_SUCCESSFUL"
  BY <1>1, <1>3, MakeForTypes
<1>5. /\ Stopped(acq, lfrCurrentMode, TC)
      /\ acq.suspended \subseteq todo
      /\ todo \subseteq RestartedTasks(lfrCurrentMode, TC)
      /\ acq.touched = RestartedTasks(lfrCurrentMode, TC) \ todo
      /\ \A u \in ModeTasks \ todo : acq.arg[u] = TC
      /\ TC # "STANDBY"
  BY <1>4 DEF IInv, Stage, CallerInv, Calls
<1>6. Stopped(acq', lfrCurrentMode, TC)
  BY <1>3, <1>4, <1>5 DEF Stopped
<1>7. /\ acq'.suspended \subseteq todo \ {t}
      /\ acq'.touched = RestartedTasks(lfrCurrentMode, TC) \ (todo \ {t})
      /\ \A u \in ModeTasks \ (todo \ {t}) : acq'.arg[u] = TC
  BY <1>3, <1>4, <1>5
<1>8. CASE todo = {t} /\ pc' = Following("restart")
  <2>1. pc' = "enableSM"
    BY <1>8 DEF Following
  <2>2. RestartedTasks(lfrCurrentMode, TC) \subseteq ScienceTasks
    BY TaskSets DEF RestartedTasks
  <2>3. Restarted(acq', lfrCurrentMode, TC) /\ "PICKER" \notin acq'.touched
    BY <1>7, <1>8, <2>2, TaskSets DEF Restarted, Carries
  <2>4. Stage(pc, todo, lfrCurrentMode, TC, acq)'
    BY <1>4, <1>6, <2>1, <2>3 DEF Stage, Stopped, Restarted, Carries, RestartedTasks
  <2>5. CallerInv'
    BY <1>4, <1>5, <2>1 DEF IInv, CallerInv, Calls
  <2>. QED BY <1>4, <2>1, <2>4, <2>5 DEF IInv
<1>9. CASE pc' = pc /\ todo' = todo \ {t}
  <2>1. Stage(pc, todo, lfrCurrentMode, TC, acq)'
    BY <1>4, <1>5, <1>6, <1>7, <1>9 DEF Stage, Stopped, RestartedTasks
  <2>2. CallerInv'
    BY <1>4, <1>9 DEF IInv, CallerInv, Calls
  <2>. QED BY <1>4, <1>9, <2>1, <2>2 DEF IInv
<1>. QED BY <1>4, <1>8, <1>9

\* launch_spectral_matrix, launch_waveform_picker

LEMMA EnableSmIInv == ASSUME IInv, EnableSm PROVE IInv'
<1>. DEFINE a == [acq EXCEPT !.newMatrix = TRUE]
<1>1. a \in Acquisitions
  BY DEF IInv, TypeOK, Acquisitions
<1>2. Make("enableSM", a)
  BY DEF EnableSm
<1>3. /\ TypeOK' /\ pc' = Following("enableSM") /\ acq' = a /\ pc = "enableSM"
      /\ UNCHANGED <<lfrCurrentMode, caller, TC, result>>
      /\ TC \in Modes /\ result = "LFR_SUCCESSFUL"
  BY <1>1, <1>2, MakeTypes DEF Calls
<1>4. pc' = "unmaskSM"
  BY <1>3 DEF Following
<1>5. /\ Stopped(acq, lfrCurrentMode, TC) /\ Restarted(acq, lfrCurrentMode, TC)
      /\ "PICKER" \notin acq.touched
  BY <1>3 DEF IInv, Stage
<1>6. /\ acq'.suspended = acq.suspended /\ acq'.arg = acq.arg /\ acq'.newMatrix
      /\ acq'.touched = acq.touched /\ acq'.irq = acq.irq /\ acq'.picker = acq.picker
  BY <1>3 DEF IInv, TypeOK, Acquisitions
<1>7. Stage(pc, todo, lfrCurrentMode, TC, acq)'
  <2>. HIDE DEF a
  <2>. QED BY <1>3, <1>4, <1>5, <1>6 DEF Stage, Stopped, Restarted, Carries, RestartedTasks
<1>8. CallerInv'
  BY <1>3, <1>4 DEF IInv, CallerInv, Calls
<1>. QED BY <1>3, <1>4, <1>7, <1>8 DEF IInv

LEMMA UnmaskSmIInv == ASSUME IInv, UnmaskSm PROVE IInv'
<1>. DEFINE a == [acq EXCEPT !.irq = @ \cup {"SM"}]
<1>1. a \in Acquisitions
  BY DEF IInv, TypeOK, Acquisitions, IrqLines
<1>2. Make("unmaskSM", a)
  BY DEF UnmaskSm
<1>3. /\ TypeOK' /\ pc' = Following("unmaskSM") /\ acq' = a /\ pc = "unmaskSM"
      /\ UNCHANGED <<lfrCurrentMode, caller, TC, result>>
      /\ TC \in Modes /\ result = "LFR_SUCCESSFUL"
      /\ (pc' = "closing" => caller = "ACTN")
      /\ (pc' = "updating" => caller = "SPIQ" /\ TC = "STANDBY")
  BY <1>1, <1>2, MakeTypes DEF Calls
<1>4. /\ Restarted(acq, lfrCurrentMode, TC)
      /\ "PICKER" \notin acq.touched /\ acq.newMatrix
      /\ AsmOnly(lfrCurrentMode, TC) => acq.irq = {"WFP"} /\ acq.picker = "shared"
      /\ ~AsmOnly(lfrCurrentMode, TC) => acq.irq = {}
      /\ TC # "STANDBY"
  BY <1>3 DEF IInv, Stage, CallerInv, Calls
<1>5. /\ acq'.suspended = acq.suspended /\ acq'.arg = acq.arg /\ acq'.newMatrix
      /\ acq'.touched = acq.touched /\ acq'.irq = acq.irq \cup {"SM"}
      /\ acq'.picker = acq.picker
  BY <1>3, <1>4 DEF IInv, TypeOK, Acquisitions
<1>6. acq.touched \subseteq ScienceTasks
  BY <1>4 DEF IInv, TypeOK, Acquisitions
<1>. HIDE DEF a
<1>7. CASE AsmOnly(lfrCurrentMode, TC)
  <2>1. pc' = End
    BY <1>3, <1>7 DEF Following
  <2>2. pc' = "closing"
    BY <1>3, <1>4, <2>1 DEF End
  <2>3. /\ TC \in SharedModes /\ lfrCurrentMode \in SharedModes
        /\ PickerConfig(TC) = "shared"
    BY <1>7, AsmOnlyModes
  <2>4. RunsAs(acq', TC)
    BY <1>4, <1>5, <1>7, <2>3 DEF RunsAs, Restarted, IrqLines
  <2>5. Carries(acq', TC)
    BY <1>4, <1>5 DEF Restarted, Carries
  <2>6. acq'.touched = AsmTasks
    BY <1>4, <1>5, <1>6, <1>7 DEF Restarted, RestartedTasks
  <2>7. Done(lfrCurrentMode, TC, acq)'
    BY <1>3, <2>3, <2>4, <2>5, <2>6 DEF Done, RunsAs, Carries
  <2>8. Stage(pc, todo, lfrCurrentMode, TC, acq)' /\ CallerInv'
    BY <1>3, <2>2 DEF Stage, CallerInv, Calls
  <2>. QED BY <1>3, <2>2, <2>7, <2>8 DEF IInv
<1>8. CASE ~AsmOnly(lfrCurrentMode, TC)
  <2>1. pc' = "enableWFP"
    BY <1>3, <1>8 DEF Following
  <2>2. Stage(pc, todo, lfrCurrentMode, TC, acq)'
    BY <1>3, <1>4, <1>5, <1>8, <2>1 DEF Stage, Restarted, Carries, RestartedTasks
  <2>3. CallerInv'
    BY <1>3, <2>1 DEF IInv, CallerInv, Calls
  <2>. QED BY <1>3, <2>1, <2>2, <2>3 DEF IInv
<1>. QED BY <1>7, <1>8

LEMMA EnableWfpIInv == ASSUME IInv, EnableWfp PROVE IInv'
<1>. DEFINE a == [acq EXCEPT !.picker = PickerConfig(TC), !.touched = @ \cup {"PICKER"}]
<1>1. a \in Acquisitions
  BY DEF IInv, TypeOK, Acquisitions, PickerConfig
<1>2. Make("enableWFP", a)
  BY DEF EnableWfp
<1>3. /\ TypeOK' /\ pc' = Following("enableWFP") /\ acq' = a /\ pc = "enableWFP"
      /\ UNCHANGED <<lfrCurrentMode, caller, TC, result>>
      /\ TC \in Modes /\ result = "LFR_SUCCESSFUL"
  BY <1>1, <1>2, MakeTypes DEF Calls
<1>4. pc' = "unmaskWFP"
  BY <1>3 DEF Following
<1>5. /\ Restarted(acq, lfrCurrentMode, TC) /\ ~AsmOnly(lfrCurrentMode, TC)
      /\ acq.newMatrix /\ acq.irq = {"SM"}
  BY <1>3 DEF IInv, Stage
<1>6. /\ acq'.suspended = acq.suspended /\ acq'.arg = acq.arg /\ acq'.newMatrix
      /\ acq'.touched = acq.touched \cup {"PICKER"} /\ acq'.irq = {"SM"}
      /\ acq'.picker = PickerConfig(TC)
  BY <1>3, <1>5 DEF IInv, TypeOK, Acquisitions
<1>. HIDE DEF a
<1>7. Restarted(acq', lfrCurrentMode, TC)
  BY <1>5, <1>6, TaskSets DEF Restarted, Carries
<1>8. Stage(pc, todo, lfrCurrentMode, TC, acq)'
  BY <1>3, <1>4, <1>5, <1>6, <1>7 DEF Stage, Restarted, Carries, RestartedTasks
<1>9. CallerInv'
  BY <1>3, <1>4 DEF IInv, CallerInv, Calls
<1>. QED BY <1>3, <1>4, <1>8, <1>9 DEF IInv

LEMMA UnmaskWfpIInv == ASSUME IInv, UnmaskWfp PROVE IInv'
<1>. DEFINE a == [acq EXCEPT !.irq = @ \cup {"WFP"}]
<1>1. a \in Acquisitions
  BY DEF IInv, TypeOK, Acquisitions, IrqLines
<1>2. Make("unmaskWFP", a)
  BY DEF UnmaskWfp
<1>3. /\ TypeOK' /\ pc' = Following("unmaskWFP") /\ acq' = a /\ pc = "unmaskWFP"
      /\ UNCHANGED <<lfrCurrentMode, caller, TC, result>>
      /\ TC \in Modes /\ result = "LFR_SUCCESSFUL"
      /\ (pc' = "updating" => caller = "SPIQ" /\ TC = "STANDBY")
  BY <1>1, <1>2, MakeTypes DEF Calls
<1>4. /\ Restarted(acq, lfrCurrentMode, TC) /\ ~AsmOnly(lfrCurrentMode, TC)
      /\ acq.newMatrix /\ acq.irq = {"SM"}
      /\ acq.picker = PickerConfig(TC) /\ "PICKER" \in acq.touched
      /\ TC # "STANDBY" /\ (TC \in SharedModes => lfrCurrentMode # TC)
  BY <1>3 DEF IInv, Stage, CallerInv, Calls
<1>5. /\ acq'.suspended = {} /\ acq'.arg = acq.arg /\ acq'.newMatrix
      /\ acq'.touched = acq.touched /\ acq'.irq = IrqLines
      /\ acq'.picker = PickerConfig(TC)
  BY <1>3, <1>4 DEF IInv, TypeOK, Acquisitions, IrqLines, Restarted
<1>6. acq.touched \subseteq ScienceTasks \cup {"PICKER"}
  BY DEF IInv, TypeOK, Acquisitions
<1>. HIDE DEF a
<1>7. pc' = "closing"
  BY <1>3, <1>4 DEF Following, End
<1>8. RunsAs(acq', TC) /\ Carries(acq', TC)
  BY <1>4, <1>5 DEF RunsAs, Restarted, Carries
<1>9. acq'.touched = ScienceTasks \cup {"PICKER"}
  BY <1>4, <1>5, <1>6 DEF Restarted, RestartedTasks
<1>10. TC \in SharedModes => lfrCurrentMode \notin SharedModes
  BY <1>4, SharedAsmOnly
<1>11. Done(lfrCurrentMode, TC, acq)'
  BY <1>3, <1>8, <1>9, <1>10 DEF Done, RunsAs, Carries
<1>12. Stage(pc, todo, lfrCurrentMode, TC, acq)' /\ CallerInv'
  BY <1>3, <1>7 DEF Stage, CallerInv, Calls
<1>. QED BY <1>3, <1>7, <1>11, <1>12 DEF IInv

LEMMA ModeChangeCallIInv == ASSUME IInv, ModeChangeCall PROVE IInv'
BY MaskWfpIInv, MaskSmIInv, ResetWfpIInv, ResetSmIInv, SuspendTaskIInv,
   RequestAsmRestartIInv, RestartTaskIInv, EnableSmIInv, UnmaskSmIInv,
   EnableWfpIInv, UnmaskWfpIInv DEF ModeChangeCall

-----------------------------------------------------------------------------
(* The two ends of a mode change, the ISR and the queues *)

LEMMA CloseActionIInv == ASSUME IInv, CloseAction PROVE IInv'
<1>1. FinalAnswer \in Seq(Answers) /\ Len(FinalAnswer) \in Nat
  BY FinalAnswerType
<1>2. /\ pc = "closing" /\ pc' = "idle" /\ caller' = "ACTN" /\ TC' = "STANDBY"
      /\ result' = "LFR_SUCCESSFUL" /\ acq' = [acq EXCEPT !.touched = {}]
      /\ lfrCurrentMode' = IF result = "LFR_SUCCESSFUL" THEN TC ELSE lfrCurrentMode
      /\ UNCHANGED <<restartState, recvQueue, todo>>
  BY DEF CloseAction, Forget
<1>3. TypeOK'
  <2>1. answers' \in Seq(Answers)
    BY <1>1, AnswersConcat DEF IInv, TypeOK, CloseAction
  <2>2. sendCount' \in 0 .. SendQueueSize
    BY <1>1, QueueAssumption DEF IInv, TypeOK, CloseAction, Room
  <2>3. acq' \in Acquisitions
    BY <1>2 DEF IInv, TypeOK, Acquisitions
  <2>. QED BY <1>2, <2>1, <2>2, <2>3 DEF IInv, TypeOK, Modes, Results
<1>4. /\ acq'.suspended = acq.suspended /\ acq'.arg = acq.arg /\ acq'.touched = {}
      /\ acq'.newMatrix = acq.newMatrix /\ acq'.irq = acq.irq /\ acq'.picker = acq.picker
  BY <1>2 DEF IInv, TypeOK, Acquisitions
<1>5. Coherent(acq', lfrCurrentMode')
  <2>1. CASE result = "LFR_SUCCESSFUL" /\ TC \in Modes
    <3>1. RunsAs(acq, TC) /\ (TC \in ActiveModes => Carries(acq, TC))
      BY <1>2, <2>1 DEF IInv, Done
    <3>2. EventsReachTasks(acq)
      BY <3>1, RunsReachTasks
    <3>. QED BY <1>2, <1>4, <2>1, <3>1, <3>2
             DEF Coherent, RunsAs, Carries, EventsReachTasks
  <2>2. CASE ~(result = "LFR_SUCCESSFUL" /\ TC \in Modes)
    <3>1. Coherent(acq, lfrCurrentMode) /\ lfrCurrentMode' \in {lfrCurrentMode, TC}
      BY <1>2, <2>2 DEF IInv
    <3>2. lfrCurrentMode' = TC /\ TC # lfrCurrentMode => TC \notin Modes
      BY <1>2, <2>2
    <3>. QED BY <1>4, <3>1, <3>2
             DEF Coherent, RunsAs, Carries, EventsReachTasks, ActiveModes
  <2>. QED BY <2>1, <2>2
<1>6. CallerInv' /\ Stage(pc, todo, lfrCurrentMode, TC, acq)'
  BY <1>2, <1>4 DEF CallerInv, Calls, Stage
<1>. QED BY <1>2, <1>3, <1>5, <1>6
         DEF IInv, Coherent, RunsAs, Carries, EventsReachTasks

LEMMA UpdateToStandbyIInv == ASSUME IInv, UpdateToStandby PROVE IInv'
<1>1. /\ pc = "updating" /\ pc' = "idle" /\ caller' = "ACTN" /\ TC' = "STANDBY"
      /\ result' = "LFR_SUCCESSFUL" /\ acq' = [acq EXCEPT !.touched = {}]
      /\ lfrCurrentMode' = "STANDBY"
      /\ UNCHANGED <<restartState, recvQueue, sendCount, todo, answers>>
  BY DEF UpdateToStandby, Forget
<1>2. acq' \in Acquisitions
  BY <1>1 DEF IInv, TypeOK, Acquisitions
<1>3. /\ acq'.suspended = acq.suspended /\ acq'.touched = {}
      /\ acq'.newMatrix = acq.newMatrix /\ acq'.irq = acq.irq /\ acq'.picker = acq.picker
  BY <1>1 DEF IInv, TypeOK, Acquisitions
<1>4. TypeOK'
  BY <1>1, <1>2 DEF IInv, TypeOK, Modes, Results
<1>5. RunsAs(acq', "STANDBY")
  BY <1>1, <1>3 DEF IInv, RunsAs
<1>6. Coherent(acq, lfrCurrentMode)'
  BY <1>1, <1>5, RunsReachTasks DEF Coherent, ActiveModes, RunsAs, EventsReachTasks
<1>7. CallerInv' /\ Stage(pc, todo, lfrCurrentMode, TC, acq)'
  BY <1>1, <1>3 DEF CallerInv, Calls, Stage
<1>. QED BY <1>1, <1>4, <1>6, <1>7 DEF IInv

\* The invariant speaks neither of asmRestart nor of restartState.
LEMMA SpectralMatricesIsrIInv ==
  ASSUME IInv, NEW ready, SpectralMatricesIsr(ready)
  PROVE  IInv'
<1>1. TypeOK'
  BY DEF IInv, TypeOK, Acquisitions, SpectralMatricesIsr, RestartStates
<1>2. /\ acq'.suspended = acq.suspended /\ acq'.irq = acq.irq
      /\ acq'.picker = acq.picker /\ acq'.newMatrix = acq.newMatrix
      /\ acq'.arg = acq.arg /\ acq'.touched = acq.touched
  BY DEF IInv, TypeOK, Acquisitions, SpectralMatricesIsr
<1>3. UNCHANGED <<lfrCurrentMode, pc, todo, caller, TC, result>>
  BY DEF SpectralMatricesIsr
<1>4. Stage(pc, todo, lfrCurrentMode, TC, acq)'
  BY <1>2, <1>3
     DEF IInv, Stage, Stopped, Restarted, Carries, RunsAs, EventsReachTasks, RestartedTasks
<1>5. CallerInv'
  BY <1>2, <1>3 DEF IInv, CallerInv
<1>6. /\ (pc = "idle" => Coherent(acq, lfrCurrentMode))'
      /\ (pc = "updating" => RunsAs(acq, "STANDBY"))'
  BY <1>2, <1>3 DEF IInv, Coherent, Carries, RunsAs, EventsReachTasks
<1>7. (pc = "closing" =>
         IF result = "LFR_SUCCESSFUL" /\ TC \in Modes
         THEN Done(lfrCurrentMode, TC, acq)
         ELSE Coherent(acq, lfrCurrentMode) /\ (TC \in Modes => result # "LFR_SUCCESSFUL"))'
  BY <1>2, <1>3 DEF IInv, Done, Coherent, Carries, RunsAs, EventsReachTasks
<1>. QED BY <1>1, <1>4, <1>5, <1>6, <1>7 DEF IInv

\* The steps of the queues leave modes and acquisition alone.
LEMMA QueuesIInv ==
  ASSUME IInv, \/ \E m \in RequestedModes : ReceiveTc(m)
               \/ SendTask \/ PostScience \/ UNCHANGED vars
  PROVE  IInv'
<1>1. TypeOK'
  <2>1. CASE \E m \in RequestedModes : ReceiveTc(m)
    BY <2>1, RequestedModesAssumption DEF IInv, TypeOK, ReceiveTc
  <2>2. CASE SendTask \/ PostScience
    BY <2>2, QueueAssumption DEF IInv, TypeOK, SendTask, PostScience
  <2>3. CASE UNCHANGED vars
    BY <2>3 DEF IInv, TypeOK, vars
  <2>. QED BY <2>1, <2>2, <2>3
<1>2. UNCHANGED <<lfrCurrentMode, acq, pc, todo, caller, TC, result>>
  BY DEF ReceiveTc, SendTask, PostScience, vars
<1>3. CallerInv' /\ Stage(pc, todo, lfrCurrentMode, TC, acq)'
  BY <1>2
     DEF IInv, CallerInv, Stage, Stopped, Restarted, Carries, RunsAs, EventsReachTasks,
         RestartedTasks
<1>4. /\ (pc = "idle" => Coherent(acq, lfrCurrentMode))'
      /\ (pc = "updating" => RunsAs(acq, "STANDBY"))'
      /\ (pc = "closing" =>
            IF result = "LFR_SUCCESSFUL" /\ TC \in Modes
            THEN Done(lfrCurrentMode, TC, acq)
            ELSE Coherent(acq, lfrCurrentMode) /\ (TC \in Modes => result # "LFR_SUCCESSFUL"))'
  BY <1>2 DEF IInv, Done, Coherent, Carries, RunsAs, EventsReachTasks
<1>. QED BY <1>1, <1>3, <1>4 DEF IInv

LEMMA NextIInv == IInv /\ [Next]_vars => IInv'
BY ActionEnterModeIInv, ActionEnterModeStoppedIInv, CloseActionIInv,
   ForceStandbyIInv, ModeChangeCallIInv, UpdateToStandbyIInv,
   SpectralMatricesIsrIInv, QueuesIInv DEF Next, NewMatrix

\* In every reachable state the calls made so far have left what Stage says.
THEOREM Invariance == Spec => []IInv
BY InitIInv, NextIInv, PTL DEF Spec

-----------------------------------------------------------------------------
(* The properties *)

\* Every variable keeps its type; the SEND queue never holds more messages
\* than it has room for.
THEOREM TypeCorrect == Spec => []TypeOK
<1>1. IInv => TypeOK
  BY DEF IInv
<1>. QED BY <1>1, Invariance, PTL

\* Tasks, interrupt lines, picker and matrix module are those of the mode LFR
\* reports whenever no mode change is under way.
THEOREM ScienceFollows == Spec => []ScienceFollowsMode
<1>1. IInv => ScienceFollowsMode
  BY DEF IInv, Coherent, ScienceFollowsMode
<1>. QED BY <1>1, Invariance, PTL

\* The spectral tasks were started with that mode.
THEOREM AsmTasksFollow == Spec => []AsmTasksCarryMode
<1>1. IInv => AsmTasksCarryMode
  BY DEF IInv, Coherent, Carries, ActiveModes, AsmTasksCarryMode
<1>. QED BY <1>1, Invariance, PTL

\* Between any two calls of a mode change no ISR sends an event to a suspended
\* task.
THEOREM EventsAreReceived == Spec => []NoEventToSuspendedTask
<1>1. ASSUME IInv PROVE NoEventToSuspendedTask
  <2>1. pc \in {"idle"} \cup Calls \cup Ends
    BY <1>1 DEF IInv, TypeOK
  <2>2. ASSUME NEW m, RunsAs(acq, m) PROVE EventsReachTasks(acq)
    BY <2>2, RunsReachTasks
  <2>3. CASE pc \in {"idle"} \cup Ends
    BY <1>1, <2>2, <2>3 DEF IInv, Ends, Done, Coherent, EventsReachTasks, NoEventToSuspendedTask
  <2>4. CASE pc \in {"maskWFP", "maskSM", "resetWFP", "resetSM"}
    BY <1>1, <2>2, <2>4, TaskSets DEF IInv, Stage, EventsReachTasks, NoEventToSuspendedTask
  <2>5. CASE pc = "suspend"
    <3>1. /\ Stopped(acq, lfrCurrentMode, TC)
          /\ AsmOnly(lfrCurrentMode, TC) => acq.suspended \cup todo = AsmTasks
      BY <1>1, <2>5 DEF IInv, Stage
    <3>. QED BY <3>1, TaskSets DEF Stopped, NoEventToSuspendedTask
  <2>6. CASE pc = "request"
    <3>1. Stopped(acq, lfrCurrentMode, TC) /\ acq.suspended = AsmTasks
      BY <1>1, <2>6 DEF IInv, Stage
    <3>. QED BY <3>1, TaskSets DEF Stopped, NoEventToSuspendedTask
  <2>7. CASE pc = "restart"
    <3>1. /\ Stopped(acq, lfrCurrentMode, TC) /\ acq.suspended \subseteq todo
          /\ todo \subseteq RestartedTasks(lfrCurrentMode, TC)
      BY <1>1, <2>7 DEF IInv, Stage
    <3>. QED BY <3>1, TaskSets DEF Stopped, RestartedTasks, NoEventToSuspendedTask
  <2>8. CASE pc \in {"enableSM", "unmaskSM", "enableWFP", "unmaskWFP"}
    <3>1. acq.suspended = {}
      BY <1>1, <2>8 DEF IInv, Stage, Restarted
    <3>. QED BY <3>1 DEF NoEventToSuspendedTask
  <2>. QED BY <2>1, <2>3, <2>4, <2>5, <2>6, <2>7, <2>8 DEF Calls
<1>. QED BY <1>1, Invariance, PTL

\* NORMAL, SBM1 and SBM2 succeed each other without restarting the snapshots.
THEOREM SnapshotsGoOn == Spec => []SnapshotsNotRestarted
<1>1. IInv => SnapshotsNotRestarted
  BY DEF IInv, Done, SnapshotsNotRestarted, Modes, SharedModes
<1>. QED BY <1>1, Invariance, PTL

-----------------------------------------------------------------------------
(* ModeManager implements ModeContract *)

\* What the contract sees of the program
View == <<lfrCurrentMode, Entered, Waveforms(acq), Matrices(acq)>>

LEMMA DoneDelivers ==
  ASSUME NEW a, NEW m \in Modes, RunsAs(a, m), m \in ActiveModes => Carries(a, m)
  PROVE  /\ Waveforms(a) = Contract!WaveformsOf(m)
         /\ Matrices(a) = Contract!MatricesOf(m)
BY DEF RunsAs, Carries, ActiveModes, Waveforms, Matrices, IrqLines,
       PickerConfig, SharedModes, Modes, ModeTasks, ScienceTasks, AsmTasks,
       WaveformTasks, Contract!WaveformsOf, Contract!MatricesOf,
       Contract!SharedModes

LEMMA InitContract == Init => Contract!Init
BY DEF Init, Contract!Init, Entered, Waveforms, Matrices, Calls

\* A mode change begins, a byte that is no mode gets in, or nothing happens.
LEMMA ActionEnterModeContract ==
  ASSUME IInv, NEW dateOk \in BOOLEAN, ActionEnterMode(dateOk)
  PROVE  Contract!Next \/ UNCHANGED View
<1>. DEFINE m == Head(recvQueue)
            c == FirstCall(lfrCurrentMode, m)
<1>1. /\ m \in Modes \cup {InvalidMode} /\ lfrCurrentMode \in Modes \cup {InvalidMode}
      /\ acq \in Acquisitions /\ pc = "idle" /\ acq.touched = {}
      /\ Coherent(acq, lfrCurrentMode)
  BY DEF IInv, TypeOK, CallerInv, ActionEnterMode
<1>2. /\ c \in {"restart", "maskSM", "maskWFP", "closing"}
      /\ c = "closing" => \/ m = InvalidMode
                          \/ m \in SharedModes /\ lfrCurrentMode \in {m, InvalidMode}
      /\ c # "closing" => /\ m \in Modes
                          /\ m \in SharedModes => lfrCurrentMode \notin {m, InvalidMode}
  BY <1>1, FirstStage
<1>. HIDE DEF m, c
<1>3. /\ pc' = c /\ TC' = m /\ result' = EnterModeStatus(lfrCurrentMode, m)
      /\ lfrCurrentMode' = lfrCurrentMode /\ acq' = acq
  BY DEF ActionEnterMode, m, c
<1>4. Entered = "none"
  BY <1>1 DEF Entered, Calls
<1>5. Waveforms(acq') = Waveforms(acq) /\ Matrices(acq') = Matrices(acq)
  BY <1>3
<1>6. CASE c # "closing"
  <2>1. Entered' = m
    BY <1>2, <1>3, <1>6 DEF Entered, Calls
  <2>2. Contract!Begin(m)
    BY <1>2, <1>3, <1>4, <1>5, <1>6, <2>1
       DEF Contract!Begin, Contract!SharedModes, SharedModes, Contract!InvalidMode, InvalidMode
  <2>3. m \in Contract!Modes
    BY <1>2, <1>6 DEF Contract!Modes, Modes
  <2>. QED BY <2>2, <2>3 DEF Contract!Next
<1>7. CASE c = "closing"
  <2>1. Entered' = "none"
    BY <1>2, <1>3, <1>7 DEF Entered, Calls, EnterModeStatus, Modes, InvalidMode
  <2>. QED BY <1>3, <1>4, <1>5, <2>1 DEF View
<1>. QED BY <1>6, <1>7

LEMMA ForceStandbyContract ==
  ASSUME IInv, ForceStandby
  PROVE  Contract!Begin("STANDBY")
<1>1. FirstCall(lfrCurrentMode, "STANDBY") = "maskWFP"
  BY DEF FirstCall, SharedModes, AsmOnly, InvalidMode
<1>2. Entered = "none" /\ Entered' = "STANDBY"
  BY <1>1 DEF ForceStandby, Entered, Calls
<1>3. lfrCurrentMode' = lfrCurrentMode /\ acq' = acq
  BY DEF ForceStandby
<1>. QED BY <1>2, <1>3 DEF Contract!Begin, Contract!SharedModes

\* What is entered does not change from one call to the next, nor does the
\* mode reported.
LEMMA CallsEnter ==
  ASSUME IInv, ModeChangeCall
  PROVE  /\ Entered = TC /\ Entered' = TC /\ TC # "none" /\ pc \in Calls
         /\ lfrCurrentMode' = lfrCurrentMode
         /\ (TC \in SharedModes => lfrCurrentMode # TC)
<1>1. ASSUME NEW call \in Calls, NEW a, Make(call, a)
      PROVE  /\ pc = call /\ pc' = Following(call)
             /\ UNCHANGED <<lfrCurrentMode, TC, caller, result>>
  BY <1>1 DEF Make
<1>2. ASSUME NEW t, NEW call \in Calls, NEW a, MakeFor(t, call, a)
      PROVE  /\ pc = call /\ pc' \in {call, Following(call)}
             /\ UNCHANGED <<lfrCurrentMode, TC, caller, result>>
  BY <1>2 DEF MakeFor
<1>3. PICK call \in Calls : /\ pc = call /\ pc' \in {call, Following(call)}
                            /\ UNCHANGED <<lfrCurrentMode, TC, caller, result>>
  <2>1. CASE MaskWfp
    BY <1>1, <2>1 DEF MaskWfp, Calls
  <2>2. CASE MaskSm
    BY <1>1, <2>2 DEF MaskSm, Calls
  <2>3. CASE ResetWfp
    BY <1>1, <2>3 DEF ResetWfp, Calls
  <2>4. CASE ResetSm
    BY <1>1, <2>4 DEF ResetSm, Calls
  <2>5. CASE SuspendTask
    BY <1>2, <2>5 DEF SuspendTask, Calls
  <2>6. CASE RequestAsmRestart
    BY <1>1, <2>6 DEF RequestAsmRestart, Calls
  <2>7. CASE RestartTask
    BY <1>2, <2>7 DEF RestartTask, Calls
  <2>8. CASE EnableSm
    BY <1>1, <2>8 DEF EnableSm, Calls
  <2>9. CASE UnmaskSm
    BY <1>1, <2>9 DEF UnmaskSm, Calls
  <2>10. CASE EnableWfp
    BY <1>1, <2>10 DEF EnableWfp, Calls
  <2>11. CASE UnmaskWfp
    BY <1>1, <2>11 DEF UnmaskWfp, Calls
  <2>. QED BY <2>1, <2>2, <2>3, <2>4, <2>5, <2>6, <2>7, <2>8, <2>9, <2>10, <2>11
           DEF ModeChangeCall
<1>4. TC \in Modes /\ result = "LFR_SUCCESSFUL" /\ (TC \in SharedModes => lfrCurrentMode # TC)
  BY <1>3 DEF IInv, CallerInv
<1>5. pc' \in Calls \cup Ends
  BY <1>3, FollowingType
<1>6. Entered = TC /\ Entered' = TC
  BY <1>3, <1>4, <1>5 DEF Entered, Ends
<1>. QED BY <1>3, <1>4, <1>6 DEF Modes

\* The waveforms stop, and do not when they have to go on.
LEMMA MaskWfpContract ==
  ASSUME IInv, MaskWfp PROVE Contract!StopWaveforms
<1>1. Entered = TC /\ Entered' = TC /\ TC # "none" /\ lfrCurrentMode' = lfrCurrentMode
      /\ (TC \in SharedModes => lfrCurrentMode # TC)
  BY CallsEnter DEF ModeChangeCall
<1>2. acq' = [acq EXCEPT !.irq = @ \ {"WFP"}] /\ pc = "maskWFP"
  BY DEF MaskWfp, Make
<1>3. ~AsmOnly(lfrCurrentMode, TC)
  BY <1>2 DEF IInv, Stage
<1>4. ~Contract!WaveformsKept
  BY <1>1, <1>3, SharedAsmOnly DEF Contract!WaveformsKept, Contract!SharedModes, SharedModes
<1>5. Waveforms(acq') = "off" /\ Matrices(acq') = Matrices(acq)
  BY <1>2 DEF IInv, TypeOK, Acquisitions, Waveforms, Matrices
<1>. QED BY <1>1, <1>4, <1>5 DEF Contract!StopWaveforms

LEMMA MaskSmContract ==
  ASSUME IInv, MaskSm PROVE Contract!StopMatrices
<1>1. Entered = TC /\ Entered' = TC /\ TC # "none" /\ lfrCurrentMode' = lfrCurrentMode
  BY CallsEnter DEF ModeChangeCall
<1>2. acq' = [acq EXCEPT !.irq = @ \ {"SM"}] /\ pc = "maskSM"
  BY DEF MaskSm, Make
<1>3. Waveforms(acq') = Waveforms(acq) /\ Matrices(acq') = "none"
  BY <1>2 DEF IInv, TypeOK, Acquisitions, Waveforms, Matrices
<1>. QED BY <1>1, <1>3 DEF Contract!StopMatrices

\* No event reaches the tasks of a masked line.
LEMMA MaskedDelivers ==
  ASSUME NEW a
  PROVE  /\ "WFP" \notin a.irq => Waveforms(a) = "off"
         /\ "SM" \notin a.irq => Matrices(a) = "none"
BY DEF Waveforms, Matrices

\* The calls made with the lines masked
LEMMA SilentCalls ==
  ASSUME IInv, ResetWfp \/ ResetSm \/ SuspendTask \/ RequestAsmRestart \/ RestartTask
               \/ EnableSm
  PROVE  UNCHANGED View
<1>1. Entered' = Entered /\ lfrCurrentMode' = lfrCurrentMode
  BY CallsEnter DEF ModeChangeCall
<1>2. /\ acq \in Acquisitions /\ todo \subseteq ScienceTasks
      /\ Stage(pc, todo, lfrCurrentMode, TC, acq)
  BY DEF IInv, TypeOK
<1>3. ASSUME acq.irq = {}, acq'.irq = {}
      PROVE  Waveforms(acq') = Waveforms(acq) /\ Matrices(acq') = Matrices(acq)
  BY <1>3, MaskedDelivers
<1>4. ASSUME acq.irq = {"WFP"}, acq'.irq = {"WFP"}, acq'.picker = acq.picker,
             acq.suspended \subseteq AsmTasks, acq'.suspended \subseteq AsmTasks
      PROVE  Waveforms(acq') = Waveforms(acq) /\ Matrices(acq') = Matrices(acq)
  <2>1. Matrices(acq') = "none" /\ Matrices(acq) = "none"
    BY <1>4, MaskedDelivers
  <2>2. Waveforms(acq') = acq'.picker /\ Waveforms(acq) = acq.picker
    BY <1>4, TaskSets DEF Waveforms
  <2>. QED BY <1>4, <2>1, <2>2
<1>5. Waveforms(acq') = Waveforms(acq) /\ Matrices(acq') = Matrices(acq)
  <2>1. CASE ResetWfp
    <3>1. pc = "resetWFP" /\ acq' = [acq EXCEPT !.picker = "off"]
      BY <2>1 DEF ResetWfp, Make
    <3>2. acq.irq = {} /\ acq'.irq = {}
      BY <1>2, <3>1 DEF Stage, Acquisitions
    <3>. QED BY <1>3, <3>2
  <2>2. CASE ResetSm
    <3>1. pc = "resetSM" /\ acq' = [acq EXCEPT !.newMatrix = FALSE]
      BY <2>2 DEF ResetSm, Make
    <3>2. /\ acq'.irq = acq.irq /\ acq'.picker = acq.picker /\ acq'.suspended = acq.suspended
          /\ (acq.irq = {} \/ (acq.irq = {"WFP"} /\ acq.suspended = {}))
      BY <1>2, <3>1 DEF Stage, Acquisitions
    <3>. QED BY <1>3, <1>4, <3>2
  <2>3. CASE SuspendTask
    <3>1. PICK t \in todo : pc = "suspend" /\ acq' = [acq EXCEPT !.suspended = @ \cup {t}]
      BY <2>3 DEF SuspendTask, MakeFor
    <3>2. /\ acq'.irq = acq.irq /\ acq'.picker = acq.picker
          /\ acq'.suspended = acq.suspended \cup {t}
      BY <1>2, <3>1 DEF Acquisitions
    <3>3. /\ Stopped(acq, lfrCurrentMode, TC)
          /\ AsmOnly(lfrCurrentMode, TC) => acq.suspended \cup todo = AsmTasks
      BY <1>2, <3>1 DEF Stage
    <3>4. acq.irq = {} \/ (acq.irq = {"WFP"} /\ acq.suspended \subseteq AsmTasks /\ t \in AsmTasks)
      BY <3>3 DEF Stopped
    <3>. QED BY <1>3, <1>4, <3>2, <3>4
  <2>4. CASE RequestAsmRestart
    <3>1. pc = "request" /\ acq' = [acq EXCEPT !.asmRestart = TRUE]
      BY <2>4 DEF RequestAsmRestart, Make
    <3>2. /\ acq'.irq = acq.irq /\ acq'.picker = acq.picker /\ acq'.suspended = acq.suspended
          /\ Stopped(acq, lfrCurrentMode, TC) /\ acq.suspended = AsmTasks
      BY <1>2, <3>1 DEF Stage, Acquisitions
    <3>. QED BY <1>3, <1>4, <3>2 DEF Stopped
  <2>5. CASE RestartTask
    <3>1. PICK t \in todo :
            /\ pc = "restart"
            /\ acq' = [acq EXCEPT !.suspended = @ \ {t}, !.touched = @ \cup {t},
                                  !.arg = IF t \in ModeTasks THEN [@ EXCEPT ![t] = TC] ELSE @]
      BY <2>5 DEF RestartTask, MakeFor
    <3>2. /\ acq'.irq = acq.irq /\ acq'.picker = acq.picker
          /\ acq'.suspended = acq.suspended \ {t}
      BY <1>2, <3>1 DEF Acquisitions
    <3>3. /\ Stopped(acq, lfrCurrentMode, TC) /\ acq.suspended \subseteq todo
          /\ todo \subseteq RestartedTasks(lfrCurrentMode, TC)
      BY <1>2, <3>1 DEF Stage
    <3>4. acq.irq = {} \/ (acq.irq = {"WFP"} /\ acq.suspended \subseteq AsmTasks)
      BY <3>3 DEF Stopped, RestartedTasks
    <3>. QED BY <1>3, <1>4, <3>2, <3>4
  <2>6. CASE EnableSm
    <3>1. pc = "enableSM" /\ acq' = [acq EXCEPT !.newMatrix = TRUE]
      BY <2>6 DEF EnableSm, Make
    <3>2. /\ acq'.irq = acq.irq /\ acq'.picker = acq.picker /\ acq'.suspended = acq.suspended
          /\ Stopped(acq, lfrCurrentMode, TC) /\ acq.suspended = {}
      BY <1>2, <3>1 DEF Stage, Restarted, Acquisitions
    <3>. QED BY <1>3, <1>4, <3>2 DEF Stopped
  <2>. QED BY <2>1, <2>2, <2>3, <2>4, <2>5, <2>6
<1>. QED BY <1>1, <1>5 DEF View

\* The matrices of the mode entered start.
LEMMA UnmaskSmContract ==
  ASSUME IInv, UnmaskSm PROVE Contract!StartMatrices
<1>1. Entered = TC /\ Entered' = TC /\ TC # "none" /\ lfrCurrentMode' = lfrCurrentMode
  BY CallsEnter DEF ModeChangeCall
<1>2. acq' = [acq EXCEPT !.irq = @ \cup {"SM"}] /\ pc = "unmaskSM"
  BY DEF UnmaskSm, Make
<1>3. /\ Restarted(acq, lfrCurrentMode, TC) /\ acq.newMatrix /\ TC # "STANDBY"
      /\ AsmOnly(lfrCurrentMode, TC) => acq.irq = {"WFP"} /\ acq.picker = "shared"
      /\ ~AsmOnly(lfrCurrentMode, TC) => acq.irq = {}
  BY <1>2 DEF IInv, Stage, CallerInv, Calls
<1>4. /\ acq'.irq = acq.irq \cup {"SM"} /\ acq'.suspended = {} /\ acq'.picker = acq.picker
      /\ acq'.newMatrix /\ acq'.arg["AVF0"] = TC
  BY <1>2, <1>3, TaskSets DEF IInv, TypeOK, Acquisitions, Restarted, Carries
<1>5. Matrices(acq) = "none" /\ Matrices(acq') = TC
  BY <1>3, <1>4 DEF Matrices
<1>6. Waveforms(acq') = Waveforms(acq)
  BY <1>3, <1>4 DEF Waveforms, Restarted
<1>7. Contract!WaveformsKept \/ Waveforms(acq) = "off"
  <2>1. CASE AsmOnly(lfrCurrentMode, TC)
    BY <1>1, <2>1, AsmOnlyModes DEF Contract!WaveformsKept, Contract!SharedModes, SharedModes
  <2>2. CASE ~AsmOnly(lfrCurrentMode, TC)
    BY <1>3, <2>2, MaskedDelivers
  <2>. QED BY <2>1, <2>2
<1>. QED BY <1>1, <1>3, <1>5, <1>6, <1>7 DEF Contract!StartMatrices, Contract!MatricesOf

\* The picker is configured, its line is masked.
LEMMA EnableWfpContract ==
  ASSUME IInv, EnableWfp PROVE UNCHANGED View
<1>1. Entered' = Entered /\ lfrCurrentMode' = lfrCurrentMode
  BY CallsEnter DEF ModeChangeCall
<1>2. acq' = [acq EXCEPT !.picker = PickerConfig(TC), !.touched = @ \cup {"PICKER"}]
      /\ pc = "enableWFP"
  BY DEF EnableWfp, Make
<1>3. acq.irq = {"SM"}
  BY <1>2 DEF IInv, Stage
<1>4. /\ acq'.irq = acq.irq /\ acq'.suspended = acq.suspended
      /\ acq'.newMatrix = acq.newMatrix /\ acq'.arg = acq.arg
  BY <1>2 DEF IInv, TypeOK, Acquisitions
<1>5. Waveforms(acq) = "off" /\ Waveforms(acq') = "off"
  BY <1>3, <1>4, MaskedDelivers
<1>6. Matrices(acq') = Matrices(acq)
  BY <1>4 DEF Matrices
<1>. QED BY <1>1, <1>5, <1>6 DEF View

LEMMA UnmaskWfpContract ==
  ASSUME IInv, UnmaskWfp PROVE Contract!StartWaveforms
<1>1. Entered = TC /\ Entered' = TC /\ TC # "none" /\ lfrCurrentMode' = lfrCurrentMode
  BY CallsEnter DEF ModeChangeCall
<1>2. acq' = [acq EXCEPT !.irq = @ \cup {"WFP"}] /\ pc = "unmaskWFP"
  BY DEF UnmaskWfp, Make
<1>3. /\ Restarted(acq, lfrCurrentMode, TC) /\ acq.newMatrix /\ TC # "STANDBY"
      /\ acq.irq = {"SM"} /\ acq.picker = PickerConfig(TC)
  BY <1>2 DEF IInv, Stage, CallerInv, Calls
<1>4. /\ acq'.irq = {"SM", "WFP"} /\ acq'.suspended = {} /\ acq'.picker = acq.picker
      /\ acq'.newMatrix /\ acq'.arg["AVF0"] = TC
      /\ acq.suspended = {} /\ acq.arg["AVF0"] = TC
  BY <1>2, <1>3, TaskSets DEF IInv, TypeOK, Acquisitions, Restarted, Carries
<1>5. Matrices(acq) = TC /\ Matrices(acq') = TC
  BY <1>3, <1>4 DEF Matrices
<1>6. Waveforms(acq) = "off" /\ Waveforms(acq') = PickerConfig(TC)
  BY <1>3, <1>4 DEF Waveforms
<1>7. PickerConfig(TC) = Contract!WaveformsOf(TC)
  BY DEF PickerConfig, Contract!WaveformsOf, SharedModes, Contract!SharedModes
<1>. QED BY <1>1, <1>3, <1>5, <1>6, <1>7 DEF Contract!StartWaveforms, Contract!MatricesOf

\* The end of a TC: the mode entered is reported, or a byte that is none, or
\* nothing changes.
LEMMA CloseActionContract ==
  ASSUME IInv, CloseAction PROVE Contract!Next \/ UNCHANGED View
<1>1. /\ pc = "closing" /\ pc' = "idle" /\ acq' = [acq EXCEPT !.touched = {}]
      /\ lfrCurrentMode' = IF result = "LFR_SUCCESSFUL" THEN TC ELSE lfrCurrentMode
      /\ TC \in Modes \cup {InvalidMode}
  BY DEF CloseAction, Forget, IInv, TypeOK
<1>2. Entered' = "none"
  BY <1>1 DEF Entered, Calls
<1>3. Waveforms(acq') = Waveforms(acq) /\ Matrices(acq') = Matrices(acq)
  BY <1>1 DEF IInv, TypeOK, Acquisitions, Waveforms, Matrices
<1>4. CASE result = "LFR_SUCCESSFUL" /\ TC \in Modes
  <2>1. Entered = TC /\ TC # "none"
    BY <1>1, <1>4 DEF Entered, Modes
  <2>2. RunsAs(acq, TC) /\ (TC \in ActiveModes => Carries(acq, TC))
    BY <1>1, <1>4 DEF IInv, Done
  <2>3. Waveforms(acq) = Contract!WaveformsOf(TC) /\ Matrices(acq) = Contract!MatricesOf(TC)
    BY <1>4, <2>2, DoneDelivers
  <2>4. Contract!Report
    BY <1>1, <1>2, <1>3, <1>4, <2>1, <2>3 DEF Contract!Report
  <2>. QED BY <2>4 DEF Contract!Next
<1>5. CASE result = "LFR_SUCCESSFUL" /\ TC = InvalidMode
  <2>1. Entered = "none"
    BY <1>1, <1>5 DEF Entered, Calls, Modes, InvalidMode
  <2>2. Contract!EnterUnknown
    BY <1>1, <1>2, <1>3, <1>5, <2>1 DEF Contract!EnterUnknown, Contract!InvalidMode, InvalidMode
  <2>. QED BY <2>2 DEF Contract!Next
<1>6. CASE result # "LFR_SUCCESSFUL"
  <2>1. Entered = "none" /\ lfrCurrentMode' = lfrCurrentMode
    BY <1>1, <1>6 DEF Entered, Calls
  <2>. QED BY <1>2, <1>3, <2>1 DEF View
<1>. QED BY <1>1, <1>4, <1>5, <1>6

LEMMA UpdateToStandbyContract ==
  ASSUME IInv, UpdateToStandby PROVE Contract!Report
<1>1. /\ pc = "updating" /\ pc' = "idle" /\ acq' = [acq EXCEPT !.touched = {}]
      /\ lfrCurrentMode' = "STANDBY"
  BY DEF UpdateToStandby, Forget
<1>2. TC = "STANDBY" /\ RunsAs(acq, "STANDBY")
  BY <1>1 DEF IInv, CallerInv
<1>3. Entered = "STANDBY" /\ Entered' = "none"
  BY <1>1, <1>2 DEF Entered, Calls
<1>4. Waveforms(acq') = Waveforms(acq) /\ Matrices(acq') = Matrices(acq)
  BY <1>1 DEF IInv, TypeOK, Acquisitions, Waveforms, Matrices
<1>5. Waveforms(acq) = Contract!WaveformsOf("STANDBY") /\ Matrices(acq) = Contract!MatricesOf("STANDBY")
  BY <1>2, DoneDelivers DEF Modes, ActiveModes
<1>. QED BY <1>1, <1>3, <1>4, <1>5 DEF Contract!Report

\* Every step of the program is a step of the contract or none of its business.
LEMMA NextContract == IInv /\ [Next]_vars => [Contract!Next]_View
<1>. SUFFICES ASSUME IInv, [Next]_vars
              PROVE  Contract!Next \/ UNCHANGED View
  OBVIOUS
<1>1. ASSUME NEW dateOk \in BOOLEAN, ActionEnterMode(dateOk)
      PROVE  Contract!Next \/ UNCHANGED View
  BY <1>1, ActionEnterModeContract
<1>2. ASSUME NEW dateOk \in BOOLEAN, ActionEnterModeStopped(dateOk)
      PROVE  UNCHANGED View
  BY <1>2 DEF ActionEnterModeStopped, View, Entered, Calls
<1>3. CASE CloseAction
  BY <1>3, CloseActionContract
<1>4. CASE ForceStandby
  BY <1>4, ForceStandbyContract DEF Contract!Next, Contract!Modes
<1>5. CASE UpdateToStandby
  BY <1>5, UpdateToStandbyContract DEF Contract!Next
<1>6. CASE ModeChangeCall
  BY <1>6, MaskWfpContract, MaskSmContract, SilentCalls, UnmaskSmContract,
     EnableWfpContract, UnmaskWfpContract DEF ModeChangeCall, Contract!Next
<1>7. ASSUME NEW ready, SpectralMatricesIsr(ready)
      PROVE  UNCHANGED View
  BY <1>7 DEF SpectralMatricesIsr, Entered, IInv, TypeOK, Acquisitions,
              Waveforms, Matrices, View
<1>8. CASE \/ \E m \in RequestedModes : ReceiveTc(m)
           \/ SendTask \/ PostScience \/ UNCHANGED vars
  BY <1>8 DEF ReceiveTc, SendTask, PostScience, vars, Entered, Waveforms, Matrices, View
<1>. QED BY <1>1, <1>2, <1>3, <1>4, <1>5, <1>6, <1>7, <1>8 DEF Next, NewMatrix

\* The science of a mode stops before that of another starts, and the mode is
\* reported when its science runs, as ModeContract says, whatever interleaving
\* of TCs, refusals, interrupts and link losses.
THEOREM Refinement == Spec => ImplementsContract
<1>1. Init => Contract!Init
  BY InitContract
<1>2. IInv /\ [Next]_vars
        => [Contract!Next]_<<lfrCurrentMode, Entered, Waveforms(acq), Matrices(acq)>>
  BY NextContract DEF View
<1>. QED BY <1>1, <1>2, Invariance, PTL
         DEF Spec, Contract!Spec, ImplementsContract, Contract!contractVars

-----------------------------------------------------------------------------
(* The date of a transition *)

\* DateTypeOK without the flags
DatesOK ==
  /\ seconds \in Date
  /\ sbmMode \in {"NORMAL", "SBM"}
  /\ lastValidEnterModeTime \in 0 .. 2 * SyncBit
  /\ requested \in Date
  /\ setBack \in 0 .. MaxSetBack
  /\ lastSent \in {-1} \cup Date

InSync ==
  steady =>
    /\ ~notSynced
    /\ requested # 0 => lastValidEnterModeTime = requested
    /\ accepted => lastValidEnterModeTime <= seconds + MaxDelta + setBack
    /\ lastSent # -1 => lastSent >= requested

\* The flags stay flags.
LEMMA FlagsNext == FlagsOK /\ [DateNext]_dateVars => FlagsOK'
<1> SUFFICES ASSUME FlagsOK, [DateNext]_dateVars PROVE FlagsOK'
  OBVIOUS
<1> USE DEF FlagsOK
<1>0. /\ \A b \in BOOLEAN : (~b) \in BOOLEAN
      /\ \A b, c, d \in BOOLEAN : (b \/ (c /\ d)) \in BOOLEAN
  OBVIOUS
<1>1. CASE Tick
  BY <1>1, Zenon DEF Tick
<1>2. CASE SynchronizationChanges
  BY <1>0, <1>2, Zenon DEF SynchronizationChanges
<1>3. CASE EnterSbm
  <2>1. \A date \in Date : check_transition_date(date) \in BOOLEAN
    <3> TAKE date \in Date
    <3> DEFINE b == date = 0
               c == date > seconds
               d == date - seconds <= MaxDelta
    <3>1. b \in BOOLEAN /\ c \in BOOLEAN /\ d \in BOOLEAN
      OBVIOUS
    <3> HIDE DEF b, c, d
    <3>2. (b \/ (c /\ d)) \in BOOLEAN
      BY <1>0, <3>1, Zenon
    <3> QED
      BY <3>2, Zenon DEF check_transition_date, b, c, d
  <2> QED
    BY <1>0, <1>3, <2>1, Zenon DEF EnterSbm
<1>4. CASE LeaveSbm
  BY <1>4, Zenon DEF LeaveSbm
<1>5. CASE Send
  BY <1>5, Zenon DEF Send
<1>7. CASE LoadTime
  <2>1. notSynced' = notSynced \/ notSynced' = FALSE
    BY <1>7, Zenon DEF LoadTime
  <2> QED
    BY <1>7, <2>1, Zenon DEF LoadTime
<1>6. CASE UNCHANGED dateVars
  BY <1>6, Zenon DEF dateVars
<1> QED
  BY <1>1, <1>2, <1>3, <1>4, <1>5, <1>6, <1>7, Zenon DEF DateNext

\* Setting a time back, or on.
LEMMA SetBackSums ==
  /\ \A s, t \in Int : \A b \in Nat :
       t < s => b + s - t \in Nat /\ s + b <= t + (b + s - t)
  /\ \A s, t \in Int : \A b \in Nat : ~(t < s) => s + b <= t + b
  /\ \A last, s, t, d, b, c \in Int :
       last <= s + d + b /\ s + b <= t + c => last <= t + d + c
OBVIOUS

\* Every step keeps the dates comparable, while LFR is synchronized.
LEMMA DatesNext == DatesOK /\ InSync /\ [DateNext]_dateVars => DatesOK' /\ InSync'
<1> SUFFICES ASSUME DatesOK, InSync, [DateNext]_dateVars PROVE DatesOK' /\ InSync'
  OBVIOUS
<1> USE SyncBitAssumption, DeltaAssumption, SetBackAssumption DEF DatesOK, InSync, Date
<1>1. CASE Tick
  BY <1>1 DEF Tick
<1>2. CASE SynchronizationChanges
  BY <1>2 DEF SynchronizationChanges
<1>3. CASE EnterSbm
  <2>1. PICK date \in Date :
          /\ lastValidEnterModeTime' = update_last_valid_transition_date(date)
          /\ requested' = date
          /\ accepted' = check_transition_date(date)
          /\ steady' = ~notSynced
    BY <1>3 DEF EnterSbm
  <2>2. lastSent' = -1 /\ setBack' = 0 /\ sbmMode' = "SBM" /\ UNCHANGED <<seconds, notSynced>>
    BY <1>3 DEF EnterSbm
  <2>3. lastValidEnterModeTime' \in 0 .. 2 * SyncBit
    BY <2>1 DEF update_last_valid_transition_date, coarse_time
  <2>4. ASSUME ~notSynced
        PROVE  /\ date # 0 => lastValidEnterModeTime' = date
               /\ check_transition_date(date) =>
                    lastValidEnterModeTime' <= seconds + MaxDelta
    BY <2>1, <2>4 DEF update_last_valid_transition_date, coarse_time, check_transition_date
  <2>5. DatesOK'
    BY <2>1, <2>2, <2>3
  <2>6. ASSUME steady' PROVE ~notSynced /\ ~notSynced'
    BY <2>1, <2>2, <2>6
  <2>7. lastValidEnterModeTime' \in Int /\ seconds' = seconds /\ seconds \in Int
    BY <2>2, <2>3
  <2>8. ASSUME steady', accepted'
        PROVE  lastValidEnterModeTime' <= seconds' + MaxDelta + setBack'
    <3>1. lastValidEnterModeTime' <= seconds + MaxDelta
      BY <2>1, <2>4, <2>6, <2>8
    <3> QED
      BY <2>2, <2>7, <3>1
  <2>9. InSync'
    BY <2>1, <2>2, <2>4, <2>6, <2>8
  <2> QED
    BY <2>5, <2>9
<1>4. CASE LeaveSbm
  BY <1>4 DEF LeaveSbm
<1>5. CASE Send
  BY <1>5 DEF Send, coarse_time
<1>7. CASE LoadTime
  <2>1. /\ seconds' \in Date /\ notSynced' \in {notSynced, FALSE}
        /\ setBack' = IF steady /\ seconds' < seconds THEN setBack + seconds - seconds'
                                                      ELSE setBack
        /\ setBack' <= MaxSetBack
        /\ UNCHANGED <<sbmMode, lastValidEnterModeTime, requested, accepted, steady, lastSent>>
    BY <1>7 DEF LoadTime
  <2>2. /\ seconds' \in Int /\ seconds \in Int /\ setBack \in Nat
        /\ lastValidEnterModeTime \in Int
    BY <2>1
  <2>3. /\ steady /\ seconds' < seconds => setBack' = setBack + seconds - seconds'
        /\ ~(steady /\ seconds' < seconds) => setBack' = setBack
    BY <2>1, Zenon
  <2>4. setBack' \in Nat
    <3>1. CASE steady /\ seconds' < seconds
      <4>1. setBack' = setBack + seconds - seconds' /\ seconds' < seconds
        BY <2>3, <3>1, Zenon
      <4> QED
        BY ONLY <2>2, <4>1, SetBackSums, Zenon
    <3>2. CASE ~(steady /\ seconds' < seconds)
      <4>1. setBack' = setBack
        BY <2>3, <3>2, Zenon
      <4> QED
        BY ONLY <2>2, <4>1
    <3> QED
      BY <3>1, <3>2, Zenon
  <2>5. DatesOK'
    <3>1. setBack' \in 0 .. MaxSetBack
      <4>1. setBack' <= MaxSetBack
        BY <2>1, Zenon
      <4> QED
        BY <2>4, <4>1
    <3>2. seconds' \in Date
      BY <2>1, Zenon
    <3>3. UNCHANGED <<sbmMode, lastValidEnterModeTime, requested, lastSent>>
      BY <2>1, Zenon
    <3> QED
      BY <3>1, <3>2, <3>3
  <2>6. ASSUME steady PROVE seconds + setBack <= seconds' + setBack'
    <3>1. CASE seconds' < seconds
      <4>1. setBack' = setBack + seconds - seconds'
        BY <2>3, <2>6, <3>1, Zenon
      <4> QED
        BY ONLY <2>2, <3>1, <4>1, SetBackSums, Zenon
    <3>2. CASE ~(seconds' < seconds)
      <4>1. setBack' = setBack
        BY <2>3, <3>2, Zenon
      <4> QED
        BY ONLY <2>2, <3>2, <4>1, SetBackSums, Zenon
    <3> QED
      BY <3>1, <3>2, Zenon
  <2>7. ASSUME steady, accepted
        PROVE  lastValidEnterModeTime <= seconds' + MaxDelta + setBack'
    <3>1. lastValidEnterModeTime <= seconds + MaxDelta + setBack
      BY <2>7
    <3>2. seconds + setBack <= seconds' + setBack'
      BY <2>6, <2>7
    <3>3. MaxDelta \in Int /\ setBack \in Int /\ setBack' \in Int
      BY <2>2, <2>4
    <3> QED
      BY <2>2, <2>4, <3>1, <3>2, <3>3, SetBackSums, Zenon
  <2>8. ASSUME steady PROVE ~notSynced'
    BY <2>1, <2>8
  <2>9. InSync'
    BY <2>1, <2>7, <2>8
  <2> QED
    BY <2>5, <2>9
<1>6. CASE UNCHANGED dateVars
  BY <1>6 DEF dateVars
<1> QED
  BY <1>1, <1>2, <1>3, <1>4, <1>5, <1>6, <1>7 DEF DateNext

\* The flags, the dates and their relation
THEOREM DateInvariance == DateSpec => [](FlagsOK /\ DatesOK /\ InSync)
<1>1. DateInit => FlagsOK
  BY Zenon DEF DateInit, FlagsOK
<1>2. DateInit => DatesOK /\ InSync
  BY SyncBitAssumption, SetBackAssumption DEF DateInit, DatesOK, InSync, Date
<1> QED
  BY <1>1, <1>2, FlagsNext, DatesNext, PTL DEF DateSpec

\* Every variable keeps its type.
THEOREM DateTypeCorrect == DateSpec => []DateTypeOK
<1>1. FlagsOK /\ DatesOK => DateTypeOK
  BY Zenon DEF DateTypeOK, DatesOK
<1> QED
  BY <1>1, DateInvariance, PTL

\* While LFR stays synchronized no SBM packet leaves before the date.
THEOREM NoneEarly == DateSpec => []NoEarlyPacketInSync
<1>1. InSync => NoEarlyPacketInSync
  BY DEF InSync, NoEarlyPacketInSync, NoEarlyPacket
<1> QED
  BY <1>1, DateInvariance, PTL

\* While LFR stays synchronized the packets start within MaxDelta of an
\* accepted TC, and what the time was set back meanwhile.
THEOREM SoonStarted == DateSpec => []StartsSoon
<1>1. InSync => StartsSoon
  BY DEF InSync, StartsSoon, coarse_time
<1> QED
  BY <1>1, DateInvariance, PTL
=============================================================================
