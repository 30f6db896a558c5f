----------------------------- MODULE ModeManager -----------------------------
(***************************************************************************)
(* The mode automaton of LFR: the ACTN task executing TC_LFR_ENTER_MODE    *)
(* (action_enter_mode, the enter_mode_* functions, close_action), the      *)
(* SPIQ task forcing STANDBY when the SpaceWire link cannot be recovered,  *)
(* and the part of the spectral matrix ISR that runs the restart sequence  *)
(* requested by a mode change.                                             *)
(*                                                                         *)
(* ACTN and SPIQ are created RTEMS_NO_PREEMPT and do not block inside a    *)
(* mode change: no other task runs before its end.  Interrupts do: a mode  *)
(* change is the sequence of the calls it makes, one step each (a line     *)
(* masked, a module reset, a task suspended, a task restarted, a module    *)
(* launched, a line unmasked), and the ISR may run between any two.        *)
(***************************************************************************)
EXTENDS Naturals, Sequences

CONSTANTS RequestedModes,  \* mode bytes found in the telecommands
          RecvQueueSize,   \* messages held by the RECV queue
          SendQueueSize    \* messages held by the SEND queue

Modes == {"STANDBY", "NORMAL", "BURST", "SBM1", "SBM2"}

\* Any mode byte outside Modes; tc_parser does not look at it.
InvalidMode == "INVALID"

ASSUME RequestedModesAssumption == RequestedModes \subseteq Modes \cup {InvalidMode}
ASSUME QueueAssumption == /\ RecvQueueSize \in Nat \ {0}
                          /\ SendQueueSize \in Nat \ {0}

SharedModes == {"NORMAL", "SBM1", "SBM2"}

AsmTasks      == {"AVF0", "PRC0", "AVF1", "PRC1", "AVF2", "PRC2"}
WaveformTasks == {"WFRM", "CWF3", "CWF2", "CWF1"}
ScienceTasks  == AsmTasks \cup WaveformTasks

\* The tasks whose start argument is the mode they work for.
ModeTasks == {"AVF0", "PRC0", "AVF1", "PRC1"}

IrqLines == {"WFP", "SM"}

VARIABLES
  lfrCurrentMode,
  acq,           \* what science runs, see Acquisitions
  restartState,  \* static variable `state` of spectral_matrices_isr
  recvQueue,     \* requested modes waiting for ACTN
  sendCount,     \* messages in the SEND queue
  pc,            \* "idle", or the call made next, see Calls
  todo,          \* tasks left to suspend or to restart
  caller,        \* who changes the mode
  TC,            \* requested mode of the TC executed, STANDBY for SPIQ
  result,        \* what action_enter_mode returns for it
  answers        \* history: TC_EXE packets queued for it

vars == <<lfrCurrentMode, acq, restartState, recvQueue, sendCount, pc, todo,
          caller, TC, result, answers>>

\* The calls of a mode change, and the two ends of one: close_action and the
\* updateLFRCurrentMode of SPIQ.
Calls == {"maskWFP", "maskSM", "resetWFP", "resetSM", "suspend", "request",
          "restart", "enableSM", "unmaskSM", "enableWFP", "unmaskWFP"}
Ends  == {"closing", "updating"}

RestartStates == {"WAIT_FOR_F2", "WAIT_FOR_F1", "WAIT_FOR_F0"}
Results == {"LFR_SUCCESSFUL", "LFR_EXE_ERROR", "RTEMS_TOO_MANY"}
Answers == {"inconsistent", "not_executable", "success", "error"}

Acquisitions ==
  [suspended  : SUBSET ScienceTasks,       \* suspended tasks
   arg        : [ModeTasks -> Modes],      \* start arguments
   irq        : SUBSET IrqLines,           \* interrupt lines not masked
   picker     : {"off", "shared", "burst"},\* run_burst_enable
   newMatrix  : BOOLEAN,                   \* BIT_IRQ_ON_NEW_MATRIX
   asmRestart : BOOLEAN,                   \* thisIsAnASMRestart
   touched    : SUBSET (ScienceTasks \cup {"PICKER"})]
                                           \* history: (re)started by the TC

TypeOK ==
  /\ lfrCurrentMode \in Modes \cup {InvalidMode}
  /\ acq \in Acquisitions
  /\ restartState \in RestartStates
  /\ recvQueue \in Seq(Modes \cup {InvalidMode})
  /\ sendCount \in 0 .. SendQueueSize
  /\ pc \in {"idle"} \cup Calls \cup Ends
  /\ todo \subseteq ScienceTasks
  /\ caller \in {"ACTN", "SPIQ"}
  /\ TC \in Modes \cup {InvalidMode}
  /\ result \in Results
  /\ answers \in Seq(Answers)

-----------------------------------------------------------------------------
(* The calls of a change from mode to m, in the order of tc_handler.c *)

PickerConfig(m) == IF m \in SharedModes THEN "shared"
                   ELSE IF m = "BURST" THEN "burst" ELSE "off"

\* mutant: SBM2 is left like BURST
AsmOnlyButSbm2(mode, m) ==
  mode \in SharedModes \ {"SBM2"} /\ m \in SharedModes \ {mode}

\* restart_asm_activities is called, and not stop_current_mode and
\* restart_science_tasks.
AsmOnly(mode, m) == mode \in SharedModes /\ m \in SharedModes \ {mode}

\* mutant: suspend_asm_tasks is called in place of suspend_science_tasks
SuspendOnlyAsm(mode, m) == AsmTasks

SuspendedTasks(mode, m) == IF AsmOnly(mode, m) THEN AsmTasks ELSE ScienceTasks

RestartedTasks(mode, m) == IF AsmOnly(mode, m) THEN AsmTasks ELSE ScienceTasks

\* suspend_science_tasks and suspend_asm_tasks
SuspendOrder == <<"AVF0", "PRC0", "AVF1", "PRC1", "AVF2", "PRC2",
                  "WFRM", "CWF3", "CWF2", "CWF1">>

\* restart_science_tasks and restart_asm_tasks
RestartOrder == <<"AVF0", "PRC0", "WFRM", "CWF3", "CWF2", "CWF1",
                  "AVF1", "PRC1", "AVF2", "PRC2">>

Rank(order, t) == CHOOSE i \in DOMAIN order : order[i] = t

IsFirst(t, T, order) == \A u \in T : Rank(order, t) <= Rank(order, u)

\* The switch of action_enter_mode and those of enter_mode_normal, _sbm1 and
\* _sbm2: from STANDBY nothing has to be stopped, and nothing at all is done
\* for a byte that is no mode, nor from a mode that is not a case of them.
FirstCall(mode, m) ==
  CASE m \in SharedModes /\ mode = "STANDBY"          -> "restart"
    [] AsmOnly(mode, m)                               -> "maskSM"
    [] m \in SharedModes /\ mode \in {m, InvalidMode} -> "closing"
    [] m = InvalidMode                                -> "closing"
    [] OTHER                                          -> "maskWFP"

End == IF caller = "ACTN" THEN "closing" ELSE "updating"

\* What follows stop_current_mode or stop_spectral_matrices.
AfterStop == IF TC = "STANDBY" THEN End
             ELSE IF AsmOnly(lfrCurrentMode, TC) THEN "request" ELSE "restart"

\* mutant: the modules are launched before the tasks are restarted
LaunchThenRestart(call) ==
  CASE call = "maskWFP"   -> "maskSM"
    [] call = "maskSM"    -> IF AsmOnly(lfrCurrentMode, TC) THEN "resetSM" ELSE "resetWFP"
    [] call = "resetWFP"  -> "resetSM"
    [] call = "resetSM"   -> IF lfrCurrentMode = "STANDBY" THEN AfterStop ELSE "suspend"
    [] call = "suspend"   -> AfterStop
    [] call = "request"   -> "enableSM"
    [] call = "enableSM"  -> "unmaskSM"
    [] call = "unmaskSM"  -> IF AsmOnly(lfrCurrentMode, TC) THEN "restart" ELSE "enableWFP"
    [] call = "restart"   -> IF AsmOnly(lfrCurrentMode, TC) THEN End ELSE "enableSM"
    [] call = "enableWFP" -> "unmaskWFP"
    [] OTHER              -> End

\* The call made after call.  From STANDBY nothing is suspended.
Following(call) ==
  CASE call = "maskWFP"   -> "maskSM"
    [] call = "maskSM"    -> IF AsmOnly(lfrCurrentMode, TC) THEN "resetSM" ELSE "resetWFP"
    [] call = "resetWFP"  -> "resetSM"
    [] call = "resetSM"   -> IF lfrCurrentMode = "STANDBY" THEN AfterStop ELSE "suspend"
    [] call = "suspend"   -> AfterStop
    [] call = "request"   -> "restart"
    [] call = "restart"   -> "enableSM"
    [] call = "enableSM"  -> "unmaskSM"
    [] call = "unmaskSM"  -> IF AsmOnly(lfrCurrentMode, TC) THEN End ELSE "enableWFP"
    [] call = "enableWFP" -> "unmaskWFP"
    [] OTHER              -> End

\* The tasks a call has to be repeated for, in a change from mode to m.
TasksOf(call, mode, m) == CASE call = "suspend" -> SuspendedTasks(mode, m)
                            [] call = "restart" -> RestartedTasks(mode, m)
                            [] OTHER            -> {}

EnterModeStatus(mode, m) ==
  IF m \in SharedModes /\ mode \in {m, InvalidMode}
  THEN "LFR_EXE_ERROR" ELSE "LFR_SUCCESSFUL"

-----------------------------------------------------------------------------
Init ==
  /\ lfrCurrentMode = "STANDBY"
  /\ acq = [suspended |-> ScienceTasks, arg |-> [t \in ModeTasks |-> "STANDBY"],
            irq |-> {}, picker |-> "off", newMatrix |-> FALSE,
            asmRestart |-> FALSE, touched |-> {}]
  /\ restartState = "WAIT_FOR_F2"
  /\ recvQueue = <<>>
  /\ sendCount = 0
  /\ pc = "idle"
  /\ todo = {}
  /\ caller = "ACTN"
  /\ TC = "STANDBY"
  /\ result = "LFR_SUCCESSFUL"
  /\ answers = <<>>

\* RECV accepts a TC_LFR_ENTER_MODE; it is lost when the queue is full.
ReceiveTc(m) ==
  /\ pc = "idle"
  /\ Len(recvQueue) < RecvQueueSize
  /\ recvQueue' = Append(recvQueue, m)
  /\ UNCHANGED <<lfrCurrentMode, acq, restartState, sendCount, pc, todo, caller,
                 TC, result, answers>>

\* The refusals action_enter_mode posts for mode m, in order.
Refusals(m, dateOk) ==
  LET value      == IF m \notin Modes THEN <<"inconsistent">> ELSE <<>>
      transition == IF m = lfrCurrentMode /\ m \in Modes
                    THEN <<"not_executable">> ELSE <<>>
      date       == IF dateOk THEN <<>> ELSE <<"not_executable">>
  IN  value \o transition \o date

Room == SendQueueSize - sendCount

\* `status` holds what the last send_tm_* returned when it is tested again:
\* the mode is entered unless a refusal found the SEND queue full.  result is
\* what the calls that follow return.
ActionEnterMode(dateOk) ==
  LET m       == Head(recvQueue)
      refused == Refusals(m, dateOk)
  IN  /\ pc = "idle"
      /\ recvQueue # <<>>
      /\ Len(refused) <= Room
      /\ result' = EnterModeStatus(lfrCurrentMode, m)
      /\ answers' = refused
      /\ sendCount' = sendCount + Len(refused)
      /\ TC' = m
      /\ recvQueue' = Tail(recvQueue)
      /\ pc' = FirstCall(lfrCurrentMode, m)
      /\ todo' = TasksOf(FirstCall(lfrCurrentMode, m), lfrCurrentMode, m)
      /\ UNCHANGED <<lfrCurrentMode, acq, restartState, caller>>

\* A refusal that cannot be queued is the only thing that stops the action.
ActionEnterModeStopped(dateOk) ==
  LET m       == Head(recvQueue)
      refused == Refusals(m, dateOk)
  IN  /\ pc = "idle"
      /\ recvQueue # <<>>
      /\ Len(refused) > Room
      /\ result' = "RTEMS_TOO_MANY"
      /\ answers' = SubSeq(refused, 1, Room)
      /\ sendCount' = SendQueueSize
      /\ TC' = m
      /\ recvQueue' = Tail(recvQueue)
      /\ pc' = "closing"
      /\ UNCHANGED <<lfrCurrentMode, acq, restartState, todo, caller>>

\* SPIQ, case [3.b]: the link is lost, go to STANDBY.
ForceStandby ==
  /\ pc = "idle"
  /\ caller' = "SPIQ"
  /\ TC' = "STANDBY"
  /\ pc' = FirstCall(lfrCurrentMode, "STANDBY")
  /\ answers' = <<>>
  /\ UNCHANGED <<lfrCurrentMode, acq, restartState, recvQueue, sendCount, todo,
                 result>>

\* One call, which leaves the acquisition a.
Make(call, a) ==
  /\ pc = call
  /\ acq' = a
  /\ pc' = Following(call)
  /\ todo' = TasksOf(Following(call), lfrCurrentMode, TC)
  /\ UNCHANGED <<lfrCurrentMode, restartState, recvQueue, sendCount, caller, TC,
                 result, answers>>

\* One call of those made for each task of todo, here for t.
MakeFor(t, call, a) ==
  /\ pc = call
  /\ acq' = a
  /\ IF todo = {t}
     THEN /\ pc' = Following(call)
          /\ todo' = TasksOf(Following(call), lfrCurrentMode, TC)
     ELSE /\ todo' = todo \ {t}
          /\ UNCHANGED pc
  /\ UNCHANGED <<lfrCurrentMode, restartState, recvQueue, sendCount, caller, TC,
                 result, answers>>

\* stop_current_mode, and from MaskSm on stop_spectral_matrices but for the
\* picker
MaskWfp  == Make("maskWFP", [acq EXCEPT !.irq = @ \ {"WFP"}])
MaskSm   == Make("maskSM", [acq EXCEPT !.irq = @ \ {"SM"}])
ResetWfp == Make("resetWFP", [acq EXCEPT !.picker = "off"])
ResetSm  == Make("resetSM", [acq EXCEPT !.newMatrix = FALSE])

SuspendTask == \E t \in todo :
  /\ IsFirst(t, todo, SuspendOrder)
  /\ MakeFor(t, "suspend", [acq EXCEPT !.suspended = @ \cup {t}])

\* restart_asm_activities, between the stop and the restart
RequestAsmRestart == Make("request", [acq EXCEPT !.asmRestart = TRUE])

\* mutant: the ASM tasks alone are restarted with the mode being left
RestartWithOldMode == \E t \in todo :
  /\ IsFirst(t, todo, RestartOrder)
  /\ MakeFor(t, "restart",
             [acq EXCEPT !.suspended = @ \ {t}, !.touched = @ \cup {t},
                         !.arg = IF t \in ModeTasks
                                 THEN [@ EXCEPT ![t] = IF AsmOnly(lfrCurrentMode, TC)
                                                       THEN lfrCurrentMode ELSE TC]
                                 ELSE @])

RestartTask == \E t \in todo :
  /\ IsFirst(t, todo, RestartOrder)
  /\ MakeFor(t, "restart",
             [acq EXCEPT !.suspended = @ \ {t}, !.touched = @ \cup {t},
                         !.arg = IF t \in ModeTasks THEN [@ EXCEPT ![t] = TC] ELSE @])

\* launch_spectral_matrix
EnableSm == Make("enableSM", [acq EXCEPT !.newMatrix = TRUE])
UnmaskSm == Make("unmaskSM", [acq EXCEPT !.irq = @ \cup {"SM"}])

\* launch_waveform_picker
EnableWfp == Make("enableWFP", [acq EXCEPT !.picker = PickerConfig(TC),
                                           !.touched = @ \cup {"PICKER"}])
UnmaskWfp == Make("unmaskWFP", [acq EXCEPT !.irq = @ \cup {"WFP"}])

ModeChangeCall == \/ MaskWfp \/ MaskSm \/ ResetWfp \/ ResetSm \/ SuspendTask
                  \/ RequestAsmRestart \/ RestartTask
                  \/ EnableSm \/ UnmaskSm \/ EnableWfp \/ UnmaskWfp

\* close_action: the answer is lost when the SEND queue is full.
FinalAnswer == CASE result = "LFR_SUCCESSFUL" -> <<"success">>
                 [] result = "LFR_EXE_ERROR"  -> <<"error">>
                 [] OTHER                     -> <<>>

\* The variables nobody reads before the next mode change.
Forget == /\ acq' = [acq EXCEPT !.touched = {}]
          /\ caller' = "ACTN"
          /\ TC' = "STANDBY"
          /\ result' = "LFR_SUCCESSFUL"

\* mutant: the answer is counted when it was not queued
CloseIgnoresFullQueue ==
  /\ pc = "closing"
  /\ lfrCurrentMode' = IF result = "LFR_SUCCESSFUL" THEN TC ELSE lfrCurrentMode
  /\ answers' = answers \o FinalAnswer
  /\ sendCount' = sendCount + Len(FinalAnswer)
  /\ pc' = "idle"
  /\ Forget
  /\ UNCHANGED <<restartState, recvQueue, todo>>

\* mutant: the mode is updated whatever the result
CloseAlwaysUpdatesMode ==
  /\ pc = "closing"
  /\ lfrCurrentMode' = TC
  /\ pc' = "idle"
  /\ Forget
  /\ UNCHANGED <<restartState, recvQueue, sendCount, todo, answers>>

CloseAction ==
  /\ pc = "closing"
  /\ lfrCurrentMode' = IF result = "LFR_SUCCESSFUL" THEN TC ELSE lfrCurrentMode
  /\ IF Len(FinalAnswer) <= Room
     THEN /\ answers' = answers \o FinalAnswer
          /\ sendCount' = sendCount + Len(FinalAnswer)
     ELSE UNCHANGED <<answers, sendCount>>
  /\ pc' = "idle"
  /\ Forget
  /\ UNCHANGED <<restartState, recvQueue, todo>>

\* updateLFRCurrentMode(LFR_MODE_STANDBY), by SPIQ
UpdateToStandby ==
  /\ pc = "updating"
  /\ lfrCurrentMode' = "STANDBY"
  /\ pc' = "idle"
  /\ Forget
  /\ UNCHANGED <<restartState, recvQueue, sendCount, todo, answers>>

\* SEND transmits the oldest packet.
SendTask ==
  /\ pc = "idle"
  /\ sendCount > 0
  /\ sendCount' = sendCount - 1
  /\ UNCHANGED <<lfrCurrentMode, acq, restartState, recvQueue, pc, todo, caller,
                 TC, result, answers>>

\* Another task queues a TM packet.
PostScience ==
  /\ pc = "idle"
  /\ sendCount < SendQueueSize
  /\ sendCount' = sendCount + 1
  /\ UNCHANGED <<lfrCurrentMode, acq, restartState, recvQueue, pc, todo, caller,
                 TC, result, answers>>

\* mutant: thisIsAnASMRestart is not cleared after F0
IsrNeverEndsRestart(ready) ==
  /\ "SM" \in acq.irq /\ acq.newMatrix /\ acq.asmRestart
  /\ restartState' = CASE restartState = "WAIT_FOR_F2" /\ "F2" \in ready -> "WAIT_FOR_F1"
                       [] restartState = "WAIT_FOR_F1" /\ "F1" \in ready -> "WAIT_FOR_F0"
                       [] restartState = "WAIT_FOR_F0" /\ "F0" \in ready -> "WAIT_FOR_F2"
                       [] OTHER -> restartState
  /\ UNCHANGED <<lfrCurrentMode, acq, recvQueue, sendCount, pc, todo, caller, TC,
                 result, answers>>

\* spectral_matrices_isr while thisIsAnASMRestart is set.  ready is the set of
\* channels with a matrix; outside a restart the ISR changes nothing here.  It
\* runs whatever ACTN and SPIQ are doing.
SpectralMatricesIsr(ready) ==
  /\ "SM" \in acq.irq /\ acq.newMatrix
  /\ acq.asmRestart
  /\ \/ /\ restartState = "WAIT_FOR_F2" /\ "F2" \in ready
        /\ restartState' = "WAIT_FOR_F1"
        /\ UNCHANGED acq
     \/ /\ restartState = "WAIT_FOR_F1" /\ "F1" \in ready
        /\ restartState' = "WAIT_FOR_F0"
        /\ UNCHANGED acq
     \/ /\ restartState = "WAIT_FOR_F0" /\ "F0" \in ready
        /\ restartState' = "WAIT_FOR_F2"
        /\ acq' = [acq EXCEPT !.asmRestart = FALSE]
  /\ UNCHANGED <<lfrCurrentMode, recvQueue, sendCount, pc, todo, caller, TC, result,
                 answers>>

NewMatrix(f) == \E ready \in SUBSET {"F0", "F1", "F2"} :
                   f \in ready /\ SpectralMatricesIsr(ready)

Next ==
  \/ \E m \in RequestedModes : ReceiveTc(m)
  \/ \E dateOk \in BOOLEAN : ActionEnterMode(dateOk)
  \/ \E dateOk \in BOOLEAN : ActionEnterModeStopped(dateOk)
  \/ ForceStandby
  \/ ModeChangeCall
  \/ CloseAction
  \/ UpdateToStandby
  \/ SendTask
  \/ PostScience
  \/ \E f \in {"F0", "F1", "F2"} : NewMatrix(f)

\* The spectral matrix module delivers every channel as long as it runs.
Fairness == \A f \in {"F0", "F1", "F2"} : WF_vars(NewMatrix(f))

Spec == Init /\ [][Next]_vars
FairSpec == Spec /\ Fairness

-----------------------------------------------------------------------------
(* Properties *)

\* What the hardware and the tasks do in mode m, for m one of the modes.
RunsAs(a, m) ==
  IF m = "STANDBY"
  THEN /\ a.suspended = ScienceTasks
       /\ a.irq = {} /\ a.picker = "off" /\ ~a.newMatrix
  ELSE /\ a.suspended = {}
       /\ a.irq = IrqLines /\ a.picker = PickerConfig(m) /\ a.newMatrix

\* Whatever sequence of telecommands, refused ones included, and link losses
\* led there: when no mode change is under way, the ten science tasks, the two
\* interrupt lines, the picker and the matrix module are in the state of
\* lfrCurrentMode (tc_handler.c, enter_mode_*, stop_current_mode).
ScienceFollowsMode ==
  pc = "idle" /\ lfrCurrentMode \in Modes => RunsAs(acq, lfrCurrentMode)

\* In the modes with spectral products, the four tasks that take the mode as
\* their start argument were all last started with the mode LFR reports: none
\* keeps computing the products of the mode it was started for earlier.
AsmTasksCarryMode ==
  pc = "idle" /\ lfrCurrentMode \in Modes \ {"STANDBY"} =>
    \A t \in ModeTasks : acq.arg[t] = lfrCurrentMode

\* Between any two calls of a mode change, of ACTN or of SPIQ, an interrupt
\* may occur.  None is served while a task its ISR sends events to is
\* suspended: the lines are masked before the first task is suspended and
\* stay so until the last one is restarted.
NoEventToSuspendedTask ==
  /\ "SM" \in acq.irq => acq.suspended \cap AsmTasks = {}
  /\ "WFP" \in acq.irq => acq.suspended \cap WaveformTasks = {}

\* "If LFR is in SBM1 or SBM2, the snapshots are not restarted, only ASM, BP
\* and CWF data generation are affected.  In other cases, the acquisition is
\* completely restarted" (headers of enter_mode_normal, _sbm1, _sbm2).
SnapshotsNotRestarted ==
  pc = "closing" /\ result = "LFR_SUCCESSFUL" /\ TC \in SharedModes =>
    acq.touched = IF lfrCurrentMode \in SharedModes
                  THEN AsmTasks ELSE ScienceTasks \cup {"PICKER"}

\* The sequence F2, F1, F0 that restart_asm_activities asks of the ISR ends,
\* unless the matrix interrupt is masked meanwhile.
RestartSequenceEnds ==
  acq.asmRestart ~> (~acq.asmRestart \/ "SM" \notin acq.irq)

\* No TC is both refused and acknowledged as executed.
RefusedTcNotExecuted ==
  ~ \E i, j \in DOMAIN answers :
      answers[i] \in {"inconsistent", "not_executable"} /\ answers[j] = "success"

\* The mode being entered, "none" when nothing is going to change the science.
Entered == IF \/ pc \in Calls \cup {"updating"}
              \/ pc = "closing" /\ result = "LFR_SUCCESSFUL" /\ TC \in Modes
           THEN TC ELSE "none"

\* The science that reaches the tasks which produce it.
Waveforms(a) ==
  IF "WFP" \in a.irq /\ a.suspended \cap WaveformTasks = {} THEN a.picker ELSE "off"

Matrices(a) ==
  IF "SM" \in a.irq /\ a.newMatrix /\ a.suspended \cap AsmTasks = {}
  THEN a.arg["AVF0"] ELSE "none"

Contract == INSTANCE ModeContract WITH mode      <- lfrCurrentMode,
                                       target    <- Entered,
                                       waveforms <- Waveforms(acq),
                                       matrices  <- Matrices(acq)

\* Every call of a mode change is a step of ModeContract or changes nothing it
\* speaks of: the science of a mode stops before that of another one starts,
\* and the mode is reported when its science runs.
ImplementsContract == Contract!Spec
=============================================================================
