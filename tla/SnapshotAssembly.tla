-------------------------- MODULE SnapshotAssembly --------------------------
(***************************************************************************)
(* The snapshots of NORMAL, SBM1 and SBM2.  The waveform picker acquires a *)
(* snapshot at f0; the snapshots at f1 and f2 that go with it are cut out  *)
(* of the continuous waveforms when their buffers are complete, by SWBD on *)
(* request of CWF1 and by CWF2; CWF1 sees that both are ready and asks     *)
(* WFRM to send the three.  The tasks share six flags and the pointer to   *)
(* the f0 snapshot.                                                        *)
(*                                                                         *)
(* Time runs in slots, half an f1 buffer each.  The tasks have a higher    *)
(* priority than ACTN and finish their work within a slot (0.33 s).         *)
(***************************************************************************)
EXTENDS Naturals

CONSTANTS
  F1Slots,         \* slots in a buffer of f1: 2
  F2Slots,         \* slots in a buffer of f2: 16 times more
  SnapshotPeriod,  \* sy_lfr_n_swf_p in whole slots
  MaxShortening,   \* slots a resynchronisation takes off a period at most
  MaxSnapshots     \* bound: f0 snapshots in one acquisition

ASSUME SlotAssumption == /\ F1Slots \in Nat \ {0} /\ F2Slots \in Nat \ {0}
                         /\ F2Slots % F1Slots = 0 /\ F2Slots > 2 * F1Slots
                         /\ SnapshotPeriod \in Nat /\ MaxSnapshots \in Nat
                         /\ MaxShortening \in 0 .. SnapshotPeriod

VARIABLES
  acquiring,  \* "on", "stopped", or "restarting": the picker waits for its start_date
  phase,      \* place in the current buffer of f2
  age,        \* slots since the last f0 snapshot, at most SnapshotPeriod
  resynchro,  \* static variable `state` of snapshot_resynchronization
  shorter,    \* slots delta_snapshot is below sy_lfr_n_swf_p
  f0,         \* snapshot in ring_node_to_send_swf_f0, 0 if none
  flags,      \* those of Flags that are true
  acqF2,      \* acquisitionTimeF0_asLong of cwf2_task: an f0 snapshot
  swf1,       \* f0 snapshot swf1_extracted goes with
  swf2,       \* f0 snapshot swf2_extracted goes with
  events,     \* pending events, <<task, event>>
  swfSent,    \* history: the three snapshots sent last
  resynched,  \* history: snapshot snapshot_resynchronization saw last
  crowded     \* history: the f0 snapshot came too soon after the one before

snapVars == <<acquiring, phase, age, resynchro, shorter, f0, flags, acqF2, swf1, swf2,
              events, swfSent, resynched, crowded>>

periodVars == <<resynchro, shorter>>
isrVars == <<acquiring, f0, crowded>>  \* what the tasks do not change

Flags == {"swf0_ready_flag_f1", "swf0_ready_flag_f2", "extractSWF1",
          "extractSWF2", "swf1_ready", "swf2_ready"}

Events == {<<"CWF1", "NORM_S1_S2">>, <<"CWF2", "NORM_S1_S2">>,
           <<"SWBD", "NORM_S1_S2">>, <<"WFRM", "NORMAL">>, <<"WFRM", "RESYNCH">>}

Snapshot == 0 .. MaxSnapshots

SnapTypeOK ==
  /\ acquiring \in {"on", "stopped", "restarting"}
  /\ phase \in 0 .. F2Slots - 1
  /\ age \in 0 .. SnapshotPeriod
  /\ resynchro \in {"MEASURE", "CORRECTION"}
  /\ shorter \in 0 .. MaxShortening
  /\ f0 \in Snapshot
  /\ flags \in SUBSET Flags
  /\ acqF2 \in Snapshot /\ swf1 \in Snapshot /\ swf2 \in Snapshot
  /\ events \in SUBSET Events
  /\ swfSent \in [f0 : Snapshot, f1 : Snapshot, f2 : Snapshot]
  /\ resynched \in Snapshot
  /\ crowded \in BOOLEAN

SnapInit ==
  /\ acquiring = "on"
  /\ phase = 0 /\ age = SnapshotPeriod
  /\ resynchro = "MEASURE" /\ shorter = 0
  /\ f0 = 0 /\ flags = {} /\ acqF2 = 0 /\ swf1 = 0 /\ swf2 = 0
  /\ events = {}
  /\ swfSent = [f0 |-> 0, f1 |-> 0, f2 |-> 0]
  /\ resynched = 0 /\ crowded = FALSE

Pending(task) == {e \in events : e[1] = task}
Idle(tasks) == \A t \in tasks : Pending(t) = {}
Tasks == {"CWF1", "CWF2", "SWBD", "WFRM"}

\* A snapshot at f2 is complete within two buffers of f2, and the next buffer of
\* f1 sends the three: what an f0 snapshot needs before the next one comes.
SafeAge == 2 * F2Slots + F1Slots + 1

-----------------------------------------------------------------------------
(* Time and interrupts *)

\* The end of a slot; the interrupts of the buffers that are full by then.
SlotEnds ==
  /\ acquiring = "on" /\ Idle(Tasks)
  /\ phase' = (phase + 1) % F2Slots
  /\ age' = IF age < SnapshotPeriod THEN age + 1 ELSE age
  /\ events' = (IF phase' % F1Slots = 0 THEN {<<"CWF1", "NORM_S1_S2">>} ELSE {})
               \cup (IF phase' = 0 THEN {<<"CWF2", "NORM_S1_S2">>} ELSE {})
  /\ UNCHANGED <<flags, acqF2, swf1, swf2, swfSent, resynched, periodVars, isrVars>>

\* mutant: WFRM is asked to send at once
F0AsksToSend ==
  /\ acquiring = "on" /\ age >= SnapshotPeriod - shorter
  /\ f0 < MaxSnapshots
  /\ f0' = f0 + 1
  /\ crowded' = (f0 > 0 /\ age < SafeAge)
  /\ age' = 0
  /\ flags' = flags \cup {"swf0_ready_flag_f1", "swf0_ready_flag_f2"}
  /\ events' = events \cup {<<"WFRM", "RESYNCH">>, <<"WFRM", "NORMAL">>}
  /\ UNCHANGED <<acquiring, phase, acqF2, swf1, swf2, swfSent, resynched, periodVars>>

\* waveform_isr_normal_sbm1_sbm2, F0; anywhere between the steps of the tasks
F0Isr ==
  /\ acquiring = "on" /\ age >= SnapshotPeriod - shorter
  /\ f0 < MaxSnapshots
  /\ f0' = f0 + 1
  /\ crowded' = (f0 > 0 /\ age < SafeAge)
  /\ age' = 0
  /\ flags' = flags \cup {"swf0_ready_flag_f1", "swf0_ready_flag_f2"}
  /\ events' = events \cup {<<"WFRM", "RESYNCH">>}
  /\ UNCHANGED <<acquiring, phase, acqF2, swf1, swf2, swfSent, resynched, periodVars>>

-----------------------------------------------------------------------------
(* The tasks, by priority: CWF1 and CWF2, then SWBD, then WFRM.  Only SWBD  *)
(* is not suspended with the acquisition.                                  *)

\* mutant: the ready flags are cleared on every buffer
Cwf1AlwaysClears ==
  /\ acquiring # "stopped" /\ Pending("CWF1") # {}
  /\ LET extract == "extractSWF1" \in flags
         again   == "swf0_ready_flag_f1" \in flags
         ready   == {"swf1_ready", "swf2_ready"} \subseteq flags
     IN  /\ flags' = (flags \ {"extractSWF1", "swf0_ready_flag_f1", "swf1_ready", "swf2_ready"})
                     \cup IF again THEN {"extractSWF1"} ELSE {}
         /\ events' = (events \ Pending("CWF1"))
                      \cup (IF extract THEN {<<"SWBD", "NORM_S1_S2">>} ELSE {})
                      \cup (IF ready THEN {<<"WFRM", "NORMAL">>} ELSE {})
  /\ UNCHANGED <<phase, age, acqF2, swf1, swf2, swfSent, resynched, periodVars, isrVars>>

\* The extraction asked for by the last buffer is launched, then the next
\* one is asked for, then the transmission if both snapshots are ready.
Cwf1 ==
  /\ acquiring # "stopped" /\ Pending("CWF1") # {}
  /\ LET extract == "extractSWF1" \in flags
         again   == "swf0_ready_flag_f1" \in flags
         ready   == {"swf1_ready", "swf2_ready"} \subseteq flags
     IN  /\ flags' = (flags \ ({"extractSWF1", "swf0_ready_flag_f1"}
                                 \cup IF ready THEN {"swf1_ready", "swf2_ready"} ELSE {}))
                     \cup IF again THEN {"extractSWF1"} ELSE {}
         /\ events' = (events \ Pending("CWF1"))
                      \cup (IF extract THEN {<<"SWBD", "NORM_S1_S2">>} ELSE {})
                      \cup (IF ready THEN {<<"WFRM", "NORMAL">>} ELSE {})
  /\ UNCHANGED <<phase, age, acqF2, swf1, swf2, swfSent, resynched, periodVars, isrVars>>

\* The snapshot is built for the f0 snapshot recorded one buffer earlier.
Cwf2 ==
  /\ acquiring # "stopped" /\ Pending("CWF2") # {}
  /\ LET extract == "extractSWF2" \in flags
         again   == "swf0_ready_flag_f2" \in flags
     IN  /\ flags' = (flags \ {"extractSWF2", "swf0_ready_flag_f2"})
                     \cup (IF extract THEN {"swf2_ready"} ELSE {})
                     \cup (IF again THEN {"extractSWF2"} ELSE {})
         /\ swf2' = IF extract THEN acqF2 ELSE swf2
         /\ acqF2' = IF again THEN f0 ELSE acqF2
  /\ events' = events \ Pending("CWF2")
  /\ UNCHANGED <<phase, age, swf1, swfSent, resynched, periodVars, isrVars>>

Swbd ==
  /\ acquiring = "stopped" \/ Idle({"CWF1", "CWF2"})
  /\ Pending("SWBD") # {}
  /\ swf1' = f0
  /\ flags' = flags \cup {"swf1_ready"}
  /\ events' = events \ Pending("SWBD")
  /\ UNCHANGED <<phase, age, acqF2, swf2, swfSent, resynched, periodVars, isrVars>>

\* snapshot_resynchronization: the correction is added to delta_snapshot, and
\* the next snapshot takes it away.  A longer period needs no case, F0Isr may
\* come late.
Resynchronise ==
  \/ /\ resynchro = "MEASURE"
     /\ resynchro' = "CORRECTION"
     /\ \E s \in 0 .. MaxShortening : shorter' = shorter + s
  \/ /\ resynchro = "CORRECTION"
     /\ resynchro' = "MEASURE"
     /\ shorter' = 0

\* event_out is compared with each event, so the two together are ignored.
Wfrm ==
  /\ acquiring # "stopped" /\ Idle({"CWF1", "CWF2", "SWBD"})
  /\ \/ /\ Pending("WFRM") = {<<"WFRM", "NORMAL">>}
        /\ swfSent' = [f0 |-> f0, f1 |-> swf1, f2 |-> swf2]
        /\ UNCHANGED <<resynched, periodVars>>
     \/ /\ Pending("WFRM") = {<<"WFRM", "RESYNCH">>}
        /\ Resynchronise
        /\ resynched' = f0
        /\ UNCHANGED swfSent
     \/ /\ Pending("WFRM") = {<<"WFRM", "NORMAL">>, <<"WFRM", "RESYNCH">>}
        /\ UNCHANGED <<swfSent, resynched, periodVars>>
  /\ events' = events \ Pending("WFRM")
  /\ UNCHANGED <<phase, age, flags, acqF2, swf1, swf2, isrVars>>

-----------------------------------------------------------------------------
(* The mode is left and entered again *)

\* mutant: reset_extractSWF is not called
StopKeepsFlags ==
  /\ acquiring = "on"
  /\ acquiring' = "stopped"
  /\ events' = events
  /\ UNCHANGED <<flags, phase, age, f0, acqF2, swf1, swf2, swfSent, resynched, crowded, periodVars>>

\* stop_current_mode, called by ACTN when the tasks are idle, or by SPIQ at any
\* point of their work: CWF1 may then have asked for an extraction, and still
\* be about to ask for the transmission.
StopSnapshots ==
  /\ acquiring = "on"
  /\ acquiring' = "stopped"
  /\ flags' = {}
  /\ \/ events' = events
     \/ /\ Pending("CWF1") # {} /\ "extractSWF1" \in flags
        /\ events' = (events \ Pending("CWF1")) \cup {<<"SWBD", "NORM_S1_S2">>}
  /\ UNCHANGED <<phase, age, f0, acqF2, swf1, swf2, swfSent, resynched, crowded, periodVars>>

\* restart_science_tasks and launch_waveform_picker: ACTN is not preempted in
\* between, and SWBD, which has gone on, has nothing left to do when ACTN runs.
\* The events of the other tasks may survive their restart.  The flags are not
\* reset.  0 now stands for anything acquired before.
Relaunch ==
  /\ acquiring = "stopped" /\ Idle({"SWBD"})
  /\ acquiring' = "restarting"
  /\ events' \in SUBSET events
  /\ phase' = 0 /\ age' = SnapshotPeriod /\ shorter' = 0
  /\ f0' = 0 /\ acqF2' = 0 /\ swf1' = 0 /\ swf2' = 0
  /\ swfSent' = [f0 |-> 0, f1 |-> 0, f2 |-> 0] /\ resynched' = 0 /\ crowded' = FALSE
  /\ UNCHANGED <<flags, resynchro>>

\* start_date is reached; the tasks have taken the events they found.
PickerStarts ==
  /\ acquiring = "restarting" /\ Idle(Tasks)
  /\ acquiring' = "on"
  /\ UNCHANGED <<phase, age, f0, flags, acqF2, swf1, swf2, events, swfSent, resynched,
                 crowded, periodVars>>

SnapNext == \/ SlotEnds \/ F0Isr \/ Cwf1 \/ Cwf2 \/ Swbd \/ Wfrm
            \/ StopSnapshots \/ Relaunch \/ PickerStarts

SnapSpec == SnapInit /\ [][SnapNext]_snapVars

-----------------------------------------------------------------------------
(* Properties *)

\* The three snapshots sent together belong to one f0 snapshot, whatever the
\* phase of its interrupt in the f1 and f2 buffers (cwf1_task, cwf2_task,
\* swbd_task, wfrm_task).
SnapshotsTogether ==
  [][swfSent' # swfSent /\ ~crowded
       => swfSent'.f0 = swfSent'.f1 /\ swfSent'.f1 = swfSent'.f2]_snapVars

\* When an f0 snapshot is acquired the one before it has been sent.
NoSnapshotLost ==
  [][f0' = f0 + 1 /\ age >= SafeAge => swfSent = [f0 |-> f0, f1 |-> f0, f2 |-> f0]]_snapVars

\* Every f0 snapshot is used for the resynchronisation before the next one:
\* its event never reaches WFRM together with the event to send.
EverySnapshotResynched == [][f0' = f0 + 1 /\ ~crowded => resynched = f0]_snapVars
=============================================================================
