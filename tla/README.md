# TLA+ verification of the LFR flight software

LFR, the low frequency receiver of the RPW experiment of Solar Orbiter, is
driven by one LEON3 processor running about 15 000 lines of C on RTEMS. This
directory holds TLA+ models of its concurrent parts, the TLC configurations
that check them, and theorems proved with TLAPS. All paths below are relative
to the root of the repository, which appears as `src/` in `PROJECT.json`.

## 1. The system

One processor, preemptive priorities, tasks that communicate by RTEMS events,
message queues and global variables, and interrupts that write the same global
variables. Nothing is persistent: a reset starts again from `Init`.

| Component | Where | State | Operations | Must be right |
|---|---|---|---|---|
| Mode automaton, task ACTN | `src/tc_tm/tc_handler.c` | `lfrCurrentMode`, suspension and start argument of ten science tasks, two interrupt lines, picker and matrix module, `thisIsAnASMRestart` | `action_enter_mode`, `enter_mode_*`, `stop_current_mode`, `restart_*`, `suspend_*`, `launch_*`, `close_action` | tasks, interrupts and hardware are those of the reported mode; a refused TC has no effect; no event to a suspended task |
| Date of a transition | `check_transition_date`, `update_last_valid_transition_date`, `BP_send_s1_s2`, `cwf1_task`, `cwf2_task` | `lastValidEnterModeTime`, the local time and its synchronization bit | accept a date, drop the packets before it | no packet early, none blocked |
| Link recovery, tasks SPIQ and LINK | `src/fsw_spacewire.c` | driver state, suspension of RECV and SEND, pending events, number of attempts | `spiq_task`, `link_task`, `spacewire_several_connect_attemps` | somebody is always in charge of the link; the two tasks never drive it together; communication comes back |
| RECV, SEND | `src/fsw_spacewire.c` | two queues, sequence counters of the answers | receive a TC, check it, queue or refuse it; send packets and ring nodes | one TC, one answer, one number |
| Waveforms: ISR, CWF1-3 | `src/hw/wf_handler.c` | three rings, current node, node to send, picker registers | `waveforms_isr`, `cwf*_task`, `launch_waveform_picker` | what is sent is complete, dated correctly and not overwritten |
| Snapshots: ISR, WFRM, SWBD, CWF1, CWF2 | `src/hw/wf_handler.c` | six flags, f0 node, extracted snapshots, resynchronization state | `cwf1_task`, `cwf2_task`, `swbd_task`, `wfrm_task`, `snapshot_resynchronization` | the three snapshots sent together belong together; none is lost |
| Spectral matrices: ISR, AVF0-2, PRC0-2 | `src/processing/` | three rings of matrices, averages, restart sequence | `spectral_matrices_isr`, `avf*_task`, `prc*_task` | averages of consecutive matrices; nothing mixed across a mode change |
| Parameters | `src/tc_tm/tc_load_dump_parameters.c` | parameter dump packet, filter parameters, reaction wheel masks | `action_load_*`, `action_dump_*` | parameters change together or not at all; consistent with each other |
| TC acceptance, reports | `src/tc_tm/tc_acceptance.c`, `tm_lfr_tc_exe.c` | counters of the housekeeping packet | `tc_parser`, `send_tm_lfr_tc_exe_*` | one TC, one answer |
| Housekeeping, time | `src/fsw_housekeeping.c`, `src/fsw_misc.c` | housekeeping packet, error counters, timecode supervision | `hous_task`, `avgv_task`, `increment_hk_counter`, `timecode_irq_handler` | counters that never miss an error; a time that is known to be wrong is reported so |
| Filters | `src/mitigations/`, `setFBinMask` | parameters of the PAS filter, masks of polluted frequencies | `acquisitionTimeIsValid`, `build_sy_lfr_rw_masks`, `merge_fbins_masks`, `getFBinMask` | every polluted matrix and bin excluded, and no other |
| Spectral matrix arithmetic | `src/processing/ASM/spectralmatrices.c` | the averaged, reordered and compressed matrices | `SM_average`, `SM_calibrate_and_reorder`, `ASM_compress_divide_and_mask` | each float goes where its bin and component are |
| Start-up, watchdog, load, scrubbing, printing | `src/fsw_init.c`, `src/fsw_watchdog.c`, ... | - | register accesses | - |

The tasks by priority (smaller runs first): SPIQ 5, LINK 20, AVGV 25, HOUS 30,
CWF1/CWF2 35, SWBD 37, WFRM/CWF3 40, SEND 45, RECV/CALI/ACTN 50, AVF0 60,
AVF1 70, PRC0/PRC1 100, AVF2/PRC2 110, LOAD 190. SPIQ, ACTN and PRC0/PRC1 are not
preemptible by other tasks: between two calls of a mode change only interrupts run. Where
one can matter the change is one step per call (`ModeManager`); where none reads or writes
what the telecommand changes, it is one step.

What is hard here is listed with its lines in `PROJECT.json` under `hazards`:
tasks that suspend and restart each other, interrupts that overwrite pointers
tasks are about to read, events that merge, data protected by timing only, a
clock with one bit too many, and long sequences of modes.

## 2. Plan

The modules, most important first. A module of proofs goes with each one that
has theorems; an `MC` module gives the constants of a run their values.

| Order | Module | Component | State |
|---|---|---|---|
| 1 | `ModeContract` | what a mode change promises: the science of a mode stops before that of another starts, and the mode is reported when its science runs | done |
| 2 | `ModeManager` | mode automaton, SPIQ's forced STANDBY, restart sequence of the matrices; implements `ModeContract` | done, proved |
| 3 | `SpaceWireLink` | link recovery | done, safety proved |
| 4 | `WaveformRing` | a continuous waveform from the picker to SEND | done, proved |
| 5 | `SnapshotAssembly` | the three snapshots and the resynchronization | done, proved |
| 6 | `SpectralRing` | matrices from the module to AVF | done, proved |
| 7 | `Averaging` | AVF and PRC of the three channels, their counters, rings and queue | done, proved |
| 8 | `TransitionDate` | the date of a transition | done, proved |
| 9 | `Parameters` | load, dump, consistency, copies in use | done, proved |
| 10 | `SpectralMatrix` | the layouts of a matrix from the module to the basic parameters | done, reordering proved |
| 11 | `PasFilter`, `WheelFilter` | polluted matrices and bins, against a definition by intervals | done, proved |
| 12 | `Timecode` | supervision of the timecodes | done, proved |
| 13 | `Housekeeping` | error counters from the driver and the interrupts to the packet | done, proved |
| 14 | `TcAcceptance` | reception, parser, answers and their numbers | done, proved |
| 15 | `SnapshotExtraction` | the samples of a snapshot cut out of a ring, against those asked for | done, proved |
| 16 | next | torn reads of the status word by HOUS | to do |
| 17 | next | composition of `ModeManager` and `SpaceWireLink`, and its proof | to do |

Composition: `ModeManager` instantiates `ModeContract` with a refinement
mapping; the other modules meet at the constants and the assumptions that stand
for their neighbours (section 4) and name the property of the neighbour that
justifies them where there is one.

## 3. Modules and code

**ModeManager** (`src/tc_tm/tc_handler.c`, `src/fsw_spacewire.c`,
`src/processing/fsw_processing.c`). `acq` holds what the mode functions change:
the suspended tasks, the argument of the last restart of each, the open
interrupt lines, the picker, the matrix module and its restart flag. A mode change
is the sequence of the calls it makes, one step each: `pc` is the next call, `todo`
the tasks left to suspend or to restart, `caller` who makes it, ACTN (a telecommand) or
SPIQ (the link is lost). `ActionEnterMode` makes the checks of `action_enter_mode` and
takes the first branch of `enter_mode_*` (`FirstCall`); `MaskWfp`, `MaskSm`,
`ResetWfp`, `ResetSm` and `SuspendTask` are `stop_current_mode` or
`stop_spectral_matrices`, `RequestAsmRestart` sets `thisIsAnASMRestart`,
`RestartTask` is one iteration of `restart_science_tasks` or `restart_asm_tasks`,
`EnableSm`, `UnmaskSm`, `EnableWfp` and `UnmaskWfp` are the two `launch_*`
functions, and `Following` is their order. No other task runs meanwhile
(`RTEMS_NO_PREEMPT`, `fsw_init.c:416`), but `NewMatrix`, the matrix interrupt, may
come between any two calls. `CloseAction` ends the telecommand, `UpdateToStandby` the
forced STANDBY. `action_enter_mode` keeps in `status` the status of sending a
refusal, and the model does too: that is the run `mode_refused`;
`ActionEnterModeStopped` is the only way a refusal stops the action, when it cannot be
queued. `ForceStandby` is what SPIQ does when it gives up, and may come while telecommands
wait in the RECV queue. `SpectralMatricesIsr` is the restart sequence F2, F1, F0
with its static state; the interrupts latched while a line is masked, which
`LEON_Clear_interrupt` clears, are not modelled. `ModeContract` has four variables: the mode
reported, the mode being entered, the waveforms and the matrices delivered; its actions
are `Begin`, `StopWaveforms`, `StopMatrices`, `StartMatrices`,
`StartWaveforms`, `Report`, and `EnterUnknown` for a byte that is no mode. Section 6 gives
the mapping.

**SpaceWireLink** (`spiq_task`, `link_task`, `spacewire_several_connect_attemps`).
A place in the code of each task where it blocks, sleeps or may be preempted is a
value of `spiq` or `link`; SPIQ runs before LINK whenever it is ready
(`SpiqReady`). `LinkFails` and `LinkComesUp` are the outside; `PostedStopped`
says whether the driver posts an error while it is stopped, `KeptByRestart` whether an event
survives the restart of a task: the source does not say, so both may be either.

**WaveformRing** (`waveforms_isr`, `cwf*_task`, `send_waveform_CWF`,
`launch_waveform_picker`). One channel; f1, f2 and f3 run the same code. A node
has the acquisition whose samples it holds and the one whose date it bears; the
registers of the picker have two addresses, dates and status bits. `Launch`
resets the registers and the pointers into the ring, not the SEND queue. `Lag` is how
many buffers may be filled while a node waits for SEND.

**SnapshotAssembly** (`cwf1_task`, `cwf2_task`, `swbd_task`, `wfrm_task`,
`snapshot_resynchronization`). A slot of time is half an f1 buffer, 0.33 s. The
six flags, the pointer to the f0 snapshot and the pending events of the four
tasks are variables; the extraction of samples is an instantaneous read of the
f0 snapshot it belongs to. `StopSnapshots` is `stop_current_mode` seen from here, at
any point of the handshake, since SPIQ preempts the four tasks; SWBD is not suspended and
goes on, so that it may raise its flag after `reset_extractSWF`. `Relaunch` is
`restart_science_tasks` and `launch_waveform_picker`, in one step because ACTN is not
preempted and the interrupts are masked; any of the pending events may survive it.
`PickerStarts` is the date at which the picker begins, when the tasks have taken what
they found. `crowded` remembers that an f0 snapshot came before the one before
it could be sent (`SafeAge`), which the shortest period allows.

**SnapshotExtraction** (`build_snapshot_from_ring`, the parts of
`waveform_isr_normal_sbm1_sbm2`, `cwf1_task`, `cwf2_task` and `swbd_task` that ask
for it). One channel, f1 or f2, with its ring of nodes that bear dates. A buffer is
known by its number since the launch and a sample by its place in it, so that the property
can compare the samples copied with those asked for. The search and each of the two copies
are steps, between which the picker may fill `CutLag` buffers; `TimeIsSet` moves the
clock once, and with it the dates of the buffers to come.

**SpectralRing** (`spectral_matrices_isr` and its three helpers, `avf*_task` up to
`SM_average`). One channel. The module is never stopped: a mode change hands the
interrupt a ring whose pointers start again from the first node while the
module still fills the buffers of before. `RestartAvf` may keep the pending event of
AVF or not; an event of the mode before (`stale`) makes AVF read the pointer
the restart has set to NULL.

**Averaging** (`avf*_task`, `prc*_task`). The counters of AVF, its rings of sums,
the queue to PRC and what PRC has in its compressed matrices. A sum is the set
of batches in it. `channel` selects f0, f1 or f2: f0 and f1 differ in one line
(run `averaging_f0_bp1`); f2 has neither BURST nor SBM products, and its batch is
one matrix.

**TransitionDate** (`check_transition_date`, `update_last_valid_transition_date`,
the tests in `BP_send_s1_s2`, `cwf1_task`, `cwf2_task`). The clock register is a
number of seconds and a bit 31, modelled as `SyncBit`. `LoadTime` is
`action_update_time`, which loads any time, synchronized or not; `setBack` counts the
seconds it takes back while a transition is pending.

**Parameters** (`src/tc_tm/tc_load_dump_parameters.c`, `action_update_info`, the
readers of the parameters). `parameter_dump` is the packet
`TM_LFR_PARAMETER_DUMP`, which is also where the program keeps its parameters;
`inUse` has the copies: the register of the picker (`set_wfp_data_shaping`), the
merged masks (`merge_fbins_masks`), `filterPar`, and the periods AVF reads when
it starts (`reset_nb_sm_*`). Each load is one action with its checks in
the order of the code; `LoadKcoefficients` and `DumpKcoefficients` follow which
matrix goes to which place, not its values. The answer of a telecommand goes to
the SEND queue, and is lost if it is full; a status that `close_action` does not
know is a silence.

**SpectralMatrix** (`spectralmatrices.c`, the two layouts of
`tests/common/FSW_helpers.hpp`). The loops as written, over floats known by the
place they come from: which floats `SM_average` or `SM_average_f2` sums, where the
input pointer of `SM_calibrate_and_reorder` is for each element of the triangle, which
calibration matrices go with a bin, what `ASM_compress_divide_and_mask` adds where.
One step is one iteration. The arithmetic on the values is left out.

**PasFilter** (`acquisitionTimeIsValid`, `isPolluted`,
`check_sy_lfr_filter_parameters`). Dates are counted in units of the fine time and
taken modulo `Word`, as unsigned numbers are. The property compares the three
periods the code looks at with all of them; the claim of the comments, that any overlap
is enough, is the run `pas_overlap`.

**WheelFilter** (`setFBinMask`, `build_sy_lfr_rw_mask`, `merge_fbins_masks`,
`getFBinMask` and the telecommands that bring frequencies, factors and masks).
`halfWidth` is the product of the two factors of a wheel, `builtWith` its value when
the masks were built: TC_LFR_LOAD_FILTER_PAR does not build them again.

**Timecode** (`timecode_irq_handler`, `timecode_timer_routine`). A second has two
slots: its timecode, if it comes, and then the expiry of the timer, 1.2 s after
the last tick-out. The core moves its register on any timecode and raises a tick-out
for the successor at least.

**Housekeeping** (`spacewire_read_statistics`, `spacewire_get_last_error`,
`update_hk_with_grspw_stats`, `hk_lfr_le_me_he_update`). HOUS and SPIQ are two
threads in the same function, with each call to the driver, the comparison with the last
statistics, their copy, the load and the store of the sums as steps; SPIQ preempts HOUS anywhere and runs to its next sleep. A counter
of the packet has `Byte` values, 256 in the program.

**TcAcceptance** (`recv_task`, `tc_parser` and its five checks,
`increment_seq_counter_destination_id`, `actn_task`, the answers of each action). A
packet is a record of the fields the parser tests. RECV goes through the read, the
check, the number, the increment and the send, and SPIQ may suspend it at each; ACTN,
which RECV does not preempt, then runs and uses the same counters.

## 4. Runs, bounds and findings

| Run | Instance | Why it is enough |
|---|---|---|
| `mode_manager` | five modes and an invalid byte; queues of 2; 283 609 states | the mode machine is complete, call by call; a queue of two is empty, partly filled and full; the refusal and the answer of one TC fit or not |
| `spw_link` | the program's 3 attempts | complete: no other bound |
| `ring_and_parameters` | two components, below; 737 749 states | |
| `components` | eleven components, below; 1 417 544 states | |
| `mode_refused`, `averaging_f0_bp1`, `date_instant`, `kcoeff_dump`, `sm_average`, `sm_compress`, `hk_escape`, `pas_overlap` | the same, one property each | they end with a counterexample: see the findings |

`MCRingAndParameters` checks two components that share no state in one run, in the same way
as `MCComponents` below:

| Part | Instance | Why it is enough |
|---|---|---|
| `ring` | ring of 4, SEND 2 buffers late, 7 buffers, queue of 3 | the ring turns almost twice, the queue overflows, a relaunch meets old events; the proofs cover any size |
| `parameters` | per group the default set, one consistent set and one set for each check that fails, at its boundary; one bin; queue of 2 | the bins of a mask are independent; the groups are checked one by one, in every mode |

`MCComponents` checks eleven components that share no state in one run: its variable
`part` names the one that takes steps in a behaviour, and the others stay in one of
their initial states (`Pinned`). Its states are the union of theirs, not the
product. In each part:

| Part | Instance | Why it is enough |
|---|---|---|
| `averaging` | f1 and f2; periods of 1 to 4 batches, rings of 2 and 3 sums, queue of 2, 6 batches, one of them polluted | each counter ends its period at least once, the rings are reused, a restart comes with messages queued. f0 has the error of `averaging_f0_bp1` and is otherwise f1 |
| `ring` | ring of 5, batches of 3, 1 matrix late; 11 matrices | the smallest ring for such batches, two turns and several restarts; the program's rings (20 nodes for batches of 8) have more room |
| `snapshots` | buffer sizes of the program; the shortest period, 22 s, corrections to 1 s; 4 snapshots; a stop at any point | each phase of the f0 snapshot in an f2 buffer; snapshots that come too soon and the ones after them; the flags are those of the first snapshot again after the second |
| `extraction` | f1 and f2, rings, buffers and constants of the program; a snapshot every 5 buffers at f1 and every 21 s at f2, 18 and 3 buffers after the launch; 11 instants of an f0 snapshot in a buffer; the clock set once, forwards or backwards; 1 buffer late | the instants are those where the first sample passes from one buffer to the next, and one tick before or after; the ring of f1 is full and turns. At f1 the program's period is 32 buffers or more, of which the ring keeps 5 |
| `date` | 8 dates, at most 3 seconds ahead; the time loaded at any point, set back by 2 s in all while synchronized | more than twice the bound: past, near and far dates all exist, with and without the bit |
| `matrix` | 128 bins, the 96 kept at f2, both averaging loops | the program's own numbers; f0 and f1 differ by the first bin and the number kept, which the theorem leaves free |
| `pas` | a second of 4 units; periods of 4 and 5 s, perturbations of 1 and 4 s that may cross the end of a period, matrices shorter and as long as the perturbation, dates to 18 s | more than four periods; each way two intervals can touch, overlap or contain each other |
| `wheels` | 2 wheels, a mask of 2 bytes, 7 frequencies and NaN, ranges narrower and wider than a bin, two masks of the ground | off, between, on and beyond bins; more than one wheel on a bin; the other wheels are alike |
| `timecode` | timecodes 0 to 5 | the successor, the wrap, a repeated and a wrong timecode; the rest of the 64 are alike |
| `housekeeping` | one counter of each kind, bytes of 3 values, 3 errors | each counter wraps; SPIQ comes at every step of HOUS |
| `telecommands` | 13 packets: each way to be answered, each failing test; a queue of 2, 3 packets, numbers to 12 | the queue overflows; RECV and ACTN answer the same source; no number comes back within a behaviour, so an equal number is an error |

`CHECK_DEADLOCK FALSE` is used in `components` and in the violation runs of its
parts, where the bounds on matrices, batches, dates, errors and packets end the
behaviours, and a matrix is done.

What the instances are close to: a snapshot that comes 67 slots after the last one, the
minimum period of 22 s, finds it sent; a correction may shorten that period to 64 slots,
two buffers of f2, and then the snapshot before may be lost, or mixed with the
new one. The code accepts such a period, and the comments promise nothing of it:
the properties except these snapshots (`crowded`, `SafeAge`) and say that those
that follow in time are not disturbed. With a correction of 8 slots (2.6 s) TLC finds
that they are. A ring of matrices with `Batch + Lag` nodes violates
`EveryMatrixOnce`, and so would the minimum the comments of
`fsw_params_processing.h:76` and `:81` allow ("AT LEAST 8"); the program's sizes
are well above. `fsw_params.h:139` and `:140` allow rings of 3 waveform buffers ("AT
LEAST 3"): with 3 `SnapshotCut` is violated even if no task is late, with 4 if one
buffer is filled while a snapshot is cut, with the program's 5 only if two are.

Disagreements between the code and its own comments, each with a run that shows
it (`findings`):

1. `mode_refused`: a refused TC_LFR_ENTER_MODE is executed (`tc_handler.c:223`).
2. `averaging_f0_bp1`: BP1 of BURST, SBM1 and SBM2 at f0 comes from the normal
   matrix (`avf0_prc0.c:345`).
3. `date_instant`: an instant transition asked for without synchronization blocks
   the SBM packets later (`tc_handler.c:547`).
4. `kcoeff_dump`: the f2 matrices are written to the first packet of the dump of
   the coefficients, which already waits for SEND (`tc_load_dump_parameters.c:609`).
5. `sm_average`: the limits of the loop of `SM_average` are those of blocks of one
   float per bin; the imaginary and real parts are interleaved over two blocks, and
   at f0 bins 52 to 71 of the complex elements are never added (`spectralmatrices.c:90`).
6. `sm_compress`: `ASM_compress_divide_and_mask` never moves its input pointer, and
   its output matrices overlap (`spectralmatrices.c:217`).
7. `hk_escape`: the test of the escape errors compares the parity errors
   (`fsw_spacewire.c:737`).
8. `pas_overlap`: a perturbation that lies within a matrix and has an end in common with
   it counts as no overlap, against the comments of `isPolluted` and
   `acquisitionTimeIsValid` (`PAS_filtering.c:45`, `:30`, `:60`). `PollutedDropped` states
   what the filter does: such a matrix is the only overlap it lets through.

Facts met while modelling that have no run:

- LINK restarts SPIQ before SEND and RECV (`fsw_spacewire.c:415`); if an error
  is pending SPIQ suspends both again and LINK restarts them in the middle of
  the recovery. The recovery still ends well (`CommunicationRestored`).
- Without synchronization bit 31 makes SBM packets leave before their date
  (`fsw_processing.c:504`), hence "InSync" in `NoEarlyPacketInSync`.
- The answer to a telecommand of an unknown source has a number of GROUND's
  counter; the comment of `tm_lfr_tc_exe.c:389` says a dedicated one.
- A TC_LFR_ENTER_MODE is answered up to three times, as its refusal does not end it
  (see finding 1); `AnsweredOnce` excepts it.
- When SPIQ reads the statistics between the two calls HOUS reads and clears them
  with, the errors read are counted twice (`mixed` in `Housekeeping`).
- `increment_hk_counter` adds 255 where a byte has wrapped by 256 values: the
  counters of the severities lose one error at each wrap (`fsw_housekeeping.c:162`),
  which is what `ErrorsCounted` states.
- `spacewire_get_last_error` keeps the statistics of before they were cleared: the
  next call finds them changed, and names the same error again.
- A silence of several seconds is one missing timecode: the timer is not fired
  again until the next tick-out.
- The housekeeping packet encodes E2 twice, as E1 and as E2, at f3
  (`fsw_misc.c:218`), and `set_hk_lfr_ahb_correctable` is never called.
- HOUS changes the link state in the byte of the status word that has the mode
  (`fsw_spacewire.c:837`); SPIQ may force STANDBY in between, and the packet then tells the
  old mode until the next change.
- The loop of `setFBinMask` ends when a float is equal to the end of the range, which
  a NaN factor or a very large one prevents (`tc_load_dump_parameters.c:1391`).
- At f2, where a batch is one matrix, a restart that ends with the module in its
  second buffer hands over the node the module is filling, once.
- `interpolate_calibration_matrix` (`tc_load_dump_parameters.c:1848`) steps by
  one float where the matrices of two bins are 18 floats or more apart; loading the last
  coefficient overwrites what was loaded (`"overwritten"` in `Parameters`).
- A refused coefficient number goes on to a `memcpy` through a null pointer
  (`:1968`).
- The factors `sy_lfr_rw*_k*` are 0 in use until the first
  TC_LFR_LOAD_FILTER_PAR, while the dump says 1, 8, 24 and 48
  (`fsw_init.c:195`); the filter telecommand does not build the masks of the
  wheels again.
- A dump with a full SEND queue is answered and counted nowhere.
- If the clock is set between an f0 snapshot and its extraction, the ring is searched
  with dates of two clocks: the pointer may go round the whole ring, or stop at a buffer
  far from the one wanted (`wf_handler.c:933`). `SnapshotCut` speaks of the other snapshots (`sameClock`).

## 5. Fairness

`RestartSequenceEnds` (`mode_manager`) assumes weak fairness of `NewMatrix`: the
matrix module delivers each channel for ever once its interrupt is open.
`CommunicationRestored` and `DriverRestored` (`spw_link`) assume weak fairness of
SPIQ and of LINK: their sleeps end, the START call has a timeout, and RTEMS runs a
ready task; both have a higher priority than the tasks of the science.
`EverySnapshotResynched` and `NoSnapshotLost` (`components`) are action properties and need
no fairness. Nothing is assumed of the ground, the link or the other tasks.

## 6. Proofs

Every safety property the passing runs check is a theorem, and so is each of
their action properties: for every value of the constants under the named
assumptions of the modules, which TLC evaluates in the runs, and under the
hypotheses of the table below, which say how the program is sized. Each theorem
has an inductive invariant; what it adds to the property is what the code relies
on without saying so.

- `ModeManager_proofs`. None of the properties is inductive, since in the middle
  of a mode change the acquisition is that of no mode. The invariant says, for each
  call, what the calls made before it have left (`Stage`): which lines are masked,
  which modules are reset, which tasks of `todo` are still to be suspended or
  restarted, and that the last call leaves the acquisition of the mode entered (`Done`);
  `CallerInv` ties the call to who makes it and to the telecommand. Outside a change
  the acquisition is that of the mode (`Coherent`). `NoEventToSuspendedTask` then holds
  between any two calls. The refinement maps the abstract target to the mode being entered,
  and the abstract waveforms and matrices to what the open lines, the modules and the tasks that
  run really deliver; each
  call is a step of `ModeContract` or a stutter. The theorems on `TransitionDate`
  are here too: while synchronized the register and the stored date
  compare as dates do, and a date accepted is at most `MaxDelta` ahead, plus what the
  loads have set back since.
- `SpaceWire_proofs`. *Link*: while LINK polls or starts the driver SPIQ
  is suspended; while SPIQ is suspended LINK works or has its event. Both need the
  places of the two tasks where the event is consumed. *Telecommands*
  (`OneAnswer`): those done, those in the queue of ACTN and the one RECV has in hands
  follow each other; a number in hands is above those used, since RECV reads,
  sends and increments while ACTN waits. *Timecodes* (`AnomaliesSeen`): what the routine
  and the timer each know of the last timecode while the other has not
  spoken yet. *Error counters* (`ErrorsRight`): where the errors of a kind are, in the
  driver, in the statistics and in the copies HOUS and SPIQ are about to add; less
  than `Byte` of them come between two packets, even if SPIQ makes HOUS count some
  twice; and the counters of the severities come from numbers the packet has
  told, which the proof keeps as an existential. A sum over a set is a fold: the lemmas
  on sums replace the induction on finite sets by the absence of a least number of
  elements for which a statement fails (`LeastNatural`, from the well-foundedness
  of the naturals).
- `WaveformRing_proofs`. The distance on the ring from a node that bears
  acquisition `a` to the node being written is `filled + 1 - a`; with
  `RingSize >= 3` and `1 <= Lag <= RingSize - 2` no node waiting for SEND is the
  one written. `InTimeNext` proves `InTimeNextBuffer` of the specification of the
  run, with its histories; `NextOnly` says it without them, under the assumptions
  that CWF is in time and that no event survives a restart (`TaskMayLag = FALSE`,
  `KeptByRestart = {FALSE}`).
- `SpectralRing_proofs`. The node to average is set whenever an event sent since the
  restart is pending, so AVF follows the NULL pointer of a restart only for an event of
  before (`NullOnlyIfStale`), and never if the restart clears the events (`NeverNull`). For
  `MatricesAveragedOnce` the invariant says where the nodes are: those of the batch in
  progress, and those of the batch AVF has in hands, are the ones before the current node, as
  far back as there are matrices, and with a roomy ring the two nodes the module has are
  apart from them.
- `Averaging_proofs`. The five counters go in step: the count of BP1 is the count
  of BP2 and of ASM modulo the period of BP1, for periods that are multiples (what
  `ParametersConsistent` proves of the parameters). Then `SumInv`: a node of a ring
  holds the batches since the last period, a sum that waits for PRC is as far behind the
  current node as whole periods have ended since, and PRC has gathered the
  sums of one period; hence `NormalWhole`, `SbmBp1Whole` and `SbmBp2Whole`.
- `Snapshots_proofs`. *Assembly*: the age of the snapshot in flight bounds the stage
  of its f1 and f2 parts, which are flags and pending events (`InFlight`,
  `Sending`, `Sent`). A snapshot that comes too soon finds the one before it
  sent, or ready up to one flag, and its ready flags then stay for one or two buffers of f1
  (`LeftReady`): the invariant says when they are gone, and so the next snapshot that
  is in time finds nothing left. After a stop at any point SWBD may raise one flag, which
  no task takes for one of the next acquisition (`Away`). *Extraction*: an f0 snapshot is asked for in the
  buffer written while it began (`AskedInTime`), a buffer of the ring holds the
  dates of its number until the ring has gone round, so that the search ends in the
  buffer of the first sample, and the two copies take the samples that follow
  (`SearchDone`); hence `ExtractionRight`, and `SnapshotDated` adds that
  the dates are those of one clock as long as the clock has not been set: only
  TC_LFR_UPDATE_TIME can make a snapshot be cut elsewhere. `TypesCorrect` composes the
  type theorems of the eleven components of `MCComponents`.
- `Parameters_proofs`. A step keeps each group or stores one that passed its
  checks (`NormStep`, `PairStep`), and what passes is good (`AcceptedNorm`,
  `AcceptedPair`). For the dump: a group is refused in the modes that use it, and
  a mode is entered with AVF about to read it. `RejectionLoadsNothing`: a step is a
  refusal or its telecommand is not rejected.
- `SpectralMatrix_proofs`. For any number of bins and any kept bins, the input
  pointer is where the layout has the element `(line, column)` of the bin, the output
  pointer where the triangle has it, and the elements before it are copied; hence
  `BinsInPlace`. The lemmas on `Offset` are the sums the strides add up to. The two
  filters are here too. *PAS*: a matrix meets the perturbation of one of the three periods
  around its middle or of none at all, because it is no longer than a second and a
  period no shorter than 4. *Wheels*: the bins a wheel removes are those nearer than
  1.285 bins to its range, as the four samples of a range a bin long leave no gap, and the byte and bit of a bin
  are those of no other.

| Hypothesis | Theorems | What the code has |
|---|---|---|
| `NoWrap`: `3 * MaxPackets <= SeqCntMax` | `OneAnswer` | numbers to 16383: 5461 telecommands before a number may come back, of up to three answers each |
| `2 * Burst < Byte` | `ErrorsRight` | 256: fewer than 128 errors of a kind from a packet to the next. With 256 or more a counter of one byte cannot tell them |
| `RoomyRing`: `RingSize >= Batch + Lag + 1`, and `Batch >= 2` if a restart may find the module anywhere (`StartsAnywhere`) | `MatricesAveragedOnce` | f0: 20 nodes, batches of 8, so up to 11 matrices late; f1: 12, so 3; f2: 5 nodes, batches of 1, restarts that find the sequence at its beginning |
| `0 \notin Channels` | `SbmBp1Whole` | f1 and f2: at f0 it is false, finding 2 |
| `LegalPeriods`: `SnapshotPeriod - MaxShortening >= 2 * F2Slots` | `SentTogether`, `EachSnapshotSent`, `EachSnapshotResynched` | every period the code accepts: 22 s (`MIN_SY_LFR_N_SWF_P`) are 67 slots, a correction takes 3 off at most, and two buffers of f2 are 64 |
| `KeptByRestart = {FALSE}` | `NeverNull` | an assumption on RTEMS, see section 8; the run does not make it |
| `ExtractionNumbers`: the first sample comes within a buffer of the f0 date and after the launch; the ring has `CutLag + 4` nodes | `ExtractionRight`, `SnapshotDated` | `DELTAT_F0` less `DELTAT_F1` or `DELTAT_F2`: 20821 of 43008 ticks at f1, 266581 of 688128 at f2; 5 nodes, the ring that one buffer of delay needs |
| `LongF1Period`: `CutLag + 3` buffers of f1 between two snapshots | `SnapshotDated` | 32 buffers or more |
| `PasAssumption` | `PasFilterRight` | a matrix of 1 s at most (`ACQUISITION_DURATION_F2`), dates of 48 bits in words of 64 |

## 7. Only model-checked

Liveness (`RestartSequenceEnds`, `CommunicationRestored`, `DriverRestored`),
which the prover does not do, and the properties that runs find violated. TLC also
checks the theorems: the instances of section 4 are those where their hypotheses
hold with little to spare.

## 8. Not modelled, and what is assumed of the outside

The values of the matrices, their calibration and the basic parameters library,
which are floating point; register accesses, caches, scrubbing, watchdog, CPU usage and
printing, which have no state of their own; the averages of AVGV, the temperatures
and the queue sizes of the housekeeping packet, which are sums and register reads; the contents and
headers of the packets; the CRC, a bit of a packet in `TcAcceptance`; the
calibration signal: two telecommands that start and stop a task writing a DAC, and whose
sweep depends on when the picker delivers its first f0 snapshot, which the source does
not say.

Assumed of the hardware and of RTEMS:

- priorities are respected, and tasks created with `RTEMS_NO_PREEMPT` are not
  preempted by others;
- a waiting node goes out, and a task runs, within `Lag` buffers; the interrupt
  of the matrices is at most `IsrLag` matrices late. The rings are the only
  protection, and these are the bounds they are sized for;
- a restart of the matrices finds its sequence at the beginning
  (`SpectralRing`): two mode changes within a second could find it elsewhere
  (`fsw_processing.c:301`);
- whether `rtems_task_restart` keeps the pending events of the task is left
  open in every run and in `MatricesAveragedOnce`, `NullOnlyIfStale`, `SentTogether`,
  `EachSnapshotSent` and `EachSnapshotResynched`; only `NextOnly` and `NeverNull` assume it
  does not;
- the tasks of the snapshots end their work within a slot, 0.33 s. A stop that kills
  WFRM between the three packets of a transmission, or a task in the middle of a copy, is
  not modelled: the packets are then missing, or a buffer half written that no flag
  announces;
- the floating-point fields of a telecommand are numbers: a NaN is not smaller
  than any limit and passes the tests.
