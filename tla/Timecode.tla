------------------------------- MODULE Timecode -------------------------------
(***************************************************************************)
(* The supervision of the SpaceWire timecodes, one per second, by the      *)
(* routine the driver calls on a tick-out and by a timer that each         *)
(* tick-out fires again.                                                   *)
(***************************************************************************)
EXTENDS Integers

CONSTANT SPW_TIMECODE_MAX  \* 63

ASSUME TimecodeAssumption == SPW_TIMECODE_MAX \in Nat

Timecodes == 0 .. SPW_TIMECODE_MAX

VARIABLES
  ctr,                   \* timecode register of the SpaceWire core
  previousTimecodeCtr,
  firstTickout,
  timer,                 \* seconds without tick-out before the timer expires;
                         \* 0: not fired
  oneTcLfrUpdateTimeReceived,
  slot,                  \* of the second: "timecode" comes, "timer" may expire
  ticked,                \* a tick-out was raised in this second
  anomaly,               \* history: a timecode was missing or not the
                         \* successor of the last one, since the last tick-out
  reported,              \* counters increased since the last tick-out
  interval               \* history: both, for the interval between the last
                         \* two tick-outs

timecodeVars == <<ctr, previousTimecodeCtr, firstTickout, timer, slot, ticked,
                  oneTcLfrUpdateTimeReceived, anomaly, reported, interval>>

Quiet == [anomaly |-> FALSE, reported |-> {}]

\* TIMECODE_TIMER_TIMEOUT_INIT is 2.0 s
TimecodeInit ==
  /\ ctr = 0 /\ previousTimecodeCtr = 0 /\ firstTickout = TRUE
  /\ timer = 2 /\ oneTcLfrUpdateTimeReceived = FALSE
  /\ slot = "timecode" /\ ticked = FALSE
  /\ anomaly = FALSE /\ reported = {} /\ interval = Quiet

Successor(t) == IF t = SPW_TIMECODE_MAX THEN 0 ELSE t + 1

\* check_timecode_and_previous_timecode_coherency
Coherent(t) == firstTickout \/ t = Successor(previousTimecodeCtr)

\* What timecode_irq_handler counts; it and load are the six low bits of the
\* time and of the time loaded by TC_LFR_UPDATE_TIME.
Found(t, it, load) ==
  (IF Coherent(t) THEN {} ELSE {"timecode_erroneous"})
    \cup (IF t = it THEN {} ELSE {"time_timecode_it"})
    \cup (IF oneTcLfrUpdateTimeReceived /\ t # load THEN {"time_timecode_ctr"} ELSE {})

\* mutant: the last timecode is not kept
HandlerForgets(t) ==
  \E it, load \in Timecodes :
    /\ interval' = IF firstTickout THEN Quiet ELSE
         [anomaly |-> anomaly \/ t # Successor(ctr),
          reported |-> reported \cup Found(t, it, load)]
    /\ anomaly' = FALSE /\ reported' = {} /\ ticked' = TRUE
    /\ firstTickout' = FALSE /\ timer' = 1
    /\ UNCHANGED previousTimecodeCtr

\* TIMECODE_TIMER_TIMEOUT is 1.2 s: after the timecode of the next second
timecode_irq_handler(t) ==
  \E it, load \in Timecodes :
    /\ interval' = IF firstTickout THEN Quiet ELSE
         [anomaly |-> anomaly \/ t # Successor(ctr),
          reported |-> reported \cup Found(t, it, load)]
    /\ anomaly' = FALSE /\ reported' = {} /\ ticked' = TRUE
    /\ firstTickout' = FALSE /\ previousTimecodeCtr' = t /\ timer' = 1

\* The core raises a tick-out for the successor of its register only; "a
\* tickout could have been raised despite of the timecode being erroneous".
TimecodeArrives ==
  /\ slot = "timecode" /\ slot' = "timer"
  /\ \E t \in Timecodes :
       /\ ctr' = t
       /\ \/ timecode_irq_handler(t)
          \/ /\ t # Successor(ctr)
             /\ anomaly' = TRUE /\ ticked' = FALSE
             /\ UNCHANGED <<previousTimecodeCtr, firstTickout, timer, reported, interval>>
  /\ UNCHANGED oneTcLfrUpdateTimeReceived

NoTimecode ==
  /\ slot = "timecode" /\ slot' = "timer"
  /\ anomaly' = TRUE /\ ticked' = FALSE
  /\ UNCHANGED <<ctr, previousTimecodeCtr, firstTickout, timer, reported, interval,
                 oneTcLfrUpdateTimeReceived>>

\* timecode_timer_routine; the successor of SPW_TIMECODE_MAX is not 0 there.
TimerRoutine ==
  reported' = reported \cup
    (IF ctr = previousTimecodeCtr THEN {"timecode_missing"}
     ELSE IF ctr = previousTimecodeCtr + 1 THEN {}
     ELSE {"timecode_invalid"})

EndOfSecond ==
  /\ slot = "timer" /\ slot' = "timecode"
  /\ IF ticked \/ timer = 0 THEN UNCHANGED <<timer, reported>>
     ELSE /\ timer' = timer - 1
          /\ IF timer = 1 THEN TimerRoutine ELSE UNCHANGED reported
  /\ UNCHANGED <<ctr, previousTimecodeCtr, firstTickout, ticked, anomaly, interval,
                 oneTcLfrUpdateTimeReceived>>

\* action_update_time
UpdateTime ==
  /\ oneTcLfrUpdateTimeReceived' = TRUE
  /\ UNCHANGED <<ctr, previousTimecodeCtr, firstTickout, timer, slot, ticked,
                 anomaly, reported, interval>>

TimecodeNext == TimecodeArrives \/ NoTimecode \/ EndOfSecond \/ UpdateTime

TimecodeSpec == TimecodeInit /\ [][TimecodeNext]_timecodeVars

-----------------------------------------------------------------------------
(* Property *)

\* Between two tick-outs, the counters of the timecodes have increased exactly
\* if a timecode was missing or wrong: the routine and the timer, each with
\* its idea of the last timecode, let nothing through and suspect nothing
\* (timecode_irq_handler, timecode_timer_routine).
TimecodeAnomaliesSeen ==
  interval.anomaly <=>
    interval.reported \cap {"timecode_erroneous", "timecode_missing", "timecode_invalid"} # {}
=============================================================================
