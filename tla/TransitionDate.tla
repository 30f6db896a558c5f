--------------------------- MODULE TransitionDate ---------------------------
(***************************************************************************)
(* The date of a transition to SBM1 or SBM2.  TC_LFR_ENTER_MODE carries a  *)
(* date, 0 meaning at once, and the SBM packets are dropped before it.     *)
(* The register of the local time holds one bit more than a date, set      *)
(* while LFR is not synchronized with the spacecraft.                      *)
(***************************************************************************)
EXTENDS Integers

CONSTANTS
  SyncBit,     \* VAL_LFR_SYNCHRONIZED; dates are smaller
  MaxDelta,    \* MAX_DELTA_COARSE_TIME
  MaxSetBack   \* bound: the seconds by which the time of a synchronized LFR
               \* is set back in all, between two telecommands

ASSUME SyncBitAssumption == SyncBit \in Nat \ {0}
ASSUME DeltaAssumption == MaxDelta \in Nat \ {0}
ASSUME SetBackAssumption == MaxSetBack \in Nat

VARIABLES
  seconds,    \* the register time_management_regs->coarse_time without ...
  notSynced,  \* ... its synchronization bit
  sbmMode,    \* lfrCurrentMode: "SBM" or one where nothing is dropped
  lastValidEnterModeTime,
  requested,  \* history: the date in the last TC executed
  accepted,   \* history: check_transition_date agreed to it
  steady,     \* history: synchronized without interruption since then
  setBack,    \* history: the seconds by which the time was set back since then
  lastSent    \* history: when the last SBM packet was queued, -1: none yet

dateVars == <<seconds, notSynced, sbmMode, lastValidEnterModeTime, requested,
          accepted, steady, setBack, lastSent>>

\* bound: the local time does not wrap, in the program after 68 years
Date == 0 .. SyncBit - 1

coarse_time == IF notSynced THEN seconds + SyncBit ELSE seconds

FlagsOK == notSynced \in BOOLEAN /\ accepted \in BOOLEAN /\ steady \in BOOLEAN

DateTypeOK ==
  /\ FlagsOK
  /\ seconds \in Date
  /\ sbmMode \in {"NORMAL", "SBM"}
  /\ lastValidEnterModeTime \in 0 .. 2 * SyncBit
  /\ requested \in Date
  /\ setBack \in 0 .. MaxSetBack
  /\ lastSent \in {-1} \cup Date

DateInit ==
  /\ seconds = 0 /\ notSynced \in BOOLEAN
  /\ sbmMode = "NORMAL"
  /\ lastValidEnterModeTime = 0
  /\ requested = 0 /\ accepted = FALSE /\ steady = FALSE /\ setBack = 0
  /\ lastSent = -1

-----------------------------------------------------------------------------
(* The local time, kept by the time management module *)

Tick ==
  /\ seconds + 1 \in Date
  /\ seconds' = seconds + 1
  /\ UNCHANGED <<notSynced, sbmMode, lastValidEnterModeTime, requested, accepted, steady, setBack, lastSent>>

\* The synchronization is lost, or found.
SynchronizationChanges ==
  /\ notSynced' = ~notSynced
  /\ steady' = FALSE
  /\ setBack' = 0
  /\ UNCHANGED <<seconds, sbmMode, lastValidEnterModeTime, requested, accepted, lastSent>>

\* action_update_time loads the time of a TC_LFR_UPDATE_TIME, synchronized or
\* not; the module takes it at a timecode, which may bring the synchronization.
LoadTime ==
  /\ seconds' \in Date
  /\ notSynced' \in {notSynced, FALSE}
  /\ setBack' = IF steady /\ seconds' < seconds THEN setBack + seconds - seconds' ELSE setBack
  /\ setBack' <= MaxSetBack
  /\ UNCHANGED <<sbmMode, lastValidEnterModeTime, requested, accepted, steady, lastSent>>

-----------------------------------------------------------------------------
(* ACTN *)

check_transition_date(date) ==
  \/ date = 0
  \/ date > seconds /\ date - seconds <= MaxDelta

\* mutant: 0 is a date like the others, the last second before it being over
no_instant_transition(date) == date - 1

\* mutant: an instant transition keeps the date of the last one
instant_keeps_date(date) == IF date = 0 THEN lastValidEnterModeTime ELSE date

update_last_valid_transition_date(date) ==
  IF date = 0 THEN coarse_time + 1 ELSE date

\* A TC whose date is refused is executed as well, when the refusal is queued
\* (RefusedTcNotExecuted in ModeManager); otherwise nothing happens.
EnterSbm ==
  \E date \in Date :
    /\ sbmMode' = "SBM"
    /\ lastValidEnterModeTime' = update_last_valid_transition_date(date)
    /\ requested' = date
    /\ accepted' = check_transition_date(date)
    /\ steady' = ~notSynced
    /\ setBack' = 0
    /\ lastSent' = -1
    /\ UNCHANGED <<seconds, notSynced>>

LeaveSbm ==
  /\ sbmMode = "SBM"
  /\ sbmMode' = "NORMAL"
  /\ UNCHANGED <<seconds, notSynced, lastValidEnterModeTime, requested, accepted, steady, setBack, lastSent>>

-----------------------------------------------------------------------------
(* The tasks that send SBM packets *)

\* mutant: the packet is sent as soon as it is ready
SendAtOnce ==
  /\ sbmMode = "SBM"
  /\ lastSent' = seconds
  /\ UNCHANGED <<seconds, notSynced, sbmMode, lastValidEnterModeTime, requested, accepted, steady, setBack>>

\* BP_send_s1_s2, and the same test in cwf1_task and cwf2_task
Send ==
  /\ sbmMode = "SBM"
  /\ coarse_time >= lastValidEnterModeTime
  /\ lastSent' = seconds
  /\ UNCHANGED <<seconds, notSynced, sbmMode, lastValidEnterModeTime, requested, accepted, steady, setBack>>

DateNext == Tick \/ SynchronizationChanges \/ LoadTime \/ EnterSbm \/ LeaveSbm \/ Send

DateSpec == DateInit /\ [][DateNext]_dateVars

-----------------------------------------------------------------------------
(* Properties *)

\* "this guarantees that no SBM packets will be received before the requested
\* enter mode time" (BP_send_s1_s2).
NoEarlyPacket == lastSent # -1 => lastSent >= requested

\* The same, while LFR stays synchronized, whatever came before.
NoEarlyPacketInSync == steady => NoEarlyPacket

\* While LFR stays synchronized, the packets asked for by a TC whose date is
\* accepted start within MaxDelta, longer only by what the loads of
\* action_update_time set the time back meanwhile (check_transition_date,
\* BP_send_s1_s2).
StartsSoon ==
  steady /\ accepted => lastValidEnterModeTime <= coarse_time + MaxDelta + setBack

\* "transition time = 0 means an instant transition" (check_transition_date):
\* the packets are sent from the next second on.
InstantTransition ==
  sbmMode = "SBM" /\ requested = 0 => lastValidEnterModeTime <= coarse_time + 1
=============================================================================
