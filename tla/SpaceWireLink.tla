---------------------------- MODULE SpaceWireLink ----------------------------
(***************************************************************************)
(* Recovery of the SpaceWire link: the SPIQ task, woken by the driver on a *)
(* link error, and the LINK task, which SPIQ calls when it gives up.  Both *)
(* stop and start the driver, and both suspend or restart RECV and SEND.   *)
(*                                                                         *)
(* SPIQ has the highest priority: LINK takes no step while SPIQ is ready.  *)
(* It does while SPIQ sleeps or is blocked in the START call.              *)
(***************************************************************************)
EXTENDS Naturals

CONSTANTS
  ConnectAttempts,  \* SY_LFR_DPU_CONNECT_ATTEMPT
  PostedStopped,    \* may the driver report an error while it is stopped?
  KeptByRestart     \* may an event survive the restart of its task?

ASSUME AttemptsAssumption == ConnectAttempts \in Nat \ {0}
\* The answers of the driver and of RTEMS, neither of which is in src/.
ASSUME OutcomeAssumption == /\ PostedStopped \in (SUBSET BOOLEAN) \ {{}}
                            /\ KeptByRestart \in (SUBSET BOOLEAN) \ {{}}

VARIABLES
  linkUp,     \* what GET_LINK_STATUS sees: is the link in run state?
  running,    \* the driver is started
  errorEvent, \* SPW_LINKERR_EVENT pending for SPIQ
  linkEvent,  \* RTEMS_EVENT_0 pending for LINK
  spiq,       \* where SPIQ is
  attempt,    \* i of spacewire_several_connect_attemps
  link,       \* where LINK is
  suspended   \* those of RECV and SEND that are suspended

vars == <<linkUp, running, errorEvent, linkEvent, spiq, attempt, link, suspended>>

Comm == {"RECV", "SEND"}

\* "delay" and "pause" are the sleeps before the recheck and before an
\* attempt; "restarting" and "connecting" the START calls of cases [2.b] and
\* [2.a].
SpiqStates == {"wait", "delay", "recheck", "restarting", "pause", "connecting",
               "suspended"}

\* "starting" is the START call; SPIQ may run between the three restarts.
LinkStates == {"wait", "poll", "starting", "restartSend", "restartRecv"}

FlagsOK == /\ linkUp \in BOOLEAN /\ running \in BOOLEAN
           /\ errorEvent \in BOOLEAN /\ linkEvent \in BOOLEAN

TypeOK ==
  /\ FlagsOK
  /\ spiq \in SpiqStates
  /\ attempt \in 0 .. ConnectAttempts
  /\ link \in LinkStates
  /\ suspended \in SUBSET Comm

\* Init starts the tasks, and wakes SPIQ if the first START failed.
Init ==
  /\ linkUp \in BOOLEAN
  /\ running = linkUp
  /\ errorEvent = ~linkUp
  /\ linkEvent = FALSE
  /\ spiq = "wait" /\ attempt = 0
  /\ link = "wait"
  /\ suspended = {}

-----------------------------------------------------------------------------
(* The link itself *)

LinkFails ==
  /\ linkUp
  /\ linkUp' = FALSE
  /\ \E posted \in IF running THEN {TRUE} ELSE PostedStopped :
       errorEvent' = (errorEvent \/ posted)
  /\ UNCHANGED <<running, linkEvent, spiq, attempt, link, suspended>>

LinkComesUp ==
  /\ ~linkUp
  /\ linkUp' = TRUE
  /\ UNCHANGED <<running, errorEvent, linkEvent, spiq, attempt, link, suspended>>

-----------------------------------------------------------------------------
(* SPIQ *)

\* mutant: RECV and SEND are suspended, then nothing is done if the link is up
SpiqIgnoresLinkUp ==
  /\ spiq = "wait" /\ errorEvent
  /\ errorEvent' = FALSE
  /\ suspended' = Comm
  /\ spiq' = IF linkUp THEN "wait" ELSE "delay"
  /\ UNCHANGED <<linkUp, running, linkEvent, attempt, link>>

\* [0] suspend RECV and SEND, [1] check the link
SpiqWakes ==
  /\ spiq = "wait" /\ errorEvent
  /\ errorEvent' = FALSE
  /\ suspended' = Comm
  /\ spiq' = IF linkUp THEN "recheck" ELSE "delay"
  /\ UNCHANGED <<linkUp, running, linkEvent, attempt, link>>

SpiqDelayEnds ==
  /\ spiq = "delay"
  /\ spiq' = "recheck"
  /\ UNCHANGED <<linkUp, running, errorEvent, linkEvent, attempt, link, suspended>>

\* [2] recheck; STOP precedes START, so the driver stops in case [2.b]
SpiqRechecks ==
  /\ spiq = "recheck"
  /\ IF linkUp
     THEN spiq' = "restarting" /\ running' = FALSE /\ UNCHANGED attempt
     ELSE spiq' = "pause" /\ attempt' = 0 /\ UNCHANGED running
  /\ UNCHANGED <<linkUp, errorEvent, linkEvent, link, suspended>>

SpiqPauseEnds ==
  /\ spiq = "pause"
  /\ spiq' = "connecting"
  /\ running' = FALSE
  /\ UNCHANGED <<linkUp, errorEvent, linkEvent, attempt, link, suspended>>

\* [3.a] the driver is started: restart SEND and RECV
Recovered ==
  /\ linkUp
  /\ running' = TRUE
  /\ suspended' = {}
  /\ spiq' = "wait"
  /\ UNCHANGED linkEvent

\* mutant: the LINK task is not woken
GivesUpSilently ==
  /\ ~linkUp
  /\ spiq' = "suspended"
  /\ UNCHANGED <<running, suspended, linkEvent>>

\* [3.b] go to STANDBY (ForceStandby of ModeManager), wake LINK, suspend SELF
GivesUp ==
  /\ ~linkUp
  /\ linkEvent' = TRUE
  /\ spiq' = "suspended"
  /\ UNCHANGED <<running, suspended>>

SpiqRestarted ==
  /\ spiq = "restarting"
  /\ Recovered \/ GivesUp
  /\ UNCHANGED <<linkUp, errorEvent, attempt, link>>

\* mutant: the attempt counter has no bound
SpiqTriesForever ==
  /\ spiq = "connecting"
  /\ \/ Recovered /\ attempt' = ConnectAttempts
     \/ /\ ~linkUp
        /\ attempt' = attempt + 1
        /\ spiq' = "pause"
        /\ UNCHANGED <<running, suspended, linkEvent>>
  /\ UNCHANGED <<linkUp, errorEvent, link>>

\* The body of the loop of spacewire_several_connect_attemps, after START.
SpiqConnected ==
  /\ spiq = "connecting"
  /\ \/ Recovered /\ attempt' = ConnectAttempts
     \/ /\ ~linkUp
        /\ attempt' = attempt + 1
        /\ attempt + 1 < ConnectAttempts
        /\ spiq' = "pause"
        /\ UNCHANGED <<running, suspended, linkEvent>>
     \/ /\ attempt' = attempt + 1
        /\ attempt + 1 = ConnectAttempts
        /\ GivesUp
  /\ UNCHANGED <<linkUp, errorEvent, link>>

Spiq == \/ SpiqWakes \/ SpiqDelayEnds \/ SpiqRechecks \/ SpiqPauseEnds
        \/ SpiqRestarted \/ SpiqConnected

\* A ready SPIQ runs before anything else.
SpiqReady == (spiq = "wait" /\ errorEvent) \/ spiq = "recheck"

-----------------------------------------------------------------------------
(* LINK *)

\* STOP, then the START call
LinkSeesStatus ==
  IF linkUp THEN link' = "starting" /\ running' = FALSE
            ELSE link' = "poll" /\ UNCHANGED running

LinkWakes ==
  /\ ~SpiqReady
  /\ link = "wait" /\ linkEvent
  /\ linkEvent' = FALSE
  /\ LinkSeesStatus
  /\ UNCHANGED <<linkUp, errorEvent, spiq, attempt, suspended>>

\* mutant: SPIQ is restarted before the driver, as soon as the link is seen up
LinkRestartsSpiqFirst ==
  /\ ~SpiqReady
  /\ link = "poll"
  /\ LinkSeesStatus
  /\ spiq' = IF linkUp THEN "wait" ELSE spiq
  /\ UNCHANGED <<linkUp, errorEvent, linkEvent, attempt, suspended>>

\* Every SPW_LINK_WAIT
LinkPolls ==
  /\ ~SpiqReady
  /\ link = "poll"
  /\ LinkSeesStatus
  /\ UNCHANGED <<linkUp, errorEvent, linkEvent, spiq, attempt, suspended>>

\* mutant: LINK gives up when START fails
LinkChecksStart ==
  /\ ~SpiqReady
  /\ link = "starting"
  /\ running' = linkUp
  /\ link' = IF linkUp THEN "restartSend" ELSE "wait"
  /\ spiq' = IF linkUp THEN "wait" ELSE spiq
  /\ UNCHANGED <<linkUp, errorEvent, linkEvent, attempt, suspended>>

\* The START call ends, its status is not looked at, SPIQ is restarted.
LinkStarted ==
  /\ ~SpiqReady
  /\ link = "starting"
  /\ running' = linkUp
  /\ spiq' = "wait"
  /\ \E kept \in KeptByRestart : errorEvent' = (errorEvent /\ kept)
  /\ link' = "restartSend"
  /\ UNCHANGED <<linkUp, linkEvent, attempt, suspended>>

LinkRestartsSend ==
  /\ ~SpiqReady
  /\ link = "restartSend"
  /\ suspended' = suspended \ {"SEND"}
  /\ link' = "restartRecv"
  /\ UNCHANGED <<linkUp, running, errorEvent, linkEvent, spiq, attempt>>

LinkRestartsRecv ==
  /\ ~SpiqReady
  /\ link = "restartRecv"
  /\ suspended' = suspended \ {"RECV"}
  /\ link' = "wait"
  /\ UNCHANGED <<linkUp, running, errorEvent, linkEvent, spiq, attempt>>

LinkTask == \/ LinkWakes \/ LinkPolls \/ LinkStarted \/ LinkRestartsSend
            \/ LinkRestartsRecv

Next == LinkFails \/ LinkComesUp \/ Spiq \/ LinkTask

\* Sleeps end, the START call has a timeout, and RTEMS runs ready tasks.
Fairness == WF_vars(Spiq) /\ WF_vars(LinkTask)

Spec == Init /\ [][Next]_vars
FairSpec == Spec /\ Fairness

-----------------------------------------------------------------------------
(* Properties *)

\* Someone is always in charge of a link that is down for good: while SPIQ is
\* suspended, LINK is waiting for the link or has the event that wakes it; and
\* RECV or SEND are suspended only while SPIQ or LINK is on its way to restart
\* them (fsw_spacewire.c, spiq_task and link_task).
RecoveryNeverLost ==
  /\ spiq = "suspended" => linkEvent \/ link \in {"poll", "starting"}
  /\ suspended # {} => spiq # "wait" \/ link \in {"restartSend", "restartRecv"}

\* SPIQ and LINK never stop and start the driver at the same time, and LINK
\* restarts SPIQ only from the place where SPIQ suspended itself.
OneDriverOwner ==
  link \in {"poll", "starting"} => spiq = "suspended"

\* Once the link stays up, RECV and SEND run again, whatever the driver and
\* RTEMS do with events in the meantime.
CommunicationRestored ==
  <>[]linkUp => <>[](suspended = {} /\ spiq = "wait")
=============================================================================
