--------------------------- MODULE MCSpaceWireLink ---------------------------
(* Model checking of SpaceWireLink with the program's three attempts.       *)
EXTENDS SpaceWireLink

\* The driver and RTEMS may do either.
Either == BOOLEAN

\* History: so far the driver has reported every error, and RTEMS has kept the
\* event pending for SPIQ when LINK restarted it.
VARIABLE reliable

MCInit == Init /\ reliable = TRUE

NotReported == linkUp /\ ~linkUp' /\ ~errorEvent'
EventIsLost == link = "starting" /\ link' = "restartSend" /\ errorEvent /\ ~errorEvent'

MCNext == Next /\ reliable' = (reliable /\ ~NotReported /\ ~EventIsLost)

MCSpec == MCInit /\ [][MCNext]_<<vars, reliable>> /\ Fairness

\* If no error goes unnoticed and the link stays up in the end, the driver is
\* started in the end, although LINK does not look at the status of START
\* (link_task, spiq_task).
DriverRestored == [](reliable) /\ <>[]linkUp => <>[]running
=============================================================================
