--------------------------- MODULE MCWaveformRing ---------------------------
(* Model checking of WaveformRing with a ring of 4 nodes (f3 has 3, f1 and   *)
(* f2 have 5).                                                               *)
EXTENDS WaveformRing

\* RTEMS may keep an event across a restart or not.
Either == BOOLEAN

\* History: so far CWF has read each buffer before the next one was full, and
\* no event has survived the restart of its task.
VARIABLE timely

TimelyInit == WfInit /\ timely = TRUE

CwfIsLate   == filled' # filled /\ (event \/ cwf = "ready")
EventIsKept == picker # picker' /\ picker' /\ event'

TimelyNext == WfNext /\ timely' = (timely /\ ~CwfIsLate /\ ~EventIsKept)

TimelySpec == TimelyInit /\ [][TimelyNext]_<<wfVars, timely>>

\* As long as CWF is in time, and starts with no event of a mode before, the
\* pointer it reads is that of the first buffer it has not read: none is
\* skipped, none is sent twice (waveforms_isr, getRingNodeToSendCWF).
InTimeNextBuffer == timely => NextBufferOnly
=============================================================================
