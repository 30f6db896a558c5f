---------------------------- MODULE ModeContract ----------------------------
(***************************************************************************)
(* What a mode change of LFR promises to the ground, whoever asks for it:  *)
(* the mode in which LFR says it is, the one it is entering if any, and    *)
(* the science it produces.  A change takes time: the science of the mode  *)
(* left stops, that of the mode entered starts, then the mode is reported. *)
(* At no time do the waveforms of one mode go with the matrices of         *)
(* another, but for the three modes that share one picker configuration.   *)
(* ModeManager is the program that has to do it with ten tasks, two        *)
(* interrupt lines and two hardware modules.                               *)
(*                                                                         *)
(* A mode byte that is none of the five modes is part of the contract too, *)
(* because the program lets it in: it becomes the mode, nothing else       *)
(* changes, and only STANDBY and BURST are then reachable.                 *)
(***************************************************************************)

VARIABLES mode,      \* the mode LFR reports
          target,    \* the mode being entered, or "none"
          waveforms, \* waveform channels delivered: "off", "shared", "burst"
          matrices   \* mode whose spectral products are computed, or "none"

contractVars == <<mode, target, waveforms, matrices>>

Modes == {"STANDBY", "NORMAL", "BURST", "SBM1", "SBM2"}

InvalidMode == "INVALID"

\* The modes that share one waveform picker configuration.
SharedModes == {"NORMAL", "SBM1", "SBM2"}

WaveformsOf(m) == IF m \in SharedModes THEN "shared"
                  ELSE IF m = "BURST" THEN "burst" ELSE "off"

MatricesOf(m) == IF m = "STANDBY" THEN "none" ELSE m

\* The waveforms go on through the change.
WaveformsKept == mode \in SharedModes /\ target \in SharedModes

Init == /\ mode = "STANDBY"
        /\ target = "none"
        /\ waveforms = "off"
        /\ matrices = "none"

\* A telecommand, or the loss of the SpaceWire link, asks for mode m.
Begin(m) == /\ target = "none"
            /\ m \in SharedModes => mode \notin {m, InvalidMode}
            /\ target' = m
            /\ UNCHANGED <<mode, waveforms, matrices>>

StopWaveforms == /\ target # "none" /\ ~WaveformsKept
                 /\ waveforms' = "off"
                 /\ UNCHANGED <<mode, target, matrices>>

StopMatrices == /\ target # "none"
                /\ matrices' = "none"
                /\ UNCHANGED <<mode, target, waveforms>>

\* The matrices of a mode start once those of the mode left are stopped, and
\* its waveforms too when they do not go on.
StartMatrices == /\ target # "none"
                 /\ matrices = "none"
                 /\ WaveformsKept \/ waveforms = "off"
                 /\ matrices' = MatricesOf(target)
                 /\ UNCHANGED <<mode, target, waveforms>>

StartWaveforms == /\ target # "none"
                  /\ waveforms = "off"
                  /\ matrices = MatricesOf(target)
                  /\ waveforms' = WaveformsOf(target)
                  /\ UNCHANGED <<mode, target, matrices>>

\* The mode is reported with its science running.
Report == /\ target # "none"
          /\ waveforms = WaveformsOf(target)
          /\ matrices = MatricesOf(target)
          /\ mode' = target
          /\ target' = "none"
          /\ UNCHANGED <<waveforms, matrices>>

EnterUnknown == /\ target = "none"
                /\ mode' = InvalidMode
                /\ UNCHANGED <<target, waveforms, matrices>>

Next == \/ \E m \in Modes : Begin(m)
        \/ StopWaveforms \/ StopMatrices \/ StartMatrices \/ StartWaveforms
        \/ Report \/ EnterUnknown

Spec == Init /\ [][Next]_contractVars
=============================================================================
