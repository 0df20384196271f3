----------------------------- MODULE MCCapture -----------------------------
(***************************************************************************)
(* Model checking of what captures.  The parts share nothing that any of   *)
(* them reads, so each behaviour follows one of them, the focus, and the   *)
(* others rest: the states to visit add up instead of multiplying.         *)
(***************************************************************************)
EXTENDS Camera, Microphone, Encoder, PipelineWatches

VARIABLE focus

vars == <<focus, camVars, micVars, encVars, brVars, kfVars, framingVars>>

\* The parts that rest do so in one state.
Resting ==
  /\ focus # "camera" => camWanted = AnyCamera /\ plugged = {}
  /\ focus # "microphone" => present = {} /\ clean = TRUE
  /\ focus # "encoder" => breaks = FALSE
  /\ focus # "bitrate" => encoderKind = "deaf" /\ gain = 8 /\ scene = 60 /\ born = 40
  /\ focus # "keyframes" => serves = TRUE
  /\ focus # "framing" => driver = "none"

Init ==
  /\ focus \in {"camera", "microphone", "encoder", "bitrate", "keyframes", "framing"}
  /\ Resting
  /\ CameraInit /\ MicInit /\ EncoderInit /\ WatchInit /\ KeyframesInit /\ FramingInit

CameraAlone == focus = "camera" /\ UNCHANGED <<focus, micVars, encVars, brVars, kfVars, framingVars>>
MicrophoneAlone == focus = "microphone" /\ UNCHANGED <<focus, camVars, encVars, brVars, kfVars, framingVars>>
EncoderAlone == focus = "encoder" /\ UNCHANGED <<focus, camVars, micVars, brVars, kfVars, framingVars>>
BitrateAlone == focus = "bitrate" /\ UNCHANGED <<focus, camVars, micVars, encVars, kfVars, framingVars>>
KeyframesAlone == focus = "keyframes" /\ UNCHANGED <<focus, camVars, micVars, encVars, brVars, framingVars>>
FramingAlone == focus = "framing" /\ UNCHANGED <<focus, camVars, micVars, encVars, brVars, kfVars>>

Next ==
  \/ CameraAlone /\ CameraNext
  \/ MicrophoneAlone /\ MicNext
  \/ EncoderAlone /\ EncoderNext
  \/ BitrateAlone /\ WatchNext
  \/ KeyframesAlone /\ KeyframesNext
  \/ FramingAlone /\ FramingNext

\* The fairness of each part, while it is the one that is followed.
Fairness ==
  /\ WF_vars(CameraAlone /\ Supervises)
  /\ WF_vars(CameraAlone /\ GoesOnChoosing)
  /\ WF_vars(CameraAlone /\ Watches)
  /\ WF_vars(CameraAlone /\ LateWatches)
  /\ WF_vars(MicrophoneAlone /\ MicSupervises)
  /\ WF_vars(MicrophoneAlone /\ MicGoesOnChoosing)
  /\ WF_vars(MicrophoneAlone /\ MicRechecks)

Spec == Init /\ [][Next]_vars /\ Fairness

\* What was chosen is captured in the end, camera and microphone.
TheChosenAreOpened == TheChosenIsCaptured /\ TheChosenMicIsHeard
=============================================================================
