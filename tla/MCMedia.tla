------------------------------ MODULE MCMedia ------------------------------
(***************************************************************************)
(* Model checking of what is done to bits and samples: the access units,   *)
(* the headers and the levels of the stream, the quantiser's readings, the *)
(* dates of frames and packets, and a clip's two tracks.  A behaviour      *)
(* follows one of them, the focus, and the others rest.                    *)
(***************************************************************************)
EXTENDS Assembler, StreamHeaders, Timeline, Way

SomeQuantisers == {0, 26, 51}
SomeInits == {0, 26, 30}
SomeSizes == {<<1, 2>>, <<80, 45>>}
\* The presets, and the sizes that cameras give which are no whole blocks.
SomePictures ==
  {<<176, 144, 15>>, <<352, 288, 30>>, <<640, 480, 30>>, <<960, 540, 30>>, <<1280, 720, 15>>, <<1280, 720, 30>>,
   <<1280, 720, 60>>, <<1288, 728, 30>>, <<1600, 904, 30>>, <<1920, 1080, 30>>, <<1920, 1080, 60>>}

VARIABLE focus

mediaVars == <<focus, assemblerVars, headerVars, levelVars, timelineVars, quantiserVars, frameTimesVars, audioPathVars>>

Plainest == [type |-> "other", first |-> FALSE, code |-> 4]

Resting ==
  /\ focus # "units" => nals = <<Plainest>>
  /\ focus # "headers" => raw = <<>> /\ written = Stream({}, "P", FALSE, FALSE, 26, 26, <<1, 2>>)
  /\ focus # "levels" => opened = [picture |-> <<1280, 720, 30>>, kbps |-> 4000]
                         /\ enc = [profile |-> 66, flags |-> {}, level |-> 40]
  /\ focus # "clip" => frames = <<0>> /\ packets = <<>> /\ file = SomeFile
  /\ focus # "quantiser" => sets = (CHOOSE s \in Sets \ Unread : TRUE)
                            /\ chip = [inBand |-> FALSE, attribute |-> FALSE, sliceMoves |-> FALSE, attrMoves |-> FALSE]
  /\ focus # "frames" => interval = 0

AllInit ==
  /\ focus \in {"units", "headers", "levels", "clip", "quantiser", "frames", "sound"}
  /\ Resting
  /\ AssemblerInit /\ HeaderInit /\ LevelsInit /\ TimelineInit /\ QuantiserInit /\ FrameTimesInit /\ AudioPathInit

UnitsAlone == focus = "units" /\ UNCHANGED <<focus, headerVars, levelVars, timelineVars, quantiserVars, frameTimesVars, audioPathVars>>
HeadersAlone == focus = "headers" /\ UNCHANGED <<focus, assemblerVars, levelVars, timelineVars, quantiserVars, frameTimesVars, audioPathVars>>
LevelsAlone == focus = "levels" /\ UNCHANGED <<focus, assemblerVars, headerVars, timelineVars, quantiserVars, frameTimesVars, audioPathVars>>
ClipAlone == focus = "clip" /\ UNCHANGED <<focus, assemblerVars, headerVars, levelVars, quantiserVars, frameTimesVars, audioPathVars>>
QuantiserAlone == focus = "quantiser" /\ UNCHANGED <<focus, assemblerVars, headerVars, levelVars, timelineVars, frameTimesVars, audioPathVars>>
FramesAlone == focus = "frames" /\ UNCHANGED <<focus, assemblerVars, headerVars, levelVars, timelineVars, quantiserVars, audioPathVars>>
SoundAlone == focus = "sound" /\ UNCHANGED <<focus, assemblerVars, headerVars, levelVars, timelineVars, quantiserVars, frameTimesVars>>

AllNext ==
  \/ UnitsAlone /\ AssemblerNext
  \/ HeadersAlone /\ HeaderNext
  \/ LevelsAlone /\ LevelsNext
  \/ ClipAlone /\ TimelineNext
  \/ QuantiserAlone /\ QuantiserNext
  \/ FramesAlone /\ FrameTimesNext
  \/ SoundAlone /\ AudioPathNext
=============================================================================
