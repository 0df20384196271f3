----------------------------- MODULE MCFigures -----------------------------
(***************************************************************************)
(* Model checking of what is worked out from figures: the governors, each  *)
(* alone against everything that it may be told and the loop that runs     *)
(* them over a few worlds, the version that is new, and the panel and the  *)
(* code that it shows.  A behaviour follows one of them, the focus, and    *)
(* the others rest.                                                        *)
(***************************************************************************)
EXTENDS BitrateControl, Updates, Panel, QrCode

QuantisersRead == {-1, 14, 29, 40}
ConfirmTicks == <<2, 3>>
Hd == [w |-> 1280, h |-> 720, fps |-> 30]
Slow == [w |-> 640, h |-> 480, fps |-> 8]
Captured == {Hd, Slow}

World(base, viewed, said, out, qp, fps, moves) ==
  [base |-> base, watched |-> viewed, estimate |-> said, halves |-> out,
   qp |-> qp, measured |-> fps, stirred |-> moves]

\* A good evening, an empty room, a bad network, a deaf encoder, the dark,
\* a still room, another camera, somebody moving, a capture that stopped.
SomeWorlds ==
  {World(Hd, TRUE, 3000, 2, 29, 290, FALSE), World(Hd, FALSE, 0, 2, 20, 290, FALSE),
   World(Hd, TRUE, 300, 2, 40, 290, FALSE), World(Hd, TRUE, 3000, 3, 40, 290, FALSE),
   World(Hd, TRUE, 300, 1, 14, 120, FALSE), World(Hd, TRUE, 3000, 2, 14, 290, FALSE),
   World(Slow, TRUE, 800, 2, 14, 80, FALSE), World(Hd, TRUE, 800, 2, 14, 290, TRUE),
   World(Hd, TRUE, 0, 0, -1, 0, FALSE)}

V(major, minor, patch, pre) == [n |-> <<major, minor, patch>>, pre |-> pre]
Mine == V(1, 5, 0, 0)
SomeReleases == {V(1, 5, 0, 1), V(1, 4, 9, 0), V(1, 10, 0, 0), V(2, 0, 0, 2), V(2, 0, 0, 0)}

SomeContents ==
  {{}, {"todo", "address", "videos", "logs"}, {"address", "reset", "logs", "glyphs"},
   {"settings", "todo", "address", "update", "setup", "reset", "revoke", "videos", "logs", "glyphs"}}

VARIABLE focus

governorVars == <<bandVars, qualityVars, scaleVars, controlVars>>
deskVars == <<updateVars, layoutVars, panelVars, qrVars>>
figuresVars == <<focus, governorVars, deskVars>>

RestingScene == [qp |-> 29, halves |-> 2, cap |-> 1200, full |-> TRUE, stirred |-> FALSE]
RestingNetwork == [avail |-> 0, credible |-> TRUE, qp |-> 29, maxBits |-> TRUE, measured |-> 80]

Resting ==
  /\ focus # "quality" => scene = RestingScene
  /\ focus # "scale" => network = RestingNetwork
  /\ focus # "control" => world = World(Hd, FALSE, 0, 2, 20, 290, FALSE)
  /\ focus # "updates" => document = CHOOSE d \in Documents : TRUE
  /\ focus # "panel" => has = {}
  /\ focus # "code" => text = TextOf(1)

AllInit ==
  /\ focus \in {"bandwidth", "quality", "scale", "control", "updates", "paper", "panel", "code"}
  /\ Resting
  /\ BandInit /\ QualityInit /\ ScaleInit /\ ControlInit
  /\ focus # "scale" => scale.base = Hd
  /\ UpdatesInit /\ LayoutInit /\ PanelInit /\ QrInit

BandAlone == focus = "bandwidth" /\ UNCHANGED <<focus, deskVars, qualityVars, scaleVars, controlVars>>
QualityAlone == focus = "quality" /\ UNCHANGED <<focus, deskVars, bandVars, scaleVars, controlVars>>
ScaleAlone == focus = "scale" /\ UNCHANGED <<focus, deskVars, bandVars, qualityVars, controlVars>>
ControlAlone == focus = "control" /\ UNCHANGED <<focus, deskVars, bandVars, qualityVars, scaleVars>>
UpdatesAlone == focus = "updates" /\ UNCHANGED <<focus, governorVars, layoutVars, panelVars, qrVars>>
PaperAlone == focus = "paper" /\ UNCHANGED <<focus, governorVars, updateVars, panelVars, qrVars>>
PanelAlone == focus = "panel" /\ UNCHANGED <<focus, governorVars, updateVars, layoutVars, qrVars>>
CodeAlone == focus = "code" /\ UNCHANGED <<focus, governorVars, updateVars, layoutVars, panelVars>>

AllNext ==
  \/ BandAlone /\ BandNext
  \/ QualityAlone /\ QualityNext
  \/ ScaleAlone /\ ScaleNext
  \/ ControlAlone /\ ControlNext
  \/ UpdatesAlone /\ UpdatesNext
  \/ PaperAlone /\ LayoutNext
  \/ PanelAlone /\ PanelNext
  \/ CodeAlone /\ QrNext

AllSpec == AllInit /\ [][AllNext]_figuresVars

\* What the tray shows: the version and the panel.
DeskSafety == UpdatesSafety /\ PanelSafety
=============================================================================
