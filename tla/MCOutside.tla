----------------------------- MODULE MCOutside -----------------------------
(***************************************************************************)
(* Model checking of what surrounds the watching: the tunnel, the program's *)
(* start and end, and the icon.  A behaviour follows one of them, the      *)
(* focus, and the others rest.                                             *)
(***************************************************************************)
EXTENDS Tunnel, Program, Tray

VARIABLE focus

outsideVars == <<focus, tunnelVars, programVars, trayVars>>

Resting ==
  /\ focus # "program" => sizeKnown = FALSE
  /\ focus # "tunnel" => places = {}
  /\ scale = 16
  /\ focus # "icon" => status = [phase |-> "home", verifying |-> FALSE]

AllInit ==
  /\ focus \in {"tunnel", "program", "icon"}
  /\ Resting
  /\ TunnelInit /\ ProgramInit /\ TrayInit

TunnelAlone == focus = "tunnel" /\ UNCHANGED <<focus, programVars, trayVars>>
ProgramAlone == focus = "program" /\ UNCHANGED <<focus, tunnelVars, trayVars>>
IconAlone == focus = "icon" /\ UNCHANGED <<focus, tunnelVars, programVars>>

AllNext ==
  \/ TunnelAlone /\ TunnelNext
  \/ ProgramAlone /\ ProgramNext
  \/ IconAlone /\ TrayNext

AllFairness ==
  /\ WF_outsideVars(TunnelAlone /\ LifeBegins) /\ WF_outsideVars(TunnelAlone /\ (Leaves \/ StopsWaiting))
  /\ WF_outsideVars(ProgramAlone /\ RunNext) /\ WF_outsideVars(ProgramAlone /\ SecondOpensTheCamera)
  /\ WF_outsideVars(IconAlone /\ (CreatesTheWindow \/ AddsTheIcon)) /\ WF_outsideVars(IconAlone /\ Timer)
  /\ WF_outsideVars(IconAlone /\ TakesAMessage)

AllSpec == AllInit /\ [][AllNext]_outsideVars /\ AllFairness

=============================================================================
