----------------------------- MODULE MCKeeping -----------------------------
(***************************************************************************)
(* Model checking of what is kept: the ring and the recorder, the clips on *)
(* disk, the list of subscriptions and the configuration.  A behaviour     *)
(* follows one of them, the focus, and the others rest.                    *)
(***************************************************************************)
EXTENDS Recorder, PushStore, ClipStore, ConfigStore, TLC

VARIABLE focus

keepingVars == <<focus, vars, pushVars, clipVars, cfgVars>>

AllInit ==
  /\ focus \in {"recorder", "push", "clips", "configuration"}
  /\ Init /\ PushInit /\ ClipsInit /\ ConfigInit

RecorderAlone == focus = "recorder" /\ UNCHANGED <<focus, pushVars, clipVars, cfgVars>>
PushAlone == focus = "push" /\ UNCHANGED <<focus, vars, clipVars, cfgVars>>
ClipsAlone == focus = "clips" /\ UNCHANGED <<focus, vars, pushVars, cfgVars>>
ConfigAlone == focus = "configuration" /\ UNCHANGED <<focus, vars, pushVars, clipVars>>

AllNext ==
  \/ RecorderAlone /\ Next
  \/ PushAlone /\ PushNext
  \/ ClipsAlone /\ ClipsNext
  \/ ConfigAlone /\ ConfigNext

AllSpec == AllInit /\ [][AllNext]_keepingVars

\* Parameter sets are interchangeable names.
Symmetry == Permutations(Shapes)

=============================================================================
