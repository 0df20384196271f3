----------------------------- MODULE MCWatching -----------------------------
(***************************************************************************)
(* Model checking of what internal/rtc does for who watches: the talk-back *)
(* floor, with what the room would write down, and the viewers of the hub. *)
(* A behaviour follows one of the two, the focus, and the other rests.     *)
(***************************************************************************)
EXTENDS TalkbackHistory, Viewers, TLC

VARIABLE focus

talkVars == <<vars, histVars>>
watchingVars == <<focus, talkVars, hubVars>>

AllInit == focus \in {"talkback", "viewers"} /\ HInit /\ HubInit

TalkbackAlone == focus = "talkback" /\ UNCHANGED <<focus, hubVars>>
ViewersAlone == focus = "viewers" /\ UNCHANGED <<focus, talkVars>>

AllNext ==
  \/ TalkbackAlone /\ HNext
  \/ ViewersAlone /\ HubNext

AllSpec == AllInit /\ [][AllNext]_watchingVars

\* The fairness of each, while it is the one that is followed.
AllFairSpec ==
  /\ AllSpec
  /\ SF_watchingVars(TalkbackAlone /\ Tick /\ RoomTick)
  /\ \A v \in Viewers : WF_watchingVars(TalkbackAlone /\ Expire(v) /\ RoomStep)
  /\ \A v \in Sessions :
       /\ WF_watchingVars(ViewersAlone /\ NewViewer(v)) /\ WF_watchingVars(ViewersAlone /\ Callbacks(v))
       /\ WF_watchingVars(ViewersAlone /\ Close(v))
       /\ WF_watchingVars(ViewersAlone /\ MediaIsAsked(v)) /\ WF_watchingVars(ViewersAlone /\ HandlerCloses(v))
       /\ WF_watchingVars(ViewersAlone /\ v \in left /\ SignallingEnds(v))
       /\ WF_watchingVars(ViewersAlone /\ v \in left /\ LosesThePeer(v))

\* Viewers, outputs and sessions are interchangeable names.
Symmetry == Permutations(Viewers) \cup Permutations(Outputs) \cup Permutations(Sessions)
=============================================================================
