------------------------------ MODULE Viewers ------------------------------
(***************************************************************************)
(* The viewers of the hub, from the request to the last callback:          *)
(* NewViewer, the state-change callback, CloseUnlessConnected and Close of *)
(* internal/rtc/hub.go, and the signalling handler of                      *)
(* internal/server/server.go that owns each of them.                       *)
(*                                                                         *)
(* A session is four goroutines or more: the handler, which builds the     *)
(* viewer and later closes it; Pion, which moves the connection; and one   *)
(* goroutine per state change, which Pion starts and never orders.  What   *)
(* they share is atomic counters, a map under a lock and a sync.Once.  The *)
(* compare-and-swap on `seated` or `counted` and the addition it guards    *)
(* are one step: nothing but the two reads both.                           *)
(***************************************************************************)
EXTENDS Integers, FiniteSets

CONSTANTS Sessions,  \* session ids: each is used once, like nextSessionID
          MaxOpen    \* maxOpenViewers

ASSUME ViewersAssumption ==
  /\ IsFiniteSet(Sessions)
  /\ MaxOpen \in Nat

VARIABLES
  ready,      \* the shared tracks exist: a keyframe has been seen
  open,       \* Hub.open
  viewersNow, \* Stats.ViewersNow
  bwe,        \* the viewers whose estimate is in Hub.bwe
  handler,    \* where each session's signalling handler is
  pc,         \* the state of each PeerConnection
  seated,     \* Viewer.seated
  counted,    \* Viewer.counted
  up,         \* Connected callbacks Pion started and that have not run
  down,       \* a Disconnected, Failed or Closed callback waits to run
  closing,    \* the next step of Close, inside its sync.Once
  left        \* sessions whose page is gone

hub == <<ready, open, viewersNow, bwe>>
viewer == <<pc, seated, counted, up, down, closing>>
hubVars == <<hub, handler, viewer, left>>

\* The states after which the callback calls Close.
EndsOnlyWhenClosed == {"closed"}                                    \* mutant
Ends == {"disconnected", "failed", "closed"}

\* Goroutines Pion starts when the connection moves to a state.
ConnectedAgain(v, state) == [up EXCEPT ![v] = IF state = "connected" THEN @ + 1 ELSE @]
EndAnnounced(v, state) == [down EXCEPT ![v] = @ \/ state \in Ends]

HubInit ==
  /\ ready = FALSE /\ open = 0 /\ viewersNow = 0 /\ bwe = {}
  /\ handler = [v \in Sessions |-> "idle"]
  /\ pc = [v \in Sessions |-> "none"]
  /\ seated = [v \in Sessions |-> FALSE]
  /\ counted = [v \in Sessions |-> FALSE]
  /\ up = [v \in Sessions |-> 0]
  /\ down = [v \in Sessions |-> FALSE]
  /\ closing = [v \in Sessions |-> "open"]
  /\ left = {}

Goes(v, from, to) == handler[v] = from /\ handler' = [handler EXCEPT ![v] = to]

-----------------------------------------------------------------------------
\* NewViewer.

\* ensureTracks, at the first keyframe: the tracks are made once.
StreamStarts ==
  /\ ~ready /\ ready' = TRUE
  /\ UNCHANGED <<open, viewersNow, bwe, handler, viewer, left>>

AskedTooEarly(v) ==
  /\ ~ready
  /\ Goes(v, "idle", "over")
  /\ UNCHANGED <<hub, viewer, left>>

\* The seat is taken first and looked at after, in one atomic addition.
OverBy(seats) == seats > MaxOpen + 1                               \* mutant
Over(seats) == seats > MaxOpen

TakesASeat(v) ==
  /\ ready
  /\ open' = open + 1
  /\ Goes(v, "idle", IF Over(open + 1) THEN "refusing" ELSE "building")
  /\ UNCHANGED <<ready, viewersNow, bwe, viewer, left>>

\* The refusal, and a failure before the viewer exists: the seat is taken off
\* the counter directly.
SeatUndone(v) ==
  /\ \/ Goes(v, "refusing", "over")
     \/ Goes(v, "building", "over")
  /\ open' = open - 1
  /\ UNCHANGED <<ready, viewersNow, bwe, viewer, left>>

\* A mutant: the estimate is registered as soon as there is a viewer.
MadeWithItsEstimate(v) ==
  /\ Goes(v, "building", "made")
  /\ pc' = [pc EXCEPT ![v] = "new"]
  /\ seated' = [seated EXCEPT ![v] = TRUE]
  /\ bwe' = bwe \cup {v}
  /\ UNCHANGED <<ready, open, viewersNow, counted, up, down, closing, left>>

\* The viewer exists, and the seat is its own.
Made(v) ==
  /\ Goes(v, "building", "made")
  /\ pc' = [pc EXCEPT ![v] = "new"]
  /\ seated' = [seated EXCEPT ![v] = TRUE]
  /\ UNCHANGED <<hub, counted, up, down, closing, left>>

\* A track or the talk-back's transceiver is refused: the connection is closed
\* with nobody listening to its states.
MadeInVain(v) ==
  /\ Goes(v, "made", "failing")
  /\ pc' = [pc EXCEPT ![v] = "closed"]
  /\ UNCHANGED <<hub, seated, counted, up, down, closing, left>>

\* OnConnectionStateChange is registered.
Watched(v) ==
  /\ Goes(v, "made", "watched")
  /\ UNCHANGED <<hub, viewer, left>>

\* The offer, or setting it, fails: now the Closed state calls Close, which
\* races the deferred give-back.
OfferFails(v) ==
  /\ Goes(v, "watched", "failing")
  /\ pc' = [pc EXCEPT ![v] = "closed"]
  /\ down' = [down EXCEPT ![v] = TRUE]
  /\ UNCHANGED <<hub, seated, counted, up, closing, left>>

GiveSeatBackTwice(v) ==                                            \* mutant
  seated' = [seated EXCEPT ![v] = FALSE] /\ open' = open - 1
GiveSeatBack(v) ==
  IF seated[v] THEN seated' = [seated EXCEPT ![v] = FALSE] /\ open' = open - 1
               ELSE UNCHANGED <<seated, open>>

DeferredGiveBack(v) ==
  /\ Goes(v, "failing", "over")
  /\ GiveSeatBack(v)
  /\ UNCHANGED <<ready, viewersNow, bwe, pc, counted, up, down, closing, left>>

\* The estimate is registered last, and the viewer handed to the handler.
HandedOver(v) ==
  /\ Goes(v, "watched", "signalling")
  /\ bwe' = bwe \cup {v}
  /\ UNCHANGED <<ready, open, viewersNow, viewer, left>>

-----------------------------------------------------------------------------
\* The signalling handler, once it has its viewer.

\* SetAnswer: from here on the connection can move.
AnswerArrives(v) ==
  /\ handler[v] = "signalling" /\ v \notin left
  /\ pc[v] = "new"
  /\ pc' = [pc EXCEPT ![v] = "connecting"]
  /\ UNCHANGED <<hub, handler, seated, counted, up, down, closing, left>>

\* The page goes, at any time and without a word.
PageLeaves(v) ==
  /\ v \notin left /\ handler[v] # "idle"
  /\ left' = left \cup {v}
  /\ UNCHANGED <<hub, handler, viewer>>

\* The WebSocket ends: a bye, a failed read or ping, a refused answer, the end
\* of the session.  The page may well be still there, and watching.
SignallingEnds(v) ==
  /\ Goes(v, "signalling", "checking")
  /\ UNCHANGED <<hub, viewer, left>>

\* CloseUnlessConnected reads the state, and then acts on what it read.
MediaIsAsked(v) ==
  /\ Goes(v, "checking", IF pc[v] = "connected" THEN "over" ELSE "leaving")
  /\ UNCHANGED <<hub, viewer, left>>

\* Close enters its sync.Once, or finds that somebody has.
EntersClose(v) ==
  closing' = IF closing[v] = "open" THEN [closing EXCEPT ![v] = "seat"] ELSE closing

HandlerCloses(v) ==
  /\ Goes(v, "leaving", "over")
  /\ EntersClose(v)
  /\ UNCHANGED <<hub, pc, seated, counted, up, down, left>>

-----------------------------------------------------------------------------
\* Pion: external.  It moves an answered connection, and starts a goroutine
\* for every move.  The peer of a page that is gone only gets worse.

Moves(v, state) ==
  /\ pc' = [pc EXCEPT ![v] = state]
  /\ up' = ConnectedAgain(v, state)
  /\ down' = EndAnnounced(v, state)
  /\ UNCHANGED <<hub, handler, seated, counted, closing, left>>

\* At most one Connected callback waits at a time: a bound.
Connects(v) ==
  /\ pc[v] \in {"connecting", "disconnected"} /\ v \notin left
  /\ up[v] = 0
  /\ Moves(v, "connected")

LosesThePeer(v) ==
  \/ pc[v] = "connected" /\ Moves(v, "disconnected")
  \/ pc[v] \in {"connecting", "disconnected"} /\ Moves(v, "failed")

-----------------------------------------------------------------------------
\* The state-change callback, on a goroutine of its own for each change.

ConnectedRuns(v) ==
  /\ up[v] > 0
  /\ up' = [up EXCEPT ![v] = @ - 1]
  /\ counted' = [counted EXCEPT ![v] = TRUE]
  /\ viewersNow' = IF counted[v] THEN viewersNow ELSE viewersNow + 1
  /\ UNCHANGED <<ready, open, bwe, handler, pc, seated, down, closing, left>>

EndRuns(v) ==
  /\ down[v]
  /\ down' = [down EXCEPT ![v] = FALSE]
  /\ EntersClose(v)
  /\ UNCHANGED <<hub, handler, pc, seated, counted, up, left>>

-----------------------------------------------------------------------------
\* Close, inside its sync.Once, one shared thing at a time.

Closes(v, from, to) == closing[v] = from /\ closing' = [closing EXCEPT ![v] = to]

CloseGivesTheSeatBack(v) ==
  /\ Closes(v, "seat", "count")
  /\ GiveSeatBack(v)
  /\ UNCHANGED <<ready, viewersNow, bwe, handler, pc, counted, up, down, left>>

CloseTakesOneOff(v) ==                                             \* mutant
  /\ Closes(v, "count", "estimate")
  /\ counted' = [counted EXCEPT ![v] = FALSE]
  /\ viewersNow' = viewersNow - 1
  /\ UNCHANGED <<ready, open, bwe, handler, pc, seated, up, down, left>>

CloseUncounts(v) ==
  /\ Closes(v, "count", "estimate")
  /\ counted' = [counted EXCEPT ![v] = FALSE]
  /\ viewersNow' = IF counted[v] THEN viewersNow - 1 ELSE viewersNow
  /\ UNCHANGED <<ready, open, bwe, handler, pc, seated, up, down, left>>

CloseForgetsTheEstimate(v) ==
  /\ Closes(v, "estimate", "connection")
  /\ bwe' = bwe \ {v}
  /\ UNCHANGED <<ready, open, viewersNow, handler, pc, seated, counted, up,
                 down, left>>

\* pc.Close, which announces Closed unless it is closed already, and the
\* closing of the channel Done returns.
CloseTheConnection(v) ==
  /\ Closes(v, "connection", "done")
  /\ pc' = [pc EXCEPT ![v] = "closed"]
  /\ down' = [down EXCEPT ![v] = @ \/ pc[v] # "closed"]
  /\ UNCHANGED <<hub, handler, seated, counted, up, left>>

-----------------------------------------------------------------------------
NewViewer(v) ==
  \/ AskedTooEarly(v) \/ TakesASeat(v) \/ SeatUndone(v)
  \/ Made(v) \/ MadeInVain(v) \/ Watched(v) \/ OfferFails(v)
  \/ DeferredGiveBack(v) \/ HandedOver(v)

Signalling(v) ==
  \/ AnswerArrives(v) \/ SignallingEnds(v) \/ MediaIsAsked(v) \/ HandlerCloses(v)

Callbacks(v) == ConnectedRuns(v) \/ EndRuns(v)

Close(v) ==
  \/ CloseGivesTheSeatBack(v) \/ CloseUncounts(v)
  \/ CloseForgetsTheEstimate(v) \/ CloseTheConnection(v)

HubNext ==
  \/ StreamStarts
  \/ \E v \in Sessions :
       \/ NewViewer(v) \/ Signalling(v) \/ Callbacks(v) \/ Close(v)
       \/ PageLeaves(v) \/ Connects(v) \/ LosesThePeer(v)

HubSpec == HubInit /\ [][HubNext]_hubVars

\* Goroutines that can run do run.  For a page that is gone the ping finds the
\* WebSocket dead, and ICE loses the peer's consent.
HubFairness ==
  \A v \in Sessions :
    /\ WF_hubVars(NewViewer(v)) /\ WF_hubVars(Callbacks(v)) /\ WF_hubVars(Close(v))
    /\ WF_hubVars(MediaIsAsked(v)) /\ WF_hubVars(HandlerCloses(v))
    /\ WF_hubVars(v \in left /\ SignallingEnds(v))
    /\ WF_hubVars(v \in left /\ LosesThePeer(v))

HubFairSpec == HubSpec /\ HubFairness

-----------------------------------------------------------------------------
\* Every variable has its type, and neither counter goes below nothing.
HubTypeOK ==
  /\ ready \in BOOLEAN /\ open \in Nat /\ viewersNow \in Nat
  /\ bwe \in SUBSET Sessions /\ left \in SUBSET Sessions
  /\ handler \in [Sessions -> {"idle", "refusing", "building", "made", "watched",
                               "failing", "signalling", "checking", "leaving", "over"}]
  /\ pc \in [Sessions -> {"none", "new", "connecting", "connected",
                          "disconnected", "failed", "closed"}]
  /\ seated \in [Sessions -> BOOLEAN] /\ counted \in [Sessions -> BOOLEAN]
  /\ up \in [Sessions -> Nat] /\ down \in [Sessions -> BOOLEAN]
  /\ closing \in [Sessions -> {"open", "seat", "count", "estimate", "connection", "done"}]

\* Sessions that are in, or being let in, and those being turned away.
LetIn == {v \in Sessions : handler[v] = "building" \/ seated[v]}
TurnedAway == {v \in Sessions : handler[v] = "refusing"}

\* Whatever road a session takes out of NewViewer or of Close, its seat is
\* given back once: the counter is the sessions that are in and those turned
\* away whose addition has not been undone.
SeatsAddUp == open = Cardinality(LetIn \cup TurnedAway)

\* However many ask together, no more than the bound are let in.
SeatsAreBounded == Cardinality(LetIn) <= MaxOpen

\* The count of who is watching is the count of those it remembers having
\* counted: no road out takes one off without having put one on.
CountIsRemembered == viewersNow = Cardinality({v \in Sessions : counted[v]})

\* A session that is over holds neither a seat nor an estimate: one dead entry
\* in the map and "nobody is watching" never happens again.
TheDeadHoldNothing ==
  \A v \in Sessions :
    pc[v] = "closed" /\ handler[v] = "over" /\ closing[v] \in {"open", "done"}
      => ~seated[v] /\ v \notin bwe

\* An estimate in the map is of a viewer that was handed over, and whose Close
\* is still to forget it.
EstimatesAreOfTheLiving ==
  \A v \in bwe :
    /\ handler[v] \in {"signalling", "checking", "leaving", "over"}
    /\ closing[v] \in {"open", "seat", "count", "estimate"}

\* Every page that goes is forgotten by the hub, whatever its connection was
\* doing when it went.
TheGoneAreForgotten ==
  \A v \in Sessions : v \in left ~> ~seated[v] /\ v \notin bwe

\* The comment on `counted`: a session that is closed is not counted as
\* watching.
ClosedIsNotWatching == \A v \in Sessions : closing[v] = "done" => ~counted[v]

\* Together: the seats and the count add up whatever the order of the callbacks,
\* the bound holds, and who is gone holds neither a seat nor an estimate.
ViewersSafety ==
  HubTypeOK /\ SeatsAddUp /\ SeatsAreBounded /\ CountIsRemembered /\ TheDeadHoldNothing /\ EstimatesAreOfTheLiving
=============================================================================
