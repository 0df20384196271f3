------------------------------- MODULE Camera -------------------------------
(***************************************************************************)
(* The camera and whoever supervises it: Run, runOnce and the opening half *)
(* of runVideo in internal/pipeline/pipeline.go, SetCamera, the watch for  *)
(* the chosen camera, and Pick in internal/devices/enum.go.                *)
(*                                                                         *)
(* One goroutine opens a camera, captures from it and comes back from      *)
(* every end.  A choice is applied by closing: whoever chooses writes the  *)
(* wish, raises a mark, cancels the session it can reach and leaves a      *)
(* token for a supervisor that waits.  None of that is under a lock, so    *)
(* each of those steps is an action here, and each of a session's.         *)
(***************************************************************************)
EXTENDS Integers

CONSTANTS Cameras,    \* the cameras there may be
          AnyCamera,  \* nothing chosen: the first of the list
          NoCamera,
          MaxEvents,  \* choices, failures, cables pulled or put back: a bound
          MaxBackoff  \* the longest wait, the shortest being one

ASSUME CameraAssumption ==
  /\ AnyCamera \notin Cameras /\ NoCamera \notin Cameras \cup {AnyCamera}
  /\ MaxEvents \in Nat /\ MaxBackoff \in Nat \ {0}

Wishes == Cameras \cup {AnyCamera}
CamTurns == {"turn", "starting", "reachable", "resolving", "opening", "opened",
             "capturing", "ended", "waiting", "done"}

VARIABLES
  camWanted,   \* Pipeline.camWanted
  camReopen,   \* the mark: it was closed on purpose
  camWake,     \* a channel of one
  camCancel,   \* whose cancel function is stored: nobody's, a past session's, this one's
  camCancelled, \* this session's context has ended
  camTurn,     \* where the supervisor is
  camAsked,    \* the wish as this session read it
  camPicked,   \* the camera this session opens
  camFellBack, \* it is not the one that was chosen
  camDenied,   \* the last attempt was refused for want of a permission
  camFailed,   \* the session ended with an error
  camBackoff,  \* the next wait
  camWatch,    \* this session's watch for the chosen camera
  lateWatch,   \* one left over by a session that ended
  chooser,     \* where SetCamera is
  plugged, granted, \* the cameras there are, and the permission
  camQuit,     \* the process is ending
  events,      \* how many there have been
  credit       \* history: turns that need not wait: earned by choices and finds, less taken

camMarks == <<camWanted, camReopen, camWake, camCancel, camCancelled>>
session == <<camTurn, camAsked, camPicked, camFellBack, camDenied, camFailed, camBackoff>>
watches == <<camWatch, lateWatch>>
room == <<plugged, granted, camQuit>>
counts == <<events, credit>>
camVars == <<camMarks, session, watches, chooser, room, counts>>

CameraInit ==
  /\ camWanted \in Wishes
  /\ camReopen = FALSE /\ camWake = FALSE
  /\ camCancel = "nobody" /\ camCancelled = FALSE
  /\ camTurn = "turn" /\ camAsked = camWanted /\ camPicked = NoCamera
  /\ camFellBack = FALSE /\ camDenied = FALSE /\ camFailed = FALSE /\ camBackoff = 1
  /\ camWatch = "none" /\ lateWatch = "none" /\ chooser = "idle"
  /\ plugged \in SUBSET Cameras /\ granted = TRUE /\ camQuit = FALSE
  /\ events = 0 /\ credit = 0

Event == events < MaxEvents /\ events' = events + 1
NoEvent == UNCHANGED events
\* The stored function ends this session or, stale, nothing.
CancelsNothing == UNCHANGED camCancelled                           \* mutant
CancelsStored == camCancelled' = (camCancelled \/ camCancel = "present")

-----------------------------------------------------------------------------
\* A session: runVideo up to the frames.

\* The mark is given back before anything that can fail.
KeptAtStart == camReopen                                           \* mutant
ReopenAtStart == FALSE

Starts ==
  /\ camTurn = "turn" /\ ~camQuit
  /\ camReopen' = ReopenAtStart
  /\ camCancel' = IF camCancel = "present" THEN "past" ELSE camCancel
  /\ camCancelled' = FALSE
  /\ camTurn' = "starting" /\ camFailed' = FALSE /\ camPicked' = NoCamera
  /\ UNCHANGED <<camWanted, camWake, camAsked, camFellBack, camDenied, camBackoff,
                 watches, chooser, room, counts>>

\* COM, Media Foundation or the graphics device refuses.
StartFails ==
  /\ camTurn = "starting" /\ Event
  /\ camTurn' = "ended" /\ camFailed' = TRUE
  /\ UNCHANGED <<camMarks, camAsked, camPicked, camFellBack, camDenied, camBackoff,
                 watches, chooser, room, credit>>

\* The session has a context of its own, and whoever chooses can reach it.
Reaches ==
  /\ camTurn = "starting" /\ camTurn' = "reachable"
  /\ camCancel' = "present"
  /\ UNCHANGED <<camWanted, camReopen, camWake, camCancelled, camAsked, camPicked,
                 camFellBack, camDenied, camFailed, camBackoff, watches, chooser, room, counts>>

ReadsTheWish ==
  /\ camTurn = "reachable" /\ camTurn' = "resolving"
  /\ camAsked' = camWanted
  /\ UNCHANGED <<camMarks, camPicked, camFellBack, camDenied, camFailed, camBackoff,
                 watches, chooser, room, counts>>

\* The chosen camera, or the first there is, which may be any.
Pick(all, wish) == IF wish \in all THEN {wish} ELSE all

\* When the list fails, or is empty, the wish goes on as it is.
Resolves ==
  /\ camTurn = "resolving" /\ camTurn' = "opening"
  /\ \/ camPicked' \in Pick(plugged, camAsked) /\ NoEvent
     \/ plugged = {} /\ camPicked' = camAsked /\ NoEvent
     \/ camPicked' = camAsked /\ Event
  /\ UNCHANGED <<camMarks, camAsked, camFellBack, camDenied, camFailed, camBackoff,
                 watches, chooser, room, credit>>

\* An empty link is whichever camera the system has.
CanOpen(c) == granted /\ (c \in plugged \/ (c = AnyCamera /\ plugged # {}))

Opens ==
  /\ camTurn = "opening" /\ camTurn' = "opened"
  /\ CanOpen(camPicked)
  /\ camDenied' = FALSE
  /\ camFellBack' = (camAsked # AnyCamera /\ camPicked # camAsked)
  /\ camWatch' = "ticking"
  /\ UNCHANGED <<camMarks, camAsked, camPicked, camFailed, camBackoff, lateWatch,
                 chooser, room, counts>>

OpenFails ==
  /\ camTurn = "opening" /\ camTurn' = "ended" /\ camFailed' = TRUE
  /\ CanOpen(camPicked) => events < MaxEvents
  /\ events' = IF CanOpen(camPicked) THEN events + 1 ELSE events
  /\ UNCHANGED <<camMarks, camAsked, camPicked, camFellBack, camDenied, camBackoff,
                 watches, chooser, room, credit>>

\* A choice that came while we were opening, and closed nothing, is not lost.
IsStale(wish) == wish # camAsked

LooksAgain ==
  /\ camTurn = "opened" /\ camTurn' = "capturing"
  /\ camReopen' = (camReopen \/ IsStale(camWanted))
  /\ camCancelled' = (camCancelled \/ IsStale(camWanted))
  /\ UNCHANGED <<camWanted, camWake, camCancel, camAsked, camPicked, camFellBack, camDenied,
                 camFailed, camBackoff, watches, chooser, room, counts>>

\* The session's watch goes with it, unless it has found the camera already,
\* or its ticker fired together with the end.
Leaves(withError) ==
  /\ camTurn' = "ended" /\ camFailed' = withError
  /\ camWatch' = "none"
  /\ \/ lateWatch = "none" /\ lateWatch' = camWatch
     \/ UNCHANGED lateWatch /\ (camWatch \in {"ticking", "none"} \/ lateWatch # "none")
  /\ UNCHANGED <<camMarks, camAsked, camPicked, camFellBack, camDenied, camBackoff,
                 chooser, room, credit>>

\* The frame loop sees that its context has ended.
Closes == camTurn = "capturing" /\ (camCancelled \/ camQuit) /\ Leaves(FALSE) /\ NoEvent

\* Anything under it fails, a panic included; a camera that is gone always does.
CaptureFails ==
  /\ camTurn = "capturing" /\ Leaves(TRUE)
  /\ CanOpen(camPicked) => events < MaxEvents
  /\ events' = IF CanOpen(camPicked) THEN events + 1 ELSE events

-----------------------------------------------------------------------------
\* The supervisor: Run and runOnce.

Twice(b) == 2 * b                                                  \* mutant
Doubled(b) == IF 2 * b < MaxBackoff THEN 2 * b ELSE MaxBackoff

\* An end we decided on: the next turn begins at once.
ComesBackAtOnce ==
  /\ camTurn = "ended" /\ ~camQuit /\ camReopen
  /\ camTurn' = "turn" /\ camBackoff' = 1
  /\ credit' = credit - 1
  /\ UNCHANGED <<camMarks, camAsked, camPicked, camFellBack, camDenied, camFailed,
                 watches, chooser, room, events>>

\* Any other: the permission is looked at, and the wait comes first.  A long
\* session starts the waits over.
WillWait ==
  /\ camTurn = "ended" /\ ~camQuit /\ ~camReopen
  /\ camTurn' = "waiting"
  /\ camDenied' = (camFailed /\ ~granted)
  /\ camBackoff' \in {1, camBackoff}
  /\ UNCHANGED <<camMarks, camAsked, camPicked, camFellBack, camFailed, watches, chooser,
                 room, counts>>

\* nextBackoff
WaitsOut ==
  /\ camTurn = "waiting" /\ camTurn' = "turn"
  /\ camBackoff' = Doubled(camBackoff)
  /\ UNCHANGED <<camMarks, camAsked, camPicked, camFellBack, camDenied, camFailed,
                 watches, chooser, room, counts>>

IsWoken ==
  /\ camTurn = "waiting" /\ camWake
  /\ camWake' = FALSE /\ camTurn' = "turn" /\ camBackoff' = Doubled(1)
  /\ credit' = credit - 1
  /\ UNCHANGED <<camWanted, camReopen, camCancel, camCancelled, camAsked, camPicked,
                 camFellBack, camDenied, camFailed, watches, chooser, room, events>>

Supervisor_Ends ==
  /\ camQuit /\ camTurn \in {"turn", "ended", "waiting"} /\ camTurn' = "done"
  /\ UNCHANGED <<camMarks, camAsked, camPicked, camFellBack, camDenied, camFailed, camBackoff,
                 watches, chooser, room, counts>>

-----------------------------------------------------------------------------
\* SetCamera: choose, mark, close, wake.

Chooses(wish) ==
  /\ chooser = "idle" /\ Event
  /\ chooser' = "chosen" /\ camWanted' = wish
  /\ credit' = credit + 3
  /\ UNCHANGED <<camReopen, camWake, camCancel, camCancelled, session, watches, room>>

Marks ==
  /\ chooser = "chosen" /\ chooser' = "marked" /\ camReopen' = TRUE
  /\ UNCHANGED <<camWanted, camWake, camCancel, camCancelled, session, watches, room, counts>>

Cancels ==
  /\ chooser = "marked" /\ chooser' = "closed" /\ CancelsStored
  /\ UNCHANGED <<camWanted, camReopen, camWake, camCancel, session, watches, room, counts>>

\* The token, if there was nothing to close; one that is there already will do.
LeftAsleep == camWake                                              \* mutant
Woken == TRUE

Wakes ==
  /\ chooser = "closed" /\ chooser' = "idle" /\ camWake' = Woken
  /\ UNCHANGED <<camWanted, camReopen, camCancel, camCancelled, session, watches, room, counts>>

-----------------------------------------------------------------------------
\* watchForTheChosenCamera.

LooksInVain == camWanted = AnyCamera /\ camFellBack                 \* mutant
LooksFor == camWanted # AnyCamera /\ camFellBack

\* Every two minutes; `camWatch` when the session lives, `lateWatch` after.
Finds(w) == w = "ticking" /\ LooksFor /\ camWanted \in plugged

WatchFinds ==
  /\ Finds(camWatch) /\ camWatch' = "found"
  /\ credit' = credit + 1
  /\ UNCHANGED <<camMarks, session, lateWatch, chooser, room, events>>

WatchMarks ==
  /\ camWatch = "found" /\ camWatch' = "marked" /\ camReopen' = TRUE
  /\ UNCHANGED <<camWanted, camWake, camCancel, camCancelled, session, lateWatch, chooser,
                 room, counts>>

WatchCancels ==
  /\ camWatch = "marked" /\ camWatch' = "none" /\ CancelsStored
  /\ UNCHANGED <<camWanted, camReopen, camWake, camCancel, session, lateWatch, chooser,
                 room, counts>>

LateFinds ==
  /\ Finds(lateWatch) /\ lateWatch' = "found"
  /\ credit' = credit + 1
  /\ UNCHANGED <<camMarks, session, camWatch, chooser, room, events>>

LateGivesUp ==
  /\ lateWatch = "ticking" /\ lateWatch' = "none"
  /\ UNCHANGED <<camMarks, session, camWatch, chooser, room, counts>>

LateMarks ==
  /\ lateWatch = "found" /\ lateWatch' = "marked" /\ camReopen' = TRUE
  /\ UNCHANGED <<camWanted, camWake, camCancel, camCancelled, session, camWatch, chooser,
                 room, counts>>

LateCancels ==
  /\ lateWatch = "marked" /\ lateWatch' = "none" /\ CancelsStored
  /\ UNCHANGED <<camWanted, camReopen, camWake, camCancel, session, camWatch, chooser,
                 room, counts>>

-----------------------------------------------------------------------------
\* The room, and the process.

Replugs(c) ==
  /\ Event
  /\ plugged' = IF c \in plugged THEN plugged \ {c} ELSE plugged \cup {c}
  /\ UNCHANGED <<camMarks, session, watches, chooser, granted, camQuit, credit>>

Permission ==
  /\ Event /\ granted' = ~granted
  /\ UNCHANGED <<camMarks, session, watches, chooser, plugged, camQuit, credit>>

CameraQuits ==
  /\ ~camQuit /\ camQuit' = TRUE
  /\ UNCHANGED <<camMarks, session, watches, chooser, plugged, granted, counts>>

Supervises ==
  \/ Starts \/ StartFails \/ Reaches \/ ReadsTheWish \/ Resolves \/ Opens \/ OpenFails
  \/ LooksAgain \/ Closes \/ CaptureFails
  \/ ComesBackAtOnce \/ WillWait \/ WaitsOut \/ IsWoken \/ Supervisor_Ends

SetCamera == (\E wish \in Wishes : Chooses(wish)) \/ Marks \/ Cancels \/ Wakes
GoesOnChoosing == Marks \/ Cancels \/ Wakes
Watches == WatchFinds \/ WatchMarks \/ WatchCancels
LateWatches == LateFinds \/ LateGivesUp \/ LateMarks \/ LateCancels
Room == (\E c \in Cameras : Replugs(c)) \/ Permission \/ CameraQuits

CameraNext == Supervises \/ SetCamera \/ Watches \/ LateWatches \/ Room
CameraSpec == CameraInit /\ [][CameraNext]_camVars
CameraFairness == /\ WF_camVars(Supervises) /\ WF_camVars(GoesOnChoosing)
                  /\ WF_camVars(Watches) /\ WF_camVars(LateWatches)
CameraFair == CameraSpec /\ CameraFairness

-----------------------------------------------------------------------------
CameraTypeOK ==
  /\ camWanted \in Wishes /\ camReopen \in BOOLEAN /\ camWake \in BOOLEAN
  /\ camCancel \in {"nobody", "past", "present"} /\ camCancelled \in BOOLEAN
  /\ camTurn \in CamTurns /\ camAsked \in Wishes /\ camPicked \in Wishes \cup {NoCamera}
  /\ camFellBack \in BOOLEAN /\ camDenied \in BOOLEAN /\ camFailed \in BOOLEAN
  /\ camBackoff \in 1..MaxBackoff
  /\ {camWatch, lateWatch} \subseteq {"none", "ticking", "found", "marked"}
  /\ chooser \in {"idle", "chosen", "marked", "closed"}
  /\ plugged \subseteq Cameras /\ granted \in BOOLEAN /\ camQuit \in BOOLEAN
  /\ events \in 0..MaxEvents /\ credit \in Int

\* A session that captures, and that nobody is closing, captures for the last
\* wish: none is lost between the reading of it and the close that applies it.
TheWishIsApplied ==
  camTurn = "capturing" /\ ~camCancelled /\ chooser = "idle" => camAsked = camWanted

\* A choice never waits out a backoff: whatever it met, a session that went by
\* the wish before it leaves a supervisor that is awake.
NoChoiceWaits ==
  camTurn = "waiting" /\ chooser = "idle" /\ camPicked # NoCamera /\ camAsked # camWanted
    => camWake

\* Every turn without a wait was paid for: no fault turns into a loop at full
\* speed.
NoHotLoop == credit >= 0

\* With the cable in and the permission given, the camera that was chosen is
\* captured in the end, however the fallback, the watch and the choices met.
TheChosenIsCaptured ==
  <>[](granted /\ camWanted \in plugged) =>
    <>[](camQuit \/ (camTurn = "capturing" /\ camPicked = camWanted))

\* Together: the choice in force is the one that was made last, none is left
\* waiting, and the supervisor never turns without a pause.
CameraSafety == CameraTypeOK /\ TheWishIsApplied /\ NoChoiceWaits /\ NoHotLoop
=============================================================================
