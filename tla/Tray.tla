-------------------------------- MODULE Tray --------------------------------
(***************************************************************************)
(* internal/tray: the icon in the notification area, and the hidden window *)
(* whose thread draws it.  The icon is Explorer's: Explorer may die and    *)
(* come back without it, may refuse it or a change of it while it is busy, *)
(* may say that it has refused what it took, and may say that it has       *)
(* restarted when it has not.  The window's thread takes one message at a  *)
(* time, and two timers.  It asks for no answer to a change: what it sent  *)
(* is for it what the icon shows.                                          *)
(*                                                                         *)
(* The messages that wait are a set: which of them comes first is left     *)
(* open.  A picture is its colour, whether it is darkened, and its size.   *)
(***************************************************************************)
EXTENDS Naturals

CONSTANTS NoIcon,    \* where there is no icon
          Phases,    \* the phases the program's state can have
          Scales,    \* the sizes the screen can ask of an icon
          MaxMoves   \* bound: what the desktop and the program do around the tray

ASSUME TrayAssumption ==
  Phases \subseteq {"starting", "home", "outside", "check", "fault"} /\ Phases # {} /\ Scales # {} /\ MaxMoves \in Nat

NoPhase == ""            \* the shown phase that equals none
Pictures == [drawn : Phases \cup {"starting"}, dim : BOOLEAN, size : Scales]
Statuses == [phase : Phases, verifying : BOOLEAN]

VARIABLES
  status,        \* what StatusFn answers
  up, shelf,     \* Explorer runs; the icon it shows, its words and, as history, the
                 \* parts of it whose last change it did not get
  scale,         \* iconSizeFor: the size the screen asks
  picture,       \* Tray.icon: the picture last drawn
  shown, tipShown, size, iconAdded, pulsing, dim,
  pending, notifier, mail,       \* the balloons, who is queueing one, the messages posted
  loop,          \* "none", "window", "running", "over"
  isCancelled, closingOurselves, endingSession,
  quitAsked,     \* OnQuit has been called
  unasked,       \* history: nobody has closed the window, and no session has ended
  gaveUp,        \* history: the tray could not start
  moves

iconVars == <<picture, shown, tipShown, size, iconAdded, pulsing, dim>>
endVars == <<isCancelled, closingOurselves, endingSession, quitAsked, unasked, gaveUp>>
balloonVars == <<pending, notifier>>
trayVars == <<status, up, shelf, scale, iconVars, balloonVars, mail, loop, endVars, moves>>

TrayInit ==
  /\ status \in Statuses /\ up = TRUE /\ shelf = NoIcon /\ scale \in Scales
  /\ picture = NoIcon /\ shown = NoPhase /\ tipShown = <<>> /\ size = scale /\ iconAdded = FALSE
  /\ pulsing = FALSE /\ dim = FALSE
  /\ pending = 0 /\ notifier = "idle" /\ mail = {} /\ loop = "none"
  /\ isCancelled = FALSE /\ closingOurselves = FALSE /\ endingSession = FALSE /\ quitAsked = FALSE
  /\ unasked = TRUE /\ gaveUp = FALSE /\ moves = 0

Moves == moves < MaxMoves /\ moves' = moves + 1

-----------------------------------------------------------------------------
\* What can fail while a message is handled: a picture is not made; Explorer does not
\* take the icon, or takes it and says that it does not; it does not take the change
\* that asks whether the icon is there, the one that paints it again, the one that
\* tells of a new state, or the one that takes the icon away.  Calls of one kind in
\* one message share their fate, and a message with a failure is a move of the desktop.
ToBeAdded == {"draw", "add", "late"}
ToBeChanged == {"draw", "repaint", "change"}
Costs(fails) == IF fails = {} THEN UNCHANGED moves ELSE Moves

\* What the thread does with the icon, as functions of one record.

Tray == [picture |-> picture, shown |-> shown, tip |-> tipShown, size |-> size, pulsing |-> pulsing, dim |-> dim,
         shelf |-> shelf]

BecomesThe(made) == \E t \in {made} :
  /\ picture' = t.picture /\ shown' = t.shown /\ tipShown' = t.tip /\ size' = t.size /\ pulsing' = t.pulsing
  /\ dim' = t.dim /\ shelf' = t.shelf

VerdictOf(phase) == IF phase \in {"home", "outside"} THEN "ok" ELSE phase
Tip(st) == <<VerdictOf(st.phase), IF st.verifying THEN "verifying" ELSE st.phase>>

\* A phase with no colour of its own, and so the unknown one, is painted as the start.
Colour(phase) == IF phase = NoPhase THEN "starting" ELSE phase

Painted(t, phase) == [t EXCEPT !.picture = [drawn |-> Colour(phase), dim |-> t.dim, size |-> t.size]]

\* NIM_MODIFY, with what is new in it.  The words go with every change, and a change
\* needs an icon.  One that is refused leaves the icon as it was, and nobody asks.
Unheard(t, news) == IF t.shelf = NoIcon THEN t ELSE [t EXCEPT !.shelf.unsent = @ \cup news]
Modified(t, news, taken) ==
  IF t.shelf = NoIcon \/ ~taken THEN Unheard(t, news)
  ELSE [t EXCEPT !.shelf = [picture |-> IF "picture" \in news THEN t.picture ELSE @.picture, tip |-> t.tip,
                            unsent |-> @.unsent \ (news \cup {"words"})]]

Repainted(t, fails) ==
  IF "draw" \in fails THEN Unheard(t, {"picture"}) ELSE Modified(Painted(t, t.shown), {"picture"}, "repaint" \notin fails)

JustDark(t, fails) == [t EXCEPT !.dim = FALSE]                      \* mutant
LitAgain(t, fails) == IF t.dim THEN Repainted([t EXCEPT !.dim = FALSE], fails) ELSE t

PulseIs(t, want, fails) ==
  IF want = t.pulsing THEN t
  ELSE IF want THEN [t EXCEPT !.pulsing = TRUE] ELSE LitAgain([t EXCEPT !.pulsing = FALSE], fails)

\* A change of the state is sent once: what was sent is what is compared with next.
Refreshed(from, fails) ==
  LET t == PulseIs(from, status.verifying, fails)
      redraws == t.shown # status.phase /\ "draw" \notin fails
      drawn == IF redraws THEN [Painted(t, status.phase) EXCEPT !.shown = status.phase] ELSE t
      news == {"words"} \cup IF redraws THEN {"picture"} ELSE {}
  IN IF t.shown = status.phase /\ t.tip = Tip(status) THEN t
     ELSE Modified([drawn EXCEPT !.tip = Tip(status)], news, "change" \notin fails)

KeepsTheShown(t) == t.shown                                        \* mutant
ShownAtTheOldSize(t) == NoPhase

Resized(t, fails) ==
  IF t.size = scale THEN t
  ELSE Refreshed([t EXCEPT !.size = scale, !.shown = ShownAtTheOldSize(t)], fails)

\* NIM_ADD is taken when Explorer runs, is not busy, and has no such icon.
MayBeAdded(t, fails) == {"draw", "add"} \cap fails = {} /\ up /\ t.shelf = NoIcon
IsTaken(t, fails) == MayBeAdded(t, fails) /\ "late" \notin fails
Added(t, fails) ==
  LET drawn == IF "draw" \in fails THEN t ELSE Painted(t, status.phase)
      onTheShelf == [drawn EXCEPT !.shelf = [picture |-> drawn.picture, tip |-> Tip(status), unsent |-> {}]]
  IN IF ~MayBeAdded(t, fails) THEN drawn
     ELSE IF "late" \in fails THEN onTheShelf
     ELSE [onTheShelf EXCEPT !.shown = status.phase, !.tip = Tip(status)]

-----------------------------------------------------------------------------
\* The start: the window, then the icon, then the message for the balloons that
\* were queued before there was a window.

CreatesTheWindow ==
  /\ loop = "none" /\ loop' = "window"
  /\ UNCHANGED <<status, up, shelf, scale, iconVars, balloonVars, mail, endVars, moves>>

NothingPosted == mail                                              \* mutant
PostedAtTheStart == mail \cup {"balloon"}

\* A tray that could not start takes away what it may have left.
AddsTheIcon ==
  /\ loop = "window"
  /\ \E fails \in SUBSET (ToBeAdded \cup {"change", "remove"}) :
       /\ Costs(fails)
       /\ IF IsTaken(Tray, fails)
            THEN /\ \E t \in {Added(Tray, fails)} : BecomesThe(Resized(t, fails))
                 /\ iconAdded' = TRUE
                 /\ mail' = PostedAtTheStart /\ loop' = "running" /\ UNCHANGED gaveUp
            ELSE /\ loop' = "over" /\ gaveUp' = TRUE
                 /\ shelf' = IF "remove" \in fails THEN Added(Tray, fails).shelf ELSE NoIcon
                 /\ UNCHANGED <<iconVars, mail>>
  /\ UNCHANGED <<status, up, scale, balloonVars, isCancelled, closingOurselves, endingSession, quitAsked, unasked>>

\* The timer of a second: the icon that could not be put back is tried again, and
\* one that is there after all, and takes a change, is recognised as such.
OnlyWhenAdded(t, fails) == IsTaken(t, fails)                        \* mutant
IsBack(t, fails) == IsTaken(t, fails) \/ (Added(t, fails).shelf # NoIcon /\ "there" \notin fails)

Restored(t, fails) ==
  [(IF IsTaken(t, fails) THEN Added(t, fails) ELSE Modified(Added(t, fails), {}, TRUE)) EXCEPT !.shown = NoPhase]

Timer ==
  /\ loop = "running"
  /\ \E fails \in SUBSET (ToBeChanged \cup IF iconAdded THEN {} ELSE ToBeAdded \cup {"there"}) :
       /\ Costs(fails)
       /\ IF iconAdded THEN BecomesThe(Refreshed(Tray, fails)) /\ UNCHANGED iconAdded
          ELSE IF IsBack(Tray, fails)
            THEN /\ \E t \in {Restored(Tray, fails)} : \E u \in {Resized(t, fails)} : BecomesThe(Refreshed(u, fails))
                 /\ iconAdded' = TRUE
          ELSE BecomesThe(Added(Tray, fails)) /\ UNCHANGED iconAdded
  /\ UNCHANGED <<status, up, scale, balloonVars, mail, loop, endVars>>

\* The timer of the pulse paints the phase that is shown, darker or not.
Pulse ==
  /\ loop = "running" /\ pulsing
  /\ \E fails \in SUBSET {"draw", "repaint"}, darker \in BOOLEAN :
       Costs(fails) /\ BecomesThe(Repainted([Tray EXCEPT !.dim = darker], fails))
  /\ UNCHANGED <<status, up, scale, iconAdded, balloonVars, mail, loop, endVars>>

-----------------------------------------------------------------------------
\* The messages.

Takes(message) == loop = "running" /\ message \in mail /\ mail' = mail \ {message}

ExplorerIsBack ==
  /\ Takes("taskbar")
  /\ \E fails \in SUBSET (ToBeAdded \cup ToBeChanged) :
       /\ Costs(fails) /\ iconAdded' = IsTaken(Tray, fails)
       /\ \E t \in {Added([Tray EXCEPT !.shown = NoPhase], fails)} :
            BecomesThe(IF IsTaken(Tray, fails) THEN Resized(t, fails) ELSE t)
  /\ UNCHANGED <<status, up, scale, balloonVars, loop, endVars>>

ScaleChanged ==
  /\ Takes("scale")
  /\ \E fails \in SUBSET ToBeChanged : Costs(fails) /\ BecomesThe(Resized(Tray, fails))
  /\ UNCHANGED <<status, up, scale, iconAdded, balloonVars, loop, endVars>>

\* Every balloon in the queue is shown; with no icon, or refused, it is not.
DrainsBalloons ==
  /\ Takes("balloon") /\ pending' = 0
  /\ \E fails \in SUBSET {"change"} :
       Costs(fails) /\ BecomesThe(IF pending > 0 THEN Modified(Tray, {}, "change" \notin fails) ELSE Tray)
  /\ UNCHANGED <<status, up, scale, iconAdded, notifier, loop, endVars>>

\* The window is closed: from outside, and then the monitor has to leave as well,
\* or by the tray itself, because the monitor is leaving already.
NobodyToTell == FALSE                                              \* mutant
IsToTell == ~closingOurselves /\ ~endingSession

\* The icon is taken away, unless Windows is going and Explorer with it.
Closes ==
  /\ Takes("close") /\ loop' = "over"
  /\ quitAsked' = (quitAsked \/ IsToTell)
  /\ \E fails \in SUBSET {"remove"} :
       Costs(fails) /\ shelf' = IF endingSession \/ "remove" \in fails THEN shelf ELSE NoIcon
  /\ UNCHANGED <<status, up, scale, iconVars, balloonVars, isCancelled, closingOurselves, endingSession, unasked, gaveUp>>

\* WM_ENDSESSION: the session really ends, or its end was called off.
AnyEnd(really) == TRUE                                             \* mutant
IsReallyEnding(really) == really

WindowsEnds ==
  /\ loop = "running" /\ Moves
  /\ \E really \in BOOLEAN :
       /\ endingSession' = (endingSession \/ IsReallyEnding(really))
       /\ quitAsked' = (quitAsked \/ IsReallyEnding(really))
       /\ unasked' = (unasked /\ ~really)
  /\ UNCHANGED <<status, up, shelf, scale, iconVars, balloonVars, mail, loop, isCancelled, closingOurselves, gaveUp>>

-----------------------------------------------------------------------------
\* Around the tray: the program, whose context ends and whose goroutines notify,
\* and the desktop.

\* notify: the balloon is queued, and then the thread is called, if there is one.
Queues ==
  /\ notifier = "idle" /\ Moves /\ notifier' = "calls" /\ pending' = pending + 1
  /\ UNCHANGED <<status, up, shelf, scale, iconVars, mail, loop, endVars>>
Calls ==
  /\ notifier = "calls" /\ notifier' = "idle"
  /\ mail' = IF loop \in {"window", "running"} THEN mail \cup {"balloon"} ELSE mail
  /\ UNCHANGED <<status, up, shelf, scale, iconVars, pending, loop, endVars, moves>>

\* The context ends: the goroutine that waits for it closes the window.
Cancels ==
  /\ loop = "running" /\ ~isCancelled /\ isCancelled' = TRUE /\ closingOurselves' = TRUE /\ mail' = mail \cup {"close"}
  /\ UNCHANGED <<status, up, shelf, scale, iconVars, balloonVars, loop, endingSession, quitAsked, unasked, gaveUp, moves>>

ClosedOutside ==
  /\ loop = "running" /\ Moves /\ mail' = mail \cup {"close"} /\ unasked' = FALSE
  /\ UNCHANGED <<status, up, shelf, scale, iconVars, balloonVars, loop, isCancelled, closingOurselves, endingSession,
                 quitAsked, gaveUp>>

StatusChanges ==
  /\ Moves /\ status' \in Statuses /\ status' # status
  /\ UNCHANGED <<up, shelf, scale, iconVars, balloonVars, mail, loop, endVars>>

ExplorerDies ==
  /\ up /\ Moves /\ up' = FALSE /\ shelf' = NoIcon
  /\ UNCHANGED <<status, scale, iconVars, balloonVars, mail, loop, endVars>>
ExplorerStarts ==
  /\ ~up /\ up' = TRUE /\ mail' = IF loop \in {"window", "running"} THEN mail \cup {"taskbar"} ELSE mail
  /\ UNCHANGED <<status, shelf, scale, iconVars, balloonVars, loop, endVars, moves>>

\* A change of scale is told, and Explorer may say that it has restarted.
ScaleMoves ==
  /\ Moves /\ scale' \in Scales \ {scale}
  /\ \E also \in SUBSET {"taskbar"} :
       mail' = IF loop \in {"window", "running"} THEN mail \cup {"scale"} \cup also ELSE mail
  /\ UNCHANGED <<status, up, shelf, iconVars, balloonVars, loop, endVars>>

-----------------------------------------------------------------------------
TakesAMessage == ExplorerIsBack \/ ScaleChanged \/ DrainsBalloons \/ Closes

TrayNext ==
  \/ CreatesTheWindow \/ AddsTheIcon \/ Timer \/ Pulse \/ TakesAMessage \/ WindowsEnds
  \/ Queues \/ Calls \/ Cancels \/ ClosedOutside \/ StatusChanges \/ ExplorerDies \/ ExplorerStarts \/ ScaleMoves

TraySpec == TrayInit /\ [][TrayNext]_trayVars

TrayTypeOK ==
  /\ status \in Statuses /\ up \in BOOLEAN /\ scale \in Scales /\ size \in Scales
  /\ picture \in Pictures \cup {NoIcon} /\ shown \in Phases \cup {NoPhase}
  /\ shelf # NoIcon => up /\ shelf.picture \in Pictures /\ shelf.unsent \subseteq {"picture", "words"}
  /\ {iconAdded, pulsing, dim, isCancelled, closingOurselves, endingSession, quitAsked, unasked, gaveUp} \subseteq BOOLEAN
  /\ pending \in 0..MaxMoves /\ mail \subseteq {"taskbar", "scale", "balloon", "close"} /\ moves \in 0..MaxMoves
  /\ loop \in {"none", "window", "running", "over"}

\* The icon never stays with the words, the colour or the size of a state that is
\* past, whatever Explorer did and whatever picture could not be made; except for what
\* it was told last and did not get, which the code takes for told.
IsTold ==
  /\ shelf # NoIcon
  /\ "picture" \in shelf.unsent \/ (shelf.picture.drawn = status.phase /\ shelf.picture.size = scale)
  /\ "words" \in shelf.unsent \/ shelf.tip = Tip(status)

TheIconTells == []<>(IsTold \/ ~up \/ loop # "running")

\* A balloon queued while the thread is there, or before it was, is not left in the
\* queue: a message that empties it is on its way.
NoBalloonWaits == pending > 0 /\ loop = "running" => "balloon" \in mail \/ notifier = "calls"

\* The tray never ends alone: the monitor was leaving, has been told to, or never
\* had a tray.
TheMonitorKnows == loop = "over" => quitAsked \/ isCancelled \/ gaveUp

\* Nothing that Windows asks or calls off closes the monitor: only a window closed
\* from outside, or a session that really ends.
NoQuitUnasked == quitAsked => ~unasked

\* When a verification is over the icon is at full light, unless the picture of it was
\* not made or Explorer refused it.
TheIconIsLit == shelf # NoIcon /\ ~pulsing /\ "picture" \notin shelf.unsent => ~shelf.picture.dim

\* Together: no balloon is forgotten, the monitor learns of an icon that ended, nobody
\* quits who was not asked to, and no icon is left dimmed.
TraySafety == TrayTypeOK /\ NoBalloonWaits /\ TheMonitorKnows /\ NoQuitUnasked /\ TheIconIsLit
=============================================================================
