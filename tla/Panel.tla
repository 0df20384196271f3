------------------------------- MODULE Panel -------------------------------
(***************************************************************************)
(* internal/tray, the panel that the icon opens: on paper, what it shows and*)
(* where, and in use, what its buttons and the icon do to it.              *)
(***************************************************************************)
EXTENDS Integers, Sequences, FiniteSets
LOCAL INSTANCE SequencesExt
LOCAL INSTANCE FiniteSetsExt

(***************************************************************************)
(* internal/tray, the panel on paper: which commands it has, in which      *)
(* order, and where everything it shows is put.  Measures are in points at *)
(* 96 to the inch and become pixels; a text is the height it is drawn in,  *)
(* and the code is its number of modules, the quiet zone included.         *)
(***************************************************************************)
CONSTANTS Contents,  \* what a panel can have to offer: sets of names of Offers
          Screens,   \* the densities of a screen
          Texts,     \* the heights that a text can be measured at
          Codes      \* the numbers of modules of a code; 0 is no code

ASSUME LayoutAssumption ==
  /\ \A s \in Screens : s >= 96
  /\ Texts \subseteq Nat /\ Codes \subseteq Nat

\* The measures: flyWidth, flyPadding and so on.
Width == 260
Padding == 12
CodeSide == 150
CodeRadius == 8
BlockGap == 10
TextRow == 20
ButtonSide == 40
ButtonGap == 6
AddressSide == 26
MaxStatusRows == 3

-----------------------------------------------------------------------------
\* The commands, in their order: what leads above the code, the address, the rest.

Command(name, style) ==
  [name |-> name, style |-> style, lead |-> FALSE, share |-> FALSE, asks |-> FALSE, stays |-> FALSE]
Lead(name, style) == [Command(name, style) EXCEPT !.lead = TRUE]
Asks(name) == [Command(name, "ghost") EXCEPT !.asks = TRUE]

Everything ==
  <<Lead("settings", "ghost"), Lead("todo", "pill"), Command("address", "text"), Command("update", "ghost"),
    Command("setup", "ghost"), Asks("reset"), Asks("revoke"), Command("videos", "ghost"), Command("logs", "ghost"),
    Command("quit", "ghost")>>

Folders == {"videos", "logs"}
Offers == {"settings", "todo", "address", "update", "setup", "reset", "revoke", "glyphs"} \cup Folders
ASSUME ContentsAssumption == \A has \in Contents : has \subseteq Offers

\* The folders' commands are pictures in one row, or words when a picture is not read.
Folder(c, has) ==
  IF c.name \in Folders /\ "glyphs" \in has
    THEN [c EXCEPT !.style = "icon", !.share = (c.name = "logs" /\ "videos" \in has)] ELSE c

Compose(has) ==
  LET Offered(c) == c.name \in has \/ c.name = "quit" IN
  [i \in DOMAIN SelectSeq(Everything, Offered) |-> Folder(SelectSeq(Everything, Offered)[i], has)]

\* A question has its two answers, the one that does nothing first.
YesFirst == <<Command("yes", "ghost"), [Command("no", "ghost") EXCEPT !.stays = TRUE]>>   \* mutant
Answers == <<[Command("no", "ghost") EXCEPT !.stays = TRUE], Command("yes", "ghost")>>

-----------------------------------------------------------------------------
\* The rows: a command that leads has its own, one that shares joins the row before it.

Indices(cmds, Test(_)) == SelectSeq([i \in DOMAIN cmds |-> i], Test)

NoneLeads(cmds) == DOMAIN cmds                                     \* mutant
Ordinary(cmds) == {i \in DOMAIN cmds : ~cmds[i].lead}
Leading(cmds) == Indices(cmds, LAMBDA i : cmds[i].lead)

Starts(cmds) == {i \in Ordinary(cmds) : ~cmds[i].share \/ \A j \in Ordinary(cmds) : j >= i}
RowFrom(cmds, s) == Indices(cmds, LAMBDA i : i \in Ordinary(cmds) /\ i >= s /\ \A j \in Starts(cmds) : j <= s \/ j > i)
Rows(cmds) ==
  LET starts == Indices(cmds, LAMBDA i : i \in Starts(cmds)) IN [k \in DOMAIN starts |-> RowFrom(cmds, starts[k])]

\* Where the focus falls when the panel opens: never on the address.
FirstOf(candidates) == IF candidates = <<>> THEN 0 ELSE Head(candidates)
FocusIndex(cmds) ==
  FirstOf(SelectSeq(Leading(cmds) \o FlattenSeq(Rows(cmds)), LAMBDA i : cmds[i].style # "text"))

-----------------------------------------------------------------------------
\* A sheet is what the panel shows: its commands, the heights of its texts, the
\* body of a question, the code, and the screen.

Px(s, dip) == (dip * s.screen) \div 96
PanelWidth(s) == Px(s, Width)

CmdHeight(s, c) == IF c.style = "text" THEN Px(s, AddressSide) ELSE Px(s, ButtonSide)
RowHeight(s, row) == Max({CmdHeight(s, s.cmds[i]) : i \in ToSet(row)})

RowsBegun(text, row) == text \div row                              \* mutant
RowsNeeded(text, row) == (text + row - 1) \div row
LineHeight(s, text) ==
  LET row == Px(s, TextRow) IN Min({Max({RowsNeeded(text, row), 1}), MaxStatusRows}) * row

\* createQR: whole pixels to a module, and so a side that only comes near the one asked.
ScaleAbove(s) == (Px(s, CodeSide) + s.code - 1) \div s.code         \* mutant
ModuleScale(s) == Max({Px(s, CodeSide) \div s.code, 2})
CodePx(s) == s.code * ModuleScale(s)

\* insideRounded: the paper has round corners, and the ink keeps clear of them.
QuietZone == 4
HeldBetween(v, low, high) == Min({Max({v, low}), high})
InsideRounded(x, y, side, radius) ==
  LET dx == x - HeldBetween(x, radius, side - 1 - radius)
      dy == y - HeldBetween(y, radius, side - 1 - radius)
  IN radius <= 0 \/ dx * dx + dy * dy <= radius * radius

\* layout: what is shown, from the top down, each thing with the gap before it.
Block(what, items, gap, height) == [what |-> what, items |-> items, gap |-> gap, height |-> height]
GapBefore(s, k) == Px(s, IF k = 1 THEN BlockGap ELSE ButtonGap)

StackOf(s) ==
  LET leads == Leading(s.cmds)  rows == Rows(s.cmds) IN
     [i \in DOMAIN s.lines |-> Block("text", <<>>, 0, LineHeight(s, s.lines[i]))]
  \o [k \in DOMAIN leads |-> Block("buttons", <<leads[k]>>, GapBefore(s, k), CmdHeight(s, s.cmds[leads[k]]))]
  \o (IF s.body > 0 THEN <<Block("text", <<>>, 0, s.body)>> ELSE <<>>)
  \o (IF s.code > 0 /\ ~s.asked THEN <<Block("code", <<>>, Px(s, BlockGap), CodePx(s))>> ELSE <<>>)
  \o [k \in DOMAIN rows |-> Block("buttons", rows[k], GapBefore(s, k), RowHeight(s, rows[k]))]

Sum(numbers) == FoldLeft(LAMBDA a, b : a + b, 0, numbers)
BottomOf(s, stack, k) ==
  Px(s, Padding) + Sum([j \in 1..k |-> stack[j].gap + stack[j].height])
WholeHeight(s, stack) == BottomOf(s, stack, Len(stack)) + Px(s, Padding)

\* rowSpans: the columns of a row, the first ones a pixel wider when it does not divide.
AlwaysExtra(room, n, k) == IF room % n = 0 THEN 0 ELSE 1           \* mutant
ExtraOf(room, n, k) == IF k <= room % n THEN 1 ELSE 0

SpanOf(s, n, k) ==
  LET room == PanelWidth(s) - (2 * Px(s, Padding)) - ((n - 1) * Px(s, ButtonGap))
      WidthOf(j) == (room \div n) + ExtraOf(room, n, j)
  IN [left |-> Px(s, Padding) + Sum([j \in 1..(k - 1) |-> WidthOf(j) + Px(s, ButtonGap)]), width |-> WidthOf(k)]

\* place: the buttons go where the layout left room for them.
Box(what, span, top, height) ==
  [what |-> what, left |-> span.left, right |-> span.left + span.width, top |-> top, bottom |-> top + height]

BoxesOf(s, stack, k) ==
  LET b == stack[k]
      top == BottomOf(s, stack, k) - b.height
  IN CASE b.what = "buttons" ->
            {Box(b.items[j], SpanOf(s, Len(b.items), j), top, CmdHeight(s, s.cmds[b.items[j]])) : j \in DOMAIN b.items}
       [] b.what = "code" -> {Box(0, [left |-> (PanelWidth(s) - CodePx(s)) \div 2, width |-> CodePx(s)], top, b.height)}
       [] b.what = "text" -> {Box(0 - k, SpanOf(s, 1, 1), top, b.height)}

-----------------------------------------------------------------------------
VARIABLES sheet, isLaid

layoutVars == <<sheet, isLaid>>
Blank == [cmds |-> Answers, lines |-> <<>>, body |-> 0, asked |-> TRUE, code |-> 0, screen |-> 96]

LayoutInit == sheet = Blank /\ isLaid = FALSE

\* The panel is composed for what there is, or asks a question: its title is a line
\* and its explanation the body.
Lays ==
  /\ ~isLaid /\ isLaid' = TRUE
  /\ \E screen \in Screens, code \in Codes, first \in Texts :
       \/ \E has \in Contents, lines \in {<<first>>, <<first, 18, 18>>} :
            sheet' = [cmds |-> Compose(has), lines |-> lines, body |-> 0, asked |-> FALSE, code |-> code,
                      screen |-> screen]
       \/ \E body \in Texts :
            sheet' = [cmds |-> Answers, lines |-> <<first>>, body |-> body, asked |-> TRUE, code |-> code,
                      screen |-> screen]

LayoutNext == Lays

-----------------------------------------------------------------------------
\* Nothing the panel shows lies over anything else, or outside its paper.
Apart(a, b) == a.bottom <= b.top \/ b.bottom <= a.top \/ a.right <= b.left \/ b.right <= a.left

NothingOverlaps == isLaid =>
  LET stack == StackOf(sheet)
      pad == Px(sheet, Padding)
      boxes == UNION {BoxesOf(sheet, stack, k) : k \in DOMAIN stack}
  IN /\ \A a, b \in boxes : a = b \/ Apart(a, b)
     /\ \A a \in boxes : /\ a.left >= pad /\ a.right <= PanelWidth(sheet) - pad
                         /\ a.top >= pad /\ a.bottom <= WholeHeight(sheet, stack) - pad

\* Every command has one button, and a row's buttons fill it from edge to edge,
\* whatever the screen's density does to the division.
TheRowsAreFull == isLaid =>
  LET stack == StackOf(sheet)
      boxes == UNION {{b \in BoxesOf(sheet, stack, k) : b.what > 0} : k \in DOMAIN stack}
      rights == {b.right : b \in boxes}
  IN /\ \A i \in DOMAIN sheet.cmds : Cardinality({b \in boxes : b.what = i}) = 1
     /\ \A b \in boxes : \E last \in boxes : /\ last.top = b.top
                                             /\ last.right = PanelWidth(sheet) - Px(sheet, Padding)

\* A status that needs more rows gets them, up to three: none is cut off in fewer.
TheTextIsRead == isLaid =>
  \A i \in DOMAIN sheet.lines :
    LET height == LineHeight(sheet, sheet.lines[i]) IN
    height >= sheet.lines[i] \/ height = MaxStatusRows * Px(sheet, TextRow)

\* The code keeps to the room it is given and can be read: its ink is all on the
\* paper, which has round corners.
TheCodeIsWhole == isLaid /\ sheet.code > 0 =>
  LET side == CodePx(sheet)  corner == QuietZone * ModuleScale(sheet)
      ink == {corner, side - 1 - corner}
  IN /\ side <= Px(sheet, CodeSide)
     /\ \A x, y \in ink : InsideRounded(x, y, side, Px(sheet, CodeRadius))

-----------------------------------------------------------------------------
(***************************************************************************)
(* internal/tray, the panel in use: a gesture on the icon opens it or      *)
(* closes it, a command is run from it, and what cannot be undone is asked *)
(* about first, inside it.                                                 *)
(*                                                                         *)
(* A gesture is a press followed by one or more messages of the icon, and  *)
(* the press itself takes the activation away from a panel that has it.    *)
(* Time is in fractions of the system's double click, and zero is never.   *)
(***************************************************************************)
CONSTANTS DoubleClick, MaxMessages, MaxTime   \* MaxTime: bound

ASSUME PanelAssumption == DoubleClick \in Nat \ {0} /\ MaxMessages \in Nat \ {0} /\ MaxTime > DoubleClick

Irreversible == {"reset", "revoke"}
Nothing == ""
NoGesture == [kind |-> "none", left |-> 0, at |-> 0, fresh |-> FALSE, slow |-> FALSE, turns |-> 0]

VARIABLES
  has,           \* what there is to offer: the status and the configuration
  opened, active, \* the panel's window, and whether it has the foreground
  cmds, asking, cursor,           \* flyout.cmds, flyout.pending, and the button with the focus
  now, lastPanel, lastOpen,       \* the instants of Tray
  gesture,       \* history: the last gesture on the icon, and how many turns it made
  ran,           \* history: the last command run, the question it answered, and whether the
                 \* keyboard ran it with the focus as it was put
  touched        \* history: the person has moved the focus

panelVars == <<has, opened, active, cmds, asking, cursor, now, lastPanel, lastOpen, gesture, ran, touched>>
windowVars == <<opened, active, cmds, asking, cursor, touched>>

PanelInit ==
  /\ has \in Contents /\ opened = FALSE /\ active = FALSE /\ cmds = <<>> /\ asking = Nothing /\ cursor = 0
  /\ now = DoubleClick /\ lastPanel = 0 /\ lastOpen = 0
  /\ gesture = NoGesture /\ ran = [what |-> Nothing, after |-> Nothing, untouched |-> FALSE] /\ touched = FALSE

\* newGesture: a message close to the last one that counted is the same gesture.
IsNew(last) == now - last >= DoubleClick

-----------------------------------------------------------------------------
\* compose and rebuild: the commands, and the focus on the first that can have it.
Page(commands) == [cmds |-> commands, cursor |-> FocusIndex(commands)]
HomePage == [offered \in Contents |-> Page(Compose(offered))]
Question == Page(Answers)

Shows(page, question) ==
  /\ cmds' = page.cmds /\ asking' = question /\ cursor' = page.cursor /\ touched' = FALSE

ForgetsWhen == lastPanel                                           \* mutant
PanelClosedAt == now

\* The window is destroyed, whatever the reason: the instant is kept.
Destroyed ==
  /\ opened' = FALSE /\ active' = FALSE /\ cmds' = <<>> /\ asking' = Nothing /\ cursor' = 0 /\ touched' = FALSE
  /\ lastPanel' = PanelClosedAt

\* showFlyout: it opens, unless Windows refuses the window, and is given the
\* foreground or not.
Created ==
  /\ opened' = TRUE /\ active' \in BOOLEAN /\ Shows(HomePage[has], Nothing) /\ lastPanel' = now
NotCreated == UNCHANGED windowVars /\ lastPanel' = now

Turned == gesture' = [gesture EXCEPT !.left = @ - 1, !.turns = @ + 1, !.slow = @ \/ now - gesture.at >= DoubleClick]
SameGesture == gesture' = [gesture EXCEPT !.left = @ - 1, !.slow = @ \/ now - gesture.at >= DoubleClick]

\* The press: a panel with the activation loses it, and closes.
Presses(kind) ==
  /\ gesture.left = 0
  /\ \E messages \in 1..MaxMessages :
       gesture' = [kind |-> kind, left |-> messages, at |-> now, slow |-> FALSE,
                   fresh |-> IsNew(IF kind = "right" THEN lastPanel ELSE lastOpen),
                   turns |-> IF active /\ kind = "right" THEN 1 ELSE 0]
  /\ IF active THEN Destroyed ELSE UNCHANGED <<windowVars, lastPanel>>
  /\ UNCHANGED <<has, now, lastOpen, ran>>

\* iconEvent, the right button or the menu key.
RightEvent ==
  /\ gesture.kind = "right" /\ gesture.left > 0
  /\ IF ~IsNew(lastPanel) THEN SameGesture /\ UNCHANGED <<windowVars, lastPanel>>
     ELSE /\ Turned
          /\ IF opened THEN Destroyed ELSE Created \/ NotCreated
  /\ UNCHANGED <<has, now, lastOpen, ran>>

\* iconEvent, the left button or the return key: the page is opened.
AnyMessage(last) == TRUE                                           \* mutant
IsActivation(last) == IsNew(last)

LeftEvent ==
  /\ gesture.kind = "left" /\ gesture.left > 0
  /\ IF IsActivation(lastOpen) THEN Turned /\ lastOpen' = now ELSE SameGesture /\ UNCHANGED lastOpen
  /\ UNCHANGED <<has, windowVars, now, lastPanel, ran>>

-----------------------------------------------------------------------------
\* command: a question for what asks one, the answer that stays, or the panel
\* closes and the command runs.
NeverAsks(c) == FALSE                                              \* mutant
IsAsked(c) == c.asks

Runs(c, untouched) ==
  \/ /\ IsAsked(c) /\ Shows(Question, c.name)
     /\ UNCHANGED <<opened, active, lastPanel, ran>>
  \/ /\ ~IsAsked(c) /\ c.stays /\ Shows(HomePage[has], Nothing)
     /\ UNCHANGED <<opened, active, lastPanel, ran>>
  \/ /\ ~IsAsked(c) /\ ~c.stays /\ Destroyed
     /\ ran' = [what |-> IF c.name = "yes" THEN asking ELSE c.name, after |-> asking, untouched |-> untouched]

\* A button is pressed with the pointer, or with the keyboard where the focus is.
Clicks(i) ==
  /\ opened /\ gesture.left = 0 /\ Runs(cmds[i], FALSE)
  /\ UNCHANGED <<has, now, lastOpen, gesture>>
Enters ==
  /\ opened /\ active /\ gesture.left = 0 /\ cursor # 0 /\ Runs(cmds[cursor], ~touched)
  /\ UNCHANGED <<has, now, lastOpen, gesture>>
MovesTheFocus ==
  /\ opened /\ active /\ cursor' \in DOMAIN cmds /\ touched' = TRUE
  /\ UNCHANGED <<has, opened, active, cmds, asking, now, lastPanel, lastOpen, gesture, ran>>

\* Escape answers no to a question, and closes a panel that asks nothing.
Escapes ==
  /\ opened /\ active /\ gesture.left = 0
  /\ IF asking # Nothing THEN Shows(HomePage[has], Nothing) /\ UNCHANGED <<opened, active, lastPanel>> ELSE Destroyed
  /\ UNCHANGED <<has, now, lastOpen, gesture, ran>>

LosesActivation ==
  /\ active /\ Destroyed
  /\ UNCHANGED <<has, now, lastOpen, gesture, ran>>

OffersChange ==
  /\ has' \in Contents \ {has}
  /\ UNCHANGED <<windowVars, now, lastPanel, lastOpen, gesture, ran>>

TimePasses ==
  /\ now < MaxTime /\ now' = now + 1
  /\ UNCHANGED <<has, windowVars, lastPanel, lastOpen, gesture, ran>>

PanelNext ==
  \/ \E kind \in {"left", "right"} : Presses(kind)
  \/ RightEvent \/ LeftEvent \/ (\E i \in DOMAIN cmds : Clicks(i)) \/ Enters \/ MovesTheFocus \/ Escapes
  \/ LosesActivation \/ OffersChange \/ TimePasses

-----------------------------------------------------------------------------
\* What cannot be undone is never run but as the answer to its own question.
ConfirmedOnly == ran.what \in Irreversible => ran.after = ran.what

\* The keyboard, pressed without a look, undoes nothing: the focus a panel or a
\* question opens with is never on the address, and never on the answer that acts.
EnterIsSafe ==
  /\ ran.what \in Irreversible => ~ran.untouched
  /\ opened /\ ~touched /\ cursor # 0 => cmds[cursor].style # "text"

\* One gesture, one turn: however many messages a click or a double click becomes,
\* and whether or not the press has closed the panel already, the panel turns once
\* and the page is opened once.
AGestureIsOneTurn == gesture.kind # "none" /\ gesture.left = 0 /\ gesture.fresh /\ ~gesture.slow => gesture.turns = 1

\* Together: what the panel shows fits and does not overlap, and neither a gesture
\* nor a key runs what was not asked for.
PanelSafety ==
  /\ NothingOverlaps /\ TheRowsAreFull /\ TheTextIsRead /\ TheCodeIsWhole
  /\ ConfirmedOnly /\ EnterIsSafe /\ AGestureIsOneTurn
=============================================================================
