--------------------------- MODULE OutsideProofs ---------------------------
(***************************************************************************)
(* Proofs about what surrounds the watching: the program's parts and its   *)
(* second copy (Program), remote access (Tunnel), the icon (Tray), the     *)
(* newest version (Updates) and the gestures on the panel (Panel), for any *)
(* parts, waits, phases, sizes, versions and any number of moves.          *)
(*                                                                         *)
(* Each part has an inductive invariant of its own.  The tray's thread is  *)
(* a composition of functions of one record: the lemmas say what each of   *)
(* them keeps, and the actions need no more.                               *)
(***************************************************************************)
EXTENDS Program, Tunnel, Tray, Updates, Panel, TLAPS

-----------------------------------------------------------------------------
(*                               The program                               *)

\* Only a size that is known has been lowered.
TheSizeLoweredIsKnown == "format" \in levers => sizeKnown

\* A copy that listens has the port, and the first keeps it until its server is
\* told to stop.
ThePortIsHeld ==
  /\ IsAlive /\ part["server"] = "running" /\ part["shutdown"] = "running" => port = "first"
  /\ second = "watching" => port = "second"

\* run goes on past its group when nothing of it is left.
NothingIsLeft == main \in {"saving", "leaving", "held"} => AllEnded

ProgramInv ==
  ProgramTypeOK /\ AccessoriesAreApart /\ ThePictureIsGivenBack /\ OneCopyAtATime
    /\ TheSizeLoweredIsKnown /\ ThePortIsHeld /\ NothingIsLeft

-----------------------------------------------------------------------------
(*                              Remote access                              *)

TunnelPhases ==
  {"off", "starting", "needs-login", "needs-approval", "needs-funnel", "certificate", "running", "error", "panic"}
Whole == [phase : TunnelPhases, link : BOOLEAN, url : BOOLEAN, warning : BOOLEAN,
          reach : {"unknown", "checking", "verified", "unreachable"}]

\* The page says that it runs while a life serves, and no longer.
OnlyWhoServesRuns == state.phase = "running" <=> stands = "serves"

TheListenerIsOpen ==
  /\ stands \in {"certifies", "serves"} <=> listening
  /\ stands \notin {"waits", "gone"} => enabled

AreTheLast(count, two) ==
  \E newest, before \in BOOLEAN :
    two = <<newest, before>> /\ (count >= 1 => newest = TRUE) /\ (count >= 2 => before = TRUE)

\* The failures that are counted are the last ones, and while there are some the
\* wait is not the long one.
FailuresAreInARow ==
  /\ fails \in 0..Confirm /\ (fails >= 1 => wait < Recheck)
  /\ AreTheLast(fails, lastTwo)

TheLinkIsRemembered == link \in BOOLEAN /\ answered \in BOOLEAN /\ link = answered

\* A node that starts shows no page of a life before it.
AStartIsShown == stands = "starts" => state.phase = "starting"

Stands == {"waits", "starts", "prepares", "listens", "certifies", "serves", "gone"}
PageInv ==
  /\ state \in Whole /\ stands \in Stands
  /\ OnlyWhoServesRuns /\ TheListenerIsOpen /\ TheLinkIsRemembered /\ AStartIsShown
  /\ TheFaultIsShown /\ AProofEndsTheWarning /\ TheLinkStays

CheckInv == wait \in 1..Recheck /\ since \in 0..Grace /\ FailuresAreInARow /\ AStumbleIsNoAlarm

NodeInv == places \subseteq {"former", "current"} /\ TheNodeIsItself

TunnelInv == PageInv /\ CheckInv /\ NodeInv

-----------------------------------------------------------------------------
(*                                 The icon                                *)

Tips == {<<>>} \cup {Tip(st) : st \in Statuses}
IconParts == {"picture", "words"}
Shelves == {NoIcon} \cup [picture : Pictures, tip : Tips, unsent : SUBSET IconParts]
Trays == [picture : Pictures \cup {NoIcon}, shown : Phases \cup {NoPhase}, tip : Tips, size : Scales,
          pulsing : BOOLEAN, dim : BOOLEAN, shelf : Shelves]

\* The light is down only while it pulses, and on the shelf only while it is down, or
\* the shelf did not get the last picture.
LitAtRest(t) == ~t.pulsing => ~t.dim
ShowsItsLight(t) == t.shelf # NoIcon /\ t.shelf.picture.dim => t.dim \/ "picture" \in t.shelf.unsent

\* Who closes the window, and who quits.
WhoCloses == "close" \in mail => closingOurselves \/ ~unasked
WhoQuits == (closingOurselves => isCancelled) /\ (endingSession => quitAsked)

-----------------------------------------------------------------------------
\* Every end of a part, every step of run and of the second copy keeps the
\* program's invariant.
LEMMA ProgramStep == ProgramInv /\ [ProgramNext]_programVars => ProgramInv'
<1> SUFFICES ASSUME ProgramInv, [ProgramNext]_programVars PROVE ProgramInv'
  OBVIOUS
<1> USE ProgramAssumption DEF ProgramInv, ProgramTypeOK, AccessoriesAreApart,
        ThePictureIsGivenBack, OneCopyAtATime, TheSizeLoweredIsKnown, ThePortIsHeld,
        NothingIsLeft, AllEnded, Parts, Essentials, Levers, IsAlive, atHome, programVars
<1>1. ASSUME NEW p \in Parts, Fails(p) PROVE ProgramInv'
  <2>1. /\ cancelled' <=> cancelled \/ EndsTheGroup(p)
        /\ failedPart' <=> failedPart \/ (p \in Essentials /\ ~cancelled)
    BY <1>1 DEF Fails
  <2>2. /\ part[p] = "running" /\ part' = [part EXCEPT ![p] = "ended"] /\ IsAlive
        /\ p = "shutdown" => cancelled
        /\ UNCHANGED <<asked, main, waited, sizeKnown, second>>
    BY <1>1 DEF Fails
  <2>3. /\ p = "quality" => \E obeyed \in BOOLEAN : levers' = PutBack(obeyed) /\ unheard' = ~obeyed
        /\ p # "quality" => UNCHANGED <<levers, unheard>>
        /\ LetsGo(p)
    BY <1>1 DEF Fails
  <2>4. AccessoriesAreApart'
    BY <2>1, <2>2 DEF EndsTheGroup
  <2>5. ThePictureIsGivenBack' /\ TheSizeLoweredIsKnown'
    <3>1. CASE p = "quality"
      <4>1. PICK obeyed \in BOOLEAN : levers' = PutBack(obeyed) /\ unheard' = ~obeyed
        BY <2>3, <3>1
      <4>2. levers' \subseteq (IF unheard' THEN {"bitrate"} ELSE {})
        BY <4>1 DEF PutBack
      <4>3. "format" \notin levers'
        BY <4>1 DEF PutBack
      <4> QED
        BY <4>2, <4>3
    <3>2. CASE p # "quality"
      <4>1. part'["quality"] = part["quality"] /\ (~cancelled' => ~cancelled)
        BY <2>1, <2>2, <3>2
      <4>2. levers' = levers /\ unheard' = unheard /\ sizeKnown' = sizeKnown
        BY <2>2, <2>3, <3>2
      <4> HIDE DEF AccessoriesAreApart, OneCopyAtATime, ThePortIsHeld, NothingIsLeft
      <4> QED
        BY <4>1, <4>2
    <3> QED
      BY <3>1, <3>2
  <2>6. ProgramTypeOK'
    <3>1. levers' \subseteq Levers /\ unheard' \in BOOLEAN
      BY <2>3 DEF PutBack
    <3> QED
      BY <2>2, <2>3, <3>1 DEF LetsGo
  <2>7. OneCopyAtATime' /\ ThePortIsHeld' /\ NothingIsLeft'
    BY <2>2, <2>3 DEF LetsGo
  <2> QED
    BY <2>4, <2>5, <2>6, <2>7
<1>2. ASSUME NEW p \in Parts, Blocks(p) PROVE ProgramInv'
  BY <1>2 DEF Blocks
<1>3. ASSUME NEW p \in Parts, EndsByItself(p) PROVE ProgramInv'
  BY <1>3 DEF EndsByItself
<1>4. ASSUME NEW p \in Parts, EndsInOrder(p) PROVE ProgramInv'
  BY <1>4 DEF EndsInOrder, LetsGo
<1>5. CASE ShutdownTimesOut
  BY <1>5 DEF ShutdownTimesOut, LetsGo
<1>6. CASE QualityLowers
  BY <1>6 DEF QualityLowers
<1>7. CASE CameraOpens
  BY <1>7 DEF CameraOpens
<1>8. CASE AsksToQuit
  BY <1>8 DEF AsksToQuit
<1>9. CASE GroupEnds
  BY <1>9 DEF GroupEnds, Returns, AllEnded
<1>10. CASE HearsTheQuit
  BY <1>10 DEF HearsTheQuit
<1>11. CASE Waits
  BY <1>11 DEF Waits
<1>12. CASE LeavesItToTheSystem
  BY <1>12 DEF LeavesItToTheSystem
<1>13. CASE Saves
  BY <1>13 DEF Saves, Returns
<1>14. CASE SecondStarts
  BY <1>14 DEF SecondStarts
<1>15. CASE SecondListens
  BY <1>15 DEF SecondListens, MayWatch
<1>16. CASE SecondOpensTheCamera
  BY <1>16 DEF SecondOpensTheCamera
<1>17. CASE Unwinds
  BY <1>17 DEF Unwinds
<1>18. CASE DiskAnswers
  BY <1>18 DEF DiskAnswers
<1>19. CASE UNCHANGED programVars
  BY <1>19
<1> QED
  BY <1>1, <1>2, <1>3, <1>4, <1>5, <1>6, <1>7, <1>8, <1>9, <1>10, <1>11, <1>12, <1>13,
     <1>14, <1>15, <1>16, <1>17, <1>18, <1>19 DEF ProgramNext, PartNext, RunNext

\* What can be done without never ends the monitor, a lost quality loop leaves
\* the picture at the top but for a bitrate that could not be commanded, and two
\* copies never film, for any accessories and any time the quit may take (guard.Run,
\* aside, main.go).
THEOREM TheProgramIsSafe == ProgramSpec => []ProgramSafety
<1>1. ProgramInit => ProgramInv
  <2> SUFFICES ASSUME ProgramInit PROVE ProgramInv
    OBVIOUS
  <2>1. ProgramTypeOK
    <3>1. part \in [Parts -> {"running", "stuck", "ended"}] /\ waited \in 0..Limit /\ levers \subseteq Levers
      BY ProgramAssumption DEF ProgramInit
    <3> QED
      BY <3>1 DEF ProgramInit, ProgramTypeOK
  <2> QED
    BY <2>1 DEF ProgramInit, ProgramInv, AccessoriesAreApart, ThePictureIsGivenBack, OneCopyAtATime,
                TheSizeLoweredIsKnown, ThePortIsHeld, NothingIsLeft, Parts
<1>2. ProgramInv => ProgramSafety
  BY DEF ProgramInv, ProgramSafety
<1> QED
  BY <1>1, <1>2, ProgramStep, PTL DEF ProgramSpec

-----------------------------------------------------------------------------
\* What is shown of a tunnel that does not run: no news of an address.
Quiet(st) == st \in Whole /\ st.phase # "running" /\ st.reach = "unknown" /\ ~st.warning /\ ~st.url

\* The states of the page, one for each step of a life.
LEMMA OnlyIs ==
  /\ \A phase \in TunnelPhases \ {"running"} : Quiet(Only(phase)) /\ Only(phase).phase = phase
  /\ Quiet(Off) /\ Off.phase = "off"
  /\ Quiet(Failed) /\ Failed.phase = "error"
  /\ Quiet(Panicked) /\ Panicked.phase = "panic"
BY DEF Only, Failed, Panicked, Off, Shown, Whole, TunnelPhases, Quiet

\* What a check says changes nothing but what is known of the address, and only
\* while the page says that it runs.
LEMMA SaidIs ==
  ASSUME state \in Whole, NEW code \in {"unknown", "checking", "verified", "unreachable"}
  PROVE  /\ Said(code) \in Whole
         /\ Said(code).phase = state.phase /\ Said(code).url = state.url /\ Said(code).link = state.link
         /\ Said(code).reach = (IF state.phase = "running" THEN code ELSE state.reach)
         /\ Said(code).warning <=> state.warning /\ ~(code = "verified" /\ state.phase = "running")
BY DEF Said, SaidIfOpen, Whole, TunnelPhases

\* Whoever stops serving, or does not serve yet, leaves a page that is quiet.
LEMMA QuietPage ==
  ASSUME PageInv, Quiet(state'), stands' \in Stands \ {"serves"},
         stands' = "certifies" <=> listening', stands' \notin {"waits", "gone"} => enabled',
         TheLinkIsRemembered', TheLinkStays', AStartIsShown'
  PROVE  PageInv'
BY DEF PageInv, Quiet, Stands, OnlyWhoServesRuns, TheListenerIsOpen, TheFaultIsShown, AProofEndsTheWarning

\* What the page shows agrees with where the life is, with the listener and
\* with the link.
LEMMA TunnelPageStep == PageInv /\ [TunnelNext]_tunnelVars => PageInv'
<1> SUFFICES ASSUME PageInv, [TunnelNext]_tunnelVars PROVE PageInv'
  OBVIOUS
<1> USE DEF PageInv, Stands, OnlyWhoServesRuns, TheListenerIsOpen, TheLinkIsRemembered,
        AStartIsShown, TheFaultIsShown, AProofEndsTheWarning, TheLinkStays, tunnelVars, reachVars,
        nodeVars
<1>1. CASE Enable
  BY <1>1 DEF Enable
<1>2. CASE Quits
  BY <1>2 DEF Quits
<1>3. CASE LifeBegins
  <2>1. state' = Only("starting")
    BY <1>3 DEF LifeBegins
  <2>2. Quiet(state') /\ state'.phase = "starting"
    BY <2>1, OnlyIs DEF TunnelPhases
  <2> QED
    BY <1>3, <2>2, QuietPage DEF LifeBegins
<1>15. CASE NodeStarts
  BY <1>15 DEF NodeStarts
<1>4. CASE Evaluates
  <2>1. ASSUME NEW phase \in {"needs-login", "needs-approval", "starting", "error"},
                state' = Only(phase), UNCHANGED <<stands, link, answered>>
         PROVE  PageInv'
    <3>1. Quiet(state') /\ state'.phase = phase
      BY <2>1, OnlyIs DEF TunnelPhases
    <3> QED
      BY <1>4, <2>1, <3>1, QuietPage DEF Evaluates
  <2>2. ASSUME NEW answer \in {"none", "text", "link"},
                link' = Remembered(answer),
                answered' = (answer = "link" \/ (answer = "none" /\ answered)),
                state' = [Only("needs-funnel") EXCEPT !.link = link'], UNCHANGED stands
         PROVE  PageInv'
    <3>1. /\ link' \in BOOLEAN
          /\ link' <=> answer = "link" \/ (answer = "none" /\ link)
      BY <2>2 DEF Remembered
    <3>2. /\ answered' \in BOOLEAN
          /\ answered' <=> answer = "link" \/ (answer = "none" /\ answered)
      BY <2>2
    <3>3. Quiet(state') /\ state'.link = link'
      BY <2>2, <3>1 DEF Quiet, Whole, Only, Off, Shown, TunnelPhases
    <3>4. TheLinkIsRemembered' /\ TheLinkStays'
      BY <3>1, <3>2, <3>3
    <3> QED
      BY <1>4, <2>2, <3>3, <3>4, QuietPage DEF Evaluates
  <2>3. ASSUME stands' = "listens", UNCHANGED state,
                UNCHANGED <<link, answered>> \/ (link' = FALSE /\ answered' = FALSE)
         PROVE  PageInv'
    <3>1. TheLinkIsRemembered' /\ TheLinkStays'
      <4>1. CASE UNCHANGED <<link, answered>>
        BY <2>3, <4>1
      <4>2. CASE link' = FALSE /\ answered' = FALSE
        BY <2>3, <4>2
      <4> QED
        BY <2>3, <4>1, <4>2
    <3>2. UNCHANGED <<enabled, listening>> /\ stands = "prepares"
      BY <1>4 DEF Evaluates
    <3> QED
      BY <2>3, <3>1, <3>2
  <2> QED
    BY <1>4, <2>1, <2>2, <2>3 DEF Evaluates
<1>5. CASE Listens
  <2>1. state' = Only("certificate")
    BY <1>5, OnlyIs DEF Listens, TunnelPhases
  <2>2. Quiet(state')
    BY <2>1, OnlyIs DEF TunnelPhases
  <2> QED
    BY <1>5, <2>1, <2>2, QuietPage, OnlyIs DEF Listens, TunnelPhases
<1>6. CASE Serves
  <2>1. PICK warned \in BOOLEAN : state' = [Only("running") EXCEPT !.url = TRUE, !.warning = warned,
                                                                      !.reach = "checking"]
    BY <1>6 DEF Serves
  <2>2. state' \in Whole /\ state'.phase = "running" /\ state'.reach = "checking"
    BY <2>1 DEF Whole, Only, Off, Shown, TunnelPhases
  <2> QED
    BY <1>6, <2>2 DEF Serves
<1>7. CASE Breaks
  <2>1. state' = Failed
    BY <1>7, OnlyIs DEF Breaks, LifeEnds, AfterALife, TunnelPhases
  <2>2. Quiet(state')
    BY <2>1, OnlyIs DEF TunnelPhases
  <2> QED
    BY <1>7, <2>1, <2>2, QuietPage, OnlyIs DEF Breaks, LifeEnds, AfterALife, TunnelPhases
<1>8. CASE Leaves
  <2>1. state' \in {Off, state} /\ (stands = "serves" => state' = Off)
    BY <1>8 DEF Leaves, ShownOnTheWayOut
  <2>2. Quiet(state') /\ (state'.phase = "needs-funnel" => state' = state)
    BY <2>1, OnlyIs DEF Quiet
  <2> QED
    BY <1>8, <2>2, QuietPage DEF Leaves
<1>9. CASE StopsWaiting
  BY <1>9 DEF StopsWaiting
<1>10. CASE Panics
  <2>1. state' = Panicked
    BY <1>10, OnlyIs DEF Panics, TunnelPhases
  <2>2. Quiet(state')
    BY <2>1, OnlyIs DEF TunnelPhases
  <2> QED
    BY <1>10, <2>1, <2>2, QuietPage, OnlyIs DEF Panics, TunnelPhases
<1>11. ASSUME NEW n \in watchers, NEW r \in {"verified", "direct", "failed"}, Checks(n, r) PROVE PageInv'
  <2>1. PICK code \in {"checking", "unreachable", "verified", "unknown"} : state' = Said(code)
    BY <1>11 DEF Checks
  <2>2. /\ stands = "serves" /\ UNCHANGED <<stands, listening, enabled, link, answered>>
    BY <1>11 DEF Checks
  <2> QED
    BY <2>1, <2>2, SaidIs
<1>12. ASSUME NEW n \in watchers, LooksTooLate(n) PROVE PageInv'
  <2>1. PICK code \in {"checking", "verified", "unreachable", "unknown"} : state' = Said(code)
    BY <1>12 DEF LooksTooLate
  <2>2. stands # "serves" /\ UNCHANGED <<stands, listening, enabled, link, answered>>
    BY <1>12 DEF LooksTooLate
  <2> QED
    BY <2>1, <2>2, SaidIs
<1>13. ASSUME NEW n \in watchers, Ends(n) PROVE PageInv'
  BY <1>13 DEF Ends
<1>14. CASE UNCHANGED tunnelVars
  BY <1>14
<1> QED
  BY <1>1, <1>2, <1>3, <1>4, <1>5, <1>6, <1>7, <1>8, <1>9, <1>10, <1>11, <1>12, <1>13,
     <1>14, <1>15 DEF TunnelNext, LifeNext, Watches

\* Two looks that go with a count.
LEMMA TheTwoLooks ==
  ASSUME NEW count, NEW two, NEW newest \in BOOLEAN, NEW before \in BOOLEAN, two = <<newest, before>>,
         count >= 1 => newest = TRUE, count >= 2 => before = TRUE
  PROVE  AreTheLast(count, two)
BY DEF AreTheLast

\* And two that go with none: the last did not fail.
LEMMA NoFailures ==
  ASSUME NEW count, NEW two, NEW before \in BOOLEAN, two = <<FALSE, before>>, count = 0
  PROVE  AreTheLast(count, two)
<1>1. ~(count >= 1) /\ ~(count >= 2)
  OBVIOUS
<1> SUFFICES \E newest, b \in BOOLEAN :
               two = <<newest, b>> /\ (count >= 1 => newest = TRUE) /\ (count >= 2 => b = TRUE)
  BY DEF AreTheLast
<1> WITNESS FALSE \in BOOLEAN, before \in BOOLEAN
<1> QED
  BY <1>1

\* The failures that are counted are the last ones, and the page tells no more
\* than they do.
LEMMA TunnelCheckStep == PageInv /\ CheckInv /\ [TunnelNext]_tunnelVars => CheckInv'
<1> SUFFICES ASSUME PageInv /\ CheckInv, [TunnelNext]_tunnelVars PROVE CheckInv'
  OBVIOUS
<1> USE TunnelAssumption DEF CheckInv, FailuresAreInARow, AStumbleIsNoAlarm, tunnelVars,
        reachVars, nodeVars
<1>1. CASE Enable
  BY <1>1 DEF Enable
<1>2. CASE Quits
  BY <1>2 DEF Quits
<1>3. CASE LifeBegins
  <2>1. state' = Only("starting") /\ UNCHANGED reachVars
    BY <1>3 DEF LifeBegins
  <2>2. state'.reach # "unreachable"
    BY <2>1, OnlyIs DEF Quiet, TunnelPhases
  <2> QED
    BY <2>1, <2>2
<1>15. CASE NodeStarts
  BY <1>15 DEF NodeStarts
<1>4. CASE Evaluates
  <2>1. UNCHANGED reachVars
    BY <1>4 DEF Evaluates
  <2>2. state'.reach = "unreachable" => state'.reach = state.reach
    BY <1>4, OnlyIs DEF Evaluates, Quiet, TunnelPhases, Only, Off, Shown
  <2> QED
    BY <2>1, <2>2
<1>5. CASE Listens
  <2>1. state' = Only("certificate") /\ UNCHANGED reachVars
    BY <1>5 DEF Listens
  <2>2. state'.reach # "unreachable"
    BY <2>1, OnlyIs DEF Quiet, TunnelPhases
  <2> QED
    BY <2>1, <2>2
<1>6. CASE Serves
  <2>1. state'.reach = "checking"
    BY <1>6 DEF Serves, Only, Off, Shown
  <2>2. wait' = FirstWait /\ since' = 0 /\ fails' = 0 /\ lastTwo' = <<FALSE, FALSE>>
    BY <1>6 DEF Serves
  <2>3. AreTheLast(fails', lastTwo')
    BY <2>2, NoFailures
  <2>4. AStumbleIsNoAlarm'
    BY <2>1
  <2> QED
    BY <2>2, <2>3, <2>4
<1>7. CASE Breaks
  <2>1. state' = Failed /\ UNCHANGED reachVars
    BY <1>7 DEF Breaks, LifeEnds
  <2>2. state'.reach # "unreachable"
    BY <2>1, OnlyIs DEF Quiet, TunnelPhases
  <2> QED
    BY <2>1, <2>2
<1>8. CASE Leaves
  <2>1. state' \in {Off, state} /\ UNCHANGED reachVars
    BY <1>8 DEF Leaves, ShownOnTheWayOut
  <2>2. state'.reach = "unreachable" => state'.reach = state.reach
    BY <2>1, OnlyIs DEF Quiet
  <2> QED
    BY <2>1, <2>2
<1>9. CASE StopsWaiting
  BY <1>9 DEF StopsWaiting
<1>10. CASE Panics
  <2>1. state' = Panicked /\ UNCHANGED reachVars
    BY <1>10 DEF Panics
  <2>2. state'.reach # "unreachable"
    BY <2>1, OnlyIs DEF Quiet, TunnelPhases
  <2> QED
    BY <2>1, <2>2
<1>11. ASSUME NEW n \in watchers, NEW r \in {"verified", "direct", "failed"}, Checks(n, r) PROVE CheckInv'
  <2>1. stands = "serves" /\ state.phase = "running" /\ state \in Whole
    BY <1>11 DEF Checks, PageInv, OnlyWhoServesRuns
  <2>2. since' \in 0..Grace
    BY <1>11 DEF Checks, Older
  <2>3. CASE r = "failed"
    <3> PICK newest \in BOOLEAN, before \in BOOLEAN :
              lastTwo = <<newest, before>> /\ (fails >= 1 => newest = TRUE)
      BY DEF AreTheLast
    <3>1. lastTwo' = <<TRUE, newest>>
      BY <1>11, <2>3 DEF Checks
    <3>2. fails' = IF fails < Confirm THEN fails + 1 ELSE fails
      BY <1>11, <2>3 DEF Checks
    <3>3. wait' = SoonAgain(wait)
      BY <1>11, <2>3 DEF Checks
    <3>4. wait' \in 1..Recheck /\ wait' < Recheck
      BY <3>3 DEF SoonAgain
    <3>5. FailuresAreInARow'
      <4>1. fails' \in 0..Confirm /\ (fails' >= 2 => fails >= 1)
        BY <3>2
      <4>2. fails' >= 2 => newest = TRUE
        BY <4>1
      <4>3. AreTheLast(fails', lastTwo')
        BY <3>1, <4>2, TheTwoLooks
      <4> QED
        BY <3>4, <4>1, <4>3
    <3>6. state'.reach = "unreachable" => fails' >= Confirm
      <4>1. state' = Said(IF since' < Grace \/ fails' < Confirm THEN "checking" ELSE "unreachable")
        BY <1>11, <2>3 DEF Checks
      <4>2. fails' < Confirm => state' = Said("checking")
        BY <4>1
      <4>3. fails' < Confirm => state'.reach = "checking"
        BY <2>1, <4>2, SaidIs
      <4> QED
        BY <3>5, <4>3
    <3>7. fails' >= Confirm => lastTwo' = <<TRUE, TRUE>>
      <4>1. fails' >= Confirm => fails >= 1
        BY <3>2
      <4> QED
        BY <3>1, <4>1
    <3> QED
      BY <2>2, <3>4, <3>5, <3>6, <3>7
  <2>4. CASE r # "failed"
    <3> PICK newest \in BOOLEAN, before \in BOOLEAN : lastTwo = <<newest, before>>
      BY DEF AreTheLast
    <3>1. lastTwo' = <<FALSE, newest>> /\ fails' = 0 /\ wait' = Recheck
      BY <1>11, <2>4 DEF Checks, FailsAfterAnAnswer
    <3>2. AreTheLast(fails', lastTwo')
      BY <3>1, NoFailures
    <3>3. state' \in {Said("verified"), Said("unknown")}
      BY <1>11, <2>4 DEF Checks
    <3>4. state'.reach # "unreachable"
      BY <2>1, <3>3, SaidIs
    <3>5. AStumbleIsNoAlarm'
      BY <3>4
    <3> QED
      BY <2>2, <3>1, <3>2, <3>5
  <2> QED
    BY <2>3, <2>4
<1>12. ASSUME NEW n \in watchers, LooksTooLate(n) PROVE CheckInv'
  <2>1. PICK code \in {"checking", "verified", "unreachable", "unknown"} : state' = Said(code)
    BY <1>12 DEF LooksTooLate
  <2>2. state \in Whole /\ state.phase # "running"
    BY <1>12 DEF LooksTooLate, PageInv, OnlyWhoServesRuns
  <2>3. state'.reach = state.reach
    BY <2>1, <2>2, SaidIs
  <2> QED
    BY <1>12, <2>3 DEF LooksTooLate
<1>13. ASSUME NEW n \in watchers, Ends(n) PROVE CheckInv'
  BY <1>13 DEF Ends
<1>14. CASE UNCHANGED tunnelVars
  BY <1>14
<1> QED
  BY <1>1, <1>2, <1>3, <1>4, <1>5, <1>6, <1>7, <1>8, <1>9, <1>10, <1>11, <1>12, <1>13,
     <1>14, <1>15 DEF TunnelNext, LifeNext, Watches

\* Where an identity can be looked at, its folder is the one that is used, or it
\* has been moved.
LEMMA TunnelNodeStep == NodeInv /\ [TunnelNext]_tunnelVars => NodeInv'
<1> SUFFICES ASSUME NodeInv, [TunnelNext]_tunnelVars PROVE NodeInv'
  OBVIOUS
<1> USE DEF NodeInv, TheNodeIsItself, tunnelVars, reachVars, nodeVars
<1>1. CASE Enable
  BY <1>1 DEF Enable
<1>2. CASE Quits
  BY <1>2 DEF Quits
<1>3. CASE LifeBegins
  <2>1. PICK readable \in SUBSET {"former", "current"}, movable \in BOOLEAN : MovesTheNode(readable, movable)
    BY <1>3 DEF LifeBegins
  <2>2. FolderOf(readable, movable) \in {"former", "current"}
    BY DEF FolderOf, FolderWhen
  <2>3. places' \subseteq {"former", "current"}
    BY <2>1, <2>2 DEF MovesTheNode
  <2>4. ASSUME stranger', ~unseen' PROVE FALSE
    <3>1. /\ places # {} /\ FolderOf(readable, movable) \notin places
          /\ ~IsMoved(readable, movable) /\ ("former" \notin places \/ "former" \in readable)
      BY <2>1, <2>4 DEF MovesTheNode
    <3>2. "former" \in places
      <4>1. CASE "former" \in places
        BY <4>1
      <4>2. CASE "former" \notin places
        <5>1. FolderOf(readable, movable) = "current"
          BY <4>2 DEF FolderOf
        <5> QED
          BY <3>1, <4>2, <5>1
      <4> QED
        BY <4>1, <4>2
    <3>3. FolderOf(readable, movable) = "current" /\ places = {"former"}
      BY <2>2, <3>1, <3>2
    <3>4. "current" \in readable /\ movable
      BY <3>1, <3>2, <3>3 DEF FolderOf, FolderWhen
    <3> QED
      BY <3>1, <3>2, <3>3, <3>4 DEF IsMoved
  <2> QED
    BY <2>1, <2>3, <2>4 DEF MovesTheNode
<1>15. CASE NodeStarts
  BY <1>15 DEF NodeStarts
<1>4. CASE Evaluates
  BY <1>4 DEF Evaluates
<1>5. CASE Listens
  BY <1>5 DEF Listens
<1>6. CASE Serves
  BY <1>6 DEF Serves
<1>7. CASE Breaks
  BY <1>7 DEF Breaks, LifeEnds
<1>8. CASE Leaves
  BY <1>8 DEF Leaves
<1>9. CASE StopsWaiting
  BY <1>9 DEF StopsWaiting
<1>10. CASE Panics
  BY <1>10 DEF Panics
<1>11. ASSUME NEW n \in watchers, NEW r \in {"verified", "direct", "failed"}, Checks(n, r) PROVE NodeInv'
  BY <1>11 DEF Checks
<1>12. ASSUME NEW n \in watchers, LooksTooLate(n) PROVE NodeInv'
  BY <1>12 DEF LooksTooLate
<1>13. ASSUME NEW n \in watchers, Ends(n) PROVE NodeInv'
  BY <1>13 DEF Ends
<1>14. CASE UNCHANGED tunnelVars
  BY <1>14
<1> QED
  BY <1>1, <1>2, <1>3, <1>4, <1>5, <1>6, <1>7, <1>8, <1>9, <1>10, <1>11, <1>12, <1>13,
     <1>14, <1>15 DEF TunnelNext, LifeNext, Watches

\* What the page shows of the tunnel is so: no fault is written over, an address
\* that is shown is listened on, one stumble is no alarm, the second look comes
\* soon, and neither the administrator's link nor the node's identity is lost:
\* for any waits (internal/tunnel: run, live, waitReady, moveTheNode, watchReach).
THEOREM TheTunnelIsSafe == TunnelSpec => []TunnelSafety
<1>1. TunnelInit => TunnelInv
  <2> SUFFICES ASSUME TunnelInit PROVE TunnelInv
    OBVIOUS
  <2>1. PageInv
    BY OnlyIs DEF TunnelInit, Off, Shown, PageInv, Whole, TunnelPhases, Stands, OnlyWhoServesRuns, TheListenerIsOpen,
       TheLinkIsRemembered, AStartIsShown, TheFaultIsShown, AProofEndsTheWarning, TheLinkStays
  <2>2. CheckInv
    <3>1. AreTheLast(fails, lastTwo)
      BY NoFailures DEF TunnelInit
    <3>2. FailuresAreInARow
      BY <3>1, TunnelAssumption DEF TunnelInit, FailuresAreInARow
    <3> QED
      BY <3>2, TunnelAssumption DEF TunnelInit, Off, Shown, CheckInv, AStumbleIsNoAlarm
  <2> QED
    BY <2>1, <2>2 DEF TunnelInit, TunnelInv, NodeInv, TheNodeIsItself
<1>2. TunnelInv /\ [TunnelNext]_tunnelVars => TunnelInv'
  BY TunnelPageStep, TunnelCheckStep, TunnelNodeStep DEF TunnelInv
<1>3. TunnelInv => TunnelSafety
  <2> SUFFICES ASSUME TunnelInv PROVE TunnelSafety
    OBVIOUS
  <2>1. TheAddressIsListenedOn
    BY DEF TunnelInv, PageInv, TheAddressIsListenedOn, TheListenerIsOpen, OnlyWhoServesRuns, TheFaultIsShown
  <2>2. TheSecondLookIsSoon
    BY DEF TunnelInv, CheckInv, FailuresAreInARow, TheSecondLookIsSoon
  <2>3. TunnelTypeOK
    BY DEF TunnelInv, PageInv, CheckInv, TunnelTypeOK, Whole, TunnelPhases, Stands
  <2>4. AStumbleIsNoAlarm /\ TheNodeIsItself
    BY DEF TunnelInv, CheckInv, NodeInv
  <2> QED
    BY <2>1, <2>2, <2>3, <2>4 DEF TunnelInv, PageInv, TunnelSafety
<1> QED
  BY <1>1, <1>2, <1>3, PTL DEF TunnelSpec
-----------------------------------------------------------------------------
\* What a function of the icon keeps: its type, its light, and that there is no
\* icon where there was none.
Keeps(t, u) ==
  /\ u \in Trays
  /\ LitAtRest(t) => LitAtRest(u)
  /\ ShowsItsLight(t) => ShowsItsLight(u)
  /\ u.shelf # NoIcon => t.shelf # NoIcon

\* The words of a status are words.
LEMMA WordsOfAStatus ==
  ASSUME NEW st \in Statuses PROVE Tip(st) \in Tips /\ st.phase \in Phases /\ st.verifying \in BOOLEAN
BY DEF Tips, Statuses

\* The picture that is drawn is as light as the icon is to be, and nothing else
\* changes.
LEMMA PaintedIs ==
  ASSUME TrayAssumption, NEW t \in Trays, NEW phase \in Phases \cup {NoPhase}
  PROVE  /\ Painted(t, phase) \in Trays
         /\ Painted(t, phase).picture \in Pictures /\ Painted(t, phase).picture.dim = t.dim
         /\ Painted(t, phase).shown = t.shown /\ Painted(t, phase).tip = t.tip
         /\ Painted(t, phase).size = t.size /\ Painted(t, phase).pulsing = t.pulsing
         /\ Painted(t, phase).dim = t.dim /\ Painted(t, phase).shelf = t.shelf
<1> DEFINE drawn == [drawn |-> Colour(phase), dim |-> t.dim, size |-> t.size]
<1>1. drawn \in Pictures /\ drawn.dim = t.dim
  BY DEF Trays, Pictures, Colour
<1>2. Painted(t, phase) = [t EXCEPT !.picture = drawn]
  BY DEF Painted
<1> QED
  BY <1>1, <1>2 DEF Trays

\* A change that is not heard alters only what is known of it.
LEMMA UnheardIs ==
  ASSUME NEW t \in Trays, NEW news \in SUBSET IconParts
  PROVE  /\ Unheard(t, news) \in Trays
         /\ Unheard(t, news).pulsing = t.pulsing /\ Unheard(t, news).dim = t.dim
         /\ Unheard(t, news).shelf # NoIcon => t.shelf # NoIcon
         /\ "picture" \in news \/ ShowsItsLight(t) => ShowsItsLight(Unheard(t, news))
<1>1. CASE t.shelf = NoIcon
  BY <1>1 DEF Unheard, ShowsItsLight
<1>2. CASE t.shelf # NoIcon
  <2> DEFINE icon == [t.shelf EXCEPT !.unsent = @ \cup news]
  <2>1. t.shelf \in [picture : Pictures, tip : Tips, unsent : SUBSET IconParts]
    BY <1>2 DEF Trays, Shelves
  <2>2. icon \in Shelves /\ icon.picture = t.shelf.picture /\ icon.unsent = t.shelf.unsent \cup news
    BY <2>1 DEF Shelves
  <2>3. Unheard(t, news) = [t EXCEPT !.shelf = icon]
    BY <1>2 DEF Unheard
  <2> HIDE DEF icon
  <2>4. /\ Unheard(t, news) \in Trays /\ Unheard(t, news).shelf = icon
        /\ Unheard(t, news).pulsing = t.pulsing /\ Unheard(t, news).dim = t.dim
    BY <2>2, <2>3 DEF Trays
  <2> QED
    BY <1>2, <2>2, <2>4 DEF ShowsItsLight
<1> QED
  BY <1>1, <1>2

\* A change of the icon on the shelf: with a new picture it shows the light that
\* picture was drawn with, or has not got it.
LEMMA ModifiedIs ==
  ASSUME NEW t \in Trays, NEW news \in SUBSET IconParts, NEW taken \in BOOLEAN,
         "picture" \in news => t.picture \in Pictures /\ t.picture.dim = t.dim
  PROVE  /\ Modified(t, news, taken) \in Trays
         /\ Modified(t, news, taken).pulsing = t.pulsing /\ Modified(t, news, taken).dim = t.dim
         /\ Modified(t, news, taken).shelf # NoIcon => t.shelf # NoIcon
         /\ "picture" \in news \/ ShowsItsLight(t) => ShowsItsLight(Modified(t, news, taken))
<1>1. CASE t.shelf = NoIcon \/ ~taken
  <2>1. Modified(t, news, taken) = Unheard(t, news)
    BY <1>1 DEF Modified
  <2> QED
    BY <2>1, UnheardIs
<1>2. CASE t.shelf # NoIcon /\ taken
  <2> DEFINE icon == [picture |-> IF "picture" \in news THEN t.picture ELSE t.shelf.picture, tip |-> t.tip,
                      unsent |-> t.shelf.unsent \ (news \cup {"words"})]
  <2>1. t.shelf \in [picture : Pictures, tip : Tips, unsent : SUBSET IconParts]
    BY <1>2 DEF Trays, Shelves
  <2>2. /\ icon \in Shelves
        /\ icon.picture = IF "picture" \in news THEN t.picture ELSE t.shelf.picture
        /\ "picture" \in t.shelf.unsent /\ "picture" \notin news => "picture" \in icon.unsent
    BY <2>1 DEF Trays, Shelves
  <2>3. Modified(t, news, taken) = [t EXCEPT !.shelf = icon]
    BY <1>2 DEF Modified
  <2> HIDE DEF icon
  <2>4. /\ Modified(t, news, taken) \in Trays /\ Modified(t, news, taken).shelf = icon
        /\ Modified(t, news, taken).pulsing = t.pulsing /\ Modified(t, news, taken).dim = t.dim
    BY <2>2, <2>3 DEF Trays
  <2>5. "picture" \in news \/ ShowsItsLight(t) => ShowsItsLight(Modified(t, news, taken))
    BY <1>2, <2>2, <2>4 DEF ShowsItsLight
  <2> QED
    BY <1>2, <2>4, <2>5
<1> QED
  BY <1>1, <1>2

\* The picture is made anew: what can be made, and is taken, is what is shown.
LEMMA RepaintedIs ==
  ASSUME TrayAssumption, NEW t \in Trays, NEW refused
  PROVE  /\ Repainted(t, refused) \in Trays
         /\ Repainted(t, refused).pulsing = t.pulsing /\ Repainted(t, refused).dim = t.dim
         /\ Repainted(t, refused).shelf # NoIcon => t.shelf # NoIcon
         /\ ShowsItsLight(Repainted(t, refused))
<1> DEFINE news == {"picture"}
           taken == "repaint" \notin refused
<1>1. news \in SUBSET IconParts /\ "picture" \in news /\ taken \in BOOLEAN
  BY DEF IconParts
<1>2. CASE "draw" \notin refused
  <2> DEFINE p == Painted(t, t.shown)
  <2>1. p \in Trays /\ p.picture \in Pictures /\ p.picture.dim = p.dim
        /\ p.pulsing = t.pulsing /\ p.dim = t.dim /\ p.shelf = t.shelf
    BY PaintedIs DEF Trays
  <2>2. Repainted(t, refused) = Modified(p, news, taken)
    BY <1>2 DEF Repainted
  <2> HIDE DEF p, news, taken
  <2> QED
    BY <1>1, <2>1, <2>2, ModifiedIs
<1>3. CASE "draw" \in refused
  <2>1. Repainted(t, refused) = Unheard(t, news)
    BY <1>3 DEF Repainted
  <2> HIDE DEF news
  <2> QED
    BY <1>1, <2>1, UnheardIs
<1> QED
  BY <1>2, <1>3

\* The pulse starts, or ends with the light up.
LEMMA PulseKeeps ==
  ASSUME TrayAssumption, NEW t \in Trays, NEW want \in BOOLEAN, NEW refused
  PROVE  Keeps(t, PulseIs(t, want, refused))
<1>1. CASE want = t.pulsing
  BY <1>1 DEF PulseIs, Keeps
<1>2. CASE want # t.pulsing /\ want
  <2>1. PulseIs(t, want, refused) = [t EXCEPT !.pulsing = TRUE]
    BY <1>2 DEF PulseIs
  <2> QED
    BY <2>1 DEF Keeps, Trays, LitAtRest, ShowsItsLight
<1>3. CASE want # t.pulsing /\ ~want
  <2> DEFINE still == [t EXCEPT !.pulsing = FALSE]
             lit == [still EXCEPT !.dim = FALSE]
  <2>1. PulseIs(t, want, refused) = IF still.dim THEN Repainted(lit, refused) ELSE still
    BY <1>3 DEF PulseIs, LitAgain
  <2>2. still \in Trays /\ still.pulsing = FALSE /\ still.dim = t.dim /\ still.shelf = t.shelf
    BY DEF Trays
  <2>3. lit \in Trays /\ lit.dim = FALSE /\ lit.shelf = t.shelf
    BY DEF Trays
  <2> HIDE DEF still, lit
  <2>4. CASE still.dim
    <3>1. /\ Repainted(lit, refused) \in Trays /\ Repainted(lit, refused).dim = FALSE
          /\ Repainted(lit, refused).shelf # NoIcon => lit.shelf # NoIcon
          /\ ShowsItsLight(Repainted(lit, refused))
      BY <2>3, RepaintedIs
    <3>2. PulseIs(t, want, refused) = Repainted(lit, refused)
      BY <2>1, <2>4
    <3> QED
      BY <2>3, <3>1, <3>2 DEF Keeps, LitAtRest
  <2>5. CASE ~still.dim
    <3>1. PulseIs(t, want, refused) = still
      BY <2>1, <2>5
    <3> QED
      BY <2>2, <2>5, <3>1 DEF Keeps, LitAtRest, ShowsItsLight
  <2> QED
    BY <2>4, <2>5
<1> QED
  BY <1>1, <1>2, <1>3

\* The icon follows the program's state.
LEMMA RefreshedKeeps ==
  ASSUME TrayAssumption, status \in Statuses, NEW from \in Trays, NEW refused
  PROVE  Keeps(from, Refreshed(from, refused))
<1> DEFINE t == PulseIs(from, status.verifying, refused)
           redraws == t.shown # status.phase /\ "draw" \notin refused
           drawn == IF redraws THEN [Painted(t, status.phase) EXCEPT !.shown = status.phase] ELSE t
           news == {"words"} \cup IF redraws THEN {"picture"} ELSE {}
           taken == "change" \notin refused
           redrawn == [drawn EXCEPT !.tip = Tip(status)]
<1>1. Keeps(from, t)
  BY WordsOfAStatus, PulseKeeps
<1>2. t \in Trays
  BY <1>1 DEF Keeps
<1>3. Refreshed(from, refused) =
        (IF t.shown = status.phase /\ t.tip = Tip(status) THEN t ELSE Modified(redrawn, news, taken))
  BY DEF Refreshed
<1>4. Tip(status) \in Tips /\ status.phase \in Phases
  BY WordsOfAStatus
<1> HIDE DEF t
<1>5. /\ drawn \in Trays /\ drawn.pulsing = t.pulsing /\ drawn.dim = t.dim /\ drawn.shelf = t.shelf
      /\ redraws => drawn.picture \in Pictures /\ drawn.picture.dim = t.dim
  <2>1. CASE redraws
    <3>1. /\ Painted(t, status.phase) \in Trays
          /\ Painted(t, status.phase).picture \in Pictures /\ Painted(t, status.phase).picture.dim = t.dim
          /\ Painted(t, status.phase).pulsing = t.pulsing
          /\ Painted(t, status.phase).dim = t.dim /\ Painted(t, status.phase).shelf = t.shelf
      BY <1>2, <1>4, PaintedIs
    <3>2. drawn = [Painted(t, status.phase) EXCEPT !.shown = status.phase]
      BY <2>1
    <3> HIDE DEF drawn
    <3> QED
      BY <1>4, <3>1, <3>2 DEF Trays
  <2>2. CASE ~redraws
    BY <1>2, <2>2
  <2> QED
    BY <2>1, <2>2
<1>6. news \in SUBSET IconParts /\ taken \in BOOLEAN /\ ("picture" \in news => redraws)
  BY DEF IconParts
<1> HIDE DEF drawn, redraws, news, taken
<1>7. /\ redrawn \in Trays /\ redrawn.pulsing = t.pulsing /\ redrawn.dim = t.dim /\ redrawn.shelf = t.shelf
      /\ redraws => redrawn.picture \in Pictures /\ redrawn.picture.dim = redrawn.dim
  BY <1>4, <1>5 DEF Trays
<1> HIDE DEF redrawn
<1>8. Keeps(t, Modified(redrawn, news, taken))
  <2>1. /\ Modified(redrawn, news, taken) \in Trays
        /\ Modified(redrawn, news, taken).pulsing = redrawn.pulsing /\ Modified(redrawn, news, taken).dim = redrawn.dim
        /\ Modified(redrawn, news, taken).shelf # NoIcon => redrawn.shelf # NoIcon
        /\ ShowsItsLight(redrawn) => ShowsItsLight(Modified(redrawn, news, taken))
    BY <1>6, <1>7, ModifiedIs
  <2>2. ShowsItsLight(t) => ShowsItsLight(redrawn)
    BY <1>7 DEF ShowsItsLight
  <2> QED
    BY <1>7, <2>1, <2>2 DEF Keeps, LitAtRest
<1> QED
  BY <1>1, <1>3, <1>8 DEF Keeps

\* A change of size.
LEMMA ResizedKeeps ==
  ASSUME TrayAssumption, status \in Statuses, scale \in Scales, NEW t \in Trays, NEW refused
  PROVE  Keeps(t, Resized(t, refused))
<1> DEFINE fresh == [t EXCEPT !.size = scale, !.shown = ShownAtTheOldSize(t)]
<1>1. /\ fresh \in Trays /\ fresh.pulsing = t.pulsing /\ fresh.dim = t.dim /\ fresh.shelf = t.shelf
  BY DEF Trays, ShownAtTheOldSize
<1>2. Resized(t, refused) = (IF t.size = scale THEN t ELSE Refreshed(fresh, refused))
  BY DEF Resized
<1> HIDE DEF fresh
<1>3. Keeps(fresh, Refreshed(fresh, refused))
  BY <1>1, RefreshedKeeps
<1>4. Keeps(t, Refreshed(fresh, refused))
  BY <1>1, <1>3 DEF Keeps, LitAtRest, ShowsItsLight
<1> QED
  BY <1>2, <1>4 DEF Keeps

\* An icon that is put there is one Explorer has taken, with the light it is to
\* have, whether it said so or not.
LEMMA AddedIs ==
  ASSUME TrayAssumption, status \in Statuses, NEW t \in Trays, NEW refused
  PROVE  /\ Added(t, refused) \in Trays
         /\ LitAtRest(t) => LitAtRest(Added(t, refused))
         /\ ShowsItsLight(t) => ShowsItsLight(Added(t, refused))
         /\ Added(t, refused).shelf # NoIcon => t.shelf # NoIcon \/ up
<1> DEFINE drawn == IF "draw" \in refused THEN t ELSE Painted(t, status.phase)
           icon == [picture |-> drawn.picture, tip |-> Tip(status), unsent |-> {}]
           there == [drawn EXCEPT !.shelf = icon]
<1>1. Tip(status) \in Tips /\ status.phase \in Phases
  BY WordsOfAStatus
<1>2. /\ drawn \in Trays /\ drawn.pulsing = t.pulsing /\ drawn.dim = t.dim /\ drawn.shelf = t.shelf
      /\ "draw" \notin refused => drawn.picture \in Pictures /\ drawn.picture.dim = t.dim
  <2>1. CASE "draw" \notin refused
    BY <1>1, <2>1, PaintedIs
  <2>2. CASE "draw" \in refused
    BY <2>2
  <2> QED
    BY <2>1, <2>2
<1>3. CASE ~MayBeAdded(t, refused)
  <2>1. Added(t, refused) = drawn
    BY <1>3 DEF Added
  <2> HIDE DEF drawn
  <2> QED
    BY <1>2, <2>1 DEF LitAtRest, ShowsItsLight
<1>4. CASE MayBeAdded(t, refused)
  <2>1. "draw" \notin refused /\ up
    BY <1>4 DEF MayBeAdded
  <2>2. Added(t, refused) \in {there, [there EXCEPT !.shown = status.phase, !.tip = Tip(status)]}
    BY <1>4 DEF Added
  <2> HIDE DEF drawn
  <2>3. icon \in Shelves /\ icon.picture.dim = t.dim
    BY <1>1, <1>2, <2>1 DEF Shelves
  <2> HIDE DEF icon
  <2>4. there \in Trays /\ there.shelf = icon /\ there.pulsing = t.pulsing /\ there.dim = t.dim
    BY <1>2, <2>3 DEF Trays
  <2> HIDE DEF there
  <2>5. /\ Added(t, refused) \in Trays /\ Added(t, refused).shelf = icon
        /\ Added(t, refused).pulsing = t.pulsing /\ Added(t, refused).dim = t.dim
    BY <1>1, <2>2, <2>4 DEF Trays
  <2> QED
    BY <2>1, <2>3, <2>5 DEF LitAtRest, ShowsItsLight
<1> QED
  BY <1>3, <1>4

\* What is put back, or found to be there, comes with the light it is to have.
LEMMA RestoredIs ==
  ASSUME TrayAssumption, status \in Statuses, NEW t \in Trays, NEW refused
  PROVE  /\ Restored(t, refused) \in Trays
         /\ LitAtRest(t) => LitAtRest(Restored(t, refused))
         /\ ShowsItsLight(t) => ShowsItsLight(Restored(t, refused))
         /\ Restored(t, refused).shelf # NoIcon => t.shelf # NoIcon \/ up
<1> DEFINE a == Added(t, refused)
           news == {}
           b == IF IsTaken(t, refused) THEN a ELSE Modified(a, news, TRUE)
<1>1. /\ a \in Trays /\ (LitAtRest(t) => LitAtRest(a)) /\ (ShowsItsLight(t) => ShowsItsLight(a))
      /\ a.shelf # NoIcon => t.shelf # NoIcon \/ up
  BY AddedIs
<1>2. Restored(t, refused) = [b EXCEPT !.shown = NoPhase]
  BY DEF Restored
<1>3. news \in SUBSET IconParts /\ "picture" \notin news
  OBVIOUS
<1> HIDE DEF a, news
<1>4. /\ Modified(a, news, TRUE) \in Trays
      /\ Modified(a, news, TRUE).pulsing = a.pulsing /\ Modified(a, news, TRUE).dim = a.dim
      /\ Modified(a, news, TRUE).shelf # NoIcon => a.shelf # NoIcon
      /\ ShowsItsLight(a) => ShowsItsLight(Modified(a, news, TRUE))
  BY <1>1, <1>3, ModifiedIs
<1>5. /\ b \in Trays /\ b.pulsing = a.pulsing /\ b.dim = a.dim /\ (b.shelf # NoIcon => a.shelf # NoIcon)
      /\ ShowsItsLight(a) => ShowsItsLight(b)
  BY <1>1, <1>4
<1> HIDE DEF b
<1>6. /\ Restored(t, refused) \in Trays /\ Restored(t, refused).pulsing = b.pulsing
      /\ Restored(t, refused).dim = b.dim /\ Restored(t, refused).shelf = b.shelf
  BY <1>2, <1>5 DEF Trays
<1> QED
  BY <1>1, <1>5, <1>6 DEF LitAtRest, ShowsItsLight
-----------------------------------------------------------------------------
\* The icon after a message is the record the functions gave.
LEMMA BecomesIt ==
  ASSUME NEW u \in Trays, BecomesThe(u) PROVE Tray' = u
BY DEF BecomesThe, Tray, Trays

\* What a kept icon keeps of the invariant.
IconInv == Tray \in Trays /\ (shelf # NoIcon => up) /\ LitAtRest(Tray) /\ ShowsItsLight(Tray)

\* The record's fields are the variables.
LEMMA TheRecordIs ==
  /\ Tray.shelf = shelf /\ Tray.dim = dim /\ Tray.pulsing = pulsing /\ Tray.shown = shown
  /\ Tray.size = size /\ Tray.picture = picture
BY DEF Tray

\* A message that does to the icon what the functions do keeps that.
LEMMA KeptIcon ==
  ASSUME IconInv, NEW t \in Trays, NEW u, LitAtRest(t), ShowsItsLight(t), t.shelf # NoIcon => up,
         Keeps(t, u), BecomesThe(u), UNCHANGED up
  PROVE  IconInv'
<1>1. u \in Trays
  BY DEF Keeps
<1>2. Tray' = u
  BY <1>1, BecomesIt
<1>3. shelf' = Tray'.shelf
  BY DEF Tray
<1> QED
  BY <1>1, <1>2, <1>3 DEF IconInv, Keeps, LitAtRest, ShowsItsLight

\* The tray's thread, the program and the desktop keep the icon's part.
LEMMA IconStep ==
  TrayTypeOK /\ IconInv /\ [TrayNext]_trayVars => IconInv'
<1> SUFFICES ASSUME TrayTypeOK, IconInv, [TrayNext]_trayVars PROVE IconInv'
  OBVIOUS
<1> USE TrayAssumption
<1>0. status \in Statuses /\ scale \in Scales
  BY DEF TrayTypeOK
<1>t. /\ Tray \in Trays /\ Tray.shelf = shelf /\ (Tray.shelf # NoIcon => up)
      /\ LitAtRest(Tray) /\ ShowsItsLight(Tray)
  BY TheRecordIs DEF IconInv
<1>same. ASSUME UNCHANGED <<iconVars, shelf, up>> PROVE IconInv'
  BY <1>same DEF IconInv, iconVars, Tray, LitAtRest, ShowsItsLight
<1>shelf. ASSUME shelf' \in Shelves, UNCHANGED iconVars, shelf' # NoIcon => up',
                 ShowsItsLight([Tray EXCEPT !.shelf = shelf'])
          PROVE  IconInv'
  <2>1. Tray' = [Tray EXCEPT !.shelf = shelf']
    BY <1>shelf DEF Tray, iconVars
  <2>2. Tray'.shelf = shelf' /\ Tray'.dim = Tray.dim /\ Tray'.pulsing = Tray.pulsing
    BY <1>shelf DEF Tray, iconVars
  <2>3. Tray' \in Trays
    BY <1>t, <1>shelf, <2>1 DEF Trays
  <2> QED
    BY <1>t, <1>shelf, <2>1, <2>2, <2>3 DEF IconInv, LitAtRest
<1>gone. ASSUME shelf' \in {shelf, NoIcon}, UNCHANGED iconVars, shelf' # NoIcon => up'
         PROVE  IconInv'
  <2>1. shelf' \in Shelves
    BY <1>t, <1>gone DEF Trays, Shelves
  <2>2. ShowsItsLight([Tray EXCEPT !.shelf = shelf'])
    BY <1>t, <1>gone DEF Trays, ShowsItsLight
  <2> QED
    BY <1>gone, <1>shelf, <2>1, <2>2
<1>1. CASE CreatesTheWindow
  BY <1>1, <1>same DEF CreatesTheWindow
<1>2. CASE AddsTheIcon
  <2>1. PICK refused \in SUBSET (ToBeAdded \cup {"change", "remove"}) :
          IF IsTaken(Tray, refused)
            THEN \E t \in {Added(Tray, refused)} : BecomesThe(Resized(t, refused))
            ELSE /\ shelf' = IF "remove" \in refused THEN Added(Tray, refused).shelf ELSE NoIcon
                 /\ UNCHANGED iconVars
    BY <1>2 DEF AddsTheIcon
  <2>2. UNCHANGED up
    BY <1>2 DEF AddsTheIcon
  <2> DEFINE a == Added(Tray, refused)
  <2>3. /\ a \in Trays /\ LitAtRest(a) /\ ShowsItsLight(a) /\ (a.shelf # NoIcon => up)
    BY <1>0, <1>t, AddedIs
  <2>4. CASE IsTaken(Tray, refused)
    <3>1. BecomesThe(Resized(a, refused))
      BY <2>1, <2>4
    <3> HIDE DEF a
    <3>2. Keeps(a, Resized(a, refused))
      BY <1>0, <2>3, ResizedKeeps
    <3> QED
      BY <2>2, <2>3, <3>1, <3>2, KeptIcon
  <2>5. CASE ~IsTaken(Tray, refused)
    <3>1. shelf' \in {a.shelf, NoIcon} /\ UNCHANGED iconVars
      BY <2>1, <2>5
    <3>2. a.dim = Tray.dim
      <4>1. CASE "draw" \in refused
        BY <1>t, <4>1 DEF Added, MayBeAdded
      <4>2. CASE "draw" \notin refused
        <5> DEFINE p == Painted(Tray, status.phase)
                   q == [p EXCEPT !.shelf = [picture |-> p.picture, tip |-> Tip(status), unsent |-> {}]]
        <5>1. p \in Trays /\ p.dim = Tray.dim
          BY <1>0, <1>t, WordsOfAStatus, PaintedIs
        <5>2. a \in {p, q, [q EXCEPT !.shown = status.phase, !.tip = Tip(status)]}
          BY <4>2 DEF Added
        <5> HIDE DEF a, p
        <5> QED
          BY <5>1, <5>2 DEF Trays
      <4> QED
        BY <4>1, <4>2
    <3> HIDE DEF a
    <3>3. shelf' \in Shelves
      BY <2>3, <3>1 DEF Trays, Shelves
    <3>4. ShowsItsLight([Tray EXCEPT !.shelf = shelf'])
      <4> DEFINE u == [Tray EXCEPT !.shelf = shelf']
      <4>1. u.shelf = shelf' /\ u.dim = Tray.dim
        BY <1>t DEF Trays
      <4> HIDE DEF u
      <4>2. ShowsItsLight(u)
        BY <2>3, <3>1, <3>2, <4>1 DEF ShowsItsLight
      <4> QED
        BY <4>2 DEF u
    <3> QED
      BY <1>shelf, <2>2, <2>3, <3>1, <3>3, <3>4
  <2> QED
    BY <2>4, <2>5
<1>3. CASE Timer
  <2>1. PICK refused : 
          IF iconAdded THEN BecomesThe(Refreshed(Tray, refused))
          ELSE IF IsBack(Tray, refused)
            THEN \E t \in {Restored(Tray, refused)} : \E u \in {Resized(t, refused)} : BecomesThe(Refreshed(u, refused))
            ELSE BecomesThe(Added(Tray, refused))
    BY <1>3 DEF Timer
  <2>2. UNCHANGED up
    BY <1>3 DEF Timer
  <2>3. CASE iconAdded
    <3>1. Keeps(Tray, Refreshed(Tray, refused))
      BY <1>0, <1>t, RefreshedKeeps
    <3> QED
      BY <1>t, <2>1, <2>2, <2>3, <3>1, KeptIcon
  <2>4. CASE ~iconAdded /\ IsBack(Tray, refused)
    <3> DEFINE b == Restored(Tray, refused)
               c == Resized(b, refused)
               d == Refreshed(c, refused)
    <3>1. /\ b \in Trays /\ LitAtRest(b) /\ ShowsItsLight(b) /\ (b.shelf # NoIcon => up)
      BY <1>0, <1>t, RestoredIs
    <3>2. BecomesThe(d)
      BY <2>1, <2>4
    <3> HIDE DEF b
    <3>3. Keeps(b, c)
      BY <1>0, <3>1, ResizedKeeps
    <3> HIDE DEF c
    <3>4. Keeps(c, d)
      BY <1>0, <3>3, RefreshedKeeps DEF Keeps
    <3> HIDE DEF d
    <3>5. Keeps(b, d)
      BY <3>3, <3>4 DEF Keeps
    <3> QED
      BY <2>2, <3>1, <3>2, <3>5, KeptIcon
  <2>5. CASE ~iconAdded /\ ~IsBack(Tray, refused)
    <3> DEFINE a == Added(Tray, refused)
    <3>1. /\ a \in Trays /\ LitAtRest(a) /\ ShowsItsLight(a) /\ (a.shelf # NoIcon => up)
      BY <1>0, <1>t, AddedIs
    <3>2. BecomesThe(a)
      BY <2>1, <2>5
    <3> HIDE DEF a
    <3>3. Keeps(a, a)
      BY <3>1 DEF Keeps
    <3> QED
      BY <2>2, <3>1, <3>2, <3>3, KeptIcon
  <2> QED
    BY <2>3, <2>4, <2>5
<1>4. CASE Pulse
  <2>1. PICK refused \in SUBSET {"draw", "repaint"}, darker \in BOOLEAN :
               BecomesThe(Repainted([Tray EXCEPT !.dim = darker], refused))
    BY <1>4 DEF Pulse
  <2>2. UNCHANGED up /\ pulsing
    BY <1>4 DEF Pulse
  <2> DEFINE b == [Tray EXCEPT !.dim = darker]
             u == Repainted(b, refused)
  <2>3. b \in Trays /\ b.pulsing = Tray.pulsing /\ b.shelf = Tray.shelf
    BY <1>t DEF Trays
  <2>4. BecomesThe(u)
    BY <2>1
  <2> HIDE DEF b
  <2>5. /\ u \in Trays /\ u.pulsing = b.pulsing
        /\ u.shelf # NoIcon => b.shelf # NoIcon
        /\ ShowsItsLight(u)
    BY <2>3, RepaintedIs
  <2> HIDE DEF u
  <2>6. Tray' = u
    BY <2>4, <2>5, BecomesIt
  <2>7. shelf' = Tray'.shelf /\ Tray.shelf = shelf /\ Tray.pulsing = pulsing
    BY DEF Tray
  <2> QED
    BY <2>2, <2>3, <2>5, <2>6, <2>7 DEF IconInv, LitAtRest
<1>5. CASE ExplorerIsBack
  <2> DEFINE b == [Tray EXCEPT !.shown = NoPhase]
  <2>1. PICK refused :
          \E t \in {Added(b, refused)} :
            BecomesThe(IF IsTaken(Tray, refused) THEN Resized(t, refused) ELSE t)
    BY <1>5 DEF ExplorerIsBack
  <2>2. UNCHANGED up
    BY <1>5 DEF ExplorerIsBack
  <2> DEFINE a == Added(b, refused)
             d == Resized(a, refused)
  <2>3. b \in Trays /\ b.pulsing = Tray.pulsing /\ b.dim = Tray.dim /\ b.shelf = Tray.shelf
    BY <1>t DEF Trays
  <2>4. BecomesThe(d) \/ BecomesThe(a)
    BY <2>1
  <2> HIDE DEF b
  <2>5. LitAtRest(b) /\ ShowsItsLight(b)
    BY <1>t, <2>3 DEF LitAtRest, ShowsItsLight
  <2>6. /\ a \in Trays /\ LitAtRest(a) /\ ShowsItsLight(a) /\ (a.shelf # NoIcon => up)
    BY <1>0, <1>t, <2>3, <2>5, AddedIs
  <2> HIDE DEF a
  <2>7. Keeps(a, d) /\ Keeps(a, a)
    BY <1>0, <2>6, ResizedKeeps DEF Keeps
  <2> HIDE DEF d
  <2> QED
    BY <2>2, <2>4, <2>6, <2>7, KeptIcon
<1>6. CASE ScaleChanged
  <2>1. PICK refused : BecomesThe(Resized(Tray, refused))
    BY <1>6 DEF ScaleChanged
  <2>2. Keeps(Tray, Resized(Tray, refused))
    BY <1>0, <1>t, ResizedKeeps
  <2>3. UNCHANGED up
    BY <1>6 DEF ScaleChanged
  <2> QED
    BY <1>t, <2>1, <2>2, <2>3, KeptIcon
<1>7. CASE DrainsBalloons
  <2> DEFINE news == {}
  <2>1. PICK refused \in SUBSET {"change"} :
          BecomesThe(IF pending > 0 THEN Modified(Tray, news, "change" \notin refused) ELSE Tray)
    BY <1>7 DEF DrainsBalloons
  <2>2. UNCHANGED up
    BY <1>7 DEF DrainsBalloons
  <2>3. news \in SUBSET IconParts /\ "picture" \notin news
    OBVIOUS
  <2> HIDE DEF news
  <2>4. ASSUME NEW taken \in BOOLEAN PROVE Keeps(Tray, Modified(Tray, news, taken))
    <3>1. /\ Modified(Tray, news, taken) \in Trays
          /\ Modified(Tray, news, taken).pulsing = Tray.pulsing /\ Modified(Tray, news, taken).dim = Tray.dim
          /\ Modified(Tray, news, taken).shelf # NoIcon => Tray.shelf # NoIcon
          /\ ShowsItsLight(Tray) => ShowsItsLight(Modified(Tray, news, taken))
      BY <1>t, <2>3, ModifiedIs
    <3> QED
      BY <3>1 DEF Keeps, LitAtRest
  <2>5. Keeps(Tray, Tray)
    BY <1>t DEF Keeps
  <2>6. PICK u : BecomesThe(u) /\ Keeps(Tray, u)
    <3>1. CASE pending > 0
      <4>1. BecomesThe(Modified(Tray, news, "change" \notin refused))
        BY <2>1, <3>1
      <4>2. Keeps(Tray, Modified(Tray, news, "change" \notin refused))
        BY <2>4
      <4> QED
        BY <4>1, <4>2
    <3>2. CASE ~(pending > 0)
      BY <2>1, <2>5, <3>2
    <3> QED
      BY <3>1, <3>2
  <2> QED
    BY <1>t, <2>2, <2>6, KeptIcon
<1>9. CASE Closes
  <2>1. shelf' \in {shelf, NoIcon} /\ UNCHANGED <<iconVars, up>>
    BY <1>9 DEF Closes
  <2> QED
    BY <1>gone, <2>1 DEF IconInv
<1>10. CASE ExplorerDies
  BY <1>gone, <1>10 DEF ExplorerDies
<1>11. CASE ExplorerStarts
  BY <1>gone, <1>11 DEF ExplorerStarts, IconInv
<1>12. CASE \/ WindowsEnds \/ Queues \/ Calls \/ Cancels \/ ClosedOutside \/ StatusChanges \/ ScaleMoves
            \/ UNCHANGED trayVars
  BY <1>12, <1>same DEF WindowsEnds, Queues, Calls, Cancels, ClosedOutside, StatusChanges, ScaleMoves, trayVars
<1> QED
  BY <1>1, <1>2, <1>3, <1>4, <1>5, <1>6, <1>7, <1>9, <1>10, <1>11, <1>12 DEF TrayNext, TakesAMessage

\* What the thread's messages do around the icon: the rest of the invariant.
MailInv ==
  /\ pending \in 0..MaxMoves /\ pending <= moves /\ moves \in 0..MaxMoves
  /\ mail \subseteq {"taskbar", "scale", "balloon", "close"} /\ notifier \in {"idle", "calls"}
  /\ status \in Statuses /\ scale \in Scales /\ up \in BOOLEAN
  /\ loop \in {"none", "window", "running", "over"}
  /\ {iconAdded, isCancelled, closingOurselves, endingSession, quitAsked, unasked, gaveUp} \subseteq BOOLEAN
  /\ WhoCloses /\ WhoQuits /\ NoBalloonWaits /\ TheMonitorKnows /\ NoQuitUnasked

\* The icon costs no more than a move.
LEMMA CostsAMove ==
  ASSUME TrayAssumption, moves \in 0..MaxMoves, NEW refused, Costs(refused)
  PROVE  moves' \in 0..MaxMoves /\ moves' >= moves
BY DEF Costs, Moves

LEMMA MailStep == MailInv /\ [TrayNext]_trayVars => MailInv'
<1> SUFFICES ASSUME MailInv, [TrayNext]_trayVars PROVE MailInv'
  OBVIOUS
<1> USE TrayAssumption DEF MailInv, WhoCloses, WhoQuits, NoBalloonWaits, TheMonitorKnows, NoQuitUnasked,
        endVars, balloonVars
<1>1. CASE CreatesTheWindow
  BY <1>1 DEF CreatesTheWindow, iconVars
<1>2. CASE AddsTheIcon
  <2>1. PICK refused : Costs(refused)
    BY <1>2 DEF AddsTheIcon
  <2>2. moves' \in 0..MaxMoves /\ moves' >= moves
    BY <2>1, CostsAMove
  <2>3. \/ iconAdded' = TRUE /\ mail' = PostedAtTheStart /\ loop' = "running" /\ UNCHANGED gaveUp
        \/ loop' = "over" /\ gaveUp' = TRUE /\ UNCHANGED <<iconAdded, mail>>
    BY <1>2 DEF AddsTheIcon, iconVars
  <2>4. UNCHANGED <<status, up, scale, pending, notifier, isCancelled, closingOurselves, endingSession, quitAsked, unasked>>
    BY <1>2 DEF AddsTheIcon
  <2>5. /\ mail' \subseteq {"taskbar", "scale", "balloon", "close"}
        /\ "close" \in mail' <=> "close" \in mail
        /\ loop' = "running" => "balloon" \in mail'
    BY <2>3 DEF PostedAtTheStart
  <2>6. /\ {iconAdded', gaveUp'} \subseteq BOOLEAN /\ loop' \in {"running", "over"}
        /\ loop' = "over" => gaveUp'
    BY <2>3
  <2>7. {iconAdded', isCancelled', closingOurselves', endingSession', quitAsked', unasked', gaveUp'} \subseteq BOOLEAN
    BY <2>4, <2>6
  <2>8. NoBalloonWaits' /\ TheMonitorKnows'
    BY <2>5, <2>6
  <2>9. WhoCloses' /\ WhoQuits' /\ NoQuitUnasked'
    BY <2>4, <2>5
  <2>10. pending' \in 0..MaxMoves /\ pending' <= moves'
    BY <2>2, <2>4
  <2> QED
    BY <2>2, <2>4, <2>5, <2>6, <2>7, <2>8, <2>9, <2>10
<1>3. ASSUME NEW refused, Costs(refused), iconAdded' \in BOOLEAN,
             mail' \in {mail, mail \ {"taskbar"}, mail \ {"scale"}},
             UNCHANGED <<status, up, scale, balloonVars, loop, endVars>>
      PROVE  MailInv'
  <2>1. moves' \in 0..MaxMoves /\ moves' >= moves
    BY <1>3, CostsAMove
  <2>3. "balloon" \in mail' <=> "balloon" \in mail
    BY <1>3
  <2>4. mail' \subseteq mail
    BY <1>3
  <2> QED
    BY <1>3, <2>1, <2>3, <2>4
<1>4. CASE Timer
  <2>1. PICK refused : Costs(refused) /\ iconAdded' \in BOOLEAN
    BY <1>4 DEF Timer
  <2> QED
    BY <1>3, <1>4, <2>1 DEF Timer
<1>5. CASE Pulse
  <2>1. PICK refused : Costs(refused)
    BY <1>5 DEF Pulse
  <2>2. UNCHANGED <<iconAdded, mail, status, up, scale, balloonVars, loop, endVars>>
    BY <1>5 DEF Pulse
  <2> QED
    BY <1>3, <2>1, <2>2
<1>6. CASE ExplorerIsBack
  <2>1. PICK refused : Costs(refused) /\ iconAdded' = IsTaken(Tray, refused)
    BY <1>6 DEF ExplorerIsBack
  <2>2. iconAdded' \in BOOLEAN
    BY <2>1 DEF IsTaken, MayBeAdded
  <2> QED
    BY <1>3, <1>6, <2>1, <2>2 DEF ExplorerIsBack, Takes
<1>7. CASE ScaleChanged
  <2>1. PICK refused : Costs(refused)
    BY <1>7 DEF ScaleChanged
  <2>2. UNCHANGED <<iconAdded, status, up, scale, balloonVars, loop, endVars>> /\ mail' = mail \ {"scale"}
    BY <1>7 DEF ScaleChanged, Takes
  <2> QED
    BY <1>3, <2>1, <2>2
<1>8. CASE DrainsBalloons
  <2>1. PICK refused : Costs(refused)
    BY <1>8 DEF DrainsBalloons
  <2>2. moves' \in 0..MaxMoves /\ moves' >= moves
    BY <2>1, CostsAMove
  <2>3. pending' = 0 /\ mail' = mail \ {"balloon"}
    BY <1>8 DEF DrainsBalloons, Takes
  <2> QED
    BY <1>8, <2>2, <2>3 DEF DrainsBalloons
<1>9. CASE Closes
  <2>1. PICK refused : Costs(refused)
    BY <1>9 DEF Closes
  <2>2. moves' \in 0..MaxMoves /\ moves' >= moves
    BY <2>1, CostsAMove
  <2>3. /\ "close" \in mail /\ mail' = mail \ {"close"} /\ loop' = "over"
        /\ quitAsked' = (quitAsked \/ (~closingOurselves /\ ~endingSession))
        /\ UNCHANGED <<status, up, scale, iconAdded, pending, notifier, isCancelled, closingOurselves, endingSession,
                       unasked, gaveUp>>
    BY <1>9 DEF Closes, Takes, IsToTell, iconVars
  <2>4. WhoCloses' /\ WhoQuits' /\ NoBalloonWaits' /\ TheMonitorKnows' /\ NoQuitUnasked'
    BY <2>3
  <2>5. pending' \in 0..MaxMoves /\ pending' <= moves'
    BY <2>2, <2>3
  <2> QED
    BY <2>2, <2>3, <2>4, <2>5
<1>10. CASE WindowsEnds
  BY <1>10 DEF WindowsEnds, Moves, IsReallyEnding, iconVars
<1>11. CASE Queues
  BY <1>11 DEF Queues, Moves, iconVars
<1>12. CASE Calls
  BY <1>12 DEF Calls, iconVars
<1>13. CASE Cancels
  BY <1>13 DEF Cancels, iconVars
<1>14. CASE ClosedOutside
  <2>1. moves' = moves + 1 /\ moves' \in 0..MaxMoves /\ UNCHANGED pending
    BY <1>14 DEF ClosedOutside, Moves
  <2>2. pending' \in 0..MaxMoves /\ pending' <= moves'
    BY <2>1
  <2>3. mail' = mail \cup {"close"} /\ unasked' = FALSE
    BY <1>14 DEF ClosedOutside
  <2>4. UNCHANGED <<status, up, scale, iconVars, notifier, loop, isCancelled, closingOurselves, endingSession, quitAsked,
                    gaveUp>>
    BY <1>14 DEF ClosedOutside
  <2> QED
    BY <2>1, <2>2, <2>3, <2>4 DEF iconVars
<1>15. CASE StatusChanges
  BY <1>15 DEF StatusChanges, Moves, iconVars
<1>16. CASE ExplorerDies
  <2>1. moves' = moves + 1 /\ moves' \in 0..MaxMoves /\ UNCHANGED pending
    BY <1>16 DEF ExplorerDies, Moves
  <2>2. pending' \in 0..MaxMoves /\ pending' <= moves'
    BY <2>1
  <2>3. up' = FALSE /\ UNCHANGED <<status, scale, iconVars, notifier, mail, loop, endVars>>
    BY <1>16 DEF ExplorerDies
  <2> QED
    BY <2>1, <2>2, <2>3 DEF iconVars
<1>17. CASE ExplorerStarts
  BY <1>17 DEF ExplorerStarts, iconVars
<1>18. CASE ScaleMoves
  <2>1. /\ moves' = moves + 1 /\ moves' \in 0..MaxMoves /\ scale' \in Scales
        /\ UNCHANGED <<status, up, iconVars, balloonVars, loop, endVars>>
    BY <1>18 DEF ScaleMoves, Moves
  <2>2. /\ mail' \subseteq {"taskbar", "scale", "balloon", "close"}
        /\ "balloon" \in mail' <=> "balloon" \in mail
        /\ "close" \in mail' <=> "close" \in mail
    BY <1>18 DEF ScaleMoves
  <2> QED
    BY <2>1, <2>2 DEF iconVars
<1>19. CASE UNCHANGED trayVars
  BY <1>19 DEF trayVars, iconVars
<1> QED
  BY <1>1, <1>2, <1>4, <1>5, <1>6, <1>7, <1>8, <1>9, <1>10, <1>11, <1>12, <1>13, <1>14, <1>15, <1>16, <1>17,
     <1>18, <1>19 DEF TrayNext, TakesAMessage

\* The icon is never left dimmed but where Explorer refused the picture, no balloon is forgotten, and the monitor learns
\* of a tray that ended, but leaves for nothing that was called off: for any
\* phases, sizes, and any number of moves of the desktop (internal/tray: the
\* window's thread, notify, WM_CLOSE and WM_ENDSESSION).
THEOREM TheTrayIsSafe == TraySpec => []TraySafety
<1> DEFINE TrayInv == IconInv /\ MailInv
<1> USE TrayAssumption
<1>1. TrayInit => TrayInv
  <2> SUFFICES ASSUME TrayInit PROVE TrayInv
    OBVIOUS
  <2>1. Tray \in Trays
    BY DEF TrayInit, Tray, Trays, Tips, Shelves
  <2>2. IconInv
    BY <2>1 DEF TrayInit, IconInv, Tray, LitAtRest, ShowsItsLight
  <2>3. MailInv
    <3>1. pending \in 0..MaxMoves /\ pending <= moves /\ moves \in 0..MaxMoves /\ ~(pending > 0)
      BY DEF TrayInit
    <3>2. {iconAdded, isCancelled, closingOurselves, endingSession, quitAsked, unasked, gaveUp} \subseteq BOOLEAN
      BY DEF TrayInit
    <3> QED
      BY <3>1, <3>2 DEF TrayInit, MailInv, WhoCloses, WhoQuits, NoBalloonWaits, TheMonitorKnows, NoQuitUnasked
  <2> QED
    BY <2>2, <2>3
<1>2. TrayInv => TrayTypeOK
  <2> SUFFICES ASSUME IconInv, MailInv PROVE TrayTypeOK
    OBVIOUS
  <2>1. /\ picture \in Pictures \cup {NoIcon} /\ shown \in Phases \cup {NoPhase} /\ size \in Scales
        /\ pulsing \in BOOLEAN /\ dim \in BOOLEAN /\ shelf \in Shelves
    BY TheRecordIs DEF IconInv, Trays
  <2>2. shelf # NoIcon => up /\ shelf.picture \in Pictures /\ shelf.unsent \subseteq {"picture", "words"}
    BY <2>1 DEF IconInv, Shelves, IconParts
  <2> QED
    BY <2>1, <2>2 DEF MailInv, TrayTypeOK
<1>3. TrayInv /\ [TrayNext]_trayVars => TrayInv'
  BY <1>2, IconStep, MailStep
<1>4. TrayInv => TraySafety
  <2> SUFFICES ASSUME IconInv, MailInv PROVE TraySafety
    OBVIOUS
  <2>1. TheIconIsLit
    <3> SUFFICES ASSUME shelf # NoIcon, ~pulsing, "picture" \notin shelf.unsent PROVE ~shelf.picture.dim
      BY DEF TheIconIsLit
    <3> QED
      BY TheRecordIs DEF IconInv, LitAtRest, ShowsItsLight
  <2> QED
    BY <1>2, <2>1 DEF MailInv, TraySafety
<1> HIDE DEF TrayInv
<1> QED
  BY <1>1, <1>3, <1>4, PTL DEF TraySpec
-----------------------------------------------------------------------------
(*                               The updates                               *)

LabelOf(a, b) == a.pre # b.pre /\ a.pre # 0 /\ (b.pre = 0 \/ a.pre < b.pre)

\* The three numbers from the left, and then the label.
FromTheLeft(a, b) ==
  \/ a.n[1] < b.n[1]
  \/ a.n[1] = b.n[1] /\ a.n[2] < b.n[2]
  \/ a.n[1] = b.n[1] /\ a.n[2] = b.n[2] /\ a.n[3] < b.n[3]
  \/ a.n[1] = b.n[1] /\ a.n[2] = b.n[2] /\ a.n[3] = b.n[3] /\ LabelOf(a, b)

LEMMA AVersionIs ==
  ASSUME NEW v \in ReleaseVersions
  PROVE  /\ v.n \in [1..3 -> Nat] /\ v.n[1] \in Nat /\ v.n[2] \in Nat /\ v.n[3] \in Nat /\ v.pre \in Nat
  BY DEF ReleaseVersions

LEMMA SameNumbers ==
  ASSUME NEW a \in ReleaseVersions, NEW b \in ReleaseVersions
  PROVE  a.n = b.n <=> a.n[1] = b.n[1] /\ a.n[2] = b.n[2] /\ a.n[3] = b.n[3]
<1>1. a.n \in [1..3 -> Nat] /\ b.n \in [1..3 -> Nat]
  BY AVersionIs
<1>2. ASSUME a.n[1] = b.n[1], a.n[2] = b.n[2], a.n[3] = b.n[3] PROVE \A i \in 1..3 : a.n[i] = b.n[i]
  <2>1. \A i \in 1..3 : i = 1 \/ i = 2 \/ i = 3
    OBVIOUS
  <2> QED
    BY <1>2, <2>1
<1> QED
  BY <1>1, <1>2

LEMMA SameVersions ==
  ASSUME NEW a \in ReleaseVersions, NEW b \in ReleaseVersions
  PROVE  a = b <=> a.n = b.n /\ a.pre = b.pre
  BY DEF ReleaseVersions

LEMMA NewerIs ==
  ASSUME NEW a \in ReleaseVersions, NEW b \in ReleaseVersions
  PROVE  Newer(a, b) <=> FromTheLeft(a, b)
<1> DEFINE Same(k) == a.n[k] = b.n[k]
<1>1. \A i \in 1..3 : i \in FirstDifference(a.n, b.n) <=> a.n[i] # b.n[i] /\ \A j \in 1..(i - 1) : Same(j)
  BY DEF FirstDifference
<1>2. \A i \in FirstDifference(a.n, b.n) : i \in {1, 2, 3}
  BY DEF FirstDifference
<1>3. /\ 1 \in FirstDifference(a.n, b.n) <=> ~Same(1)
      /\ 2 \in FirstDifference(a.n, b.n) <=> ~Same(2) /\ Same(1)
      /\ 3 \in FirstDifference(a.n, b.n) <=> ~Same(3) /\ Same(1) /\ Same(2)
  <2>1. (\A j \in 1..(1 - 1) : Same(j)) /\ ((\A j \in 1..(2 - 1) : Same(j)) <=> Same(1))
        /\ ((\A j \in 1..(3 - 1) : Same(j)) <=> Same(1) /\ Same(2))
    <3>1. 1..(1 - 1) = {} /\ 1..(2 - 1) = {1} /\ 1..(3 - 1) = {1, 2}
      OBVIOUS
    <3> HIDE DEF Same
    <3> QED
      BY <3>1
  <2> QED
    BY <1>1, <2>1
<1>4. (\E i \in FirstDifference(a.n, b.n) : a.n[i] < b.n[i]) <=>
        \/ ~Same(1) /\ a.n[1] < b.n[1]
        \/ ~Same(2) /\ Same(1) /\ a.n[2] < b.n[2]
        \/ ~Same(3) /\ Same(1) /\ Same(2) /\ a.n[3] < b.n[3]
  <2> HIDE DEF Same
  <2> QED
    BY <1>2, <1>3
<1>5. a.n = b.n <=> Same(1) /\ Same(2) /\ Same(3)
  BY SameNumbers
<1> QED
  BY <1>4, <1>5, AVersionIs DEF Newer, FromTheLeft, LabelOf, LabelIsEarlier

LEMMA NewerIsTotal ==
  ASSUME NEW a \in ReleaseVersions, NEW b \in ReleaseVersions, a # b
  PROVE  Newer(a, b) <=> ~Newer(b, a)
<1>1. ~(a.n[1] = b.n[1] /\ a.n[2] = b.n[2] /\ a.n[3] = b.n[3] /\ a.pre = b.pre)
  BY SameNumbers, SameVersions
<1> QED
  BY <1>1, NewerIs, AVersionIs DEF FromTheLeft, LabelOf

LEMMA NewerIsTransitive ==
  ASSUME NEW a \in ReleaseVersions, NEW b \in ReleaseVersions, NEW c \in ReleaseVersions, Newer(a, b), Newer(b, c)
  PROVE  Newer(a, c)
<1>1. FromTheLeft(a, b) /\ FromTheLeft(b, c)
  BY NewerIs
<1>2. LabelOf(a, b) /\ LabelOf(b, c) => LabelOf(a, c)
  BY AVersionIs DEF LabelOf
<1>3. FromTheLeft(a, c)
  BY <1>1, <1>2, AVersionIs DEF FromTheLeft
<1> QED
  BY <1>3, NewerIs

\* The tag that is kept is never of a document that is still to come.
UpdatesInv ==
  /\ document \in Documents /\ number \in Nat /\ etag \in Nat /\ etag <= number
  /\ WhatWasReadIsKnown /\ TheTagIsOfTheVerdict /\ ABalloonIsNotRepeated

LEMMA UpdatesStep == UpdatesInv /\ [UpdatesNext]_updateVars => UpdatesInv'
<1> SUFFICES ASSUME UpdatesInv, [UpdatesNext]_updateVars PROVE UpdatesInv'
  OBVIOUS
<1> USE DEF UpdatesInv, WhatWasReadIsKnown, TheTagIsOfTheVerdict, ABalloonIsNotRepeated
<1>1. CASE Publishes
  BY <1>1 DEF Publishes
<1>2. CASE Reads
  <2> DEFINE st == Verdict(document)
  <2>1. /\ UNCHANGED <<document, number>> /\ Verdict(document)' = st /\ etag # number
        /\ last' = Learnt(st) /\ etag' = NewTag(st) /\ heard' = (IF st.code = "unknown" THEN heard ELSE st)
        /\ IF st.code = "unknown" THEN UNCHANGED <<told, repeated>> ELSE Tells(st)
    BY <1>2 DEF Reads, Verdict
  <2> HIDE DEF st
  <2>2. CASE st.code = "unknown"
    BY <2>1, <2>2 DEF Learnt, NewTag
  <2>3. CASE st.code # "unknown"
    <3>1. last' = st /\ heard' = st /\ etag' = number /\ Tells(st)
      BY <2>1, <2>3 DEF Learnt, NewTag
    <3>2. ~repeated' /\ (st.code = "available" => told' = st.of)
      BY <3>1 DEF Tells, IsToBeTold
    <3> QED
      BY <2>1, <3>1, <3>2
  <2> QED
    BY <2>2, <2>3
<1>3. CASE IsUnchanged
  <2>1. /\ UNCHANGED <<document, number, last, etag>> /\ Verdict(document)' = Verdict(document)
        /\ last = Verdict(document) /\ heard' = Verdict(document)
    BY <1>3 DEF IsUnchanged, Verdict
  <2>2. ~repeated' /\ (last.code = "available" => told' = last.of)
    BY <1>3 DEF IsUnchanged, Tells, IsToBeTold
  <2> QED
    BY <2>1, <2>2
<1>4. CASE UNCHANGED updateVars
  <2>1. Verdict(document)' = Verdict(document)
    BY <1>4 DEF updateVars, Verdict
  <2> QED
    BY <1>4, <2>1 DEF updateVars
<1> QED
  BY <1>1, <1>2, <1>3, <1>4 DEF UpdatesNext

\* The order of versions is an order for any numbers and labels, what is known is
\* what the last document that said something said, the tag kept is of that
\* document, and a version is announced once (internal/update, internal/version).
THEOREM TheNewestIsTold == UpdatesInit /\ [][UpdatesNext]_updateVars => []UpdatesSafety
<1>1. UpdatesInit => UpdatesInv
  BY DEF UpdatesInit, UpdatesInv, WhatWasReadIsKnown, TheTagIsOfTheVerdict, ABalloonIsNotRepeated, Unknown
<1>2. UpdatesInv => UpdatesSafety
  <2> SUFFICES ASSUME UpdatesInv PROVE NewerIsAnOrder
    BY DEF UpdatesSafety, UpdatesInv
  <2>1. document.of \in ReleaseVersions /\ Releases \cup {Running} \subseteq ReleaseVersions
    BY UpdatesAssumption DEF UpdatesInv, Documents
  <2>2. ASSUME NEW a \in Releases \cup {Running}, NEW b \in Releases \cup {Running}
        PROVE  /\ a # b => (Newer(a, b) <=> ~Newer(b, a))
               /\ Newer(a, b) /\ Newer(b, document.of) => Newer(a, document.of)
               /\ a.n = b.n /\ a.pre # 0 /\ b.pre = 0 => Newer(a, b)
    <3>1. a \in ReleaseVersions /\ b \in ReleaseVersions
      BY <2>1
    <3>2. a.n = b.n /\ a.pre # 0 /\ b.pre = 0 => Newer(a, b)
      BY DEF Newer, LabelIsEarlier
    <3> QED
      BY <2>1, <3>1, <3>2, NewerIsTotal, NewerIsTransitive
  <2> QED
    BY <2>2 DEF NewerIsAnOrder
<1> QED
  BY <1>1, <1>2, UpdatesStep, PTL
-----------------------------------------------------------------------------
(*                                The panel                                *)

GestureType ==
  [kind : {"none", "left", "right"}, left : Nat, at : Int, fresh : BOOLEAN, slow : BOOLEAN, turns : Nat]

\* The gesture has made its turn, at its time or later, or it is still to make it
\* and nothing has counted for so long that its next message will.
HasTurnedSince(instant) ==
  \/ gesture.turns = 1 /\ instant >= gesture.at
  \/ gesture.turns = 0 /\ gesture.left > 0 /\ gesture.at - instant >= DoubleClick

RightTurns == gesture.kind = "right" /\ gesture.fresh /\ ~gesture.slow =>
  HasTurnedSince(lastPanel) /\ (gesture.turns = 0 => ~active)
LeftTurns == gesture.kind = "left" /\ gesture.fresh /\ ~gesture.slow => HasTurnedSince(lastOpen)

GestureInv ==
  /\ gesture \in GestureType /\ now \in Int /\ lastPanel \in Int /\ lastOpen \in Int /\ active \in BOOLEAN
  /\ lastPanel <= now /\ lastOpen <= now /\ gesture.at <= now
  /\ RightTurns /\ LeftTurns

\* What a gesture on the icon is not, leaves it and the page's instant alone, and
\* closes the panel or leaves it as it was, or gives it other commands.
LEMMA ElsewhereKeeps ==
  ASSUME GestureInv, UNCHANGED <<now, lastOpen, gesture>>,
         \/ Destroyed /\ (active \/ gesture.left = 0)
         \/ UNCHANGED <<active, lastPanel>>
  PROVE  GestureInv'
<1>1. CASE Destroyed /\ (active \/ gesture.left = 0)
  <2>1. active' = FALSE /\ lastPanel' = now
    BY <1>1 DEF Destroyed, PanelClosedAt
  <2>2. RightTurns'
    <3> SUFFICES ASSUME gesture.kind = "right", gesture.fresh, ~gesture.slow
                 PROVE  gesture.turns = 1 /\ lastPanel' >= gesture.at
      BY DEF RightTurns, HasTurnedSince
    <3>1. HasTurnedSince(lastPanel) /\ (gesture.turns = 0 => ~active)
      BY DEF GestureInv, RightTurns
    <3> QED
      BY <1>1, <2>1, <3>1 DEF HasTurnedSince, GestureInv
  <2>3. LeftTurns'
    BY DEF GestureInv, LeftTurns, HasTurnedSince
  <2>4. active' \in BOOLEAN
    BY <2>1
  <2>5. /\ gesture' \in GestureType /\ now' \in Int /\ lastPanel' \in Int /\ lastOpen' \in Int
        /\ lastPanel' <= now' /\ lastOpen' <= now' /\ gesture'.at <= now'
    BY <2>1 DEF GestureInv
  <2> QED
    BY <2>2, <2>3, <2>4, <2>5 DEF GestureInv
<1>2. CASE UNCHANGED <<active, lastPanel>>
  BY <1>2 DEF GestureInv, LeftTurns, RightTurns, HasTurnedSince
<1> QED
  BY <1>1, <1>2

LEMMA PressKeeps ==
  ASSUME GestureInv, NEW kind \in {"left", "right"}, Presses(kind)
  PROVE  GestureInv'
<1> USE PanelAssumption
<1>1. PICK messages \in 1..MaxMessages :
        gesture' = [kind |-> kind, left |-> messages, at |-> now, slow |-> FALSE,
                    fresh |-> IsNew(IF kind = "right" THEN lastPanel ELSE lastOpen),
                    turns |-> IF active /\ kind = "right" THEN 1 ELSE 0]
  BY DEF Presses
<1>2. UNCHANGED <<now, lastOpen>> /\ IF active THEN Destroyed ELSE UNCHANGED <<windowVars, lastPanel>>
  BY DEF Presses
<1>3. messages \in Nat /\ messages > 0
  OBVIOUS
<1>4. gesture' \in GestureType /\ gesture'.at = now /\ gesture'.left > 0
  BY <1>1, <1>3 DEF GestureType, IsNew, GestureInv
<1>5. active' = FALSE /\ lastPanel' = IF active THEN now ELSE lastPanel
  <2>1. CASE active
    BY <1>2, <2>1 DEF Destroyed, PanelClosedAt
  <2>2. CASE ~active
    BY <1>2, <2>2 DEF windowVars, GestureInv
  <2> QED
    BY <2>1, <2>2
<1>6. RightTurns'
  <2> SUFFICES ASSUME kind = "right", IsNew(lastPanel) PROVE HasTurnedSince(lastPanel)'
    BY <1>1, <1>5 DEF RightTurns
  <2>1. CASE active
    BY <1>1, <1>5, <2>1 DEF HasTurnedSince, GestureInv
  <2>2. CASE ~active
    BY <1>1, <1>3, <1>5, <2>2 DEF HasTurnedSince, GestureInv, IsNew
  <2> QED
    BY <2>1, <2>2
<1>7. LeftTurns'
  <2> SUFFICES ASSUME kind = "left", IsNew(lastOpen) PROVE HasTurnedSince(lastOpen)'
    BY <1>1 DEF LeftTurns
  <2> QED
    BY <1>1, <1>2, <1>3 DEF HasTurnedSince, GestureInv, IsNew
<1>8. active' \in BOOLEAN
  BY <1>5
<1>9. /\ now' \in Int /\ lastPanel' \in Int /\ lastOpen' \in Int
      /\ lastPanel' <= now' /\ lastOpen' <= now' /\ gesture'.at <= now'
  BY <1>2, <1>4, <1>5 DEF GestureInv
<1> QED
  BY <1>4, <1>6, <1>7, <1>8, <1>9 DEF GestureInv

\* A message of the icon: counted when nothing has counted for a double click.
LEMMA MessageIs ==
  ASSUME GestureInv, gesture.left > 0, NEW turned \in BOOLEAN, IF turned THEN Turned ELSE SameGesture
  PROVE  /\ gesture' \in GestureType /\ gesture'.kind = gesture.kind /\ gesture'.at = gesture.at
         /\ gesture'.fresh = gesture.fresh
         /\ ~gesture'.slow => ~gesture.slow /\ now - gesture.at < DoubleClick
         /\ gesture'.turns = IF turned THEN gesture.turns + 1 ELSE gesture.turns
<1> DEFINE late == gesture.slow \/ now - gesture.at >= DoubleClick
<1> DEFINE turns == IF turned THEN gesture.turns + 1 ELSE gesture.turns
<1>1. gesture \in GestureType /\ now \in Int /\ gesture.at \in Int /\ gesture.left - 1 \in Nat /\ DoubleClick \in Int
  BY PanelAssumption DEF GestureInv, GestureType
<1>2. late \in BOOLEAN /\ turns \in Nat /\ (~late => ~gesture.slow /\ now - gesture.at < DoubleClick)
  BY <1>1 DEF GestureType
<1>3. gesture' = [gesture EXCEPT !.left = @ - 1, !.turns = turns, !.slow = late]
  <2>1. CASE turned
    BY <1>1, <2>1 DEF Turned, GestureType
  <2>2. CASE ~turned
    BY <1>1, <2>2 DEF SameGesture, GestureType
  <2> QED
    BY <2>1, <2>2
<1> HIDE DEF late, turns
<1>4. /\ gesture' \in GestureType /\ gesture'.kind = gesture.kind /\ gesture'.at = gesture.at
      /\ gesture'.fresh = gesture.fresh /\ gesture'.slow = late /\ gesture'.turns = turns
  BY <1>1, <1>2, <1>3 DEF GestureType
<1> QED
  BY <1>2, <1>4 DEF turns

LEMMA RightKeeps == GestureInv /\ RightEvent => GestureInv'
<1> SUFFICES ASSUME GestureInv, RightEvent PROVE GestureInv'
  OBVIOUS
<1> DEFINE turned == IsNew(lastPanel)
<1>1. turned \in BOOLEAN /\ gesture.left > 0 /\ (IF turned THEN Turned ELSE SameGesture)
      /\ gesture.kind = "right" /\ UNCHANGED <<now, lastOpen>>
  BY DEF RightEvent, IsNew
<1>2. /\ lastPanel' = IF turned THEN now ELSE lastPanel
      /\ active' \in BOOLEAN
      /\ ~turned => active' = active
  <2>1. CASE turned
    BY <2>1 DEF RightEvent, Destroyed, Created, NotCreated, PanelClosedAt, windowVars, GestureInv
  <2>2. CASE ~turned
    BY <2>2 DEF RightEvent, windowVars, GestureInv
  <2> QED
    BY <2>1, <2>2
<1>3. turned <=> now - lastPanel >= DoubleClick
  BY DEF IsNew
<1> HIDE DEF turned
<1>4. /\ gesture' \in GestureType /\ gesture'.kind = "right" /\ gesture'.at = gesture.at
      /\ gesture'.fresh = gesture.fresh
      /\ ~gesture'.slow => ~gesture.slow /\ now - gesture.at < DoubleClick
      /\ gesture'.turns = IF turned THEN gesture.turns + 1 ELSE gesture.turns
  BY <1>1, MessageIs
<1>5. RightTurns'
  <2> SUFFICES ASSUME gesture'.fresh, ~gesture'.slow PROVE gesture'.turns = 1 /\ lastPanel' >= gesture'.at
    BY DEF RightTurns, HasTurnedSince
  <2>1. HasTurnedSince(lastPanel) /\ now - gesture.at < DoubleClick
    BY <1>1, <1>4 DEF GestureInv, RightTurns
  <2> QED
    BY <1>2, <1>3, <1>4, <2>1, PanelAssumption DEF HasTurnedSince, GestureInv, GestureType
<1>6. LeftTurns'
  BY <1>4 DEF LeftTurns
<1> QED
  BY <1>1, <1>2, <1>4, <1>5, <1>6 DEF GestureInv

LEMMA LeftKeeps == GestureInv /\ LeftEvent => GestureInv'
<1> SUFFICES ASSUME GestureInv, LeftEvent PROVE GestureInv'
  OBVIOUS
<1> DEFINE turned == IsNew(lastOpen)
<1>1. turned \in BOOLEAN /\ gesture.left > 0 /\ (IF turned THEN Turned ELSE SameGesture)
      /\ gesture.kind = "left" /\ UNCHANGED <<now, active, lastPanel>>
  BY DEF LeftEvent, IsNew, IsActivation, windowVars
<1>2. lastOpen' = IF turned THEN now ELSE lastOpen
  BY DEF LeftEvent, IsActivation
<1>3. turned <=> now - lastOpen >= DoubleClick
  BY DEF IsNew
<1> HIDE DEF turned
<1>4. /\ gesture' \in GestureType /\ gesture'.kind = "left" /\ gesture'.at = gesture.at
      /\ gesture'.fresh = gesture.fresh
      /\ ~gesture'.slow => ~gesture.slow /\ now - gesture.at < DoubleClick
      /\ gesture'.turns = IF turned THEN gesture.turns + 1 ELSE gesture.turns
  BY <1>1, MessageIs
<1>5. LeftTurns'
  <2> SUFFICES ASSUME gesture'.fresh, ~gesture'.slow PROVE gesture'.turns = 1 /\ lastOpen' >= gesture'.at
    BY DEF LeftTurns, HasTurnedSince
  <2>1. HasTurnedSince(lastOpen) /\ now - gesture.at < DoubleClick
    BY <1>1, <1>4 DEF GestureInv, LeftTurns
  <2> QED
    BY <1>1, <1>2, <1>3, <1>4, <2>1, PanelAssumption DEF HasTurnedSince, GestureInv, GestureType
<1>6. RightTurns'
  BY <1>4 DEF RightTurns
<1>7. /\ now' \in Int /\ lastPanel' \in Int /\ lastOpen' \in Int
      /\ lastPanel' <= now' /\ lastOpen' <= now' /\ gesture'.at <= now'
  BY <1>1, <1>2, <1>4 DEF GestureInv
<1>8. active' \in BOOLEAN
  BY <1>1 DEF GestureInv
<1> QED
  BY <1>4, <1>5, <1>6, <1>7, <1>8 DEF GestureInv

LEMMA RunKeeps ==
  ASSUME GestureInv, NEW c, NEW untouched, Runs(c, untouched), gesture.left = 0, UNCHANGED <<now, lastOpen, gesture>>
  PROVE  GestureInv'
<1>1. Destroyed \/ UNCHANGED <<active, lastPanel>>
  BY DEF Runs
<1> QED
  BY <1>1, ElsewhereKeeps

LEMMA GestureStep == GestureInv /\ [PanelNext]_panelVars => GestureInv'
<1> SUFFICES ASSUME GestureInv, [PanelNext]_panelVars PROVE GestureInv'
  OBVIOUS
<1>1. CASE \E kind \in {"left", "right"} : Presses(kind)
  BY <1>1, PressKeeps
<1>2. CASE RightEvent
  BY <1>2, RightKeeps
<1>3. CASE LeftEvent
  BY <1>3, LeftKeeps
<1>4. CASE \E i \in DOMAIN cmds : Clicks(i)
  BY <1>4, RunKeeps DEF Clicks
<1>5. CASE Enters
  BY <1>5, RunKeeps DEF Enters
<1>6. CASE MovesTheFocus
  BY <1>6, ElsewhereKeeps DEF MovesTheFocus
<1>7. CASE Escapes
  <2>1. gesture.left = 0 /\ UNCHANGED <<now, lastOpen, gesture>> /\ (Destroyed \/ UNCHANGED <<active, lastPanel>>)
    BY <1>7 DEF Escapes
  <2> QED
    BY <2>1, ElsewhereKeeps
<1>8. CASE LosesActivation
  BY <1>8, ElsewhereKeeps DEF LosesActivation
<1>9. CASE OffersChange
  BY <1>9, ElsewhereKeeps DEF OffersChange, windowVars
<1>10. CASE TimePasses
  BY <1>10 DEF TimePasses, windowVars, GestureInv, RightTurns, LeftTurns, HasTurnedSince, GestureType
<1>11. CASE UNCHANGED panelVars
  BY <1>11, ElsewhereKeeps DEF panelVars
<1> QED
  BY <1>1, <1>2, <1>3, <1>4, <1>5, <1>6, <1>7, <1>8, <1>9, <1>10, <1>11 DEF PanelNext

\* One gesture on the icon, however many messages Windows makes of it and whether or
\* not its press has closed the panel by taking the foreground from it, turns the
\* panel once and opens the page once (internal/tray, newGesture).
THEOREM AGestureTurnsOnce == PanelInit /\ [][PanelNext]_panelVars => []AGestureIsOneTurn
<1>1. PanelInit => GestureInv
  <2> SUFFICES ASSUME PanelInit PROVE GestureInv
    OBVIOUS
  <2>1. gesture = NoGesture /\ active = FALSE /\ now = DoubleClick /\ lastPanel = 0 /\ lastOpen = 0
    BY DEF PanelInit
  <2>2. gesture \in GestureType /\ gesture.kind = "none" /\ gesture.at = 0
    BY <2>1 DEF NoGesture, GestureType
  <2>3. active \in BOOLEAN
    BY <2>1
  <2>4. now \in Int /\ 0 <= now
    BY <2>1, PanelAssumption
  <2>5. RightTurns /\ LeftTurns
    BY <2>2 DEF RightTurns, LeftTurns
  <2> QED
    BY <2>1, <2>2, <2>3, <2>4, <2>5 DEF GestureInv
<1>2. GestureInv => AGestureIsOneTurn
  BY DEF GestureInv, GestureType, AGestureIsOneTurn, RightTurns, LeftTurns, HasTurnedSince
<1> QED
  BY <1>1, <1>2, GestureStep, PTL
=============================================================================
