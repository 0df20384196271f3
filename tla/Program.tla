------------------------------- MODULE Program -------------------------------
(***************************************************************************)
(* cmd/pat-monitor as a process: the parts it starts in one group, the     *)
(* faults each is caught with, how the quit reaches them, the deadline the *)
(* quit has, and a second copy that is started meanwhile.                  *)
(*                                                                         *)
(* A part may block in a driver or in a system call and never come back.   *)
(***************************************************************************)
EXTENDS Naturals, FiniteSets

CONSTANTS Accessories,  \* the parts wrapped in aside
          Limit         \* shutdownLimit

ASSUME ProgramAssumption ==
  /\ Limit \in Nat \ {0}
  /\ Accessories \cap {"capture", "server", "quality", "shutdown"} = {}

Essentials == {"capture", "server"}
Parts == Accessories \cup Essentials \cup {"quality", "shutdown"}

VARIABLES
  part,       \* where each part is
  cancelled,  \* the group's context
  asked,      \* somebody asked to quit
  groupError, \* what Wait will return is an error
  main,       \* where run is
  waited,     \* how long since stopping was asked for
  levers,     \* those the quality loop has lowered
  sizeKnown,  \* StartSize has an answer
  port, camera, \* who holds them: a copy, or "nobody"
  second,     \* the copy that is started to put things right
  failedPart, \* history: an essential part failed before anything was cancelled
  unheard     \* history: the bitrate could not be given back

programVars ==
  <<part, cancelled, asked, groupError, main, waited, levers, sizeKnown, port, camera, second, failedPart, unheard>>

Levers == {"bitrate", "format"}

ProgramInit ==
  /\ part = [p \in Parts |-> "running"] /\ cancelled = FALSE /\ asked = FALSE /\ groupError = FALSE
  /\ main = "watching" /\ waited = 0 /\ levers = {} /\ sizeKnown \in BOOLEAN
  /\ port = "first" /\ camera = "first" /\ second = "none" /\ failedPart = FALSE /\ unheard = FALSE

IsAlive == main # "gone"
atHome == <<asked, main, waited, levers, sizeKnown, second, unheard>>

-----------------------------------------------------------------------------
\* guard.Run turns a panic into an error, and the group's context is cancelled
\* by the first member that returns one.  An accessory's is swallowed by aside,
\* and the quality loop's by what it puts back.

NotAside(p) == TRUE                                                \* mutant
EndsTheGroup(p) == p \notin Accessories \cup {"quality"}

\* SetBitrate answers with an error between two sessions, when there is no encoder
\* to command, and when the encoder refuses: it is written down, and what had been
\* lowered stays.
OnlyTheBitrate(heard) == IF heard THEN levers \ {"bitrate"} ELSE levers   \* mutant
PutBack(heard) ==
  levers \ ((IF heard THEN {"bitrate"} ELSE {}) \cup (IF sizeKnown THEN {"format"} ELSE {}))

\* What a part held is let go as it ends.
LetsGo(p) ==
  /\ port' = IF p \in {"server", "shutdown"} /\ port = "first" THEN "nobody" ELSE port
  /\ camera' = IF p = "capture" /\ camera = "first" THEN "nobody" ELSE camera

Fails(p) ==
  /\ IsAlive /\ part[p] = "running" /\ part' = [part EXCEPT ![p] = "ended"]
  /\ p = "shutdown" => cancelled
  /\ groupError' = (groupError \/ EndsTheGroup(p)) /\ cancelled' = (cancelled \/ EndsTheGroup(p))
  /\ failedPart' = (failedPart \/ (p \in Essentials /\ ~cancelled))
  /\ IF p = "quality" THEN \E heard \in BOOLEAN : levers' = PutBack(heard) /\ unheard' = ~heard
                      ELSE UNCHANGED <<levers, unheard>>
  /\ LetsGo(p)
  /\ UNCHANGED <<asked, main, waited, sizeKnown, second>>

Blocks(p) ==
  /\ IsAlive /\ part[p] = "running" /\ part' = [part EXCEPT ![p] = "stuck"]
  /\ UNCHANGED <<cancelled, groupError, port, camera, failedPart, atHome>>

\* An accessory may be over before the monitor is.
EndsByItself(p) ==
  /\ IsAlive /\ p \in Accessories /\ ~cancelled
  /\ part[p] = "running" /\ part' = [part EXCEPT ![p] = "ended"]
  /\ UNCHANGED <<cancelled, groupError, port, camera, failedPart, atHome>>

\* On the cancellation each part ends in order.  The server's stop closes the
\* listener, so Serve may go once that has begun.
EndsInOrder(p) ==
  /\ IsAlive /\ cancelled /\ part[p] = "running"
  /\ p = "server" => part["shutdown"] # "running"
  /\ part' = [part EXCEPT ![p] = "ended"] /\ LetsGo(p)
  /\ UNCHANGED <<cancelled, groupError, failedPart, atHome>>

\* Requests that are still under way after five seconds are an error.
ShutdownTimesOut ==
  /\ IsAlive /\ cancelled /\ part["shutdown"] = "running"
  /\ part' = [part EXCEPT !["shutdown"] = "ended"] /\ groupError' = TRUE /\ LetsGo("shutdown")
  /\ UNCHANGED <<cancelled, failedPart, atHome>>

QualityLowers ==
  /\ IsAlive /\ part["quality"] = "running" /\ levers # Levers
  /\ \E l \in Levers \ levers : (l = "format" => sizeKnown) /\ levers' = levers \cup {l}
  /\ UNCHANGED <<part, cancelled, asked, groupError, main, waited, sizeKnown, port, camera, second, failedPart, unheard>>

CameraOpens ==
  /\ IsAlive /\ ~sizeKnown /\ part["capture"] = "running" /\ sizeKnown' = TRUE
  /\ UNCHANGED <<part, cancelled, asked, groupError, main, waited, levers, port, camera, second, failedPart, unheard>>

AsksToQuit ==
  /\ IsAlive /\ ~asked /\ asked' = TRUE /\ cancelled' = TRUE
  /\ UNCHANGED <<part, groupError, main, waited, levers, sizeKnown, port, camera, second, failedPart, unheard>>

-----------------------------------------------------------------------------
\* run, once everything is started: it waits for the group, for `quitting`, and
\* from then on for the deadline.

AllEnded == \A p \in Parts : part[p] = "ended"

\* run returns, and its deferred calls begin: the listener is closed first.
Returns == main' = "leaving" /\ port' = IF port = "first" THEN "nobody" ELSE port

GroupEnds ==
  /\ main \in {"watching", "quitting"} /\ AllEnded
  /\ IF groupError THEN Returns ELSE main' = "saving" /\ UNCHANGED port
  /\ UNCHANGED <<part, cancelled, asked, groupError, waited, levers, sizeKnown, camera, second, failedPart, unheard>>

HearsTheQuit ==
  /\ main = "watching" /\ cancelled /\ main' = "quitting" /\ waited' = 0
  /\ UNCHANGED <<part, cancelled, asked, groupError, levers, sizeKnown, port, camera, second, failedPart, unheard>>

NoDeadline == FALSE                                                \* mutant
IsTooLate == waited = Limit

Waits ==
  /\ main = "quitting" /\ waited < Limit /\ waited' = waited + 1
  /\ UNCHANGED <<part, cancelled, asked, groupError, main, levers, sizeKnown, port, camera, second, failedPart, unheard>>

\* os.Exit: no deferred call runs, and the system takes back what is held.
LeavesItToTheSystem ==
  /\ main = "quitting" /\ IsTooLate /\ main' = "gone"
  /\ port' = IF port = "first" THEN "nobody" ELSE port
  /\ camera' = IF camera = "first" THEN "nobody" ELSE camera
  /\ UNCHANGED <<part, cancelled, asked, groupError, waited, levers, sizeKnown, second, failedPart, unheard>>

\* The last clip is handed over and written, or its time runs out.
Saves ==
  /\ main = "saving" /\ Returns
  /\ UNCHANGED <<part, cancelled, asked, groupError, waited, levers, sizeKnown, camera, second, failedPart, unheard>>

\* The other deferred calls wait, and without a deadline: for the watching round,
\* which asks the clips' folder for room behind whoever is saving one, for the
\* deliveries under way and their store, for the recogniser.  What they wait for
\* may be held up by a disk that does not answer, until it does.
Unwinds ==
  /\ main = "leaving" /\ main' \in {"gone", "held"}
  /\ UNCHANGED <<part, cancelled, asked, groupError, waited, levers, sizeKnown, port, camera, second, failedPart, unheard>>

DiskAnswers ==
  /\ main = "held" /\ main' = "gone"
  /\ UNCHANGED <<part, cancelled, asked, groupError, waited, levers, sizeKnown, port, camera, second, failedPart, unheard>>

-----------------------------------------------------------------------------
\* Another copy: it takes the port before it opens the camera, or ends, and it
\* tries the camera again until it has it.

SecondStarts ==
  /\ second \in {"none", "refused"} /\ second' = "starting"
  /\ UNCHANGED <<part, cancelled, asked, groupError, main, waited, levers, sizeKnown, port, camera, failedPart, unheard>>

CameraFirst == TRUE                                                \* mutant
MayWatch == port = "nobody"

SecondListens ==
  /\ second = "starting"
  /\ IF MayWatch THEN second' = "watching" /\ port' = "second" ELSE second' = "refused" /\ UNCHANGED port
  /\ UNCHANGED <<part, cancelled, asked, groupError, main, waited, levers, sizeKnown, camera, failedPart, unheard>>

SecondOpensTheCamera ==
  /\ second = "watching" /\ camera = "nobody" /\ camera' = "second"
  /\ UNCHANGED <<part, cancelled, asked, groupError, main, waited, levers, sizeKnown, port, second, failedPart, unheard>>

PartNext == \E p \in Parts : Fails(p) \/ Blocks(p) \/ EndsByItself(p) \/ EndsInOrder(p)
RunNext == GroupEnds \/ HearsTheQuit \/ Waits \/ LeavesItToTheSystem \/ Saves \/ Unwinds
ProgramNext ==
  \/ PartNext \/ ShutdownTimesOut \/ QualityLowers \/ CameraOpens \/ AsksToQuit
  \/ RunNext \/ DiskAnswers
  \/ SecondStarts \/ SecondListens \/ SecondOpensTheCamera
ProgramSpec == ProgramInit /\ [][ProgramNext]_programVars

-----------------------------------------------------------------------------
ProgramTypeOK ==
  /\ part \in [Parts -> {"running", "stuck", "ended"}] /\ waited \in 0..Limit /\ levers \subseteq Levers
  /\ main \in {"watching", "quitting", "saving", "leaving", "held", "gone"} /\ unheard \in BOOLEAN
  /\ {port, camera} \subseteq {"first", "second", "nobody"}
  /\ second \in {"none", "starting", "refused", "watching"}

\* What can be done without never ends the monitor, however it fails: the group
\* is cancelled because somebody asked, or because the capture or the server is
\* gone.
AccessoriesAreApart == cancelled => asked \/ failedPart

\* With the quality loop gone nobody can raise the picture again: what it had
\* lowered is back at the top, the size and the cadence always, and the bitrate
\* unless its command could not be given.
ThePictureIsGivenBack ==
  part["quality"] = "ended" /\ ~cancelled => levers \subseteq (IF unheard THEN {"bitrate"} ELSE {})

\* A copy that is running keeps the port against every other, and only who has
\* the port goes for the camera.
OneCopyAtATime ==
  /\ main = "watching" /\ part["server"] = "running" /\ part["shutdown"] = "running" => port = "first"
  /\ camera = "second" => port = "second"

\* Whoever asks to quit has the port and the camera free in the end, whatever part is
\* stuck; and sees the process go, unless a deferred call of run is held up.
TheQuitEnds ==
  /\ asked ~> port # "first" /\ camera # "first"
  /\ asked ~> main \in {"gone", "held"}

\* And the copy started in its place films, in the end.
TheSecondFilms == second = "watching" ~> camera = "second"

\* Together: an accessory does not end the monitor, a lost quality loop gives the
\* picture back as far as it can command, and two copies never film.
ProgramSafety == ProgramTypeOK /\ AccessoriesAreApart /\ ThePictureIsGivenBack /\ OneCopyAtATime

\* And what comes in the end: the process lets everything go, and the copy after it films.
ProgramGoesOn == TheQuitEnds /\ TheSecondFilms
=============================================================================
