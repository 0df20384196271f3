------------------------------- MODULE Tunnel -------------------------------
(***************************************************************************)
(* internal/tunnel: remote access.  Nothing of it exists before somebody   *)
(* enables it.  Then a node lives, waits for what it lacks, listens, gets  *)
(* its certificate and serves; a life that fails is followed by another.   *)
(* Beside each life that serves, a goroutine asks the public address       *)
(* whether it answers.                                                     *)
(*                                                                         *)
(* Lives are told apart by three names, taken in turn.                     *)
(***************************************************************************)
EXTENDS Integers, FiniteSets

CONSTANTS FirstWait, MaxWait, Recheck, \* reachFirstWait, reachMaxWait, reachRecheck
          Grace,                       \* reachGrace
          Confirm                      \* reachFailsToConfirm

ASSUME TunnelAssumption ==
  /\ {FirstWait, MaxWait, Recheck, Grace, Confirm} \subseteq Nat \ {0}
  /\ FirstWait < MaxWait /\ 2 * MaxWait <= Recheck
  /\ Confirm >= 2           \* one failure never confirms; the code's is two

Lives == 0..2
Shown(phase, link, url, warning, reach) ==
  [phase |-> phase, link |-> link, url |-> url, warning |-> warning, reach |-> reach]
Off == Shown("off", FALSE, FALSE, FALSE, "unknown")
Only(phase) == [Off EXCEPT !.phase = phase]
Failed == Only("error")      \* at one of the steps that are tried again
Panicked == Only("panic")    \* the error whose step is the panic

VARIABLES
  enabled, ending,  \* the two channels: the permission, and the program's context
  state,            \* Tunnel.state
  life, stands,         \* which life it is, and where its goroutine is
  listening,        \* the funnel's listener
  link,             \* featureAnswer: the administrator's link is remembered
  watchers,         \* the lives whose reachability check still runs
  wait, since, fails, \* and its wait, age and failures in a row
  places,           \* the folders that hold a node's identity
  answered,         \* history: the last answer that came carried a link, not used yet
  lastTwo,          \* history: whether the last two checks of this life failed
  stranger, unseen  \* history, of the last life: its node was born while there was an
                    \* identity, and the former folder could not be looked at

tunnelVars == <<enabled, ending, state, life, stands, listening, link, watchers, wait, since, fails, places,
                answered, lastTwo, stranger, unseen>>
reachVars == <<watchers, wait, since, fails, lastTwo>>
nodeVars == <<places, stranger, unseen>>

TunnelInit ==
  /\ enabled = FALSE /\ ending = FALSE /\ state = Off /\ life = 0 /\ stands = "waits" /\ listening = FALSE
  /\ link = FALSE /\ watchers = {} /\ wait = FirstWait /\ since = 0 /\ fails = 0
  /\ places \in SUBSET {"former", "current"}
  /\ answered = FALSE /\ lastTwo = <<FALSE, FALSE>> /\ stranger = FALSE /\ unseen = FALSE

Enable ==
  /\ ~enabled /\ enabled' = TRUE
  /\ UNCHANGED <<ending, state, life, stands, listening, link, reachVars, nodeVars, answered>>

Quits ==
  /\ ~ending /\ ending' = TRUE
  /\ UNCHANGED <<enabled, state, life, stands, listening, link, reachVars, nodeVars, answered>>

-----------------------------------------------------------------------------
\* The node's folder.  What the former one holds is moved, or used where it is
\* when it cannot be; but a former folder that cannot even be looked at is taken
\* for one that holds nothing, and a new one that cannot be for one not to touch.

UsesTheNewOne(moves) == "current"                                  \* mutant
FolderWhen(moves) == IF moves THEN "current" ELSE "former"

FolderOf(readable, moves) ==
  CASE "former" \notin places \cap readable -> "current"
    [] "former" \in places \cap readable /\ "current" \notin readable -> "former"
    [] "former" \in places \cap readable /\ "current" \in places \cap readable -> "current"
    [] OTHER -> FolderWhen(moves)
IsMoved(readable, moves) == places = {"former"} /\ readable = {"former", "current"} /\ moves

MovesTheNode(readable, moves) ==
  /\ places' = IF IsMoved(readable, moves) THEN {"current"} ELSE places \cup {FolderOf(readable, moves)}
  /\ stranger' = (places # {} /\ FolderOf(readable, moves) \notin places /\ ~IsMoved(readable, moves))
  /\ unseen' = ("former" \in places /\ "former" \notin readable)

\* A life begins, also when its turn came together with the program's end.
LifeBegins ==
  /\ enabled /\ stands = "waits" /\ stands' = "starts"
  /\ life' = (life + 1) % 3 /\ state' = Only("starting")
  /\ \E readable \in SUBSET {"former", "current"}, moves \in BOOLEAN : MovesTheNode(readable, moves)
  /\ UNCHANGED <<enabled, ending, listening, link, reachVars, answered>>

NodeStarts ==
  /\ stands = "starts" /\ stands' = "prepares"
  /\ UNCHANGED <<enabled, ending, state, life, listening, link, reachVars, nodeVars, answered>>

\* waitReady: what the node lacks is shown, with what the control server answered
\* last.  A status that cannot be read, or a machine used by another, is shown as a
\* fault while this same life asks again.  An answer that does not come takes no
\* link away; one that carries only a text does.
RemembersNothing(answer) == answer = "link"                        \* mutant
Remembered(answer) == IF answer = "none" THEN link ELSE answer = "link"

Evaluates ==
  /\ stands = "prepares"
  /\ \/ /\ \E phase \in {"needs-login", "needs-approval", "starting", "error"} : state' = Only(phase)
        /\ UNCHANGED <<stands, link, answered>>
     \/ \E answer \in {"none", "text", "link"} :
          /\ link' = Remembered(answer)
          /\ answered' = (answer = "link" \/ (answer = "none" /\ answered))
          /\ state' = [Only("needs-funnel") EXCEPT !.link = link'] /\ UNCHANGED stands
     \/ stands' = "listens" /\ UNCHANGED <<state, link, answered>>
     \/ stands' = "listens" /\ link' = FALSE /\ answered' = FALSE /\ UNCHANGED state
  /\ UNCHANGED <<enabled, ending, life, listening, reachVars, nodeVars>>

\* The life is over: its goroutines are told, and what was open is closed.
\* A watcher may be in the middle of a check, and ends when it has looked.
NotAnother == "gone"                                               \* mutant
AfterALife == IF ending THEN "gone" ELSE "waits"

LifeEnds ==
  /\ stands' = AfterALife /\ listening' = FALSE
  /\ UNCHANGED <<enabled, ending, life, link, reachVars, nodeVars, answered>>

Listens ==
  /\ stands = "listens" /\ stands' = "certifies" /\ listening' = TRUE /\ state' = Only("certificate")
  /\ UNCHANGED <<enabled, ending, life, link, reachVars, nodeVars, answered>>

\* With the certificate, and the wait for the grant, it serves, and its watcher
\* says at once that it is checking.
Serves ==
  /\ stands = "certifies" /\ stands' = "serves"
  /\ \E warned \in BOOLEAN : state' = [Only("running") EXCEPT !.url = TRUE, !.warning = warned,
                                                      !.reach = "checking"]
  /\ watchers' = watchers \cup {life} /\ wait' = FirstWait /\ since' = 0 /\ fails' = 0
  /\ lastTwo' = <<FALSE, FALSE>>
  /\ UNCHANGED <<enabled, ending, life, listening, link, nodeVars, answered>>

\* A step that fails says so also while the program ends, except the wait for the
\* certificate.
Breaks ==
  /\ stands \in {"starts", "prepares", "listens", "certifies", "serves"} /\ (stands = "certifies" => ~ending)
  /\ state' = Failed /\ LifeEnds

\* On the way out nothing is told, unless it was serving.
AsItWas == state                                                   \* mutant
ShownOnTheWayOut == IF stands = "serves" THEN Off ELSE state

\* The start of the node and the opening of the listener are told nothing of the
\* program's end.  What waits for an answer hears it.
Deaf == {"starts", "listens"}
NotWhileItPrepares == stands \in {"certifies", "serves"}              \* mutant
IsToLeave == stands \in {"prepares", "certifies", "serves"}

Leaves ==
  /\ IsToLeave /\ ending /\ state' = ShownOnTheWayOut
  /\ stands' = "gone" /\ listening' = FALSE
  /\ UNCHANGED <<enabled, ending, life, link, reachVars, nodeVars, answered>>
StopsWaiting ==
  /\ stands = "waits" /\ ending /\ stands' = "gone"
  /\ UNCHANGED <<enabled, ending, state, life, listening, link, reachVars, nodeVars, answered>>

\* A panic is caught, shown, and is the end of remote access.
Panics ==
  /\ stands \in {"starts", "prepares", "listens", "certifies"}
  /\ state' = Panicked /\ stands' = "gone" /\ listening' = FALSE
  /\ UNCHANGED <<enabled, ending, life, link, reachVars, nodeVars, answered>>

-----------------------------------------------------------------------------
\* The check.  A watcher that has looked says so if the tunnel is open; one whose
\* life is over ends before it looks again.

WhateverThePhase(code) == [state EXCEPT !.reach = code]             \* mutant
SaidIfOpen(code) == IF state.phase = "running" THEN [state EXCEPT !.reach = code] ELSE state

KeepsTheWarning(code) == SaidIfOpen(code)                           \* mutant
Said(code) ==
  [SaidIfOpen(code) EXCEPT !.warning = @ /\ ~(code = "verified" /\ state.phase = "running")]

CountsOn == fails                                                  \* mutant
FailsAfterAnAnswer == 0

DoublesOnly(w) == IF w < MaxWait THEN 2 * w ELSE w                  \* mutant
SoonAgain(w) == IF w >= Recheck THEN FirstWait ELSE IF w < MaxWait THEN 2 * w ELSE w

Older == IF since + wait > Grace THEN Grace ELSE since + wait

Checks(n, result) ==
  /\ n = life /\ stands = "serves"
  /\ since' = Older
  /\ lastTwo' = <<result = "failed", lastTwo[1]>>
  /\ IF result = "failed"
       THEN /\ fails' = (IF fails < Confirm THEN fails + 1 ELSE fails)
            /\ state' = Said(IF since' < Grace \/ fails' < Confirm THEN "checking" ELSE "unreachable")
            /\ wait' = SoonAgain(wait)
       ELSE /\ fails' = FailsAfterAnAnswer /\ state' = Said(IF result = "verified" THEN "verified" ELSE "unknown")
            /\ wait' = Recheck
  /\ UNCHANGED <<watchers, enabled, ending, life, stands, listening, link, nodeVars, answered>>

\* The check that was under way when the life ended still says what it found,
\* then the goroutine sees that it is over.
LooksTooLate(n) ==
  /\ stands # "serves" /\ watchers' = watchers \ {n}
  /\ \E code \in {"checking", "verified", "unreachable", "unknown"} : state' = Said(code)
  /\ UNCHANGED <<enabled, ending, life, stands, listening, link, wait, since, fails, lastTwo, nodeVars, answered>>
Ends(n) ==
  /\ n # life \/ stands # "serves"
  /\ watchers' = watchers \ {n}
  /\ UNCHANGED <<enabled, ending, state, life, stands, listening, link, wait, since, fails, lastTwo, nodeVars, answered>>

Watches ==
  \E n \in watchers :
    \/ \E result \in {"verified", "direct", "failed"} : Checks(n, result)
    \/ LooksTooLate(n)
    \/ Ends(n)

LifeNext == LifeBegins \/ NodeStarts \/ Evaluates \/ Listens \/ Serves \/ Breaks \/ Leaves \/ StopsWaiting \/ Panics
TunnelNext == Enable \/ Quits \/ LifeNext \/ Watches
TunnelSpec == TunnelInit /\ [][TunnelNext]_tunnelVars

-----------------------------------------------------------------------------
TunnelTypeOK ==
  /\ state.phase \in {"off", "starting", "needs-login", "needs-approval", "needs-funnel", "certificate", "running", "error", "panic"}
  /\ state.reach \in {"unknown", "checking", "verified", "unreachable"} /\ {state.url, state.link, state.warning} \subseteq BOOLEAN
  /\ stands \in {"waits", "starts", "prepares", "listens", "certifies", "serves", "gone"} /\ wait \in 1..Recheck /\ since \in 0..Grace

\* What the check found is never written over a fault or a step to take: it is
\* news of a tunnel that is open.
TheFaultIsShown == state.phase # "running" => state.reach = "unknown" /\ ~state.warning /\ ~state.url

\* Nothing listens to the Internet before somebody enabled it, and an address
\* that is shown is listened on.
TheAddressIsListenedOn ==
  /\ listening => enabled
  /\ state.url => listening

\* One stumble is no alarm: the address does not answer twice in a row.
AStumbleIsNoAlarm == state.reach = "unreachable" => lastTwo = <<TRUE, TRUE>>

\* And the second look comes soon, also after a night of answers.
TheSecondLookIsSoon == watchers # {} /\ stands = "serves" /\ fails > 0 => wait < Recheck

\* A proof outranks the warning.
AProofEndsTheWarning == state.reach = "verified" => ~state.warning

\* What the page shows of the administrator's link is what the last answer that came
\* said of it, whatever failed since, while the step is waited for.
TheLinkStays == stands = "prepares" /\ state.phase = "needs-funnel" => state.link = answered

\* A node is not born anew while there is the identity of one, unless the former folder
\* could not even be looked at.
TheNodeIsItself == stranger => unseen

\* A life that ended in a failure is followed by another, unless the monitor is ending.
\* (One that shows a fault while it prepares has not ended: it goes on asking.)
AFailureIsTriedAgain ==
  \A n \in Lives : life = n /\ state = Failed /\ stands \in {"waits", "gone"} ~> life # n \/ ending

\* And who quits is held by remote access only in the two calls that hear nothing.
WhoQuitsIsLetGo == ending ~> stands \in {"gone"} \cup Deaf /\ ~listening

\* Together: what is shown of the tunnel is so, one stumble is no alarm and is looked
\* into soon, and neither the link nor the node's identity is lost.
TunnelSafety ==
  /\ TunnelTypeOK /\ TheFaultIsShown /\ TheAddressIsListenedOn /\ AStumbleIsNoAlarm /\ TheSecondLookIsSoon
  /\ AProofEndsTheWarning /\ TheLinkStays /\ TheNodeIsItself

\* And what comes in the end: another try, and a process that may go.
TunnelGoesOn == AFailureIsTriedAgain /\ WhoQuitsIsLetGo
=============================================================================
