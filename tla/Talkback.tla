------------------------------ MODULE Talkback ------------------------------
(***************************************************************************)
(* The floor of the talk-back: internal/rtc/talkback.go.                   *)
(*                                                                         *)
(* Several viewers may send their voice to the room; one at a time is      *)
(* played.  The lock protects the fields of the Talkback, and two calls    *)
(* are made outside it: the opening of the audio output, which may take    *)
(* any time and may fail, and its closing.  A viewer owns two goroutines:  *)
(* Receive, which reads the packets, and a ticker that runs expire on      *)
(* whoever holds the floor, its own viewer or not.                         *)
(*                                                                         *)
(* Time is kept as ages: how long ago an instant was, saturated where the  *)
(* code's comparisons stop telling values apart, so that the state space   *)
(* is finite and the horizon is not.  One unit is at least the 500 ms of   *)
(* the ticker, and one run of expire, with the closing of the output when  *)
(* it takes the floor away, ends within the unit it began in.              *)
(***************************************************************************)
EXTENDS Naturals, FiniteSets

CONSTANTS Viewers,    \* ids of viewer sessions
          Outputs,    \* audio outputs that may exist at once: a bound
          Nobody,     \* speaker = 0, spent = 0
          NoOutput,   \* a nil Player
          Idle,       \* talkIdle
          TalkMax,    \* talkMax
          Cooldown,   \* talkCooldown
          Retry       \* talkOpenRetry

ASSUME TalkbackAssumption ==
  /\ Nobody \notin Viewers
  /\ NoOutput \notin Outputs
  /\ Idle \in Nat /\ TalkMax \in Nat /\ Cooldown \in Nat /\ Retry \in Nat
  /\ Idle < Cooldown /\ Cooldown <= TalkMax /\ Retry <= TalkMax

VARIABLES
  speaker,    \* who holds the floor
  player,     \* the output of whoever holds it
  opening,    \* somebody is opening the output outside the lock
  spent,      \* who was cut at the cap and has not fallen silent since
  pktAge,     \* age of lastPkt
  stretchAge, \* age of stretchSince
  endAge,     \* age of lastEnd; Cooldown also stands for the zero time
  spentAge,   \* age of spentSeen
  quiet,      \* how long until quietUntil
  retry,      \* how long until notBefore
  out,        \* each output: "open" or "closed"
  rpc,        \* where each viewer's Receive is
  rout,       \* the output it is writing to or closing
  asked,      \* age of the time its acquire took before opening
  fresh,      \* whether that time starts a new stretch
  epc,        \* where each viewer's expiry goroutine is
  etarget,    \* the speaker it read
  eout,       \* the output it is closing
  looked      \* viewers whose ticker fired in this unit of time

shared == <<speaker, player, opening, spent>>
ages == <<pktAge, stretchAge, endAge, spentAge, quiet, retry>>
receiver == <<rpc, rout, asked, fresh>>
expiry == <<epc, etarget, eout, looked>>
vars == <<shared, ages, out, receiver, expiry>>

AskedCap == TalkMax + 1

\* Every age grows by one, up to where it stops mattering.
Older(age, cap) == IF age < cap THEN age + 1 ELSE age
SoonerNeverStops(left) == left - 1                                \* mutant
Sooner(left) == IF left > 0 THEN left - 1 ELSE 0
AtMost(age, cap) == IF age < cap THEN age ELSE cap
Left(wait, age) == IF age < wait THEN wait - age ELSE 0

Live == {v \in Viewers : rpc[v] # "gone"}

\* Outputs somebody still names.
Named == {player} \cup {rout[v] : v \in Viewers} \cup {eout[v] : v \in Viewers}

Init ==
  /\ speaker = Nobody /\ player = NoOutput /\ opening = FALSE /\ spent = Nobody
  /\ pktAge = 0 /\ stretchAge = 0 /\ endAge = Cooldown /\ spentAge = 0
  /\ quiet = 0 /\ retry = 0
  /\ out = [o \in Outputs |-> "closed"]
  /\ rpc = [v \in Viewers |-> "gone"]
  /\ rout = [v \in Viewers |-> NoOutput]
  /\ asked = [v \in Viewers |-> 0]
  /\ fresh = [v \in Viewers |-> FALSE]
  /\ epc = [v \in Viewers |-> "idle"]
  /\ etarget = [v \in Viewers |-> Nobody]
  /\ eout = [v \in Viewers |-> NoOutput]
  /\ looked = {}

-----------------------------------------------------------------------------
\* Receive and the two lock sections of acquire.

\* A viewer's audio track opens.  Session ids are never used twice: a name of
\* Viewers comes back only when nothing in the state remembers it.
TrackOpens(v) ==
  /\ rpc[v] = "gone" /\ epc[v] = "idle"
  /\ spent # v /\ \A w \in Viewers : etarget[w] # v
  /\ rpc' = [rpc EXCEPT ![v] = "reading"]
  /\ UNCHANGED <<shared, ages, out, rout, asked, fresh, expiry>>

\* acquire, the speaker's own packet: the floor is kept and lastPkt refreshed.
PacketOfTheSpeaker(v) ==
  /\ rpc[v] = "reading" /\ speaker = v
  /\ pktAge' = 0
  /\ rpc' = [rpc EXCEPT ![v] = "writing"]
  /\ rout' = [rout EXCEPT ![v] = player]
  /\ UNCHANGED <<shared, stretchAge, endAge, spentAge, quiet, retry, out,
                 asked, fresh, expiry>>

\* The packet of whoever was cut at the cap, before a silence of theirs.
SpentStillTalks(v) == spent = v /\ spentAge <= Idle

PacketOfTheSpent(v) ==
  /\ rpc[v] = "reading" /\ speaker # v
  /\ SpentStillTalks(v)
  /\ spentAge' = 0
  /\ UNCHANGED <<shared, pktAge, stretchAge, endAge, quiet, retry, out,
                 receiver, expiry>>

FreeWhileOpening == speaker = Nobody /\ retry = 0 /\ quiet = 0      \* mutant
FreeWhileHeld == ~opening /\ retry = 0 /\ quiet = 0                 \* mutant
FreeWhileQuiet == speaker = Nobody /\ ~opening /\ retry = 0         \* mutant
FloorIsFree == speaker = Nobody /\ ~opening /\ retry = 0 /\ quiet = 0

\* acquire up to the unlock around the opening: refused, or opening.  A spent
\* viewer who fell silent is forgiven on either road.
ForgiveSpent(v) ==
  IF spent = v THEN spent' = Nobody /\ spentAge' = 0
               ELSE UNCHANGED <<spent, spentAge>>

PacketRefused(v) ==
  /\ rpc[v] = "reading" /\ speaker # v /\ ~SpentStillTalks(v)
  /\ ~FloorIsFree
  /\ ForgiveSpent(v)
  /\ UNCHANGED <<speaker, player, opening, pktAge, stretchAge, endAge, quiet,
                 retry, out, receiver, expiry>>

PacketAsksForTheFloor(v) ==
  /\ rpc[v] = "reading" /\ speaker # v /\ ~SpentStillTalks(v)
  /\ FloorIsFree
  /\ ForgiveSpent(v)
  /\ opening' = TRUE
  /\ rpc' = [rpc EXCEPT ![v] = "opening"]
  /\ asked' = [asked EXCEPT ![v] = 0]
  /\ fresh' = [fresh EXCEPT ![v] = endAge >= Cooldown]
  /\ UNCHANGED <<speaker, player, pktAge, stretchAge, endAge, quiet, retry,
                 out, rout, expiry>>

\* A turn begun a whole cooldown after the last one starts a new stretch.
StretchOfTheTurn(v) == asked[v]                                   \* mutant
StretchAgeAtGrant(v) == IF fresh[v] THEN asked[v] ELSE stretchAge

\* The output opened: the second lock section gives the floor, with the times
\* of the packet that asked for it.
OutputOpens(v, o) ==
  /\ rpc[v] = "opening"
  /\ o \in Outputs \ Named /\ out[o] = "closed"
  /\ out' = [out EXCEPT ![o] = "open"]
  /\ opening' = FALSE
  /\ speaker' = v /\ player' = o
  /\ pktAge' = AtMost(asked[v], Cooldown)
  /\ stretchAge' = StretchAgeAtGrant(v)
  /\ rpc' = [rpc EXCEPT ![v] = "writing"]
  /\ rout' = [rout EXCEPT ![v] = o]
  /\ asked' = [asked EXCEPT ![v] = 0]
  /\ fresh' = [fresh EXCEPT ![v] = FALSE]
  /\ UNCHANGED <<spent, endAge, spentAge, quiet, retry, expiry>>

\* The output refused: no retry before talkOpenRetry from the packet's time.
OutputRefuses(v) ==
  /\ rpc[v] = "opening"
  /\ opening' = FALSE
  /\ retry' = Left(Retry, asked[v])
  /\ rpc' = [rpc EXCEPT ![v] = "reading"]
  /\ asked' = [asked EXCEPT ![v] = 0]
  /\ fresh' = [fresh EXCEPT ![v] = FALSE]
  /\ UNCHANGED <<speaker, player, spent, pktAge, stretchAge, endAge, spentAge,
                 quiet, out, rout, expiry>>

\* The opening panicked: guard.Run around Receive catches it, the deferred
\* release finds no floor to take away, and opening is left as it was.
OutputPanics(v) ==
  /\ rpc[v] = "opening"
  /\ rpc' = [rpc EXCEPT ![v] = "gone"]
  /\ asked' = [asked EXCEPT ![v] = 0]
  /\ fresh' = [fresh EXCEPT ![v] = FALSE]
  /\ UNCHANGED <<shared, ages, out, rout, expiry>>

\* The packet is decoded and written, or cannot be and is skipped.
PacketPlayed(v) ==
  /\ rpc[v] = "writing"
  /\ rpc' = [rpc EXCEPT ![v] = "reading"]
  /\ rout' = [rout EXCEPT ![v] = NoOutput]
  /\ UNCHANGED <<shared, ages, out, asked, fresh, expiry>>

-----------------------------------------------------------------------------
\* release: the lock section, then the closing outside the lock.

TakeTheFloorAway ==
  /\ speaker' = Nobody /\ player' = NoOutput
  /\ endAge' = pktAge

\* Receive returns, on a read that failed or on a panic of the decoder or of
\* the write: its deferred release takes the floor away if it is this viewer's.
TrackCloses(v) ==
  /\ rpc[v] \in {"reading", "writing"}
  /\ IF speaker = v
       THEN /\ TakeTheFloorAway
            /\ rout' = [rout EXCEPT ![v] = player]
            /\ rpc' = [rpc EXCEPT ![v] = "closing"]
       ELSE /\ UNCHANGED <<speaker, player, endAge>>
            /\ rout' = [rout EXCEPT ![v] = NoOutput]
            /\ rpc' = [rpc EXCEPT ![v] = "gone"]
  /\ UNCHANGED <<opening, spent, pktAge, stretchAge, spentAge, quiet, retry,
                 out, asked, fresh, expiry>>

ReceiverClosesOutput(v) ==
  /\ rpc[v] = "closing"
  /\ out' = [out EXCEPT ![rout[v]] = "closed"]
  /\ rout' = [rout EXCEPT ![v] = NoOutput]
  /\ rpc' = [rpc EXCEPT ![v] = "gone"]
  /\ UNCHANGED <<shared, ages, asked, fresh, expiry>>

-----------------------------------------------------------------------------
\* expire: it reads under the lock, decides outside it, and acts on what it
\* read.

\* The verdict of expire on a speaker with these two ages.
VerdictOnSilence(pkt, stretch) == IF pkt > Idle THEN "release" ELSE "idle" \* mutant
Verdict(pkt, stretch) ==
  IF pkt > Idle THEN "release" ELSE IF stretch > TalkMax THEN "limit" ELSE "idle"

ExpiryLooks(v) ==
  /\ rpc[v] # "gone" /\ epc[v] = "idle"
  /\ looked' = looked \cup {v}
  /\ LET verdict == IF speaker = Nobody THEN "idle" ELSE Verdict(pktAge, stretchAge)
     IN /\ epc' = [epc EXCEPT ![v] = verdict]
        /\ etarget' = [etarget EXCEPT ![v] = IF verdict = "idle" THEN Nobody ELSE speaker]
  /\ UNCHANGED <<shared, ages, out, receiver, eout>>

\* Past the cap: the viewer is spent and the room is to be heard.
ExpiryMarksSpent(v) ==
  /\ epc[v] = "limit"
  /\ spent' = etarget[v] /\ spentAge' = 0
  /\ quiet' = Cooldown
  /\ epc' = [epc EXCEPT ![v] = "release"]
  /\ UNCHANGED <<speaker, player, opening, pktAge, stretchAge, endAge, retry,
                 out, receiver, etarget, eout, looked>>

\* A mutant: the floor is taken away and the output forgotten.
ExpiryForgetsOutput(v) ==
  /\ epc[v] = "release"
  /\ IF speaker = etarget[v] THEN TakeTheFloorAway
                             ELSE UNCHANGED <<speaker, player, endAge>>
  /\ epc' = [epc EXCEPT ![v] = "idle"]
  /\ etarget' = [etarget EXCEPT ![v] = Nobody]
  /\ UNCHANGED <<opening, spent, pktAge, stretchAge, spentAge, quiet, retry,
                 out, receiver, eout, looked>>

ExpiryReleases(v) ==
  /\ epc[v] = "release"
  /\ IF speaker = etarget[v]
       THEN /\ TakeTheFloorAway
            /\ eout' = [eout EXCEPT ![v] = player]
            /\ epc' = [epc EXCEPT ![v] = "closing"]
       ELSE /\ UNCHANGED <<speaker, player, endAge, eout>>
            /\ epc' = [epc EXCEPT ![v] = "idle"]
  /\ etarget' = [etarget EXCEPT ![v] = Nobody]
  /\ UNCHANGED <<opening, spent, pktAge, stretchAge, spentAge, quiet, retry,
                 out, receiver, looked>>

ExpiryClosesOutput(v) ==
  /\ epc[v] = "closing"
  /\ out' = [out EXCEPT ![eout[v]] = "closed"]
  /\ eout' = [eout EXCEPT ![v] = NoOutput]
  /\ epc' = [epc EXCEPT ![v] = "idle"]
  /\ UNCHANGED <<shared, ages, receiver, etarget, looked>>

-----------------------------------------------------------------------------
\* A unit of time passes: every live ticker has fired in it, and no expire is
\* between its look and the closing of the output it took away.
Tick ==
  /\ \A v \in Viewers : epc[v] = "idle"
  /\ Live \subseteq looked
  /\ pktAge' = Older(pktAge, Cooldown)
  /\ stretchAge' = Older(stretchAge, AskedCap)
  /\ endAge' = Older(endAge, Cooldown)
  /\ spentAge' = Older(spentAge, Idle + 1)
  /\ quiet' = Sooner(quiet)
  /\ retry' = Sooner(retry)
  /\ asked' = [v \in Viewers |->
                 IF rpc[v] = "opening" THEN Older(asked[v], AskedCap) ELSE asked[v]]
  /\ looked' = {}
  /\ UNCHANGED <<shared, out, rpc, rout, fresh, epc, etarget, eout>>

Receive(v) ==
  \/ TrackOpens(v)
  \/ PacketOfTheSpeaker(v) \/ PacketOfTheSpent(v)
  \/ PacketRefused(v) \/ PacketAsksForTheFloor(v)
  \/ \E o \in Outputs : OutputOpens(v, o)
  \/ OutputRefuses(v) \/ OutputPanics(v)
  \/ PacketPlayed(v)
  \/ TrackCloses(v) \/ ReceiverClosesOutput(v)

Expire(v) ==
  ExpiryLooks(v) \/ ExpiryMarksSpent(v) \/ ExpiryReleases(v) \/ ExpiryClosesOutput(v)

Next == Tick \/ \E v \in Viewers : Receive(v) \/ Expire(v)

Spec == Init /\ [][Next]_vars

\* Time passes, however many tracks open and close meanwhile, and the tickers
\* run: nothing is assumed of the packets, of the tracks or of the opening.
Fairness ==
  /\ SF_vars(Tick)
  /\ \A v \in Viewers : WF_vars(Expire(v))

FairSpec == Spec /\ Fairness

-----------------------------------------------------------------------------
\* Every variable has its type, and expire acts on a viewer, never on nobody.
TypeOK ==
  /\ speaker \in Viewers \cup {Nobody} /\ player \in Outputs \cup {NoOutput}
  /\ opening \in BOOLEAN /\ spent \in Viewers \cup {Nobody}
  /\ pktAge \in Nat /\ stretchAge \in Nat /\ endAge \in Nat /\ spentAge \in Nat
  /\ quiet \in Nat /\ retry \in Nat
  /\ out \in [Outputs -> {"open", "closed"}]
  /\ rpc \in [Viewers -> {"gone", "reading", "opening", "writing", "closing"}]
  /\ rout \in [Viewers -> Outputs \cup {NoOutput}]
  /\ asked \in [Viewers -> Nat] /\ fresh \in [Viewers -> BOOLEAN]
  /\ epc \in [Viewers -> {"idle", "limit", "release", "closing"}]
  /\ etarget \in [Viewers -> Viewers \cup {Nobody}]
  /\ eout \in [Viewers -> Outputs \cup {NoOutput}]
  /\ looked \in SUBSET Viewers
  /\ \A v \in Viewers : epc[v] \in {"limit", "release"} => etarget[v] \in Viewers

\* Who is opening the output.
Openers == {v \in Viewers : rpc[v] = "opening"}

\* Outputs on their way to be closed.
HandedToReceiver == {v \in Viewers : rpc[v] = "closing"}
HandedToExpiry == {v \in Viewers : epc[v] = "closing"}

\* The device is asked for by one packet at a time, and never while somebody
\* holds the floor: what `opening` and the check beside it are there for.
OneAsker ==
  /\ \A v, w \in Openers : v = w
  /\ Openers # {} => opening
  /\ opening => speaker = Nobody

\* No output is left open behind: whatever is open is the speaker's, or one
\* goroutine and only one is about to close it.
NoOutputLeaks ==
  /\ speaker = Nobody <=> player = NoOutput
  /\ \A o \in Outputs : out[o] = "open" =>
       \/ o = player
       \/ \E v \in HandedToReceiver : rout[v] = o
       \/ \E v \in HandedToExpiry : eout[v] = o
  /\ \A v, w \in HandedToReceiver : rout[v] = rout[w] => v = w
  /\ \A v, w \in HandedToExpiry : eout[v] = eout[w] => v = w
  /\ \A v \in HandedToReceiver, w \in HandedToExpiry : rout[v] # eout[w]
  /\ \A v \in HandedToReceiver : rout[v] \in Outputs \ {player}
  /\ \A v \in HandedToExpiry : eout[v] \in Outputs \ {player}

\* Two voices never reach the room together: a packet being written goes to an
\* output that is the floor's own, or closed, or about to be.
OneVoice ==
  \A v \in Viewers : rpc[v] = "writing" =>
    /\ rout[v] \in Outputs
    /\ \/ speaker = v /\ rout[v] = player
       \/ out[rout[v]] = "closed"
       \/ \E w \in HandedToExpiry : eout[w] = rout[v]

\* The floor is held during the pause after a cut only by somebody who is past
\* the cap too, and so is cut at the next look.
QuietIsHeard == quiet > 0 /\ speaker # Nobody => stretchAge > TalkMax

\* The viewer opening the output, if any.
Asker == IF Openers = {} THEN Nobody ELSE CHOOSE v \in Viewers : v \in Openers

\* The talk-back is an implementation of the abstract floor: no output, clock
\* or goroutine makes it grant what was not asked, or to two.
AbstractFloor == INSTANCE Floor WITH holder <- speaker, asker <- Asker
ImplementsFloor == AbstractFloor!Spec

\* Nobody keeps the floor for ever, not even with packets that never stop.
FloorComesBack == \A v \in Viewers : speaker = v ~> speaker # v

\* Together: one asker, one voice and one speaker, no output left behind, and a
\* pause after a cut that the room can hear.
TalkbackSafety == TypeOK /\ OneAsker /\ NoOutputLeaks /\ OneVoice /\ QuietIsHeard
=============================================================================
