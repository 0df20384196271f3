-------------------------- MODULE PipelineWatches --------------------------
(***************************************************************************)
(* What the pipeline watches while it captures: does the encoder follow the*)
(* bitrate, do its keyframes come when they are asked for, and does the    *)
(* camera leave the whole room in the picture.  Three watches that share no*)
(* state, each with its own next-state relation.                           *)
(***************************************************************************)
EXTENDS Naturals

(***************************************************************************)
(* Does the encoder follow the bitrate it is asked for?  The watch that    *)
(* weighs what comes out (bitrateAsked, bitrateSeen) and the verdict of    *)
(* the probe, in internal/pipeline/pipeline.go.                            *)
(*                                                                         *)
(* A step is a command or the end of a window of four seconds.  What an    *)
(* encoder makes of a command is its gain, and what the scene asks of it   *)
(* is all it can use: an obedient one never makes more than it was asked   *)
(* for, a deaf one goes on as it was born.                                 *)
(***************************************************************************)
CONSTANTS Commanded,       \* the bitrates that are commanded
          Scenes,      \* what a scene would use, given all it wants
          Gains,       \* produced over asked, in tenths
          ProofScale,  \* bitrateProofScale, in tenths
          Streak,      \* bitrateStubbornStreak
          ProbeDrop    \* bitrateProbeDrop, in tenths

ASSUME BitrateWatchAssumption ==
  /\ Commanded \subseteq Nat \ {0} /\ Scenes \subseteq Nat \ {0} /\ Gains \subseteq Nat \ {0}
  /\ Streak \in Nat \ {0}
  /\ ProofScale \in 1..5 /\ ProbeDrop \in 0..5  \* the code's are 5 and 2

VARIABLES
  encoderKind,      \* "obeys", within the gain, or "deaf"
  gain,             \* its gain
  born,             \* what it was built with
  brWant,           \* the last command
  brWantMax,        \* the highest in force during the window
  brWantRef, brMeasRef, \* the reference: what was asked for, and what came out
  brStreak,         \* windows in a row that did not follow
  brHard,           \* the verdict: it is deaf
  scene,            \* what the room asks for
  limited,          \* history: the scene, and not the command, has set the output
  mixed             \* history: two commands shared a window that became the reference

brVars == <<encoderKind, gain, born, brWant, brWantMax, brWantRef, brMeasRef, brStreak,
            brHard, scene, limited, mixed>>

\* resetBitrateWatch and the first bitrateAsked of a session.
WatchInit ==
  /\ encoderKind \in {"obeys", "deaf"} /\ gain \in Gains /\ scene \in Scenes
  /\ born \in Commanded /\ brWant = born /\ brWantMax = born
  /\ brWantRef = 0 /\ brMeasRef = 0 /\ brStreak = 0 /\ brHard = FALSE
  /\ limited = FALSE /\ mixed = FALSE

Highest(a, b) == IF a > b THEN a ELSE b
Lowest(a, b) == IF a < b THEN a ELSE b

\* bitrateAsked: it does not clear the window, it keeps the highest.
InForce(kbps) == Highest(brWantMax, kbps)

AsksBitrate(kbps) ==
  /\ kbps # brWant
  /\ brWant' = kbps /\ brWantMax' = InForce(kbps)
  /\ UNCHANGED <<encoderKind, gain, born, brWantRef, brMeasRef, brStreak, brHard, scene, limited, mixed>>

TheRoomChanges ==
  /\ scene' \in Scenes \ {scene}
  /\ UNCHANGED <<encoderKind, gain, born, brWant, brWantMax, brWantRef, brMeasRef, brStreak, brHard, limited, mixed>>

\* What comes out in a window: no more than the scene can use, nor than the
\* highest of what was asked in it, for an encoder that obeys.
Makes(asked) == (gain * (IF encoderKind = "deaf" THEN born ELSE asked)) \div 10
Produces(asked) == Lowest(Makes(asked), scene)
Limits == limited' = (limited \/ scene < Makes(brWantMax))
MayProduce == {Produces(brWant), Produces(brWantMax)}

\* bitrateSeen, one disjunct per branch of its switch.
NewReference(want) == brWantRef = 0 \/ want > brWantRef
NotTheConstraint(want) == want >= brMeasRef
AnyDescent(want) == want < brWantRef                               \* mutant
IsProof(want) == want * 10 <= brWantRef * ProofScale
Stays(measured) == measured * 10 >= brMeasRef * 9

Refers(want, measured) ==
  /\ brWantRef' = want /\ brMeasRef' = measured /\ brStreak' = 0
  /\ mixed' = (mixed \/ brWant # brWantMax)

WindowEnds(measured) ==
  LET want == brWantMax
      counts == ~NewReference(want) /\ ~NotTheConstraint(want) /\ IsProof(want)
      streak == IF counts /\ Stays(measured) THEN brStreak + 1 ELSE brStreak
  IN /\ measured \in MayProduce /\ brWantMax' = brWant
     /\ \/ NewReference(want) /\ Refers(want, measured) /\ UNCHANGED brHard
        \/ counts /\ ~Stays(measured) /\ Refers(want, measured) /\ UNCHANGED brHard
        \/ /\ ~NewReference(want) /\ (counts => Stays(measured))
           /\ UNCHANGED <<brWantRef, brMeasRef, mixed>>
           /\ brHard' = (brHard \/ streak >= Streak)
           /\ brStreak' = IF streak >= Streak THEN IF brHard THEN Streak ELSE 0 ELSE streak
     /\ Limits
     /\ UNCHANGED <<encoderKind, gain, born, brWant, scene>>

\* probeVerdict: half is asked for, and the output must drop by a fifth of it.
Judgeable(start, asked) == start > 0 /\ asked > 0 /\ asked < start
Took(start, asked, after) ==
  start >= after /\ (start - after) * 10 >= (start - asked) * ProbeDrop

\* The probe of a session: measured before, asked half, measured again, put back.
Probes ==
  LET start == Produces(brWant)
      asked == brWant \div 2
      after == Produces(asked)
  IN /\ brWantRef = 0 /\ ~brHard
     /\ Judgeable(start, asked) /\ ~Took(start, asked, after)
     /\ brHard' = TRUE /\ brStreak' = 0
     /\ UNCHANGED <<encoderKind, gain, born, brWant, brWantMax, brWantRef, brMeasRef, scene, mixed>>
     /\ Limits

WatchNext ==
  \/ \E kbps \in Commanded : AsksBitrate(kbps)
  \/ TheRoomChanges
  \/ \E measured \in MayProduce : WindowEnds(measured)
  \/ Probes

BitrateWatchSpec == WatchInit /\ [][WatchNext]_brVars

-----------------------------------------------------------------------------
BitrateWatchTypeOK ==
  /\ encoderKind \in {"obeys", "deaf"} /\ gain \in Gains /\ scene \in Scenes
  /\ {born, brWant, brWantMax, brWantRef} \subseteq Commanded \cup {0} /\ brMeasRef \in Nat
  /\ brStreak \in 0..Streak /\ brHard \in BOOLEAN /\ {limited, mixed} \subseteq BOOLEAN

\* An encoder that follows is not taken for deaf, however wide its gain and in
\* whatever order the commands come: as long as it is the command that sets the
\* output, and not the scene, and one command the reference.
TheFollowerIsNotAccused == encoderKind = "obeys" /\ ~limited /\ ~mixed => ~brHard

\* Nor when the scene has set the output meanwhile: a command that was the
\* constraint was one because it cut what was coming out, and an encoder that
\* made the cut has obeyed it.
TheObedientIsNotAccused == encoderKind = "obeys" /\ ~mixed => ~brHard

-----------------------------------------------------------------------------
(***************************************************************************)
(* Who asks for a keyframe, and whether the encoder listens: the throttle  *)
(* of requestKeyframe in internal/rtc/hub.go, ForceKeyFrame, keyframeAsked *)
(* and keyframeSeen in internal/pipeline/pipeline.go.                      *)
(*                                                                         *)
(* Viewers ask on one goroutine each, frames come on another; time is      *)
(* counted in frames.                                                      *)
(***************************************************************************)
CONSTANTS MinGap,   \* keyframeMinGap, in frames
          Grace,    \* keyframeGraceFrames
          Enough,   \* enoughToJudge
          Gop,      \* a keyframe comes by itself so often, or 0
          MaxFrames \* a bound

ASSUME KeyframesAssumption ==
  MinGap \in Nat /\ Grace \in Nat \ {0} /\ Enough \in Nat \ {0} /\ Gop \in Nat /\ MaxFrames \in Nat

NeverAsked == MaxFrames + 1

VARIABLES
  serves,       \* the encoder answers a request, within the grace
  videoFrames,  \* Stats.VideoFrames
  lastKeyframeAt, \* Hub.lastKeyframeAt
  due,          \* frames left to a keyframe that was promised, or 0
  kfAsked, kfServed, kfPendingAt, kfDeclaredBad

kfVars == <<serves, videoFrames, lastKeyframeAt, due, kfAsked, kfServed, kfPendingAt, kfDeclaredBad>>

KeyframesInit ==
  /\ serves \in BOOLEAN /\ videoFrames = 0 /\ lastKeyframeAt = NeverAsked /\ due = 0
  /\ kfAsked = 0 /\ kfServed = 0 /\ kfPendingAt = 0 /\ kfDeclaredBad = FALSE

\* requestKeyframe: not closer together than the gap, whoever asks.
IsThrottled == lastKeyframeAt # NeverAsked /\ videoFrames < lastKeyframeAt + MinGap

\* ForceKeyFrame and keyframeAsked.  One that is pending is overtaken by the
\* next.  The command goes out before it is noted: the promise counts from here.
AsksKeyframe ==
  /\ ~IsThrottled /\ ~kfDeclaredBad /\ kfAsked < MaxFrames
  /\ lastKeyframeAt' = videoFrames
  /\ kfAsked' = kfAsked + 1 /\ kfPendingAt' = videoFrames
  /\ due' \in IF ~serves \/ due > 0 THEN {due} ELSE 1..Grace
  /\ UNCHANGED <<serves, videoFrames, kfServed, kfDeclaredBad>>

\* A keyframe that keeps a promise, or one that comes by itself.
ComesKey == due = 1 \/ (Gop > 0 /\ videoFrames % Gop = 0)

\* keyframeSeen.
IsLate(frames) == frames > kfPendingAt + Grace

\* Only enough requests, and none of them served, condemn.
Condemns(served) == kfAsked >= Enough /\ served = 0

NeverCounted == kfServed                                           \* mutant
Served == IF ComesKey THEN kfServed + 1 ELSE kfServed

Frame ==
  LET frames == videoFrames + 1
  IN /\ videoFrames < MaxFrames /\ videoFrames' = frames
     /\ due' = IF due > 0 THEN due - 1 ELSE 0
     /\ IF kfPendingAt # 0 /\ (ComesKey \/ IsLate(frames))
          THEN /\ kfServed' = Served /\ kfPendingAt' = 0
               /\ kfDeclaredBad' = (kfDeclaredBad \/ Condemns(Served))
          ELSE UNCHANGED <<kfServed, kfPendingAt, kfDeclaredBad>>
     /\ UNCHANGED <<serves, lastKeyframeAt, kfAsked>>

KeyframesNext == AsksKeyframe \/ Frame
KeyframesSpec == KeyframesInit /\ [][KeyframesNext]_kfVars

-----------------------------------------------------------------------------
KeyframesTypeOK ==
  /\ serves \in BOOLEAN /\ videoFrames \in 0..MaxFrames /\ lastKeyframeAt \in 0..NeverAsked
  /\ due \in 0..Grace /\ kfAsked \in 0..MaxFrames /\ kfServed \in 0..kfAsked
  /\ kfPendingAt \in 0..videoFrames /\ kfDeclaredBad \in BOOLEAN

\* An encoder that answers within the grace is never told off, however the
\* requests crowd, overtake each other or come before the first frame.
WhoServesIsBelieved == serves => ~kfDeclaredBad

-----------------------------------------------------------------------------
(***************************************************************************)
(* The watch over the camera's own framing: framingCheck in                *)
(* internal/pipeline/pipeline.go.  A look is a reading of the driver, and  *)
(* looks are so many frames apart; a camera that crops the room around a   *)
(* face is told to stop, and asked again whether it did.                   *)
(***************************************************************************)
CONSTANTS Early, EarlyFor, Late, \* frames between looks, how long the early ones last, after
          Tries,       \* consecutive refusals before giving up
          VerifyAfter, \* frames between telling and believing
          MaxTaken     \* frames: a bound

\* The code's are 30, 300, 300, 5 and 15.  The reading that believes a switch is
\* over by the next look, also after the look at frame one, and the last of the
\* early looks is a late one: a look that fell on neither would be left out.
ASSUME FramingAssumption ==
  /\ Early \in Nat \ {0} /\ Late \in Nat \ {0} /\ EarlyFor \in Nat
  /\ Early <= Late /\ EarlyFor % Early = 0 /\ EarlyFor % Late = 0
  /\ Tries \in Nat \ {0} /\ VerifyAfter \in 1..(Early - 2) /\ MaxTaken \in Nat

VARIABLES
  driver,    \* "none", no such control; "obeys"; "moody", it may refuse
  following, \* the camera crops
  cropped,   \* history: for how many frames it has
  taken,     \* framingCheck.frames
  verifyAt, failures, framingDone,
  inARow     \* history: looks that were refused, one after the other

framingVars == <<driver, following, cropped, taken, verifyAt, failures, framingDone, inARow>>

FramingInit ==
  /\ driver \in {"none", "obeys", "moody"} /\ following \in BOOLEAN
  /\ driver = "none" => ~following
  /\ cropped = 0 /\ taken = 0 /\ verifyAt = 0 /\ failures = 0
  /\ framingDone = FALSE /\ inARow = 0

\* The driver turns it on by itself, some frames into the stream or later.
TurnsOn ==
  /\ driver # "none" /\ ~following /\ following' = TRUE /\ cropped' = 0
  /\ UNCHANGED <<driver, taken, verifyAt, failures, framingDone, inARow>>

NeverAgain(frames) == frames = 1                                   \* mutant
IsLook(frames) ==
  \/ frames = 1
  \/ frames % (IF frames <= EarlyFor THEN Early ELSE Late) = 0

\* step, on a frame that is not one for looking.
Idles(frames) ==
  /\ framingDone \/ (verifyAt > 0 /\ frames < verifyAt) \/ (verifyAt = 0 /\ ~IsLook(frames))
  /\ UNCHANGED <<following, verifyAt, failures, framingDone, inARow>>

\* The reading that believes a switch only reports.
Verifies(frames) ==
  /\ ~framingDone /\ verifyAt > 0 /\ frames >= verifyAt
  /\ verifyAt' = 0
  /\ UNCHANGED <<following, failures, framingDone, inARow>>

\* A reading that went well ends a row of refusals.
Counted == failures                                                \* mutant
Forgotten == 0

Looks(frames) ==
  /\ ~framingDone /\ verifyAt = 0 /\ IsLook(frames)
  /\ \/ /\ driver # "none" /\ ~following /\ failures' = Forgotten /\ inARow' = 0
        /\ UNCHANGED <<following, verifyAt, framingDone>>
     \/ /\ driver # "none" /\ following /\ following' = FALSE
        /\ failures' = Forgotten /\ inARow' = 0 /\ verifyAt' = frames + VerifyAfter
        /\ UNCHANGED framingDone
     \/ /\ driver = "none" /\ framingDone' = TRUE
        /\ UNCHANGED <<following, verifyAt, failures, inARow>>
     \/ /\ driver = "moody"
        /\ inARow' = inARow + 1 /\ failures' = failures + 1 /\ framingDone' = (failures + 1 >= Tries)
        /\ UNCHANGED <<following, verifyAt>>

Takes ==
  LET frames == taken + 1 IN
  /\ taken < MaxTaken /\ taken' = frames
  /\ Idles(frames) \/ Verifies(frames) \/ Looks(frames)
  /\ cropped' = IF following' THEN cropped + 1 ELSE 0
  /\ UNCHANGED driver

FramingNext == TurnsOn \/ Takes
FramingSpec == FramingInit /\ [][FramingNext]_framingVars

-----------------------------------------------------------------------------
FramingTypeOK ==
  /\ driver \in {"none", "obeys", "moody"} /\ {following, framingDone} \subseteq BOOLEAN
  /\ taken \in 0..MaxTaken /\ cropped \in 0..MaxTaken
  /\ verifyAt \in 0..(MaxTaken + VerifyAfter) /\ failures \in 0..Tries /\ inARow \in 0..Tries

\* With a driver that obeys, no face keeps the room out of the picture longer
\* than the time between two looks, whenever the driver turns its framing on.
TheRoomIsWhole == driver = "obeys" => cropped < (IF taken <= EarlyFor THEN Early ELSE Late)

\* Nothing is given up because of refusals that were not in a row.
OnlyRefusalsGiveUp == framingDone /\ driver = "moody" => inARow >= Tries

-----------------------------------------------------------------------------
\* The three watches together: who follows the bitrate is not accused, who serves
\* keyframes is believed, the room comes back whole within a look, and only
\* refusals make the watch over the framing give up.
WatchesSafety ==
  /\ BitrateWatchTypeOK /\ KeyframesTypeOK /\ FramingTypeOK
  /\ TheFollowerIsNotAccused /\ WhoServesIsBelieved /\ TheRoomIsWhole /\ OnlyRefusalsGiveUp
=============================================================================
