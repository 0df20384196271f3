----------------------------- MODULE Detectors -----------------------------
(***************************************************************************)
(* internal/detect: what moves in a small grey picture, what sounds stand  *)
(* out of the noise of the room, and the sums a block of samples is judged *)
(* by.                                                                     *)
(*                                                                         *)
(* Each part takes its input a step at a time.  Ages are counted in steps; *)
(* brightness is in the code's 8.8 fixed point.                            *)
(***************************************************************************)
EXTENDS Integers, Sequences, FiniteSets

CONSTANTS Pixels,       \* how many a frame has
          Shades,       \* what a pixel may be
          Threshold,    \* DefaultPixelThreshold
          StartCount, StopCount, \* how many pixels make a start, and a stop
          MotionSettle,
          Levels,       \* what the microphone may hear, in dBFS
          Trigger, Release, FloorMin, FloorMax,
          BarkMin, BarkMax, CryMin, CryLong, MaxBurst, SoundSettle,
          Samples, MaxHeard,
          MaxChanges    \* how often the scene changes

ASSUME DetectorsAssumption ==
  /\ Pixels \in Nat \ {0} /\ Shades \subseteq 0..255 /\ StartCount >= StopCount /\ StopCount \in Nat \ {0}
  /\ {StartCount, BarkMax} \subseteq Nat
  /\ {MotionSettle, BarkMin, CryMin, CryLong, MaxBurst, SoundSettle} \subseteq Nat \ {0}
  /\ BarkMin <= BarkMax /\ BarkMax < CryMin /\ CryMin < CryLong /\ CryLong < MaxBurst
  /\ {Trigger, Release, FloorMin, FloorMax} \subseteq Int /\ Release < Trigger /\ FloorMin < FloorMax /\ FloorMax <= 0
  /\ Levels \subseteq Int /\ (\A l \in Levels : l <= 0) /\ Samples \subseteq Int /\ {MaxHeard, MaxChanges} \subseteq Nat

\* What the blend is still rounding when a picture has been still for a while
\* is below the threshold; the code's twelve is half as much again.
ASSUME ThresholdAssumption == Threshold \in 8..255

Larger(a, b) == IF a > b THEN a ELSE b
Lower(a, b) == IF a < b THEN a ELSE b

Magnitude(v) == IF v < 0 THEN -v ELSE v
NoAge == -1
GrowsOld(age, most) == IF age = NoAge THEN NoAge ELSE IF age < most THEN age + 1 ELSE most
\* The sum over the first pixels of a picture, and over all of them.
SumsTo(f) == LET sum[n \in 0..Pixels] == IF n = 0 THEN 0 ELSE sum[n - 1] + f[n] IN sum
SumOf(f) == SumsTo(f)[Pixels]

-----------------------------------------------------------------------------
\* Motion: what differs from the last step beyond the threshold, once what the
\* whole picture did is taken away.

VARIABLES
  frame,      \* the picture that is filmed
  changes,    \* how often it has changed
  smooth, previous, \* Motion.smooth and Motion.prev
  moving, stillFor,
  swaying,    \* history: something else than the light of the whole room has changed
  stillSteps  \* history: steps since the picture changed

motionVars == <<frame, changes, smooth, previous, moving, stillFor, swaying, stillSteps>>

Fixed(f) == [i \in 1..Pixels |-> 256 * f[i]]
LongStill == 12 + MotionSettle
MaxUint16 == 65535

MotionInit ==
  /\ frame \in [1..Pixels -> Shades] /\ smooth = Fixed(frame) /\ previous = Fixed(frame)
  /\ moving = FALSE /\ stillFor = NoAge /\ changes = 0 /\ swaying = FALSE /\ stillSteps = 0

NoShift(f) == 0                                                    \* mutant
Shift(f) == LET sum == SumOf(f)
            IN IF sum >= 0 THEN sum \div Pixels ELSE -((-sum) \div Pixels)

Blend(f) == [i \in 1..Pixels |-> smooth[i] + ((256 * f[i] - smooth[i]) \div 4)]
Beyond(f) ==
  LET moved == [i \in 1..Pixels |-> f[i] - previous[i]]
  IN {i \in 1..Pixels : Magnitude(moved[i] - Shift(moved)) > 256 * Threshold}

\* decide: it starts at once, and stops after a while below a lower bound.
NeverQuiet(count) == count < StopCount - 1                         \* mutant
IsQuiet(count) == count < StopCount
StaysMoving(count, settled) == ~settled \/ ~IsQuiet(count)
Decides(count) ==
  /\ moving' = IF moving THEN StaysMoving(count, stillFor >= MotionSettle) ELSE count >= StartCount
  /\ stillFor' = IF ~moving \/ ~IsQuiet(count) THEN NoAge
                 ELSE IF stillFor = NoAge THEN 0 ELSE GrowsOld(stillFor, MotionSettle)

MotionFeeds ==
  LET blended == Blend(frame) IN
  /\ smooth' = blended /\ previous' = blended
  /\ Decides(Cardinality(Beyond(blended)))
  /\ stillSteps' = GrowsOld(stillSteps, LongStill)
  /\ UNCHANGED <<frame, changes, swaying>>

\* A frame of another size: nothing to compare it with.
MotionRestarts ==
  /\ changes < MaxChanges /\ changes' = changes + 1
  /\ \E f \in [1..Pixels -> Shades] : frame' = f /\ smooth' = Fixed(f) /\ previous' = Fixed(f)
  /\ stillSteps' = 0 /\ UNCHANGED <<moving, stillFor, swaying>>

SomethingMoves ==
  /\ changes < MaxChanges /\ changes' = changes + 1
  /\ frame' \in [1..Pixels -> Shades] \ {frame}
  /\ swaying' = (swaying \/ \E i \in 2..Pixels : frame'[i] - frame[i] # frame'[1] - frame[1])
  /\ stillSteps' = 0 /\ UNCHANGED <<smooth, previous, moving, stillFor>>

MotionNext == MotionFeeds \/ MotionRestarts \/ SomethingMoves
MotionSpec == MotionInit /\ [][MotionNext]_motionVars

-----------------------------------------------------------------------------
\* Sound: a burst that stands out of the floor is a bark or a cry by how long it
\* lasts, when something of it is in the band of a voice.

VARIABLES
  level, inBand,       \* what is heard
  soundTurns,          \* how often that has changed
  floor,               \* NoFloor until something has been heard
  loud, burst, voiced, \* the burst: how long, and whether a voice was in it
  cryFor, barkFor,     \* how long each is still said
  sameFor,             \* history: steps since what is heard changed
  spoke                \* history: something in the band has been heard

soundVars == <<level, inBand, soundTurns, floor, loud, burst, voiced, cryFor, barkFor, sameFor, spoke>>

NoFloor == 1
Silence == -99
Within(v) == IF v < FloorMin THEN FloorMin ELSE IF v > FloorMax THEN FloorMax ELSE v
LongSame == 2 * MaxBurst + SoundSettle + 2

SoundInit ==
  /\ level \in Levels /\ inBand \in BOOLEAN /\ soundTurns = 0 /\ floor = NoFloor
  /\ loud = FALSE /\ burst = 0 /\ voiced = FALSE /\ cryFor = 0 /\ barkFor = 0 /\ sameFor = 0 /\ spoke = FALSE

Less(n) == IF n > 0 THEN n - 1 ELSE 0
NothingIsSaid == cryFor' = Less(cryFor) /\ barkFor' = Less(barkFor)

AnyVoice(v) == TRUE                                                \* mutant
HasVoice(v) == v

Classifies(lasted) ==
  /\ cryFor' = IF HasVoice(voiced) /\ lasted >= CryMin THEN SoundSettle ELSE Less(cryFor)
  /\ barkFor' = IF HasVoice(voiced) /\ lasted \in BarkMin..BarkMax THEN SoundSettle ELSE Less(barkFor)

BurstBegins ==
  /\ ~loud /\ level >= floor + Trigger
  /\ loud' = TRUE /\ burst' = 0 /\ voiced' = inBand
  /\ NothingIsSaid /\ UNCHANGED floor

BurstEnds ==
  /\ loud /\ level < floor + Release
  /\ loud' = FALSE /\ burst' = 0 /\ Classifies(burst + 1) /\ UNCHANGED <<floor, voiced>>

\* What lasts too long is the room, and no verdict is given of it.
TakenForACry == Classifies(burst + 1)                              \* mutant
IsNoBurst == NothingIsSaid
NoiseIsTheFloor ==
  /\ loud /\ level >= floor + Release /\ burst >= MaxBurst
  /\ loud' = FALSE /\ burst' = 0 /\ floor' = Within(level) /\ IsNoBurst /\ UNCHANGED voiced

BurstGoesOn ==
  /\ loud /\ level >= floor + Release /\ burst < MaxBurst
  /\ burst' = burst + 1 /\ voiced' = (voiced \/ inBand) /\ NothingIsSaid /\ UNCHANGED <<loud, floor>>

\* The floor follows what is heard, some of the way; after a gap it does not.
FloorFollows ==
  /\ ~loud /\ level < floor + Trigger
  /\ \/ UNCHANGED floor
     \/ \E f \in Lower(floor, level)..Larger(floor, level) : floor' = Within(f)
  /\ NothingIsSaid /\ UNCHANGED <<loud, burst, voiced>>

FirstSound ==
  /\ floor = NoFloor
  /\ floor' = IF level <= Silence THEN NoFloor ELSE level
  /\ NothingIsSaid /\ UNCHANGED <<loud, burst, voiced>>

SoundFeeds ==
  /\ \/ FirstSound
     \/ floor # NoFloor /\ (BurstBegins \/ BurstEnds \/ NoiseIsTheFloor \/ BurstGoesOn \/ FloorFollows)
  /\ sameFor' = GrowsOld(sameFor, LongSame) /\ spoke' = (spoke \/ inBand)
  /\ UNCHANGED <<level, inBand, soundTurns>>

RoomSounds ==
  /\ soundTurns < 2 * MaxChanges /\ soundTurns' = soundTurns + 1
  /\ level' \in Levels /\ inBand' \in BOOLEAN /\ <<level', inBand'>> # <<level, inBand>>
  /\ sameFor' = 0 /\ UNCHANGED <<floor, loud, burst, voiced, cryFor, barkFor, spoke>>

SoundNext == SoundFeeds \/ RoomSounds
SoundSpec == SoundInit /\ [][SoundNext]_soundVars

-----------------------------------------------------------------------------
\* Accumulator: the sums of a block, put together a block at a time.

VARIABLES heard, \* history: every sample so far
          sums

sumVars == <<heard, sums>>

NoSums == [n |-> 0, zeros |-> 0, crossings |-> 0, sum |-> 0, sumSq |-> 0, peak |-> 0, first |-> 0, last |-> 0]

HasSign(v) == IF v > 0 THEN 1 ELSE IF v < 0 THEN -1 ELSE 0
Crosses(a, b) == a # 0 /\ b # 0 /\ HasSign(a) # HasSign(b)
Abs16(v) == IF v = -32768 THEN 32767 ELSE Magnitude(v)

OneMore(s, v) ==
  [n |-> s.n + 1, zeros |-> s.zeros + (IF v = 0 THEN 1 ELSE 0),
   crossings |-> s.crossings + (IF Crosses(s.last, v) THEN 1 ELSE 0),
   sum |-> s.sum + v, sumSq |-> s.sumSq + (v * v), peak |-> Larger(s.peak, Abs16(v)),
   first |-> IF s.first = 0 THEN v ELSE s.first, last |-> IF v = 0 THEN s.last ELSE v]

SumsOf[pcm \in Seq(Int)] ==
  IF pcm = <<>> THEN NoSums ELSE OneMore(SumsOf[SubSeq(pcm, 1, Len(pcm) - 1)], pcm[Len(pcm)])

NoCrossing(a, b) == 0                                              \* mutant
CrossingBetween(a, b) == IF Crosses(a, b) THEN 1 ELSE 0

JoinSums(a, b) ==
  [n |-> a.n + b.n, zeros |-> a.zeros + b.zeros,
   crossings |-> a.crossings + b.crossings + CrossingBetween(a.last, b.first),
   sum |-> a.sum + b.sum, sumSq |-> a.sumSq + b.sumSq, peak |-> Larger(a.peak, b.peak),
   first |-> IF a.first = 0 THEN b.first ELSE a.first, last |-> IF b.last = 0 THEN a.last ELSE b.last]

SumsInit == heard = <<>> /\ sums = NoSums

Adds ==
  \E k \in 0..(MaxHeard - Len(heard)) : \E pcm \in [1..k -> Samples] :
    sums' = JoinSums(sums, SumsOf[pcm]) /\ heard' = heard \o pcm

SumsSpec == SumsInit /\ [][Adds]_sumVars

-----------------------------------------------------------------------------
DetectorsTypeOK ==
  /\ \A i \in 1..Pixels : smooth[i] \in 0..MaxUint16 /\ previous[i] \in 0..MaxUint16
  /\ {moving, swaying, loud, voiced, inBand, spoke} \subseteq BOOLEAN /\ stillFor \in NoAge..MotionSettle
  /\ floor \in (FloorMin..FloorMax) \cup Levels \cup {NoFloor} /\ burst \in 0..MaxBurst
  /\ cryFor \in 0..SoundSettle /\ barkFor \in 0..SoundSettle

\* A lamp that is turned on, or a cloud, changes every pixel and moves nothing.
LightIsNotMotion == moving => swaying

\* A picture in which nothing happens any more is soon a still one: the blend
\* that goes on for a while does not keep it moving.
StillnessIsSeen == stillSteps = LongStill => ~moving

\* A noise that does not end is no cry and no bark, however loud.
ALastingNoiseIsSilent == sameFor = LongSame => cryFor = 0 /\ barkFor = 0

\* What has no voice in it asks nobody to listen.
OnlyAVoiceIsReported == cryFor + barkFor > 0 => spoke

\* A sound is the same sound wherever it is cut into blocks.
BlocksDoNotMatter == sums = SumsOf[heard]

\* Together: a change of light is no motion and stillness ends it, what lasts is no
\* event and only a voice is one, and the blocks the sound comes in do not matter.
DetectorsSafety ==
  /\ DetectorsTypeOK
  /\ LightIsNotMotion /\ StillnessIsSeen /\ ALastingNoiseIsSilent /\ OnlyAVoiceIsReported /\ BlocksDoNotMatter
=============================================================================
