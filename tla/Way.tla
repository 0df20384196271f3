-------------------------------- MODULE Way --------------------------------
(***************************************************************************)
(* What is measured, timed and dated while frames and sound go their way   *)
(* through the pipeline: the readings of the quantiser, which frames are   *)
(* let through and with which dates, and in which pieces the sound is.     *)
(* Three parts that share no state, each with its own next-state relation. *)
(***************************************************************************)
EXTENDS Integers, Sequences, FiniteSets

(***************************************************************************)
(* The reading of the quantiser, frame after frame, while encoders come    *)
(* and go: QPReader in internal/media/qp.go, videoSession.take, and        *)
(* qpReadings to histPercentile in internal/pipeline/pipeline.go.  A frame *)
(* leaves the assembler when the next one comes out of the encoder, so the *)
(* last of an encoder is read when the next encoder is already there.      *)
(***************************************************************************)
CONSTANTS Sets,        \* parameter sets that encoders write
          Unread,      \* those of them that ParsePPS refuses
          NoSets,      \* stands for none
          PictureQPs,         \* what a frame may be quantised with
          Nailed,      \* what a chip says whose slice quantiser is a constant
          MaxFrames, MaxEncoders  \* bounds

ASSUME QuantiserAssumption ==
  /\ Unread \subseteq Sets /\ NoSets \notin Sets /\ PictureQPs \subseteq 0..51 /\ Nailed \in 0..51
  /\ MaxFrames \in Nat /\ MaxEncoders \in Nat \ {0}

VARIABLES
  chip,      \* inBand: writes its sets in the stream; attribute: it sets one;
             \* sliceMoves, attrMoves: whether what each says is a measure
  sets,      \* of the encoder now
  fresh,     \* its next frame is its first
  encoders, shots,         \* how many of each so far
  held,      \* the frame in the assembler
  reader,    \* QPReader: own, fromStream
  used,      \* qpUsedMin, qpUsedMax
  window,    \* the readings since the last TakeRecentQP, in their order
  taken,     \* what that returned, and of which readings
  misread    \* history: frames read with the sets of another encoder

quantiserVars == <<chip, sets, fresh, encoders, shots, held, reader, used, window, taken, misread>>

NoFrame == [sets |-> NoSets, key |-> FALSE, qp |-> 0]
Frame == [sets : Sets, key : BOOLEAN, qp : PictureQPs] \cup {NoFrame}

QuantiserInit ==
  /\ chip \in [inBand : BOOLEAN, attribute : BOOLEAN, sliceMoves : BOOLEAN, attrMoves : BOOLEAN]
  /\ sets \in Sets /\ fresh = TRUE /\ encoders = 1 /\ shots = 0
  /\ held = NoFrame /\ reader = [own |-> NoSets, fromStream |-> FALSE]
  /\ used = [lo |-> 0, hi |-> 0] /\ window = <<>> /\ taken = [qp |-> 0, of |-> <<>>] /\ misread = 0

\* The scale, or a fault, builds another encoder.
EncoderRebuilt ==
  /\ encoders < MaxEncoders /\ ~fresh
  /\ encoders' = encoders + 1 /\ sets' \in Sets /\ fresh' = TRUE
  /\ UNCHANGED <<chip, shots, held, reader, used, window, taken, misread>>

\* adopt: the same bytes change nothing but that the stream has said them.
Adopt(r, s, fromStream) ==
  IF r.own = s THEN [r EXCEPT !.fromStream = @ \/ fromStream]
  ELSE [own |-> s, fromStream |-> fromStream]

\* Seed, with what the encoder declares, is refused once the stream has spoken.
TheSeedWins(r, s) == IF s = NoSets THEN r ELSE Adopt(r, s, FALSE)   \* mutant
Seed(r, s) == IF s = NoSets \/ r.fromStream THEN r ELSE Adopt(r, s, FALSE)

Feed(r, au) == IF chip.inBand /\ au.key THEN Adopt(r, au.sets, TRUE) ELSE r

\* qpMeasured: widen, and in only when the reading has been seen to change.
Widened(u, qp) == [lo |-> IF u.lo = 0 \/ qp < u.lo THEN qp ELSE u.lo, hi |-> IF qp > u.hi THEN qp ELSE u.hi]
AnyReading(u) == TRUE                                              \* mutant
HasMoved(u) == u.hi > u.lo

MeasuredQP(qp) ==
  IF qp = 0 THEN UNCHANGED <<used, window>>
  ELSE /\ used' = Widened(used, qp)
       /\ window' = IF HasMoved(used') THEN Append(window, qp) ELSE window

\* qpReadings, of a frame read as slice or not read, while the encoder's
\* attribute is that of its last frame.
Readings(read, slice, attr) ==
  IF chip.attribute THEN MeasuredQP(IF chip.attrMoves THEN attr ELSE Nailed)
  ELSE IF read THEN MeasuredQP(IF chip.sliceMoves THEN slice ELSE Nailed)
  ELSE UNCHANGED <<used, window>>

\* take: a frame comes out, and the one before it leaves the assembler.
FrameComes ==
  /\ shots < MaxFrames /\ shots' = shots + 1
  /\ \E qp \in PictureQPs, key \in BOOLEAN :
       /\ fresh => key
       /\ held' = [sets |-> sets, key |-> key, qp |-> qp] /\ fresh' = FALSE
       /\ IF held = NoFrame THEN UNCHANGED <<reader, used, window, misread>>
          ELSE /\ reader' = Feed(Seed(reader, sets), held)
               /\ LET ready == reader'.own \notin Unread
                  IN /\ misread' = misread + (IF ready /\ reader'.own # held.sets THEN 1 ELSE 0)
                     /\ Readings(ready, held.qp, qp)
  /\ UNCHANGED <<chip, sets, encoders, taken>>

\* histPercentile, of the readings in s: the ninetieth of a hundred.
Truncated(n) == (n * 90) \div 100                                  \* mutant
Threshold(n) == IF n = 0 THEN 1 ELSE ((n * 90) + 99) \div 100

Percentile(s) ==
  LET under(q) == Cardinality({i \in DOMAIN s : s[i] <= q /\ s[i] > 0})
      enough == {q \in 1..51 : under(q) >= Threshold(Len(s))}
  IN IF enough = {} THEN 0 ELSE CHOOSE q \in enough : \A r \in enough : q <= r

\* TakeRecentQP: what is returned is not returned again.
TakesRecent ==
  /\ taken' = [qp |-> IF window = <<>> THEN 0 ELSE Percentile(window), of |-> window] /\ window' = <<>>
  /\ UNCHANGED <<chip, sets, fresh, encoders, shots, held, reader, used, misread>>

QuantiserNext == EncoderRebuilt \/ FrameComes \/ TakesRecent
QuantiserSpec == QuantiserInit /\ [][QuantiserNext]_quantiserVars

-----------------------------------------------------------------------------
QuantiserTypeOK ==
  /\ sets \in Sets /\ fresh \in BOOLEAN /\ encoders \in 1..MaxEncoders /\ shots \in 0..MaxFrames
  /\ held \in Frame /\ reader \in [own : Sets \cup {NoSets}, fromStream : BOOLEAN]
  /\ used.lo \in 0..51 /\ used.hi \in 0..51
  /\ window \in Seq(1..51) /\ Len(window) <= MaxFrames /\ taken.qp \in 0..51 /\ misread \in 0..MaxFrames

\* A frame is read with the sets it was written with.  Where the stream
\* carries them, always; where they are only declared, all but the last frame
\* of an encoder, which is read when the next one has declared its own.
OnlyTheLastIsMisread == misread <= IF chip.inBand THEN 0 ELSE encoders - 1

\* A reading that never changes is not a measurement: of a chip whose
\* quantiser is nailed down the governors are told nothing, through whatever
\* encoders.
ANailedReadingSaysNothing ==
  (IF chip.attribute THEN ~chip.attrMoves ELSE ~chip.sliceMoves) => window = <<>> /\ taken.qp = 0

\* One frame in ten may be worse than what is handed over, and no more; and
\* what is handed over was read.
TheTailIsSeen ==
  taken.of # <<>> =>
    /\ \E i \in DOMAIN taken.of : taken.of[i] = taken.qp
    /\ 10 * Cardinality({i \in DOMAIN taken.of : taken.of[i] > taken.qp}) <= Len(taken.of)

\* Together: a new encoder's frames alone can be misread, a reading that never moves
\* says nothing, and the worst of a second is seen.
QuantiserSafety == QuantiserTypeOK /\ OnlyTheLastIsMisread /\ ANailedReadingSaysNothing /\ TheTailIsSeen
-----------------------------------------------------------------------------
(***************************************************************************)
(* When a frame is let through and how it is dated: cadenceGate in         *)
(* internal/pipeline/pipeline.go and capturedAt in captureclock.go.  The   *)
(* camera captures at its own period, a little early or late; a frame gets *)
(* to the gate with some age, which a stall makes great.                   *)
(***************************************************************************)
CONSTANTS Period, Jitter,  \* between two captures, and by how much one is early or late
          Gates,           \* intervals wanted of the gate, each a multiple of Period; 0: all
          Ages,            \* how long a frame takes to come out of the encoder
          MaxAge,          \* maxCaptureAge
          MaxCaptured         \* frames: a bound

ASSUME FrameTimesAssumption ==
  /\ {Period, Jitter, MaxAge, MaxCaptured} \subseteq Nat /\ Period > 2 * Jitter
  /\ Gates \subseteq Nat /\ \A g \in Gates : g % Period = 0 /\ 2 * Jitter <= g \div 10 + (IF g = 0 THEN 2 * Jitter ELSE 0)
  /\ Ages \subseteq Nat

VARIABLES
  interval, last,  \* cadenceGate: the wait, and the last frame that passed
  captured,           \* frames captured
  lastShot,        \* when the last one was
  passes,          \* history: the time between the last two that passed
  clock,           \* when the last one came out
  dates,           \* the dates of the last two that came out
  fellBack         \* history: a frame was dated on arrival

frameTimesVars == <<interval, last, captured, lastShot, passes, clock, dates, fellBack>>

NoShot == -1

FrameTimesInit ==
  /\ interval \in Gates /\ last = NoShot /\ captured = 0 /\ lastShot = 0 /\ passes = NoShot
  /\ clock = 0 /\ dates = <<0, 0>> /\ fellBack = FALSE

\* due: a tenth of the interval early is on time.
ToTheInstant(since) == since >= interval                           \* mutant
IsTime(since) == since >= interval - (interval \div 10)

Due(now) == interval = 0 \/ last = NoShot \/ IsTime(now - last)

\* capturedAt: the arrival less the age, where the age may be believed.
AddsTheAge(arrived, age) == arrived + age                          \* mutant
BackBy(arrived, age) == arrived - age

CapturedAt(arrived, age) == IF age > MaxAge THEN arrived ELSE BackBy(arrived, age)

Captures ==
  /\ captured < MaxCaptured /\ captured' = captured + 1
  /\ \E early \in -Jitter..Jitter, age \in Ages :
       LET now == (captured + 1) * Period + early
           out == IF now + age > clock THEN now + age ELSE clock
       IN /\ lastShot' = now
          /\ IF Due(now)
             THEN /\ last' = now /\ passes' = (IF last = NoShot THEN NoShot ELSE now - last)
                  /\ clock' = out /\ dates' = <<dates[2], CapturedAt(out, out - now)>>
                  /\ fellBack' = (fellBack \/ out - now > MaxAge)
             ELSE UNCHANGED <<last, passes, clock, dates, fellBack>>
  /\ UNCHANGED interval

FrameTimesNext == Captures
FrameTimesSpec == FrameTimesInit /\ [][FrameTimesNext]_frameTimesVars

-----------------------------------------------------------------------------
FrameTimesTypeOK ==
  /\ interval \in Gates /\ captured \in 0..MaxCaptured /\ last \in Int /\ lastShot \in Nat /\ clock \in Nat
  /\ passes \in Int /\ dates \in Int \X Int /\ fellBack \in BOOLEAN

\* The cadence wanted is the cadence delivered: a frame an instant early does
\* not cost the next one, and two never pass where one was wanted.
TheCadenceIsKept ==
  interval > 0 /\ passes # NoShot => passes >= interval - (interval \div 10) /\ passes <= interval + (2 * Jitter)

\* Frames are dated in the order and with the distances of the camera, however
\* late the encoder lets them go, as long as none was too old to be believed.
TheDatesAreTheCameras == ~fellBack /\ last # NoShot => dates[2] = last /\ dates[1] <= dates[2]

-----------------------------------------------------------------------------
(***************************************************************************)
(* What becomes of the microphone's samples: the callback of capture in    *)
(* internal/pipeline/pipeline.go, packetStart in captureclock.go.  A block *)
(* has as many samples as the driver likes; the encoder takes a packet's   *)
(* worth at a time, and detection its own blocks at a lower rate.  A       *)
(* sample is its place in the sound since the capture opened.              *)
(***************************************************************************)
CONSTANTS Packet,    \* samples in a packet: FrameSamples
          Decim,     \* samples averaged into one for detection
          LevelN,    \* samples of detection's block
          MaxBlock,  \* samples in a block
          MaxSamples, MaxLate \* bounds: the sound, and how late a block may be

ASSUME AudioPathAssumption ==
  /\ {Packet, Decim, LevelN, MaxBlock} \subseteq Nat \ {0} /\ {MaxSamples, MaxLate} \subseteq Nat

VARIABLES
  heard,     \* samples the driver has handed over
  mono,      \* those that wait for a packet to be whole
  encoded,   \* the packets: each with its first sample and its instant
  carry, levelAcc,  \* those that wait to be averaged, and the averages that wait for a block
  levels,    \* the blocks detection had: each a sequence of the first samples averaged
  arrivedAt  \* when the last block came

audioPathVars == <<heard, mono, encoded, carry, levelAcc, levels, arrivedAt>>

AudioPathInit ==
  /\ heard = 0 /\ mono = <<>> /\ encoded = <<>> /\ carry = <<>> /\ levelAcc = <<>> /\ levels = <<>> /\ arrivedAt = 0

\* Whole pieces of n off the front of s, and what is left.
Whole(s, n) == [k \in 1..(Len(s) \div n) |-> SubSeq(s, (k - 1) * n + 1, k * n)]
Left(s, n) == SubSeq(s, (Len(s) \div n) * n + 1, Len(s))

\* packetStart: the arrival less what was still queued when it was cut.
AllAtOnce(arrived, queued, k) == arrived - queued                  \* mutant
PacketStart(arrived, queued, k) == arrived - (queued - (k - 1) * Packet)

ByTheBlock(c) == <<>>                                              \* mutant
CarriedOver(c) == Left(c, Decim)

Block(n, now) ==
  LET block == [i \in 1..n |-> heard + i]
      queue == mono \o block
      cut == Whole(queue, Packet)
      averaged == carry \o block
      acc == levelAcc \o [k \in 1..(Len(averaged) \div Decim) |-> averaged[(k - 1) * Decim + 1]]
  IN /\ heard' = heard + n /\ arrivedAt' = now
     /\ mono' = Left(queue, Packet)
     /\ encoded' = encoded \o [k \in DOMAIN cut |-> [first |-> cut[k][1], at |-> PacketStart(now, Len(queue), k)]]
     /\ carry' = CarriedOver(averaged)
     /\ levels' = levels \o Whole(acc, LevelN) /\ levelAcc' = Left(acc, LevelN)

\* A block comes when its last sample has been heard, or later, behind another.
HandsOver ==
  \E n \in 1..MaxBlock, late \in 0..MaxLate :
    /\ heard + n <= MaxSamples /\ heard + n + late >= arrivedAt
    /\ Block(n, heard + n + late)

AudioPathNext == HandsOver
AudioPathSpec == AudioPathInit /\ [][AudioPathNext]_audioPathVars

-----------------------------------------------------------------------------
AudioPathTypeOK ==
  /\ heard \in 0..MaxSamples /\ Len(mono) < Packet /\ Len(carry) < Decim /\ Len(levelAcc) < LevelN
  /\ arrivedAt \in 0..(MaxSamples + MaxLate)
  /\ \A i \in DOMAIN encoded : encoded[i].first \in 1..MaxSamples

\* Packets follow one another without a sample lost or heard twice, and each
\* is dated within the lateness of its block of when it began: the dates do
\* not depend on how the driver cuts the sound.
PacketsAreTheSound ==
  \A i \in DOMAIN encoded :
    /\ encoded[i].first = (i - 1) * Packet + 1
    /\ encoded[i].at >= encoded[i].first - 1 /\ encoded[i].at <= encoded[i].first - 1 + MaxLate

\* What detection hears is the sound, averaged in step from its first sample:
\* how the driver cuts it does not matter.
DetectionHearsTheSound ==
  \A i \in DOMAIN levels : levels[i] = [k \in 1..LevelN |-> ((i - 1) * LevelN + (k - 1)) * Decim + 1]

-----------------------------------------------------------------------------
\* The two together: the cadence is the one wanted and the dates are the camera's,
\* and neither a packet nor the detection loses a sample or dates it wrongly.
PacingSafety ==
  /\ FrameTimesTypeOK /\ AudioPathTypeOK
  /\ TheCadenceIsKept /\ TheDatesAreTheCameras /\ PacketsAreTheSound /\ DetectionHearsTheSound

\* What is measured and dated on the way, all of it.
WaySafety == QuantiserSafety /\ PacingSafety
=============================================================================
