------------------------------ MODULE Quality ------------------------------
(***************************************************************************)
(* How much of what the network grants the picture needs: the governor of  *)
(* internal/rtc/quality.go, inside the cap of Bandwidth.                   *)
(*                                                                         *)
(* A governor is a record: the bitrate, how long ago it moved, what came   *)
(* out and how coarse the picture was in the last seconds, and whether the *)
(* last tick was at full size.                                             *)
(***************************************************************************)
EXTENDS Bandwidth

CONSTANTS TargetQP,
          QPs,           \* the quantisers that may be read, -1 being none
          Caps,          \* what the network may grant
          QualityWindow, \* qualityQPWindow and qualityThroughputWindow
          QualitySettle, \* qualitySettle
          MaxTurns

ASSUME QualityAssumption ==
  /\ TargetQP \in 1..51 /\ QPs \subseteq -1..51 /\ Caps \subseteq Nat
  /\ QualityWindow \in Nat \ {0} /\ QualitySettle \in Nat \ {0} /\ MaxTurns \in Nat

NewQuality(kbps) ==
  [current |-> kbps, moved |-> Never, throughput |-> <<>>, qps |-> <<>>, wasFull |-> TRUE]

\* release: nothing is inherited, and the first reading of a session is not one.
QualityRelease(q, cap) ==
  [current |-> cap, moved |-> Never, throughput |-> <<>>, qps |-> <<>>, wasFull |-> FALSE]

Moves(q, kbps) == IF kbps = q.current THEN q ELSE [q EXCEPT !.current = kbps, !.moved = 0]
IsSettling(q) == q.moved # Never /\ q.moved < QualitySettle

\* An encoder that overshoots is asked for so much less that it stays inside.
NoCeiling(q, want, cap, mean) == want                              \* mutant
ByteCeiling(q, want, cap, mean) ==
  IF mean <= 0 \/ q.current <= 0 \/ want <= 0 THEN want
  ELSE IF (mean * want) \div q.current <= (cap * 120) \div 100 THEN want
  ELSE AtMost((q.current * cap) \div mean, want)

AtCap(q, cap, mean) ==
  IF IsSettling(q) THEN q ELSE Moves(q, AtLeast(ByteCeiling(q, cap, cap, mean), KbpsFloor))

\* On motion the discount is given back at once.
GivesBack(q, cap, mean) ==
  LET want == ByteCeiling(q, cap, cap, mean) IN IF want <= q.current THEN q ELSE Moves(q, want)

\* Two to the power of twelfths, in thousandths.
Twelfths == <<1000, 1059, 1122, 1189, 1260, 1335, 1414, 1498, 1587, 1682, 1782, 1888>>
TimesPower(base, twelfths) ==
  IF twelfths >= 0
    THEN ((base * Twelfths[(twelfths % 12) + 1] * (2 ^ (twelfths \div 12))) + 500) \div 1000
    ELSE LET n == (11 - twelfths) \div 12
         IN ((base * Twelfths[twelfths + (12 * n) + 1]) + (500 * (2 ^ n))) \div (1000 * (2 ^ n))

\* What came out is where a rise begins, unless more than that is asked for.
WhatCameOut(q, shortfall, out) == out                              \* mutant
Base(q, shortfall, out) == IF shortfall > 0 THEN AtLeast(out, q.current) ELSE out

\* Six points of the quantiser are a doubling, and half of that going down.
Fits(q, shortfall, produced, cap, mean) ==
  LET out == IF produced <= 0 THEN q.current ELSE produced
      want == AtMost(TimesPower(Base(q, shortfall, out), IF shortfall > 0 THEN 2 * shortfall ELSE shortfall), cap)
  IN AtMost(AtLeast(ByteCeiling(q, want, cap, mean), KbpsFloor), cap)

\* noteQP: the readings of another size are not kept.
KeepsAll(q, full) == TRUE                                          \* mutant
Counts(q, full) == full /\ q.wasFull

Rounded(w) == IF Len(w) < QualityWindow THEN 0 ELSE (Total[w] + (Len(w) \div 2)) \div Len(w)

QualityTarget(q0, qp, produced, cap, full, stirred) ==
  LET throughput == RollingAdd(q0.throughput, produced, QualityWindow, FALSE)
      mean == MeanOf(throughput, QualityWindow)
      qps == IF Counts(q0, full) THEN RollingAdd(q0.qps, qp, QualityWindow, TRUE) ELSE <<>>
      meanQP == Rounded(qps)
      q == [q0 EXCEPT !.throughput = throughput, !.qps = qps, !.wasFull = full]
      shortfall == meanQP - TargetQP
  IN IF q.current > cap THEN [q EXCEPT !.current = cap, !.moved = 0]
     ELSE IF ~full \/ meanQP <= 0 THEN AtCap(q, cap, mean)
     ELSE IF stirred /\ q.current < cap THEN GivesBack(q, cap, mean)
     ELSE IF IsSettling(q) \/ shortfall \in -1..1 THEN q
     ELSE Moves(q, Fits(q, shortfall, produced, cap, mean))

-----------------------------------------------------------------------------
VARIABLES
  quality,
  scene,     \* what is filmed and what the network grants: the inputs of a tick
  turns,     \* how often the scene has changed
  fullFor,   \* history: readings in a row, all at full size and with a picture
  steady     \* history: ticks since the scene changed

qualityVars == <<quality, scene, turns, fullFor, steady>>

SteadyLong == 2 * QualityWindow + QualitySettle

\* What comes out is a part, in halves, of what is asked for.
QualityScenes == [qp : QPs, halves : 0..3, cap : Caps, full : BOOLEAN, stirred : BOOLEAN]

QualityInit ==
  /\ scene \in QualityScenes /\ quality = NewQuality(scene.cap)
  /\ turns = 0 /\ fullFor = 0 /\ steady = 0

\* A tick of RunBitrateControl with a viewer.
QualityTick ==
  LET aged == [quality EXCEPT !.moved = Older(@, QualitySettle)]
      produced == (scene.halves * quality.current) \div 2
  IN
  /\ quality' = QualityTarget(aged, scene.qp, produced, scene.cap, scene.full, scene.stirred)
  /\ fullFor' = IF scene.full /\ scene.qp > 0 THEN AtMost(fullFor + 1, QualityWindow)
                ELSE IF scene.full /\ fullFor > 0 THEN fullFor - 1 ELSE 0
  /\ steady' = AtMost(steady + 1, SteadyLong)
  /\ UNCHANGED <<scene, turns>>

\* The light, whoever moves, the network and the size change.
SceneChanges ==
  /\ turns < MaxTurns /\ turns' = turns + 1 /\ scene' \in QualityScenes \ {scene}
  /\ steady' = 0 /\ UNCHANGED <<quality, fullFor>>

\* A tick with nobody watching.
QualityIdles ==
  /\ turns < MaxTurns /\ turns' = turns + 1
  /\ quality' = QualityRelease(quality, scene.cap)
  /\ fullFor' = 0 /\ steady' = 0 /\ UNCHANGED scene

QualityNext == QualityTick \/ SceneChanges \/ QualityIdles

QualitySpec == QualityInit /\ [][QualityNext]_qualityVars

-----------------------------------------------------------------------------
QualityTypeOK ==
  /\ quality.current \in Nat \ {0} /\ quality.moved \in Never..QualitySettle
  /\ Len(quality.throughput) <= QualityWindow /\ Len(quality.qps) <= QualityWindow
  /\ quality.wasFull \in BOOLEAN /\ scene \in QualityScenes /\ turns \in 0..MaxTurns
  /\ fullFor \in 0..QualityWindow /\ steady \in 0..SteadyLong

\* Below what is granted the bitrate falls only on a full window of readings of
\* this size, or because more came out than was asked for.
ADiscountRestsOnReadings ==
  [][QualityTick /\ quality'.current < quality.current /\ quality.current <= scene.cap =>
       \/ fullFor' = QualityWindow
       \/ MeanOf(quality'.throughput, QualityWindow) > quality.current]_qualityVars

JustMoved == quality.moved \in 0..(QualitySettle - 1)

\* A picture that stays coarse is soon given all there is.
ACoarsePictureGetsMore ==
  steady = SteadyLong /\ scene.full /\ scene.qp > TargetQP + 1 /\ scene.halves \in 1..2 =>
    quality.current = scene.cap \/ JustMoved

\* Without motion, whatever an encoder makes of what it is asked for, it is soon asked for so
\* little that the network carries it, a fifth of noise apart.
TheNetworkIsNotExceeded ==
  steady = SteadyLong /\ ~scene.stirred =>
    \/ (scene.halves * quality.current * 50) <= scene.cap * 120
    \/ quality.current = KbpsFloor \/ JustMoved
=============================================================================
