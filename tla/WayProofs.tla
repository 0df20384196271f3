----------------------------- MODULE WayProofs -----------------------------
(***************************************************************************)
(* Proofs about what is measured, timed and dated on the way: for any      *)
(* encoders, any camera and any way the driver cuts the sound.             *)
(***************************************************************************)
EXTENDS Way, FiniteSetTheorems, WellFoundedInduction, TLAPS

-----------------------------------------------------------------------------
\* When frames pass: the last that did is the b-th captured, and those since
\* then were not due.

PassedAt(b) ==
  /\ last >= b * Period - Jitter /\ last <= b * Period + Jitter
  /\ b = captured \/ (interval > 0 /\ (captured - b) * Period < interval)

FrameTimesInv ==
  /\ FrameTimesTypeOK
  /\ last = NoShot => dates[2] = 0
  /\ last # NoShot => \E b \in 1..captured : PassedAt(b)
  /\ passes # NoShot => last # NoShot
  /\ TheCadenceIsKept /\ TheDatesAreTheCameras

\* Multiples of a period that are apart are apart by a period.
LEMMA MultiplesApart ==
  ASSUME NEW a \in Nat, NEW b \in Nat, NEW p \in Nat, a * p < b * p
  PROVE  (a + 1) * p <= b * p
<1>1. a < b
  <2> SUFFICES ASSUME a >= b PROVE FALSE
    OBVIOUS
  <2>1. (a - b) * p >= 0
    OBVIOUS
  <2>2. (a - b) * p = a * p - b * p
    OBVIOUS
  <2> QED
    BY <2>1, <2>2
<1>2. (b - (a + 1)) * p >= 0
  BY <1>1
<1>3. (b - (a + 1)) * p = b * p - (a + 1) * p
  OBVIOUS
<1> QED
  BY <1>2, <1>3

\* A frame that was captured later comes later, by a period less the jitter,
\* and the wait that was asked for is a multiple of the period.
LEMMA LaterIsLater ==
  ASSUME NEW b \in Nat, NEW c \in Nat, b <= c
  PROVE  /\ Period \in Nat /\ b * Period \in Nat /\ c * Period \in Nat
         /\ (c + 1) * Period = c * Period + Period
         /\ (c - b) * Period = c * Period - b * Period
         /\ (c + 1 - b) * Period = c * Period - b * Period + Period
         /\ b * Period <= c * Period
<1>1. Period \in Nat
  BY FrameTimesAssumption
<1>2. (c - b) * Period >= 0
  BY <1>1
<1> QED
  BY <1>1, <1>2

LEMMA GateIsWhole ==
  ASSUME NEW g \in Gates
  PROVE  /\ g \in Nat
         /\ g > 0 => 2 * Jitter <= g \div 10
         /\ \E a \in Nat : g = a * Period
<1>1. Period \in Nat /\ Jitter \in Nat /\ Period > 0 /\ g \in Nat /\ g % Period = 0
      /\ 2 * Jitter <= g \div 10 + (IF g = 0 THEN 2 * Jitter ELSE 0)
  BY FrameTimesAssumption
<1>2. g = (g \div Period) * Period /\ g \div Period \in Nat
  BY <1>1
<1> QED
  BY <1>1, <1>2

LEMMA FrameTimesStarts ==
  FrameTimesInit => FrameTimesInv
<1> SUFFICES ASSUME FrameTimesInit PROVE FrameTimesInv
  OBVIOUS
<1>0. MaxCaptured \in Nat /\ NoShot \in Int
  BY FrameTimesAssumption DEF NoShot
<1>a. <<0, 0>> \in Int \X Int
  OBVIOUS
<1>1. FrameTimesTypeOK
  <2>1. interval \in Gates /\ captured \in 0..MaxCaptured /\ lastShot \in Nat /\ clock \in Nat
    BY <1>0 DEF FrameTimesInit
  <2>2. last \in Int /\ passes \in Int
    BY <1>0 DEF FrameTimesInit
  <2>3. dates \in Int \X Int /\ fellBack \in BOOLEAN
    BY <1>a DEF FrameTimesInit
  <2> QED
    BY <2>1, <2>2, <2>3 DEF FrameTimesTypeOK
<1>2. last = NoShot /\ passes = NoShot /\ dates[2] = 0
  BY DEF FrameTimesInit
<1> QED
  BY <1>1, <1>2 DEF FrameTimesInv, TheCadenceIsKept, TheDatesAreTheCameras

LEMMA FrameTimesGoOn ==
  FrameTimesInv /\ [FrameTimesNext]_frameTimesVars => FrameTimesInv'
<1> SUFFICES ASSUME FrameTimesInv, [FrameTimesNext]_frameTimesVars PROVE FrameTimesInv'
  OBVIOUS
<1>0. /\ {Period, Jitter, MaxAge, MaxCaptured} \subseteq Nat /\ Period > 2 * Jitter /\ NoShot = -1
      /\ interval \in Nat /\ interval \in Gates
      /\ interval > 0 => 2 * Jitter <= interval \div 10
  BY FrameTimesAssumption, GateIsWhole DEF FrameTimesInv, FrameTimesTypeOK, NoShot
<1>a. PICK a \in Nat : interval = a * Period
  BY <1>0, GateIsWhole
<1>t. /\ captured \in 0..MaxCaptured /\ last \in Int /\ lastShot \in Nat /\ clock \in Nat
      /\ passes \in Int /\ dates \in Int \X Int /\ fellBack \in BOOLEAN
  BY DEF FrameTimesInv, FrameTimesTypeOK
<1>1. CASE UNCHANGED frameTimesVars
  BY <1>1 DEF frameTimesVars, FrameTimesInv, FrameTimesTypeOK, TheCadenceIsKept, TheDatesAreTheCameras, PassedAt
<1>2. CASE Captures
  <2> DEFINE Now(early) == (captured + 1) * Period + early
             Out(early, age) == IF Now(early) + age > clock THEN Now(early) + age ELSE clock
  <2>1. PICK early \in -Jitter..Jitter, age \in Ages :
          /\ captured < MaxCaptured /\ captured' = captured + 1 /\ interval' = interval
          /\ lastShot' = Now(early)
          /\ IF Due(Now(early))
             THEN /\ last' = Now(early) /\ passes' = (IF last = NoShot THEN NoShot ELSE Now(early) - last)
                  /\ clock' = Out(early, age) /\ dates' = <<dates[2], CapturedAt(Out(early, age), Out(early, age) - Now(early))>>
                  /\ fellBack' = (fellBack \/ Out(early, age) - Now(early) > MaxAge)
             ELSE UNCHANGED <<last, passes, clock, dates, fellBack>>
    BY <1>2 DEF Captures
  <2> DEFINE now == Now(early)
             out == Out(early, age)
  <2>2. /\ captured \in Nat /\ captured' \in 1..MaxCaptured
        /\ captured * Period \in Nat /\ (captured + 1) * Period = captured * Period + Period
        /\ early \in Int /\ early >= -Jitter /\ early <= Jitter
    BY <1>0, <1>t, <2>1, LaterIsLater
  <2>3. /\ now = captured * Period + Period + early
        /\ now \in Nat /\ now > Jitter
    BY <1>0, <2>2
  <2>4. age \in Nat /\ out \in Nat /\ out >= now
    BY <1>t, <2>1, <2>3, FrameTimesAssumption
  <2>5. CapturedAt(out, out - now) \in Int /\ (out - now <= MaxAge => CapturedAt(out, out - now) = now)
    <3> HIDE DEF now, out
    <3> QED
      BY <1>0, <2>3, <2>4 DEF CapturedAt, BackBy
  <2>6. last = NoShot \/ (last < now /\ now - last > 0)
    <3> SUFFICES ASSUME last # NoShot PROVE last < now /\ now - last > 0
      OBVIOUS
    <3>1. PICK b \in 1..captured : PassedAt(b)
      BY DEF FrameTimesInv
    <3>2. b \in Nat /\ b <= captured /\ last <= b * Period + Jitter
      BY <2>2, <3>1 DEF PassedAt
    <3>3. b * Period <= captured * Period /\ b * Period \in Nat
      BY <2>2, <3>2, LaterIsLater
    <3> HIDE DEF now
    <3> QED
      BY <1>0, <1>t, <2>2, <2>3, <3>2, <3>3
  <2>7. CASE Due(now)
    <3>1. /\ last' = now /\ passes' = (IF last = NoShot THEN NoShot ELSE now - last)
          /\ clock' = out /\ dates' = <<dates[2], CapturedAt(out, out - now)>>
          /\ fellBack' = (fellBack \/ out - now > MaxAge)
      BY <2>1, <2>7
    <3> HIDE DEF now, out
    <3>2. FrameTimesTypeOK'
      <4>1. lastShot' = now
        BY <2>1 DEF now
      <4> QED
        BY <1>0, <1>t, <2>1, <2>2, <2>3, <2>4, <2>5, <3>1, <4>1 DEF FrameTimesTypeOK
    <3>3. last' # NoShot /\ \E b \in 1..captured' : PassedAt(b)'
      <4>1. /\ last' >= captured' * Period - Jitter /\ last' <= captured' * Period + Jitter
        BY <1>0, <2>1, <2>2, <2>3, <3>1
      <4>2. captured' \in 1..captured'
        BY <2>2
      <4> QED
        BY <1>0, <2>3, <3>1, <4>1, <4>2 DEF PassedAt
    <3>4. TheDatesAreTheCameras'
      <4> SUFFICES ASSUME ~fellBack' PROVE dates'[2] = last' /\ dates'[1] <= dates'[2]
        BY DEF TheDatesAreTheCameras
      <4>0. ~(out - now > MaxAge) /\ ~fellBack
        BY <3>1
      <4>1. dates'[2] = now /\ dates'[1] = dates[2] /\ last' = now
        BY <2>3, <2>4, <2>5, <3>1, <4>0, <1>0
      <4>2. dates[2] = 0 \/ (last # NoShot /\ dates[2] = last)
        BY <4>0 DEF FrameTimesInv, TheDatesAreTheCameras
      <4> QED
        BY <1>t, <2>3, <2>6, <4>1, <4>2
    <3>5. TheCadenceIsKept'
      <4> SUFFICES ASSUME interval > 0, passes' # NoShot
                   PROVE  passes' >= interval - (interval \div 10) /\ passes' <= interval + (2 * Jitter)
        BY <2>1 DEF TheCadenceIsKept
      <4>1. last # NoShot /\ passes' = now - last
        BY <3>1
      <4>2. now - last >= interval - (interval \div 10)
        BY <1>0, <2>7, <4>1 DEF Due, IsTime
      <4>3. PICK b \in 1..captured : PassedAt(b)
        BY <4>1 DEF FrameTimesInv
      <4>4. b \in Nat /\ b <= captured
        BY <2>2, <4>3
      <4>5. (captured + 1 - b) * Period <= interval
        <5>1. CASE b = captured
          <6>1. 0 * Period < a * Period
            BY <1>0, <1>a
          <6> QED
            BY <1>0, <1>a, <2>2, <5>1, <6>1, MultiplesApart
        <5>2. CASE (captured - b) * Period < interval
          <6>1. captured - b \in Nat /\ (captured - b) + 1 = captured + 1 - b
            BY <2>2, <4>4
          <6>2. ((captured - b) + 1) * Period <= a * Period
            BY <1>0, <1>a, <5>2, <6>1, MultiplesApart
          <6> QED
            BY <1>a, <6>1, <6>2
        <5> QED
          BY <4>3, <5>1, <5>2 DEF PassedAt
      <4>6. (captured + 1 - b) * Period = captured * Period - b * Period + Period /\ b * Period \in Nat
        BY <2>2, <4>4, LaterIsLater
      <4>7. last >= b * Period - Jitter
        BY <4>3 DEF PassedAt
      <4>8. now - last <= interval + 2 * Jitter
        BY <1>0, <1>t, <2>2, <2>3, <4>5, <4>6, <4>7
      <4> QED
        BY <4>1, <4>2, <4>8
    <3> QED
      BY <3>2, <3>3, <3>4, <3>5 DEF FrameTimesInv
  <2>8. CASE ~Due(now)
    <3>1. UNCHANGED <<last, passes, clock, dates, fellBack>> /\ lastShot' = now
      BY <2>1, <2>8
    <3>2. interval > 0 /\ last # NoShot /\ now - last < interval - (interval \div 10)
      <4> HIDE DEF now
      <4> QED
        BY <1>0, <1>t, <2>3, <2>8 DEF Due, IsTime
    <3> HIDE DEF now, out
    <3>3. FrameTimesTypeOK'
      BY <1>0, <1>t, <2>1, <2>2, <2>3, <3>1 DEF FrameTimesTypeOK
    <3>4. \E b \in 1..captured' : PassedAt(b)'
      <4>1. PICK b \in 1..captured : PassedAt(b)
        BY <3>2 DEF FrameTimesInv
      <4>2. b \in Nat /\ b <= captured /\ b \in 1..captured'
        BY <2>1, <2>2, <4>1
      <4>3. (captured + 1 - b) * Period = captured * Period - b * Period + Period /\ b * Period \in Nat
        BY <2>2, <4>2, LaterIsLater
      <4>4. last >= b * Period - Jitter /\ last <= b * Period + Jitter
        BY <4>1 DEF PassedAt
      <4>5. (captured + 1 - b) * Period < interval
        BY <1>0, <1>t, <2>2, <2>3, <3>2, <4>3, <4>4
      <4>6. interval' = interval /\ captured' = captured + 1 /\ last' = last
        BY <2>1, <3>1
      <4>7. (captured' - b) * Period < interval'
        <5>1. captured' - b = captured + 1 - b
          BY <2>2, <4>2, <4>6
        <5> QED
          BY <4>5, <4>6, <5>1
      <4>8. PassedAt(b)'
        BY <3>2, <4>4, <4>6, <4>7 DEF PassedAt
      <4> QED
        BY <4>2, <4>8
    <3> QED
      BY <2>1, <3>1, <3>3, <3>4 DEF FrameTimesInv, TheCadenceIsKept, TheDatesAreTheCameras
  <2> QED
    BY <2>7, <2>8
<1> QED
  BY <1>1, <1>2 DEF FrameTimesNext

\* The cadence that is wanted is the one that is delivered and the dates are
\* the camera's, whatever the camera's jitter, the waits and the stalls.
THEOREM TheCameraIsFollowed == FrameTimesSpec => [](FrameTimesTypeOK /\ TheCadenceIsKept /\ TheDatesAreTheCameras)
<1>1. FrameTimesInv => FrameTimesTypeOK /\ TheCadenceIsKept /\ TheDatesAreTheCameras
  BY DEF FrameTimesInv
<1> QED
  BY <1>1, FrameTimesStarts, FrameTimesGoOn, PTL DEF FrameTimesSpec

-----------------------------------------------------------------------------
\* What is cut off a sequence in whole pieces, and what is left of it.

LEMMA DividesDown ==
  ASSUME NEW m \in Nat, NEW n \in Nat \ {0}
  PROVE  /\ m \div n \in Nat /\ (m \div n) * n \in Nat
         /\ (m \div n) * n <= m /\ m - (m \div n) * n < n
<1>1. m = (m \div n) * n + (m % n) /\ m % n \in 0..(n - 1) /\ m \div n \in Nat
  OBVIOUS
<1>2. (m \div n) * n \in Nat
  BY <1>1
<1> QED
  BY <1>1, <1>2

LEMMA PieceOf ==
  ASSUME NEW s \in Seq(Int), NEW a \in Nat, NEW b \in Nat, a <= b, b <= Len(s)
  PROVE  /\ SubSeq(s, a + 1, b) \in Seq(Int) /\ Len(SubSeq(s, a + 1, b)) = b - a
         /\ \A i \in 1..(b - a) : SubSeq(s, a + 1, b)[i] = s[a + i]
<1>1. \A i \in 1..(b - a) : s[a + i] \in Int
  OBVIOUS
<1>2. SubSeq(s, a + 1, b) = [i \in 1..(b - a) |-> s[a + i]]
  OBVIOUS
<1>3. b - a \in Nat
  OBVIOUS
<1> QED
  BY ONLY <1>1, <1>2, <1>3

LEMMA WhatIsLeft ==
  ASSUME NEW s \in Seq(Int), NEW n \in Nat \ {0}
  PROVE  /\ Left(s, n) \in Seq(Int)
         /\ Len(Left(s, n)) = Len(s) - (Len(s) \div n) * n /\ Len(Left(s, n)) < n
         /\ \A i \in 1..Len(Left(s, n)) : Left(s, n)[i] = s[(Len(s) \div n) * n + i]
<1> DEFINE a == (Len(s) \div n) * n
<1>1. a \in Nat /\ a <= Len(s) /\ Len(s) - a < n /\ Len(s) \in Nat
  BY DividesDown
<1>2. Left(s, n) = SubSeq(s, a + 1, Len(s))
  BY DEF Left
<1> HIDE DEF a
<1>3. /\ Left(s, n) \in Seq(Int) /\ Len(Left(s, n)) = Len(s) - a
      /\ \A i \in 1..(Len(s) - a) : Left(s, n)[i] = s[a + i]
  BY <1>1, <1>2, PieceOf
<1>4. Len(Left(s, n)) < n
  BY <1>1, <1>3
<1> QED
  BY <1>3, <1>4 DEF a

LEMMA WhatIsWhole ==
  ASSUME NEW s \in Seq(Int), NEW n \in Nat \ {0}
  PROVE  /\ Whole(s, n) \in Seq(Seq(Int)) /\ Len(Whole(s, n)) = Len(s) \div n
         /\ \A k \in 1..(Len(s) \div n) :
              /\ Whole(s, n)[k] \in Seq(Int) /\ Len(Whole(s, n)[k]) = n
              /\ \A j \in 1..n : (k - 1) * n + j \in 1..Len(s) /\ Whole(s, n)[k][j] = s[(k - 1) * n + j]
<1> DEFINE m == Len(s) \div n
           piece(k) == SubSeq(s, (k - 1) * n + 1, k * n)
<1>1. m \in Nat /\ m * n \in Nat /\ m * n <= Len(s) /\ Len(s) \in Nat
  <2>1. Len(s) \in Nat
    OBVIOUS
  <2> QED
    BY <2>1, DividesDown
<1>2. \A k \in 1..m :
        /\ piece(k) \in Seq(Int) /\ Len(piece(k)) = n
        /\ \A j \in 1..n : (k - 1) * n + j \in 1..Len(s) /\ piece(k)[j] = s[(k - 1) * n + j]
  <2> SUFFICES ASSUME NEW k \in 1..m
               PROVE  /\ piece(k) \in Seq(Int) /\ Len(piece(k)) = n
                      /\ \A j \in 1..n : (k - 1) * n + j \in 1..Len(s) /\ piece(k)[j] = s[(k - 1) * n + j]
    OBVIOUS
  <2> DEFINE a == (k - 1) * n
             b == k * n
  <2>1. k - 1 \in Nat /\ m - k \in Nat
    BY <1>1
  <2>2. a \in Nat /\ b \in Nat /\ (m - k) * n \in Nat
    BY <2>1
  <2>3. b = a + n /\ (m - k) * n = m * n - b
    BY <1>1, <2>1
  <2> HIDE DEF a, b, m
  <2>4. b <= Len(s) /\ a <= b /\ b - a = n
    BY <1>1, <2>2, <2>3
  <2>5. piece(k) = SubSeq(s, a + 1, b)
    BY DEF a, b
  <2> HIDE DEF piece
  <2>6. /\ piece(k) \in Seq(Int) /\ Len(piece(k)) = n /\ \A j \in 1..n : piece(k)[j] = s[a + j]
    BY <2>2, <2>4, <2>5, PieceOf
  <2>7. \A j \in 1..n : a + j \in 1..Len(s)
    BY <1>1, <2>2, <2>3, <2>4
  <2> QED
    BY <2>6, <2>7 DEF a
<1>3. Whole(s, n) = [k \in 1..m |-> piece(k)]
  BY DEF Whole
<1> HIDE DEF m, piece
<1>4. Whole(s, n) \in Seq(Seq(Int)) /\ Len(Whole(s, n)) = m
  BY <1>1, <1>2, <1>3
<1>5. \A k \in 1..m : Whole(s, n)[k] = piece(k)
  BY <1>3
<1> QED
  BY <1>2, <1>4, <1>5 DEF m

LEMMA TheSecondPart ==
  ASSUME NEW S, NEW s \in Seq(S), NEW t \in Seq(S), NEW k \in 1..Len(t)
  PROVE  (s \o t)[Len(s) + k] = t[k]
  OBVIOUS

LEMMA OneAfterAnother ==
  ASSUME NEW S, NEW s \in Seq(S), NEW t \in Seq(S)
  PROVE  /\ s \o t \in Seq(S) /\ Len(s \o t) = Len(s) + Len(t) /\ Len(s) \in Nat /\ Len(t) \in Nat
         /\ \A i \in 1..Len(s) : (s \o t)[i] = s[i]
         /\ \A i \in 1..Len(t) : (s \o t)[Len(s) + i] = t[i]
         /\ \A i \in 1..(Len(s) + Len(t)) :
              i \in 1..Len(s) \/ \E k \in 1..Len(t) : i = Len(s) + k
<1>1. Len(s) \in Nat /\ Len(t) \in Nat
  OBVIOUS
<1>2. \A i \in 1..(Len(s) + Len(t)) : i \in 1..Len(s) \/ \E k \in 1..Len(t) : i = Len(s) + k
  <2> TAKE i \in 1..(Len(s) + Len(t))
  <2>1. CASE i <= Len(s)
    BY <1>1, <2>1
  <2>2. CASE i > Len(s)
    <3>1. i - Len(s) \in 1..Len(t) /\ i = Len(s) + (i - Len(s))
      BY <1>1, <2>2
    <3> QED
      BY <3>1
  <2> QED
    BY <1>1, <2>1, <2>2
<1>3. s \o t \in Seq(S) /\ Len(s \o t) = Len(s) + Len(t)
  OBVIOUS
<1>4. \A i \in 1..Len(s) : (s \o t)[i] = s[i]
  OBVIOUS
<1>5. \A i \in 1..Len(t) : (s \o t)[Len(s) + i] = t[i]
  BY TheSecondPart
<1> QED
  BY ONLY <1>1, <1>2, <1>3, <1>4, <1>5

-----------------------------------------------------------------------------
\* Where the sound is: every sample that was handed over is in a packet or
\* waits for one, and is in an average or waits to be.

PacketsInv ==
  /\ heard \in 0..MaxSamples /\ arrivedAt \in 0..(MaxSamples + MaxLate)
  /\ mono \in Seq(Int) /\ Len(mono) < Packet
  /\ encoded \in Seq([first : Int, at : Int])
  /\ Len(encoded) * Packet + Len(mono) = heard
  /\ \A i \in 1..Len(mono) : mono[i] = Len(encoded) * Packet + i
  /\ PacketsAreTheSound

Averages == Len(levels) * LevelN + Len(levelAcc)

LevelsInv ==
  /\ carry \in Seq(Int) /\ Len(carry) < Decim
  /\ levelAcc \in Seq(Int) /\ Len(levelAcc) < LevelN
  /\ levels \in Seq(Seq(Int))
  /\ Averages * Decim + Len(carry) = heard
  /\ \A i \in 1..Len(carry) : carry[i] = Averages * Decim + i
  /\ \A j \in 1..Len(levelAcc) : levelAcc[j] = (Len(levels) * LevelN + (j - 1)) * Decim + 1
  /\ DetectionHearsTheSound

SoundInv == PacketsInv /\ LevelsInv

LEMMA SoundConstants ==
  /\ Packet \in Nat \ {0} /\ Decim \in Nat \ {0} /\ LevelN \in Nat \ {0} /\ MaxBlock \in Nat \ {0}
  /\ MaxSamples \in Nat /\ MaxLate \in Nat
  BY AudioPathAssumption

LEMMA SoundStarts ==
  AudioPathInit => SoundInv
<1> SUFFICES ASSUME AudioPathInit PROVE SoundInv
  OBVIOUS
<1>1. /\ heard = 0 /\ mono = <<>> /\ encoded = <<>> /\ carry = <<>> /\ levelAcc = <<>> /\ levels = <<>> /\ arrivedAt = 0
  BY DEF AudioPathInit
<1>2. Len(encoded) = 0 /\ Len(mono) = 0 /\ Len(carry) = 0 /\ Len(levelAcc) = 0 /\ Len(levels) = 0
  BY <1>1
<1>3. 0 * Packet = 0 /\ 0 * LevelN = 0 /\ 0 * Decim = 0
  BY SoundConstants
<1>4. PacketsInv
  BY <1>1, <1>2, <1>3, SoundConstants DEF PacketsInv, PacketsAreTheSound
<1>5. Averages = 0
  BY <1>2, <1>3 DEF Averages
<1>6. LevelsInv
  BY <1>1, <1>2, <1>3, <1>5, SoundConstants DEF LevelsInv, DetectionHearsTheSound
<1> QED
  BY <1>4, <1>6 DEF SoundInv

\* A block follows what waited without a gap.
LEMMA BlockFollows ==
  ASSUME NEW s \in Seq(Int), NEW from \in Int, NEW n \in Nat,
         \A i \in 1..Len(s) : s[i] = from + i,
         NEW t, t = s \o [i \in 1..n |-> from + Len(s) + i]
  PROVE  /\ t \in Seq(Int) /\ Len(t) = Len(s) + n
         /\ \A i \in 1..Len(t) : t[i] = from + i
<1> DEFINE block == [i \in 1..n |-> from + Len(s) + i]
<1>1. Len(s) \in Nat
  OBVIOUS
<1>2. block \in Seq(Int) /\ Len(block) = n /\ \A i \in 1..n : block[i] = from + Len(s) + i
  BY <1>1
<1> HIDE DEF block
<1>3. /\ t \in Seq(Int) /\ Len(t) = Len(s) + n
      /\ \A i \in 1..Len(s) : t[i] = s[i]
      /\ \A i \in 1..n : t[Len(s) + i] = block[i]
      /\ \A i \in 1..Len(t) : i \in 1..Len(s) \/ \E k \in 1..n : i = Len(s) + k
  <2>0. t = s \o block
    BY DEF block
  <2>1. block \in Seq(Int) /\ Len(block) = n /\ s \in Seq(Int)
    BY <1>2
  <2> HIDE DEF block
  <2>2. /\ s \o block \in Seq(Int) /\ Len(s \o block) = Len(s) + Len(block)
        /\ \A i \in 1..Len(s) : (s \o block)[i] = s[i]
        /\ \A i \in 1..Len(block) : (s \o block)[Len(s) + i] = block[i]
        /\ \A i \in 1..(Len(s) + Len(block)) : i \in 1..Len(s) \/ \E k \in 1..Len(block) : i = Len(s) + k
    <3> DEFINE Joined(b) ==
          /\ s \o b \in Seq(Int) /\ Len(s \o b) = Len(s) + Len(b)
          /\ \A i \in 1..Len(s) : (s \o b)[i] = s[i]
          /\ \A i \in 1..Len(b) : (s \o b)[Len(s) + i] = b[i]
          /\ \A i \in 1..(Len(s) + Len(b)) : i \in 1..Len(s) \/ \E k \in 1..Len(b) : i = Len(s) + k
    <3>1. \A b \in Seq(Int) : Joined(b)
      BY OneAfterAnother
    <3>2. Joined(block)
      <4> HIDE DEF Joined
      <4> QED
        BY ONLY <2>1, <3>1
    <3> QED
      BY ONLY <3>2
  <2> QED
    BY <2>0, <2>1, <2>2, Zenon
<1>4. ASSUME NEW i \in 1..Len(t) PROVE t[i] = from + i
  <2>1. CASE i \in 1..Len(s)
    BY <1>3, <2>1
  <2>2. CASE \E k \in 1..n : i = Len(s) + k
    <3>1. PICK k \in 1..n : i = Len(s) + k
      BY <2>2
    <3>2. t[i] = from + Len(s) + k
      BY <1>2, <1>3, <3>1
    <3> QED
      BY <1>1, <3>1, <3>2
  <2> QED
    BY <1>3, <2>1, <2>2
<1> QED
  BY <1>3, <1>4

\* What is left of a run is the end of it.
LEMMA LeftOfARun ==
  ASSUME NEW s \in Seq(Int), NEW n \in Nat \ {0}, NEW e \in Nat,
         \A i \in 1..Len(s) : s[i] = e * n + i
  PROVE  /\ Left(s, n) \in Seq(Int) /\ Len(Left(s, n)) < n
         /\ (e + Len(s) \div n) * n + Len(Left(s, n)) = e * n + Len(s)
         /\ \A i \in 1..Len(Left(s, n)) : Left(s, n)[i] = (e + Len(s) \div n) * n + i
<1> DEFINE d == Len(s) \div n
           rest == Left(s, n)
<1>1. /\ rest \in Seq(Int) /\ Len(rest) = Len(s) - d * n /\ Len(rest) < n
      /\ \A i \in 1..Len(rest) : rest[i] = s[d * n + i]
  BY WhatIsLeft
<1>2. Len(s) \in Nat /\ Len(rest) \in Nat
  BY <1>1
<1>3. d \in Nat /\ d * n \in Nat
  BY <1>2, DividesDown
<1>4. (e + d) * n = e * n + d * n /\ e * n \in Nat
  BY <1>3
<1> HIDE DEF d, rest
<1>5. ASSUME NEW i \in 1..Len(rest) PROVE rest[i] = (e + d) * n + i
  <2> DEFINE m == d * n
  <2>0. m \in Nat /\ Len(rest) = Len(s) - m /\ i \in 1..Len(rest)
    BY <1>1, <1>3
  <2> HIDE DEF m
  <2>1. m + i \in 1..Len(s)
    BY ONLY <1>2, <2>0
  <2> USE DEF m
  <2>2. rest[i] = e * n + (d * n + i)
    BY <1>1, <2>1
  <2> QED
    BY <1>2, <1>3, <1>4, <2>2
<1> QED
  BY <1>1, <1>2, <1>3, <1>4, <1>5 DEF d, rest

LEMMA Spread ==
  ASSUME NEW a \in Int, NEW b \in Int, NEW n \in Int
  PROVE  (a + b) * n = a * n + b * n /\ (a + b - 1) * n = a * n + (b - 1) * n
  OBVIOUS

LEMMA PacketsGoOn ==
  ASSUME PacketsInv, NEW n \in 1..MaxBlock, NEW late \in 0..MaxLate,
         heard + n <= MaxSamples, Block(n, heard + n + late)
  PROVE  PacketsInv'
<1> DEFINE queue == mono \o [i \in 1..n |-> heard + i]
           d == Len(queue) \div Packet
           cut == Whole(queue, Packet)
           e == Len(encoded)
           now == heard + n + late
           piece(k) == [first |-> cut[k][1], at |-> PacketStart(now, Len(queue), k)]
           new == [k \in DOMAIN cut |-> piece(k)]
<1>1. encoded' = encoded \o new
  BY DEF Block
<1>a. heard' = heard + n /\ arrivedAt' = now /\ mono' = Left(queue, Packet)
  BY DEF Block
<1> HIDE DEF piece
<1>2. /\ heard \in Nat /\ n \in Nat /\ n > 0 /\ late \in Nat /\ late <= MaxLate /\ Packet \in Nat \ {0}
      /\ mono \in Seq(Int) /\ Len(mono) \in Nat /\ encoded \in Seq([first : Int, at : Int]) /\ e \in Nat
      /\ e * Packet \in Nat /\ e * Packet + Len(mono) = heard
      /\ MaxSamples \in Nat /\ MaxLate \in Nat
  <2>1. encoded \in Seq([first : Int, at : Int]) /\ mono \in Seq(Int)
    BY DEF PacketsInv
  <2>2. Len(encoded) \in Nat /\ Len(mono) \in Nat
    BY <2>1
  <2>3. e * Packet \in Nat
    BY <2>2, SoundConstants
  <2> QED
    BY <2>1, <2>2, <2>3, SoundConstants DEF PacketsInv
<1> HIDE DEF e
<1>3. /\ queue \in Seq(Int) /\ Len(queue) = Len(mono) + n
      /\ \A i \in 1..Len(queue) : queue[i] = e * Packet + i
  <2>1. queue = mono \o [i \in 1..n |-> e * Packet + Len(mono) + i]
    BY <1>2
  <2>2. \A i \in 1..Len(mono) : mono[i] = e * Packet + i
    BY DEF PacketsInv, e
  <2>3. e * Packet \in Int /\ mono \in Seq(Int) /\ n \in Nat
    BY <1>2
  <2> HIDE DEF queue
  <2> DEFINE from == e * Packet
  <2> HIDE DEF from
  <2>4. /\ from \in Int /\ queue = mono \o [i \in 1..n |-> from + Len(mono) + i]
        /\ \A i \in 1..Len(mono) : mono[i] = from + i
    BY <2>1, <2>2, <2>3 DEF from
  <2>5. /\ queue \in Seq(Int) /\ Len(queue) = Len(mono) + n
        /\ \A i \in 1..Len(queue) : queue[i] = from + i
    BY <2>3, <2>4, BlockFollows
  <2> QED
    BY <2>5 DEF from
<1> HIDE DEF queue
<1>4. /\ mono' \in Seq(Int) /\ Len(mono') < Packet
      /\ (e + d) * Packet + Len(mono') = e * Packet + Len(queue)
      /\ \A i \in 1..Len(mono') : mono'[i] = (e + d) * Packet + i
  <2>1. mono' = Left(queue, Packet)
    BY <1>a
  <2>2. e \in Nat /\ Packet \in Nat \ {0}
    BY <1>2
  <2> QED
    BY <1>3, <2>1, <2>2, LeftOfARun
<1>5. /\ d \in Nat /\ Len(cut) = d /\ DOMAIN cut = 1..d
      /\ \A k \in 1..d : (k - 1) * Packet + 1 \in 1..Len(queue) /\ cut[k][1] = queue[(k - 1) * Packet + 1]
  <2>1. Len(queue) \in Nat /\ 1 \in 1..Packet
    BY <1>2, <1>3
  <2>2. d \in Nat
    BY <1>2, <2>1, DividesDown
  <2>3. cut \in Seq(Seq(Int)) /\ Len(cut) = d
    BY <1>2, <1>3, WhatIsWhole
  <2>4. \A k \in 1..d : \A j \in 1..Packet : (k - 1) * Packet + j \in 1..Len(queue) /\ cut[k][j] = queue[(k - 1) * Packet + j]
    BY <1>2, <1>3, WhatIsWhole
  <2> QED
    BY <2>1, <2>2, <2>3, <2>4
<1> HIDE DEF d, cut
<1>6. ASSUME NEW k \in 1..d
      PROVE  /\ new[k].first = (e + k - 1) * Packet + 1 /\ new[k].first \in Int /\ new[k].at \in Int
             /\ new[k].at = new[k].first - 1 + late
             /\ new[k] \in [first : Int, at : Int]
  <2>0. k \in Nat /\ k - 1 \in Nat /\ e \in Int /\ Packet \in Nat
    <3>1. d \in Nat
      BY <1>5
    <3>2. e \in Nat /\ Packet \in Nat
      BY <1>2
    <3> QED
      BY ONLY <3>1, <3>2, k \in 1..d
  <2>1. (k - 1) * Packet \in Nat /\ (e + k - 1) * Packet = e * Packet + (k - 1) * Packet
    BY <2>0, Spread
  <2>2. new[k] = [first |-> cut[k][1], at |-> PacketStart(now, Len(queue), k)]
    BY <1>5 DEF piece
  <2>3. cut[k][1] = e * Packet + ((k - 1) * Packet + 1)
    BY <1>3, <1>5
  <2>4. PacketStart(now, Len(queue), k) = (heard + n + late) - ((Len(mono) + n) - (k - 1) * Packet)
    BY <1>3 DEF PacketStart
  <2>5. PacketStart(now, Len(queue), k) = e * Packet + (k - 1) * Packet + late
    <3> DEFINE sent == e * Packet
               ahead == (k - 1) * Packet
    <3>1. /\ heard \in Nat /\ n \in Nat /\ late \in Nat /\ Len(mono) \in Nat /\ sent \in Nat
          /\ sent + Len(mono) = heard /\ ahead \in Nat
      BY <1>2, <2>1
    <3>2. PacketStart(now, Len(queue), k) = (heard + n + late) - ((Len(mono) + n) - ahead)
      BY <2>4
    <3> HIDE DEF sent, ahead
    <3>3. PacketStart(now, Len(queue), k) = sent + ahead + late
      BY ONLY <3>1, <3>2
    <3> QED
      BY <3>3 DEF sent, ahead
  <2> HIDE DEF new, now
  <2> QED
    BY <1>2, <2>1, <2>2, <2>3, <2>5
<1>7. new \in Seq([first : Int, at : Int]) /\ Len(new) = d /\ DOMAIN new = 1..d
  <2>1. new = [k \in 1..d |-> piece(k)]
    BY <1>5
  <2>2. \A k \in 1..d : piece(k) \in [first : Int, at : Int]
    <3>1. \A k \in 1..d : new[k] = piece(k)
      BY <2>1
    <3> HIDE DEF new
    <3> QED
      BY <1>6, <3>1
  <2>3. d \in Nat
    BY <1>5
  <2> HIDE DEF new
  <2> QED
    BY <2>1, <2>2, <2>3
<1> HIDE DEF new
<1>8. /\ encoded' \in Seq([first : Int, at : Int]) /\ Len(encoded') = e + d
      /\ \A i \in 1..e : encoded'[i] = encoded[i]
      /\ \A k \in 1..d : encoded'[e + k] = new[k]
      /\ \A i \in 1..(e + d) : i \in 1..e \/ \E k \in 1..d : i = e + k
  <2> DEFINE R == [first : Int, at : Int]
             both == encoded \o new
  <2> HIDE DEF R
  <2>1. encoded \in Seq(R) /\ new \in Seq(R) /\ Len(encoded) = e /\ Len(new) = d
    BY <1>2, <1>7 DEF R, e
  <2>2. both \in Seq(R) /\ Len(both) = e + d /\ \A i \in 1..e : both[i] = encoded[i]
    BY <2>1, OneAfterAnother
  <2>3. \A k \in 1..d : both[e + k] = new[k]
    <3>1. ASSUME NEW k \in 1..Len(new) PROVE (encoded \o new)[Len(encoded) + k] = new[k]
      BY <2>1, TheSecondPart
    <3> QED
      BY <2>1, <3>1
  <2>4. \A i \in 1..(e + d) : i \in 1..e \/ \E k \in 1..d : i = e + k
    BY <1>2, <1>7, <2>1, OneAfterAnother
  <2>5. encoded' = both
    BY <1>1
  <2> HIDE DEF both
  <2> QED
    BY <2>2, <2>3, <2>4, <2>5 DEF R
<1>9. PacketsAreTheSound'
  <2> SUFFICES ASSUME NEW i \in 1..(e + d)
               PROVE  /\ encoded'[i].first = (i - 1) * Packet + 1
                      /\ encoded'[i].at >= encoded'[i].first - 1 /\ encoded'[i].at <= encoded'[i].first - 1 + MaxLate
    BY <1>8 DEF PacketsAreTheSound
  <2>1. CASE i \in 1..e
    <3>1. i \in DOMAIN encoded
      BY <1>2, <2>1 DEF e
    <3>2. /\ encoded[i].first = (i - 1) * Packet + 1
          /\ encoded[i].at >= encoded[i].first - 1 /\ encoded[i].at <= encoded[i].first - 1 + MaxLate
      BY <3>1 DEF PacketsInv, PacketsAreTheSound
    <3>3. encoded'[i] = encoded[i]
      BY <1>8, <2>1
    <3> QED
      BY ONLY <3>2, <3>3
  <2>2. CASE \E k \in 1..d : i = e + k
    <3>1. PICK k \in 1..d : i = e + k
      BY <2>2
    <3>2. encoded'[i] = new[k] /\ i - 1 = e + k - 1
      BY <1>2, <1>5, <1>8, <3>1
    <3>3. /\ new[k].first = (e + k - 1) * Packet + 1 /\ new[k].first \in Int
          /\ new[k].at = new[k].first - 1 + late
      BY <1>6
    <3>4. late \in Nat /\ MaxLate \in Nat /\ late <= MaxLate
      BY <1>2
    <3> QED
      BY ONLY <3>2, <3>3, <3>4
  <2> QED
    BY <1>8, <2>1, <2>2
<1> QED
  <2>1. (e + d) * Packet + Len(mono') = heard'
    <3>1. /\ heard \in Nat /\ n \in Nat /\ Len(mono) \in Nat /\ e * Packet \in Nat
          /\ e * Packet + Len(mono) = heard /\ Len(queue) = Len(mono) + n /\ heard' = heard + n
          /\ (e + d) * Packet + Len(mono') = e * Packet + Len(queue)
      BY <1>2, <1>3, <1>4, <1>a
    <3> QED
      BY ONLY <3>1
  <2>2. heard' \in 0..MaxSamples /\ arrivedAt' \in 0..(MaxSamples + MaxLate)
    BY <1>a, <1>2
  <2> QED
    BY <1>4, <1>8, <1>9, <2>1, <2>2 DEF PacketsInv

LEMMA LevelsGoOn ==
  ASSUME LevelsInv, heard \in Nat, NEW n \in 1..MaxBlock, NEW now, Block(n, now)
  PROVE  LevelsInv'
<1> DEFINE averaged == carry \o [i \in 1..n |-> heard + i]
           d == Len(averaged) \div Decim
           more == [k \in 1..d |-> averaged[(k - 1) * Decim + 1]]
           acc == levelAcc \o more
           w == Len(acc) \div LevelN
           cut == Whole(acc, LevelN)
           l == Len(levels)
           L == l * LevelN
           A == Averages
<1>1. /\ heard' = heard + n /\ carry' = Left(averaged, Decim)
      /\ levels' = levels \o cut /\ levelAcc' = Left(acc, LevelN)
  BY DEF Block, CarriedOver
<1>2. /\ n \in Nat /\ n > 0 /\ Decim \in Nat \ {0} /\ LevelN \in Nat \ {0}
      /\ carry \in Seq(Int) /\ Len(carry) \in Nat /\ levelAcc \in Seq(Int) /\ Len(levelAcc) \in Nat
      /\ levels \in Seq(Seq(Int)) /\ l \in Nat /\ L \in Nat /\ A \in Nat /\ A * Decim \in Nat
      /\ A = L + Len(levelAcc) /\ A * Decim + Len(carry) = heard
  <2>1. carry \in Seq(Int) /\ levelAcc \in Seq(Int) /\ levels \in Seq(Seq(Int)) /\ A * Decim + Len(carry) = heard
    BY DEF LevelsInv
  <2>2. Len(carry) \in Nat /\ Len(levelAcc) \in Nat /\ Len(levels) \in Nat
    BY <2>1
  <2>3. L \in Nat
    BY <2>2, SoundConstants
  <2>4. A = L + Len(levelAcc) /\ A \in Nat
    BY <2>2, <2>3 DEF Averages
  <2>5. A * Decim \in Nat
    BY <2>4, SoundConstants
  <2> QED
    BY <2>1, <2>2, <2>3, <2>4, <2>5, SoundConstants
<1> HIDE DEF l, L, A
<1>3. /\ averaged \in Seq(Int) /\ Len(averaged) = Len(carry) + n
      /\ \A i \in 1..Len(averaged) : averaged[i] = A * Decim + i
  <2> DEFINE from == A * Decim
  <2> HIDE DEF from
  <2>1. from \in Int /\ carry \in Seq(Int) /\ n \in Nat /\ from + Len(carry) = heard
    BY <1>2 DEF from
  <2>2. averaged = carry \o [i \in 1..n |-> from + Len(carry) + i]
    BY <2>1
  <2>3. \A i \in 1..Len(carry) : carry[i] = from + i
    BY DEF LevelsInv, from, A
  <2> HIDE DEF averaged
  <2>4. /\ averaged \in Seq(Int) /\ Len(averaged) = Len(carry) + n
        /\ \A i \in 1..Len(averaged) : averaged[i] = from + i
    BY <2>1, <2>2, <2>3, BlockFollows
  <2> QED
    BY <2>4 DEF from
<1> HIDE DEF averaged
<1>4. /\ carry' \in Seq(Int) /\ Len(carry') < Decim
      /\ (A + d) * Decim + Len(carry') = A * Decim + Len(averaged)
      /\ \A i \in 1..Len(carry') : carry'[i] = (A + d) * Decim + i
  <2>1. carry' = Left(averaged, Decim) /\ A \in Nat /\ Decim \in Nat \ {0}
    BY <1>1, <1>2
  <2> QED
    BY <1>3, <2>1, LeftOfARun
<1>5. d \in Nat
  <2>1. Len(averaged) \in Nat
    BY <1>3
  <2> QED
    BY <1>2, <2>1, DividesDown
<1>6. ASSUME NEW k \in 1..d
      PROVE  averaged[(k - 1) * Decim + 1] = (A + k - 1) * Decim + 1 /\ averaged[(k - 1) * Decim + 1] \in Int
  <2>1. \A j \in 1..Decim : (k - 1) * Decim + j \in 1..Len(averaged)
    BY <1>2, <1>3, WhatIsWhole
  <2>2. 1 \in 1..Decim
    BY <1>2
  <2>3. (k - 1) * Decim + 1 \in 1..Len(averaged)
    BY <2>1, <2>2
  <2>4. averaged[(k - 1) * Decim + 1] = A * Decim + ((k - 1) * Decim + 1)
    BY <1>3, <2>3
  <2>5. k \in Int /\ A \in Int /\ Decim \in Int
    BY <1>2, <1>5
  <2>6. (A + k - 1) * Decim = A * Decim + (k - 1) * Decim
    BY <2>5, Spread
  <2>7. A * Decim \in Int /\ (k - 1) * Decim \in Int
    BY <2>5
  <2> QED
    BY ONLY <2>4, <2>6, <2>7
<1> HIDE DEF d
<1>7. more \in Seq(Int) /\ Len(more) = d /\ \A k \in 1..d : more[k] = (A + k - 1) * Decim + 1
  BY <1>5, <1>6
<1> HIDE DEF more
<1>8. acc \in Seq(Int) /\ Len(acc) = Len(levelAcc) + d
  <2>1. levelAcc \in Seq(Int) /\ more \in Seq(Int) /\ Len(more) = d
    BY <1>2, <1>7
  <2> QED
    BY ONLY <2>1, OneAfterAnother
<1>9. \A j \in 1..Len(acc) : acc[j] = (L + (j - 1)) * Decim + 1
  <2>1. ASSUME NEW j \in 1..Len(levelAcc) PROVE acc[j] = (L + (j - 1)) * Decim + 1
    <3>1. acc[j] = levelAcc[j]
      BY <1>2, <1>7, OneAfterAnother
    <3> QED
      BY <3>1 DEF LevelsInv, L, l
  <2>2. ASSUME NEW k \in 1..d PROVE acc[Len(levelAcc) + k] = (L + (Len(levelAcc) + k - 1)) * Decim + 1
    <3>1. acc[Len(levelAcc) + k] = more[k]
      BY <1>2, <1>7, TheSecondPart
    <3>2. A + k - 1 = L + (Len(levelAcc) + k - 1)
      BY <1>2, <1>5
    <3> QED
      BY <1>7, <3>1, <3>2
  <2>3. \A j \in 1..(Len(levelAcc) + d) : j \in 1..Len(levelAcc) \/ \E k \in 1..d : j = Len(levelAcc) + k
    <3>1. levelAcc \in Seq(Int) /\ more \in Seq(Int) /\ Len(more) = d
      BY <1>2, <1>7
    <3> QED
      BY <3>1, OneAfterAnother
  <2> HIDE DEF acc
  <2>4. Len(levelAcc) \in Nat /\ d \in Nat
    BY <1>2, <1>5
  <2> SUFFICES ASSUME NEW j \in 1..(Len(levelAcc) + d) PROVE acc[j] = (L + (j - 1)) * Decim + 1
    BY <1>8
  <2>5. CASE j \in 1..Len(levelAcc)
    BY <2>1, <2>5
  <2>6. CASE \E k \in 1..d : j = Len(levelAcc) + k
    <3>1. PICK k \in 1..d : j = Len(levelAcc) + k
      BY <2>6
    <3>2. j - 1 = Len(levelAcc) + k - 1
      BY <2>4, <3>1
    <3> QED
      BY <2>2, <3>1, <3>2
  <2> QED
    BY <2>3, <2>5, <2>6
<1> HIDE DEF acc
<1>10. Len(acc) \in Nat /\ w \in Nat /\ w * LevelN \in Nat
  <2>1. Len(acc) \in Nat
    BY <1>8
  <2> QED
    BY <1>2, <2>1, DividesDown
<1>11. /\ levelAcc' \in Seq(Int) /\ Len(levelAcc') = Len(acc) - w * LevelN /\ Len(levelAcc') < LevelN
       /\ \A i \in 1..Len(levelAcc') : levelAcc'[i] = acc[w * LevelN + i]
  <2>1. levelAcc' = Left(acc, LevelN) /\ LevelN \in Nat \ {0}
    BY <1>1, <1>2
  <2>2. acc \in Seq(Int)
    BY <1>8
  <2> QED
    BY ONLY <2>1, <2>2, WhatIsLeft
<1>c. acc \in Seq(Int) /\ LevelN \in Nat \ {0}
  BY <1>2, <1>8
<1>12. /\ cut \in Seq(Seq(Int)) /\ Len(cut) = w
       /\ \A k \in 1..w : cut[k] \in Seq(Int) /\ Len(cut[k]) = LevelN
  BY ONLY <1>c, WhatIsWhole
<1>13. \A k \in 1..w : \A j \in 1..LevelN : (k - 1) * LevelN + j \in 1..Len(acc) /\ cut[k][j] = acc[(k - 1) * LevelN + j]
  BY ONLY <1>c, WhatIsWhole
<1> HIDE DEF cut, w
<1>14. /\ levels' \in Seq(Seq(Int)) /\ Len(levels') = l + w
       /\ \A i \in 1..l : levels'[i] = levels[i]
  <2>1. levels \in Seq(Seq(Int)) /\ cut \in Seq(Seq(Int))
    BY <1>2, <1>12
  <2>2. /\ levels \o cut \in Seq(Seq(Int)) /\ Len(levels \o cut) = Len(levels) + Len(cut)
        /\ \A i \in 1..Len(levels) : (levels \o cut)[i] = levels[i]
    BY ONLY <2>1, OneAfterAnother
  <2> QED
    BY <1>1, <1>12, <2>2 DEF l
<1>15. \A k \in 1..w : levels'[l + k] = cut[k]
  <2> SUFFICES ASSUME NEW k \in 1..w PROVE levels'[l + k] = cut[k]
    OBVIOUS
  <2>1. (levels \o cut)[Len(levels) + k] = cut[k]
    BY <1>2, <1>12, TheSecondPart
  <2> QED
    BY <1>1, <2>1 DEF l
<1>16. \A i \in 1..(l + w) : i \in 1..l \/ \E k \in 1..w : i = l + k
  <2>1. levels \in Seq(Seq(Int)) /\ cut \in Seq(Seq(Int))
    BY <1>2, <1>12
  <2>2. \A i \in 1..(Len(levels) + Len(cut)) : i \in 1..Len(levels) \/ \E k \in 1..Len(cut) : i = Len(levels) + k
    BY ONLY <2>1, OneAfterAnother
  <2> QED
    BY <1>12, <2>2 DEF l
<1>17. (l + w) * LevelN = L + w * LevelN
  BY <1>2, <1>10, Spread DEF L
<1>18. Averages' = A + d
  <2>1. Averages' = (l + w) * LevelN + Len(levelAcc')
    BY <1>14 DEF Averages
  <2>2. L \in Nat /\ Len(levelAcc) \in Nat /\ d \in Nat /\ w * LevelN \in Nat /\ A = L + Len(levelAcc)
    BY <1>2, <1>5, <1>10
  <2> QED
    BY <1>8, <1>11, <1>17, <2>1, <2>2
<1>19. \A j \in 1..Len(levelAcc') : levelAcc'[j] = (Len(levels') * LevelN + (j - 1)) * Decim + 1
  <2> SUFFICES ASSUME NEW j \in 1..Len(levelAcc') PROVE levelAcc'[j] = (Len(levels') * LevelN + (j - 1)) * Decim + 1
    OBVIOUS
  <2>1. Len(levelAcc') \in Nat /\ j \in Nat /\ j >= 1 /\ j <= Len(levelAcc') /\ L \in Nat
    BY <1>2, <1>11
  <2>2. w * LevelN + j \in 1..Len(acc)
    BY <1>10, <1>11, <2>1
  <2>3. levelAcc'[j] = (L + (w * LevelN + j - 1)) * Decim + 1
    <3> DEFINE x == w * LevelN + j
    <3>1. x \in 1..Len(acc) /\ levelAcc'[j] = acc[x]
      BY <1>11, <2>2
    <3> HIDE DEF x
    <3>2. acc[x] = (L + (x - 1)) * Decim + 1
      BY <1>9, <3>1
    <3>3. x = w * LevelN + j
      BY DEF x
    <3>4. L \in Int /\ w * LevelN \in Int /\ j \in Int
      BY <1>10, <2>1
    <3>5. L + (x - 1) = L + (w * LevelN + j - 1)
      BY ONLY <3>3, <3>4
    <3> QED
      BY ONLY <3>1, <3>2, <3>5
  <2>4. L + (w * LevelN + j - 1) = Len(levels') * LevelN + (j - 1)
    BY <1>10, <1>14, <1>17, <2>1
  <2> QED
    BY <2>3, <2>4
<1>20. DetectionHearsTheSound'
  <2> SUFFICES ASSUME NEW i \in 1..(l + w)
               PROVE  levels'[i] = [k \in 1..LevelN |-> ((i - 1) * LevelN + (k - 1)) * Decim + 1]
    BY <1>14 DEF DetectionHearsTheSound
  <2>1. CASE i \in 1..l
    <3>1. i \in DOMAIN levels
      BY <1>2, <2>1 DEF l
    <3> QED
      BY <1>14, <2>1, <3>1 DEF LevelsInv, DetectionHearsTheSound
  <2>2. CASE \E k \in 1..w : i = l + k
    <3>1. PICK k \in 1..w : i = l + k
      BY <2>2
    <3>2. levels'[i] = cut[k] /\ cut[k] \in Seq(Int) /\ Len(cut[k]) = LevelN
      BY <1>12, <1>15, <3>1
    <3>3. k \in Int /\ l \in Int /\ LevelN \in Int
      BY <1>2, <1>10
    <3>4. (i - 1) * LevelN = L + (k - 1) * LevelN /\ (k - 1) * LevelN \in Int
      BY <3>1, <3>3, Spread DEF L
    <3>5. ASSUME NEW j \in 1..LevelN PROVE cut[k][j] = ((i - 1) * LevelN + (j - 1)) * Decim + 1
      <4>1. cut[k][j] = acc[(k - 1) * LevelN + j] /\ (k - 1) * LevelN + j \in 1..Len(acc)
        BY <1>13
      <4>2. cut[k][j] = (L + ((k - 1) * LevelN + j - 1)) * Decim + 1
        <5> DEFINE x == (k - 1) * LevelN + j
        <5>1. x \in 1..Len(acc)
          BY <4>1
        <5> HIDE DEF x
        <5>2. acc[x] = (L + (x - 1)) * Decim + 1
          BY <1>9, <5>1
        <5>3. cut[k][j] = acc[x] /\ x = (k - 1) * LevelN + j
          BY <4>1 DEF x
        <5>4. L \in Int /\ (k - 1) * LevelN \in Int /\ j \in Int
          BY <1>2, <3>3
        <5>5. L + (x - 1) = L + ((k - 1) * LevelN + j - 1)
          BY ONLY <5>3, <5>4
        <5> QED
          BY ONLY <5>2, <5>3, <5>5
      <4>3. j \in Int /\ L \in Int
        BY <1>2
      <4>4. L + ((k - 1) * LevelN + j - 1) = (i - 1) * LevelN + (j - 1)
        BY <3>4, <4>3
      <4> QED
        BY <4>2, <4>4
    <3>6. cut[k] = [j \in 1..LevelN |-> cut[k][j]]
      BY <3>2
    <3> QED
      BY <3>2, <3>5, <3>6
  <2> QED
    BY <1>16, <2>1, <2>2
<1>21. Averages' * Decim + Len(carry') = heard'
  <2>1. Len(carry) \in Nat /\ A * Decim \in Nat /\ A * Decim + Len(carry) = heard /\ n \in Nat
    BY <1>2
  <2> QED
    <3>1. (A + d) * Decim + Len(carry') = A * Decim + Len(averaged) /\ Len(averaged) = Len(carry) + n
      BY <1>3, <1>4
    <3>2. heard' = heard + n
      BY <1>1
    <3> QED
      BY ONLY <1>18, <2>1, <3>1, <3>2
<1> QED
  BY <1>4, <1>11, <1>14, <1>18, <1>19, <1>20, <1>21 DEF LevelsInv

LEMMA SoundGoesOn ==
  SoundInv /\ [AudioPathNext]_audioPathVars => SoundInv'
<1> SUFFICES ASSUME SoundInv, [AudioPathNext]_audioPathVars PROVE SoundInv'
  OBVIOUS
<1>1. CASE UNCHANGED audioPathVars
  BY <1>1 DEF audioPathVars, SoundInv, PacketsInv, LevelsInv, Averages, PacketsAreTheSound, DetectionHearsTheSound
<1>2. CASE HandsOver
  <2>1. PICK n \in 1..MaxBlock, late \in 0..MaxLate :
          heard + n <= MaxSamples /\ Block(n, heard + n + late)
    BY <1>2 DEF HandsOver
  <2>2. heard \in Nat
    BY SoundConstants DEF SoundInv, PacketsInv
  <2>3. PacketsInv'
    BY <2>1, PacketsGoOn DEF SoundInv
  <2>4. LevelsInv'
    BY <2>1, <2>2, LevelsGoOn DEF SoundInv
  <2> QED
    BY <2>3, <2>4 DEF SoundInv
<1> QED
  BY <1>1, <1>2 DEF AudioPathNext

LEMMA SoundIsTyped ==
  SoundInv => AudioPathTypeOK
<1> SUFFICES ASSUME SoundInv PROVE AudioPathTypeOK
  OBVIOUS
<1>1. ASSUME NEW i \in DOMAIN encoded PROVE encoded[i].first \in 1..MaxSamples
  <2>1. encoded \in Seq([first : Int, at : Int]) /\ mono \in Seq(Int)
    BY DEF SoundInv, PacketsInv
  <2>2. /\ Len(encoded) \in Nat /\ i \in 1..Len(encoded) /\ Len(mono) \in Nat
        /\ Packet \in Nat /\ Packet > 0
    BY <2>1, SoundConstants
  <2>3. encoded[i].first = (i - 1) * Packet + 1
    BY DEF SoundInv, PacketsInv, PacketsAreTheSound
  <2>4. (i - 1) * Packet \in Nat /\ (Len(encoded) - i) * Packet \in Nat
    <3>1. i - 1 \in Nat /\ Len(encoded) - i \in Nat /\ Packet \in Nat
      BY <2>2
    <3>2. \A a, b \in Nat : a * b \in Nat
      OBVIOUS
    <3> QED
      BY ONLY <3>1, <3>2
  <2>5. Len(encoded) * Packet = (i - 1) * Packet + Packet + (Len(encoded) - i) * Packet
    BY <2>2
  <2>6. Len(encoded) * Packet + Len(mono) = heard /\ heard <= MaxSamples
    BY SoundConstants DEF SoundInv, PacketsInv
  <2> QED
    <3>1. encoded[i].first \in Int /\ encoded[i].first >= 1
      BY ONLY <2>3, <2>4
    <3>2. Len(mono) \in Nat /\ Packet \in Nat /\ Packet > 0 /\ MaxSamples \in Nat
      BY <2>2, SoundConstants
    <3>3. encoded[i].first <= MaxSamples
      BY ONLY <2>3, <2>4, <2>5, <2>6, <3>2
    <3> QED
      BY <3>1, <3>2, <3>3
<1> QED
  BY <1>1 DEF SoundInv, PacketsInv, LevelsInv, AudioPathTypeOK

\* No sample is lost or heard twice and none is dated wrongly, in the packets
\* as in what detection hears, whatever blocks the driver cuts the sound into.
THEOREM TheSoundIsWhole == AudioPathSpec => [](AudioPathTypeOK /\ PacketsAreTheSound /\ DetectionHearsTheSound)
<1>1. SoundInv => AudioPathTypeOK /\ PacketsAreTheSound /\ DetectionHearsTheSound
  BY SoundIsTyped DEF SoundInv, PacketsInv, LevelsInv
<1> QED
  BY <1>1, SoundStarts, SoundGoesOn, PTL DEF AudioPathSpec

-----------------------------------------------------------------------------
\* The percentile of a window: the least reading that enough are not above.

LEMMA LeastOf ==
  ASSUME NEW T \in SUBSET Nat, T # {}
  PROVE  \E x \in T : \A y \in T : x <= y
<1> DEFINE R == OpToRel(<, Nat)
<1>1. IsWellFoundedOn(R, Nat)
  BY NatLessThanWellFounded
<1>2. PICK x \in T : \A y \in T : <<y, x>> \notin R
  <2> HIDE DEF R
  <2> QED
    BY <1>1, WFMin
<1>3. \A y \in T : ~(y < x)
  BY <1>2 DEF OpToRel
<1> QED
  BY <1>3

Under(s, q) == {i \in DOMAIN s : s[i] <= q /\ s[i] > 0}
Above(s, q) == {i \in DOMAIN s : s[i] > q}

LEMMA ThresholdIsMost ==
  ASSUME NEW n \in Nat \ {0}
  PROVE  Threshold(n) \in 1..n /\ 10 * Threshold(n) >= 9 * n
<1>1. Threshold(n) = ((n * 90) + 99) \div 100
  BY DEF Threshold
<1> QED
  BY <1>1

LEMMA PlacesOf ==
  ASSUME NEW S, NEW s \in Seq(S)
  PROVE  Len(s) \in Nat /\ DOMAIN s = 1..Len(s) /\ \A i \in 1..Len(s) : s[i] \in S
  OBVIOUS

LEMMA Between ==
  ASSUME NEW r \in 1..51
  PROVE  r \in Int /\ r > 0 /\ r <= 51
  OBVIOUS

LEMMA UpTo ==
  ASSUME NEW n \in Nat
  PROVE  IsFiniteSet(1..n) /\ Cardinality(1..n) = n
<1>1. /\ IsFiniteSet(1..n) /\ Cardinality(1..n) = IF 1 > n THEN 0 ELSE n - 1 + 1
  BY FS_Interval
<1> QED
  BY <1>1

LEMMA UnderAndAbove ==
  ASSUME NEW s \in Seq(1..51), NEW q \in Int
  PROVE  /\ Cardinality(Under(s, q)) \in Nat /\ Cardinality(Above(s, q)) \in Nat
         /\ Cardinality(Under(s, q)) + Cardinality(Above(s, q)) = Len(s)
<1> DEFINE D == DOMAIN s
           U == Under(s, q)
           A == Above(s, q)
<1>1. Len(s) \in Nat /\ D = 1..Len(s) /\ \A i \in D : s[i] \in 1..51
  BY PlacesOf, Zenon
<1>2. IsFiniteSet(D) /\ Cardinality(D) = Len(s)
  BY <1>1, UpTo, Zenon
<1>3. A = D \ U /\ A \subseteq D /\ U \subseteq D /\ D \cap U = U
  <2>1. ASSUME NEW i \in D PROVE (s[i] <= q /\ s[i] > 0) <=> ~(s[i] > q)
    <3>1. s[i] \in Int /\ s[i] > 0
      BY <1>1, Between, Zenon
    <3> HIDE DEF D
    <3> QED
      BY <3>1
  <2> QED
    BY <2>1, Zenon DEF Under, Above
<1> HIDE DEF D, U, A
<1>4. IsFiniteSet(U) /\ IsFiniteSet(A)
  BY <1>2, <1>3, FS_Subset
<1>5. Cardinality(U) \in Nat /\ Cardinality(A) \in Nat
  BY <1>4, FS_CardinalityType
<1>6. Cardinality(A) = Cardinality(D) - Cardinality(D \cap U)
  BY <1>2, <1>3, FS_Difference
<1>7. Cardinality(A) = Len(s) - Cardinality(U)
  BY <1>2, <1>3, <1>6
<1> QED
  BY <1>1, <1>5, <1>7 DEF U, A

LEMMA PercentileIsTheTail ==
  ASSUME NEW s \in Seq(1..51), s # <<>>
  PROVE  /\ Percentile(s) \in 1..51
         /\ \E i \in DOMAIN s : s[i] = Percentile(s)
         /\ 10 * Cardinality(Above(s, Percentile(s))) <= Len(s)
<1> DEFINE n == Len(s)
           enough == {q \in 1..51 : Cardinality(Under(s, q)) >= Threshold(n)}
           p == Percentile(s)
<1>1. n \in Nat \ {0} /\ DOMAIN s = 1..n /\ \A i \in DOMAIN s : s[i] \in 1..51
  <2>1. Len(s) \in Nat /\ DOMAIN s = 1..Len(s) /\ \A i \in 1..Len(s) : s[i] \in 1..51
    BY PlacesOf, Zenon
  <2>2. Len(s) # 0
    OBVIOUS
  <2> QED
    BY <2>1, <2>2, Zenon
<1>a. \A i \in DOMAIN s : s[i] \in Int /\ s[i] > 0 /\ s[i] <= 51
  BY <1>1, Between, Zenon
<1>2. Threshold(n) \in 1..n /\ 10 * Threshold(n) >= 9 * n
  BY <1>1, ThresholdIsMost
<1>3. p = IF enough = {} THEN 0 ELSE CHOOSE q \in enough : \A r \in enough : q <= r
  BY DEF Percentile, Under
<1>4. 51 \in enough
  <2>1. Above(s, 51) = {}
    BY <1>a DEF Above
  <2>2. Cardinality(Under(s, 51)) = n
    <3>1. Cardinality(Above(s, 51)) = 0
      BY <2>1, FS_EmptySet
    <3>2. Cardinality(Under(s, 51)) \in Nat /\ Cardinality(Under(s, 51)) + Cardinality(Above(s, 51)) = n
      <4>1. 51 \in Int
        OBVIOUS
      <4> QED
        BY <4>1, UnderAndAbove, Zenon
    <3> QED
      BY <3>1, <3>2
  <2> QED
    BY <1>1, <1>2, <2>2
<1>5. p \in enough /\ \A r \in enough : p <= r
  <2>1. \E q \in enough : \A r \in enough : q <= r
    <3>1. enough \in SUBSET Nat /\ enough # {}
      <4>1. enough \subseteq 1..51
        OBVIOUS
      <4> HIDE DEF enough
      <4> QED
        BY <1>4, <4>1
    <3> HIDE DEF enough
    <3> QED
      BY <3>1, LeastOf
  <2> HIDE DEF enough, p
  <2> QED
    BY <1>3, <1>4, <2>1
<1> HIDE DEF p, n
<1>6. p \in 1..51 /\ Cardinality(Under(s, p)) >= Threshold(n)
  BY <1>5
<1>7. \E i \in DOMAIN s : s[i] = p
  <2> SUFFICES ASSUME \A i \in DOMAIN s : s[i] # p PROVE FALSE
    OBVIOUS
  <2>1. Under(s, p) = Under(s, p - 1)
    <3>1. p \in Int
      BY <1>6
    <3>2. \A i \in DOMAIN s : (s[i] <= p) <=> (s[i] <= p - 1)
      BY <1>a, <3>1
    <3> QED
      BY <3>2, Zenon DEF Under
  <2>2. CASE p = 1
    <3>1. Under(s, 0) = {}
      <4>1. \A i \in DOMAIN s : ~(s[i] <= 0)
        BY <1>a
      <4> QED
        BY <4>1, Zenon DEF Under
    <3>2. Cardinality(Under(s, p)) = 0
      <4>1. Under(s, p) = {}
        BY <2>1, <2>2, <3>1
      <4> QED
        BY <4>1, FS_EmptySet
    <3> QED
      BY <1>1, <1>2, <1>6, <3>2
  <2>3. CASE p # 1
    <3>1. p - 1 \in 1..51 /\ p - 1 < p
      BY <1>6, <2>3
    <3>2. p - 1 \in enough
      BY <1>6, <2>1, <3>1
    <3> QED
      BY <1>5, <1>6, <3>1, <3>2
  <2> QED
    BY <2>2, <2>3
<1>8. 10 * Cardinality(Above(s, p)) <= n
  <2>1. /\ Cardinality(Under(s, p)) \in Nat /\ Cardinality(Above(s, p)) \in Nat
        /\ Cardinality(Under(s, p)) + Cardinality(Above(s, p)) = n
    BY <1>6, UnderAndAbove DEF n
  <2> QED
    BY <1>1, <1>2, <1>6, <2>1
<1> QED
  BY <1>6, <1>7, <1>8 DEF p, n

-----------------------------------------------------------------------------
\* Which sets the reader has, and what a nailed quantiser leaves.

ANailedChip == IF chip.attribute THEN ~chip.attrMoves ELSE ~chip.sliceMoves

TheReaderHas ==
  IF chip.inBand
  THEN misread = 0 /\ (held # NoFrame /\ ~held.key => reader.fromStream /\ reader.own = held.sets)
  ELSE ~reader.fromStream /\ misread <= encoders - 1 /\ (fresh /\ held # NoFrame => misread <= encoders - 2)

QuantiserInv ==
  /\ QuantiserTypeOK
  /\ chip \in [inBand : BOOLEAN, attribute : BOOLEAN, sliceMoves : BOOLEAN, attrMoves : BOOLEAN]
  /\ ~fresh => held # NoFrame /\ held.sets = sets
  /\ TheReaderHas
  /\ misread <= shots /\ Len(window) <= shots
  /\ used = [lo |-> used.lo, hi |-> used.hi]
  /\ ANailedChip => /\ used.lo = used.hi /\ used.lo \in {0, Nailed}
                    /\ window = <<>> /\ taken.qp = 0
  /\ taken.of \in Seq(1..51) /\ TheTailIsSeen

LEMMA QuantiserStarts ==
  QuantiserInit => QuantiserInv
<1> SUFFICES ASSUME QuantiserInit PROVE QuantiserInv
  OBVIOUS
<1>1. /\ sets \in Sets /\ fresh = TRUE /\ encoders = 1 /\ shots = 0 /\ held = NoFrame
      /\ reader = [own |-> NoSets, fromStream |-> FALSE] /\ used = [lo |-> 0, hi |-> 0]
      /\ window = <<>> /\ taken = [qp |-> 0, of |-> <<>>] /\ misread = 0
      /\ chip \in [inBand : BOOLEAN, attribute : BOOLEAN, sliceMoves : BOOLEAN, attrMoves : BOOLEAN]
      /\ MaxFrames \in Nat /\ MaxEncoders \in Nat \ {0}
  BY QuantiserAssumption DEF QuantiserInit
<1>2. Len(window) = 0 /\ window \in Seq(1..51) /\ taken.of \in Seq(1..51) /\ taken.of = <<>> /\ taken.qp = 0
  BY <1>1
<1>3. QuantiserTypeOK
  BY <1>1, <1>2 DEF QuantiserTypeOK, Frame
<1>4. TheReaderHas
  BY <1>1 DEF TheReaderHas
<1>5. TheTailIsSeen
  BY <1>2 DEF TheTailIsSeen
<1> QED
  BY <1>1, <1>2, <1>3, <1>4, <1>5 DEF QuantiserInv

\* A frame is a frame of some encoder, or none.
LEMMA HeldHasSets ==
  ASSUME held \in Frame, held # NoFrame
  PROVE  held.sets \in Sets /\ held.key \in BOOLEAN /\ held.qp \in PictureQPs
  BY DEF Frame

\* MeasuredQP, whatever the reading.
LEMMA MeasuresInRange ==
  ASSUME QuantiserInv, shots' = shots + 1, NEW qp \in 0..51, MeasuredQP(qp)
  PROVE  /\ used'.lo \in 0..51 /\ used'.hi \in 0..51 /\ used' = [lo |-> used'.lo, hi |-> used'.hi]
         /\ window' \in Seq(1..51) /\ Len(window') <= shots'
<1>1. /\ used.lo \in 0..51 /\ used.hi \in 0..51 /\ used = [lo |-> used.lo, hi |-> used.hi]
      /\ window \in Seq(1..51) /\ Len(window) \in Nat /\ Len(window) <= shots /\ shots \in Nat
  BY DEF QuantiserInv, QuantiserTypeOK
<1>2. CASE qp = 0
  BY <1>1, <1>2 DEF MeasuredQP
<1>3. CASE qp # 0
  <2>1. used' = Widened(used, qp) /\ window' = IF HasMoved(used') THEN Append(window, qp) ELSE window
    BY <1>3 DEF MeasuredQP
  <2>2. used'.lo \in 0..51 /\ used'.hi \in 0..51 /\ used' = [lo |-> used'.lo, hi |-> used'.hi]
    BY <1>1, <2>1 DEF Widened
  <2>3. Append(window, qp) \in Seq(1..51) /\ Len(Append(window, qp)) = Len(window) + 1
    BY <1>1, <1>3
  <2>4. window' \in Seq(1..51) /\ (Len(window') = Len(window) \/ Len(window') = Len(window) + 1)
    BY <1>1, <2>1, <2>3
  <2> QED
    BY <1>1, <2>2, <2>4
<1> QED
  BY <1>2, <1>3

LEMMA ReadingsInRange ==
  ASSUME QuantiserInv, shots' = shots + 1,
         NEW read \in BOOLEAN, NEW slice \in 0..51, NEW attr \in 0..51, Readings(read, slice, attr)
  PROVE  /\ used'.lo \in 0..51 /\ used'.hi \in 0..51 /\ used' = [lo |-> used'.lo, hi |-> used'.hi]
         /\ window' \in Seq(1..51) /\ Len(window') <= shots'
         /\ ANailedChip => used'.lo = used'.hi /\ used'.lo \in {0, Nailed} /\ window' = <<>>
<1>0. Nailed \in 0..51
  BY QuantiserAssumption
<1>1. CASE UNCHANGED <<used, window>>
  BY <1>1 DEF QuantiserInv, QuantiserTypeOK
<1>2. CASE \E qp \in 0..51 : MeasuredQP(qp) /\ (ANailedChip => qp = Nailed)
  <2>1. PICK qp \in 0..51 : MeasuredQP(qp) /\ (ANailedChip => qp = Nailed)
    BY <1>2
  <2>2. ASSUME ANailedChip PROVE used'.lo = used'.hi /\ used'.lo \in {0, Nailed} /\ window' = <<>>
    <3>1. used.lo = used.hi /\ used.lo \in {0, Nailed} /\ window = <<>> /\ qp = Nailed
      BY <2>1, <2>2 DEF QuantiserInv
    <3>2. CASE qp = 0
      BY <2>1, <3>1, <3>2 DEF MeasuredQP
    <3>3. CASE qp # 0
      <4>1. used' = Widened(used, qp) /\ window' = IF HasMoved(used') THEN Append(window, qp) ELSE window
        BY <2>1, <3>3 DEF MeasuredQP
      <4>2. used'.lo = Nailed /\ used'.hi = Nailed
        BY <1>0, <3>1, <3>3, <4>1 DEF Widened
      <4>3. ~HasMoved(used')
        BY <1>0, <4>2 DEF HasMoved
      <4> QED
        BY <3>1, <4>1, <4>2, <4>3
    <3> QED
      BY <3>2, <3>3
  <2> QED
    BY <2>1, <2>2, MeasuresInRange
<1> QED
  BY <1>0, <1>1, <1>2 DEF Readings, ANailedChip

LEMMA FrameGoesOn ==
  ASSUME QuantiserInv, FrameComes
  PROVE  QuantiserInv'
<1>0. /\ NoSets \notin Sets /\ Unread \subseteq Sets /\ PictureQPs \subseteq 0..51 /\ MaxFrames \in Nat
      /\ MaxEncoders \in Nat
  BY QuantiserAssumption
<1>1. PICK qp \in PictureQPs, key \in BOOLEAN :
        /\ fresh => key
        /\ held' = [sets |-> sets, key |-> key, qp |-> qp] /\ fresh' = FALSE
        /\ IF held = NoFrame THEN UNCHANGED <<reader, used, window, misread>>
           ELSE /\ reader' = Feed(Seed(reader, sets), held)
                /\ misread' = misread + (IF reader'.own \notin Unread /\ reader'.own # held.sets THEN 1 ELSE 0)
                /\ Readings(reader'.own \notin Unread, held.qp, qp)
  BY DEF FrameComes
<1>2. /\ shots < MaxFrames /\ shots' = shots + 1
      /\ chip' = chip /\ sets' = sets /\ encoders' = encoders /\ taken' = taken
  BY DEF FrameComes
<1>3. /\ sets \in Sets /\ fresh \in BOOLEAN /\ encoders \in 1..MaxEncoders /\ shots \in 0..MaxFrames
      /\ held \in Frame /\ reader \in [own : Sets \cup {NoSets}, fromStream : BOOLEAN]
      /\ used.lo \in 0..51 /\ used.hi \in 0..51 /\ window \in Seq(1..51) /\ taken.qp \in 0..51
      /\ misread \in 0..MaxFrames /\ misread <= shots /\ Len(window) <= shots
      /\ taken.of \in Seq(1..51) /\ TheTailIsSeen /\ TheReaderHas
      /\ ~fresh => held # NoFrame /\ held.sets = sets
      /\ used = [lo |-> used.lo, hi |-> used.hi]
      /\ chip \in [inBand : BOOLEAN, attribute : BOOLEAN, sliceMoves : BOOLEAN, attrMoves : BOOLEAN]
  BY DEF QuantiserInv, QuantiserTypeOK
<1>4. /\ held' \in Frame /\ held' # NoFrame /\ held'.sets = sets /\ held'.key = key
  BY <1>0, <1>1, <1>3 DEF Frame, NoFrame
<1>5. /\ used'.lo \in 0..51 /\ used'.hi \in 0..51 /\ used' = [lo |-> used'.lo, hi |-> used'.hi]
      /\ window' \in Seq(1..51) /\ Len(window') <= shots'
      /\ ANailedChip => used'.lo = used'.hi /\ used'.lo \in {0, Nailed} /\ window' = <<>>
  <2>1. CASE held = NoFrame
    <3>1. used' = used /\ window' = window
      BY <1>1, <2>1
    <3>2. Len(window) \in Nat
      BY <1>3
    <3> QED
      BY <1>2, <1>3, <3>1, <3>2 DEF QuantiserInv
  <2>2. CASE held # NoFrame
    <3> DEFINE read == reader'.own \notin Unread
    <3>1. Readings(read, held.qp, qp) /\ read \in BOOLEAN
      BY <1>1, <2>2
    <3>2. held.qp \in 0..51 /\ qp \in 0..51
      BY <1>0, <1>3, <2>2, HeldHasSets
    <3> HIDE DEF read
    <3> QED
      BY <1>2, <3>1, <3>2, ReadingsInRange
  <2> QED
    BY <2>1, <2>2
<1>6. /\ reader' \in [own : Sets \cup {NoSets}, fromStream : BOOLEAN]
      /\ misread' \in 0..MaxFrames /\ misread' <= shots' /\ TheReaderHas'
  <2>1. CASE held = NoFrame
    <3>1. reader' = reader /\ misread' = misread
      BY <1>1, <2>1
    <3>2. fresh /\ key /\ held'.key = TRUE
      BY <1>1, <1>3, <1>4, <2>1
    <3> QED
      BY <1>1, <1>2, <1>3, <3>1, <3>2 DEF TheReaderHas
  <2>2. CASE held # NoFrame /\ chip.inBand
    <3>1. held.sets \in Sets /\ held.key \in BOOLEAN /\ misread = 0
      BY <1>3, <2>2, HeldHasSets DEF TheReaderHas
    <3>2. reader'.own = held.sets /\ reader'.fromStream = TRUE
          /\ reader' \in [own : Sets \cup {NoSets}, fromStream : BOOLEAN]
      <4>1. CASE held.key
        <5> DEFINE r == Seed(reader, sets)
        <5>1. r \in [own : Sets \cup {NoSets}, fromStream : BOOLEAN]
          BY <1>3 DEF Seed, Adopt
        <5>2. reader' = Adopt(r, held.sets, TRUE)
          BY <1>1, <2>2, <4>1 DEF Feed
        <5> HIDE DEF r
        <5> QED
          BY <3>1, <5>1, <5>2 DEF Adopt
      <4>2. CASE ~held.key
        <5>1. reader.fromStream = TRUE /\ reader.own = held.sets
          BY <1>3, <2>2, <4>2 DEF TheReaderHas
        <5>2. reader' = reader
          BY <1>1, <2>2, <4>2, <5>1 DEF Feed, Seed
        <5> QED
          BY <1>3, <5>1, <5>2
      <4> QED
        BY <4>1, <4>2
    <3>3. misread' = 0
      BY <1>1, <2>2, <3>1, <3>2
    <3>4. held'.key \/ (held'.sets = held.sets)
      BY <1>1, <1>3, <1>4
    <3>5. shots' \in Nat
      BY <1>2, <1>3
    <3> QED
      BY <1>0, <1>2, <1>4, <2>2, <3>2, <3>3, <3>4, <3>5 DEF TheReaderHas
  <2>3. CASE held # NoFrame /\ ~chip.inBand
    <3>1. ~reader.fromStream /\ misread <= encoders - 1 /\ (fresh => misread <= encoders - 2)
      BY <1>3, <2>3 DEF TheReaderHas
    <3>2. reader' = Adopt(reader, sets, FALSE)
      BY <1>0, <1>1, <1>3, <2>3, <3>1 DEF Feed, Seed
    <3>3. reader'.own = sets /\ ~reader'.fromStream /\ reader' \in [own : Sets \cup {NoSets}, fromStream : BOOLEAN]
      BY <1>3, <3>1, <3>2 DEF Adopt
    <3>4. misread' = misread \/ (misread' = misread + 1 /\ fresh)
      BY <1>1, <1>3, <2>3, <3>3
    <3>5. misread' <= encoders - 1 /\ misread' \in Nat /\ misread' <= shots' /\ shots' <= MaxFrames
      BY <1>0, <1>2, <1>3, <3>1, <3>4
    <3> QED
      BY <1>0, <1>1, <1>2, <2>3, <3>3, <3>5 DEF TheReaderHas
  <2> QED
    BY <2>1, <2>2, <2>3
<1>7. QuantiserTypeOK'
  <2>1. shots' \in 0..MaxFrames /\ Len(window') \in Nat
    BY <1>0, <1>2, <1>3, <1>5
  <2>2. Len(window') <= MaxFrames
    BY <1>0, <1>5, <2>1
  <2> QED
    BY <1>1, <1>2, <1>3, <1>4, <1>5, <1>6, <2>1, <2>2 DEF QuantiserTypeOK
<1>8. ANailedChip' => used'.lo = used'.hi /\ used'.lo \in {0, Nailed} /\ window' = <<>> /\ taken'.qp = 0
  <2>1. ANailedChip' <=> ANailedChip
    BY <1>2 DEF ANailedChip
  <2>2. ANailedChip => taken.qp = 0
    BY DEF QuantiserInv
  <2> QED
    BY <1>2, <1>5, <2>1, <2>2
<1>9. TheTailIsSeen' /\ taken'.of \in Seq(1..51)
  BY <1>2, <1>3 DEF TheTailIsSeen
<1>10. ~fresh' => held' # NoFrame /\ held'.sets = sets'
  BY <1>2, <1>4
<1> QED
  BY <1>2, <1>3, <1>5, <1>6, <1>7, <1>8, <1>9, <1>10 DEF QuantiserInv

LEMMA RebuiltGoesOn ==
  ASSUME QuantiserInv, EncoderRebuilt
  PROVE  QuantiserInv'
<1>0. MaxEncoders \in Nat
  BY QuantiserAssumption
<1>1. /\ encoders < MaxEncoders /\ ~fresh /\ encoders' = encoders + 1 /\ sets' \in Sets /\ fresh' = TRUE
      /\ chip' = chip /\ shots' = shots /\ held' = held /\ reader' = reader /\ used' = used
      /\ window' = window /\ taken' = taken /\ misread' = misread
  BY DEF EncoderRebuilt
<1>2. encoders \in 1..MaxEncoders
  BY DEF QuantiserInv, QuantiserTypeOK
<1>3. encoders' \in 1..MaxEncoders /\ encoders' - 2 = encoders - 1 /\ encoders' - 1 >= encoders - 1
  BY <1>0, <1>1, <1>2
<1>4. QuantiserTypeOK'
  BY <1>1, <1>3 DEF QuantiserInv, QuantiserTypeOK
<1>5. TheReaderHas'
  <2>1. misread \in Int
    BY DEF QuantiserInv, QuantiserTypeOK
  <2> QED
    BY <1>1, <1>2, <1>3, <2>1 DEF QuantiserInv, TheReaderHas
<1>6. TheTailIsSeen'
  BY <1>1 DEF QuantiserInv, TheTailIsSeen
<1> QED
  BY <1>1, <1>4, <1>5, <1>6 DEF QuantiserInv, ANailedChip

LEMMA TakenGoesOn ==
  ASSUME QuantiserInv, TakesRecent
  PROVE  QuantiserInv'
<1>1. /\ taken' = [qp |-> IF window = <<>> THEN 0 ELSE Percentile(window), of |-> window] /\ window' = <<>>
      /\ chip' = chip /\ sets' = sets /\ fresh' = fresh /\ encoders' = encoders /\ shots' = shots
      /\ held' = held /\ reader' = reader /\ used' = used /\ misread' = misread
  BY DEF TakesRecent
<1>2. window \in Seq(1..51) /\ shots \in Nat /\ MaxFrames \in Nat
  BY QuantiserAssumption DEF QuantiserInv, QuantiserTypeOK
<1>3. window' \in Seq(1..51) /\ Len(window') = 0
  BY <1>1
<1>4. taken'.of = window /\ taken'.qp = IF window = <<>> THEN 0 ELSE Percentile(window)
  BY <1>1
<1>5. taken'.qp \in 0..51
  <2>1. CASE window = <<>>
    BY <1>4, <2>1
  <2>2. CASE window # <<>>
    <3>1. Percentile(window) \in 1..51
      BY <1>2, <2>2, PercentileIsTheTail
    <3> QED
      BY <1>4, <2>2, <3>1
  <2> QED
    BY <2>1, <2>2
<1>6. QuantiserTypeOK'
  BY <1>1, <1>2, <1>3, <1>5 DEF QuantiserInv, QuantiserTypeOK
<1>7. TheTailIsSeen'
  <2> SUFFICES ASSUME window # <<>>
               PROVE  /\ \E i \in DOMAIN window : window[i] = taken'.qp
                      /\ 10 * Cardinality({i \in DOMAIN window : window[i] > taken'.qp}) <= Len(window)
    BY <1>4 DEF TheTailIsSeen
  <2>1. taken'.qp = Percentile(window)
    BY <1>4
  <2> QED
    BY <1>2, <2>1, PercentileIsTheTail DEF Above
<1>8. TheReaderHas'
  BY <1>1 DEF QuantiserInv, TheReaderHas
<1>9. ANailedChip' => used'.lo = used'.hi /\ used'.lo \in {0, Nailed} /\ window' = <<>> /\ taken'.qp = 0
  <2>1. ANailedChip' <=> ANailedChip
    BY <1>1 DEF ANailedChip
  <2> QED
    BY <1>1, <1>4, <2>1 DEF QuantiserInv
<1> QED
  BY <1>1, <1>2, <1>3, <1>4, <1>6, <1>7, <1>8, <1>9 DEF QuantiserInv

LEMMA QuantiserGoesOn ==
  QuantiserInv /\ [QuantiserNext]_quantiserVars => QuantiserInv'
<1> SUFFICES ASSUME QuantiserInv, [QuantiserNext]_quantiserVars PROVE QuantiserInv'
  OBVIOUS
<1>1. CASE UNCHANGED quantiserVars
  <2>1. /\ chip' = chip /\ sets' = sets /\ fresh' = fresh /\ encoders' = encoders /\ shots' = shots
        /\ held' = held /\ reader' = reader /\ used' = used /\ window' = window /\ taken' = taken
        /\ misread' = misread
    BY <1>1 DEF quantiserVars
  <2>2. QuantiserTypeOK'
    BY <2>1 DEF QuantiserInv, QuantiserTypeOK
  <2>3. TheReaderHas' /\ TheTailIsSeen'
    BY <2>1 DEF QuantiserInv, TheReaderHas, TheTailIsSeen
  <2> QED
    BY <2>1, <2>2, <2>3 DEF QuantiserInv, ANailedChip
<1> QED
  BY <1>1, FrameGoesOn, RebuiltGoesOn, TakenGoesOn DEF QuantiserNext

LEMMA QuantiserIsSafe ==
  QuantiserInv => QuantiserSafety
<1> SUFFICES ASSUME QuantiserInv PROVE QuantiserSafety
  OBVIOUS
<1>1. QuantiserTypeOK /\ TheTailIsSeen
  BY DEF QuantiserInv
<1>2. OnlyTheLastIsMisread
  BY DEF QuantiserInv, TheReaderHas, OnlyTheLastIsMisread
<1>3. ANailedReadingSaysNothing
  BY DEF QuantiserInv, ANailedChip, ANailedReadingSaysNothing
<1> QED
  BY <1>1, <1>2, <1>3 DEF QuantiserSafety

\* Only the last frame of an encoder can be read with the sets of another, a
\* reading that never moves is told to nobody, and what is handed over of a
\* window is a reading of it that at most a tenth is above: for any sets, any
\* quantisers and any order of frames, rebuilds and takings.
THEOREM TheReadingIsTrue == QuantiserSpec => []QuantiserSafety
  BY QuantiserStarts, QuantiserGoesOn, QuantiserIsSafe, PTL DEF QuantiserSpec

-----------------------------------------------------------------------------
\* What is measured, timed and dated on the way, all of it: the property the
\* run checks, of the three parts side by side.
THEOREM WhatIsOnItsWayIsSafe == QuantiserSpec /\ FrameTimesSpec /\ AudioPathSpec => []WaySafety
<1>1. /\ QuantiserSafety
      /\ FrameTimesTypeOK /\ TheCadenceIsKept /\ TheDatesAreTheCameras
      /\ AudioPathTypeOK /\ PacketsAreTheSound /\ DetectionHearsTheSound
      => WaySafety
  BY DEF WaySafety, PacingSafety
<1> QED
  BY <1>1, TheReadingIsTrue, TheCameraIsFollowed, TheSoundIsWhole, PTL
=============================================================================
