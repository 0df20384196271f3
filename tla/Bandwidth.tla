----------------------------- MODULE Bandwidth -----------------------------
(***************************************************************************)
(* What the network grants: the bitrate governor, the filters an estimate  *)
(* goes through before it is believed, and the losses it may be cut for,   *)
(* in internal/rtc/bitrate.go.                                             *)
(*                                                                         *)
(* A tick of RunBitrateControl is a second, and ages are counted in ticks. *)
(* Bitrates are in kbit/s and fractions in hundredths.                     *)
(***************************************************************************)
EXTENDS Integers, Sequences

CONSTANTS Ceiling,     \* the preset's bitrate
          AudioKbps,
          Estimates,   \* what the congestion control may say, 0 being nothing yet
          Losses,      \* what a receiver may report
          RiseWait,    \* bitrateRiseInterval
          LossWindow,
          SentSamples  \* sentWindowSamples

ASSUME BandwidthAssumption ==
  /\ Ceiling \in Nat \ {0} /\ AudioKbps \in Nat /\ Estimates \subseteq Nat /\ Losses \subseteq 0..100
  /\ RiseWait \in Nat \ {0} /\ LossWindow \in Nat \ {0} /\ SentSamples \in Nat \ {0}

Never == -1
KbpsFloor == 300
StepKbps == 50
LossQuiet == 1
LossSevere == 10

AtLeast(a, b) == IF a > b THEN a ELSE b
AtMost(a, b) == IF a < b THEN a ELSE b
RoundToStep(kbps) == StepKbps * ((kbps + StepKbps \div 2) \div StepKbps)
Top == AtLeast(Ceiling, KbpsFloor)
\* The presets' bitrates are whole steps; of another, the rounding is absorbed from 500 up.
ASSUME CeilingAssumption == Ceiling % StepKbps = 0 \/ Ceiling > 500
Unclamped(kbps) == kbps                                            \* mutant
Clamped(kbps) == AtMost(AtLeast(kbps, KbpsFloor), Top)
\* A tick later; beyond what is waited for, ages are not told apart.
Older(age, most) == IF age = Never THEN Never ELSE AtMost(age + 1, most)

-----------------------------------------------------------------------------
\* bitrateGovernor.  A governor is a record: the bitrate, and how long ago the
\* wait before a rise began.

Cut(gov, loss) == AtLeast(RoundToStep((gov.current * (200 - loss)) \div 200), KbpsFloor)

\* A drop begins the wait anew, and so does a rise.
StillWaits(gov) == gov.rise                                        \* mutant
WaitsAgain(gov) == 0

GovCuts(gov, loss) ==
  IF Cut(gov, loss) >= gov.current THEN gov
  ELSE [current |-> Cut(gov, loss), rise |-> WaitsAgain(gov)]

IsRoom(gov, kbps) == kbps * 100 > gov.current * 105
MayRise(gov) == gov.rise # Never /\ gov.rise >= RiseWait

\* Where it wants to go, and the wait as it is left.
Wants(gov, kbps) ==
  IF kbps < gov.current THEN [current |-> kbps, rise |-> WaitsAgain(gov)]
  ELSE IF ~IsRoom(gov, kbps) THEN gov
  ELSE IF gov.rise = Never THEN [gov EXCEPT !.rise = 0]
  ELSE IF MayRise(gov) THEN [current |-> kbps, rise |-> 0]
  ELSE gov

\* A change of less than a twentieth is not commanded, unless it is to the top.
IsAbsorbed(gov, want) ==
  LET delta == IF want > gov.current THEN want - gov.current ELSE gov.current - want
  IN delta * 100 < gov.current * 5 /\ want # Top

GovFollows(gov, kbps) ==
  LET wanted == Wants(gov, Clamped(kbps))
      want == Clamped(RoundToStep(wanted.current))
  IN IF IsAbsorbed(gov, want)
       THEN [wanted EXCEPT !.current = gov.current]
       ELSE [wanted EXCEPT !.current = want]

\* target: losses go before the estimate, and nothing said is not zero said.
GovTarget(gov, kbps, loss) ==
  IF loss >= LossSevere THEN GovCuts(gov, loss)
  ELSE IF kbps <= 0 THEN gov ELSE GovFollows(gov, kbps)

GovRelease(gov) == IF gov.current = Top THEN gov ELSE [current |-> Top, rise |-> Never]

-----------------------------------------------------------------------------
\* The filters of an estimate.

AvailableForVideo(estimate) ==
  IF estimate <= AudioKbps THEN 0 ELSE ((estimate - AudioKbps) * 95) \div 100

\* rollingMean: a sample of zero ages the window, or leaves it alone.
RollingAdd(window, sample, keep, ages) ==
  IF sample > 0
    THEN LET longer == Append(window, sample)
         IN IF Len(longer) > keep THEN Tail(longer) ELSE longer
    ELSE IF ages /\ window # <<>> THEN Tail(window) ELSE window

Total[w \in Seq(Nat)] == IF w = <<>> THEN 0 ELSE Head(w) + Total[Tail(w)]
MeanOf(window, speak) ==
  IF Len(window) < AtLeast(speak, 1) THEN 0 ELSE Total[window] \div Len(window)

\* sentWindow: two samples before it speaks.
SentAdd(window, sample) == RollingAdd(window, sample, SentSamples, TRUE)
SentMean(window) == MeanOf(window, 2)

IsCredible(video, sentAvg) == sentAvg <= 0 \/ video * 100 < sentAvg * 85

\* An estimate below what was delivered is no estimate, unless packets are lost.
AsItWasSaid(estimate, delivered, loss) == estimate                 \* mutant
AtLeastDelivered(estimate, delivered, loss) ==
  IF estimate > 0 /\ delivered > 0 /\ loss < LossQuiet THEN AtLeast(estimate, delivered) ELSE estimate

IsBelievableDrop(estimate, sent, loss) ==
  (sent > 0 /\ estimate * 100 < sent * 40) \/ loss >= LossQuiet

\* The three together, as RunBitrateControl asks them.
IsBelieved(video, sentAvg, loss, current) ==
  /\ IsCredible(video, sentAvg)
  /\ video >= current \/ IsBelievableDrop(video, sentAvg, loss)
  /\ sentAvg > 0 \/ loss >= LossQuiet

\* What the governor is told: a drop that is not believed is not one.
Told(video, sentAvg, loss, current) ==
  LET raised == AtLeastDelivered(video, sentAvg, loss)
  IN IF ~IsBelieved(video, sentAvg, loss, current) /\ raised < current THEN current ELSE raised

-----------------------------------------------------------------------------
\* The losses: the worst of the last seconds, and the last severe one, once.

NoLosses == [worst |-> 0, age |-> Never, fresh |-> 0, uncut |-> FALSE]

RecordLoss(l, loss) ==
  LET kept == IF l.age = Never \/ l.age > LossWindow \/ loss >= l.worst
                THEN [l EXCEPT !.worst = loss, !.age = 0] ELSE l
  IN IF loss >= LossSevere THEN [kept EXCEPT !.fresh = loss, !.uncut = TRUE] ELSE kept

LossToCut(l) == IF l.uncut THEN l.fresh ELSE 0
AsItWas(l) == l                                                    \* mutant
GivenUp(l) == [l EXCEPT !.uncut = FALSE]
RecentLoss(l) == IF l.age = Never \/ l.age > LossWindow THEN 0 ELSE l.worst

-----------------------------------------------------------------------------
VARIABLES
  gov,
  losses,
  sentWindow,  \* what came out in the last seconds
  estimate,    \* the worst of the viewers' estimates, 0 in their first seconds
  watched,     \* somebody is watching
  inForce,     \* Hub.targetKbps
  delivered,   \* history: what the last tick took for delivered
  owed,        \* history: a severe report of somebody watching has not been cut for
  sinceDrop,   \* history: ticks since the bitrate fell
  plenty       \* history: ticks during which nothing stood in the way of the top

bandVars == <<gov, losses, sentWindow, estimate, watched, inForce, delivered, owed, sinceDrop, plenty>>

PlentyLong == 2 * RiseWait + 2

BandInit ==
  /\ gov = [current |-> Top, rise |-> Never] /\ losses = NoLosses /\ sentWindow = <<>>
  /\ estimate = 0 /\ watched = FALSE /\ inForce = Top
  /\ delivered = 0 /\ owed = FALSE /\ sinceDrop = Never /\ plenty = 0

\* A receiver's report, between two ticks.
Reports(loss) ==
  /\ watched /\ losses' = RecordLoss(losses, loss)
  /\ owed' = (owed \/ loss >= LossSevere)
  /\ plenty' = IF loss > 0 THEN 0 ELSE plenty
  /\ UNCHANGED <<gov, sentWindow, estimate, watched, inForce, delivered, sinceDrop>>

\* Viewers come and go, and their estimates change.
NetworkChanges ==
  /\ watched' \in BOOLEAN /\ estimate' \in IF watched' THEN Estimates ELSE {0}
  /\ <<watched', estimate'>> # <<watched, estimate>> /\ plenty' = 0
  /\ UNCHANGED <<gov, losses, sentWindow, inForce, delivered, owed, sinceDrop>>

\* What may have come out in a second: all of it, half, or nothing.
MayComeOut == {0, inForce \div 2, inForce}

\* A turn of RunBitrateControl, the other governors apart.
BandTick(measured) ==
  LET aged == [gov EXCEPT !.rise = Older(@, RiseWait)]
      old == [losses EXCEPT !.age = Older(@, LossWindow + 1)]
      sent == SentAdd(sentWindow, measured)
      video == Told(AvailableForVideo(estimate), SentMean(sent), RecentLoss(old), gov.current)
      next == IF watched THEN GovTarget(aged, video, LossToCut(old)) ELSE GovRelease(aged)
      changed == next.current # gov.current \/ (~watched /\ inForce # next.current)
  IN /\ gov' = next
     /\ losses' = IF watched THEN GivenUp(old) ELSE old
     /\ inForce' = IF changed THEN next.current ELSE inForce
     /\ sentWindow' = IF changed THEN <<>> ELSE sent
     /\ delivered' = SentMean(sent)
     /\ owed' = (owed /\ ~watched)
     /\ sinceDrop' = IF next.current < gov.current THEN 0 ELSE Older(sinceDrop, RiseWait)
     /\ plenty' = IF watched /\ AvailableForVideo(estimate) >= Top /\ ~owed /\ RecentLoss(old) = 0
                    THEN AtMost(plenty + 1, PlentyLong) ELSE 0
     /\ UNCHANGED <<estimate, watched>>

BandNext ==
  \/ \E loss \in Losses : Reports(loss)
  \/ NetworkChanges
  \/ \E measured \in MayComeOut : BandTick(measured)

BandSpec == BandInit /\ [][BandNext]_bandVars

-----------------------------------------------------------------------------
BandTypeOK ==
  /\ gov.current \in KbpsFloor..Top /\ gov.rise \in Never..RiseWait
  /\ losses \in [worst : Losses \cup {0}, age : Never..(LossWindow + 1), fresh : Losses \cup {0}, uncut : BOOLEAN]
  /\ Len(sentWindow) <= SentSamples /\ \A i \in DOMAIN sentWindow : sentWindow[i] \in 1..Top
  /\ estimate \in Estimates \cup {0} /\ {watched, owed} \subseteq BOOLEAN /\ inForce = gov.current
  /\ sinceDrop \in Never..RiseWait /\ plenty \in 0..PlentyLong

\* Without losses the bitrate does not fall below what has been delivered: what
\* arrived is not refused, and an echo of our own traffic is not a limit.
WhatArrivedIsHeld ==
  [][gov'.current < gov.current =>
       \/ owed
       \/ RecentLoss([losses EXCEPT !.age = Older(@, LossWindow + 1)]) >= LossQuiet
       \/ gov'.current + StepKbps > delivered']_bandVars

\* A report of severe losses cuts once, however long it is remembered.
NoReportCutsTwice ==
  [][gov'.current < gov.current /\ LossToCut(losses) >= LossSevere => owed]_bandVars

\* After a drop the network settles before it is pushed again.
NoRiseRightAfterADrop ==
  [][watched /\ gov'.current > gov.current => sinceDrop = Never \/ sinceDrop + 1 >= RiseWait]_bandVars

\* With room for all of it and nothing lost, the bitrate goes back to the top.
TheTopIsReached == plenty = PlentyLong => gov.current = Top
=============================================================================
