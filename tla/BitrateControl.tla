--------------------------- MODULE BitrateControl ---------------------------
(***************************************************************************)
(* RunBitrateControl of internal/rtc/bitrate.go: the governors of          *)
(* Bandwidth, Quality and Scale in one loop, a tick a second, over what is *)
(* measured, read and reported in that second.                             *)
(*                                                                         *)
(* ctl is the loop's state; world is what it looks at, and changes at most *)
(* MaxShifts times.                                                        *)
(***************************************************************************)
EXTENDS Scale

CONSTANTS Worlds, MaxShifts

\* No preset is below the floor; -1 is no reading of the quantiser.
ASSUME ControlAssumption ==
  /\ MaxShifts \in Nat /\ Ceiling >= KbpsFloor
  /\ \A w \in Worlds : /\ w.base \in Bases /\ w.qp \in -1..51 /\ {w.watched, w.stirred} \subseteq BOOLEAN
                       /\ {w.estimate, w.halves, w.measured} \subseteq Nat

VARIABLES
  ctl,
  world,
  goesOut,  \* the format the capture sends
  shifts,
  samples,  \* history: the window holds samples of the request in force only
  idle      \* history: nobody has been watching since the last tick but one

controlVars == <<ctl, world, goesOut, shifts, samples, idle>>

Begins(base) ==
  [gov |-> [current |-> Top, rise |-> Never], quality |-> NewQuality(Ceiling), scale |-> NewScale(base),
   cadence |-> NewCadence(base.fps), window |-> <<>>, losses |-> NoLosses, inForce |-> Top]

ControlInit ==
  /\ world \in Worlds /\ ctl = Begins(world.base) /\ goesOut = Ladder[world.base][1]
  /\ shifts = 0 /\ samples = TRUE /\ idle = FALSE

\* Everything is a second older.
Aged(c) ==
  [c EXCEPT !.gov.rise = Older(@, RiseWait), !.quality.moved = Older(@, QualitySettle),
            !.scale.changed = Older(@, ScaleDwell), !.losses.age = Older(@, LossWindow + 1)]

\* Another size is captured, and the scale begins anew.
Rebuilds(c) ==
  IF c.scale.base = world.base THEN c
  ELSE [c EXCEPT !.scale = NewScale(world.base), !.window = <<>>]

Measures(c) == [c EXCEPT !.window = SentAdd(@, (world.halves * c.inForce) \div 2)]

\* What is sent is looked at before anything is decided.
Aligns(c) ==
  LET aligned == Resync(c.scale, goesOut)
  IN IF aligned = c.scale THEN c ELSE [c EXCEPT !.scale = aligned, !.window = <<>>]

\* What the governors are told.
Video == AvailableForVideo(world.estimate)
AvgOf(c) == SentMean(c.window)
Believes(c) == IsBelieved(Video, AvgOf(c), RecentLoss(c.losses), c.gov.current)
ForTheScale(c) == AtLeastDelivered(Video, AvgOf(c), RecentLoss(c.losses))
ForTheBitrate(c) == Told(Video, AvgOf(c), RecentLoss(c.losses), c.gov.current)

BitsToSpare(c) == TRUE                                             \* mutant
AllBitsInUse(c) == c.inForce >= c.gov.current

\* Size and cadence, with somebody watching.  A change of either is a new
\* encoder, and the window begins anew.
KeepsTheWindow(c, next) == next                                    \* mutant
NewWindow(c, next) ==
  IF next.scale.step = c.scale.step /\ next.cadence.declared = c.cadence.declared THEN next
  ELSE [next EXCEPT !.window = <<>>]

WithSize(c, scaled) ==
  [c EXCEPT !.scale = scaled, !.cadence = CadenceTarget(@, world.measured, FormatOf(scaled).fps)]
Sizes(c, told, believed) ==
  IF ~world.watched THEN c
  ELSE NewWindow(c, WithSize(c, ScaleTarget(c.scale, told, believed, world.qp, AllBitsInUse(c))))

StoresWhenGranted(c, granted, kbps, changed) ==                    \* mutant
  IF granted.current # c.gov.current THEN kbps ELSE c.inForce
Stored(c, granted, kbps, changed) == IF changed THEN kbps ELSE c.inForce

\* The bitrate with nobody watching: all there is, and nothing remembered.
ForgetsNothing(c) == [c EXCEPT !.gov = GovRelease(@), !.inForce = Top]  \* mutant
ReleaseAll(c) ==
  [c EXCEPT !.gov = GovRelease(@), !.quality = QualityRelease(@, Top), !.scale = ScaleRelease(@), !.inForce = Top]

\* ... and with somebody: what the network grants, then what the picture needs.
Bitrates(c, kbps, produced) ==
  LET granted == GovTarget(c.gov, kbps, LossToCut(c.losses))
      needed == QualityTarget(c.quality, world.qp, produced, granted.current, AtFullSize(c.scale), world.stirred)
      changed == granted.current # c.gov.current \/ needed.current # c.quality.current
  IN [c EXCEPT !.gov = granted, !.quality = needed, !.losses = GivenUp(@),
               !.inForce = Stored(c, granted, needed.current, changed)]

Commands(c, next) == IF next.inForce = c.inForce THEN next ELSE [next EXCEPT !.window = <<>>]

ControlTick ==
  \E measured \in {Measures(Rebuilds(Aged(ctl)))} :
  \E aligned \in {Aligns(measured)} :
  \E sized \in {Sizes(aligned, ForTheScale(measured), Believes(measured))} :
  \E next \in {IF world.watched THEN Bitrates(sized, ForTheBitrate(measured), (world.halves * ctl.inForce) \div 2)
               ELSE ReleaseAll(sized)} :
  \E done \in {Commands(sized, next)} :
     /\ ctl' = done
     /\ goesOut' = IF done.scale.step # aligned.scale.step \/ done.cadence.declared # ctl.cadence.declared
                     THEN FormatOf(done.scale) ELSE IF ctl.scale.base = world.base THEN goesOut ELSE Ladder[world.base][1]
     /\ samples' = \/ done.window = <<>> \/ ctl.scale.base # world.base
                   \/ /\ samples /\ done.inForce = ctl.inForce
                      /\ FormatOf(done.scale) = FormatOf(ctl.scale) /\ done.cadence.declared = ctl.cadence.declared
     /\ idle' = ~world.watched
     /\ UNCHANGED <<world, shifts>>

WorldShifts ==
  /\ shifts < MaxShifts /\ shifts' = shifts + 1 /\ world' \in Worlds \ {world}
  /\ UNCHANGED <<ctl, goesOut, samples, idle>>

\* A receiver's report.
LossIsReported ==
  /\ world.watched /\ shifts < MaxShifts /\ shifts' = shifts + 1
  /\ \E loss \in Losses : ctl' = [ctl EXCEPT !.losses = RecordLoss(@, loss)]
  /\ UNCHANGED <<world, goesOut, samples, idle>>

\* The capture starts anew, at full size.
CaptureRestarts ==
  /\ shifts < MaxShifts /\ shifts' = shifts + 1 /\ goesOut' = Ladder[world.base][1]
  /\ UNCHANGED <<ctl, world, samples, idle>>

ControlNext == ControlTick \/ WorldShifts \/ LossIsReported \/ CaptureRestarts

ControlSpec == ControlInit /\ [][ControlNext]_controlVars

-----------------------------------------------------------------------------
ControlTypeOK ==
  /\ ctl.gov.current \in KbpsFloor..Top /\ ctl.inForce \in 1..Top
  /\ world \in Worlds /\ shifts \in 0..MaxShifts

\* What the encoder was last asked for is what the picture needs, within what the
\* network grants: three numbers kept in three places.
WhatIsAskedIsMeant == ctl.inForce = ctl.quality.current /\ ctl.inForce <= ctl.gov.current

\* Whoever arrives finds the top, and nothing of whoever left.
TheNextOneStartsAfresh ==
  idle => /\ ctl.inForce = Top /\ ctl.quality.qps = <<>> /\ ctl.quality.throughput = <<>>
          /\ ctl.scale.qps = <<>> /\ ctl.scale.below = 0

\* What is measured is never averaged over two requests, two sizes or two cadences.
OneRequestIsAveraged == samples

\* Pixels are taken away for want of bits only, or with all the bits in use; a
\* smaller size that is found to go out already is not taken away.
PixelsGoLast ==
  [][ctl'.scale.step > ctl.scale.step /\ ctl'.scale.base = ctl.scale.base /\ goesOut = FormatOf(ctl.scale)
       => ctl.inForce >= ctl.gov.current \/ Video < MinKbps[ctl.scale.base][ctl.scale.step]]_controlVars

\* The governors together: a coarse picture is given more within what the network
\* carries, the scale tells what is encoded and comes back to full size, and what is
\* commanded is what was meant.
GovernorsSafety ==
  /\ BandTypeOK /\ QualityTypeOK /\ ScaleTypeOK /\ ControlTypeOK
  /\ ACoarsePictureGetsMore /\ TheNetworkIsNotExceeded
  /\ TheScaleTellsTheTruth /\ FullSizeComesBack /\ TheDeclaredGoesOut
  /\ WhatIsAskedIsMeant /\ TheNextOneStartsAfresh /\ OneRequestIsAveraged

\* And what a second may not do: cut below what arrived, cut twice for one report,
\* rise right after a cut, take a discount on no readings, flap between two sizes,
\* or give up pixels while bits are left.
GovernorsMoves ==
  /\ WhatArrivedIsHeld /\ NoReportCutsTwice /\ NoRiseRightAfterADrop
  /\ ADiscountRestsOnReadings /\ TheSizeDoesNotFlap /\ PixelsGoLast
=============================================================================
