------------------------------- MODULE Scale -------------------------------
(***************************************************************************)
(* How many pixels, and how many times a second: the scale of              *)
(* internal/rtc/scale.go and the cadence that is declared to the encoder,  *)
(* of internal/rtc/cadence.go.                                             *)
(*                                                                         *)
(* A format is a record of a width, a height and frames per second.  Ages  *)
(* are counted in ticks of RunBitrateControl.                              *)
(***************************************************************************)
EXTENDS Quality

CONSTANTS Bases,        \* the formats a capture may have
          Bandwidths,
          ScaleSettle,
          ScaleDwell,
          ScaleConfirm, \* scaleConfirmSamples
          ScaleWindow,  \* scaleQPWindow
          Steadies,     \* cadenceConfirmUp and cadenceConfirmDown, in this order
          MaxUpsets,
          Measured      \* what the camera may deliver a second

\* A capture too small for one step has no governor of its scale.
ASSUME ScaleAssumption ==
  /\ \A b \in Bases : {b.w, b.h, b.fps} \subseteq Nat /\ b.w >= 16 /\ b.h >= 16 /\ b.fps > 0
  /\ Bandwidths \subseteq Nat /\ Measured \subseteq Nat /\ MaxUpsets \in Nat
  /\ {ScaleSettle, ScaleDwell, ScaleConfirm, ScaleWindow, Steadies[1], Steadies[2]} \subseteq Nat \ {0}
  /\ ScaleSettle <= ScaleDwell

QPReference == 30
BreakAt == QPReference + 8
ClimbAt == QPReference + 3

-----------------------------------------------------------------------------
\* The ladder: three sizes at the full cadence, then the smallest at less.

Even16(v) == 16 * (v \div 16)
SizedDown(base, quarters) ==
  [w |-> Even16((base.w * quarters) \div 4), h |-> Even16((base.h * quarters) \div 4), fps |-> base.fps]
SlowedDown(step, fps) == [step EXCEPT !.fps = fps]

Distinct(ladder, step) ==
  IF step.w <= 0 \/ step.h <= 0 \/ (ladder # <<>> /\ ladder[Len(ladder)].w = step.w) THEN ladder ELSE Append(ladder, step)

SizesOf(base) == Distinct(Distinct(Distinct(<<>>, SizedDown(base, 4)), SizedDown(base, 3)), SizedDown(base, 2))

Slower(ladder, fps) ==
  IF ladder # <<>> /\ fps < ladder[Len(ladder)].fps THEN Append(ladder, SlowedDown(ladder[Len(ladder)], fps)) ELSE ladder
LadderOf(base) == Slower(Slower(SizesOf(base), 5), 2)

Ladder == [base \in Bases |-> LadderOf(base)]

\* A slower step is worth twice the bits a pixel.
MinKbpsOf(s, isFull) == (s.w * s.h * s.fps * IF isFull THEN 4 ELSE 8) \div 100000

MinKbps ==
  [base \in Bases |-> [i \in DOMAIN Ladder[base] |-> MinKbpsOf(Ladder[base][i], i <= Len(SizesOf(base)))]]

-----------------------------------------------------------------------------
\* scaleGovernor: the step, how long ago it changed, the last bandwidth, how
\* often in a row it fell short, and the readings of the quantiser.

NewScale(base) ==
  [base |-> base, step |-> 1, changed |-> Never, lastAvail |-> 0, below |-> 0, qps |-> <<>>]

FormatOf(sc) == Ladder[sc.base][sc.step]
AtFullSize(sc) == sc.step = 1
ScaleRelease(sc) == [sc EXCEPT !.qps = <<>>, !.lastAvail = 0, !.below = 0]
SettlesForEver(sc) == sc.changed # Never                            \* mutant
ScaleIsSettling(sc) == sc.changed # Never /\ sc.changed < ScaleSettle

MovesTo(sc, step) == [sc EXCEPT !.step = step, !.changed = 0, !.qps = <<>>]

\* resync: what is sent, when it is one of the steps, is where the scale is.
StaysWhereItWas(sc, sent) == sc                                    \* mutant
Resync(sc, sent) ==
  IF ScaleIsSettling(sc) \/ FormatOf(sc) = sent THEN sc
  ELSE LET steps == {i \in DOMAIN Ladder[sc.base] : Ladder[sc.base][i] = sent}
       IN IF steps = {} THEN sc ELSE MovesTo(sc, CHOOSE i \in steps : \A j \in steps : i <= j)

NotesQP(sc, qp) ==
  [sc EXCEPT !.qps = IF qp > 0 THEN RollingAdd(@, qp, ScaleWindow, FALSE)
                     ELSE IF @ = <<>> THEN @ ELSE Tail(@)]
HasPicture(sc, qp) == qp > 0 /\ MeanOf(sc.qps, 1) \in 1..ClimbAt

Shortfall(sc, avail, believed) ==
  IF ~believed THEN 0
  ELSE IF avail < MinKbps[sc.base][sc.step] THEN AtMost(sc.below + 1, ScaleConfirm) ELSE 0

\* As far down as it takes for the bandwidth to be enough, or to the last step.
Downwards(sc, avail) ==
  LET enough == {i \in sc.step..Len(Ladder[sc.base]) : i = Len(Ladder[sc.base]) \/ avail >= MinKbps[sc.base][i]}
  IN CHOOSE i \in enough : \A j \in enough : i <= j

AtOnce(sc) == TRUE                                                 \* mutant
MayClimb(sc) == sc.changed = Never \/ sc.changed >= ScaleDwell

ScaleTarget(sc0, avail, credible, qp, maxBits) ==
  LET sc == NotesQP(sc0, qp)
      last == Len(Ladder[sc.base])
      healthy == HasPicture(sc, qp)
      rising == avail > sc.lastAvail
      below == Shortfall(sc, avail, credible /\ ~healthy)
      heard == [sc EXCEPT !.lastAvail = avail, !.below = below]
      short == avail < MinKbps[sc.base][sc.step]
      collapse == credible /\ avail * 2 < MinKbps[sc.base][sc.step]
      descends == ~healthy /\ ~rising /\ (collapse \/ below >= ScaleConfirm)
      climbs == /\ avail * 10 >= MinKbps[sc.base][sc.step - 1] * 14
                /\ qp <= 0 \/ (~ScaleIsSettling(sc) /\ qp <= ClimbAt)
  IN IF qp >= BreakAt /\ ~ScaleIsSettling(sc) /\ maxBits /\ sc.step < last THEN MovesTo(sc, sc.step + 1)
     ELSE IF avail <= 0 THEN sc
     ELSE IF short /\ descends
       THEN IF sc.step < last THEN MovesTo(heard, Downwards(sc, avail)) ELSE heard
     ELSE IF sc.step > 1 /\ climbs /\ MayClimb(sc) THEN MovesTo(heard, sc.step - 1)
     ELSE heard

-----------------------------------------------------------------------------
\* cadenceGovernor: what is declared, the most there may be, and how often in a
\* row more or less than that has been measured.

CadenceSteps == <<2, 5, 10, 12, 15, 20, 24, 30>>

\* Measurements are in tenths of a frame.
CadenceToDeclare(measured, most) ==
  LET fit == {i \in DOMAIN CadenceSteps : CadenceSteps[i] * 10 >= measured - 5 /\ CadenceSteps[i] <= most}
  IN IF measured <= 0 \/ fit = {} THEN most ELSE CadenceSteps[CHOOSE i \in fit : \A j \in fit : i <= j]

NewCadence(fps) == [declared |-> fps, most |-> fps, up |-> 0, down |-> 0]

\* A new limit is followed at once upwards, and when it is below what is declared.
IgnoresTheLimit(c, most) == [c EXCEPT !.most = most]               \* mutant
FollowsTheLimit(c, most) == [c EXCEPT !.most = most, !.declared = most, !.up = 0, !.down = 0]

CadenceTarget(c, measured, most) ==
  IF most <= 0 THEN c
  ELSE IF most # c.most /\ (most > c.most \/ c.declared > most) THEN FollowsTheLimit(c, most)
  ELSE LET wanted == CadenceToDeclare(measured, most)
           more == wanted > c.declared
           less == wanted < c.declared /\ measured * 10 <= c.declared * 90
           up == IF more THEN c.up + 1 ELSE 0
           down == IF less THEN c.down + 1 ELSE 0
       IN IF (more /\ up >= Steadies[1]) \/ (less /\ down >= Steadies[2])
            THEN [declared |-> wanted, most |-> most, up |-> 0, down |-> 0]
            ELSE [c EXCEPT !.most = most, !.up = up, !.down = down]

-----------------------------------------------------------------------------
VARIABLES
  scale,
  cadence,
  sent,        \* the format that goes out
  asked,       \* the format asked for and not applied yet, or none
  network,     \* the inputs of a tick
  upsets,      \* how often the network, the capture or the encoder has changed
  sinceFall,   \* history: ticks since the picture shrank
  calm         \* history: ticks since the last upset

scaleVars == <<scale, cadence, sent, asked, network, upsets, sinceFall, calm>>

NoFormat == [w |-> 0, h |-> 0, fps |-> 0]
Networks == [avail : Bandwidths, credible : BOOLEAN, qp : QPs, maxBits : BOOLEAN, measured : Measured]

CalmLong == 5 * (ScaleDwell + ScaleSettle)

ScaleInit ==
  /\ \E base \in Bases : scale = NewScale(base) /\ cadence = NewCadence(base.fps) /\ sent = Ladder[base][1]
  /\ asked = NoFormat /\ network \in Networks
  /\ upsets = 0 /\ sinceFall = Never /\ calm = 0

\* A tick with somebody watching: align, decide, ask.
ScaleTick ==
  \E aligned \in {Resync([scale EXCEPT !.changed = Older(@, ScaleDwell)], sent)} :
  \E next \in {ScaleTarget(aligned, network.avail, network.credible, network.qp, network.maxBits)} :
  \E declares \in {CadenceTarget(cadence, network.measured, FormatOf(next).fps)} :
     /\ scale' = next /\ cadence' = declares
     /\ asked' = IF next.step # aligned.step \/ declares.declared # cadence.declared THEN FormatOf(next) ELSE asked
     /\ sinceFall' = IF next.step > scale.step THEN 0 ELSE Older(sinceFall, ScaleDwell)
     /\ calm' = AtMost(calm + 1, CalmLong)
     /\ UNCHANGED <<sent, network, upsets>>

\* The capture takes the format over: before the scale judges it.
FormatApplies ==
  /\ asked # NoFormat /\ sent' = asked /\ asked' = NoFormat
  /\ UNCHANGED <<scale, cadence, network, upsets, sinceFall, calm>>

\* ... or refuses it, or the capture starts anew at full size.
FormatIsLost ==
  /\ upsets < MaxUpsets /\ upsets' = upsets + 1 /\ calm' = 0
  /\ asked' = NoFormat
  /\ \/ asked # NoFormat /\ UNCHANGED sent
     \/ sent' = Ladder[scale.base][1]
  /\ UNCHANGED <<scale, cadence, network, sinceFall>>

\* Another camera, of another size: the scale is built again.
ScaleIsRebuilt ==
  /\ upsets < MaxUpsets /\ upsets' = upsets + 1 /\ calm' = 0
  /\ \E base \in Bases \ {scale.base} : scale' = NewScale(base) /\ sent' = Ladder[base][1]
  /\ asked' = NoFormat /\ sinceFall' = Never
  /\ UNCHANGED <<cadence, network>>

NetworkTurns ==
  /\ upsets < MaxUpsets /\ upsets' = upsets + 1 /\ calm' = 0
  /\ network' \in Networks \ {network}
  /\ UNCHANGED <<scale, cadence, sent, asked, sinceFall>>

\* Nobody watches for a tick: judgements are forgotten, the step is not.
ScaleIdles ==
  /\ upsets < MaxUpsets /\ upsets' = upsets + 1 /\ calm' = 0
  /\ scale' = ScaleRelease(Resync([scale EXCEPT !.changed = Older(@, ScaleDwell)], sent))
  /\ sinceFall' = Older(sinceFall, ScaleDwell)
  /\ UNCHANGED <<cadence, sent, asked, network>>

\* A format asked for is applied before the next tick, or is lost.
ScaleNext ==
  \/ asked = NoFormat /\ ScaleTick
  \/ FormatApplies \/ FormatIsLost \/ ScaleIsRebuilt \/ NetworkTurns \/ ScaleIdles

ScaleSpec == ScaleInit /\ [][ScaleNext]_scaleVars

-----------------------------------------------------------------------------
ScaleTypeOK ==
  /\ scale.base \in Bases /\ scale.step \in DOMAIN Ladder[scale.base]
  /\ scale.changed \in Never..ScaleDwell /\ scale.lastAvail \in Bandwidths \cup {0}
  /\ scale.below \in 0..ScaleConfirm /\ Len(scale.qps) <= ScaleWindow
  /\ cadence.up \in 0..Steadies[1] /\ cadence.down \in 0..Steadies[2]
  /\ network \in Networks /\ upsets \in 0..MaxUpsets
  /\ sinceFall \in Never..ScaleDwell /\ calm \in 0..CalmLong

\* What shrank stays so for a while: sizes do not go up and down with the network.
TheSizeDoesNotFlap ==
  [][ScaleTick /\ sent = FormatOf(scale) /\ scale'.step < scale.step => sinceFall = Never \/ sinceFall + 1 >= ScaleDwell]_scaleVars

\* A request that was lost is not lost for good: with nothing new, what is sent
\* is where the scale believes to be.
TheScaleTellsTheTruth ==
  calm > ScaleSettle /\ asked = NoFormat => sent = FormatOf(scale)

\* With room and a good picture, the full size comes back.
FullSizeComesBack ==
  calm = CalmLong /\ network.qp \in 1..ClimbAt /\ network.avail * 10 >= MinKbps[scale.base][1] * 14
    => AtFullSize(scale)

\* Never is more declared than goes out.
TheDeclaredGoesOut ==
  calm > Steadies[2] /\ asked = NoFormat => cadence.declared <= FormatOf(scale).fps
=============================================================================
