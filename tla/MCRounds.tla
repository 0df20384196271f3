------------------------------ MODULE MCRounds ------------------------------
(***************************************************************************)
(* Model checking of what is done every second and of what comes of it:    *)
(* the detectors, the recogniser, the watching round, and the news on its  *)
(* way to the phones.  A behaviour follows one of them, the focus, and the *)
(* others rest.  The news is followed twice: three pieces to one phone,    *)
(* and one of each code to two.                                            *)
(***************************************************************************)
EXTENDS Notifier, Detectors, Recogniser, WatchRound

CONSTANTS fault, other, d1, d2

AllCodes == {fault, other}
AllDevices == {d1, d2}
SomeLevels == {-99, -60, -40, -20, -10}
SomeSamples == {-2, 0, 3}
Quietest == -80
Loudest == -30

VARIABLE focus

elsewhere == <<subs, count, code, before, latest, overtaken, stage, todo, delivery, tries, free, skipped, taken, closing>>
roundsVars == <<focus, elsewhere, motionVars, soundVars, sumVars, recVars, watchVars>>

Resting ==
  /\ frame = [i \in 1..Pixels |-> 50]
  /\ focus # "sound" => level = -60 /\ inBand
  /\ focus # "watch" => ~simulates

AllInit ==
  /\ focus \in {"codes", "phones", "motion", "sound", "sums", "recogniser", "watch"}
  /\ Init /\ MotionInit /\ SoundInit /\ SumsInit /\ RecInit /\ WatchInit
  /\ Resting

IsNewsy == focus \in {"codes", "phones"}
OneOfThem ==
  /\ count > 0 => subs' \subseteq subs
  /\ \/ focus = "codes" /\ subs' \subseteq {d1} /\ \A n \in 1..count' : n = 1 => code'[n] = fault
     \/ focus = "phones" /\ closing' = "open" /\ count' < MaxNews
        /\ \A n \in 1..count' : code'[n] = IF n = 1 THEN fault ELSE other

NewsAlone == OneOfThem /\ UNCHANGED <<focus, motionVars, soundVars, sumVars, recVars, watchVars>>
MotionAlone == focus = "motion" /\ UNCHANGED <<focus, elsewhere, soundVars, sumVars, recVars, watchVars>>
SoundAlone == focus = "sound" /\ UNCHANGED <<focus, elsewhere, motionVars, sumVars, recVars, watchVars>>
SumsAlone == focus = "sums" /\ UNCHANGED <<focus, elsewhere, motionVars, soundVars, recVars, watchVars>>
RecAlone == focus = "recogniser" /\ UNCHANGED <<focus, elsewhere, motionVars, soundVars, sumVars, watchVars>>
WatchAlone == focus = "watch" /\ UNCHANGED <<focus, elsewhere, motionVars, soundVars, sumVars, recVars>>

AllNext ==
  \/ IsNewsy /\ Next /\ NewsAlone
  \/ MotionAlone /\ MotionNext
  \/ SoundAlone /\ SoundNext
  \/ SumsAlone /\ Adds
  \/ RecAlone /\ RecNext
  \/ WatchAlone /\ WatchNext

AllSpec == AllInit /\ [][AllNext]_roundsVars
AllFairSpec ==
  /\ AllSpec
  /\ WF_roundsVars(IsNewsy /\ Goroutines /\ NewsAlone)
  /\ WF_roundsVars(RecAlone /\ Worker)
  /\ WF_roundsVars(RecAlone /\ Rounds)

\* What has begun comes to an end: every piece of news, and the recogniser's closing.
WhatBeginsEnds == EveryNewsEnds /\ TheRecogniserCloses
=============================================================================
