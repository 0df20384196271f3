--------------------------- MODULE CaptureProofs ---------------------------
(***************************************************************************)
(* Proofs about what captures: the camera's supervisor (Camera), the       *)
(* microphone's (Microphone), the encoder's commands (Encoder) and what the*)
(* pipeline watches meanwhile (PipelineWatches), for any devices, bitrates *)
(* and number of events.                                                   *)
(*                                                                         *)
(* Each part has an inductive invariant of its own.  The camera's prices   *)
(* what could still make its supervisor turn without a wait (Owed), and    *)
(* shows that it has been paid for; the encoder's says which encoder every *)
(* stage of the frame loop holds, and what the probe has to give back; the *)
(* watches' relate what is counted to the looks, windows and promises.     *)
(***************************************************************************)
EXTENDS Camera, Microphone, Encoder, PipelineWatches, Integers, TLAPS

-----------------------------------------------------------------------------
(*                                The camera                               *)

If(b) == IF b THEN 1 ELSE 0

\* The turns without a wait that could follow from what has been marked so far:
\* a mark of which the end is still to come, the token, what the chooser is about
\* to leave, a wish that is stale when the session looks again, a watch that has
\* found the camera.
MarkOwed == If(camReopen /\ camTurn \notin {"turn", "done"})
TokenOwed == If(camWake)
ChooserOwed == CASE chooser = "chosen" -> 2
                 [] chooser \in {"marked", "closed"} -> 1
                 [] OTHER -> 0
LookOwed == If(camTurn \in {"resolving", "opening", "opened"} /\ camAsked # camWanted)
WatchOwed == If(camWatch = "found")
LateOwed == If(lateWatch = "found")

Owed == MarkOwed + TokenOwed + ChooserOwed + LookOwed + WatchOwed + LateOwed

TurnsArePaidFor == credit >= Owed

\* From Reaches to the next Starts, whoever cancels reaches this session.
SessionIsReachable ==
  camTurn \in {"reachable", "resolving", "opening", "opened", "capturing"} => camCancel = "present"

\* A session gone by a wish that is past is being closed.
StaleIsBeingClosed ==
  camTurn = "capturing" /\ ~camCancelled /\ camAsked # camWanted => chooser \in {"chosen", "marked"}

\* A wish that came after it was read has a token, or is about to leave one.
\* Before the wish is read there is no camera.
Read == \/ camTurn \in {"resolving", "opening", "opened", "capturing"}
        \/ camTurn \in {"ended", "waiting"} /\ camPicked # NoCamera
StaleIsAwake == Read /\ camAsked # camWanted => camWake \/ chooser # "idle"
NoCameraYet == camTurn = "starting" => camPicked = NoCamera

CameraInv ==
  /\ CameraTypeOK /\ TurnsArePaidFor /\ SessionIsReachable /\ StaleIsBeingClosed
  /\ StaleIsAwake /\ NoCameraYet

-----------------------------------------------------------------------------
(*                              The microphone                             *)

MicIsReachable == micTurn \in {"stored", "cleared", "opening", "opened", "capturing"} => micReach

MicStaleIsBeingClosed ==
  micTurn = "capturing" /\ ~micCancelled /\ micAsked # micWanted => micChooser \in {"chosen", "marked"}

MicStaleIsAwake ==
  micTurn \in {"opening", "opened", "capturing", "ended", "silent", "waiting"} /\ micAsked # micWanted
    => micWake \/ micChooser # "idle"

MicInv == MicTypeOK /\ MicIsReachable /\ MicStaleIsBeingClosed /\ MicStaleIsAwake

-----------------------------------------------------------------------------
(*                               The encoder                               *)

\* Which encoder may be commanded at each stage, and that it is not closed: the
\* later the encoder, the higher its number.
StagesHold ==
  /\ encTurn \in {"up", "rebuilding"} => control = encBuilt /\ control # 0
  /\ encTurn = "built" => control = encBuilt - 1 /\ control # 0
  /\ encTurn = "swapped" => control = encBuilt /\ encOld = encBuilt - 1 /\ encOld # 0
  /\ encTurn \in {"left", "broken"} => encOld # 0
  /\ encTurn \in {"down", "left", "ended", "broken", "failed"} => control = 0

ClosedAreOlder ==
  \A e \in encClosed : e <= encBuilt /\ (control # 0 => e < control)

\* A call holds the encoder that may be commanded, and so none is replaced.
CallsHoldTheLock ==
  \A c \in Callers : encCalls[c].at # "idle" => encCalls[c].gen = control /\ control # 0

\* While nobody but the probe commands: what it lowered, and where what was there
\* before is kept.
Undisturbed == commands = 0 /\ ~deaf
OnlyTheProbe == commands = 0 => encCalls["governor"].at = "idle"
AsLeft ==
  IF encCalls["probe"].at = "idle" THEN curKbps = leftKbps
  ELSE encCalls["probe"].kbps = leftKbps /\ (encCalls["probe"].at = "noted" => curKbps = leftKbps)
Halved ==
  /\ probe.before = leftKbps
  /\ encCalls["probe"].at # "idle" => encCalls["probe"].kbps = probe.asked
  /\ encCalls["probe"].at # "reads" => curKbps = probe.asked
TheProbeRemembers ==
  Undisturbed =>
    /\ probe.at \in {"no", "first"} => AsLeft
    /\ probe.at = "second" => Halved
    /\ probe.at = "back" => probe.before = leftKbps /\ encCalls["probe"].at = "idle"

\* A rebuild is deposited only for an encoder that was found deaf, and is not once
\* rebuilding was found to break this machine's: one may have been deposited before.
OnlyTheDeafAreRebuilt == ~deaf => wantReconfig = 0 /\ ~suspect /\ ~reconfigBroken
BreakingIsSuspect == encTurn \in {"rebuilding", "broken", "failed"} => suspect
TheLastIsTaken ==
  reconfigBroken /\ encTurn \in {"rebuilding", "broken", "failed"} => wantReconfig = 0
BreaksAreCounted ==
  IF reconfigBroken THEN broke <= switches + (IF wantReconfig # 0 \/ encTurn = "rebuilding" THEN 1 ELSE 2)
  ELSE broke <= switches + If(encTurn \in {"broken", "failed"})

EncoderInv ==
  /\ EncoderTypeOK /\ StagesHold /\ ClosedAreOlder /\ CallsHoldTheLock
  /\ OnlyTheProbe /\ TheProbeRemembers
  /\ OnlyTheDeafAreRebuilt /\ BreakingIsSuspect /\ TheLastIsTaken /\ BreaksAreCounted


\* Every action of the supervisor, of whoever chooses, of the watches and of the
\* room keeps the camera's invariant.
LEMMA CameraStep == CameraInv /\ [CameraNext]_camVars => CameraInv'
<1> SUFFICES ASSUME CameraInv, [CameraNext]_camVars PROVE CameraInv'
  OBVIOUS
<1> USE CameraAssumption DEF CameraInv, CameraTypeOK, Wishes, CamTurns, TurnsArePaidFor, Owed, MarkOwed,
        TokenOwed, ChooserOwed, LookOwed, WatchOwed, LateOwed, If, SessionIsReachable,
        StaleIsBeingClosed, Read, StaleIsAwake, NoCameraYet,
        camVars, camMarks, session, watches, room, counts, Event
<1>1. CASE Starts
  <2>1. /\ camTurn = "turn" /\ ~camQuit /\ camReopen' = FALSE /\ camCancelled' = FALSE
        /\ camCancel' \in {"nobody", "past", "present"}
        /\ camTurn' = "starting" /\ camFailed' = FALSE /\ camPicked' = NoCamera
        /\ UNCHANGED <<camWanted, camWake, camAsked, camFellBack, camDenied, camBackoff,
                       camWatch, lateWatch, chooser, plugged, granted, camQuit, events, credit>>
    BY <1>1 DEF Starts, ReopenAtStart
  <2>2. CameraTypeOK'
    BY <2>1
  <2>3. TurnsArePaidFor'
    BY <2>1
  <2>4. SessionIsReachable' /\ StaleIsBeingClosed' /\ StaleIsAwake' /\ NoCameraYet'
    BY <2>1
  <2> QED
    BY <2>2, <2>3, <2>4
<1>2. CASE StartFails
  BY <1>2 DEF StartFails
<1>3. CASE Reaches
  BY <1>3 DEF Reaches
<1>4. CASE ReadsTheWish
  BY <1>4 DEF ReadsTheWish
<1>5. CASE Resolves
  BY <1>5 DEF Resolves, Pick, NoEvent
<1>6. CASE Opens
  <2>1. camFellBack' \in BOOLEAN
    BY <1>6 DEF Opens
  <2>2. /\ camTurn = "opening" /\ camTurn' = "opened" /\ camDenied' = FALSE /\ camWatch' = "ticking"
        /\ UNCHANGED <<camMarks, camAsked, camPicked, camFailed, camBackoff, lateWatch, chooser, room, counts>>
    BY <1>6 DEF Opens
  <2>3. camDenied' \in BOOLEAN /\ {camWatch', lateWatch'} \subseteq {"none", "ticking", "found", "marked"}
    BY <2>2
  <2>4. CameraTypeOK'
    BY <2>1, <2>2, <2>3
  <2>5. TurnsArePaidFor'
    BY <2>1, <2>2
  <2> QED
    BY <2>1, <2>2, <2>4, <2>5
<1>7. CASE OpenFails
  BY <1>7 DEF OpenFails
<1>8. CASE LooksAgain
  <2>1. camReopen' \in BOOLEAN /\ camCancelled' \in BOOLEAN
    BY <1>8 DEF LooksAgain, IsStale
  <2>2. /\ camReopen' <=> camReopen \/ camWanted # camAsked
        /\ camCancelled' <=> camCancelled \/ camWanted # camAsked
    BY <1>8 DEF LooksAgain, IsStale
  <2>3. /\ camTurn = "opened" /\ camTurn' = "capturing"
        /\ UNCHANGED <<camWanted, camWake, camCancel, camAsked, camPicked, camFellBack, camDenied,
                       camFailed, camBackoff, watches, chooser, room, counts>>
    BY <1>8 DEF LooksAgain
  <2> QED
    BY <2>1, <2>2, <2>3
<1>9. CASE Closes
  <2>1. /\ camTurn = "capturing" /\ camTurn' = "ended" /\ camFailed' = FALSE /\ camWatch' = "none"
        /\ \/ lateWatch = "none" /\ lateWatch' = camWatch
           \/ lateWatch' = lateWatch
        /\ UNCHANGED <<camMarks, camAsked, camPicked, camFellBack, camDenied, camBackoff, chooser, room, counts>>
    BY <1>9 DEF Closes, Leaves, NoEvent
  <2>2. camFailed' \in BOOLEAN
    BY <2>1
  <2>3. {camWatch', lateWatch'} \subseteq {"none", "ticking", "found", "marked"}
    BY <2>1
  <2>4. CameraTypeOK'
    BY <2>1, <2>2, <2>3
  <2>5. TurnsArePaidFor'
    BY <2>1
  <2> QED
    BY <2>1, <2>4, <2>5
<1>10. CASE CaptureFails
  BY <1>10 DEF CaptureFails, Leaves
<1>11. CASE ComesBackAtOnce
  BY <1>11 DEF ComesBackAtOnce
<1>12. CASE WillWait
  BY <1>12 DEF WillWait
<1>13. CASE WaitsOut
  BY <1>13 DEF WaitsOut, Doubled
<1>14. CASE IsWoken
  <2>1. camWake' \in BOOLEAN
    BY <1>14 DEF IsWoken
  <2>2. credit' \in Int /\ camTurn' \in CamTurns
    BY <1>14 DEF IsWoken
  <2>3. camBackoff' \in 1..MaxBackoff
    BY <1>14 DEF IsWoken, Doubled
  <2>4. CameraTypeOK'
    BY <1>14, <2>3, <2>1, <2>2 DEF IsWoken
  <2>5. TurnsArePaidFor'
    BY <1>14 DEF IsWoken
  <2> QED
    BY <1>14, <2>4, <2>5 DEF IsWoken
<1>15. CASE Supervisor_Ends
  BY <1>15 DEF Supervisor_Ends
<1>16. CASE \E wish \in Wishes : Chooses(wish)
  BY <1>16 DEF Chooses
<1>17. CASE Marks
  BY <1>17 DEF Marks
<1>18. CASE Cancels
  <2>1. camCancelled' \in BOOLEAN
    BY <1>18 DEF Cancels, CancelsStored
  <2>2. camCancelled' <=> camCancelled \/ camCancel = "present"
    BY <1>18 DEF Cancels, CancelsStored
  <2>3. /\ chooser = "marked" /\ chooser' = "closed"
        /\ UNCHANGED <<camWanted, camReopen, camWake, camCancel, session, watches, room, counts>>
    BY <1>18 DEF Cancels
  <2> QED
    BY <2>1, <2>2, <2>3
<1>19. CASE Wakes
  BY <1>19 DEF Wakes, Woken
<1>20. CASE WatchFinds
  BY <1>20 DEF WatchFinds, Finds
<1>21. CASE WatchMarks
  BY <1>21 DEF WatchMarks
<1>22. CASE WatchCancels
  BY <1>22 DEF WatchCancels, CancelsStored
<1>23. CASE LateFinds
  BY <1>23 DEF LateFinds, Finds
<1>24. CASE LateGivesUp
  BY <1>24 DEF LateGivesUp
<1>25. CASE LateMarks
  BY <1>25 DEF LateMarks
<1>26. CASE LateCancels
  BY <1>26 DEF LateCancels, CancelsStored
<1>27. CASE \E c \in Cameras : Replugs(c)
  BY <1>27 DEF Replugs
<1>28. CASE Permission
  BY <1>28 DEF Permission
<1>29. CASE CameraQuits
  BY <1>29 DEF CameraQuits
<1>30. CASE UNCHANGED camVars
  BY <1>30
<1> QED
  BY <1>1, <1>2, <1>3, <1>4, <1>5, <1>6, <1>7, <1>8, <1>9, <1>10, <1>11, <1>12, <1>13, <1>14, <1>15, <1>16, <1>17, <1>18, <1>19, <1>20, <1>21, <1>22, <1>23, <1>24, <1>25, <1>26, <1>27, <1>28, <1>29, <1>30
     DEF CameraNext, Supervises, SetCamera, Watches, LateWatches, Room

\* No session captures for a wish that is past unless it is being closed, no
\* choice waits out a backoff, and no fault turns into a loop at full speed: for
\* any cameras, and any number of choices and failures (SetCamera, runOnce,
\* watchForTheChosenCamera).
THEOREM TheCameraObeys == CameraSpec => []CameraSafety
<1>1. CameraInit => CameraInv
  <2> SUFFICES ASSUME CameraInit PROVE CameraInv
    OBVIOUS
  <2>1. CameraTypeOK
    <3>1. camWanted \in Wishes /\ camAsked \in Wishes /\ camPicked \in Wishes \cup {NoCamera}
      BY DEF CameraInit
    <3>2. /\ {camWatch, lateWatch} \subseteq {"none", "ticking", "found", "marked"}
          /\ camBackoff \in 1..MaxBackoff /\ events \in 0..MaxEvents /\ credit \in Int
      BY CameraAssumption DEF CameraInit
    <3>3. /\ camReopen \in BOOLEAN /\ camWake \in BOOLEAN /\ camCancelled \in BOOLEAN
          /\ camFellBack \in BOOLEAN /\ camDenied \in BOOLEAN /\ camFailed \in BOOLEAN
          /\ granted \in BOOLEAN /\ camQuit \in BOOLEAN
      BY DEF CameraInit
    <3> QED
      BY <3>1, <3>2, <3>3 DEF CameraInit, CameraTypeOK, CamTurns
  <2>2. TurnsArePaidFor
    BY DEF CameraInit, TurnsArePaidFor, Owed, MarkOwed, TokenOwed, ChooserOwed, LookOwed, WatchOwed,
           LateOwed, If
  <2> QED
    BY <2>1, <2>2 DEF CameraInit, CameraInv, SessionIsReachable, StaleIsBeingClosed, Read,
                      StaleIsAwake, NoCameraYet
<1>2. CameraInv => CameraSafety
  <2> SUFFICES ASSUME CameraInv PROVE CameraSafety
    OBVIOUS
  <2>1. NoHotLoop
    BY DEF CameraInv, TurnsArePaidFor, Owed, MarkOwed, TokenOwed, ChooserOwed, LookOwed, WatchOwed,
           LateOwed, If, NoHotLoop, CameraTypeOK
  <2>2. TheWishIsApplied /\ NoChoiceWaits
    BY DEF CameraInv, StaleIsBeingClosed, Read, StaleIsAwake, TheWishIsApplied, NoChoiceWaits
  <2> QED
    BY <2>1, <2>2 DEF CameraInv, CameraSafety
<1> QED
  BY <1>1, <1>2, CameraStep, PTL DEF CameraSpec

-----------------------------------------------------------------------------
\* Every action of the microphone's supervisor, of whoever chooses and of the
\* room keeps its invariant.
LEMMA MicStep == MicInv /\ [MicNext]_micVars => MicInv'
<1> SUFFICES ASSUME MicInv, [MicNext]_micVars PROVE MicInv'
  OBVIOUS
<1> USE MicrophoneAssumption DEF MicInv, MicTypeOK, MicWishes, MicTurns, MicEnds, MicIsReachable,
        MicStaleIsBeingClosed, MicStaleIsAwake, micVars, micMarks, micSession, shown, desk, MicEvent
<1>1. CASE MicStarts
  BY <1>1 DEF MicStarts
<1>2. CASE MicClears
  BY <1>2 DEF MicClears
<1>3. CASE MicReadsTheWish
  BY <1>3 DEF MicReadsTheWish
<1>4. CASE MicOpens
  BY <1>4 DEF MicOpens, Answers
<1>5. CASE MicLooksAgain
  BY <1>5 DEF MicLooksAgain
<1>6. CASE MicCloses
  BY <1>6 DEF MicCloses, MicReturns, EndOf
<1>7. CASE MicFails
  BY <1>7 DEF MicFails, MicReturns, EndOf
<1>8. CASE MicPanics
  BY <1>8 DEF MicPanics, MicReturns
<1>9. CASE MicFallsSilent
  BY <1>9 DEF MicFallsSilent
<1>10. CASE MicComesBack
  BY <1>10 DEF MicComesBack
<1>11. CASE MicWillWait
  BY <1>11 DEF MicWillWait
<1>12. CASE MicTriesAgain
  BY <1>12 DEF MicTriesAgain
<1>13. CASE MicEndsForGood
  BY <1>13 DEF MicEndsForGood
<1>14. CASE MicRechecks
  BY <1>14 DEF MicRechecks
<1>15. CASE GraceEnds
  <2>1. micGrace' \in BOOLEAN
    BY <1>15 DEF GraceEnds
  <2>2. MicTypeOK'
    BY <1>15, <2>1 DEF GraceEnds
  <2> QED
    BY <1>15, <2>2 DEF GraceEnds
<1>16. CASE \E wish \in MicWishes : MicChooses(wish)
  BY <1>16 DEF MicChooses
<1>17. CASE MicMarked
  BY <1>17 DEF MicMarked
<1>18. CASE MicCancels
  BY <1>18 DEF MicCancels, MicCancelsStored
<1>19. CASE MicWakes
  BY <1>19 DEF MicWakes, LeavesToken
<1>20. CASE \E e \in Mics : MicReplugs(e)
  BY <1>20 DEF MicReplugs
<1>21. CASE MicIsTaken
  BY <1>21 DEF MicIsTaken
<1>22. CASE MicQuits
  BY <1>22 DEF MicQuits
<1>23. CASE UNCHANGED micVars
  BY <1>23
<1> QED
  BY <1>1, <1>2, <1>3, <1>4, <1>5, <1>6, <1>7, <1>8, <1>9, <1>10, <1>11, <1>12, <1>13,
     <1>14, <1>15, <1>16, <1>17, <1>18, <1>19, <1>20, <1>21, <1>22, <1>23
     DEF MicNext, MicSupervises, MicGoesOnChoosing

\* No microphone captures for a wish that is past unless it is being closed,
\* although the mark of a choice can be cleared under it, and no choice waits
\* out a backoff (superviseAudio, runAudio, SetMicDevice).
THEOREM TheMicrophoneObeys == MicSpec => []MicrophoneSafety
<1>1. MicInit => MicInv
  <2> SUFFICES ASSUME MicInit PROVE MicInv
    OBVIOUS
  <2>1. MicTypeOK
    <3>1. {micReopen, micWake, micReach, micCancelled, micPoor, micRecheck, audioOK, micGrace,
           clean, micQuit} \subseteq BOOLEAN
      BY DEF MicInit
    <3>2. micWanted \in MicWishes /\ micAsked \in MicWishes /\ micOpen \in Mics \cup {NoMic}
      BY DEF MicInit, MicWishes
    <3> QED
      BY <3>1, <3>2, MicrophoneAssumption DEF MicInit, MicTypeOK, MicTurns, MicEnds
  <2> QED
    BY <2>1 DEF MicInit, MicInv, MicIsReachable, MicStaleIsBeingClosed, MicStaleIsAwake
<1>2. MicInv => MicrophoneSafety
  BY DEF MicInv, MicStaleIsBeingClosed, MicStaleIsAwake, MicrophoneSafety, TheMicWishIsApplied, NoMicChoiceWaits
<1> QED
  BY <1>1, <1>2, MicStep, PTL DEF MicSpec

-----------------------------------------------------------------------------
\* The types, given the stages.
LEMMA EncoderTypeStep ==
  EncoderTypeOK /\ StagesHold /\ [EncoderNext]_encVars => (EncoderTypeOK)'
<1> SUFFICES ASSUME EncoderTypeOK, StagesHold, [EncoderNext]_encVars
             PROVE  (EncoderTypeOK)'
  OBVIOUS
<1> USE EncoderAssumption DEF EncoderTypeOK, StagesHold, Gens, encVars, encoderVars,
        wishes, verdicts, probing, encCounts, NoCall, Callers
<1>1. ASSUME NEW kbps \in Rates, Governs(kbps) PROVE (EncoderTypeOK)'
  BY <1>1 DEF Governs, Calls
<1>2. ASSUME NEW kbps \in Rates, IsTakenForDeaf(kbps) PROVE (EncoderTypeOK)'
  BY <1>2 DEF IsTakenForDeaf
<1>3. ASSUME NEW c \in Callers, Notes(c) PROVE (EncoderTypeOK)'
  BY <1>3 DEF Notes
<1>4. ASSUME NEW c \in Callers, Commands(c) PROVE (EncoderTypeOK)'
  BY <1>4 DEF Commands, NeedsReconfig
<1>5. CASE IsBorn
  BY <1>5 DEF IsBorn
<1>6. CASE Rebuilds
  BY <1>6 DEF Rebuilds
<1>7. CASE Swaps
  BY <1>7 DEF Swaps, Unread
<1>8. CASE ClosesOld
  BY <1>8 DEF ClosesOld
<1>9. CASE SessionLeaves
  BY <1>9 DEF SessionLeaves, TakesDown, Unread
<1>10. CASE Reconfigures
  BY <1>10 DEF Reconfigures
<1>11. CASE Rebuilt
  <2>1. CASE breaks
    <3>1. broke' \in Nat /\ control' = 0 /\ encOld' = control /\ encTurn' = "broken"
      BY <1>11, <2>1 DEF Rebuilt, TakesDown
    <3>2. UNCHANGED <<encBuilt, encClosed, encCalls, wishes, verdicts, probing, commands, switches, leftKbps>>
      BY <1>11, <2>1 DEF Rebuilt, TakesDown
    <3>3. control' \in 0..encBuilt' /\ encOld' \in 0..encBuilt'
      BY <3>1, <3>2
    <3> QED
      BY <3>1, <3>2, <3>3
  <2>2. CASE ~breaks
    BY <1>11, <2>2 DEF Rebuilt
  <2> QED
    BY <2>1, <2>2
<1>12. CASE Supervised
  BY <1>12 DEF Supervised, IsBroken
<1>13. CASE Switched
  BY <1>13 DEF Switched
<1>14. CASE Ended
  BY <1>14 DEF Ended, IsBroken
<1>15. CASE SuspicionPasses
  BY <1>15 DEF SuspicionPasses
<1>16. CASE ProbeGivesUp
  BY <1>16 DEF ProbeGivesUp, ProbeGoes
<1>17. CASE ProbeHalves
  BY <1>17 DEF ProbeHalves, Calls, SessionOver
<1>18. CASE ProbeRestores
  BY <1>18 DEF ProbeRestores, ProbeGoes, Calls
<1>19. ASSUME NEW completed \in BOOLEAN, ProbeEnds(completed) PROVE (EncoderTypeOK)'
  BY <1>19 DEF ProbeEnds, PutsBack, ProbeGoes
<1>20. CASE UNCHANGED encVars
  BY <1>20
<1>21. ASSUME NEW c \in Callers, Refuses(c) PROVE (EncoderTypeOK)'
  <2>1. UNCHANGED <<encoderVars, wishes, verdicts, commands, switches, broke>>
    BY <1>21 DEF Refuses
  <2>2. encCalls' \in [Callers -> [at : {"idle", "reads", "noted"}, kbps : Nat, gen : 0..MaxEncoders]]
    BY <1>21 DEF Refuses
  <2>3. probe' \in [at : {"no", "first", "second", "back"}, before : Nat, asked : Nat]
    BY <1>21 DEF Refuses
  <2>4. brProbed' \in BOOLEAN /\ leftKbps' \in Nat
    BY <1>21 DEF Refuses
  <2> QED
    BY <2>1, <2>2, <2>3, <2>4
<1> QED
  BY <1>1, <1>2, <1>3, <1>4, <1>5, <1>6, <1>7, <1>8, <1>9, <1>10, <1>11, <1>12, <1>13,
     <1>14, <1>15, <1>16, <1>17, <1>18, <1>19, <1>20, <1>21 DEF EncoderNext

\* Nothing is replaced under a call, and what is closed was replaced before.
LEMMA EncoderStagesStep ==
  EncoderTypeOK /\ StagesHold /\ ClosedAreOlder /\ CallsHoldTheLock /\ [EncoderNext]_encVars => (StagesHold /\ ClosedAreOlder /\ CallsHoldTheLock)'
<1> SUFFICES ASSUME EncoderTypeOK, StagesHold, ClosedAreOlder, CallsHoldTheLock, [EncoderNext]_encVars
             PROVE  (StagesHold /\ ClosedAreOlder /\ CallsHoldTheLock)'
  OBVIOUS
<1> USE EncoderAssumption DEF EncoderTypeOK, StagesHold, ClosedAreOlder, CallsHoldTheLock,
        encVars, encoderVars, wishes, verdicts, probing, encCounts, NoCall, Callers
<1>1. ASSUME NEW kbps \in Rates, Governs(kbps) PROVE (StagesHold /\ ClosedAreOlder /\ CallsHoldTheLock)'
  BY <1>1 DEF Governs, Calls
<1>2. ASSUME NEW kbps \in Rates, IsTakenForDeaf(kbps) PROVE (StagesHold /\ ClosedAreOlder /\ CallsHoldTheLock)'
  BY <1>2 DEF IsTakenForDeaf
<1>3. ASSUME NEW c \in Callers, Notes(c) PROVE (StagesHold /\ ClosedAreOlder /\ CallsHoldTheLock)'
  BY <1>3 DEF Notes
<1>4. ASSUME NEW c \in Callers, Commands(c) PROVE (StagesHold /\ ClosedAreOlder /\ CallsHoldTheLock)'
  BY <1>4 DEF Commands, NeedsReconfig
<1>5. CASE IsBorn
  <2>1. StagesHold'
    BY <1>5 DEF IsBorn
  <2>2. ClosedAreOlder'
    <3> SUFFICES ASSUME NEW e \in encClosed' PROVE e <= encBuilt' /\ e < control'
      OBVIOUS
    <3>1. encClosed' = encClosed /\ encClosed \subseteq Nat /\ encBuilt \in Nat
      BY <1>5 DEF IsBorn, Gens
    <3>2. encBuilt' = encBuilt + 1 /\ control' = encBuilt + 1
      BY <1>5 DEF IsBorn
    <3>3. e \in Nat /\ e <= encBuilt
      BY <3>1
    <3> QED
      BY <3>1, <3>2, <3>3
  <2>3. CallsHoldTheLock'
    BY <1>5 DEF IsBorn
  <2> QED
    BY <2>1, <2>2, <2>3
<1>6. CASE Rebuilds
  <2>1. StagesHold'
    BY <1>6 DEF Rebuilds
  <2>2. ClosedAreOlder'
    <3>1. encClosed' = encClosed /\ encClosed \subseteq Nat /\ encBuilt \in Nat /\ control \in Nat
      BY <1>6 DEF Rebuilds, Gens
    <3> QED
      BY <1>6, <3>1 DEF Rebuilds
  <2>3. CallsHoldTheLock'
    BY <1>6 DEF Rebuilds
  <2> QED
    BY <2>1, <2>2, <2>3
<1>7. CASE Swaps
  <2>1. StagesHold'
    BY <1>7 DEF Swaps, Unread
  <2>2. ClosedAreOlder'
    <3>1. encClosed' = encClosed /\ encClosed \subseteq Nat /\ encBuilt \in Nat /\ control \in Nat
      BY <1>7 DEF Swaps, Unread, Gens
    <3> QED
      BY <1>7, <3>1 DEF Swaps, Unread
  <2>3. CallsHoldTheLock'
    BY <1>7 DEF Swaps, Unread
  <2> QED
    BY <2>1, <2>2, <2>3
<1>8. CASE ClosesOld
  BY <1>8 DEF ClosesOld
<1>9. CASE SessionLeaves
  BY <1>9 DEF SessionLeaves, TakesDown, Unread
<1>10. CASE Reconfigures
  BY <1>10 DEF Reconfigures
<1>11. CASE Rebuilt
  BY <1>11 DEF Rebuilt, TakesDown, Unread
<1>12. CASE Supervised
  BY <1>12 DEF Supervised, IsBroken
<1>13. CASE Switched
  BY <1>13 DEF Switched
<1>14. CASE Ended
  BY <1>14 DEF Ended, IsBroken
<1>15. CASE SuspicionPasses
  BY <1>15 DEF SuspicionPasses
<1>16. CASE ProbeGivesUp
  BY <1>16 DEF ProbeGivesUp, ProbeGoes
<1>17. CASE ProbeHalves
  BY <1>17 DEF ProbeHalves, Calls, SessionOver
<1>18. CASE ProbeRestores
  BY <1>18 DEF ProbeRestores, ProbeGoes, Calls
<1>19. ASSUME NEW completed \in BOOLEAN, ProbeEnds(completed) PROVE (StagesHold /\ ClosedAreOlder /\ CallsHoldTheLock)'
  BY <1>19 DEF ProbeEnds, PutsBack, ProbeGoes
<1>20. CASE UNCHANGED encVars
  BY <1>20
<1>21. ASSUME NEW c \in Callers, Refuses(c) PROVE (StagesHold /\ ClosedAreOlder /\ CallsHoldTheLock)'
  BY <1>21 DEF Refuses, NeedsReconfig
<1> QED
  BY <1>1, <1>2, <1>3, <1>4, <1>5, <1>6, <1>7, <1>8, <1>9, <1>10, <1>11, <1>12, <1>13,
     <1>14, <1>15, <1>16, <1>17, <1>18, <1>19, <1>20, <1>21 DEF EncoderNext

\* What the probe lowered it has to give back, until somebody else commands.
LEMMA EncoderProbeStep ==
  EncoderTypeOK /\ StagesHold /\ CallsHoldTheLock /\ OnlyTheProbe /\ TheProbeRemembers /\ [EncoderNext]_encVars => (OnlyTheProbe /\ TheProbeRemembers)'
<1> SUFFICES ASSUME EncoderTypeOK, StagesHold, CallsHoldTheLock, OnlyTheProbe, TheProbeRemembers, [EncoderNext]_encVars
             PROVE  (OnlyTheProbe /\ TheProbeRemembers)'
  OBVIOUS
<1> USE EncoderAssumption DEF EncoderTypeOK, StagesHold, CallsHoldTheLock, OnlyTheProbe,
        TheProbeRemembers, Undisturbed, AsLeft, Halved, encVars, encoderVars, wishes,
        verdicts, probing, encCounts, NoCall, Callers
<1>1. ASSUME NEW kbps \in Rates, Governs(kbps) PROVE (OnlyTheProbe /\ TheProbeRemembers)'
  BY <1>1 DEF Governs, Calls
<1>2. ASSUME NEW kbps \in Rates, IsTakenForDeaf(kbps) PROVE (OnlyTheProbe /\ TheProbeRemembers)'
  BY <1>2 DEF IsTakenForDeaf
<1>3. ASSUME NEW c \in Callers, Notes(c) PROVE (OnlyTheProbe /\ TheProbeRemembers)'
  BY <1>3 DEF Notes
<1>4. ASSUME NEW c \in Callers, Commands(c) PROVE (OnlyTheProbe /\ TheProbeRemembers)'
  BY <1>4 DEF Commands, NeedsReconfig
<1>5. CASE IsBorn
  BY <1>5 DEF IsBorn
<1>6. CASE Rebuilds
  BY <1>6 DEF Rebuilds
<1>7. CASE Swaps
  BY <1>7 DEF Swaps, Unread
<1>8. CASE ClosesOld
  BY <1>8 DEF ClosesOld
<1>9. CASE SessionLeaves
  BY <1>9 DEF SessionLeaves, TakesDown, Unread
<1>10. CASE Reconfigures
  BY <1>10 DEF Reconfigures
<1>11. CASE Rebuilt
  BY <1>11 DEF Rebuilt, TakesDown, Unread
<1>12. CASE Supervised
  BY <1>12 DEF Supervised, IsBroken
<1>13. CASE Switched
  BY <1>13 DEF Switched
<1>14. CASE Ended
  BY <1>14 DEF Ended, IsBroken
<1>15. CASE SuspicionPasses
  BY <1>15 DEF SuspicionPasses
<1>16. CASE ProbeGivesUp
  BY <1>16 DEF ProbeGivesUp, ProbeGoes
<1>17. CASE ProbeHalves
  BY <1>17 DEF ProbeHalves, Calls, SessionOver
<1>18. CASE ProbeRestores
  BY <1>18 DEF ProbeRestores, ProbeGoes, Calls
<1>19. ASSUME NEW completed \in BOOLEAN, ProbeEnds(completed) PROVE (OnlyTheProbe /\ TheProbeRemembers)'
  BY <1>19 DEF ProbeEnds, PutsBack, ProbeGoes
<1>20. CASE UNCHANGED encVars
  BY <1>20
<1>21. ASSUME NEW c \in Callers, Refuses(c) PROVE (OnlyTheProbe /\ TheProbeRemembers)'
  BY <1>21 DEF Refuses, NeedsReconfig
<1> QED
  BY <1>1, <1>2, <1>3, <1>4, <1>5, <1>6, <1>7, <1>8, <1>9, <1>10, <1>11, <1>12, <1>13,
     <1>14, <1>15, <1>16, <1>17, <1>18, <1>19, <1>20, <1>21 DEF EncoderNext

\* A rebuild that breaks is counted against a deposit, or against a camera chosen.
LEMMA EncoderBreaksStep ==
  EncoderTypeOK /\ OnlyTheDeafAreRebuilt /\ BreakingIsSuspect /\ TheLastIsTaken /\ BreaksAreCounted /\ [EncoderNext]_encVars => (OnlyTheDeafAreRebuilt /\ BreakingIsSuspect /\ TheLastIsTaken /\ BreaksAreCounted)'
<1> SUFFICES ASSUME EncoderTypeOK, OnlyTheDeafAreRebuilt, BreakingIsSuspect, TheLastIsTaken, BreaksAreCounted, [EncoderNext]_encVars
             PROVE  (OnlyTheDeafAreRebuilt /\ BreakingIsSuspect /\ TheLastIsTaken /\ BreaksAreCounted)'
  OBVIOUS
<1> USE EncoderAssumption DEF EncoderTypeOK, OnlyTheDeafAreRebuilt, BreakingIsSuspect,
        TheLastIsTaken, BreaksAreCounted, If, encVars, encoderVars, wishes, verdicts,
        probing, encCounts, NoCall, Callers
<1>1. ASSUME NEW kbps \in Rates, Governs(kbps) PROVE (OnlyTheDeafAreRebuilt /\ BreakingIsSuspect /\ TheLastIsTaken /\ BreaksAreCounted)'
  BY <1>1 DEF Governs, Calls
<1>2. ASSUME NEW kbps \in Rates, IsTakenForDeaf(kbps) PROVE (OnlyTheDeafAreRebuilt /\ BreakingIsSuspect /\ TheLastIsTaken /\ BreaksAreCounted)'
  BY <1>2 DEF IsTakenForDeaf
<1>3. ASSUME NEW c \in Callers, Notes(c) PROVE (OnlyTheDeafAreRebuilt /\ BreakingIsSuspect /\ TheLastIsTaken /\ BreaksAreCounted)'
  BY <1>3 DEF Notes
<1>4. ASSUME NEW c \in Callers, Commands(c) PROVE (OnlyTheDeafAreRebuilt /\ BreakingIsSuspect /\ TheLastIsTaken /\ BreaksAreCounted)'
  BY <1>4 DEF Commands, NeedsReconfig
<1>5. CASE IsBorn
  BY <1>5 DEF IsBorn
<1>6. CASE Rebuilds
  BY <1>6 DEF Rebuilds
<1>7. CASE Swaps
  BY <1>7 DEF Swaps, Unread
<1>8. CASE ClosesOld
  BY <1>8 DEF ClosesOld
<1>9. CASE SessionLeaves
  BY <1>9 DEF SessionLeaves, TakesDown, Unread
<1>10. CASE Reconfigures
  BY <1>10 DEF Reconfigures
<1>11. CASE Rebuilt
  BY <1>11 DEF Rebuilt, TakesDown, Unread
<1>12. CASE Supervised
  BY <1>12 DEF Supervised, IsBroken
<1>13. CASE Switched
  BY <1>13 DEF Switched
<1>14. CASE Ended
  BY <1>14 DEF Ended, IsBroken
<1>15. CASE SuspicionPasses
  BY <1>15 DEF SuspicionPasses
<1>16. CASE ProbeGivesUp
  BY <1>16 DEF ProbeGivesUp, ProbeGoes
<1>17. CASE ProbeHalves
  BY <1>17 DEF ProbeHalves, Calls, SessionOver
<1>18. CASE ProbeRestores
  BY <1>18 DEF ProbeRestores, ProbeGoes, Calls
<1>19. ASSUME NEW completed \in BOOLEAN, ProbeEnds(completed) PROVE (OnlyTheDeafAreRebuilt /\ BreakingIsSuspect /\ TheLastIsTaken /\ BreaksAreCounted)'
  BY <1>19 DEF ProbeEnds, PutsBack, ProbeGoes
<1>20. CASE UNCHANGED encVars
  BY <1>20
<1>21. ASSUME NEW c \in Callers, Refuses(c) PROVE (OnlyTheDeafAreRebuilt /\ BreakingIsSuspect /\ TheLastIsTaken /\ BreaksAreCounted)'
  BY <1>21 DEF Refuses, NeedsReconfig
<1> QED
  BY <1>1, <1>2, <1>3, <1>4, <1>5, <1>6, <1>7, <1>8, <1>9, <1>10, <1>11, <1>12, <1>13,
     <1>14, <1>15, <1>16, <1>17, <1>18, <1>19, <1>20, <1>21 DEF EncoderNext

\* No command reaches an encoder that is closed, the probe gives back what it
\* lowered, which is not what an encoder refused to lower, and a machine whose encoder stops when it is rebuilt is stopped so
\* once, once more for what was deposited already, and once for each camera
\* chosen at that very moment: for any bitrates and any number of encoders and
\* commands (SetBitrate, probeBitrate, applyReconfig, reconfigIsBroken).
THEOREM TheEncoderIsHeld == EncoderSpec => []EncoderSafety
<1>1. EncoderInit => EncoderInv
  <2> SUFFICES ASSUME EncoderInit PROVE EncoderInv
    OBVIOUS
  <2>1. encCalls \in [Callers -> [at : {"idle", "reads", "noted"}, kbps : Nat, gen : 0..MaxEncoders]]
    BY EncoderAssumption DEF EncoderInit, NoCall
  <2>2. EncoderTypeOK
    <3>1. {suspect, reconfigBroken, deaf, breaks, brProbed} \subseteq BOOLEAN
      BY DEF EncoderInit
    <3>2. probe \in [at : {"no", "first", "second", "back"}, before : Nat, asked : Nat]
      BY DEF EncoderInit
    <3> QED
      BY <2>1, <3>1, <3>2, EncoderAssumption DEF EncoderInit, EncoderTypeOK
  <2>3. StagesHold /\ ClosedAreOlder /\ CallsHoldTheLock /\ OnlyTheProbe /\ TheProbeRemembers
    BY DEF EncoderInit, StagesHold, ClosedAreOlder, CallsHoldTheLock, OnlyTheProbe,
           TheProbeRemembers, AsLeft, NoCall, Callers
  <2>4. OnlyTheDeafAreRebuilt /\ BreakingIsSuspect /\ TheLastIsTaken /\ BreaksAreCounted
    BY DEF EncoderInit, OnlyTheDeafAreRebuilt, BreakingIsSuspect, TheLastIsTaken, BreaksAreCounted, If
  <2> QED
    BY <2>2, <2>3, <2>4 DEF EncoderInv
<1>2. EncoderInv /\ [EncoderNext]_encVars => EncoderInv'
  BY EncoderTypeStep, EncoderStagesStep, EncoderProbeStep, EncoderBreaksStep DEF EncoderInv
<1>3. EncoderInv => EncoderSafety
  <2> SUFFICES ASSUME EncoderInv PROVE EncoderSafety
    OBVIOUS
  <2>1. NobodyUsesAClosed
    <3> SUFFICES ASSUME NEW c \in Callers, encCalls[c].at # "idle", encCalls[c].gen \in encClosed
                 PROVE  FALSE
      BY DEF NobodyUsesAClosed
    <3>1. encCalls[c].gen = control /\ control # 0 /\ control \in Nat
      BY DEF EncoderInv, EncoderTypeOK, CallsHoldTheLock
    <3> QED
      BY <3>1 DEF EncoderInv, ClosedAreOlder
  <2>2. TheProbeGivesBack
    BY DEF EncoderInv, TheProbeRemembers, Undisturbed, AsLeft, TheProbeGivesBack
  <2>3. RebuildsAreGivenUp
    BY DEF EncoderInv, EncoderTypeOK, BreaksAreCounted, If, RebuildsAreGivenUp
  <2> QED
    BY <2>1, <2>2, <2>3 DEF EncoderInv, EncoderSafety
<1> QED
  BY <1>1, <1>2, <1>3, PTL DEF EncoderSpec

-----------------------------------------------------------------------------
(*                               The watches                               *)

\* A number has one quotient and one remainder.
LEMMA DivisionIsUnique ==
  ASSUME NEW d \in Nat \ {0}, NEW p \in Int, NEW q \in Int,
         NEW r \in 0..(d - 1), NEW s \in 0..(d - 1), d * p + r = d * q + s
  PROVE  p = q /\ r = s
<1>1. d * (p - q) = s - r
  OBVIOUS
<1>2. CASE p - q >= 1
  <2>1. d * (p - q) >= d
    BY <1>2
  <2> QED
    BY <2>1, <1>1
<1>3. CASE p - q <= -1
  <2>1. d * (p - q) <= -d
    BY <1>3
  <2> QED
    BY <2>1, <1>1
<1>4. CASE p - q = 0
  BY <1>4, <1>1
<1> QED
  BY <1>2, <1>3, <1>4

LEMMA NoRemainder ==
  ASSUME NEW d \in Nat \ {0}
  PROVE  0 % d = 0
<1>1. 0 \div d \in Int /\ 0 % d \in 0..(d - 1) /\ 0 = d * (0 \div d) + (0 % d)
  OBVIOUS
<1>2. d * (0 \div d) + (0 % d) = d * 0 + 0 /\ 0 \in 0..(d - 1)
  BY <1>1
<1> QED
  BY <1>1, <1>2, DivisionIsUnique

\* From one number to the next a remainder grows by one or starts again.
LEMMA RemainderGrows ==
  ASSUME NEW t \in Nat, NEW d \in Nat \ {0}
  PROVE  /\ t % d \in 0..(d - 1) /\ (t + 1) % d \in 0..(d - 1)
         /\ (t + 1) % d = 0 \/ (t + 1) % d = (t % d) + 1
         /\ (t % d) + 1 < d => (t + 1) % d = (t % d) + 1
<1> DEFINE q == t \div d
<1> DEFINE r == t % d
<1> DEFINE p == (t + 1) \div d
<1> DEFINE s == (t + 1) % d
<1>1. q \in Int /\ r \in 0..(d - 1) /\ p \in Int /\ s \in 0..(d - 1)
  OBVIOUS
<1>2. t = d * q + r
  OBVIOUS
<1>3. t + 1 = d * p + s
  OBVIOUS
<1> HIDE DEF q, r, p, s
<1>4. CASE r + 1 < d
  <2>1. d * p + s = d * q + (r + 1) /\ r + 1 \in 0..(d - 1)
    BY <1>1, <1>2, <1>3, <1>4
  <2>2. s = r + 1
    BY <2>1, <1>1, DivisionIsUnique
  <2> QED
    BY <2>2, <1>1, <1>4 DEF r, s
<1>5. CASE r + 1 = d
  <2>1. d * p + s = d * (q + 1) + 0 /\ 0 \in 0..(d - 1) /\ q + 1 \in Int
    BY <1>1, <1>2, <1>3, <1>5
  <2>2. s = 0
    BY <2>1, <1>1, DivisionIsUnique
  <2> QED
    BY <2>2, <1>1, <1>5 DEF r, s
<1>6. r + 1 < d \/ r + 1 = d
  BY <1>1
<1> QED
  BY <1>4, <1>5, <1>6

\* The frames since the last that was one for looking.
Since(frames) == frames % (IF frames <= EarlyFor THEN Early ELSE Late)

\* Looks do not move apart where the early ones end.
LEMMA SinceGrows ==
  ASSUME NEW t \in Nat
  PROVE  /\ Since(t) \in Nat /\ (t <= EarlyFor => Since(t) < Early) /\ (t > EarlyFor => Since(t) < Late)
         /\ Since(t + 1) \in Nat /\ Since(t + 1) <= Since(t) + 1
         /\ Since(t + 1) = 0 \/ Since(t + 1) = Since(t) + 1
         /\ Since(t) + 1 < Early => Since(t + 1) = Since(t) + 1
         /\ t = 0 => Since(t) = 0
<1>1. /\ Early \in Nat \ {0} /\ Late \in Nat \ {0} /\ EarlyFor \in Nat /\ Early <= Late
      /\ EarlyFor % Early = 0 /\ EarlyFor % Late = 0 /\ Early >= 3
  BY FramingAssumption
<1>2. CASE t + 1 <= EarlyFor
  <2>1. Since(t) = t % Early /\ Since(t + 1) = (t + 1) % Early
    BY <1>1, <1>2 DEF Since
  <2>2. /\ Since(t) \in 0..(Early - 1) /\ Since(t + 1) \in 0..(Early - 1)
        /\ Since(t + 1) = 0 \/ Since(t + 1) = Since(t) + 1
        /\ Since(t) + 1 < Early => Since(t + 1) = Since(t) + 1
    BY <2>1, <1>1, RemainderGrows
  <2>3. t = 0 => Since(t) = 0
    BY <2>1, <1>1, NoRemainder
  <2> QED
    BY <2>2, <2>3, <1>1, <1>2
<1>3. CASE t = EarlyFor
  <2>1. t % Early = 0 /\ t % Late = 0 /\ Since(t) = 0 /\ Since(t + 1) = (t + 1) % Late
    BY <1>1, <1>3 DEF Since
  <2>2. /\ Since(t + 1) \in 0..(Late - 1)
        /\ Since(t + 1) = 0 \/ Since(t + 1) = Since(t) + 1
        /\ Since(t) + 1 < Late => Since(t + 1) = Since(t) + 1
    <3>1. /\ (t + 1) % Late \in 0..(Late - 1)
          /\ (t + 1) % Late = 0 \/ (t + 1) % Late = (t % Late) + 1
          /\ (t % Late) + 1 < Late => (t + 1) % Late = (t % Late) + 1
      <4>1. Late \in Nat \ {0}
        BY <1>1
      <4> QED
        BY ONLY t \in Nat, <4>1, RemainderGrows
    <3>2. Since(t + 1) \in 0..(Late - 1) /\ (Since(t + 1) = 0 \/ Since(t + 1) = 1)
      BY ONLY <2>1, <3>1
    <3>3. Since(t) + 1 < Late => Since(t + 1) = 1
      BY ONLY <2>1, <3>1
    <3> QED
      BY ONLY <2>1, <3>2, <3>3
  <2> QED
    BY <2>1, <2>2, <1>1, <1>3
<1>4. CASE t > EarlyFor
  <2>1. Since(t) = t % Late /\ Since(t + 1) = (t + 1) % Late
    BY <1>1, <1>4 DEF Since
  <2>2. /\ Since(t) \in 0..(Late - 1) /\ Since(t + 1) \in 0..(Late - 1)
        /\ Since(t + 1) = 0 \/ Since(t + 1) = Since(t) + 1
        /\ Since(t) + 1 < Late => Since(t + 1) = Since(t) + 1
    BY <2>1, <1>1, RemainderGrows
  <2> QED
    BY <2>2, <1>1, <1>4
<1> QED
  BY <1>1, <1>2, <1>3, <1>4

\* How long the room has been cut is no longer than since the last look, and what
\* has been told to stop is believed before the next: the look is never skipped.
CroppedSinceTheLook ==
  /\ cropped <= taken /\ (~following => cropped = 0)
  /\ (driver = "obeys" /\ following) => cropped <= Since(taken)

VerifiedBeforeTheLook ==
  /\ framingDone => verifyAt = 0
  /\ verifyAt > 0 => taken < verifyAt /\ (verifyAt - taken) + Since(taken) <= VerifyAfter + 1

\* Refusals are counted as they come, in a row.
RefusalsAreInARow ==
  /\ driver = "obeys" => ~framingDone
  /\ driver = "none" => ~following
  /\ driver = "moody" => failures = inARow /\ (framingDone <=> failures >= Tries)
  /\ driver # "moody" => failures = 0 /\ inARow = 0

FramingInv ==
  FramingTypeOK /\ CroppedSinceTheLook /\ VerifiedBeforeTheLook /\ RefusalsAreInARow

LEMMA FramingStep ==
  ASSUME FramingInv, [FramingNext]_framingVars
  PROVE  FramingInv'
<1>0. /\ Early \in Nat \ {0} /\ Late \in Nat \ {0} /\ EarlyFor \in Nat /\ Early <= Late
      /\ Tries \in Nat \ {0} /\ VerifyAfter \in 1..(Early - 2) /\ MaxTaken \in Nat
  BY FramingAssumption
<1>1. CASE TurnsOn
  <2>1. Since(taken) \in Nat
    BY SinceGrows DEF FramingInv, FramingTypeOK
  <2> QED
    BY <1>0, <1>1, <2>1 DEF FramingInv, FramingTypeOK, CroppedSinceTheLook,
       VerifiedBeforeTheLook, RefusalsAreInARow, TurnsOn
<1>2. CASE Takes
  <2>0. /\ taken \in Nat /\ cropped \in Nat /\ verifyAt \in Nat /\ failures \in Nat /\ inARow \in Nat
        /\ following \in BOOLEAN /\ framingDone \in BOOLEAN /\ driver \in {"none", "obeys", "moody"}
        /\ taken < MaxTaken /\ taken' = taken + 1 /\ driver' = driver
        /\ cropped' = IF following' THEN cropped + 1 ELSE 0
    BY <1>2 DEF FramingInv, FramingTypeOK, Takes
  <2>1. /\ Since(taken) \in Nat /\ Since(taken + 1) \in Nat /\ Since(taken + 1) <= Since(taken) + 1
        /\ Since(taken + 1) = 0 \/ Since(taken + 1) = Since(taken) + 1
        /\ Since(taken) + 1 < Early => Since(taken + 1) = Since(taken) + 1
        /\ taken = 0 => Since(taken) = 0
    BY <2>0, SinceGrows
  <2>2. ~IsLook(taken + 1) => Since(taken + 1) # 0
    BY DEF IsLook, Since
  <2>3. CASE Idles(taken + 1)
    <3>1. /\ framingDone \/ (verifyAt > 0 /\ taken + 1 < verifyAt) \/ (verifyAt = 0 /\ ~IsLook(taken + 1))
          /\ following' = following /\ verifyAt' = verifyAt /\ failures' = failures
          /\ framingDone' = framingDone /\ inARow' = inARow
      BY <2>3 DEF Idles
    <3>2. FramingTypeOK' /\ RefusalsAreInARow'
      BY <1>0, <2>0, <3>1 DEF FramingInv, FramingTypeOK, RefusalsAreInARow, CroppedSinceTheLook
    <3>3. VerifiedBeforeTheLook'
      BY <1>0, <2>0, <2>1, <3>1 DEF FramingInv, VerifiedBeforeTheLook
    <3>4. CroppedSinceTheLook'
      BY <1>0, <2>0, <2>1, <2>2, <3>1 DEF FramingInv, CroppedSinceTheLook, VerifiedBeforeTheLook,
         RefusalsAreInARow
    <3> QED
      BY <3>2, <3>3, <3>4 DEF FramingInv
  <2>4. CASE Verifies(taken + 1)
    <3>1. /\ verifyAt > 0 /\ taken + 1 >= verifyAt /\ verifyAt' = 0
          /\ following' = following /\ failures' = failures
          /\ framingDone' = framingDone /\ inARow' = inARow
      BY <2>4 DEF Verifies
    <3>2. FramingTypeOK' /\ RefusalsAreInARow'
      BY <1>0, <2>0, <3>1 DEF FramingInv, FramingTypeOK, RefusalsAreInARow, CroppedSinceTheLook
    <3>3. VerifiedBeforeTheLook'
      BY <3>1 DEF VerifiedBeforeTheLook
    <3>4. CroppedSinceTheLook'
      BY <1>0, <2>0, <2>1, <3>1 DEF FramingInv, CroppedSinceTheLook, VerifiedBeforeTheLook
    <3> QED
      BY <3>2, <3>3, <3>4 DEF FramingInv
  <2>5. CASE Looks(taken + 1)
    <3>1. /\ ~framingDone /\ verifyAt = 0 /\ IsLook(taken + 1)
      BY <2>5 DEF Looks
    <3>2. taken + 1 = 1 \/ Since(taken + 1) = 0
      BY <3>1 DEF IsLook, Since
    <3>3. Since(taken + 1) <= 1
      BY <3>2, <2>0, <2>1
    <3>4. CASE /\ driver # "none" /\ ~following /\ failures' = Forgotten /\ inARow' = 0
               /\ UNCHANGED <<following, verifyAt, framingDone>>
      BY <1>0, <2>0, <2>1, <3>1, <3>4 DEF FramingInv, FramingTypeOK, CroppedSinceTheLook,
         VerifiedBeforeTheLook, RefusalsAreInARow, Forgotten
    <3>5. CASE /\ driver # "none" /\ following /\ following' = FALSE
               /\ failures' = Forgotten /\ inARow' = 0 /\ verifyAt' = taken + 1 + VerifyAfter
               /\ UNCHANGED framingDone
      <4>1. VerifiedBeforeTheLook'
        BY <1>0, <2>0, <2>1, <3>1, <3>3, <3>5 DEF VerifiedBeforeTheLook
      <4>2. FramingTypeOK'
        <5>1. {following', framingDone'} \subseteq BOOLEAN
          BY <2>0, <3>5
        <5>2. /\ verifyAt' \in 0..(MaxTaken + VerifyAfter) /\ taken' \in 0..MaxTaken
              /\ cropped' \in 0..MaxTaken /\ failures' \in 0..Tries /\ inARow' \in 0..Tries
          BY <1>0, <2>0, <3>5 DEF Forgotten
        <5> QED
          BY <2>0, <5>1, <5>2 DEF FramingTypeOK
      <4>3. CroppedSinceTheLook' /\ RefusalsAreInARow'
        BY <1>0, <2>0, <3>1, <3>5 DEF FramingInv, CroppedSinceTheLook, RefusalsAreInARow, Forgotten
      <4> QED
        BY <4>1, <4>2, <4>3 DEF FramingInv
    <3>6. CASE /\ driver = "none" /\ framingDone' = TRUE
               /\ UNCHANGED <<following, verifyAt, failures, inARow>>
      BY <1>0, <2>0, <3>1, <3>6 DEF FramingInv, FramingTypeOK, CroppedSinceTheLook,
         VerifiedBeforeTheLook, RefusalsAreInARow
    <3>7. CASE /\ driver = "moody"
               /\ inARow' = inARow + 1 /\ failures' = failures + 1
               /\ framingDone' = (failures + 1 >= Tries)
               /\ UNCHANGED <<following, verifyAt>>
      <4>1. failures < Tries
        BY <3>1, <3>7, <1>0, <2>0 DEF FramingInv, RefusalsAreInARow
      <4>2. framingDone' \in BOOLEAN
        BY <3>7
      <4>3. framingDone' <=> failures + 1 >= Tries
        BY <3>7
      <4> QED
        BY <1>0, <2>0, <3>1, <3>7, <4>1, <4>2, <4>3 DEF FramingInv, FramingTypeOK, CroppedSinceTheLook,
           VerifiedBeforeTheLook, RefusalsAreInARow
    <3> QED
      BY <2>5, <3>4, <3>5, <3>6, <3>7 DEF Looks
  <2> QED
    BY <1>2, <2>3, <2>4, <2>5 DEF Takes
<1>3. CASE UNCHANGED framingVars
  BY <1>3 DEF FramingInv, FramingTypeOK, CroppedSinceTheLook, VerifiedBeforeTheLook,
     RefusalsAreInARow, framingVars
<1> QED
  BY <1>1, <1>2, <1>3 DEF FramingNext

\* With a driver that obeys, the room is whole again by the next look, whenever
\* the camera crops it and however long the stream is, and only refusals in a row
\* make the watch give up (framingCheck).
THEOREM TheRoomComesBack ==
  FramingSpec => [](FramingTypeOK /\ TheRoomIsWhole /\ OnlyRefusalsGiveUp)
<1>1. FramingInit => FramingInv
  <2>1. Since(0) \in Nat
    BY SinceGrows
  <2> SUFFICES ASSUME FramingInit PROVE FramingInv
    OBVIOUS
  <2>2. {following, framingDone} \subseteq BOOLEAN
    BY DEF FramingInit
  <2>3. FramingTypeOK
    BY <2>2, FramingAssumption DEF FramingInit, FramingTypeOK
  <2>4. CroppedSinceTheLook /\ VerifiedBeforeTheLook
    BY <2>1 DEF FramingInit, CroppedSinceTheLook, VerifiedBeforeTheLook
  <2>5. RefusalsAreInARow
    BY FramingAssumption DEF FramingInit, RefusalsAreInARow
  <2> QED
    BY <2>3, <2>4, <2>5 DEF FramingInv
<1>2. FramingInv /\ [FramingNext]_framingVars => FramingInv'
  BY FramingStep
<1>3. FramingInv => FramingTypeOK /\ TheRoomIsWhole /\ OnlyRefusalsGiveUp
  <2> SUFFICES ASSUME FramingInv PROVE FramingTypeOK /\ TheRoomIsWhole /\ OnlyRefusalsGiveUp
    OBVIOUS
  <2>1. taken \in Nat /\ cropped \in Nat /\ following \in BOOLEAN
    BY DEF FramingInv, FramingTypeOK
  <2>2. /\ Since(taken) \in Nat /\ (taken <= EarlyFor => Since(taken) < Early)
        /\ (taken > EarlyFor => Since(taken) < Late)
        /\ Early \in Nat \ {0} /\ Late \in Nat \ {0} /\ EarlyFor \in Nat
    BY <2>1, SinceGrows, FramingAssumption
  <2>3. TheRoomIsWhole
    BY <2>1, <2>2 DEF FramingInv, CroppedSinceTheLook, TheRoomIsWhole
  <2>4. OnlyRefusalsGiveUp
    BY DEF FramingInv, RefusalsAreInARow, OnlyRefusalsGiveUp
  <2> QED
    BY <2>3, <2>4 DEF FramingInv
<1> QED
  BY <1>1, <1>2, <1>3, PTL DEF FramingSpec

-----------------------------------------------------------------------------
\* What was promised comes within the grace, and a request that is pending has
\* been counted and not served.
ThePromiseIsInTime ==
  serves /\ kfPendingAt # 0 => due >= 1 /\ due + videoFrames <= kfPendingAt + Grace

PendingIsUnserved == kfPendingAt # 0 => kfServed < kfAsked

KeyframesInv == KeyframesTypeOK /\ ThePromiseIsInTime /\ PendingIsUnserved /\ WhoServesIsBelieved

LEMMA KeyframesStep ==
  ASSUME KeyframesInv, [KeyframesNext]_kfVars
  PROVE  KeyframesInv'
<1>0. /\ MinGap \in Nat /\ Grace \in Nat \ {0} /\ Enough \in Nat \ {0} /\ MaxFrames \in Nat
  BY KeyframesAssumption
<1>1. CASE AsksKeyframe
  <2>1. due' \in 0..Grace /\ (serves => due' >= 1)
    BY <1>0, <1>1 DEF AsksKeyframe, KeyframesInv, KeyframesTypeOK
  <2>2. /\ kfAsked \in Nat /\ kfAsked < MaxFrames /\ lastKeyframeAt' = videoFrames
        /\ kfAsked' = kfAsked + 1 /\ kfPendingAt' = videoFrames
        /\ serves' = serves /\ videoFrames' = videoFrames /\ kfServed' = kfServed
        /\ kfDeclaredBad' = kfDeclaredBad
    BY <1>1 DEF AsksKeyframe, KeyframesInv, KeyframesTypeOK
  <2>3. KeyframesTypeOK' /\ PendingIsUnserved'
    BY <1>0, <2>1, <2>2 DEF KeyframesInv, KeyframesTypeOK, PendingIsUnserved, NeverAsked
  <2>4. ThePromiseIsInTime'
    <3>1. videoFrames \in Nat
      BY DEF KeyframesInv, KeyframesTypeOK
    <3>2. due' \in 0..Grace /\ videoFrames' = videoFrames /\ kfPendingAt' = videoFrames
      BY <2>1, <2>2
    <3>3. due' + videoFrames' <= kfPendingAt' + Grace
      <4>1. due' \in Nat /\ Grace \in Nat /\ due' <= Grace
        BY <1>0, <3>2
      <4>2. \A a, v \in Nat : a <= Grace => a + v <= v + Grace
        BY <4>1
      <4>3. due' + videoFrames <= videoFrames + Grace
        BY <3>1, <4>1, <4>2
      <4> QED
        BY <3>2, <4>3
    <3> QED
      BY <2>1, <2>2, <3>3 DEF ThePromiseIsInTime
  <2>5. WhoServesIsBelieved'
    BY <2>2 DEF KeyframesInv, WhoServesIsBelieved
  <2> QED
    BY <2>3, <2>4, <2>5 DEF KeyframesInv
<1>2. CASE Frame
  <2>1. /\ videoFrames \in Nat /\ videoFrames < MaxFrames /\ videoFrames' = videoFrames + 1
        /\ due \in 0..Grace /\ due' = IF due > 0 THEN due - 1 ELSE 0
        /\ serves' = serves /\ lastKeyframeAt' = lastKeyframeAt /\ kfAsked' = kfAsked
        /\ serves \in BOOLEAN /\ kfAsked \in 0..MaxFrames /\ kfServed \in 0..kfAsked
        /\ kfPendingAt \in 0..videoFrames /\ kfDeclaredBad \in BOOLEAN
    BY <1>2 DEF Frame, KeyframesInv, KeyframesTypeOK
  <2>2. CASE kfPendingAt # 0 /\ (ComesKey \/ IsLate(videoFrames + 1))
    <3>1. /\ kfServed' = Served /\ kfPendingAt' = 0
          /\ kfDeclaredBad' = (kfDeclaredBad \/ Condemns(Served))
      BY <1>2, <2>2 DEF Frame
    <3>2. Served \in 0..kfAsked /\ (ComesKey => Served >= 1)
      BY <2>1, <2>2 DEF Served, KeyframesInv, PendingIsUnserved
    <3>3. kfDeclaredBad' \in BOOLEAN
      BY <3>1
    <3>4. serves => ComesKey
      <4>1. IsLate(videoFrames + 1) => ~serves \/ due = 1
        BY <1>0, <2>1, <2>2 DEF IsLate, KeyframesInv, ThePromiseIsInTime
      <4> QED
        BY <4>1, <2>2 DEF ComesKey
    <3>5. serves => ~Condemns(Served)
      BY <2>1, <3>2, <3>4 DEF Condemns
    <3>6. WhoServesIsBelieved'
      BY <2>1, <3>1, <3>5 DEF WhoServesIsBelieved, KeyframesInv
    <3>7. KeyframesTypeOK'
      BY <1>0, <2>1, <3>1, <3>2, <3>3 DEF KeyframesInv, KeyframesTypeOK
    <3> QED
      BY <3>1, <3>6, <3>7 DEF KeyframesInv, ThePromiseIsInTime, PendingIsUnserved
  <2>3. CASE ~(kfPendingAt # 0 /\ (ComesKey \/ IsLate(videoFrames + 1)))
    <3>1. kfServed' = kfServed /\ kfPendingAt' = kfPendingAt /\ kfDeclaredBad' = kfDeclaredBad
      BY <1>2, <2>3 DEF Frame
    <3>2. KeyframesTypeOK' /\ PendingIsUnserved' /\ WhoServesIsBelieved'
      BY <1>0, <2>1, <3>1 DEF KeyframesInv, KeyframesTypeOK, PendingIsUnserved, WhoServesIsBelieved
    <3>3. ThePromiseIsInTime'
      BY <1>0, <2>1, <2>3, <3>1 DEF KeyframesInv, ThePromiseIsInTime, ComesKey
    <3> QED
      BY <3>2, <3>3 DEF KeyframesInv
  <2> QED
    BY <2>2, <2>3
<1>3. CASE UNCHANGED kfVars
  BY <1>3 DEF KeyframesInv, KeyframesTypeOK, ThePromiseIsInTime, PendingIsUnserved,
     WhoServesIsBelieved, kfVars
<1> QED
  BY <1>1, <1>2, <1>3 DEF KeyframesNext

\* An encoder that answers within the grace is never told off, for any gap between
\* requests and any number of frames (requestKeyframe, keyframeAsked,
\* keyframeSeen).
THEOREM TheServingAreBelieved == KeyframesSpec => [](KeyframesTypeOK /\ WhoServesIsBelieved)
<1>1. KeyframesInit => KeyframesInv
  <2> SUFFICES ASSUME KeyframesInit PROVE KeyframesInv
    OBVIOUS
  <2>1. KeyframesTypeOK
    <3>1. serves \in BOOLEAN /\ kfDeclaredBad \in BOOLEAN
      BY DEF KeyframesInit
    <3>2. /\ videoFrames \in 0..MaxFrames /\ lastKeyframeAt \in 0..NeverAsked /\ due \in 0..Grace
          /\ kfAsked \in 0..MaxFrames /\ kfServed \in 0..kfAsked /\ kfPendingAt \in 0..videoFrames
      BY KeyframesAssumption DEF KeyframesInit, NeverAsked
    <3> QED
      BY <3>1, <3>2 DEF KeyframesTypeOK
  <2>2. ThePromiseIsInTime /\ PendingIsUnserved /\ WhoServesIsBelieved
    BY DEF KeyframesInit, ThePromiseIsInTime, PendingIsUnserved, WhoServesIsBelieved
  <2> QED
    BY <2>1, <2>2 DEF KeyframesInv
<1>2. KeyframesInv /\ [KeyframesNext]_kfVars => KeyframesInv'
  BY KeyframesStep
<1>3. KeyframesInv => KeyframesTypeOK /\ WhoServesIsBelieved
  BY DEF KeyframesInv
<1> QED
  BY <1>1, <1>2, <1>3, PTL DEF KeyframesSpec

-----------------------------------------------------------------------------
\* A tenth part, rounded down.
LEMMA TenthIsBounded ==
  ASSUME NEW x \in Nat
  PROVE  x \div 10 \in Nat /\ 10 * (x \div 10) <= x /\ x <= 10 * (x \div 10) + 9
  OBVIOUS

LEMMA ProductGrows ==
  ASSUME NEW g \in Nat, NEW a \in Nat, NEW b \in Nat, a <= b
  PROVE  g * a \in Nat /\ g * b \in Nat /\ g * a <= g * b
  OBVIOUS

\* What an encoder that obeys makes of a command.
OfGain(asked) == (gain * asked) \div 10

LEMMA OfGainIsBounded ==
  ASSUME gain \in Nat, NEW x \in Nat
  PROVE  /\ gain * x \in Nat /\ OfGain(x) \in Nat
         /\ 10 * OfGain(x) <= gain * x /\ gain * x <= 10 * OfGain(x) + 9
<1>1. gain * x \in Nat
  OBVIOUS
<1> QED
  BY <1>1, TenthIsBounded DEF OfGain

LEMMA OfGainGrows ==
  ASSUME gain \in Nat, NEW a \in Nat, NEW b \in Nat, a <= b
  PROVE  OfGain(a) <= OfGain(b)
<1>1. gain * a <= gain * b
  BY ProductGrows
<1>2. /\ OfGain(a) \in Nat /\ OfGain(b) \in Nat /\ gain * a \in Nat /\ gain * b \in Nat
      /\ 10 * OfGain(a) <= gain * a /\ gain * b <= 10 * OfGain(b) + 9
  BY OfGainIsBounded
<1> QED
  BY <1>1, <1>2

\* A command that cuts by half, and takes less than came out before, leaves less
\* than nine tenths of it: what the watch takes for deafness cannot come of it.
LEMMA ACutIsSeen ==
  ASSUME gain \in Nat, NEW want \in Nat, NEW ref \in Nat, want * 10 <= ref * ProofScale,
         want < OfGain(ref)
  PROVE  ~(OfGain(want) * 10 >= OfGain(ref) * 9)
<1>1. ProofScale \in 1..5
  BY BitrateWatchAssumption
<1>2. 2 * want <= ref
  <2>1. ref * ProofScale \in Nat /\ ref * ProofScale <= ref * 5
    BY <1>1, ProductGrows
  <2> QED
    BY <2>1
<1>3. 2 * (gain * want) <= gain * ref
  <2>1. gain * (2 * want) <= gain * ref
    BY <1>2, ProductGrows
  <2>2. gain * (2 * want) = 2 * (gain * want)
    OBVIOUS
  <2> QED
    BY <2>1, <2>2
<1>4. SUFFICES ASSUME OfGain(want) * 10 >= OfGain(ref) * 9 PROVE FALSE
  OBVIOUS
<1> DEFINE x == gain * want
<1> DEFINE y == gain * ref
<1> DEFINE m == OfGain(want)
<1> DEFINE n == OfGain(ref)
<1>5. /\ x \in Nat /\ y \in Nat /\ m \in Nat /\ n \in Nat /\ 2 * x <= y
      /\ 10 * m <= x /\ y <= 10 * n + 9 /\ m * 10 >= n * 9 /\ want < n
  BY <1>3, <1>4, OfGainIsBounded
<1>6. x <= 10 /\ n <= 1
  <2> HIDE DEF x, y, m, n
  <2> QED
    BY <1>5
<1>7. want = 0
  BY <1>5, <1>6
<1>8. x = 0
  BY <1>7
<1> HIDE DEF x, y, m, n
<1> QED
  BY <1>5, <1>7, <1>8

\* Half the command drops what comes out by a fifth of the difference, at least.
LEMMA AHalfIsSeen ==
  ASSUME gain \in Nat, NEW want \in Nat, Judgeable(OfGain(want), want \div 2)
  PROVE  Took(OfGain(want), want \div 2, OfGain(want \div 2))
<1> DEFINE h == want \div 2
<1> DEFINE s == OfGain(want)
<1> DEFINE f == OfGain(h)
<1>1. h \in Nat /\ 2 * h <= want /\ ProbeDrop \in 0..5
  BY BitrateWatchAssumption
<1>2. s \in Nat /\ f \in Nat /\ h < s
  BY <1>1, OfGainIsBounded DEF Judgeable
<1>3. 2 * f <= s
  <2>1. gain * (2 * h) <= gain * want
    BY <1>1, ProductGrows
  <2>2. gain * (2 * h) = 2 * (gain * h)
    BY <1>1
  <2>3. /\ gain * h \in Nat /\ gain * want \in Nat
        /\ 10 * f <= gain * h /\ gain * want <= 10 * s + 9
    BY <1>1, OfGainIsBounded
  <2> HIDE DEF h, s, f
  <2>4. 20 * f <= 10 * s + 9
    BY <2>1, <2>2, <2>3, <1>2
  <2> QED
    BY <2>4, <1>2
<1> HIDE DEF h, s, f
<1>4. s >= f /\ (s - f) * 10 >= (s - h) * 5
  BY <1>1, <1>2, <1>3
<1>5. (s - h) * ProbeDrop <= (s - h) * 5
  <2>1. s - h \in Nat
    BY <1>1, <1>2
  <2> QED
    BY <2>1, <1>1, ProductGrows
<1>6. (s - h) * ProbeDrop \in Nat /\ (s - f) * 10 >= (s - h) * ProbeDrop
  BY <1>1, <1>2, <1>4, <1>5
<1> QED
  BY <1>4, <1>6 DEF Took, h, s, f

\* The reference is one command and what came of it, and as long as it is so
\* nothing counts against an encoder that obeys.
TheReferenceIsOne ==
  encoderKind = "obeys" /\ ~limited /\ ~mixed =>
    /\ ~brHard /\ brStreak = 0
    /\ brWantRef # 0 => brMeasRef = OfGain(brWantRef)

CommandsAreTrue == {born, brWant, brWantMax} \subseteq Commanded /\ brWant <= brWantMax

BitrateInv == BitrateWatchTypeOK /\ CommandsAreTrue /\ TheReferenceIsOne

LEMMA BitrateTypeStep ==
  ASSUME BitrateInv, [WatchNext]_brVars
  PROVE  BitrateWatchTypeOK' /\ CommandsAreTrue'
<1>0. /\ Commanded \subseteq Nat /\ Scenes \subseteq Nat /\ Gains \subseteq Nat /\ Streak \in Nat \ {0}
  BY BitrateWatchAssumption
<1>T. /\ born \in Commanded /\ brWant \in Commanded /\ brWantMax \in Commanded
      /\ brWantRef \in Commanded \cup {0} /\ brMeasRef \in Nat /\ brWant <= brWantMax
      /\ brStreak \in 0..Streak /\ brHard \in BOOLEAN /\ limited \in BOOLEAN /\ mixed \in BOOLEAN
      /\ encoderKind \in {"obeys", "deaf"} /\ gain \in Gains /\ scene \in Scenes
  BY DEF BitrateInv, BitrateWatchTypeOK, CommandsAreTrue
<1>1. ASSUME NEW kbps \in Commanded, AsksBitrate(kbps) PROVE BitrateWatchTypeOK' /\ CommandsAreTrue'
  <2>1. InForce(kbps) \in Commanded /\ kbps <= InForce(kbps)
    BY <1>0, <1>T DEF InForce, Highest
  <2> QED
    BY <1>T, <1>1, <2>1 DEF AsksBitrate, BitrateWatchTypeOK, CommandsAreTrue
<1>2. CASE TheRoomChanges
  BY <1>2, <1>T DEF TheRoomChanges, BitrateWatchTypeOK, CommandsAreTrue
<1>3. ASSUME NEW measured \in MayProduce, WindowEnds(measured)
      PROVE  BitrateWatchTypeOK' /\ CommandsAreTrue'
  <2>1. measured \in Nat
    <3>1. ASSUME NEW x \in Commanded PROVE Produces(x) \in Nat
      <4>1. Makes(x) \in Nat
        <5>1. /\ gain * (IF encoderKind = "deaf" THEN born ELSE x) \in Nat
          BY <1>0, <1>T
        <5> QED
          BY <5>1, TenthIsBounded DEF Makes
      <4> QED
        BY <4>1, <1>0, <1>T DEF Produces, Lowest
    <3> QED
      BY <3>1, <1>T, <1>3 DEF MayProduce
  <2>2. limited' \in BOOLEAN
    BY <1>3 DEF WindowEnds, Limits
  <2>3. /\ brWantMax' = brWant /\ encoderKind' = encoderKind /\ gain' = gain
        /\ born' = born /\ brWant' = brWant /\ scene' = scene
    BY <1>3 DEF WindowEnds
  <2>4. CASE Refers(brWantMax, measured) /\ UNCHANGED brHard
    <3>1. mixed' \in BOOLEAN
      BY <2>4 DEF Refers
    <3>2. brWantRef' = brWantMax /\ brMeasRef' = measured /\ brStreak' = 0 /\ brHard' = brHard
      BY <2>4 DEF Refers
    <3> QED
      BY <1>0, <1>T, <2>1, <2>2, <2>3, <3>1, <3>2 DEF BitrateWatchTypeOK, CommandsAreTrue
  <2>5. ASSUME ~Refers(brWantMax, measured) \/ brHard' # brHard
        PROVE  BitrateWatchTypeOK' /\ CommandsAreTrue'
    <3> DEFINE counted == ~NewReference(brWantMax) /\ ~NotTheConstraint(brWantMax) /\ IsProof(brWantMax)
    <3> DEFINE streak == IF counted /\ Stays(measured) THEN brStreak + 1 ELSE brStreak
    <3>1. /\ brWantRef' = brWantRef /\ brMeasRef' = brMeasRef /\ mixed' = mixed
          /\ brHard' = (brHard \/ streak >= Streak)
          /\ brStreak' = IF streak >= Streak THEN IF brHard THEN Streak ELSE 0 ELSE streak
      BY <1>3, <2>5 DEF WindowEnds
    <3>2. streak \in Nat
      BY <1>0, <1>T
    <3>3. brHard' \in BOOLEAN
      BY <3>1
    <3>4. brStreak' \in 0..Streak
      <4> HIDE DEF streak
      <4> QED
        BY <1>0, <3>1, <3>2
    <3> QED
      BY <1>0, <1>T, <2>2, <2>3, <3>1, <3>3, <3>4 DEF BitrateWatchTypeOK, CommandsAreTrue
  <2> QED
    BY <2>4, <2>5
<1>4. CASE Probes
  <2>1. limited' \in BOOLEAN
    BY <1>4 DEF Probes, Limits
  <2> QED
    BY <1>0, <1>T, <1>4, <2>1 DEF Probes, BitrateWatchTypeOK, CommandsAreTrue
<1>5. CASE UNCHANGED brVars
  BY <1>5 DEF brVars, BitrateInv, BitrateWatchTypeOK, CommandsAreTrue
<1> QED
  BY <1>1, <1>2, <1>3, <1>4, <1>5 DEF WatchNext

LEMMA ReferenceStep ==
  ASSUME BitrateInv, [WatchNext]_brVars
  PROVE  TheReferenceIsOne'
<1>0. /\ Commanded \subseteq Nat \ {0} /\ Scenes \subseteq Nat /\ Gains \subseteq Nat /\ Streak \in Nat \ {0}
  BY BitrateWatchAssumption
<1>T. /\ born \in Commanded /\ brWant \in Nat \ {0} /\ brWantMax \in Nat \ {0}
      /\ brWantRef \in Nat /\ brMeasRef \in Nat /\ brWant <= brWantMax
      /\ brStreak \in Nat /\ gain \in Nat /\ scene \in Nat /\ limited \in BOOLEAN /\ mixed \in BOOLEAN
  <2>1. /\ {born, brWant, brWantMax} \subseteq Commanded /\ {limited, mixed} \subseteq BOOLEAN
        /\ brWantRef \in Commanded \cup {0} /\ brWant <= brWantMax
    BY DEF BitrateInv, BitrateWatchTypeOK, CommandsAreTrue
  <2>2. brMeasRef \in Nat /\ brStreak \in Nat /\ gain \in Nat /\ scene \in Nat
    BY <1>0 DEF BitrateInv, BitrateWatchTypeOK
  <2>3. limited \in BOOLEAN /\ mixed \in BOOLEAN
    BY <2>1
  <2>4. born \in Commanded /\ brWant \in Commanded /\ brWantMax \in Commanded /\ brWantRef \in Commanded \cup {0}
    BY <2>1
  <2>5. brWant \in Nat \ {0} /\ brWantMax \in Nat \ {0} /\ brWantRef \in Nat
    BY <1>0, <2>4
  <2> QED
    BY <2>1, <2>2, <2>3, <2>4, <2>5
<1> SUFFICES ASSUME encoderKind' = "obeys", ~limited', ~mixed'
             PROVE  /\ ~brHard' /\ brStreak' = 0
                    /\ brWantRef' # 0 => brMeasRef' = OfGain(brWantRef)'
  BY DEF TheReferenceIsOne
<1>S. encoderKind = "obeys" /\ ~limited /\ ~mixed
      => ~brHard /\ brStreak = 0 /\ (brWantRef # 0 => brMeasRef = OfGain(brWantRef))
  BY DEF BitrateInv, TheReferenceIsOne
<1>1. ASSUME NEW kbps \in Commanded, AsksBitrate(kbps)
      PROVE  ~brHard' /\ brStreak' = 0 /\ (brWantRef' # 0 => brMeasRef' = OfGain(brWantRef)')
  BY <1>1, <1>S DEF AsksBitrate, OfGain
<1>2. CASE TheRoomChanges
  BY <1>2, <1>S DEF TheRoomChanges, OfGain
<1>3. ASSUME NEW x \in Nat, x <= brWantMax, encoderKind = "obeys", ~(scene < Makes(brWantMax))
      PROVE  Produces(x) = OfGain(x)
  <2>1. Makes(x) = OfGain(x) /\ Makes(brWantMax) = OfGain(brWantMax)
    BY <1>3 DEF Makes, OfGain
  <2>2. OfGain(x) \in Nat /\ OfGain(brWantMax) \in Nat /\ OfGain(x) <= OfGain(brWantMax)
    BY <1>T, <1>3, OfGainIsBounded, OfGainGrows
  <2> QED
    BY <1>T, <1>3, <2>1, <2>2 DEF Produces, Lowest
<1>4. ASSUME NEW measured \in MayProduce, WindowEnds(measured)
      PROVE  ~brHard' /\ brStreak' = 0 /\ (brWantRef' # 0 => brMeasRef' = OfGain(brWantRef)')
  <2>1. /\ encoderKind = "obeys" /\ gain' = gain /\ ~limited /\ ~(scene < Makes(brWantMax))
    BY <1>4 DEF WindowEnds, Limits
  <2>2. measured \in {OfGain(brWant), OfGain(brWantMax)}
    BY <1>T, <1>3, <1>4, <2>1 DEF MayProduce
  <2>3. ~mixed
    BY <1>4 DEF WindowEnds, Refers
  <2>4. ~brHard /\ brStreak = 0 /\ (brWantRef # 0 => brMeasRef = OfGain(brWantRef))
    BY <1>S, <2>1, <2>3
  <2>5. CASE Refers(brWantMax, measured) /\ UNCHANGED brHard
    <3>1. /\ brWantRef' = brWantMax /\ brMeasRef' = measured /\ brStreak' = 0 /\ brHard' = brHard
          /\ brWant = brWantMax
      BY <2>5 DEF Refers
    <3> QED
      BY <2>1, <2>2, <2>4, <3>1 DEF OfGain
  <2>6. ASSUME ~Refers(brWantMax, measured) \/ brHard' # brHard
        PROVE  ~brHard' /\ brStreak' = 0 /\ (brWantRef' # 0 => brMeasRef' = OfGain(brWantRef)')
    <3> DEFINE counted == ~NewReference(brWantMax) /\ ~NotTheConstraint(brWantMax) /\ IsProof(brWantMax)
    <3> DEFINE streak == IF counted /\ Stays(measured) THEN brStreak + 1 ELSE brStreak
    <3>1. /\ brWantRef' = brWantRef /\ brMeasRef' = brMeasRef
          /\ brHard' = (brHard \/ streak >= Streak)
          /\ brStreak' = IF streak >= Streak THEN IF brHard THEN Streak ELSE 0 ELSE streak
      BY <1>4, <2>6 DEF WindowEnds
    <3>2. counted => ~Stays(measured)
      <4> SUFFICES ASSUME counted PROVE ~Stays(measured)
        OBVIOUS
      <4>1. /\ brWantRef # 0 /\ brMeasRef = OfGain(brWantRef) /\ brWantMax < brMeasRef
            /\ brWantMax * 10 <= brWantRef * ProofScale
        BY <1>T, <2>4 DEF NewReference, NotTheConstraint, IsProof
      <4>2. ~(OfGain(brWantMax) * 10 >= OfGain(brWantRef) * 9)
        BY <1>T, <4>1, ACutIsSeen
      <4>3. measured \in Nat /\ measured <= OfGain(brWantMax)
        <5>1. OfGain(brWant) \in Nat /\ OfGain(brWant) <= OfGain(brWantMax)
          BY <1>T, OfGainIsBounded, OfGainGrows
        <5>2. OfGain(brWantMax) \in Nat
          BY <1>T, OfGainIsBounded
        <5> QED
          BY <2>2, <5>1, <5>2
      <4>4. OfGain(brWantMax) \in Nat /\ OfGain(brWantRef) \in Nat
        BY <1>T, OfGainIsBounded
      <4> QED
        BY <4>1, <4>2, <4>3, <4>4 DEF Stays
    <3>3. streak = 0
      BY <2>4, <3>2
    <3> HIDE DEF streak
    <3>4. ~(streak >= Streak)
      BY <1>0, <3>3
    <3>5. ~brHard' /\ brStreak' = 0
      BY <2>4, <3>1, <3>3, <3>4
    <3>6. OfGain(brWantRef)' = OfGain(brWantRef)
      BY <2>1, <3>1 DEF OfGain
    <3> QED
      BY <2>4, <3>1, <3>5, <3>6
  <2> QED
    BY <2>5, <2>6
<1>5. CASE Probes
  <2>1. /\ encoderKind = "obeys" /\ ~(scene < Makes(brWantMax)) /\ mixed' = mixed
        /\ Judgeable(Produces(brWant), brWant \div 2)
        /\ ~Took(Produces(brWant), brWant \div 2, Produces(brWant \div 2))
    BY <1>5 DEF Probes, Limits
  <2>2. brWant \div 2 \in Nat /\ brWant \div 2 <= brWantMax
    BY <1>T
  <2>3. Produces(brWant) = OfGain(brWant) /\ Produces(brWant \div 2) = OfGain(brWant \div 2)
    BY <1>T, <1>3, <2>1, <2>2
  <2> QED
    BY <1>T, <2>1, <2>3, AHalfIsSeen
<1>6. CASE UNCHANGED brVars
  BY <1>6, <1>S DEF brVars, OfGain
<1> QED
  BY <1>1, <1>2, <1>4, <1>5, <1>6 DEF WatchNext

\* An encoder that follows is not taken for deaf, whatever its gain, the commands
\* and their order, by the windows or by the probe: as long as it is the command
\* that sets the output and the reference is one command (bitrateAsked,
\* bitrateSeen, probeVerdict).
THEOREM TheFollowersAreTrusted ==
  BitrateWatchSpec => [](BitrateWatchTypeOK /\ TheFollowerIsNotAccused)
<1>1. WatchInit => BitrateInv
  <2> SUFFICES ASSUME WatchInit PROVE BitrateInv
    OBVIOUS
  <2>0. Commanded \subseteq Nat \ {0} /\ Streak \in Nat \ {0}
    BY BitrateWatchAssumption
  <2>1. {limited, mixed} \subseteq BOOLEAN
    BY DEF WatchInit
  <2>2. BitrateWatchTypeOK
    <3>1. {born, brWant, brWantMax, brWantRef} \subseteq Commanded \cup {0}
      BY DEF WatchInit
    <3>2. brStreak \in 0..Streak /\ brMeasRef \in Nat
      BY <2>0 DEF WatchInit
    <3>3. encoderKind \in {"obeys", "deaf"} /\ gain \in Gains /\ scene \in Scenes /\ brHard \in BOOLEAN
      BY DEF WatchInit
    <3> QED
      BY <2>1, <3>1, <3>2, <3>3 DEF BitrateWatchTypeOK
  <2>3. CommandsAreTrue /\ TheReferenceIsOne
    BY <2>0 DEF WatchInit, CommandsAreTrue, TheReferenceIsOne
  <2> QED
    BY <2>2, <2>3 DEF BitrateInv
<1>2. BitrateInv /\ [WatchNext]_brVars => BitrateInv'
  BY BitrateTypeStep, ReferenceStep DEF BitrateInv
<1>3. BitrateInv => BitrateWatchTypeOK /\ TheFollowerIsNotAccused
  BY DEF BitrateInv, TheReferenceIsOne, TheFollowerIsNotAccused
<1> QED
  BY <1>1, <1>2, <1>3, PTL DEF BitrateWatchSpec

\* Nothing that is watched is condemned unjustly: the encoder that follows the
\* bitrate, the one that serves keyframes, and the camera that shows the room.
THEOREM TheWatchesAreFair == BitrateWatchSpec /\ KeyframesSpec /\ FramingSpec => []WatchesSafety
<1>1. /\ BitrateWatchTypeOK /\ TheFollowerIsNotAccused
      /\ KeyframesTypeOK /\ WhoServesIsBelieved
      /\ FramingTypeOK /\ TheRoomIsWhole /\ OnlyRefusalsGiveUp
      => WatchesSafety
  BY DEF WatchesSafety
<1> QED
  BY <1>1, TheFollowersAreTrusted, TheServingAreBelieved, TheRoomComesBack, PTL
=============================================================================
