----------------------------- MODULE Microphone -----------------------------
(***************************************************************************)
(* The microphone and whoever supervises it: superviseAudio, runAudio and  *)
(* SetMicDevice in internal/pipeline/pipeline.go.                          *)
(*                                                                         *)
(* Like the camera it is changed by closing it, and unlike the camera a    *)
(* close that was decided here opens a moment of grace, in which the       *)
(* interface goes on saying that there is sound.  A microphone open on a   *)
(* path worse than the one that was asked for looks again by itself.       *)
(***************************************************************************)
EXTENDS Naturals

CONSTANTS Mics,          \* the endpoints there may be
          AnyMic,        \* the system's default
          NoMic,
          MaxMicEvents   \* choices, failures, devices taken or pulled: a bound

ASSUME MicrophoneAssumption ==
  /\ AnyMic \notin Mics /\ NoMic \notin Mics \cup {AnyMic}
  /\ MaxMicEvents \in Nat

MicWishes == Mics \cup {AnyMic}
MicTurns == {"turn", "stored", "cleared", "opening", "opened", "capturing",
             "ended", "silent", "waiting", "done"}
MicEnds == {"none", "recheck", "switch", "fault"}

VARIABLES
  micWanted,    \* Pipeline.micWanted
  micReopen,    \* the mark: it was closed on purpose
  micWake,      \* a channel of one
  micReach,     \* the stored cancel function is this session's
  micCancelled, \* this session's context has ended
  micTurn,      \* where the supervisor is
  micAsked,     \* the wish as this session read it
  micOpen,      \* the endpoint that answered
  micPoor,      \* it is processed by the system, or muted
  micRecheck,   \* the timer of this session has fired
  micEnd,       \* how the session ended
  audioOK,      \* samples arrive
  micGrace,     \* a planned close is forgiven until it is over
  micChooser,   \* where SetMicDevice is
  present, clean, \* the endpoints there are, and whether raw sound can be had
  micQuit,
  micEvents     \* how many there have been

micMarks == <<micWanted, micReopen, micWake, micReach, micCancelled>>
micSession == <<micTurn, micAsked, micOpen, micPoor, micRecheck, micEnd>>
shown == <<audioOK, micGrace>>
desk == <<present, clean, micQuit>>
micVars == <<micMarks, micSession, shown, micChooser, desk, micEvents>>

MicInit ==
  /\ micWanted = AnyMic
  /\ micReopen = FALSE /\ micWake = FALSE /\ micReach = FALSE /\ micCancelled = FALSE
  /\ micTurn = "turn" /\ micAsked = micWanted /\ micOpen = NoMic
  /\ micPoor = FALSE /\ micRecheck = FALSE /\ micEnd = "none"
  /\ audioOK = FALSE /\ micGrace = FALSE /\ micChooser = "idle"
  /\ present \in SUBSET Mics /\ clean \in BOOLEAN /\ micQuit = FALSE
  /\ micEvents = 0

MicEvent == micEvents < MaxMicEvents /\ micEvents' = micEvents + 1
MicCancelsNothing == UNCHANGED micCancelled                        \* mutant
MicCancelsStored == micCancelled' = (micCancelled \/ micReach)

\* Pipeline.AudioActive
AudioActive == audioOK \/ micGrace

-----------------------------------------------------------------------------
\* A session: runAudio.

MicStarts ==
  /\ micTurn = "turn" /\ ~micQuit /\ micTurn' = "stored"
  /\ micReach' = TRUE /\ micCancelled' = FALSE
  /\ micRecheck' = FALSE /\ micEnd' = "none" /\ micOpen' = NoMic
  /\ UNCHANGED <<micWanted, micReopen, micWake, micAsked, micPoor, shown, micChooser, desk,
                 micEvents>>

\* The mark goes after the function is stored: a close that came between the
\* two loses its mark, never its effect.
MicClears ==
  /\ micTurn = "stored" /\ micTurn' = "cleared" /\ micReopen' = FALSE
  /\ UNCHANGED <<micWanted, micWake, micReach, micCancelled, micAsked, micOpen, micPoor,
                 micRecheck, micEnd, shown, micChooser, desk, micEvents>>

MicReadsTheWish ==
  /\ micTurn = "cleared" /\ micTurn' = "opening" /\ micAsked' = micWanted
  /\ UNCHANGED <<micMarks, micOpen, micPoor, micRecheck, micEnd, shown, micChooser, desk,
                 micEvents>>

\* The endpoint that was asked for, or another.
Answers(e) == e \in present /\ (micAsked \in present => e = micAsked)

\* The open answers: what is open is published, and there is sound again.
MicOpens ==
  /\ micTurn = "opening" /\ micTurn' = "opened"
  /\ Answers(micOpen')
  /\ micPoor' = ~clean
  /\ audioOK' = TRUE
  /\ UNCHANGED <<micMarks, micAsked, micRecheck, micEnd, micGrace, micChooser, desk, micEvents>>

\* The wish is read again: one that came while we were opening closes this.
MicLooksAgain ==
  /\ micTurn = "opened" /\ micTurn' = "capturing"
  /\ micReopen' = (micReopen \/ micWanted # micAsked)
  /\ micCancelled' = (micCancelled \/ micWanted # micAsked)
  /\ UNCHANGED <<micWanted, micWake, micReach, micAsked, micOpen, micPoor, micRecheck, micEnd,
                 shown, micChooser, desk, micEvents>>

\* micRecheckWanted
NeverWorse == FALSE                                                \* mutant
IsWorse == micPoor \/ (micAsked # AnyMic /\ micOpen # micAsked)

\* Two minutes on a worse path.
MicRechecks ==
  /\ micTurn = "capturing" /\ IsWorse /\ ~micRecheck
  /\ micRecheck' = TRUE /\ micCancelled' = TRUE
  /\ UNCHANGED <<micWanted, micReopen, micWake, micReach, micTurn, micAsked, micOpen, micPoor,
                 micEnd, shown, micChooser, desk, micEvents>>

\* A close that was decided is told from a fault by its marks; a panic, which
\* jumps over them, is a fault.
EndOf == IF micRecheck THEN "recheck" ELSE IF micReopen THEN "switch" ELSE "fault"

MicReturns(end) ==
  /\ micTurn' = "ended" /\ micEnd' = end
  /\ UNCHANGED <<micMarks, micAsked, micOpen, micPoor, micRecheck, shown, micChooser, desk>>

MicCloses ==
  /\ micTurn \in {"opening", "capturing"} /\ (micCancelled \/ micQuit)
  /\ MicReturns(EndOf) /\ UNCHANGED micEvents

MicFails ==
  /\ micTurn \in {"opening", "capturing"}
  /\ \/ (IF micTurn = "opening" THEN present = {} ELSE micOpen \notin present)
        /\ UNCHANGED micEvents
     \/ MicEvent
  /\ MicReturns(EndOf)

MicPanics == micTurn \in {"opening", "capturing"} /\ MicEvent /\ MicReturns("fault")

-----------------------------------------------------------------------------
\* superviseAudio.

\* The sound is off, and only then the grace may begin.
MicFallsSilent ==
  /\ micTurn = "ended" /\ ~micQuit /\ micTurn' = "silent" /\ audioOK' = FALSE
  /\ UNCHANGED <<micMarks, micAsked, micOpen, micPoor, micRecheck, micEnd, micGrace, micChooser,
                 desk, micEvents>>

Decided == micEnd \in {"recheck", "switch"}
OnlyRechecked == micEnd = "recheck"                                \* mutant

MicComesBack ==
  /\ micTurn = "silent" /\ Decided
  /\ micTurn' = "turn" /\ micGrace' = TRUE
  /\ UNCHANGED <<micMarks, micAsked, micOpen, micPoor, micRecheck, micEnd, audioOK, micChooser,
                 desk, micEvents>>

MicWillWait ==
  /\ micTurn = "silent" /\ ~Decided /\ micTurn' = "waiting"
  /\ UNCHANGED <<micMarks, micAsked, micOpen, micPoor, micRecheck, micEnd, shown, micChooser,
                 desk, micEvents>>

\* nextBackoff, by the timer or by the token.
MicTriesAgain ==
  /\ micTurn = "waiting" /\ micTurn' = "turn"
  /\ micWake' \in {micWake, FALSE}
  /\ UNCHANGED <<micWanted, micReopen, micReach, micCancelled, micAsked, micOpen, micPoor,
                 micRecheck, micEnd, shown, micChooser, desk, micEvents>>

MicEndsForGood ==
  /\ micQuit /\ micTurn \in {"turn", "ended", "waiting"} /\ micTurn' = "done"
  /\ audioOK' = FALSE
  /\ UNCHANGED <<micMarks, micAsked, micOpen, micPoor, micRecheck, micEnd, micGrace, micChooser,
                 desk, micEvents>>

GraceEnds ==
  /\ micGrace /\ micGrace' = FALSE
  /\ UNCHANGED <<micMarks, micSession, audioOK, micChooser, desk, micEvents>>

-----------------------------------------------------------------------------
\* SetMicDevice: choose, mark, close, wake.

MicChooses(wish) ==
  /\ micChooser = "idle" /\ MicEvent
  /\ micChooser' = "chosen" /\ micWanted' = wish
  /\ UNCHANGED <<micReopen, micWake, micReach, micCancelled, micSession, shown, desk>>

MicMarked ==
  /\ micChooser = "chosen" /\ micChooser' = "marked" /\ micReopen' = TRUE
  /\ UNCHANGED <<micWanted, micWake, micReach, micCancelled, micSession, shown, desk, micEvents>>

MicCancels ==
  /\ micChooser = "marked" /\ micChooser' = "closed" /\ MicCancelsStored
  /\ UNCHANGED <<micWanted, micReopen, micWake, micReach, micSession, shown, desk, micEvents>>

LeavesNoToken == micWake                                           \* mutant
LeavesToken == TRUE

MicWakes ==
  /\ micChooser = "closed" /\ micChooser' = "idle" /\ micWake' = LeavesToken
  /\ UNCHANGED <<micWanted, micReopen, micReach, micCancelled, micSession, shown, desk, micEvents>>

-----------------------------------------------------------------------------
MicReplugs(e) ==
  /\ MicEvent
  /\ present' = IF e \in present THEN present \ {e} ELSE present \cup {e}
  /\ UNCHANGED <<micMarks, micSession, shown, micChooser, clean, micQuit>>

\* Another program takes the device, or lets it go; the switch in Windows.
MicIsTaken ==
  /\ MicEvent /\ clean' = ~clean
  /\ UNCHANGED <<micMarks, micSession, shown, micChooser, present, micQuit>>

MicQuits ==
  /\ ~micQuit /\ micQuit' = TRUE
  /\ UNCHANGED <<micMarks, micSession, shown, micChooser, present, clean, micEvents>>

MicSupervises ==
  \/ MicStarts \/ MicClears \/ MicReadsTheWish \/ MicOpens \/ MicLooksAgain
  \/ MicCloses \/ MicFails \/ MicPanics
  \/ MicFallsSilent \/ MicComesBack \/ MicWillWait \/ MicTriesAgain \/ MicEndsForGood
MicGoesOnChoosing == MicMarked \/ MicCancels \/ MicWakes

MicNext ==
  \/ MicSupervises \/ MicRechecks \/ GraceEnds
  \/ (\E wish \in MicWishes : MicChooses(wish)) \/ MicGoesOnChoosing
  \/ (\E e \in Mics : MicReplugs(e)) \/ MicIsTaken \/ MicQuits

MicSpec == MicInit /\ [][MicNext]_micVars

-----------------------------------------------------------------------------
MicTypeOK ==
  /\ micWanted \in MicWishes /\ micAsked \in MicWishes /\ micOpen \in Mics \cup {NoMic}
  /\ {micReopen, micWake, micReach, micCancelled, micPoor, micRecheck, audioOK, micGrace,
      clean, micQuit} \subseteq BOOLEAN
  /\ micTurn \in MicTurns /\ micEnd \in MicEnds
  /\ micChooser \in {"idle", "chosen", "marked", "closed"}
  /\ present \subseteq Mics
  /\ micEvents \in 0..MaxMicEvents

\* The microphone that captures, and that nobody is closing, was opened for
\* the last wish, although the mark of a choice can be cleared under it.
TheMicWishIsApplied ==
  micTurn = "capturing" /\ ~micCancelled /\ micChooser = "idle" => micAsked = micWanted

\* A choice never waits out a backoff.
NoMicChoiceWaits ==
  micTurn = "waiting" /\ micChooser = "idle" /\ micAsked # micWanted => micWake

\* On a worse path the microphone does not stay: with the chosen endpoint back
\* and nobody holding it, it is that one that captures, clean.
TheChosenMicIsHeard ==
  <>[](clean /\ micWanted \in present) =>
    <>[](micQuit \/ (micTurn = "capturing" /\ micOpen = micWanted /\ ~micPoor))

\* Together: the choice in force is the one that was made last, and none is left
\* waiting.
MicrophoneSafety == MicTypeOK /\ TheMicWishIsApplied /\ NoMicChoiceWaits
=============================================================================
