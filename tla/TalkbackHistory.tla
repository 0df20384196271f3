-------------------------- MODULE TalkbackHistory --------------------------
(***************************************************************************)
(* Talkback with what an observer in the room would write down.  The added *)
(* variables follow the actions of Talkback and never guard them; the      *)
(* property compares the clocks of the code (stretchAge, quiet) with what  *)
(* the room heard.                                                         *)
(***************************************************************************)
EXTENDS Talkback

VARIABLES
  heard,    \* how long the room has been audible, Cooldown saturating
  muted,    \* how long since it was last audible for a whole pause
  turnAge   \* how long the present turn has lasted, 2 saturating

histVars == <<heard, muted, turnAge>>

\* A pause the code takes for a whole cooldown is at least this long in the
\* room.  It is counted from the last packet, and a turn ended by silence was
\* still muting the room for Idle and one look; and the packet that asks for
\* the floor counts from before the opening, so that a slow opening splits the
\* pause in two, of which one is at least a half.
WholePause ==
  IF Cooldown - Idle - 1 < Cooldown \div 2 THEN Cooldown - Idle - 1 ELSE Cooldown \div 2
MutedCap == TalkMax + Cooldown + 2

HInit ==
  /\ Init
  /\ heard = Cooldown /\ muted = 0 /\ turnAge = 0

Taken(v) == speaker = Nobody /\ speaker' = v

\* The room's side: audible while nobody has the floor.
RoomStep ==
  IF \E v \in Viewers : Taken(v)
    THEN /\ muted' = IF heard >= WholePause THEN 0 ELSE muted
         /\ heard' = 0 /\ turnAge' = 0
    ELSE UNCHANGED <<heard, muted, turnAge>>

RoomTick ==
  /\ heard' = IF speaker = Nobody THEN Older(heard, Cooldown) ELSE 0
  /\ muted' = Older(muted, MutedCap)
  /\ turnAge' = IF speaker = Nobody THEN 0 ELSE Older(turnAge, 2)

HNext ==
  \/ Tick /\ RoomTick
  \/ \E v \in Viewers : (Receive(v) \/ Expire(v)) /\ RoomStep

HSpec == HInit /\ [][HNext]_<<vars, histVars>>

-----------------------------------------------------------------------------
\* The cap counts on the room: however the turns follow each other, once the
\* room has been without a whole pause for longer than the cap (with what a
\* pause may lose), no turn survives a complete look of the tickers.
TheRoomIsCapped ==
  speaker # Nobody /\ muted > TalkMax + Cooldown => turnAge <= 1
=============================================================================
