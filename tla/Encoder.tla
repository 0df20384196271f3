------------------------------ MODULE Encoder ------------------------------
(***************************************************************************)
(* The encoder of a session and those who command it: SetBitrate,          *)
(* ReconfigureBitrate and the probe, against the frame loop that builds    *)
(* it, replaces it and takes it down, in internal/pipeline/pipeline.go.    *)
(*                                                                         *)
(* Whoever commands holds encMu for reading, from the moment the pointer   *)
(* is read to the end of the call; whoever replaces takes it for writing.  *)
(* The bitrate in force outlives the encoders: each is built with it.      *)
(***************************************************************************)
EXTENDS Naturals

CONSTANTS Preset,      \* the bitrate the program starts with, to be halved a few times
          Rates,       \* what the governor commands
          MaxEncoders, \* encoders there may be: a bound
          MaxCommands, \* commands of the governor: a bound
          MaxSwitches  \* sessions that end because a camera was chosen: a bound

ASSUME EncoderAssumption ==
  /\ Preset \in Nat \ {0} /\ Rates \subseteq Nat \ {0}
  /\ MaxEncoders \in Nat \ {0} /\ MaxCommands \in Nat /\ MaxSwitches \in Nat

Gens == 1..MaxEncoders
Callers == {"governor", "probe"}
NoCall == [at |-> "idle", kbps |-> 0, gen |-> 0]

VARIABLES
  encTurn,      \* where the frame loop is
  control,      \* Pipeline.control: the encoder that may be commanded, or 0
  encBuilt,     \* encoders built so far
  encOld,       \* the one just replaced, or taken down
  encClosed,    \* the encoders released
  encCalls,     \* the calls under way, each holding the lock for reading
  curKbps,      \* the bitrate in force
  wantReconfig, \* a rebuild deposited for the frame loop
  suspect,      \* a rebuild was tried less than ten seconds ago
  reconfigBroken,
  deaf,         \* Pipeline.brHard
  breaks,       \* rebuilding stops this machine's encoder
  probe,        \* where the probe is, and what it remembers
  brProbed,
  commands, switches, \* how many there have been
  broke,        \* history: sessions a rebuild has ended
  leftKbps      \* history: what a probe has to leave in force: the preset, until an
                \* encoder refuses a halving that was noted already

encoderVars == <<encTurn, control, encBuilt, encOld, encClosed>>
wishes == <<curKbps, wantReconfig>>
verdicts == <<suspect, reconfigBroken, deaf, breaks>>
probing == <<probe, brProbed>>
encCounts == <<commands, switches, broke, leftKbps>>
encVars == <<encoderVars, encCalls, wishes, verdicts, probing, encCounts>>

EncoderInit ==
  /\ encTurn = "down" /\ control = 0 /\ encBuilt = 0 /\ encOld = 0 /\ encClosed = {}
  /\ encCalls = [c \in Callers |-> NoCall]
  /\ curKbps = Preset /\ wantReconfig = 0
  /\ suspect = FALSE /\ reconfigBroken = FALSE /\ deaf = FALSE /\ breaks \in BOOLEAN
  /\ probe = [at |-> "no", before |-> 0, asked |-> 0] /\ brProbed = FALSE
  /\ commands = 0 /\ switches = 0 /\ broke = 0 /\ leftKbps = Preset

\* encMu may be taken for writing.
HeldByNobody == TRUE                                               \* mutant
Unread == \A c \in Callers : encCalls[c].at = "idle"

-----------------------------------------------------------------------------
\* SetBitrate.

\* Under the lock the pointer is read; without an encoder there is no command.
Calls(c, kbps) ==
  /\ encCalls[c].at = "idle" /\ control # 0
  /\ encCalls' = [encCalls EXCEPT ![c] = [at |-> "reads", kbps |-> kbps, gen |-> control]]

Notes(c) ==
  /\ encCalls[c].at = "reads"
  /\ encCalls' = [encCalls EXCEPT ![c].at = "noted"]
  /\ curKbps' = encCalls[c].kbps
  /\ UNCHANGED <<encoderVars, wantReconfig, verdicts, probing, encCounts>>

\* BitrateNeedsReconfig
NeedsReconfig == deaf /\ ~reconfigBroken

Commands(c) ==
  /\ encCalls[c].at = "noted"
  /\ encCalls' = [encCalls EXCEPT ![c] = NoCall]
  /\ wantReconfig' = IF NeedsReconfig THEN encCalls[c].kbps ELSE wantReconfig
  /\ curKbps' = IF NeedsReconfig THEN encCalls[c].kbps ELSE curKbps
  /\ UNCHANGED <<encoderVars, verdicts, probing, encCounts>>

\* The encoder has no control interface, or its driver refuses the value: an error,
\* and the note stays.  Whoever governs only says so, and so does a probe that was
\* giving back; one that was halving takes its leave, having lowered nothing that
\* it knows of.
Refuses(c) ==
  /\ encCalls[c].at = "noted" /\ ~NeedsReconfig
  /\ encCalls' = [encCalls EXCEPT ![c] = NoCall]
  /\ IF c = "probe" /\ probe.at = "second"
       THEN probe' = [probe EXCEPT !.at = "no"] /\ brProbed' = FALSE /\ leftKbps' = probe.asked
       ELSE UNCHANGED <<probing, leftKbps>>
  /\ UNCHANGED <<encoderVars, wishes, verdicts, commands, switches, broke>>

Governs(kbps) ==
  /\ commands < MaxCommands /\ commands' = commands + 1
  /\ Calls("governor", kbps)
  /\ UNCHANGED <<encoderVars, wishes, verdicts, probing, switches, broke, leftKbps>>

-----------------------------------------------------------------------------
\* The frame loop.

\* A session builds its encoder with the bitrate in force, and publishes it;
\* the first of the process starts the probe.  A camera takes longer to open
\* than an interrupted probe to go.
IsBorn ==
  /\ encTurn = "down" /\ encBuilt < MaxEncoders
  /\ encBuilt' = encBuilt + 1 /\ encTurn' = "up" /\ control' = encBuilt + 1
  /\ brProbed' = TRUE
  /\ probe' = IF brProbed THEN probe ELSE [at |-> "first", before |-> 0, asked |-> 0]
  /\ probe.at = "no"
  /\ UNCHANGED <<encOld, encClosed, encCalls, wishes, verdicts, encCounts>>

\* applyFormat: the new one is built beside, swapped in, and the old one closed.
Rebuilds ==
  /\ encTurn = "up" /\ encBuilt < MaxEncoders
  /\ encBuilt' = encBuilt + 1 /\ encTurn' = "built"
  /\ UNCHANGED <<control, encOld, encClosed, encCalls, wishes, verdicts, probing, encCounts>>

Swaps ==
  /\ encTurn = "built" /\ Unread
  /\ control' = encBuilt /\ encOld' = control /\ encTurn' = "swapped"
  /\ UNCHANGED <<encBuilt, encClosed, encCalls, wishes, verdicts, probing, encCounts>>

ClosesOld ==
  /\ encTurn \in {"swapped", "left", "broken"}
  /\ encClosed' = encClosed \cup {encOld}
  /\ encTurn' = IF encTurn = "swapped" THEN "up" ELSE IF encTurn = "left" THEN "ended" ELSE "failed"
  /\ UNCHANGED <<control, encBuilt, encOld, encCalls, wishes, verdicts, probing, encCounts>>

\* The way out: nobody can command it, and then it is closed.
TakesDown(turn) ==
  /\ Unread
  /\ control' = 0 /\ encOld' = control /\ encTurn' = turn
  /\ UNCHANGED <<encBuilt, encClosed, encCalls>>

SessionLeaves ==
  /\ encTurn = "up" /\ TakesDown("left")
  /\ UNCHANGED <<wishes, verdicts, probing, encCounts>>

\* applyReconfig: what was deposited is taken, and a rebuild that fails ends
\* the session.
Reconfigures ==
  /\ encTurn = "up" /\ wantReconfig # 0
  /\ wantReconfig' = 0 /\ suspect' = TRUE /\ encTurn' = "rebuilding"
  /\ UNCHANGED <<control, encBuilt, encOld, encClosed, encCalls, curKbps, reconfigBroken, deaf,
                 breaks, probing, encCounts>>

Rebuilt ==
  /\ encTurn = "rebuilding"
  /\ IF breaks THEN TakesDown("broken") /\ broke' = broke + 1
     ELSE encTurn' = "up" /\ UNCHANGED <<control, encBuilt, encOld, encClosed, encCalls, broke>>
  /\ UNCHANGED <<wishes, verdicts, probing, commands, switches, leftKbps>>

\* reconfigIsBroken: the supervisor, after an error.
NeverBroken == reconfigBroken                                      \* mutant
IsBroken == reconfigBroken \/ suspect

Supervised ==
  /\ encTurn = "failed" /\ encTurn' = "down"
  /\ reconfigBroken' = IsBroken
  /\ UNCHANGED <<control, encBuilt, encOld, encClosed, encCalls, wishes, suspect, deaf, breaks,
                 probing, encCounts>>

\* A camera chosen at that moment is all the supervisor sees of the end.
Switched ==
  /\ encTurn = "failed" /\ switches < MaxSwitches /\ switches' = switches + 1
  /\ encTurn' = "down"
  /\ UNCHANGED <<control, encBuilt, encOld, encClosed, encCalls, wishes, verdicts, probing,
                 commands, broke, leftKbps>>

\* Any other end: an error may come just after a rebuild that went well.
Ended ==
  /\ encTurn = "ended" /\ encTurn' = "down"
  /\ reconfigBroken' \in {reconfigBroken, IsBroken}
  /\ UNCHANGED <<control, encBuilt, encOld, encClosed, encCalls, wishes, suspect, deaf, breaks,
                 probing, encCounts>>

SuspicionPasses ==
  /\ suspect /\ encTurn \notin {"rebuilding", "broken", "failed"} /\ suspect' = FALSE
  /\ UNCHANGED <<encoderVars, encCalls, wishes, reconfigBroken, deaf, breaks, probing, encCounts>>

\* bitrateSeen, when its verdict falls: the command is executed by the other road.
IsTakenForDeaf(kbps) ==
  /\ encTurn = "up" /\ ~deaf /\ deaf' = TRUE
  /\ curKbps' = kbps /\ wantReconfig' = kbps
  /\ UNCHANGED <<encoderVars, encCalls, suspect, reconfigBroken, breaks, probing, encCounts>>

-----------------------------------------------------------------------------
\* probeBitrate.  Its waits see the session's context.

SessionOver == encTurn \notin {"up", "built", "swapped", "rebuilding"}
ProbeGoes(at) == probe' = [probe EXCEPT !.at = at]

\* Over before anything was lowered, with the session, for want of frames to measure
\* or of an encoder to command: it will be asked again.
ProbeGivesUp ==
  /\ probe.at = "first"
  /\ ProbeGoes("no") /\ brProbed' = FALSE
  /\ UNCHANGED <<encoderVars, encCalls, wishes, verdicts, encCounts>>

ProbeHalves ==
  /\ probe.at = "first" /\ ~SessionOver
  /\ Calls("probe", curKbps \div 2)
  /\ probe' = [at |-> "second", before |-> curKbps, asked |-> curKbps \div 2]
  /\ UNCHANGED <<encoderVars, wishes, verdicts, brProbed, encCounts>>

\* The second measure, or the end of the session instead; both put back what
\* was lowered, unless somebody else has commanded.
Interrupted == FALSE                                               \* mutant
PutsBack == curKbps = probe.asked

ProbeEnds(completed) ==
  /\ probe.at = "second" /\ encCalls["probe"].at = "idle"
  /\ completed \/ SessionOver
  /\ brProbed' = completed
  /\ IF PutsBack THEN ProbeGoes("back") ELSE ProbeGoes("no")
  /\ \/ UNCHANGED deaf
     \/ completed /\ deaf' = TRUE
  /\ UNCHANGED <<encoderVars, encCalls, wishes, suspect, reconfigBroken, breaks, encCounts>>

\* restoreAfterProbe: the encoder is commanded, or the value left for the next.
ProbeRestores ==
  /\ probe.at = "back" /\ encCalls["probe"].at = "idle"
  /\ ProbeGoes("no")
  /\ IF control # 0 THEN Calls("probe", probe.before) /\ UNCHANGED curKbps
                    ELSE curKbps' = probe.before /\ UNCHANGED encCalls
  /\ UNCHANGED <<encoderVars, wantReconfig, verdicts, brProbed, encCounts>>

EncoderNext ==
  \/ \E kbps \in Rates : Governs(kbps) \/ IsTakenForDeaf(kbps)
  \/ \E c \in Callers : Notes(c) \/ Commands(c) \/ Refuses(c)
  \/ IsBorn \/ Rebuilds \/ Swaps \/ ClosesOld \/ SessionLeaves \/ Reconfigures \/ Rebuilt
  \/ Supervised \/ Switched \/ Ended \/ SuspicionPasses
  \/ ProbeGivesUp \/ ProbeHalves \/ ProbeRestores
  \/ \E completed \in BOOLEAN : ProbeEnds(completed)

EncoderSpec == EncoderInit /\ [][EncoderNext]_encVars

-----------------------------------------------------------------------------
EncoderTypeOK ==
  /\ encTurn \in {"down", "up", "built", "swapped", "rebuilding", "left", "ended", "broken", "failed"}
  /\ control \in 0..encBuilt /\ encBuilt \in 0..MaxEncoders /\ encOld \in 0..encBuilt
  /\ encClosed \subseteq Gens
  /\ encCalls \in [Callers -> [at : {"idle", "reads", "noted"}, kbps : Nat, gen : 0..MaxEncoders]]
  /\ curKbps \in Nat /\ wantReconfig \in Nat
  /\ {suspect, reconfigBroken, deaf, breaks, brProbed} \subseteq BOOLEAN
  /\ probe \in [at : {"no", "first", "second", "back"}, before : Nat, asked : Nat]
  /\ commands \in 0..MaxCommands /\ switches \in 0..MaxSwitches /\ broke \in Nat /\ leftKbps \in Nat

\* Whoever commands finds an encoder that is still open, from the reading of
\* the pointer to the end of the call.
NobodyUsesAClosed ==
  \A c \in Callers : encCalls[c].at # "idle" => encCalls[c].gen \notin encClosed

\* The probe leaves nothing lowered behind it, finished or not, but for a halving
\* that the encoder refused: that half stays in force, is what the next encoders are
\* born with, and what the probes that follow give back.
TheProbeGivesBack ==
  probe.at = "no" /\ encCalls["probe"].at = "idle" /\ commands = 0 /\ ~deaf
    => curKbps = leftKbps

\* A machine whose encoder stops when it is rebuilt is stopped so once, once
\* more for what was already deposited, and once for each camera that was
\* chosen at that very moment.
RebuildsAreGivenUp == broke <= 2 + switches

\* Together: no command reaches an encoder that is closed, the probe gives back the
\* bitrate that it lowered, and a device that keeps breaking is given up.
EncoderSafety == EncoderTypeOK /\ NobodyUsesAClosed /\ TheProbeGivesBack /\ RebuildsAreGivenUp
=============================================================================
