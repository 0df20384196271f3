------------------------------ MODULE Recorder ------------------------------
(***************************************************************************)
(* The ring of the last seconds, the clip in progress and the end of the   *)
(* monitor: internal/record/ring.go, snapshot.go and recorder.go, the      *)
(* writer of cmd/pat-monitor/clips.go and the last lines of run in         *)
(* cmd/pat-monitor/main.go.                                                *)
(*                                                                         *)
(* The camera's goroutine and the microphone's write into the ring and     *)
(* into the clip in progress under one lock; the watching round and a      *)
(* pressed button ask for a clip, which takes what the ring holds and goes *)
(* on until its finish line; a channel of one hands it to the writer.      *)
(*                                                                         *)
(* Frames are numbered as they come.  A group is a keyframe and what       *)
(* follows it, so the ring is a set of frames.  A frame weighs one, and    *)
(* the watching round is the unit of time.                                 *)
(***************************************************************************)
EXTENDS Naturals, FiniteSets

CONSTANTS Shapes,       \* parameter sets, those that fit one file being one
          NoShape,      \* no parameter sets
          NoClip,
          WholeGops,    \* groups kept besides the one that grows
          MaxBytes,     \* the ring's ceiling
          MaxClipBytes, \* the clip's
          PostRoll,     \* how long a clip goes on after its last event
          MaxDuration,  \* and after its first
          MaxAudioAge,  \* how long the ring keeps sound without a picture
          MaxFrames,    \* frames: a bound
          MaxTime       \* the last instant: a bound

ASSUME RecorderAssumption ==
  /\ NoShape \notin Shapes
  /\ WholeGops \in Nat /\ MaxBytes \in Nat \ {0} /\ MaxClipBytes \in Nat
  /\ MaxBytes < MaxClipBytes
  /\ PostRoll \in Nat \ {0} /\ MaxDuration \in Nat \ {0} /\ MaxAudioAge \in Nat
  /\ MaxFrames \in Nat /\ MaxTime \in Nat

Instants == 0..MaxTime
Frames == [n : 1..MaxFrames, key : BOOLEAN, shape : Shapes \cup {NoShape}, at : Instants]
Clips == [shape : Shapes, video : SUBSET Frames]
Armed == [eventAt : Instants, deadline : 0..(MaxTime + PostRoll),
          shape : Shapes, video : SUBSET Frames]
ASSUME NoClipAssumption == NoClip \notin Clips \cup Armed

VARIABLES
  now,      \* the time
  looked,   \* the watching round has ticked at this instant
  watching, \* it runs
  count,    \* the frames there have been
  coding,   \* what the encoder last declared
  ring,     \* Ring.gops
  sets,     \* Ring.sps and pps
  sound,    \* Ring.audio: the instants of its packets
  clip,     \* the clip in progress
  queue,    \* Recorder.clips, a channel of one
  saving,   \* the writer is at work
  stage,    \* where the monitor's end is
  handing,  \* what Flush holds
  endedBy   \* what cut the end short

clock == <<now, looked, watching>>
encoder == <<count, coding>>
pre == <<ring, sets, sound>>
post == <<clip, queue>>
end == <<saving, stage, handing, endedBy>>
vars == <<clock, encoder, pre, post, end>>

Init ==
  /\ now = 0 /\ looked = FALSE /\ watching = TRUE
  /\ count = 0 /\ coding = NoShape
  /\ ring = {} /\ sets = NoShape /\ sound = {}
  /\ clip = NoClip /\ queue = NoClip
  /\ saving = FALSE /\ stage = "on" /\ handing = NoClip /\ endedBy = "nothing"

\* The pipeline and the server run until the group has ended.
Running == stage \in {"on", "quitting"}
Alive == stage # "gone"

-----------------------------------------------------------------------------
\* The ring.

From(k, frames) == {f \in frames : f.n >= k.n}
Keys(frames) == {f \in frames : f.key}

\* A group may begin the ring if no more than the groups kept, and no more
\* than the ceiling, come from it on.
MayBeginBare(k, frames) == Cardinality(Keys(From(k, frames))) <= WholeGops + 1 \* mutant
MayBegin(k, frames) ==
  /\ Cardinality(Keys(From(k, frames))) <= WholeGops + 1
  /\ Cardinality(From(k, frames)) <= MaxBytes

\* evictOldest as often as it takes, and clear if the last group is too heavy:
\* what is left begins with a keyframe, and is all there is from it on.
WithoutTheNewest(frames) ==                                        \* mutant
  IF \A k \in Keys(frames) : MayBegin(k, frames) THEN frames
  ELSE {f \in frames : \E k \in Keys(frames) : f.n < k.n}
Kept(frames) == UNION {From(k, frames) : k \in {k \in Keys(frames) : MayBegin(k, frames)}}

\* trimAudio: what is neither too old nor before the first frame.
SoundKept(packets, frames) ==
  {t \in packets : /\ t + MaxAudioAge >= now
                   /\ frames # {} => \E f \in frames : f.at <= t}

\* noteParameterSets: frames of another shape cannot share a file.
NeverEmptied(f, declares) == FALSE                                  \* mutant
Emptied(f, declares) == declares /\ sets # f.shape

RingVideo(f, declares) ==
  LET old == IF Emptied(f, declares) THEN {} ELSE ring
      heard == IF Emptied(f, declares) THEN {} ELSE sound
      kept == Kept(old \cup {f})
  IN /\ sets' = IF declares THEN f.shape ELSE sets
     /\ IF old = {} /\ ~f.key
          THEN UNCHANGED <<ring, sound>>
          ELSE /\ ring' = kept
               /\ sound' = IF kept = {} THEN {} ELSE SoundKept(heard, kept)

-----------------------------------------------------------------------------
\* The clip in progress.

\* take
Recorded(c) == [shape |-> c.shape, video |-> c.video]

\* finish: the channel takes the clip, or the clip is lost.
Finish(c) ==
  /\ clip' = NoClip
  /\ queue' = IF queue = NoClip THEN Recorded(c) ELSE queue

NeverTooLong(c) == now >= c.deadline \/ Cardinality(c.video) >= MaxClipBytes \* mutant
IsOver(c) ==
  \/ now >= c.deadline
  \/ now >= c.eventAt + MaxDuration
  \/ Cardinality(c.video) >= MaxClipBytes

\* checkDone
GoesOn(c) == IF IsOver(c) THEN Finish(c) ELSE clip' = c /\ UNCHANGED queue

WithFrame(c, f) == [c EXCEPT !.video = @ \cup {f}]

ClipVideo(f, declares) ==
  IF clip = NoClip THEN UNCHANGED post
  ELSE IF declares /\ clip.shape # f.shape THEN Finish(clip)
  ELSE GoesOn(WithFrame(clip, f))

\* An access unit: any frame up to the first keyframe, which carries the
\* parameter sets, as keyframes do; a keyframe without them changes no shape.
Encoded(key, declares, shape) ==
  /\ declares => key /\ shape # NoShape
  /\ ~declares => shape = coding
  /\ key /\ coding = NoShape => declares

WriteVideo(key, declares, shape) ==
  LET f == [n |-> count + 1, key |-> key, shape |-> shape, at |-> now]
  IN /\ Running /\ count < MaxFrames
     /\ Encoded(key, declares, shape)
     /\ count' = count + 1 /\ coding' = shape
     /\ RingVideo(f, declares)
     /\ ClipVideo(f, declares)
     /\ UNCHANGED <<clock, end>>

\* A packet of sound.  What a clip keeps of the sound is left out.
WriteAudio ==
  /\ Running
  /\ sound' = SoundKept(sound \cup {now}, ring)
  /\ IF clip = NoClip THEN UNCHANGED post ELSE GoesOn(clip)
  /\ UNCHANGED <<clock, encoder, ring, sets, end>>

\* trigger: the clip in progress goes on, or one begins with what the ring
\* holds.  With nothing in the ring there is no clip.  The lock a person's
\* request puts on the clip is left out, as the event's code is.
Added(d) == d + PostRoll                                            \* mutant
Further(d) == IF now + PostRoll > d THEN now + PostRoll ELSE d

Extends ==
  /\ clip # NoClip
  /\ GoesOn([clip EXCEPT !.deadline = Further(@)])
Begins ==
  /\ clip = NoClip /\ ring # {}
  /\ clip' = [eventAt |-> now, deadline |-> now + PostRoll,
              shape |-> sets, video |-> ring]
  /\ UNCHANGED queue
Trigger ==
  /\ Extends \/ Begins
  /\ UNCHANGED <<clock, encoder, pre, end>>

\* An event of the watching round, and the button of a page.
AnEvent == Alive /\ watching /\ Trigger
Record == Running /\ Trigger

\* The round's Tick: with no frames coming nothing else ends a clip.
Tick ==
  /\ Alive /\ watching /\ ~looked /\ looked' = TRUE
  /\ IF clip = NoClip THEN UNCHANGED post ELSE GoesOn(clip)
  /\ UNCHANGED <<now, watching, encoder, pre, end>>

TimePasses ==
  /\ Alive /\ now < MaxTime /\ (watching => looked)
  /\ now' = now + 1 /\ looked' = FALSE
  /\ UNCHANGED <<watching, encoder, pre, post, end>>

-----------------------------------------------------------------------------
\* serveClips

WriterTakes ==
  /\ queue # NoClip /\ ~saving /\ Alive
  /\ queue' = NoClip /\ saving' = TRUE
  /\ UNCHANGED <<clock, encoder, pre, clip, stage, handing, endedBy>>

\* The clip is written, or the disk refuses it.
WriterSaves ==
  /\ saving /\ Alive /\ saving' = FALSE
  /\ UNCHANGED <<clock, encoder, pre, post, stage, handing, endedBy>>

\* Once stopped it empties the channel and returns, and the monitor with it.
LeavesTheLast ==                                                   \* mutant
  /\ stage = "draining" /\ ~saving
  /\ stage' = "gone"
  /\ UNCHANGED <<clock, encoder, pre, post, saving, handing, endedBy>>
WriterReturns ==
  /\ stage = "draining" /\ queue = NoClip /\ ~saving
  /\ stage' = "gone"
  /\ UNCHANGED <<clock, encoder, pre, post, saving, handing, endedBy>>

-----------------------------------------------------------------------------
\* The end.  Quitting cancels what the watching round and the group run on.

Quit ==
  /\ stage = "on" /\ stage' = "quitting"
  /\ UNCHANGED <<clock, encoder, pre, post, saving, handing, endedBy>>

\* The round in progress may be the last, or the ticker may win once more.
WatchEnds ==
  /\ Alive /\ stage # "on" /\ watching /\ watching' = FALSE
  /\ UNCHANGED <<now, looked, encoder, pre, post, end>>

\* http.Server.Shutdown gives requests under way five seconds and then fails,
\* and the group's error is run's: the process ends there.
ShutdownIsLate ==
  /\ stage = "quitting" /\ stage' = "gone" /\ endedBy' = "a request"
  /\ UNCHANGED <<clock, encoder, pre, post, saving, handing>>

\* Every member has ended.  Flush takes the clip in progress.
Flush ==
  /\ stage = "quitting"
  /\ stage' = IF clip = NoClip THEN "draining" ELSE "flushing"
  /\ handing' = IF clip = NoClip THEN NoClip ELSE Recorded(clip)
  /\ clip' = NoClip
  /\ endedBy' = IF watching THEN "a round" ELSE endedBy
  /\ UNCHANGED <<clock, encoder, pre, queue, saving>>

\* It waits for room in the channel.
FlushHands ==
  /\ stage = "flushing" /\ queue = NoClip
  /\ queue' = handing /\ handing' = NoClip /\ stage' = "draining"
  /\ UNCHANGED <<clock, encoder, pre, clip, saving, endedBy>>

\* One deadline for the group, and one for Flush and the writer.
TimeRunsOut ==
  /\ stage \in {"quitting", "flushing", "draining"}
  /\ stage' = IF stage = "flushing" THEN "draining" ELSE "gone"
  /\ endedBy' = "a deadline"
  /\ UNCHANGED <<clock, encoder, pre, post, saving, handing>>

-----------------------------------------------------------------------------
Next ==
  \/ \E key, declares \in BOOLEAN, shape \in Shapes \cup {NoShape} :
       WriteVideo(key, declares, shape)
  \/ WriteAudio \/ AnEvent \/ Record \/ Tick \/ TimePasses
  \/ WriterTakes \/ WriterSaves \/ WriterReturns
  \/ Quit \/ WatchEnds \/ ShutdownIsLate \/ Flush \/ FlushHands \/ TimeRunsOut

Spec == Init /\ [][Next]_vars

-----------------------------------------------------------------------------
\* Every variable has its type.
TypeOK ==
  /\ now \in Instants /\ looked \in BOOLEAN /\ watching \in BOOLEAN
  /\ count \in 0..MaxFrames /\ coding \in Shapes \cup {NoShape}
  /\ ring \in SUBSET Frames /\ sets \in Shapes \cup {NoShape}
  /\ sound \in SUBSET Instants
  /\ clip \in Armed \cup {NoClip} /\ queue \in Clips \cup {NoClip}
  /\ handing \in Clips \cup {NoClip}
  /\ saving \in BOOLEAN
  /\ stage \in {"on", "quitting", "flushing", "draining", "gone"}
  /\ endedBy \in {"nothing", "a request", "a round", "a deadline"}

\* A clip decodes: it begins with a keyframe, no frame between two of its own
\* is missing, and every frame was coded with the parameter sets it declares,
\* however the ring was emptied, cut and rebuilt before and during it.
BeginsWithAKey(frames) == \E k \in Keys(frames) : \A f \in frames : k.n <= f.n
HasNoGaps(frames) ==
  \A f, g \in frames : \A i \in f.n..g.n : \E h \in frames : h.n = i
Decodes(c) ==
  /\ BeginsWithAKey(c.video) /\ HasNoGaps(c.video)
  /\ \A f \in c.video : f.shape = c.shape
ClipIsWhole == \A c \in {clip, queue, handing} \ {NoClip} : Decodes(c)

\* While a clip is in progress nothing that the camera gives is left out of
\* it, and what the ring holds reaches to the present.
NothingIsMissed ==
  /\ clip # NoClip => \E f \in clip.video : f.n = count
  /\ ring # {} => \E f \in ring : f.n = count

\* An encoder that makes no keyframes, a camera that stops and events without
\* end are all held within the ceilings.
MemoryIsBounded ==
  /\ Cardinality(ring) <= MaxBytes
  /\ \A s, t \in sound : s <= t + MaxAudioAge
  /\ clip # NoClip => Cardinality(clip.video) < MaxClipBytes
  /\ \A c \in {queue, handing} \ {NoClip} : Cardinality(c.video) <= MaxClipBytes

\* A clip ends at its finish line and at the length ceiling, with frames or
\* without, and however many events follow its own.
ClipsEnd ==
  clip # NoClip /\ watching =>
    now <= clip.deadline /\ now <= clip.eventAt + MaxDuration

\* An orderly end that no deadline cuts short leaves no clip unwritten.
EndLeavesNothing ==
  stage = "gone" /\ endedBy = "nothing" =>
    clip = NoClip /\ queue = NoClip /\ handing = NoClip /\ ~saving

\* What run says of its last lines: the clip in progress is written, not
\* dropped, unless the disk does not answer in time.
TheLastClipIsWritten ==
  stage = "gone" /\ endedBy # "a deadline" =>
    clip = NoClip /\ queue = NoClip /\ handing = NoClip /\ ~saving

\* Together: every clip decodes and misses nothing, the memory is bounded, a clip
\* ends, and an orderly end leaves none behind.
RecorderSafety ==
  TypeOK /\ ClipIsWhole /\ NothingIsMissed /\ MemoryIsBounded /\ ClipsEnd /\ EndLeavesNothing
=============================================================================
