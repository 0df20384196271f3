------------------------------ MODULE Timeline ------------------------------
(***************************************************************************)
(* A clip's two tracks on one clock: writeClip, videoDurations and         *)
(* audioDurations in internal/record/clip.go, durToScale and findBox in    *)
(* internal/media/mp4.go.  What is recorded is in pieces, each with the    *)
(* instant it was captured; a track is a list of durations.                *)
(***************************************************************************)
EXTENDS Integers, Sequences, FiniteSets, SequencesExt

CONSTANTS Opus,       \* audiocodec.FrameDuration: what a packet holds
          MinSample,  \* minSampleDuration
          Gaps,       \* intervals between pieces: a bound
          MaxShown, MaxPackets,  \* pieces of each: bounds
          PerTick, Ticks          \* a track's scale: PerTick units every Ticks

ASSUME TimelineAssumption ==
  /\ {Opus, MinSample, PerTick, Ticks} \subseteq Nat \ {0} /\ MinSample <= Opus
  /\ Gaps \subseteq Nat /\ MaxShown \in Nat /\ MaxPackets \in Nat

SumOf(s) == FoldLeft(LAMBDA a, b : a + b, 0, s)
\* Where the i-th piece lies, in a track of durations s.
Lies(s, i) == SumOf(SubSeq(s, 1, i - 1))

-----------------------------------------------------------------------------
\* videoDurations.  The end of a frame is when the next one was captured; the
\* last one takes the interval before it, and a frame alone lasts a packet.
FlooredAlone(end, pos, at) == (IF end - at > MinSample THEN end - at ELSE MinSample) + pos    \* mutant
Floored(end, pos, at) == IF end > pos + MinSample THEN end ELSE pos + MinSample

VideoDurations(at) ==
  LET end(i, pos) ==
        IF i < Len(at) THEN at[i + 1] - at[1]
        ELSE IF i > 1 THEN pos + (at[i] - at[i - 1])
        ELSE pos + Opus
  IN FoldLeft(LAMBDA r, i : LET to == Floored(end(i, r.pos), r.pos, at[i] - at[1])
                            IN [out |-> Append(r.out, to - r.pos), pos |-> to],
              [out |-> <<>>, pos |-> 0], [i \in DOMAIN at |-> i]).out

\* audioDurations: a packet holds Opus of sound, and the whole packets of the
\* next one's lateness, against where it was due, are a gap.
AgainstThePrevious(next, at, pos) == next - at - Opus              \* mutant
Late(next, at, pos) == next - (pos + Opus)

NoGap(late) == 0 * late                                            \* mutant
Gap(late) == IF late >= Opus THEN (late \div Opus) * Opus ELSE 0

AudioDurations(at) ==
  LET gap(i, pos) == IF i = Len(at) THEN 0 ELSE Gap(Late(at[i + 1] - at[1], at[i] - at[1], pos))
  IN FoldLeft(LAMBDA r, i : LET d == Opus + gap(i, r.pos) IN [out |-> Append(r.out, d), pos |-> r.pos + d],
              [out |-> <<>>, pos |-> 0], [i \in DOMAIN at |-> i]).out

\* writeClip: the last frame stays as long as the sound that follows it.
AsItIs(video, short) == video                                      \* mutant
Extended(video, short) == IF short > 0 THEN [video EXCEPT ![Len(video)] = @ + short] ELSE video

\* SetAudioDelay, of the first packet behind the first frame.
Delay(frames, packets) == IF packets[1] > frames[1] THEN packets[1] - frames[1] ELSE 0

Clip(frames, packets) ==
  LET video == VideoDurations(frames)  audio == AudioDurations(packets)
  IN IF packets = <<>> THEN [video |-> video, audio |-> <<>>, delay |-> 0]
     ELSE [video |-> Extended(video, packets[1] - frames[1] + SumOf(audio) - SumOf(video)),
           audio |-> audio, delay |-> Delay(frames, packets)]

\* durToScale.
CutOff(d) == (d * PerTick) \div Ticks                           \* mutant
DurToScale(d) == IF d <= 0 THEN 0 ELSE (d * PerTick + (Ticks \div 2)) \div Ticks

-----------------------------------------------------------------------------
\* findBox and MP4HasAudio.  A file is its boxes at their offsets, the header
\* of each being one long and what is in it following; a box declares its
\* size, or 0: all that is left.  A half-written file ends before they do.

Box(type, size, sound) == [type |-> type, size |-> size, sound |-> sound]
NotFound == [at |-> 0, end |-> 0, found |-> FALSE]

RECURSIVE FindBox(_, _, _, _)
FindBox(file, from, to, want) ==
  IF from >= to \/ from \notin DOMAIN file THEN NotFound
  ELSE LET b == file[from]  size == IF b.size = 0 THEN to - from ELSE b.size
       IN IF size < 1 \/ from + size > to THEN NotFound
          ELSE IF b.type = want THEN [at |-> from + 1, end |-> from + size, found |-> TRUE]
          ELSE FindBox(file, from + size, to, want)

\* Where the search for another track starts.
TheFirstIsEnough(trak, to) == to                                   \* mutant
After(trak, to) == trak.end

RECURSIVE SoundFrom(_, _, _)
SoundFrom(file, off, to) ==
  LET trak == FindBox(file, off, to, "trak")
      mdia == FindBox(file, trak.at, trak.end, "mdia")
      hdlr == FindBox(file, mdia.at, mdia.end, "hdlr")
  IN IF off >= to \/ ~trak.found THEN FALSE
     ELSE IF mdia.found /\ hdlr.found /\ file[hdlr.at - 1].sound THEN TRUE
     ELSE SoundFrom(file, After(trak, to), to)

MP4HasAudio(file, length) ==
  LET moov == FindBox(file, 1, length + 1, "moov")
  IN IF moov.found THEN SoundFrom(file, moov.at, moov.end) ELSE FALSE

\* A clip as the muxer lays it out (external): a header, then the tracks, the
\* sound's after the picture's or before it, in a movie box that comes
\* before the samples or after them.
Track(at, sound) ==
  << <<at, Box("trak", 4, FALSE)>>, <<at + 1, Box("tkhd", 1, FALSE)>>,
     <<at + 2, Box("mdia", 2, FALSE)>>, <<at + 3, Box("hdlr", 1, sound)>> >>
Movie(at, tracks) ==
  << <<at, Box("moov", 2 + 4 * Len(tracks), FALSE)>>, <<at + 1, Box("mvhd", 1, FALSE)>> >>
  \o FlattenSeq([i \in DOMAIN tracks |-> Track(at + 2 + 4 * (i - 1), tracks[i])])
Laid(f) ==
  LET movie == 2 + 4 * Len(f.tracks)
      start == IF f.movieFirst THEN 2 ELSE 2 + f.samples
      body == IF f.movieFirst THEN 2 + movie ELSE 2
      cells == << <<1, Box("ftyp", 1, FALSE)>>, <<body, Box("mdat", IF f.toTheEnd /\ f.movieFirst THEN 0 ELSE f.samples, FALSE)>> >>
               \o Movie(start, f.tracks)
  IN [o \in {cells[i][1] : i \in DOMAIN cells} |-> (CHOOSE c \in ToSet(cells) : c[1] = o)[2]]
Length(f) == 3 + 4 * Len(f.tracks) + f.samples

Files == [tracks : {<<FALSE>>, <<TRUE>>, <<FALSE, TRUE>>, <<TRUE, FALSE>>, <<FALSE, FALSE>>},
          movieFirst : BOOLEAN, toTheEnd : BOOLEAN, samples : {1, 3}, cut : 0..6]

-----------------------------------------------------------------------------
VARIABLES
  frames, packets, \* when each was captured
  file,            \* a clip on disk, of which the last "cut" are missing
  isWritten        \* the clip has been written, and the file looked at

timelineVars == <<frames, packets, file, isWritten>>

At(start, gaps) == [i \in 1..(Len(gaps) + 1) |-> start + SumOf(SubSeq(gaps, 1, i - 1))]
Instants(starts, most) == {At(s, g) : s \in starts, g \in UNION {[1..n -> Gaps] : n \in 0..(most - 1)}}
SomeFile == [tracks |-> <<FALSE, TRUE>>, movieFirst |-> TRUE, toTheEnd |-> FALSE, samples |-> 3, cut |-> 0]

FrameLists == Instants({0}, MaxShown)
PacketLists == {<<>>} \cup Instants(Gaps, MaxPackets)

TimelineInit ==
  /\ \/ /\ frames \in FrameLists /\ packets \in PacketLists /\ file = SomeFile
     \/ frames = <<0>> /\ packets = <<>> /\ file \in Files
  /\ isWritten = FALSE

TimelineNext == ~isWritten /\ isWritten' = TRUE /\ UNCHANGED <<frames, packets, file>>

-----------------------------------------------------------------------------
\* A frame lies where it was captured, or later by no more than the floor of
\* the frames that came in a burst with it; and the burst is given back: once
\* the next is far enough, the picture is where it was.
FramesLieWhereTheyWere ==
  isWritten => LET video == Clip(frames, packets).video IN
  \A i \in DOMAIN frames :
    LET lag == Lies(video, i) - (frames[i] - frames[1])
    IN /\ lag >= 0 /\ lag < MinSample * i
       /\ i > 1 /\ frames[i] - frames[i - 1] >= MinSample * (i - 1) => lag = 0

\* The sound never runs ahead of the picture: a packet is laid before the
\* instant it was captured at by less than what a packet holds, whatever
\* stalls came before.
SoundDoesNotSlide ==
  isWritten => LET clip == Clip(frames, packets) IN
  \A i \in DOMAIN packets : (packets[i] - packets[1]) - Lies(clip.audio, i) < Opus

\* Nor behind: a packet is laid no later than it would be played if each were
\* played on arrival, or after those before it.  A late one absorbs its own
\* lateness, which is not counted again.
NoGapIsInvented ==
  isWritten => LET clip == Clip(frames, packets) IN
  \A i \in DOMAIN packets :
    \E j \in 1..i : Lies(clip.audio, i) <= (packets[j] - packets[1]) + Opus * (i - j)

\* The picture stays as long as the sound.
ThePictureStays ==
  isWritten /\ packets # <<>> =>
    LET clip == Clip(frames, packets) IN SumOf(clip.video) >= clip.delay + SumOf(clip.audio)

\* In the track's own units, what is declared is off by no more than half a
\* unit a piece.
TheDeclaredDoesNotSlip ==
  isWritten =>
    LET video == Clip(frames, packets).video
        declared == SumOf([i \in DOMAIN video |-> DurToScale(video[i])])
        off == Ticks * declared - PerTick * SumOf(video)
    IN -Ticks * Len(video) <= 2 * off /\ 2 * off <= Ticks * Len(video)

\* What the recordings page says of a clip's sound is what is in the file; of
\* a file that ends too soon it never says more than that.
TheSoundIsThere ==
  isWritten =>
    LET whole == Laid(file)  length == Length(file) - file.cut
        left == [o \in {x \in DOMAIN whole : x <= length} |-> whole[o]]
        has == MP4HasAudio(left, length)
        sound == \E i \in DOMAIN file.tracks : file.tracks[i]
    IN (has => sound) /\ (file.cut = 0 => (has <=> sound))

\* A clip's two tracks together: frames lie where they were, the sound neither slides
\* nor has gaps of its own, and what the file declares does not slip.
ClipSafety ==
  /\ FramesLieWhereTheyWere /\ SoundDoesNotSlide /\ NoGapIsInvented
  /\ ThePictureStays /\ TheDeclaredDoesNotSlip /\ TheSoundIsThere
=============================================================================
