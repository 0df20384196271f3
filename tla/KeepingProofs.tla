---------------------------- MODULE KeepingProofs ----------------------------
(***************************************************************************)
(* Proofs about what is kept: the ring and the clip in progress (Recorder),*)
(* the list of subscriptions (PushStore), the configuration (ConfigStore)  *)
(* and the clips on disk (ClipStore), for any ceilings, frames, devices,   *)
(* pages, sizes and failures.                                              *)
(*                                                                         *)
(* What the ring keeps is everything from one keyframe on, the oldest that *)
(* fits (OldestFit), so it is whole and bounded because what it was cut    *)
(* from was whole (KeptIsWhole).  A clip begins as a copy of the ring and  *)
(* takes the same frames after, in the shape the encoder last declared.    *)
(* Of the list, only a write that failed sets a device's answer apart from *)
(* the file (TheOddAreCounted); of the configuration, memory is what was   *)
(* last answered (MemoryIsTheAnswer).  What pruning leaves was there when  *)
(* it was the oldest one's turn, and not too much (PruningIsEnough).       *)
(***************************************************************************)
EXTENDS Recorder, PushStore, ConfigStore, ClipStore, FiniteSetTheorems, WellFoundedInduction, TLAPS

LEMMA Least ==
  ASSUME NEW T \in SUBSET Nat, T # {}
  PROVE  \E x \in T : \A y \in T : x <= y
<1> DEFINE R == OpToRel(<, Nat)
<1>1. IsWellFoundedOn(R, Nat)
  BY NatLessThanWellFounded
<1>2. PICK x \in T : \A y \in T : <<y, x>> \notin R
  <2> HIDE DEF R
  <2> QED
    BY <1>1, WFMin
<1>3. \A y \in T : ~(y < x)
  BY <1>2 DEF OpToRel
<1> QED
  BY <1>3

-----------------------------------------------------------------------------
\* What the ring keeps.

LEMMA OldestFit ==
  ASSUME NEW frames \in SUBSET Frames, Kept(frames) # {}
  PROVE  \E k \in Keys(frames) : MayBegin(k, frames) /\ Kept(frames) = From(k, frames)
<1> DEFINE Fit == {k \in Keys(frames) : MayBegin(k, frames)}
           N == {k.n : k \in Fit}
<1>1. Fit # {} /\ Fit \subseteq frames
  BY DEF Kept, Keys
<1>2. \A k \in frames : k.n \in Nat
  BY DEF Frames
<1>3. N \in SUBSET Nat /\ N # {}
  BY <1>1, <1>2
<1>4. PICK m \in N : \A y \in N : m <= y
  <2> HIDE DEF N
  <2> QED
    BY <1>3, Least
<1>5. PICK k \in Fit : k.n = m
  BY <1>4
<1>6. \A j \in Fit : k.n <= j.n
  BY <1>4, <1>5
<1>7. \A j \in Fit : From(j, frames) \subseteq From(k, frames)
  <2> SUFFICES ASSUME NEW j \in Fit, NEW f \in From(j, frames) PROVE f \in From(k, frames)
    OBVIOUS
  <2>1. f \in frames /\ f.n >= j.n
    BY DEF From
  <2>2. f.n \in Nat /\ j.n \in Nat /\ k.n \in Nat
    BY <2>1, <1>1, <1>2
  <2> QED
    BY <2>1, <2>2, <1>6 DEF From
<1>8. Kept(frames) = UNION {From(j, frames) : j \in Fit}
  BY DEF Kept
<1>9. Kept(frames) = From(k, frames)
  <2> HIDE DEF Fit
  <2> QED
    BY <1>7, <1>8
<1> QED
  BY <1>9

\* A stretch of frames as the camera gave them, from a keyframe to the last.
Stretch(frames, last) ==
  /\ frames \in SUBSET Frames /\ IsFiniteSet(frames)
  /\ BeginsWithAKey(frames) /\ HasNoGaps(frames)
  /\ \E f \in frames : f.n = last
  /\ \A f \in frames : f.n <= last

LEMMA KeptIsWhole ==
  ASSUME NEW frames, NEW last \in Nat, Kept(frames) # {}, frames \in SUBSET Frames,
         IsFiniteSet(frames), HasNoGaps(frames),
         \E f \in frames : f.n = last, \A f \in frames : f.n <= last
  PROVE  /\ Stretch(Kept(frames), last)
         /\ Kept(frames) \subseteq frames
         /\ Cardinality(Kept(frames)) <= MaxBytes
<1>1. PICK k \in Keys(frames) : MayBegin(k, frames) /\ Kept(frames) = From(k, frames)
  BY OldestFit
<1> DEFINE K == From(k, frames)
<1>2. \A f \in frames : f.n \in Nat
  BY DEF Frames
<1>3. k \in K /\ K \subseteq frames
  BY <1>1, <1>2 DEF From, Keys
<1>4. BeginsWithAKey(K)
  BY <1>1, <1>2, <1>3 DEF BeginsWithAKey, From, Keys
<1>5. HasNoGaps(K)
  <2> SUFFICES ASSUME NEW f \in K, NEW g \in K, NEW i \in f.n..g.n
               PROVE  \E h \in K : h.n = i
    BY DEF HasNoGaps
  <2>1. f \in frames /\ g \in frames /\ k.n <= f.n
    BY DEF From
  <2>2. PICK h \in frames : h.n = i
    BY <2>1 DEF HasNoGaps
  <2>3. f.n \in Nat /\ g.n \in Nat /\ k.n \in Nat
    BY <2>1, <1>2, <1>3
  <2>4. h.n >= k.n
    BY <2>1, <2>2, <2>3
  <2> QED
    BY <2>2, <2>4 DEF From
<1>6. \E f \in K : f.n = last
  <2>1. PICK f \in frames : f.n = last
    OBVIOUS
  <2>2. k.n <= last
    BY <1>3
  <2> QED
    BY <2>1, <2>2, <1>2, <1>3 DEF From
<1>7. \A f \in K : f.n <= last
  BY <1>3
<1>8. IsFiniteSet(K)
  BY <1>3, FS_Subset
<1>9. Cardinality(K) <= MaxBytes
  BY <1>1 DEF MayBegin
<1> QED
  BY <1>1, <1>3, <1>4, <1>5, <1>6, <1>7, <1>8, <1>9 DEF Stretch

\* One more frame.
LEMMA StretchGrows ==
  ASSUME NEW last \in Nat, NEW frames, Stretch(frames, last), NEW f \in Frames, f.n = last + 1
  PROVE  Stretch(frames \cup {f}, last + 1)
<1> DEFINE G == frames \cup {f}
<1>1. \A g \in G : g.n \in Nat
  BY DEF Stretch, Frames
<1>2. BeginsWithAKey(G)
  <2>1. PICK k \in Keys(frames) : \A g \in frames : k.n <= g.n
    BY DEF Stretch, BeginsWithAKey
  <2>2. k.n <= last /\ k.n \in Nat
    BY <2>1, <1>1 DEF Stretch, Keys
  <2>3. k \in Keys(G) /\ \A g \in G : k.n <= g.n
    BY <2>1, <2>2 DEF Keys
  <2> QED
    BY <2>3 DEF BeginsWithAKey
<1>3. HasNoGaps(G)
  <2> SUFFICES ASSUME NEW a \in G, NEW b \in G, NEW i \in a.n..b.n
               PROVE  \E h \in G : h.n = i
    BY DEF HasNoGaps
  <2>0. a.n \in Nat /\ b.n \in Nat /\ i \in Nat /\ a.n <= i /\ i <= b.n
    BY <1>1
  <2>1. CASE i = last + 1
    BY <2>1
  <2>2. CASE i # last + 1
    <3>1. \A g \in G : g.n <= last + 1
      BY <1>1 DEF Stretch
    <3>2. i <= last
      BY <2>0, <2>2, <3>1
    <3>3. a \in frames
      BY <2>0, <3>2
    <3>4. PICK l \in frames : l.n = last
      BY DEF Stretch
    <3>5. i \in a.n..l.n
      BY <2>0, <3>2, <3>4
    <3> QED
      BY <3>3, <3>4, <3>5 DEF Stretch, HasNoGaps
  <2> QED
    BY <2>1, <2>2
<1>4. IsFiniteSet(G)
  BY FS_AddElement DEF Stretch
<1>5. \A g \in G : g.n <= last + 1
  BY <1>1 DEF Stretch
<1> QED
  BY <1>2, <1>3, <1>4, <1>5 DEF Stretch

-----------------------------------------------------------------------------
\* The inductive invariant: what is typed, and what the ring and the clips hold.

Good(c, last, shape) ==
  /\ c \in Armed /\ c.shape = shape
  /\ Stretch(c.video, last) /\ \A f \in c.video : f.shape = shape
  /\ Cardinality(c.video) <= MaxClipBytes

Whole(q) ==
  q # NoClip => q \in Clips /\ Decodes(q) /\ Cardinality(q.video) <= MaxClipBytes

Timed == now \in Instants /\ sound \in SUBSET Instants

Plain ==
  /\ looked \in BOOLEAN /\ watching \in BOOLEAN /\ saving \in BOOLEAN
  /\ stage \in {"on", "quitting", "flushing", "draining", "gone"}
  /\ endedBy \in {"nothing", "a request", "a round", "a deadline"}

RingInv ==
  /\ count \in 0..MaxFrames /\ coding \in Shapes \cup {NoShape} /\ sets = coding
  /\ ring # {} => /\ coding \in Shapes
                  /\ Stretch(ring, count) /\ \A f \in ring : f.shape = coding
                  /\ Cardinality(ring) <= MaxBytes

ClipInv ==
  /\ clip # NoClip => Good(clip, count, coding) /\ Cardinality(clip.video) < MaxClipBytes
  /\ Whole(queue)

Media == Plain /\ Timed /\ RingInv /\ ClipInv /\ Whole(handing)

LEMMA RecordedIsWhole ==
  ASSUME NEW c, NEW last, NEW shape, Good(c, last, shape)
  PROVE  Recorded(c) \in Clips /\ Whole(Recorded(c))
<1>1. c.shape \in Shapes /\ c.video \in SUBSET Frames
  BY DEF Good, Armed
<1>2. Recorded(c) \in Clips
  BY <1>1 DEF Recorded, Clips
<1>3. Recorded(c).video = c.video /\ Recorded(c).shape = c.shape
  BY DEF Recorded
<1>4. Decodes(Recorded(c))
  BY <1>3 DEF Good, Stretch, Decodes
<1> QED
  BY <1>2, <1>3, <1>4 DEF Whole, Good

LEMMA FinishIsSafe ==
  ASSUME NEW c, NEW last, NEW shape, Good(c, last, shape), Whole(queue), Finish(c)
  PROVE  clip' = NoClip /\ Whole(queue')
<1>1. Whole(Recorded(c))
  BY RecordedIsWhole
<1> QED
  BY <1>1 DEF Finish

LEMMA GoesOnIsSafe ==
  ASSUME NEW c, NEW last \in Nat, NEW shape, Good(c, last, shape), Whole(queue), GoesOn(c)
  PROVE  /\ clip' = NoClip \/ (clip' = c /\ ~IsOver(c))
         /\ clip' # NoClip => Cardinality(c.video) < MaxClipBytes
         /\ Whole(queue')
<1>1. CASE IsOver(c)
  BY <1>1, FinishIsSafe DEF GoesOn
<1>2. CASE ~IsOver(c)
  <2>1. clip' = c /\ queue' = queue
    BY <1>2 DEF GoesOn
  <2>2. IsFiniteSet(c.video)
    BY DEF Good, Stretch
  <2>3. Cardinality(c.video) \in Nat
    BY <2>2, FS_CardinalityType
  <2>4. Cardinality(c.video) < MaxClipBytes
    BY <1>2, <2>3, RecorderAssumption DEF IsOver
  <2> QED
    BY <1>2, <2>1, <2>4
<1> QED
  BY <1>1, <1>2

LEMMA RingTakesAFrame ==
  ASSUME RingInv, NEW key \in BOOLEAN, NEW declares \in BOOLEAN,
         NEW shape \in Shapes \cup {NoShape}, now \in Instants, sound \in SUBSET Instants,
         WriteVideo(key, declares, shape)
  PROVE  RingInv' /\ sound' \in SUBSET Instants
<1> DEFINE f == [n |-> count + 1, key |-> key, shape |-> shape, at |-> now]
           old == IF Emptied(f, declares) THEN {} ELSE ring
           heard == IF Emptied(f, declares) THEN {} ELSE sound
           all == old \cup {f}
<1>0. /\ count \in Nat /\ count < MaxFrames /\ count' = count + 1 /\ coding' = shape
      /\ RingVideo(f, declares) /\ Encoded(key, declares, shape)
  BY DEF RingInv, WriteVideo
<1>1. f \in Frames
  BY <1>0, RecorderAssumption DEF Frames
<1>2. sets' = coding'
  BY <1>0 DEF RingVideo, RingInv, Encoded
<1>3. f.n = count + 1 /\ f.key = key /\ f.shape = shape
  OBVIOUS
<1>4. old # {} => old = ring /\ Stretch(old, count) /\ shape \in Shapes
                  /\ \A g \in old : g.shape = shape
  BY <1>0, <1>3 DEF RingInv, Emptied, Encoded
<1>5. CASE old = {} /\ ~key
  <2>1. ring' = ring /\ sound' = sound
    BY <1>0, <1>5, <1>3 DEF RingVideo
  <2>2. ring' = {}
    BY <2>1, <1>5, <1>3, <1>0 DEF Emptied, Encoded
  <2> QED
    BY <2>1, <2>2, <1>0, <1>2, RecorderAssumption DEF RingInv
<1>6. CASE ~(old = {} /\ ~key)
  <2>1. ring' = Kept(all)
    BY <1>0, <1>6, <1>3 DEF RingVideo
  <2>2. sound' \subseteq heard
    BY <1>0, <1>6, <1>3 DEF RingVideo, SoundKept
  <2>3. all \in SUBSET Frames /\ IsFiniteSet(all) /\ HasNoGaps(all)
        /\ (\E g \in all : g.n = count + 1) /\ \A g \in all : g.n <= count + 1
    <3>1. CASE old = {}
      <4>1. all = {f}
        BY <3>1
      <4>2. IsFiniteSet(all)
        BY <4>1, FS_Singleton
      <4>3. HasNoGaps(all)
        <5>1. \A i \in f.n..f.n : i = f.n
          BY <1>3, <1>0
        <5> QED
          BY <4>1, <5>1 DEF HasNoGaps
      <4> HIDE DEF f, all
      <4> QED
        BY <4>1, <4>2, <4>3, <1>1, <1>3, <1>0
    <3>2. CASE old # {}
      <4>1. Stretch(old, count)
        BY <1>4, <3>2
      <4> HIDE DEF f, old
      <4>2. Stretch(all, count + 1)
        BY <4>1, <1>0, <1>1, <1>3, StretchGrows
      <4> QED
        BY <4>2 DEF Stretch
    <3> QED
      BY <3>1, <3>2
  <2>4. \A g \in all : g.shape = shape
    BY <1>4, <1>3
  <2>5. shape \in Shapes
    BY <1>4, <1>6, <1>0 DEF Encoded
  <2>6. Kept(all) # {} => /\ Stretch(Kept(all), count + 1)
                          /\ Kept(all) \subseteq all
                          /\ Cardinality(Kept(all)) <= MaxBytes
    <3> HIDE DEF all
    <3> QED
      BY <2>3, <1>0, KeptIsWhole
  <2> HIDE DEF f, old, all, heard
  <2>7. sound' \in SUBSET Instants
    BY <2>2 DEF heard
  <2> QED
    BY <2>1, <2>4, <2>5, <2>6, <2>7, <1>0, <1>2, RecorderAssumption DEF RingInv
<1> QED
  BY <1>5, <1>6

LEMMA ClipTakesAFrame ==
  ASSUME now \in Instants, RingInv, ClipInv, NEW key \in BOOLEAN, NEW declares \in BOOLEAN,
         NEW shape \in Shapes \cup {NoShape}, WriteVideo(key, declares, shape)
  PROVE  ClipInv'
<1> DEFINE f == [n |-> count + 1, key |-> key, shape |-> shape, at |-> now]
<1>0. /\ count \in Nat /\ count < MaxFrames /\ count' = count + 1 /\ coding' = shape
      /\ ClipVideo(f, declares) /\ Encoded(key, declares, shape)
  BY DEF RingInv, WriteVideo
<1>1. f \in Frames /\ f.n = count + 1 /\ f.shape = shape
  BY <1>0, RecorderAssumption DEF Frames
<1> HIDE DEF f
<1>2. CASE clip = NoClip
  BY <1>0, <1>2 DEF ClipVideo, post, ClipInv
<1>3. ASSUME clip # NoClip PROVE ClipInv'
  <2>1. Good(clip, count, coding) /\ Cardinality(clip.video) < MaxClipBytes /\ Whole(queue)
    BY <1>3 DEF ClipInv
  <2>2. CASE declares /\ clip.shape # f.shape
    <3>1. Finish(clip)
      BY <1>0, <1>3, <2>2 DEF ClipVideo
    <3> QED
      BY <2>1, <3>1, FinishIsSafe DEF ClipInv
  <2>3. CASE ~(declares /\ clip.shape # f.shape)
    <3> DEFINE c == WithFrame(clip, f)
    <3>1. GoesOn(c)
      BY <1>0, <1>3, <2>3 DEF ClipVideo
    <3>2. clip.shape = coding /\ coding = shape
      BY <1>0, <1>1, <2>1, <2>3 DEF Good, Encoded
    <3>3. c \in Armed /\ c.shape = shape /\ c.video = clip.video \cup {f}
      BY <1>1, <2>1, <3>2 DEF Good, Armed, WithFrame
    <3>4. Stretch(clip.video \cup {f}, count + 1)
      BY <1>0, <1>1, <2>1, StretchGrows DEF Good
    <3>5. Cardinality(clip.video \cup {f}) <= MaxClipBytes
      <4>1. IsFiniteSet(clip.video)
        BY <2>1 DEF Good, Stretch
      <4>2. Cardinality(clip.video) \in Nat
        BY <4>1, FS_CardinalityType
      <4>3. Cardinality(clip.video \cup {f})
              \in {Cardinality(clip.video), Cardinality(clip.video) + 1}
        BY <4>1, FS_AddElement
      <4>4. MaxClipBytes \in Nat
        BY RecorderAssumption
      <4> QED
        BY <4>2, <4>3, <4>4, <2>1
    <3>6. Good(c, count + 1, shape)
      BY <1>1, <2>1, <3>2, <3>3, <3>4, <3>5 DEF Good
    <3> HIDE DEF c
    <3>7. /\ clip' = NoClip \/ clip' = c
          /\ clip' # NoClip => Cardinality(c.video) < MaxClipBytes
          /\ Whole(queue')
      <4>1. count + 1 \in Nat
        BY <1>0
      <4> QED
        BY <2>1, <3>1, <3>6, <4>1, GoesOnIsSafe
    <3> QED
      BY <1>0, <3>6, <3>7 DEF ClipInv
  <2> QED
    BY <2>2, <2>3
<1> QED
  BY <1>2, <1>3

\* What the other actions do to the clip in progress.
Continues ==
  \/ UNCHANGED post
  \/ /\ clip # NoClip
     /\ \E d \in 0..(MaxTime + PostRoll) : GoesOn([clip EXCEPT !.deadline = d])
  \/ Begins

LEMMA ClipContinues ==
  ASSUME now \in Instants, RingInv, ClipInv, Continues, UNCHANGED <<count, coding>>
  PROVE  ClipInv'
<1>1. CASE UNCHANGED post
  BY <1>1 DEF post, ClipInv
<1>2. CASE clip # NoClip /\ \E d \in 0..(MaxTime + PostRoll) : GoesOn([clip EXCEPT !.deadline = d])
  <2>1. PICK d \in 0..(MaxTime + PostRoll) : GoesOn([clip EXCEPT !.deadline = d])
    BY <1>2
  <2> DEFINE c == [clip EXCEPT !.deadline = d]
  <2>2. Good(clip, count, coding) /\ Whole(queue) /\ count \in Nat
    BY <1>2 DEF ClipInv, RingInv
  <2>3. c \in Armed /\ c.shape = clip.shape /\ c.video = clip.video
    BY <2>2 DEF Good, Armed
  <2>4. Good(c, count, coding)
    BY <2>2, <2>3 DEF Good
  <2>5. GoesOn(c)
    BY <2>1
  <2> HIDE DEF c
  <2>6. /\ clip' = NoClip \/ clip' = c
        /\ clip' # NoClip => Cardinality(c.video) < MaxClipBytes
        /\ Whole(queue')
    BY <2>2, <2>4, <2>5, GoesOnIsSafe
  <2> QED
    BY <2>4, <2>6 DEF ClipInv
<1>3. CASE Begins
  <2>1. /\ coding \in Shapes /\ sets = coding /\ Stretch(ring, count)
        /\ (\A f \in ring : f.shape = coding) /\ Cardinality(ring) <= MaxBytes
        /\ clip' = [eventAt |-> now, deadline |-> now + PostRoll, shape |-> sets, video |-> ring]
        /\ queue' = queue
    BY <1>3 DEF Begins, RingInv
  <2>6. now + PostRoll \in 0..(MaxTime + PostRoll)
    BY RecorderAssumption DEF Instants
  <2>7. ring \in SUBSET Frames
    BY <2>1 DEF Stretch
  <2>2. clip' \in Armed /\ clip'.video = ring /\ clip'.shape = coding
    BY <2>1, <2>6, <2>7 DEF Armed
  <2>3. Cardinality(ring) \in Nat
    BY <2>1, FS_CardinalityType DEF Stretch
  <2>4. Cardinality(ring) < MaxClipBytes
    BY <2>1, <2>3, RecorderAssumption
  <2>5. Good(clip', count, coding)
    BY <2>1, <2>2, <2>3, <2>4, RecorderAssumption DEF Good
  <2> QED
    BY <2>1, <2>2, <2>4, <2>5 DEF ClipInv
<1> QED
  BY <1>1, <1>2, <1>3 DEF Continues

LEMMA SameClip == clip # NoClip /\ clip \in Armed /\ GoesOn(clip) => Continues
<1> SUFFICES ASSUME clip # NoClip, clip \in Armed, GoesOn(clip) PROVE Continues
  OBVIOUS
<1>1. clip.deadline \in 0..(MaxTime + PostRoll) /\ clip = [clip EXCEPT !.deadline = clip.deadline]
  BY DEF Armed
<1> QED
  BY <1>1 DEF Continues

LEMMA TriggerContinues == now \in Instants /\ ClipInv /\ Trigger => Continues
<1> SUFFICES ASSUME now \in Instants, ClipInv, Trigger PROVE Continues
  OBVIOUS
<1>1. CASE Extends
  <2>1. clip \in Armed /\ clip # NoClip
    BY <1>1 DEF Extends, ClipInv, Good
  <2>2. Further(clip.deadline) \in 0..(MaxTime + PostRoll)
    <3>1. clip.deadline \in 0..(MaxTime + PostRoll)
      BY <2>1 DEF Armed
    <3>2. now + PostRoll \in 0..(MaxTime + PostRoll)
      BY RecorderAssumption DEF Instants
    <3> QED
      BY <3>1, <3>2 DEF Further
  <2> QED
    BY <1>1, <2>1, <2>2 DEF Extends, Continues
<1>2. CASE Begins
  BY <1>2 DEF Continues
<1> QED
  BY <1>1, <1>2 DEF Trigger

LEMMA MediaHolds == Spec => []Media
<1>1. Init => Media
  <2> SUFFICES ASSUME Init PROVE Media
    OBVIOUS
  <2>1. Plain
    BY DEF Init, Plain
  <2>2. Timed
    BY RecorderAssumption DEF Init, Timed, Instants
  <2>3. RingInv
    BY RecorderAssumption DEF Init, RingInv
  <2>4. ClipInv /\ Whole(handing)
    BY DEF Init, ClipInv, Whole
  <2> QED
    BY <2>1, <2>2, <2>3, <2>4 DEF Media
<1>2. Media /\ [Next]_vars => Media'
  <2> SUFFICES ASSUME Media, [Next]_vars PROVE Media'
    OBVIOUS
  <2> USE DEF clock, encoder, pre, end
  <2>0. Plain /\ Timed /\ RingInv /\ ClipInv /\ Whole(handing)
    BY DEF Media
  <2>00. now \in Instants /\ sound \in SUBSET Instants
    BY <2>0 DEF Timed
  <2>1. ASSUME NEW key \in BOOLEAN, NEW declares \in BOOLEAN,
               NEW shape \in Shapes \cup {NoShape}, WriteVideo(key, declares, shape)
        PROVE  Media'
    <3>1. RingInv' /\ sound' \in SUBSET Instants
      BY <2>0, <2>00, <2>1, RingTakesAFrame
    <3>2. ClipInv'
      BY <2>0, <2>00, <2>1, ClipTakesAFrame
    <3>3. UNCHANGED <<now, looked, watching, saving, stage, handing, endedBy>>
      BY <2>1 DEF WriteVideo
    <3> QED
      BY <2>0, <2>00, <3>1, <3>2, <3>3 DEF Media, Timed, Plain, Whole
  <2>2. ASSUME Continues, Plain', Timed', Whole(handing'), UNCHANGED <<count, coding, ring, sets>>
        PROVE  Media'
    <3>1. ClipInv'
      BY <2>0, <2>00, <2>2, ClipContinues
    <3>2. RingInv'
      BY <2>0, <2>2 DEF RingInv
    <3> QED
      BY <2>2, <3>1, <3>2 DEF Media
  <2>3. CASE WriteAudio
    <3>1. Continues
      BY <2>0, <2>3, SameClip DEF WriteAudio, Continues, ClipInv, Good
    <3>2. sound' \in SUBSET Instants
      BY <2>0, <2>3 DEF WriteAudio, SoundKept, Timed
    <3>3. Plain' /\ Timed'
      BY <2>0, <2>3, <3>2 DEF WriteAudio, Plain, Timed
    <3>4. handing' = handing /\ UNCHANGED <<count, coding, ring, sets>>
      BY <2>3 DEF WriteAudio
    <3> QED
      BY <2>0, <2>2, <3>1, <3>3, <3>4
  <2>4. CASE Trigger
    <3>1. Continues
      BY <2>0, <2>00, <2>4, TriggerContinues
    <3>2. Plain' /\ Timed' /\ handing' = handing /\ UNCHANGED <<count, coding, ring, sets>>
      BY <2>0, <2>4 DEF Trigger, Plain, Timed
    <3> QED
      BY <2>0, <2>2, <3>1, <3>2
  <2>5. CASE Tick
    <3>1. Continues
      BY <2>0, <2>5, SameClip DEF Tick, Continues, ClipInv, Good
    <3>2. Plain' /\ Timed' /\ handing' = handing /\ UNCHANGED <<count, coding, ring, sets>>
      BY <2>0, <2>5 DEF Tick, Plain, Timed
    <3> QED
      BY <2>0, <2>2, <3>1, <3>2
  <2>6. CASE TimePasses
    <3>1. Plain'
      BY <2>0, <2>6 DEF TimePasses, Plain
    <3>3. now + 1 \in Instants
      BY <2>00, <2>6, RecorderAssumption DEF TimePasses, Instants
    <3>4. Timed'
      BY <2>00, <2>6, <3>3 DEF TimePasses, Timed
    <3>2. Continues /\ handing' = handing /\ UNCHANGED <<count, coding, ring, sets>>
      BY <2>6 DEF TimePasses, Continues
    <3> QED
      BY <2>0, <2>2, <3>1, <3>2, <3>4
  <2>7. CASE WriterSaves \/ WriterReturns \/ Quit \/ WatchEnds \/ ShutdownIsLate \/ TimeRunsOut
    <3>1. Plain'
      BY <2>0, <2>7 DEF WriterSaves, WriterReturns, Quit, WatchEnds, ShutdownIsLate,
                        TimeRunsOut, Plain, post
    <3>3. Timed'
      BY <2>0, <2>7 DEF WriterSaves, WriterReturns, Quit, WatchEnds, ShutdownIsLate,
                        TimeRunsOut, Timed, post
    <3>2. UNCHANGED post /\ handing' = handing /\ UNCHANGED <<count, coding, ring, sets>>
      BY <2>7 DEF WriterSaves, WriterReturns, Quit, WatchEnds, ShutdownIsLate, TimeRunsOut
    <3> QED
      BY <2>0, <2>2, <3>1, <3>2, <3>3 DEF Continues
  <2>8. CASE WriterTakes
    <3>1. Plain' /\ Timed' /\ RingInv'
      BY <2>0, <2>8 DEF WriterTakes, Plain, Timed, RingInv
    <3>2. ClipInv' /\ Whole(handing)'
      BY <2>0, <2>8 DEF WriterTakes, ClipInv, Whole
    <3> QED
      BY <3>1, <3>2 DEF Media
  <2>9. CASE Flush
    <3>1. Plain' /\ Timed' /\ RingInv'
      BY <2>0, <2>9 DEF Flush, Plain, Timed, RingInv
    <3>2. Whole(handing)'
      BY <2>0, <2>9, RecordedIsWhole DEF Flush, ClipInv, Whole
    <3>3. ClipInv'
      BY <2>0, <2>9 DEF Flush, ClipInv, Whole
    <3> QED
      BY <3>1, <3>2, <3>3 DEF Media
  <2>10. CASE FlushHands
    <3>1. Plain' /\ Timed' /\ RingInv'
      BY <2>0, <2>10 DEF FlushHands, Plain, Timed, RingInv
    <3>2. ClipInv' /\ Whole(handing)'
      BY <2>0, <2>10 DEF FlushHands, ClipInv, Whole
    <3> QED
      BY <3>1, <3>2 DEF Media
  <2>11. CASE UNCHANGED vars
    <3>1. Continues /\ handing' = handing /\ UNCHANGED <<count, coding, ring, sets>>
      BY <2>11 DEF vars, Continues
    <3>2. Plain'
      BY <2>0, <2>11 DEF vars, Plain
    <3>3. Timed'
      BY <2>0, <2>11 DEF vars, Timed
    <3> QED
      BY <2>0, <2>2, <3>1, <3>2, <3>3
  <2>12. AnEvent \/ Record => Trigger
    BY DEF AnEvent, Record
  <2> QED
    BY <2>1, <2>3, <2>4, <2>5, <2>6, <2>7, <2>8, <2>9, <2>10, <2>11, <2>12 DEF Next
<1> QED
  BY <1>1, <1>2, PTL DEF Spec

-----------------------------------------------------------------------------
\* Sound: every packet the ring holds was young when it was last trimmed.

SoundInv == \A s \in sound : s <= now /\ \A t \in sound : s <= t + MaxAudioAge

LEMMA TrimmedSoundIsShort ==
  ASSUME NEW packets \in SUBSET Instants, NEW frames, now \in Instants,
         \A t \in packets : t <= now
  PROVE  /\ SoundKept(packets, frames) \subseteq packets
         /\ \A s \in SoundKept(packets, frames) :
              s <= now /\ \A t \in SoundKept(packets, frames) : s <= t + MaxAudioAge
<1> DEFINE K == SoundKept(packets, frames)
<1>1. K \subseteq packets
  BY DEF SoundKept
<1>2. \A t \in K : t + MaxAudioAge >= now
  BY DEF SoundKept
<1> SUFFICES ASSUME NEW s \in K, NEW t \in K PROVE s <= now /\ s <= t + MaxAudioAge
  BY <1>1
<1>3. s \in Nat /\ t \in Nat /\ now \in Nat /\ MaxAudioAge \in Nat
  <2>1. s \in Instants /\ t \in Instants
    BY <1>1
  <2> HIDE DEF K
  <2> QED
    BY <2>1, RecorderAssumption DEF Instants
<1>4. s <= now /\ t + MaxAudioAge >= now
  BY <1>1, <1>2
<1> HIDE DEF K
<1> QED
  BY <1>3, <1>4

LEMMA SoundIsShort == Spec => []SoundInv
<1>1. Init => SoundInv
  BY DEF Init, SoundInv
<1>2. Media /\ SoundInv /\ [Next]_vars => SoundInv'
  <2> SUFFICES ASSUME Media, SoundInv, [Next]_vars PROVE SoundInv'
    OBVIOUS
  <2>1. now \in Instants /\ sound \in SUBSET Instants /\ now \in Nat
    BY RecorderAssumption DEF Media, Timed, Instants
  <2>2. ASSUME NEW heard \in SUBSET Instants, NEW frames, now' = now,
               \A t \in heard : t <= now, sound' = SoundKept(heard, frames)
        PROVE  SoundInv'
    BY <2>1, <2>2, TrimmedSoundIsShort DEF SoundInv
  <2>3. CASE UNCHANGED <<now, sound>>
    BY <2>3 DEF SoundInv
  <2>4. ASSUME NEW key \in BOOLEAN, NEW declares \in BOOLEAN,
               NEW shape \in Shapes \cup {NoShape}, WriteVideo(key, declares, shape)
        PROVE  SoundInv'
    <3> DEFINE f == [n |-> count + 1, key |-> key, shape |-> shape, at |-> now]
               old == IF Emptied(f, declares) THEN {} ELSE ring
               heard == IF Emptied(f, declares) THEN {} ELSE sound
               kept == Kept(old \cup {f})
    <3>1. RingVideo(f, declares) /\ now' = now
      BY <2>4 DEF WriteVideo, clock
    <3>2. sound' = sound \/ sound' = {} \/ sound' = SoundKept(heard, kept)
      BY <3>1 DEF RingVideo
    <3>3. heard \in SUBSET Instants /\ \A t \in heard : t <= now
      BY <2>1 DEF SoundInv
    <3> HIDE DEF f, old, heard, kept
    <3>4. CASE sound' = {}
      BY <3>4 DEF SoundInv
    <3> QED
      BY <2>2, <2>3, <3>1, <3>2, <3>3, <3>4
  <2>5. CASE WriteAudio
    <3>1. sound' = SoundKept(sound \cup {now}, ring) /\ now' = now
      BY <2>5 DEF WriteAudio, clock
    <3>2. sound \cup {now} \in SUBSET Instants /\ \A t \in sound \cup {now} : t <= now
      BY <2>1 DEF SoundInv
    <3> QED
      BY <2>2, <3>1, <3>2
  <2>6. CASE TimePasses
    <3>1. now' = now + 1 /\ sound' = sound
      BY <2>6 DEF TimePasses, pre
    <3>2. \A s \in sound : s \in Nat /\ s <= now
      BY <2>1, RecorderAssumption DEF SoundInv, Instants
    <3>3. \A s \in sound : s <= now + 1
      BY <2>1, <3>2
    <3> QED
      BY <3>1, <3>3 DEF SoundInv
  <2>7. CASE AnEvent \/ Record \/ Tick \/ UNCHANGED vars
    BY <2>3, <2>7 DEF AnEvent, Record, Trigger, Tick, clock, pre, vars
  <2>8. CASE \/ WriterTakes \/ WriterSaves \/ WriterReturns \/ Quit \/ WatchEnds
             \/ ShutdownIsLate \/ Flush \/ FlushHands \/ TimeRunsOut
    BY <2>3, <2>8 DEF WriterTakes, WriterSaves, WriterReturns, Quit, WatchEnds,
                      ShutdownIsLate, Flush, FlushHands, TimeRunsOut, clock, pre
  <2> QED
    BY <2>4, <2>5, <2>6, <2>7, <2>8 DEF Next
<1> QED
  BY <1>1, <1>2, MediaHolds, PTL DEF Spec

-----------------------------------------------------------------------------
\* The finish line: between two rounds a clip has not reached it, and the round
\* that finds it reached has not ticked yet.

Before(t, c) == t < c.deadline /\ t < c.eventAt + MaxDuration
LineInv ==
  clip # NoClip /\ watching =>
    \/ Before(now, clip)
    \/ ~looked /\ now <= clip.deadline /\ now <= clip.eventAt + MaxDuration

LEMMA NotOverIsBefore ==
  ASSUME NEW c \in Armed, now \in Instants, ~IsOver(c)
  PROVE  Before(now, c)
<1>1. c.deadline \in Nat /\ c.eventAt \in Nat /\ now \in Nat /\ MaxDuration \in Nat
  BY RecorderAssumption DEF Armed, Instants
<1>2. ~(now >= c.deadline) /\ ~(now >= c.eventAt + MaxDuration)
  BY DEF IsOver
<1> QED
  BY <1>1, <1>2 DEF Before

LEMMA GoingOnIsBefore ==
  ASSUME NEW c \in Armed, now \in Instants, now' = now, GoesOn(c)
  PROVE  LineInv'
<1>1. CASE IsOver(c)
  BY <1>1 DEF GoesOn, Finish, LineInv
<1>2. CASE ~IsOver(c)
  <2>1. clip' = c /\ Before(now, c)
    BY <1>2, NotOverIsBefore DEF GoesOn
  <2> QED
    BY <2>1 DEF LineInv, Before
<1> QED
  BY <1>1, <1>2

LEMMA LineHolds == Spec => []LineInv
<1>1. Init => LineInv
  BY DEF Init, LineInv
<1>2. Media /\ LineInv /\ [Next]_vars => LineInv'
  <2> SUFFICES ASSUME Media, LineInv, [Next]_vars PROVE LineInv'
    OBVIOUS
  <2>1. now \in Instants /\ now \in Nat /\ (clip # NoClip => clip \in Armed)
    BY RecorderAssumption DEF Media, Timed, Instants, ClipInv, Good
  <2>2. CASE UNCHANGED <<now, looked, watching, clip>>
    BY <2>2 DEF LineInv, Before
  <2>3. CASE clip' = NoClip
    BY <2>3 DEF LineInv
  <2>4. ASSUME NEW key \in BOOLEAN, NEW declares \in BOOLEAN,
               NEW shape \in Shapes \cup {NoShape}, WriteVideo(key, declares, shape)
        PROVE  LineInv'
    <3> DEFINE f == [n |-> count + 1, key |-> key, shape |-> shape, at |-> now]
    <3>1. ClipVideo(f, declares) /\ UNCHANGED clock
      BY <2>4 DEF WriteVideo
    <3>2. f \in Frames
      <4>1. count \in Nat /\ count < MaxFrames
        BY <2>4 DEF WriteVideo, Media, RingInv
      <4> QED
        BY <2>1, <4>1, RecorderAssumption DEF Frames
    <3> HIDE DEF f
    <3>3. CASE GoesOn(WithFrame(clip, f)) /\ clip # NoClip
      <4>1. clip \in Armed
        BY <2>1, <3>3
      <4>2. WithFrame(clip, f) \in Armed
        BY <4>1, <3>2 DEF WithFrame, Armed
      <4> QED
        BY <2>1, <3>1, <3>3, <4>2, GoingOnIsBefore DEF clock
    <3>4. CASE UNCHANGED post \/ Finish(clip)
      BY <2>2, <2>3, <3>1, <3>4 DEF post, Finish, clock
    <3> QED
      BY <3>1, <3>3, <3>4 DEF ClipVideo
  <2>5. CASE WriteAudio
    BY <2>1, <2>2, <2>5, GoingOnIsBefore DEF WriteAudio, clock, post
  <2>6. CASE Trigger
    <3>1. CASE Extends
      <4>1. Further(clip.deadline) \in 0..(MaxTime + PostRoll) /\ clip \in Armed
        <5>1. clip \in Armed /\ clip.deadline \in 0..(MaxTime + PostRoll)
          BY <2>1, <3>1 DEF Extends, Armed
        <5>2. now + PostRoll \in 0..(MaxTime + PostRoll)
          BY <2>1, RecorderAssumption DEF Instants
        <5> QED
          BY <5>1, <5>2 DEF Further
      <4>2. [clip EXCEPT !.deadline = Further(@)] \in Armed
        BY <4>1 DEF Armed
      <4> QED
        BY <2>1, <2>6, <3>1, <4>2, GoingOnIsBefore DEF Extends, Trigger, clock
    <3>2. CASE Begins
      <4>1. clip'.deadline = now + PostRoll /\ clip'.eventAt = now
            /\ UNCHANGED <<now, looked, watching>>
        BY <2>6, <3>2 DEF Begins, Trigger, clock
      <4>2. now < now + PostRoll /\ now < now + MaxDuration
        BY <2>1, RecorderAssumption
      <4>3. Before(now', clip')
        BY <4>1, <4>2 DEF Before
      <4> QED
        BY <4>3 DEF LineInv, Before
    <3> QED
      BY <2>6, <3>1, <3>2 DEF Trigger
  <2>7. CASE Tick
    <3>1. CASE clip = NoClip
      BY <2>3, <2>7, <3>1 DEF Tick, post
    <3>2. CASE clip # NoClip
      BY <2>1, <2>7, <3>2, GoingOnIsBefore DEF Tick
    <3> QED
      BY <3>1, <3>2
  <2>8. CASE TimePasses
    <3>1. CASE clip # NoClip /\ watching
      <4>1. looked /\ now' = now + 1 /\ ~looked' /\ clip' = clip
        BY <2>8, <3>1 DEF TimePasses, post
      <4>2. Before(now, clip)
        BY <3>1, <4>1 DEF LineInv
      <4>3. clip.deadline \in Nat /\ clip.eventAt \in Nat /\ MaxDuration \in Nat
        BY <2>1, <3>1, RecorderAssumption DEF Armed, Instants
      <4>4. now + 1 <= clip.deadline /\ now + 1 <= clip.eventAt + MaxDuration
        BY <2>1, <4>2, <4>3 DEF Before
      <4> QED
        BY <4>1, <4>4 DEF LineInv
    <3>2. CASE ~(clip # NoClip /\ watching)
      BY <2>8, <3>2 DEF TimePasses, post, LineInv
    <3> QED
      BY <3>1, <3>2
  <2>9. CASE WatchEnds \/ Flush
    BY <2>9 DEF WatchEnds, Flush, LineInv
  <2>10. CASE \/ WriterTakes \/ WriterSaves \/ WriterReturns \/ Quit \/ ShutdownIsLate
              \/ FlushHands \/ TimeRunsOut \/ UNCHANGED vars
    BY <2>2, <2>10 DEF WriterTakes, WriterSaves, WriterReturns, Quit, ShutdownIsLate,
                       FlushHands, TimeRunsOut, clock, post, vars
  <2> QED
    BY <2>4, <2>5, <2>6, <2>7, <2>8, <2>9, <2>10 DEF Next, AnEvent, Record
<1> QED
  BY <1>1, <1>2, MediaHolds, PTL DEF Spec

-----------------------------------------------------------------------------
\* The end: once Flush has run and nothing cut the end short, no clip is in
\* progress and nothing is left to begin one; what Flush took is in its hands
\* until the channel has it; and the writer returns when it has nothing left.

EndInv ==
  endedBy = "nothing" =>
    /\ stage \in {"flushing", "draining", "gone"} => ~watching /\ clip = NoClip
    /\ stage # "flushing" => handing = NoClip
    /\ stage = "gone" => queue = NoClip /\ ~saving

LEMMA EndHolds == Spec => []EndInv
<1>1. Init => EndInv
  BY DEF Init, EndInv
<1>2. EndInv /\ [Next]_vars => EndInv'
  <2> SUFFICES ASSUME EndInv, [Next]_vars PROVE EndInv'
    OBVIOUS
  <2>1. CASE Running /\ UNCHANGED end
    BY <2>1 DEF Running, EndInv, end
  <2>2. ASSUME NEW key \in BOOLEAN, NEW declares \in BOOLEAN,
               NEW shape \in Shapes \cup {NoShape}, WriteVideo(key, declares, shape)
        PROVE  EndInv'
    BY <2>1, <2>2 DEF WriteVideo
  <2>3. CASE WriteAudio \/ Record
    BY <2>1, <2>3 DEF WriteAudio, Record, Trigger
  <2>4. CASE AnEvent \/ Tick
    BY <2>4 DEF AnEvent, Tick, Trigger, Alive, EndInv, clock, end
  <2>5. CASE TimePasses \/ UNCHANGED vars
    BY <2>5 DEF TimePasses, EndInv, vars, clock, post, end
  <2>6. CASE WriterTakes \/ WriterSaves
    BY <2>6 DEF WriterTakes, WriterSaves, Alive, EndInv, clock, post
  <2>7. CASE WriterReturns
    BY <2>7 DEF WriterReturns, EndInv, clock, post
  <2>8. CASE Quit
    BY <2>8 DEF Quit, EndInv, clock, post
  <2>9. CASE WatchEnds
    BY <2>9 DEF WatchEnds, EndInv, post, end
  <2>10. CASE ShutdownIsLate \/ TimeRunsOut
    BY <2>10 DEF ShutdownIsLate, TimeRunsOut, EndInv
  <2>11. CASE Flush
    BY <2>11 DEF Flush, EndInv, clock
  <2>12. CASE FlushHands
    BY <2>12 DEF FlushHands, EndInv, clock
  <2> QED
    BY <2>2, <2>3, <2>4, <2>5, <2>6, <2>7, <2>8, <2>9, <2>10, <2>11, <2>12 DEF Next
<1> QED
  BY <1>1, <1>2, PTL DEF Spec

-----------------------------------------------------------------------------
\* Every variable keeps its type, whatever the camera, the people and the end do.
THEOREM TypeCorrect == Spec => []TypeOK
<1>1. Media => TypeOK
  <2> SUFFICES ASSUME Media PROVE TypeOK
    OBVIOUS
  <2>1. Plain /\ Timed /\ RingInv /\ ClipInv /\ Whole(handing)
    BY DEF Media
  <2>2. ring \in SUBSET Frames
    BY <2>1 DEF RingInv, Stretch
  <2>3. clip \in Armed \cup {NoClip} /\ queue \in Clips \cup {NoClip}
        /\ handing \in Clips \cup {NoClip}
    BY <2>1 DEF ClipInv, Good, Whole
  <2> QED
    BY <2>1, <2>2, <2>3 DEF TypeOK, Plain, Timed, RingInv
<1> QED
  BY <1>1, MediaHolds, PTL

\* Every clip decodes: in progress, in the channel and in Flush's hands.
THEOREM ClipsDecode == Spec => []ClipIsWhole
<1>1. Media => ClipIsWhole
  BY DEF Media, ClipInv, Good, Whole, Stretch, Decodes, ClipIsWhole
<1> QED
  BY <1>1, MediaHolds, PTL

\* What the ring and the clip in progress hold reaches to the last frame.
THEOREM NothingIsLost == Spec => []NothingIsMissed
<1>1. Media => NothingIsMissed
  BY DEF Media, RingInv, ClipInv, Good, Stretch, NothingIsMissed
<1> QED
  BY <1>1, MediaHolds, PTL

\* The ring, the sound and the clips stay within their ceilings.
THEOREM MemoryStaysBounded == Spec => []MemoryIsBounded
<1>1. Media /\ SoundInv => MemoryIsBounded
  <2> SUFFICES ASSUME Media, SoundInv PROVE MemoryIsBounded
    OBVIOUS
  <2>1. Cardinality(ring) <= MaxBytes
    <3>1. CASE ring = {}
      <4>1. Cardinality(ring) = 0
        BY <3>1, FS_EmptySet
      <4> QED
        BY <4>1, RecorderAssumption
    <3> QED
      BY <3>1 DEF Media, RingInv
  <2>2. clip # NoClip => Cardinality(clip.video) < MaxClipBytes
    BY DEF Media, ClipInv
  <2>3. \A c \in {queue, handing} \ {NoClip} : Cardinality(c.video) <= MaxClipBytes
    BY DEF Media, ClipInv, Whole
  <2>4. \A s, t \in sound : s <= t + MaxAudioAge
    BY DEF SoundInv
  <2> QED
    BY <2>1, <2>2, <2>3, <2>4 DEF MemoryIsBounded
<1> QED
  BY <1>1, MediaHolds, SoundIsShort, PTL

\* No clip goes past its finish line or the length ceiling while the watching
\* round runs.
THEOREM EveryClipEnds == Spec => []ClipsEnd
<1>1. Media /\ LineInv => ClipsEnd
  <2> SUFFICES ASSUME Media, LineInv, clip # NoClip, watching
               PROVE  now <= clip.deadline /\ now <= clip.eventAt + MaxDuration
    BY DEF ClipsEnd
  <2>1. now \in Nat /\ clip.deadline \in Nat /\ clip.eventAt \in Nat /\ MaxDuration \in Nat
    BY RecorderAssumption DEF Media, Timed, ClipInv, Good, Armed, Instants
  <2>2. Before(now, clip) \/ (now <= clip.deadline /\ now <= clip.eventAt + MaxDuration)
    BY DEF LineInv
  <2> QED
    BY <2>1, <2>2 DEF Before
<1> QED
  BY <1>1, MediaHolds, LineHolds, PTL

\* An orderly end that nothing cuts short leaves no clip unwritten.
THEOREM TheEndLeavesNothing == Spec => []EndLeavesNothing
<1>1. EndInv => EndLeavesNothing
  BY DEF EndInv, EndLeavesNothing
<1> QED
  BY <1>1, EndHolds, PTL

\* All that the recorder promises, at once: whole clips with nothing missing,
\* memory within its bounds, clips that end, and an end that leaves none.
THEOREM RecorderIsSafe == Spec => []RecorderSafety
<1>1. TypeOK /\ ClipIsWhole /\ NothingIsMissed /\ MemoryIsBounded /\ ClipsEnd /\ EndLeavesNothing
        => RecorderSafety
  BY DEF RecorderSafety
<1> QED
  BY <1>1, TypeCorrect, ClipsDecode, NothingIsLost, MemoryStaysBounded, EveryClipEnds,
     TheEndLeavesNothing, PTL

-----------------------------------------------------------------------------
(*                           The subscriptions                             *)

Lists == [subs : [Endpoints -> PushKeys \cup {Off}], lastOK : [Endpoints -> 0..MaxDeliveries]]

\* The devices whose answer, or whose place in memory, is not what the file says.
Odd == {e \in Endpoints : ~AnswerIsKept(e) \/ (running /\ subs[e] # pushFile.subs[e])}

\* Only a write that failed makes one.
TheOddAreCounted == IsFiniteSet(Odd) /\ Cardinality(Odd) <= failures

ListIsBounded(list) == IsFiniteSet(list) /\ Cardinality(list) <= MaxSubscriptions

\* Who is not listed has no delivery time, in memory and in the file.
NoTimeIsLeft ==
  \A e \in Endpoints : (subs[e] = Off => lastOK[e] = 0) /\ (pushFile.subs[e] = Off => pushFile.lastOK[e] = 0)

\* Memory that is not dirty is the file, while no write has failed.
CleanIsWritten == running /\ ~dirty /\ failures = 0 => pushFile = Memory

PushTypes ==
  /\ Memory \in Lists /\ pushFile \in Lists /\ dirty \in BOOLEAN /\ running \in BOOLEAN
  /\ answered \in [Endpoints -> PushKeys \cup {Off, "nothing"}] /\ failures \in 0..MaxFailures

PushInv ==
  /\ PushTypes /\ ListIsBounded(Listed) /\ ListIsBounded(Written)
  /\ TheOddAreCounted /\ NoTimeIsLeft /\ CleanIsWritten

-----------------------------------------------------------------------------
(*                            The configuration                            *)

Settings == [pw : 0..MaxSet, funnel : BOOLEAN, device : Devices \cup {NoDevice}]
Requests == [does : {"nothing", "uses", "switches on"}, device : Devices \cup {NoDevice}]

\* What the monitor has is what was last answered; the file is too, unless the
\* command has written it.
MemoryIsTheAnswer ==
  monitor # "off" => mem = lastChoice /\ (~overwritten => file = lastChoice)

\* What is on, or about to be, is on in the configuration.
WhatIsOnIsWanted ==
  /\ exposed => monitor = "up" /\ mem.funnel
  /\ \A p \in Pages : request[p].does = "switches on" => monitor = "up" /\ mem.funnel

ConfigInv ==
  /\ {file, mem, boot, toolBase, lastChoice} \subseteq Settings
  /\ setCount \in 0..MaxSet /\ exposed \in BOOLEAN /\ overwritten \in BOOLEAN
  /\ request \in [Pages -> Requests]
  /\ monitor \in {"off", "starting", "up"} /\ tool \in {"off", "loaded", "holds", "saved"}
  /\ MemoryIsTheAnswer /\ WhatIsOnIsWanted

\* A set that grows by one element at most.
LEMMA OneMore ==
  ASSUME NEW S, IsFiniteSet(S), NEW e, NEW T, T \subseteq S \cup {e}
  PROVE  /\ IsFiniteSet(T) /\ Cardinality(S) \in Nat /\ Cardinality(T) \in Nat
         /\ Cardinality(T) <= Cardinality(S) + 1
         /\ T \subseteq S => Cardinality(T) <= Cardinality(S)
<1>1. IsFiniteSet(S \cup {e}) /\ Cardinality(S \cup {e}) \in Nat /\ Cardinality(S) \in Nat
  BY FS_AddElement, FS_CardinalityType
<1>2. Cardinality(S \cup {e}) <= Cardinality(S) + 1
  BY <1>1, FS_AddElement
<1>3. IsFiniteSet(T) /\ Cardinality(T) \in Nat /\ Cardinality(T) <= Cardinality(S \cup {e})
  BY <1>1, FS_Subset, FS_CardinalityType
<1>4. T \subseteq S => Cardinality(T) <= Cardinality(S)
  BY FS_Subset
<1> QED
  BY <1>1, <1>2, <1>3, <1>4

\* And one that does not grow.
LEMMA NoMore ==
  ASSUME NEW S, IsFiniteSet(S), NEW T, T \subseteq S
  PROVE  /\ IsFiniteSet(T) /\ Cardinality(S) \in Nat /\ Cardinality(T) \in Nat
         /\ Cardinality(T) <= Cardinality(S)
BY FS_Subset, FS_CardinalityType

\* A list of subscriptions and its times.
LEMMA ListIs ==
  ASSUME PushTypes
  PROVE  /\ subs \in [Endpoints -> PushKeys \cup {Off}] /\ lastOK \in [Endpoints -> 0..MaxDeliveries]
         /\ pushFile = [subs |-> pushFile.subs, lastOK |-> pushFile.lastOK]
         /\ pushFile.subs \in [Endpoints -> PushKeys \cup {Off}]
         /\ pushFile.lastOK \in [Endpoints -> 0..MaxDeliveries]
<1>1. Memory.subs = subs /\ Memory.lastOK = lastOK
  BY DEF Memory
<1> QED
  BY <1>1 DEF PushTypes, Lists

\* A change in memory to one device, with the write that goes with it: what is
\* left when the write is made and when it fails.
LEMMA OneDeviceChanges ==
  ASSUME PushInv, running, running' = running, NEW e \in Endpoints,
         NEW given \in PushKeys \cup {Off}, NEW time \in 0..MaxDeliveries, NEW what \in PushKeys \cup {Off, "nothing"},
         given = Off => time = 0,
         subs' = [subs EXCEPT ![e] = given], lastOK' = [lastOK EXCEPT ![e] = time],
         \/ Saved /\ what \in {given, "nothing"}
         \/ SaveFailed /\ what = "nothing",
         Tells(e, what),
         given # Off => subs[e] # Off \/ Cardinality(Listed) < MaxSubscriptions
  PROVE  PushInv'
<1> USE PushStoreAssumption
<1>1. PushTypes
  BY DEF PushInv
<1>2. /\ subs \in [Endpoints -> PushKeys \cup {Off}] /\ lastOK \in [Endpoints -> 0..MaxDeliveries]
      /\ pushFile.subs \in [Endpoints -> PushKeys \cup {Off}]
      /\ pushFile.lastOK \in [Endpoints -> 0..MaxDeliveries]
  BY <1>1, ListIs
<1>3. subs' \in [Endpoints -> PushKeys \cup {Off}] /\ lastOK' \in [Endpoints -> 0..MaxDeliveries]
  BY <1>2
<1>4. Memory' \in Lists /\ Memory'.subs = subs' /\ Memory'.lastOK = lastOK'
  BY <1>3 DEF Memory, Lists
<1>5. /\ answered' = [answered EXCEPT ![e] = what]
      /\ \/ pushFile' = Memory' /\ dirty' = FALSE /\ failures' = failures /\ what \in {given, "nothing"}
         \/ pushFile' = pushFile /\ dirty' = dirty /\ failures' = failures + 1 /\ failures < MaxFailures /\ what = "nothing"
  BY DEF Saved, SaveFailed, Tells
<1>6. answered' \in [Endpoints -> PushKeys \cup {Off, "nothing"}]
  BY <1>1, <1>5 DEF PushTypes
<1>7. PushTypes'
  <2>1. failures' \in 0..MaxFailures
    BY <1>1, <1>5 DEF PushTypes
  <2>2. pushFile' \in Lists /\ dirty' \in BOOLEAN
    BY <1>1, <1>4, <1>5 DEF PushTypes
  <2> QED
    BY <1>1, <1>4, <1>6, <2>1, <2>2 DEF PushTypes
<1>8. ListIsBounded(Listed')
  <2>1. IsFiniteSet(Listed) /\ Cardinality(Listed) <= MaxSubscriptions
    BY DEF PushInv, ListIsBounded
  <2>2. Listed' \subseteq Listed \cup {e} /\ (given = Off \/ subs[e] # Off => Listed' \subseteq Listed)
    BY <1>2 DEF Listed
  <2>3. /\ IsFiniteSet(Listed') /\ Cardinality(Listed') \in Nat /\ Cardinality(Listed) \in Nat
        /\ Cardinality(Listed') <= Cardinality(Listed) + 1
        /\ Listed' \subseteq Listed => Cardinality(Listed') <= Cardinality(Listed)
    BY <2>1, <2>2, OneMore
  <2> QED
    BY <2>1, <2>2, <2>3 DEF ListIsBounded
<1>9. ListIsBounded(Written')
  <2>1. CASE pushFile' = Memory'
    <3>1. Written' = Listed'
      BY <1>4, <2>1 DEF Written, Listed
    <3> QED
      BY <1>8, <3>1
  <2>2. CASE pushFile' = pushFile
    <3>1. Written' = Written
      BY <2>2 DEF Written
    <3> QED
      BY <3>1 DEF PushInv
  <2> QED
    BY <1>5, <2>1, <2>2
<1>10. NoTimeIsLeft'
  <2>1. \A f \in Endpoints : subs'[f] = Off => lastOK'[f] = 0
    BY <1>2 DEF PushInv, NoTimeIsLeft
  <2>2. \A f \in Endpoints : pushFile'.subs[f] = Off => pushFile'.lastOK[f] = 0
    BY <1>4, <1>5, <2>1 DEF PushInv, NoTimeIsLeft
  <2> QED
    BY <2>1, <2>2 DEF NoTimeIsLeft
<1>11. CleanIsWritten'
  <2>1. failures' = 0 => pushFile' = Memory'
    BY <1>1, <1>5 DEF PushTypes
  <2> QED
    BY <2>1 DEF CleanIsWritten
<1>12. TheOddAreCounted'
  <2>1. IsFiniteSet(Odd) /\ Cardinality(Odd) <= failures /\ failures \in Nat
    BY <1>1 DEF PushInv, TheOddAreCounted, PushTypes
  <2>2. Odd' \subseteq Odd \cup {e}
    <3> SUFFICES ASSUME NEW f \in Endpoints, f # e, f \notin Odd PROVE f \notin Odd'
      BY DEF Odd
    <3>1. (answered[f] # "nothing" => pushFile.subs[f] = answered[f]) /\ subs[f] = pushFile.subs[f]
      BY DEF Odd, AnswerIsKept
    <3>2. answered'[f] = answered[f] /\ subs'[f] = subs[f]
      BY <1>1, <1>2, <1>5 DEF PushTypes
    <3>3. pushFile'.subs[f] = subs[f]
      BY <1>4, <1>5, <3>1, <3>2
    <3> QED
      BY <3>1, <3>2, <3>3 DEF Odd, AnswerIsKept
  <2>3. CASE pushFile' = Memory' /\ failures' = failures /\ what \in {given, "nothing"}
    <3>1. e \notin Odd'
      BY <1>1, <1>2, <1>4, <1>5, <2>3 DEF Odd, AnswerIsKept, PushTypes
    <3>2. Odd' \subseteq Odd
      BY <2>2, <3>1
    <3> QED
      BY <2>1, <2>3, <3>2, NoMore DEF TheOddAreCounted
  <2>4. CASE failures' = failures + 1
    <3>1. /\ IsFiniteSet(Odd') /\ Cardinality(Odd') \in Nat /\ Cardinality(Odd) \in Nat
          /\ Cardinality(Odd') <= Cardinality(Odd) + 1
      BY <2>1, <2>2, OneMore
    <3> QED
      BY <2>1, <2>4, <3>1 DEF TheOddAreCounted
  <2> QED
    BY <1>5, <2>3, <2>4
<1> QED
  BY <1>7, <1>8, <1>9, <1>10, <1>11, <1>12 DEF PushInv

\* Nothing but what a page was told changes, and it was told what is in memory.
LEMMA OnlyAnswers ==
  ASSUME PushInv, running, NEW e \in Endpoints, Tells(e, subs[e]),
         UNCHANGED <<subs, lastOK, dirty, pushFile, running, failures>>
  PROVE  PushInv'
<1>1. PushTypes
  BY DEF PushInv
<1>2. subs[e] \in PushKeys \cup {Off}
  BY <1>1, ListIs
<1>3. /\ answered' = [answered EXCEPT ![e] = subs[e]]
      /\ answered' \in [Endpoints -> PushKeys \cup {Off, "nothing"}]
  BY <1>1, <1>2 DEF Tells, PushTypes
<1>4. Memory' = Memory /\ Listed' = Listed /\ Written' = Written
  BY DEF Memory, Listed, Written
<1>5. Odd' \subseteq Odd
  <2> SUFFICES ASSUME NEW f \in Endpoints, f \notin Odd PROVE f \notin Odd'
    BY DEF Odd
  <2>1. (answered[f] # "nothing" => pushFile.subs[f] = answered[f]) /\ subs[f] = pushFile.subs[f]
    BY DEF Odd, AnswerIsKept
  <2>2. answered'[f] \in {answered[f], subs[f]}
    BY <1>1, <1>3 DEF PushTypes
  <2> QED
    BY <2>1, <2>2 DEF Odd, AnswerIsKept
<1>6. IsFiniteSet(Odd) /\ Cardinality(Odd) <= failures /\ failures \in Nat
  BY <1>1 DEF PushInv, TheOddAreCounted, PushTypes
<1>7. TheOddAreCounted'
  BY <1>5, <1>6, NoMore DEF TheOddAreCounted
<1> QED
  BY <1>1, <1>3, <1>4, <1>7 DEF PushInv, PushTypes, NoTimeIsLeft, CleanIsWritten

\* Every operation of the store, a crash and a start keep the list's invariant.
LEMMA PushStep == PushInv /\ [PushNext]_pushVars => PushInv'
<1> SUFFICES ASSUME PushInv, [PushNext]_pushVars PROVE PushInv'
  OBVIOUS
<1> USE PushStoreAssumption
<1>0. PushTypes
  BY DEF PushInv
<1>l. /\ subs \in [Endpoints -> PushKeys \cup {Off}] /\ lastOK \in [Endpoints -> 0..MaxDeliveries]
      /\ pushFile = [subs |-> pushFile.subs, lastOK |-> pushFile.lastOK]
      /\ pushFile.subs \in [Endpoints -> PushKeys \cup {Off}]
      /\ pushFile.lastOK \in [Endpoints -> 0..MaxDeliveries]
  BY <1>0, ListIs
<1>z. 0 \in 0..MaxDeliveries
  OBVIOUS
<1>odd. IsFiniteSet(Odd) /\ Cardinality(Odd) <= failures /\ failures \in Nat
  BY <1>0 DEF PushInv, TheOddAreCounted, PushTypes
<1>1. ASSUME NEW e \in Endpoints, NEW k \in PushKeys, Add(e, k) PROVE PushInv'
  <2>1. (Saved /\ Tells(e, k)) \/ (SaveFailed /\ Tells(e, "nothing"))
    BY <1>1 DEF Add
  <2>2. /\ running /\ running' = running /\ Cardinality(Listed) < MaxSubscriptions
        /\ subs' = [subs EXCEPT ![e] = k] /\ lastOK' = [lastOK EXCEPT ![e] = 0]
    BY <1>1 DEF Add
  <2>a. CASE Saved /\ Tells(e, k)
    BY <1>z, <2>2, <2>a, OneDeviceChanges
  <2>b. CASE SaveFailed /\ Tells(e, "nothing")
    BY <1>z, <2>2, <2>b, OneDeviceChanges
  <2> QED
    BY <2>1, <2>a, <2>b
<1>2. ASSUME NEW e \in Endpoints, NEW k \in PushKeys, Refresh(e, k) PROVE PushInv'
  <2>1. (Saved /\ Tells(e, k)) \/ (SaveFailed /\ Tells(e, "nothing"))
    BY <1>2 DEF Refresh
  <2>2. /\ running /\ running' = running /\ subs[e] # Off
        /\ subs' = [subs EXCEPT ![e] = k] /\ lastOK' = [lastOK EXCEPT ![e] = lastOK[e]]
    BY <1>2, <1>l DEF Refresh
  <2>3. lastOK[e] \in 0..MaxDeliveries /\ k # Off
    BY <1>l
  <2>a. CASE Saved /\ Tells(e, k)
    BY <2>2, <2>3, <2>a, OneDeviceChanges
  <2>b. CASE SaveFailed /\ Tells(e, "nothing")
    BY <2>2, <2>3, <2>b, OneDeviceChanges
  <2> QED
    BY <2>1, <2>a, <2>b
<1>3. ASSUME NEW e \in Endpoints, NEW k \in PushKeys, PutAgain(e, k) PROVE PushInv'
  BY <1>3, OnlyAnswers DEF PutAgain
<1>4. ASSUME NEW e \in Endpoints, Remove(e) PROVE PushInv'
  <2>1. (Saved /\ Tells(e, Off)) \/ (SaveFailed /\ Tells(e, "nothing"))
    BY <1>4 DEF Remove
  <2>2. /\ running /\ running' = running
        /\ subs' = [subs EXCEPT ![e] = Off] /\ lastOK' = [lastOK EXCEPT ![e] = 0]
    BY <1>4 DEF Remove
  <2>a. CASE Saved /\ Tells(e, Off)
    BY <1>z, <2>2, <2>a, OneDeviceChanges
  <2>b. CASE SaveFailed /\ Tells(e, "nothing")
    BY <1>z, <2>2, <2>b, OneDeviceChanges
  <2> QED
    BY <2>1, <2>a, <2>b
<1>5. ASSUME NEW e \in Endpoints, RemoveAgain(e) PROVE PushInv'
  BY <1>5, OnlyAnswers DEF RemoveAgain
<1>6. ASSUME NEW e \in Endpoints, Ended(e) PROVE PushInv'
  <2>1. (Saved /\ Tells(e, "nothing")) \/ (SaveFailed /\ Tells(e, "nothing"))
    BY <1>6 DEF Ended
  <2>2. /\ running /\ running' = running
        /\ subs' = [subs EXCEPT ![e] = Off] /\ lastOK' = [lastOK EXCEPT ![e] = 0]
    BY <1>6 DEF Ended
  <2>a. CASE Saved /\ Tells(e, "nothing")
    BY <1>z, <2>2, <2>a, OneDeviceChanges
  <2>b. CASE SaveFailed /\ Tells(e, "nothing")
    BY <1>z, <2>2, <2>b, OneDeviceChanges
  <2> QED
    BY <2>1, <2>a, <2>b
<1>7. ASSUME NEW e \in Endpoints, Delivered(e) PROVE PushInv'
  <2>1. /\ lastOK' = [lastOK EXCEPT ![e] = @ + 1] /\ subs[e] # Off /\ dirty' = TRUE
        /\ lastOK[e] < MaxDeliveries /\ UNCHANGED <<subs, pushFile, running, answered, failures>>
    BY <1>7 DEF Delivered
  <2>2. lastOK' \in [Endpoints -> 0..MaxDeliveries]
    BY <1>l, <2>1
  <2>3. Memory' \in Lists
    BY <1>l, <2>1, <2>2 DEF Memory, Lists
  <2>4. Listed' = Listed /\ Written' = Written /\ Odd' = Odd
    BY <2>1 DEF Listed, Written, Odd, AnswerIsKept
  <2>5. NoTimeIsLeft'
    BY <1>l, <2>1 DEF PushInv, NoTimeIsLeft
  <2> QED
    BY <1>0, <2>1, <2>3, <2>4, <2>5 DEF PushInv, PushTypes, TheOddAreCounted, CleanIsWritten
<1>8. CASE Stop
  <2>1. /\ running /\ running' = FALSE /\ UNCHANGED <<subs, lastOK, answered>>
        /\ \/ pushFile' = Memory' /\ dirty' = FALSE /\ failures' = failures
           \/ pushFile' = pushFile /\ dirty' = dirty /\ failures' = failures + 1 /\ failures < MaxFailures
           \/ UNCHANGED <<pushFile, dirty, failures>>
    BY <1>8 DEF Stop, Saved, SaveFailed
  <2>2. Memory' = Memory /\ Memory.subs = subs /\ Memory.lastOK = lastOK /\ Listed' = Listed
    BY <2>1 DEF Memory, Listed
  <2>3. Written' \in {Listed, Written}
    BY <2>1, <2>2 DEF Written, Listed
  <2>4. Odd' \subseteq Odd
    <3> SUFFICES ASSUME NEW f \in Endpoints, f \notin Odd PROVE f \notin Odd'
      BY DEF Odd
    <3>1. (answered[f] # "nothing" => pushFile.subs[f] = answered[f]) /\ subs[f] = pushFile.subs[f]
      BY <2>1 DEF Odd, AnswerIsKept
    <3>2. pushFile'.subs[f] = pushFile.subs[f]
      BY <2>1, <2>2, <3>1
    <3> QED
      BY <2>1, <3>1, <3>2 DEF Odd, AnswerIsKept
  <2>5. failures' \in 0..MaxFailures /\ failures' >= failures
    BY <1>0, <2>1 DEF PushTypes
  <2>6. TheOddAreCounted'
    <3>1. IsFiniteSet(Odd') /\ Cardinality(Odd') \in Nat /\ Cardinality(Odd) \in Nat /\ Cardinality(Odd') <= Cardinality(Odd)
      BY <1>odd, <2>4, NoMore
    <3> QED
      BY <1>odd, <2>5, <3>1 DEF TheOddAreCounted
  <2>7. NoTimeIsLeft'
    BY <2>1, <2>2 DEF PushInv, NoTimeIsLeft
  <2>8. PushTypes'
    BY <1>0, <2>1, <2>2, <2>5 DEF PushTypes
  <2> QED
    BY <2>1, <2>2, <2>3, <2>6, <2>7, <2>8 DEF PushInv, CleanIsWritten
<1>9. CASE Crash
  <2>1. running' = FALSE /\ UNCHANGED <<subs, lastOK, dirty, pushFile, answered, failures>>
    BY <1>9 DEF Crash
  <2>2. Memory' = Memory /\ Listed' = Listed /\ Written' = Written
    BY <2>1 DEF Memory, Listed, Written
  <2>3. Odd' \subseteq Odd
    BY <2>1 DEF Odd, AnswerIsKept
  <2>4. TheOddAreCounted'
    BY <1>odd, <2>1, <2>3, NoMore DEF TheOddAreCounted
  <2> QED
    BY <1>0, <2>1, <2>2, <2>4 DEF PushInv, PushTypes, NoTimeIsLeft, CleanIsWritten
<1>10. CASE Start
  <2>1. PICK kept \in SUBSET Written :
          /\ Cardinality(Written) <= MaxSubscriptions => kept = Written
          /\ subs' = [e \in Endpoints |-> IF e \in kept THEN pushFile.subs[e] ELSE Off]
          /\ lastOK' = [e \in Endpoints |-> IF e \in kept THEN pushFile.lastOK[e] ELSE 0]
    BY <1>10 DEF Start
  <2>2. ~running /\ running' = TRUE /\ dirty' = FALSE /\ UNCHANGED <<pushFile, answered, failures>>
    BY <1>10 DEF Start
  <2>3. kept = Written
    BY <2>1 DEF PushInv, ListIsBounded
  <2>4. \A e \in Endpoints : subs'[e] = pushFile.subs[e] /\ lastOK'[e] = pushFile.lastOK[e]
    BY <2>1, <2>3 DEF Written, PushInv, NoTimeIsLeft
  <2>5. subs' = pushFile.subs
    BY <1>l, <2>1, <2>4
  <2>6. lastOK' = pushFile.lastOK
    BY <1>l, <2>1, <2>4
  <2>7. Memory' = pushFile
    BY <1>l, <2>5, <2>6 DEF Memory
  <2>8. Listed' = Written /\ Written' = Written
    BY <2>2, <2>4 DEF Listed, Written
  <2>9. Odd' \subseteq Odd
    BY <2>2, <2>4 DEF Odd, AnswerIsKept
  <2>10. TheOddAreCounted'
    BY <1>odd, <2>2, <2>9, NoMore DEF TheOddAreCounted
  <2>11. PushTypes'
    BY <1>0, <2>2, <2>7 DEF PushTypes
  <2> QED
    BY <2>2, <2>4, <2>7, <2>8, <2>10, <2>11 DEF PushInv, NoTimeIsLeft, CleanIsWritten
<1>11. CASE UNCHANGED pushVars
  <2>1. UNCHANGED <<subs, lastOK, dirty, pushFile, running, answered, failures>>
    BY <1>11 DEF pushVars
  <2> QED
    BY <2>1 DEF PushInv, PushTypes, Memory, Lists, ListIsBounded, Listed, Written, TheOddAreCounted, Odd, AnswerIsKept,
       NoTimeIsLeft, CleanIsWritten
<1> QED
  BY <1>1, <1>2, <1>3, <1>4, <1>5, <1>6, <1>7, <1>8, <1>9, <1>10, <1>11 DEF PushNext

\* The empty list, which is also the file, has the invariant.
LEMMA PushStarts == PushInit => PushInv
<1> SUFFICES ASSUME PushInit PROVE PushInv
  OBVIOUS
<1> USE PushStoreAssumption DEF PushInit
<1>1. Memory \in Lists /\ pushFile = Memory /\ pushFile.subs = subs /\ pushFile.lastOK = lastOK
  BY DEF Memory, Lists
<1>2. Listed = {} /\ Written = {} /\ Odd = {}
  BY <1>1 DEF Listed, Written, Odd, AnswerIsKept
<1>3. IsFiniteSet({}) /\ Cardinality({}) = 0
  BY FS_EmptySet
<1>4. PushTypes
  <2>1. dirty \in BOOLEAN /\ running \in BOOLEAN
    OBVIOUS
  <2>2. answered \in [Endpoints -> PushKeys \cup {Off, "nothing"}] /\ failures \in 0..MaxFailures
    OBVIOUS
  <2> QED
    BY <1>1, <2>1, <2>2 DEF PushTypes
<1>5. ListIsBounded(Listed) /\ ListIsBounded(Written) /\ TheOddAreCounted
  BY <1>2, <1>3 DEF ListIsBounded, TheOddAreCounted
<1> QED
  BY <1>1, <1>4, <1>5 DEF PushInv, NoTimeIsLeft, CleanIsWritten

\* The list and its file stay within their bound, and a write that fails costs
\* the answers about one device and no other: for any devices, any bound and any
\* number of failures (Store.Put, Remove, settle, Flush and OpenStore of
\* internal/push/store.go).
THEOREM ThePhonesAreKept == PushSpec => []PushSafety
<1>1. PushInv => PushSafety
  <2> SUFFICES ASSUME PushInv PROVE PushSafety
    OBVIOUS
  <2>1. PushTypes
    BY DEF PushInv
  <2>2. PushTypeOK
    BY <2>1, ListIs DEF PushInv, PushTypes, PushTypeOK, ListIsBounded
  <2>3. {e \in Endpoints : ~AnswerIsKept(e)} \subseteq Odd
    BY DEF Odd
  <2>4. OneDevicePerFailure
    <3>1. IsFiniteSet(Odd) /\ Cardinality(Odd) <= failures /\ failures \in Nat
      BY <2>1 DEF PushInv, TheOddAreCounted, PushTypes
    <3> QED
      BY <2>3, <3>1, NoMore DEF OneDevicePerFailure
  <2> QED
    BY <2>2, <2>4 DEF PushSafety
<1> QED
  BY <1>1, PushStarts, PushStep, PTL DEF PushSpec

\* While no write has failed, an orderly end leaves in the file everything that
\* was in memory, the delivery times too (Store.Flush).
THEOREM AnOrderlyEndForgetsNothing == PushSpec => OrderlyEndKeepsAll
<1>1. PushInv /\ [PushNext]_pushVars => [Stop /\ failures' = 0 => pushFile' = Memory]_pushVars
  <2> SUFFICES ASSUME PushInv, Stop, failures' = 0 PROVE pushFile' = Memory
    OBVIOUS
  <2>1. failures \in Nat
    BY DEF PushInv, PushTypes
  <2>2. Memory' = Memory
    BY DEF Stop, Memory
  <2>3. CASE dirty
    <3>1. Saved \/ SaveFailed
      BY <2>3 DEF Stop
    <3>2. ~SaveFailed
      BY <2>1 DEF SaveFailed
    <3> QED
      BY <2>2, <3>1, <3>2 DEF Saved
  <2>4. CASE ~dirty
    BY <2>4 DEF Stop, PushInv, CleanIsWritten
  <2> QED
    BY <2>3, <2>4
<1> QED
  BY <1>1, PushStarts, PushStep, PTL DEF PushSpec, OrderlyEndKeepsAll

-----------------------------------------------------------------------------
\* Both copies of the configuration change alike, or neither does.
LEMMA SavesBoth ==
  ASSUME ConfigInv, monitor = "up", NEW field \in {"pw", "funnel", "device"}, NEW value,
         field = "pw" => value \in 0..MaxSet, field = "funnel" => value = TRUE,
         field = "device" => value \in Devices \cup {NoDevice},
         Saves(field, value)
  PROVE  /\ {mem', file', lastChoice'} \subseteq Settings /\ file' = mem' /\ mem' = lastChoice'
         /\ mem'.funnel = (field = "funnel" \/ mem.funnel)
<1>1. mem = lastChoice /\ mem \in Settings
  BY DEF ConfigInv, MemoryIsTheAnswer
<1>2. mem' = [mem EXCEPT ![field] = value] /\ file' = mem' /\ lastChoice' = mem'
  BY <1>1 DEF Saves, Base
<1>3. mem' \in Settings
  BY <1>1, <1>2 DEF Settings
<1>4. mem'.funnel = (field = "funnel" \/ mem.funnel)
  <2>1. mem.funnel \in BOOLEAN
    BY <1>1 DEF Settings
  <2>2. CASE field = "funnel"
    <3>1. mem'.funnel = TRUE
      BY <1>1, <1>2, <2>2 DEF Settings
    <3> QED
      BY <2>2, <3>1
  <2>3. CASE field # "funnel"
    <3>1. mem'.funnel = mem.funnel
      BY <1>1, <1>2, <2>3 DEF Settings
    <3> QED
      BY <2>1, <2>3, <3>1
  <2> QED
    BY <2>2, <2>3
<1> QED
  BY <1>2, <1>3, <1>4

\* What a page asked for and got keeps what has to be kept: the settings are
\* alike, and what was on is on.
LEMMA AfterSaving ==
  ASSUME ConfigInv, monitor = "up", UNCHANGED <<monitor, boot, toolBase, tool, exposed, overwritten>>,
         setCount' \in 0..MaxSet,
         {mem', file', lastChoice'} \subseteq Settings, file' = mem', mem' = lastChoice', mem.funnel => mem'.funnel,
         request' \in [Pages -> Requests],
         \A p \in Pages : request'[p].does = "switches on" => mem'.funnel
  PROVE  ConfigInv'
<1>1. {file', mem', boot', toolBase', lastChoice'} \subseteq Settings
  BY DEF ConfigInv
<1>2. MemoryIsTheAnswer'
  BY DEF MemoryIsTheAnswer
<1>3. WhatIsOnIsWanted'
  BY DEF ConfigInv, WhatIsOnIsWanted
<1> QED
  BY <1>1, <1>2, <1>3 DEF ConfigInv

\* And a write that failed leaves all of that as it was.
LEMMA AfterFailing ==
  ASSUME ConfigInv, SaveFails, UNCHANGED <<monitor, boot, toolBase, tool, exposed, overwritten, request>>,
         setCount' \in 0..MaxSet
  PROVE  ConfigInv'
BY DEF ConfigInv, SaveFails, MemoryIsTheAnswer, WhatIsOnIsWanted

\* Pages, the start and the end of the monitor, and the command keep it.
LEMMA ConfigStep == ConfigInv /\ [ConfigNext]_cfgVars => ConfigInv'
<1> SUFFICES ASSUME ConfigInv, [ConfigNext]_cfgVars PROVE ConfigInv'
  OBVIOUS
<1> USE ConfigAssumption
<1>t. /\ {file, mem, boot, toolBase, lastChoice} \subseteq Settings /\ setCount \in 0..MaxSet
      /\ request \in [Pages -> Requests] /\ exposed \in BOOLEAN
  BY DEF ConfigInv
<1>1. ASSUME NEW p \in Pages, NEW d \in Devices, PageChooses(p, d) PROVE ConfigInv'
  <2>1. /\ monitor = "up" /\ UNCHANGED <<monitor, boot, toolBase, tool, exposed, overwritten, setCount>>
    BY <1>1 DEF PageChooses, runVars, toolVars
  <2>2. CASE SaveFails /\ UNCHANGED request
    BY <1>t, <2>1, <2>2, AfterFailing
  <2>3. CASE Saves("device", d) /\ request' = [request EXCEPT ![p] = [does |-> "uses", device |-> d]]
    <3>1. /\ {mem', file', lastChoice'} \subseteq Settings /\ file' = mem' /\ mem' = lastChoice'
          /\ mem'.funnel = ("device" = "funnel" \/ mem.funnel)
      BY <2>1, <2>3, SavesBoth
    <3>2. mem.funnel => mem'.funnel
      BY <3>1
    <3>3. request' \in [Pages -> Requests]
      BY <1>t, <2>3 DEF Requests
    <3>4. \A q \in Pages : request'[q].does = "switches on" => mem.funnel
      BY <1>t, <2>3 DEF ConfigInv, WhatIsOnIsWanted
    <3>5. \A q \in Pages : request'[q].does = "switches on" => mem'.funnel
      BY <3>2, <3>4
    <3>6. setCount' \in 0..MaxSet
      BY <1>t, <2>1
    <3> QED
      BY <2>1, <3>1, <3>2, <3>3, <3>5, <3>6, AfterSaving
  <2> QED
    BY <1>1, <2>2, <2>3 DEF PageChooses
<1>2. ASSUME NEW p \in Pages, PageUses(p) PROVE ConfigInv'
  <2>1. /\ request' = [request EXCEPT ![p] = Idle]
        /\ UNCHANGED <<file, mem, monitor, boot, overwritten, exposed, tool, toolBase, setCount, lastChoice>>
    BY <1>2 DEF PageUses, toolVars
  <2>2. request' \in [Pages -> Requests]
    BY <1>t, <2>1 DEF Requests, Idle
  <2>3. \A q \in Pages : request'[q].does = "switches on" => request[q].does = "switches on"
    BY <1>t, <2>1 DEF Idle
  <2> QED
    BY <2>1, <2>2, <2>3 DEF ConfigInv, MemoryIsTheAnswer, WhatIsOnIsWanted
<1>3. ASSUME NEW p \in Pages, PageExposes(p) PROVE ConfigInv'
  <2>1. /\ monitor = "up" /\ UNCHANGED <<monitor, boot, toolBase, tool, exposed, overwritten, setCount>>
    BY <1>3 DEF PageExposes, WhileItIsSaved, runVars, toolVars
  <2>2. CASE SaveFails /\ UNCHANGED request
    BY <1>t, <2>1, <2>2, AfterFailing
  <2>3. CASE Saves("funnel", TRUE) /\ request' = [request EXCEPT ![p] = [does |-> "switches on", device |-> NoDevice]]
    <3>1. /\ {mem', file', lastChoice'} \subseteq Settings /\ file' = mem' /\ mem' = lastChoice'
          /\ mem'.funnel = ("funnel" = "funnel" \/ mem.funnel)
      BY <2>1, <2>3, SavesBoth
    <3>2. mem'.funnel
      BY <3>1
    <3>3. request' \in [Pages -> Requests]
      BY <1>t, <2>3 DEF Requests
    <3>4. setCount' \in 0..MaxSet
      BY <1>t, <2>1
    <3> QED
      BY <2>1, <3>1, <3>2, <3>3, <3>4, AfterSaving
  <2> QED
    BY <1>3, <2>2, <2>3 DEF PageExposes
<1>4. ASSUME NEW p \in Pages, PageSwitchesOn(p) PROVE ConfigInv'
  <2>1. /\ request' = [request EXCEPT ![p] = Idle] /\ exposed' = TRUE /\ request[p].does = "switches on"
        /\ UNCHANGED <<file, mem, monitor, boot, overwritten, tool, toolBase, setCount, lastChoice>>
    BY <1>4 DEF PageSwitchesOn, runVars, toolVars
  <2>2. request' \in [Pages -> Requests]
    BY <1>t, <2>1 DEF Requests, Idle
  <2>3. \A q \in Pages : request'[q].does = "switches on" => request[q].does = "switches on"
    BY <1>t, <2>1 DEF Idle
  <2> QED
    BY <2>1, <2>2, <2>3 DEF ConfigInv, MemoryIsTheAnswer, WhatIsOnIsWanted
<1>5. CASE PasswordChanges
  <2>1. /\ monitor = "up" /\ UNCHANGED <<monitor, boot, toolBase, tool, exposed, overwritten, request>>
    BY <1>5 DEF PasswordChanges, runVars, toolVars
  <2>2. setCount' \in 0..MaxSet
    BY <1>t, <1>5 DEF PasswordChanges
  <2>3. CASE SaveFails
    BY <2>1, <2>2, <2>3, AfterFailing
  <2>4. ASSUME NEW n \in 0..MaxSet, Saves("pw", n) PROVE ConfigInv'
    <3>1. /\ {mem', file', lastChoice'} \subseteq Settings /\ file' = mem' /\ mem' = lastChoice'
          /\ mem'.funnel = ("pw" = "funnel" \/ mem.funnel)
      BY <2>1, <2>4, SavesBoth
    <3>2. mem.funnel => mem'.funnel
      BY <3>1
    <3>3. request' \in [Pages -> Requests]
      BY <1>t, <2>1
    <3>4. \A q \in Pages : request'[q].does = "switches on" => mem'.funnel
      BY <2>1, <3>2 DEF ConfigInv, WhatIsOnIsWanted
    <3> QED
      BY <2>1, <2>2, <3>1, <3>2, <3>3, <3>4, AfterSaving
  <2>5. SaveFails \/ \E n \in 0..MaxSet : Saves("pw", n)
    BY <1>5, <2>2 DEF PasswordChanges
  <2> QED
    BY <2>3, <2>4, <2>5
<1>6. CASE MonitorLoads
  BY <1>6 DEF MonitorLoads, toolVars, ConfigInv, MemoryIsTheAnswer, WhatIsOnIsWanted
<1>7. CASE MonitorListens
  <2>1. /\ monitor = "starting" /\ monitor' = "up" /\ exposed' = (mem.funnel /\ mem.pw # 0)
        /\ UNCHANGED <<file, mem, request, tool, toolBase, setCount, boot, overwritten, lastChoice>>
    BY <1>7 DEF MonitorListens, toolVars
  <2>2. exposed' \in BOOLEAN
    BY <2>1
  <2>3. exposed' => mem.funnel
    BY <2>1
  <2> QED
    BY <2>1, <2>2, <2>3 DEF ConfigInv, MemoryIsTheAnswer, WhatIsOnIsWanted
<1>8. CASE MonitorEnds
  <2>1. request' \in [Pages -> Requests] /\ \A q \in Pages : request'[q].does = "nothing"
    BY <1>8 DEF MonitorEnds, Requests, Idle
  <2> QED
    BY <1>8, <2>1 DEF MonitorEnds, toolVars, ConfigInv, MemoryIsTheAnswer, WhatIsOnIsWanted
<1>9. CASE ToolLoads
  BY <1>9 DEF ToolLoads, runVars, ConfigInv, MemoryIsTheAnswer, WhatIsOnIsWanted
<1>10. CASE ToolHolds
  BY <1>10 DEF ToolHolds, runVars, ConfigInv, MemoryIsTheAnswer, WhatIsOnIsWanted
<1>11. CASE ToolSaves
  <2>1. setCount' \in 0..MaxSet
    BY <1>t, <1>11 DEF ToolSaves
  <2>2. file' = [toolBase EXCEPT !.pw = setCount'] /\ toolBase \in Settings
    BY <1>t, <1>11 DEF ToolSaves
  <2>3. file' \in Settings
    BY <2>1, <2>2 DEF Settings
  <2>4. /\ overwritten' = TRUE /\ tool' = "saved"
        /\ UNCHANGED <<mem, monitor, boot, exposed, request, toolBase, lastChoice>>
    BY <1>11 DEF ToolSaves
  <2> QED
    BY <2>1, <2>3, <2>4 DEF ConfigInv, MemoryIsTheAnswer, WhatIsOnIsWanted
<1>12. CASE ToolEnds
  BY <1>12 DEF ToolEnds, runVars, ConfigInv, MemoryIsTheAnswer, WhatIsOnIsWanted
<1>13. CASE UNCHANGED cfgVars
  BY <1>13 DEF cfgVars, ConfigInv, MemoryIsTheAnswer, WhatIsOnIsWanted
<1> QED
  BY <1>1, <1>2, <1>3, <1>4, <1>5, <1>6, <1>7, <1>8, <1>9, <1>10, <1>11, <1>12, <1>13 DEF ConfigNext

\* No choice is forgotten between memory and file, whichever pages choose at
\* once and whichever write fails, and a tunnel that is up is one the file knows
\* of: for any pages, devices and number of passwords (config.Store.Update,
\* chooseDevice, apiRemoteEnable, apiPassword, promptAndSetPassword).
THEOREM NoChoiceIsLost == ConfigSpec => []ConfigSafety
<1>1. ConfigInit => ConfigInv
  <2> SUFFICES ASSUME ConfigInit PROVE ConfigInv
    OBVIOUS
  <2>1. Fresh \in Settings
    BY ConfigAssumption DEF Fresh, Settings
  <2>2. request \in [Pages -> Requests] /\ \A p \in Pages : request[p].does = "nothing"
    BY DEF ConfigInit, Requests, Idle
  <2>3. setCount \in 0..MaxSet
    BY ConfigAssumption DEF ConfigInit
  <2>4. exposed \in BOOLEAN /\ overwritten \in BOOLEAN
    BY DEF ConfigInit
  <2> QED
    BY <2>1, <2>2, <2>3, <2>4 DEF ConfigInit, ConfigInv, MemoryIsTheAnswer, WhatIsOnIsWanted
<1>2. ConfigInv => ConfigSafety
  <2> SUFFICES ASSUME ConfigInv PROVE ConfigSafety
    OBVIOUS
  <2>1. ConfigTypeOK
    BY DEF ConfigInv, ConfigTypeOK, Settings
  <2>2. NoChoiceIsForgotten
    BY DEF ConfigInv, MemoryIsTheAnswer, NoChoiceIsForgotten
  <2>3. TheTunnelIsPersisted
    BY DEF ConfigInv, MemoryIsTheAnswer, WhatIsOnIsWanted, TheTunnelIsPersisted
  <2> QED
    BY <2>1, <2>2, <2>3 DEF ConfigSafety
<1> QED
  BY <1>1, <1>2, ConfigStep, PTL DEF ConfigSpec

-----------------------------------------------------------------------------
(*                            The clips on disk                            *)

\* More clips weigh no less.
LEMMA WeightIsMonotone ==
  ASSUME NEW T \in SUBSET Files, IsFiniteSet(T), NEW U \in SUBSET T
  PROVE  Weight(U) \in Nat /\ Weight(T) \in Nat /\ Weight(U) <= Weight(T)
<1> DEFINE Units(f) == {f} \X (1..f.size)
<1> DEFINE Of(S) == UNION {Units(f) : f \in S}
<1>1. \A f \in Files : f.size \in Nat
  BY ClipStoreAssumption DEF Files
<1>2. \A f \in T : IsFiniteSet(Units(f))
  <2> SUFFICES ASSUME NEW f \in T PROVE IsFiniteSet(Units(f))
    OBVIOUS
  <2>1. IsFiniteSet({f})
    BY FS_Singleton
  <2>2. IsFiniteSet(1..f.size)
    BY <1>1, FS_Interval
  <2> QED
    BY <2>1, <2>2, FS_Product
<1>3. IsFiniteSet({Units(f) : f \in T})
  <2> DEFINE F == [f \in T |-> Units(f)]
  <2>1. F \in Surjection(T, {Units(f) : f \in T})
    BY DEF Surjection
  <2> QED
    BY <2>1, FS_Surjection
<1>4. IsFiniteSet(Of(T))
  <2>1. \A S \in {Units(f) : f \in T} : IsFiniteSet(S)
    BY <1>2
  <2> HIDE DEF Units
  <2> QED
    BY <1>3, <2>1, FS_UNION
<1>5. Of(U) \in SUBSET Of(T)
  <2> HIDE DEF Units
  <2> QED
    OBVIOUS
<1>6. IsFiniteSet(Of(U)) /\ Cardinality(Of(U)) <= Cardinality(Of(T))
  BY <1>4, <1>5, FS_Subset
<1>7. Cardinality(Of(U)) \in Nat /\ Cardinality(Of(T)) \in Nat
  BY <1>4, <1>6, FS_CardinalityType
<1> QED
  BY <1>6, <1>7 DEF Weight

\* The name a clip gets is free, and not before its event.
LEMMA NameIsFree ==
  ASSUME NEW at \in Nat, FreeNames(at) # {}
  PROVE  /\ NameFor(at) \in at..(at + NameTries - 1)
         /\ \A f \in disk : f.at # NameFor(at)
<1>1. FreeNames(at) \in SUBSET Nat
  BY DEF FreeNames
<1>2. \E s \in FreeNames(at) : \A t \in FreeNames(at) : s <= t
  BY <1>1, Least
<1>3. NameFor(at) \in FreeNames(at)
  BY <1>2 DEF NameFor
<1> QED
  BY <1>3 DEF FreeNames, Taken, Stems

ClipsAreDistinct(files) == \A f, g \in files : f.at = g.at => f = g

\* What prune leaves alone: a kept clip, one that is read, and the newest of the
\* others until it is too old.
LEMMA PruningSpares ==
  ASSUME NEW files, NEW f \in files,
         f.kept \/ f.at \in inUse \/ (IsNewest(f, files) /\ ~TooOld(f))
  PROVE  f \in AfterPruning(files)
BY DEF AfterPruning, IsPruned, MayBePruned, Goes

\* What it does not: of those that may go and are not read none is too old, and
\* there is one at the most if they weigh more than the quota.  The oldest that is
\* left and is not the newest was not over the quota at its turn, and at its turn
\* there was all that is left.
LEMMA PruningIsEnough ==
  ASSUME NEW files \in SUBSET Files, IsFiniteSet(files), ClipsAreDistinct(files),
         NEW left, left = {f \in Prunable(AfterPruning(files)) : f.at \notin inUse}
  PROVE  /\ \A f \in left : ~TooOld(f)
         /\ Quota = 0 \/ Weight(Prunable(AfterPruning(files))) <= Quota \/ Cardinality(left) <= 1
<1>1. \A f \in left : /\ f \in Prunable(files) /\ f \in Files /\ f.at \in Nat
                      /\ ~TooOld(f) /\ (IsNewest(f, files) \/ ~OverQuota(f, files))
  BY DEF Prunable, AfterPruning, IsPruned, MayBePruned, Goes, Files, Seconds
<1>2. CASE \A f \in left : IsNewest(f, files)
  <2>1. \A f, g \in left : f = g
    <3> SUFFICES ASSUME NEW f \in left, NEW g \in left PROVE f = g
      OBVIOUS
    <3>1. f.at <= g.at /\ g.at <= f.at
      BY <1>1, <1>2 DEF IsNewest
    <3>2. f.at = g.at
      BY <1>1, <3>1
    <3> QED
      BY <1>1, <3>2 DEF ClipsAreDistinct, Prunable
  <2>2. Cardinality(left) <= 1
    <3>1. CASE left = {}
      <4>1. Cardinality({}) = 0
        BY FS_EmptySet
      <4> QED
        BY <3>1, <4>1
    <3>2. CASE left # {}
      <4>1. PICK f \in left : TRUE
        BY <3>2
      <4>2. left = {f}
        BY <2>1
      <4>3. Cardinality(left) = 1
        BY <4>2, FS_Singleton
      <4> QED
        BY <4>3
    <3> QED
      BY <3>1, <3>2
  <2> QED
    BY <1>1, <2>2
<1>3. CASE \E f \in left : ~IsNewest(f, files)
  <2> DEFINE older == {f.at : f \in {g \in left : ~IsNewest(g, files)}}
  <2>1. older \in SUBSET Nat /\ older # {}
    BY <1>1, <1>3
  <2>2. PICK least \in older : \A n \in older : least <= n
    BY <2>1, Least
  <2>3. PICK f \in left : ~IsNewest(f, files) /\ f.at = least
    BY <2>2
  <2>4. \A g \in left : f.at <= g.at
    <3> SUFFICES ASSUME NEW g \in left PROVE f.at <= g.at
      OBVIOUS
    <3>1. CASE IsNewest(g, files)
      BY <1>1, <3>1 DEF IsNewest
    <3>2. CASE ~IsNewest(g, files)
      BY <2>2, <2>3, <3>2
    <3> QED
      BY <3>1, <3>2
  <2>5. Prunable(AfterPruning(files)) \in SUBSET AtItsTurn(f, files)
    <3> SUFFICES ASSUME NEW g \in Prunable(AfterPruning(files)) PROVE g \in AtItsTurn(f, files)
      OBVIOUS
    <3>1. g \in Prunable(files)
      BY DEF Prunable, AfterPruning
    <3>2. CASE g.at \in inUse
      BY <3>1, <3>2 DEF AtItsTurn
    <3>3. CASE g.at \notin inUse
      <4>1. g \in left
        BY <3>3
      <4>2. f.at <= g.at /\ f.at \in Nat /\ g.at \in Nat
        BY <1>1, <2>4, <4>1
      <4> QED
        BY <3>1, <4>2 DEF AtItsTurn
    <3> QED
      BY <3>2, <3>3
  <2>6. AtItsTurn(f, files) \in SUBSET Files /\ IsFiniteSet(AtItsTurn(f, files))
    <3>1. AtItsTurn(f, files) \in SUBSET files
      BY DEF AtItsTurn, Prunable
    <3> QED
      BY <3>1, FS_Subset
  <2>7. /\ Weight(Prunable(AfterPruning(files))) \in Nat /\ Weight(AtItsTurn(f, files)) \in Nat
        /\ Weight(Prunable(AfterPruning(files))) <= Weight(AtItsTurn(f, files))
    BY <2>5, <2>6, WeightIsMonotone
  <2>8. Quota \in Nat /\ (Quota = 0 \/ Weight(AtItsTurn(f, files)) <= Quota)
    <3>1. Quota \in Nat
      BY ClipStoreAssumption
    <3>2. ~(Quota > 0 /\ Weight(AtItsTurn(f, files)) > Quota)
      BY <1>1, <2>3 DEF OverQuota
    <3> QED
      BY <3>1, <3>2, <2>7
  <2> QED
    BY <1>1, <2>7, <2>8
<1> QED
  BY <1>2, <1>3

Archives ==
  [asked : SUBSET Seconds, left : SUBSET (Seconds \X BOOLEAN), sent : SUBSET Seconds,
   gone : SUBSET Seconds, state : {"none", "sending"}]

\* What an archive was asked for is in it, has gone, or is still to be sent.
ArchiveAddsUp ==
  /\ archive \in Archives
  /\ archive.asked = archive.sent \cup archive.gone \cup {n[1] : n \in archive.left}
  /\ archive.sent \cap archive.gone = {}
  /\ \A n \in archive.left : n[1] \notin archive.sent /\ n[1] \notin archive.gone
  /\ \A n, m \in archive.left : n[1] = m[1] => n = m

ClipsInv ==
  /\ ClipsTypeOK /\ IsFiniteSet(disk) /\ ALockAlwaysFits /\ NoHalfClip
  /\ RetentionIsKept /\ ArchiveAddsUp

LEMMA ClipsDiskStep ==
  ASSUME ClipsInv, [ClipsNext]_clipVars
  PROVE  (ClipsTypeOK /\ IsFiniteSet(disk) /\ ALockAlwaysFits /\ NoHalfClip /\ RetentionIsKept)'
<1> DEFINE Goal == (ClipsTypeOK /\ IsFiniteSet(disk) /\ ALockAlwaysFits /\ NoHalfClip /\ RetentionIsKept)'
<1>0. /\ disk \in SUBSET Files /\ parts \in SUBSET Seconds /\ inUse \in SUBSET Stems(disk)
      /\ second \in 0..LastSecond /\ second \in Nat /\ IsFiniteSet(disk) /\ ClipsAreDistinct(disk)
      /\ NoHalfClip /\ archive.state \in {"none", "sending"}
  BY ClipStoreAssumption DEF ClipsInv, ClipsTypeOK, ALockAlwaysFits, ClipsAreDistinct
<1>1. \* What an action that neither prunes nor adds a clip has to show.
      ASSUME disk' \in SUBSET Files, parts' \in SUBSET Seconds, inUse' \in SUBSET Stems(disk)',
             second' \in 0..LastSecond, archive'.state \in {"none", "sending"}, IsFiniteSet(disk'),
             ClipsAreDistinct(disk'), \A f \in disk' : f.whole, lastDone' \notin {"prune", "save"}
      PROVE  Goal
  BY <1>1 DEF ClipsTypeOK, ALockAlwaysFits, ClipsAreDistinct, NoHalfClip, RetentionIsKept, Pruned
<1>2. \* And one that leaves the disk as it is.
      ASSUME disk' = disk, parts' = parts, inUse' \in SUBSET Stems(disk), second' \in 0..LastSecond,
             archive'.state \in {"none", "sending"}, lastDone' \notin {"prune", "save"}
      PROVE  Goal
  BY <1>0, <1>1, <1>2 DEF Stems, NoHalfClip
<1>3. \* What pruning leaves of some clips.
      ASSUME NEW files \in SUBSET Files, IsFiniteSet(files), ClipsAreDistinct(files),
             \A f \in files : f.whole, inUse \in SUBSET Stems(files), disk' = AfterPruning(files),
             parts' \in SUBSET Swept(parts), UNCHANGED <<second, inUse, archive>>
      PROVE  Goal
  <2>1. disk' \in SUBSET files
    BY <1>3 DEF AfterPruning
  <2>2. IsFiniteSet(disk')
    BY <1>3, <2>1, FS_Subset
  <2>3. inUse' \in SUBSET Stems(disk)'
    <3> SUFFICES ASSUME NEW s \in inUse PROVE s \in Stems(disk)'
      BY <1>3
    <3>1. PICK f \in files : f.at = s
      BY <1>3 DEF Stems
    <3>2. f \in disk'
      BY <1>3, <3>1, PruningSpares
    <3> QED
      BY <3>1, <3>2 DEF Stems
  <2>4. parts' \in SUBSET Seconds /\ \A p \in parts' : second - p <= PartAge
    BY <1>0, <1>3 DEF Swept
  <2>5. ClipsTypeOK'
    BY <1>0, <1>3, <2>1, <2>3, <2>4 DEF ClipsTypeOK
  <2>6. ALockAlwaysFits' /\ NoHalfClip'
    BY <1>3, <2>1 DEF ALockAlwaysFits, NoHalfClip, ClipsAreDistinct
  <2>7. RetentionIsKept'
    <3> DEFINE left == {f \in Prunable(AfterPruning(files)) : f.at \notin inUse}
    <3>1. /\ \A f \in left : ~TooOld(f)
          /\ \/ Quota = 0 \/ Weight(Prunable(AfterPruning(files))) <= Quota
             \/ Cardinality(left) <= 1
      BY <1>3, PruningIsEnough
    <3>2. \A f : TooOld(f)' <=> TooOld(f)
      BY <1>3 DEF TooOld
    <3>3. {f \in Prunable(disk)' : f.at \notin inUse'} = left
      BY <1>3 DEF Prunable
    <3>4. Prunable(disk)' = Prunable(AfterPruning(files))
      BY <1>3 DEF Prunable
    <3>5. Weight(Prunable(disk))' = Weight(Prunable(AfterPruning(files)))
      BY <3>4 DEF Weight
    <3> HIDE DEF left
    <3> QED
      BY <1>3, <2>4, <3>1, <3>2, <3>3, <3>5 DEF RetentionIsKept
  <2> QED
    BY <2>2, <2>5, <2>6, <2>7
<1>4. CASE Prune
  <2>1. Swept(parts) \in SUBSET Swept(parts)
    OBVIOUS
  <2> QED
    BY <1>0, <1>3, <1>4, <2>1 DEF Prune, NoHalfClip
<1>5. CASE SaveRefused
  BY <1>0, <1>2, <1>5 DEF SaveRefused
<1>6. CASE SaveCutShort(second)
  <2>1. NameFor(second) \in Seconds
    BY <1>0, <1>6, NameIsFree, ClipStoreAssumption DEF SaveCutShort, Seconds
  <2>2. disk' = disk /\ parts' = parts \cup {NameFor(second)} /\ inUse' = {} /\ second' = second
        /\ archive' = NoArchive /\ lastDone' = "other"
    BY <1>6 DEF SaveCutShort, UnderItsName
  <2> QED
    BY <1>0, <1>1, <2>1, <2>2 DEF NoArchive, NoHalfClip
<1>7. ASSUME NEW size \in Sizes, NEW kept \in BOOLEAN, SavesClip(second, size, kept) PROVE Goal
  <2> DEFINE name == NameFor(second)
  <2> DEFINE entry == [at |-> name, size |-> size, kept |-> kept, whole |-> TRUE]
  <2>1. name \in Seconds /\ \A f \in disk : f.at # name
    BY <1>0, <1>7, NameIsFree, ClipStoreAssumption DEF SavesClip, Seconds
  <2>2. disk' = AfterPruning(disk \cup {entry}) /\ parts' = Swept(parts \ {name})
        /\ UNCHANGED <<second, inUse, archive>>
    BY <1>7 DEF SavesClip
  <2>3. Swept(parts \ {name}) \in SUBSET Swept(parts)
    BY DEF Swept
  <2> HIDE DEF name
  <2>4. entry \in Files
    BY <2>1 DEF Files
  <2>5. disk \cup {entry} \in SUBSET Files /\ IsFiniteSet(disk \cup {entry})
    BY <1>0, <2>4, FS_AddElement
  <2>6. ClipsAreDistinct(disk \cup {entry}) /\ \A f \in disk \cup {entry} : f.whole
    <3>1. entry.at = name /\ entry.whole
      OBVIOUS
    <3> HIDE DEF entry
    <3> QED
      BY <1>0, <2>1, <3>1 DEF ClipsAreDistinct, NoHalfClip
  <2>7. inUse \in SUBSET Stems(disk \cup {entry})
    BY <1>0 DEF Stems
  <2> HIDE DEF entry
  <2> QED
    BY <1>3, <2>2, <2>3, <2>5, <2>6, <2>7
<1>8. ASSUME NEW s \in Seconds, Exists(s) PROVE Named(s) \in disk /\ Named(s).at = s
  BY <1>8 DEF Exists, Named, Stems
<1>9. ASSUME NEW s \in Seconds, NEW kept \in BOOLEAN, Renames(s, kept) PROVE Goal
  <2> DEFINE old == Named(s)
  <2> DEFINE new == [Named(s) EXCEPT !.kept = kept]
  <2>1. old \in disk /\ old.at = s /\ s \notin inUse
    BY <1>8, <1>9 DEF Renames
  <2>2. /\ disk' = (disk \ {old}) \cup {new} /\ lastDone' = "person"
        /\ UNCHANGED <<second, parts, inUse, archive>>
    BY <1>9 DEF Renames
  <2>3. old \in Files /\ new \in Files /\ new.at = s /\ new.whole = old.whole
    BY <1>0, <2>1 DEF Files
  <2> HIDE DEF old, new
  <2>4. disk' \in SUBSET Files /\ \A f \in disk' : f.whole
    BY <1>0, <2>1, <2>2, <2>3 DEF NoHalfClip
  <2>5. IsFiniteSet(disk')
    BY <1>0, <2>2, FS_RemoveElement, FS_AddElement
  <2>6. ClipsAreDistinct(disk')
    BY <1>0, <2>1, <2>2, <2>3 DEF ClipsAreDistinct
  <2>7. inUse' \in SUBSET Stems(disk)'
    BY <1>0, <2>1, <2>2, <2>3 DEF Stems
  <2> QED
    BY <1>0, <1>1, <2>2, <2>4, <2>5, <2>6, <2>7
<1>10. ASSUME NEW s \in Seconds, Delete(s) PROVE Goal
  <2> DEFINE old == Named(s)
  <2>1. old \in disk /\ old.at = s /\ s \notin inUse
    BY <1>8, <1>10 DEF Delete
  <2>2. /\ disk' = disk \ {old} /\ lastDone' = "person" /\ UNCHANGED <<second, parts, inUse, archive>>
    BY <1>10 DEF Delete
  <2> HIDE DEF old
  <2>3. IsFiniteSet(disk')
    BY <1>0, <2>2, FS_RemoveElement
  <2>4. inUse' \in SUBSET Stems(disk)'
    BY <1>0, <2>1, <2>2 DEF Stems
  <2> QED
    BY <1>0, <1>1, <2>2, <2>3, <2>4 DEF ClipsAreDistinct, NoHalfClip
<1>11. ASSUME NEW s \in Seconds, Opens(s) PROVE Goal
  BY <1>0, <1>2, <1>11 DEF Opens, Exists
<1>12. ASSUME NEW s \in Seconds, Closes(s) PROVE Goal
  BY <1>0, <1>2, <1>12 DEF Closes
<1>13. CASE AsksForArchive
  BY <1>0, <1>2, <1>13 DEF AsksForArchive
<1>14. ASSUME NEW name \in archive.left, ArchiveGoesOn(name) PROVE Goal
  <2>1. archive'.state \in {"none", "sending"}
    BY <1>14 DEF ArchiveGoesOn, GoesOnWithout, ClipsInv, ArchiveAddsUp, Archives
  <2> QED
    BY <1>0, <1>2, <1>14, <2>1 DEF ArchiveGoesOn
<1>15. CASE ArchiveEnds
  BY <1>0, <1>2, <1>15 DEF ArchiveEnds, NoArchive
<1>16. CASE SecondPasses
  <2>1. second' \in 0..LastSecond
    BY <1>0, <1>16, ClipStoreAssumption DEF SecondPasses
  <2> QED
    BY <1>0, <1>2, <1>16, <2>1 DEF SecondPasses
<1>17. CASE UNCHANGED clipVars
  BY <1>17 DEF clipVars, ClipsInv, ClipsTypeOK, ALockAlwaysFits, NoHalfClip, RetentionIsKept,
     Pruned, Prunable, TooOld, Weight, Stems
<1>18. ASSUME NEW s \in Seconds, Keep(s) \/ Release(s) \/ Delete(s) \/ Opens(s) \/ Closes(s)
       PROVE  Goal
  <2>1. CASE Keep(s)
    BY <1>9, <2>1 DEF Keep
  <2>2. CASE Release(s)
    BY <1>9, <2>2 DEF Release
  <2> QED
    BY <1>10, <1>11, <1>12, <1>18, <2>1, <2>2
<1>19. CASE ClipsNext
  BY <1>4, <1>5, <1>6, <1>7, <1>13, <1>14, <1>15, <1>16, <1>18, <1>19 DEF ClipsNext
<1> QED
  BY <1>17, <1>19

LEMMA ArchiveStep ==
  ASSUME ClipsInv, [ClipsNext]_clipVars
  PROVE  ArchiveAddsUp'
<1>1. CASE archive' = archive
  BY <1>1 DEF ClipsInv, ArchiveAddsUp
<1>2. CASE archive' = NoArchive
  BY <1>2 DEF ArchiveAddsUp, NoArchive, Archives
<1>3. CASE AsksForArchive
  <2>1. archive' = [asked |-> Stems(disk), left |-> Names(disk), sent |-> {}, gone |-> {}, state |-> "sending"]
    BY <1>3 DEF AsksForArchive
  <2>2. Stems(disk) \in SUBSET Seconds /\ Names(disk) \in SUBSET (Seconds \X BOOLEAN)
    BY DEF ClipsInv, ClipsTypeOK, Stems, Names, Files
  <2>3. Stems(disk) = {n[1] : n \in Names(disk)}
    <3>1. \A f \in disk : <<f.at, f.kept>>[1] = f.at
      OBVIOUS
    <3> QED
      BY <3>1 DEF Stems, Names
  <2>4. \A n, m \in Names(disk) : n[1] = m[1] => n = m
    BY DEF Names, ClipsInv, ALockAlwaysFits
  <2> QED
    BY <2>1, <2>2, <2>3, <2>4 DEF ArchiveAddsUp, Archives
<1>4. ASSUME NEW name \in archive.left, ArchiveGoesOn(name) PROVE ArchiveAddsUp'
  <2>1. /\ archive \in Archives /\ name \in Seconds \X BOOLEAN
        /\ archive.asked = archive.sent \cup archive.gone \cup {n[1] : n \in archive.left}
        /\ archive.sent \cap archive.gone = {}
        /\ \A n \in archive.left : n[1] \notin archive.sent /\ n[1] \notin archive.gone
        /\ \A n, m \in archive.left : n[1] = m[1] => n = m
    BY DEF ClipsInv, ArchiveAddsUp, Archives
  <2>2. \/ archive' = [archive EXCEPT !.left = @ \ {name}, !.sent = @ \cup {name[1]}]
        \/ archive' = [archive EXCEPT !.left = @ \ {name}, !.gone = @ \cup {name[1]}]
    BY <1>4 DEF ArchiveGoesOn, GoesOnWithout
  <2>3. /\ archive' \in Archives /\ archive'.asked = archive.asked
        /\ archive'.left = archive.left \ {name}
        /\ \/ archive'.sent = archive.sent \cup {name[1]} /\ archive'.gone = archive.gone
           \/ archive'.gone = archive.gone \cup {name[1]} /\ archive'.sent = archive.sent
    <3>1. name[1] \in Seconds
      BY <2>1
    <3>2. CASE archive' = [archive EXCEPT !.left = @ \ {name}, !.sent = @ \cup {name[1]}]
      BY <2>1, <3>1, <3>2 DEF Archives
    <3>3. CASE archive' = [archive EXCEPT !.left = @ \ {name}, !.gone = @ \cup {name[1]}]
      BY <2>1, <3>1, <3>3 DEF Archives
    <3> QED
      BY <2>2, <3>2, <3>3
  <2>4. archive'.asked = archive'.sent \cup archive'.gone \cup {n[1] : n \in archive'.left}
    BY <2>1, <2>3
  <2>5. /\ archive'.sent \cap archive'.gone = {}
        /\ \A n \in archive'.left : n[1] \notin archive'.sent /\ n[1] \notin archive'.gone
        /\ \A n, m \in archive'.left : n[1] = m[1] => n = m
    BY <2>1, <2>3
  <2> QED
    BY <2>3, <2>4, <2>5 DEF ArchiveAddsUp
<1>5. \/ archive' = archive \/ archive' = NoArchive \/ AsksForArchive
      \/ \E name \in archive.left : ArchiveGoesOn(name)
  BY DEF ClipsNext, clipVars, Prune, SaveRefused, SaveCutShort, SavesClip, Keep, Release, Renames,
     Delete, Opens, Closes, ArchiveEnds, SecondPasses
<1> QED
  BY <1>1, <1>2, <1>3, <1>4, <1>5

LEMMA ClipsInductive == ClipsSpec => []ClipsInv
<1>1. ClipsInit => ClipsInv
  BY FS_EmptySet, ClipStoreAssumption DEF ClipsInit, ClipsInv, ClipsTypeOK, ALockAlwaysFits, NoHalfClip,
     RetentionIsKept, Pruned, ArchiveAddsUp, Archives, NoArchive, Seconds, Stems
<1>2. ClipsInv /\ [ClipsNext]_clipVars => ClipsInv'
  BY ClipsDiskStep, ArchiveStep DEF ClipsInv
<1> QED
  BY <1>1, <1>2, PTL DEF ClipsSpec

\* For any quota, age, sizes and number of clips: a name that is free is free with
\* a lock too, no half clip is listed, the retention is kept whatever is being read
\* meanwhile, and an archive lacks only what went (Store.Save, Prune and Keep,
\* apiClipsZip).
THEOREM TheClipsAreKept == ClipsSpec => []ClipsSafety
<1>1. ClipsInv => ClipsSafety
  <2> SUFFICES ASSUME ClipsInv PROVE ClipsSafety
    OBVIOUS
  <2>1. AnArchiveHasTheRest
    BY DEF ClipsInv, ArchiveAddsUp, AnArchiveHasTheRest
  <2> QED
    BY <2>1 DEF ClipsInv, ClipsSafety
<1> QED
  BY <1>1, ClipsInductive, PTL

\* No step of the program takes the newest clip before its time unless there is a
\* newer one, nor a kept one ever (prune).
THEOREM NothingDearGoes == ClipsSpec => NothingDearIsDeleted
<1> DEFINE Spared ==
      \A f \in Prunable(disk) :
        (\A g \in Prunable(disk) : g.at <= f.at) /\ f \notin disk' /\ ~TooOld(f) =>
          lastDone' = "person" \/ \E g \in Prunable(disk') : g.at > f.at
<1> DEFINE Safe == \A f \in disk : f.kept /\ f \notin disk' => lastDone' = "person"
<1>1. ASSUME ClipsInv, [ClipsNext]_clipVars PROVE [Spared]_clipVars /\ [Safe]_clipVars
  <2>0. disk \in SUBSET Files /\ second \in Nat /\ \A f \in disk : f.at \in Nat
    BY <1>1, ClipStoreAssumption DEF ClipsInv, ClipsTypeOK, Files, Seconds
  <2>1. CASE \/ disk' = disk \/ lastDone' = "person"
    BY <2>1 DEF Prunable
  <2>2. CASE Prune
    <3>1. disk' = AfterPruning(disk)
      BY <2>2 DEF Prune
    <3>2. Safe
      BY <3>1, PruningSpares
    <3>3. Spared
      BY <3>1, PruningSpares DEF IsNewest, Prunable
    <3> QED
      BY <3>2, <3>3
  <2>3. ASSUME NEW size \in Sizes, NEW kept \in BOOLEAN, SavesClip(second, size, kept)
        PROVE  Spared /\ Safe
    <3> DEFINE entry == [at |-> NameFor(second), size |-> size, kept |-> kept, whole |-> TRUE]
    <3> DEFINE files == disk \cup {entry}
    <3>1. disk' = AfterPruning(files) /\ NameFor(second) \in Nat /\ NameFor(second) >= second
      BY <2>0, <2>3, NameIsFree, ClipStoreAssumption DEF SavesClip
    <3>2. Safe
      BY <3>1, PruningSpares
    <3>3. Spared
      <4> SUFFICES ASSUME NEW f \in Prunable(disk), \A g \in Prunable(disk) : g.at <= f.at,
                          f \notin disk', ~TooOld(f)
                   PROVE  \E g \in Prunable(disk') : g.at > f.at
        OBVIOUS
      <4>1. f \in files /\ f.at \in Nat
        BY <2>0 DEF Prunable
      <4>2. ~IsNewest(f, files)
        BY <3>1, <4>1, PruningSpares
      <4>3. PICK g \in Prunable(files) : ~(g.at <= f.at)
        BY <4>2 DEF IsNewest
      <4>4. g = entry /\ ~entry.kept /\ entry.at > f.at
        BY <3>1, <4>1, <4>3 DEF Prunable
      <4>5. IsNewest(entry, files)
        <5> SUFFICES ASSUME NEW h \in Prunable(files) PROVE h.at <= entry.at
          BY DEF IsNewest
        <5>1. CASE h = entry
          BY <3>1, <5>1
        <5>2. CASE h # entry
          <6>1. h \in Prunable(disk)
            BY <5>2 DEF Prunable
          <6>2. h.at <= f.at /\ h.at \in Nat
            BY <2>0, <6>1 DEF Prunable
          <6> QED
            BY <3>1, <4>1, <4>4, <6>2
        <5> QED
          BY <5>1, <5>2
      <4>6. ~TooOld(entry)
        BY <2>0, <3>1, ClipStoreAssumption DEF TooOld
      <4>7. entry \in disk'
        <5>1. entry \in files
          OBVIOUS
        <5> HIDE DEF entry, files
        <5> QED
          BY <3>1, <4>5, <4>6, <5>1, PruningSpares
      <4>8. entry \in Prunable(disk')
        BY <4>4, <4>7 DEF Prunable
      <4> QED
        BY <4>4, <4>8
    <3> QED
      BY <3>2, <3>3
  <2>4. \/ disk' = disk \/ lastDone' = "person" \/ Prune
        \/ \E size \in Sizes, kept \in BOOLEAN : SavesClip(second, size, kept)
    BY <1>1 DEF ClipsNext, clipVars, SaveRefused, SaveCutShort, UnderItsName, Keep, Release, Renames,
       Delete, Opens, Closes, AsksForArchive, ArchiveGoesOn, ArchiveEnds, SecondPasses
  <2> QED
    BY <2>1, <2>2, <2>3, <2>4
<1>2. ClipsSpec => [][Spared]_clipVars /\ [][Safe]_clipVars
  <2> HIDE DEF Spared, Safe
  <2> QED
    BY <1>1, ClipsInductive, PTL DEF ClipsSpec
<1> QED
  BY <1>2 DEF NothingDearIsDeleted, TheNewestIsSpared, KeptIsSafe
=============================================================================
