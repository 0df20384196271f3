--------------------------- MODULE StreamHeaders ---------------------------
(***************************************************************************)
(* The headers of the stream: what is read out of them, and what is written*)
(* into them on their way.                                                 *)
(***************************************************************************)
EXTENDS Integers, Sequences, FiniteSets, SequencesExt

(***************************************************************************)
(* The quantiser read out of the bitstream, and the size out of a          *)
(* parameter set: bitReader and SPSSize in internal/media/h264.go, rbsp,   *)
(* ParsePPS and QPSlice in internal/media/qp.go.  What they read is written *)
(* here as the standard writes it (external: the encoder), with whatever   *)
(* the readers do not handle switched on in twos and threes.               *)
(***************************************************************************)
CONSTANTS MaxOdd,      \* features at once that our encoders do not use: a bound
          Quantisers,  \* of the slices written
          InitQPs,     \* of the picture parameter sets
          BlockSizes        \* pictures, in macroblocks

-----------------------------------------------------------------------------
\* The standard's writing.  Bits are a sequence of 0 and 1.

RECURSIVE Bits(_, _)
Bits(v, n) == IF n = 0 THEN <<>> ELSE Append(Bits(v \div 2, n - 1), v % 2)

\* ue(v): as many zeros as v + 1 has bits after its first, then v + 1.
UE(v) == LET n == CHOOSE k \in 0..16 : 2^k <= v + 1 /\ v + 1 < 2^(k + 1)
         IN [i \in 1..n |-> 0] \o Bits(v + 1, n + 1)
SE(v) == UE(IF v > 0 THEN 2 * v - 1 ELSE -(2 * v))
Flag(b) == <<IF b THEN 1 ELSE 0>>

\* What an encoder may turn on, beside the plain P or I slice of a progressive
\* Baseline stream.
Features == {"high", "pocZero", "pocOne", "fields", "cabac", "bottom", "groups", "weighted", "bipred",
             "redundant", "override", "reorder", "marking", "otherPPS", "cut"}

Stream(odd, kind, idr, ref, init, qp, size) ==
  [odd |-> odd, kind |-> kind, idr |-> idr, ref |-> ref, init |-> init, qp |-> qp, size |-> size]

Streams ==
  {s \in {Stream(o, k, i, r, n, q, z) : o \in UNION {kSubset(n, Features) : n \in 0..MaxOdd}, k \in {"P", "B", "I"},
          i \in BOOLEAN, r \in BOOLEAN, n \in InitQPs, q \in Quantisers, z \in BlockSizes} :
     /\ s.idr => s.kind = "I" /\ s.ref
     /\ ~({"pocZero", "pocOne"} \subseteq s.odd)}

On(s, f) == f \in s.odd

SPSBits(s) ==
  Bits(IF On(s, "high") THEN 100 ELSE 66, 8) \o Bits(0, 16) \o UE(0)
  \o (IF On(s, "high") THEN UE(1) \o UE(0) \o UE(0) \o <<0, 0>> ELSE <<>>)
  \o UE(0)
  \o (CASE On(s, "pocZero") -> UE(0) \o UE(0)
        [] On(s, "pocOne") -> UE(1) \o <<0>> \o SE(0) \o SE(1) \o UE(1) \o SE(2)
        [] OTHER -> UE(2))
  \o UE(1) \o <<0>> \o UE(s.size[1] - 1) \o UE(s.size[2] - 1)
  \o (IF On(s, "fields") THEN <<0, 0>> ELSE <<1>>) \o <<1>>
  \o <<1>> \o UE(0) \o UE(1) \o UE(0) \o UE(2)                     \* cropped by 2 across and 4 down
  \o <<0>>

PPSBits(s) ==
  UE(0) \o UE(0) \o Flag(On(s, "cabac")) \o Flag(On(s, "bottom"))
  \o (IF On(s, "groups") THEN UE(1) \o UE(0) \o UE(3) \o UE(4) ELSE UE(0))
  \o UE(0) \o UE(0) \o Flag(On(s, "weighted")) \o Bits(IF On(s, "bipred") THEN 1 ELSE 0, 2)
  \o SE(s.init - 26) \o SE(0) \o SE(0) \o <<0, 0>> \o Flag(On(s, "redundant"))

SliceBits(s) ==
  LET p == s.kind = "P"  b == s.kind = "B" IN
  UE(0) \o UE(CASE p -> 5 [] b -> 1 [] OTHER -> 7) \o UE(IF On(s, "otherPPS") THEN 1 ELSE 0) \o Bits(3, 4)
  \o (IF On(s, "fields") THEN <<1, 0>> ELSE <<>>)
  \o (IF s.idr THEN UE(1) ELSE <<>>)
  \o (IF On(s, "pocZero") THEN Bits(9, 4) \o (IF On(s, "bottom") /\ ~On(s, "fields") THEN SE(-1) ELSE <<>>) ELSE <<>>)
  \o (IF On(s, "pocOne") THEN SE(1) \o (IF On(s, "bottom") /\ ~On(s, "fields") THEN SE(0) ELSE <<>>) ELSE <<>>)
  \o (IF On(s, "redundant") THEN UE(0) ELSE <<>>)
  \o (IF b THEN <<1>> ELSE <<>>)
  \o (IF p \/ b THEN IF On(s, "override") THEN <<1>> \o UE(2) \o (IF b THEN UE(1) ELSE <<>>) ELSE <<0>> ELSE <<>>)
  \o (IF p \/ b THEN IF On(s, "reorder") THEN <<1>> \o UE(0) \o UE(4) \o UE(3) ELSE <<0>> ELSE <<>>)
  \o (IF b THEN <<0>> ELSE <<>>)
  \o (IF (On(s, "weighted") /\ p) \/ (On(s, "bipred") /\ b) THEN UE(1) \o UE(0) \o <<0, 0>> ELSE <<>>)
  \o (IF ~s.ref THEN <<>>
      ELSE IF s.idr THEN <<0, 0>>
      ELSE IF On(s, "marking") THEN <<1>> \o UE(1) \o UE(2) \o UE(3) \o UE(1) \o UE(5) \o UE(0) ELSE <<0>>)
  \o (IF On(s, "cabac") /\ s.kind # "I" THEN UE(0) ELSE <<>>)
  \o SE(s.qp - s.init)

\* A header that the access unit cuts short.
Shortened(bits, isCut) == IF isCut THEN SubSeq(bits, 1, Len(bits) - 1) ELSE bits
Arrived(s) == Shortened(SliceBits(s), On(s, "cut"))

-----------------------------------------------------------------------------
\* bitReader: what is read is in v, pos bits have been, and err stays.

Reader(b) == [b |-> b, pos |-> 0, v |-> 0, err |-> FALSE]

Bit(r) ==
  IF r.pos >= Len(r.b) THEN [r EXCEPT !.v = 0, !.err = TRUE]
  ELSE [r EXCEPT !.v = r.b[r.pos + 1], !.pos = @ + 1]

\* The bits before it are in high, and one more is read.
OneMore(high, low) == IF high.err THEN high ELSE [low EXCEPT !.v = high.v * 2 + @]

RECURSIVE ReadBits(_, _)
ReadBits(r, n) ==
  IF n = 0 THEN [r EXCEPT !.v = 0] ELSE LET high == ReadBits(r, n - 1) IN OneMore(high, Bit(high))

RECURSIVE Zeros(_, _)
ZeroOrEnd(b, n) ==
  IF b.err \/ b.v = 1 THEN [b EXCEPT !.v = n]
  ELSE IF n + 1 > 31 THEN [b EXCEPT !.err = TRUE] ELSE Zeros(b, n + 1)
Zeros(r, n) == ZeroOrEnd(Bit(r), n)

AfterZeros(z, failed) ==
  IF failed \/ z.err THEN [z EXCEPT !.v = 0, !.err = TRUE]
  ELSE [ReadBits(z, z.v) EXCEPT !.v = 2^(z.v) - 1 + @]
ReadUE(r) == AfterZeros(Zeros(r, 0), r.err)

ReadSE(r) == [ReadUE(r) EXCEPT !.v = IF @ % 2 = 0 THEN -(@ \div 2) ELSE (@ + 1) \div 2]

\* Fields one after the other: ue(v), se(v), or so many bits; got is what they said.
Ue == 0
Se == -1
ReadField(r, kind) == CASE kind = Ue -> ReadUE(r) [] kind = Se -> ReadSE(r) [] OTHER -> ReadBits(r, kind)
Kept(got, r) == [r |-> r, got |-> Append(got, r.v)]
Fields(r, kinds) ==
  FoldLeft(LAMBDA f, kind : Kept(f.got, ReadField(f.r, kind)), [r |-> r, got |-> <<>>], kinds)

\* A field that is there only sometimes.
UEIf(there, r) == IF there THEN ReadUE(r) ELSE r
BitIf(there, r) == IF there THEN Bit(r) ELSE r

RECURSIVE Skips(_, _)
\* The fields of which nothing is kept: so many ue(v).
Skips(r, n) == IF n = 0 THEN r ELSE Skips(ReadUE(r), n - 1)

Refused == [ok |-> FALSE, qp |-> 0]
HighProfiles == {100, 110, 122, 244, 44, 83, 86, 118, 128, 138, 139, 134, 135}
NoInfo == [ok |-> FALSE, id |-> 0, init |-> 0, redundant |-> FALSE, bottom |-> FALSE, frameNum |-> 0, lsb |-> 0, poc |-> 0]

\* ParsePPS.  Each refusal is of something that would move the fields after it.
InterlacedIsRead(frameMBsOnly) == FALSE                            \* mutant
Interlaced(frameMBsOnly) == frameMBsOnly = 0

\* Of the sequence's set: the profile, the counts and what becomes of the order.
AfterOrder(r, poc) == Fields(UEIf(poc = 0, r), <<Ue, 1, Ue, Ue, 1>>)

Understood(profile, frameNum, poc, order, sps, pps) ==
  /\ profile \notin HighProfiles
  /\ frameNum <= 12 /\ poc \in {0, 2} /\ (poc = 0 => order.v <= 12)
  /\ ~sps.r.err /\ ~Interlaced(sps.got[5])
  /\ pps.got[3] = 0 /\ pps.got[5] = 0 /\ pps.got[8] = 0 /\ pps.got[9] = 0
  /\ ~pps.r.err /\ 26 + pps.got[10] \in 0..51

Info(frameNum, poc, order, pps) ==
  [ok |-> TRUE, id |-> pps[1], init |-> pps[10], redundant |-> pps[15] = 1, bottom |-> pps[4] = 1,
   frameNum |-> frameNum + 4, lsb |-> IF poc = 0 THEN order.v + 4 ELSE 0, poc |-> poc]

InfoOf(start, pps) ==
  LET order == ReadUE(start.r)
      said == start.got
  IN IF Understood(said[1], said[4], said[5], order, AfterOrder(start.r, said[5]), pps)
       THEN Info(said[4], said[5], order, pps.got) ELSE NoInfo

ParsePPS(sps, pps) ==
  InfoOf(Fields(Reader(sps), <<8, 16, Ue, Ue, Ue>>),
         Fields(Reader(pps), <<Ue, Ue, 1, 1, Ue, Ue, Ue, 1, 2, Se, Se, Se, 1, 1, 1>>))

\* The lists of operations, each with its operands, up to the one that ends
\* them; an operation that is not known, or too many of them, is a refusal.
RECURSIVE Reorders(_, _)
Reorders(r, n) ==
  LET op == ReadUE(r)
  IN IF op.v = 3 /\ ~op.err THEN op
     ELSE IF n = 0 \/ op.v > 3 THEN [op EXCEPT !.err = TRUE] ELSE Reorders(ReadUE(op), n - 1)

Operands(op) == CASE op = 5 -> 0 [] op = 3 -> 2 [] OTHER -> 1
RECURSIVE Marks(_, _)
Marks(r, n) ==
  LET op == ReadUE(r)
  IN IF op.v = 0 /\ ~op.err THEN op
     ELSE IF n = 0 \/ op.v > 6 THEN [op EXCEPT !.err = TRUE] ELSE Marks(Skips(op, Operands(op.v)), n - 1)

\* QPSlice.
Known(type) == type % 5 # 1

OverrideIsSkipped(r, type) == r                                    \* mutant
Overrides(r, type) ==
  IF type % 5 \notin {0, 3} THEN r ELSE LET f == Bit(r) IN IF f.v = 1 THEN ReadUE(f) ELSE f

OrderCount(info, r) ==
  IF info.poc # 0 THEN r
  ELSE LET lsb == ReadBits(r, info.lsb) IN IF info.bottom THEN ReadSE(lsb) ELSE lsb
RefList(r, type) ==
  IF type % 5 \in {2, 4} THEN r ELSE LET f == Bit(r) IN IF f.v = 1 THEN Reorders(f, 63) ELSE f
Marking(r, isIDR, isRef) ==
  IF ~isRef THEN r
  ELSE IF isIDR THEN ReadBits(r, 2)
  ELSE LET adaptive == Bit(r) IN IF adaptive.v = 1 THEN Marks(adaptive, 63) ELSE adaptive

\* What comes after the picture's parameter set is named, up to the quantiser.
DeltaOf(info, type, r, isIDR, isRef) ==
  LET order == OrderCount(info, UEIf(isIDR, ReadBits(r, info.frameNum)))
      override == Overrides(UEIf(info.redundant, order), type)
  IN ReadSE(Marking(RefList(override, type), isIDR, isRef))

QPFrom(info, type, id, delta) ==
  IF info.ok /\ Known(type) /\ id = info.id /\ ~delta.err /\ 26 + info.init + delta.v \in 0..51
    THEN [ok |-> TRUE, qp |-> 26 + info.init + delta.v] ELSE Refused

QPSlice(info, bits, isIDR, isRef) ==
  LET start == Fields(Reader(bits), <<Ue, Ue, Ue>>)
  IN QPFrom(info, start.got[2], start.got[3], DeltaOf(info, start.got[2], start.r, isIDR, isRef))

\* SPSSize, on the same set.  The high profiles have fields of their own
\* first, the last of which says that scaling matrices follow.
AllAreAlike(profile) == FALSE                                      \* mutant
IsHigh(profile) == profile \in HighProfiles

HighFields(r) ==
  LET chroma == ReadUE(r) IN Fields(BitIf(chroma.v = 3, chroma), <<Ue, Ue, 1, 1>>)
PastOrderCount(poc) ==
  LET cycle == Fields(poc, <<1, Se, Se, Ue>>)
  IN CASE poc.v = 0 -> ReadUE(poc) [] poc.v = 1 -> Skips(cycle.r, cycle.got[4]) [] OTHER -> poc

\* The size in blocks, the flags, and the cropping.
Cropping(only) == Fields(BitIf(only.v = 0, only), <<1, 1, Ue, Ue, Ue, Ue>>)
SizeFrom(w, h, progressive, crop) ==
  LET cropped == crop.got[2] = 1
  IN <<16 * (w + 1) - (IF cropped THEN 2 * (crop.got[3] + crop.got[4]) ELSE 0),
       (IF progressive THEN 1 ELSE 2) * 16 * (h + 1) - (IF cropped THEN 2 * (crop.got[5] + crop.got[6]) ELSE 0)>>
SizeWith(size, flags, crop) ==
  IF flags.r.err \/ (crop.got[2] = 1 /\ crop.r.err) THEN <<0, 0>>
  ELSE SizeFrom(size.got[3], size.got[4], size.got[5] = 1, crop)
Cropped(size) == SizeWith(size, Fields(BitIf(size.r.v = 0, size.r), <<1, 1>>), Cropping(size.r))
SizeAfter(past) == Cropped(Fields(past, <<Ue, 1, Ue, Ue, 1>>))

SPSSize(sps) ==
  LET start == Fields(Reader(sps), <<8, 16, Ue>>)
      high == HighFields(start.r)
      isHigh == IsHigh(start.got[1])
  IN IF isHigh /\ high.got[4] = 1 THEN <<0, 0>>
     ELSE SizeAfter(PastOrderCount(Fields(IF isHigh THEN high.r ELSE start.r, <<Ue, Ue>>).r))

-----------------------------------------------------------------------------
\* rbsp, over bytes: what the encoder put in so that no start code appears
\* inside a NAL is taken out.

RECURSIVE Protected(_, _)
\* The encoder: after two zeros, a three goes before a byte that is at most 3.
Protected(b, zeros) ==
  IF b = <<>> THEN <<>>
  ELSE IF zeros = 2 /\ Head(b) <= 3 THEN <<3>> \o Protected(b, 0)
  ELSE <<Head(b)>> \o Protected(Tail(b), IF Head(b) = 0 THEN zeros + 1 ELSE 0)

EveryThreeAfterZeros(zeros) == 0 + zeros                           \* mutant
AfterTheThree(zeros) == 0

RBSP(b) ==
  FoldLeft(LAMBDA r, x : IF r.zeros >= 2 /\ x = 3 THEN [r EXCEPT !.zeros = AfterTheThree(r.zeros)]
                         ELSE [out |-> Append(r.out, x), zeros |-> IF x = 0 THEN r.zeros + 1 ELSE 0],
           [out |-> <<>>, zeros |-> 0], b).out

-----------------------------------------------------------------------------
VARIABLES written,  \* the stream under the reader
          raw,      \* a NAL's bytes before they are protected
          isRead    \* the readers have had them

headerVars == <<written, raw, isRead>>

Raws == UNION {[1..n -> {0, 3, 5}] : n \in 0..5}

PlainStream == CHOOSE s \in Streams : s.odd = {}

HeaderInit ==
  /\ \/ written \in Streams /\ raw = <<>>
     \/ written = PlainStream /\ raw \in Raws
  /\ isRead = FALSE

HeaderNext == ~isRead /\ isRead' = TRUE /\ UNCHANGED <<written, raw>>

Answer == QPSlice(ParsePPS(SPSBits(written), PPSBits(written)), Arrived(written), written.idr, written.ref)

-----------------------------------------------------------------------------
\* A quantiser that is read is the one that the slice was written with: what
\* the reader does not know it refuses, whatever fields it moves, and never
\* answers a plausible and wrong number.
NeverPlausibleAndWrong == isRead => Answer \in {Refused, [ok |-> TRUE, qp |-> written.qp]}

\* What our encoders write is read: the P and I slices of a progressive
\* Baseline stream, with any of the lists that it may carry.
Ours == {"pocZero", "bottom", "redundant", "override", "reorder", "marking"}
OurStreamIsRead == isRead /\ written.kind # "B" /\ written.odd \subseteq Ours => Answer.ok

\* The size is the progressive picture's, cropping accounted for, in every
\* profile and with every order of presentation.
TheSizeIsThePictures ==
  isRead /\ ~On(written, "fields") =>
    SPSSize(SPSBits(written)) = <<16 * written.size[1] - 2, 16 * written.size[2] - 4>>

\* Taking the protection out gives back the NAL, byte for byte.
ProtectionComesOut == isRead => RBSP(Protected(raw, 0)) = raw

-----------------------------------------------------------------------------
(***************************************************************************)
(* What the stream announces: PatchConstrainedBaseline, MinLevelIDC and    *)
(* PatchLevel in internal/media/h264.go, done on every SPS that goes by.   *)
(* The level is worked out once, when the capture starts, and the scale    *)
(* and the bitrate change afterwards.                                      *)
(***************************************************************************)
CONSTANTS Pictures,   \* <<width, height, frames a second>> of the presets
          Rates,      \* kbit/s of the presets
          Declared    \* levels that encoders declare

\* levelLimits: the level, macroblocks a second, a picture, kbit/s.
LevelLimits == <<
  <<10, 1485, 99, 64>>, <<11, 3000, 396, 192>>, <<12, 6000, 396, 384>>, <<13, 11880, 396, 768>>,
  <<20, 11880, 396, 2000>>, <<21, 19800, 792, 4000>>, <<22, 20250, 1620, 4000>>, <<30, 40500, 1620, 10000>>,
  <<31, 108000, 3600, 14000>>, <<32, 216000, 5120, 20000>>, <<40, 245760, 8192, 20000>>,
  <<41, 245760, 8192, 50000>>, <<42, 522240, 8704, 50000>>, <<50, 589824, 22080, 135000>>,
  <<51, 983040, 36864, 240000>> >>

RoundedDown(pixels) == pixels \div 16                              \* mutant
Blocks(pixels) == (pixels + 15) \div 16

MinLevelIDC(p, kbps) ==
  LET size == Blocks(p[1]) * Blocks(p[2])
      fits(l) == size <= l[3] /\ size * p[3] <= l[2] /\ kbps <= l[4]
      of == {i \in DOMAIN LevelLimits : fits(LevelLimits[i])}
  IN IF of = {} THEN 51 ELSE LevelLimits[CHOOSE i \in of : \A j \in of : i <= j][1]

\* PatchLevel: only ever down.
AsDeclared(level, target) == IF target = 0 THEN target ELSE level   \* mutant
PatchLevel(level, target) == IF target = 0 \/ level <= target THEN level ELSE target

\* PatchConstrainedBaseline: profile 66 with its three flags.
PatchProfile(sps) == IF sps.profile = 66 THEN [sps EXCEPT !.flags = {0, 1, 2}] ELSE sps

VARIABLES
  opened,    \* the session's format and bitrate, when it started
  shown,    \* the format and the bitrate now
  enc       \* the SPS as the encoder writes it

levelVars == <<opened, shown, enc>>

\* The capture gives a picture at its start, and smaller ones and slower ones
\* later: never more than at the start, and never more bits than the preset.
Smaller(p, q) == p[1] <= q[1] /\ p[2] <= q[2] /\ p[3] <= q[3]
LevelsInit ==
  /\ opened \in [picture : Pictures, kbps : Rates] /\ shown = opened
  /\ enc \in [profile : {66, 100}, flags : {{}, {0, 1, 2}}, level : Declared]
Rescales ==
  /\ \E p \in Pictures, r \in Rates :
       Smaller(p, opened.picture) /\ r <= opened.kbps /\ shown' = [picture |-> p, kbps |-> r]
  /\ UNCHANGED <<opened, enc>>
LevelsNext == Rescales

Announced == [PatchProfile(enc) EXCEPT !.level = PatchLevel(@, MinLevelIDC(opened.picture, opened.kbps))]

Limits(level) == CHOOSE l \in {LevelLimits[i] : i \in DOMAIN LevelLimits} : l[1] = level

\* A decoder is never told a level that its picture is beyond, unless the
\* encoder itself said so or no level holds it: also after the scale moved.
ThePictureFitsTheLevel ==
  LET level == Announced.level
      said == Limits(level)
      pixels == shown.picture[1] * shown.picture[2]
      isOurs == level < enc.level /\ MinLevelIDC(opened.picture, opened.kbps) # 51
  IN isOurs => /\ pixels <= said[3] * 256 /\ pixels * shown.picture[3] <= said[2] * 256
               /\ shown.kbps <= said[4]

\* Nor a level higher than it must be: a browser refuses a stream for that.
NoLevelIsTooHigh ==
  LET level == Announced.level
      size == opened.picture[1] * opened.picture[2]
      whole == opened.picture[1] % 16 = 0 /\ opened.picture[2] % 16 = 0
  IN whole => \A i \in DOMAIN LevelLimits :
       LET l == LevelLimits[i]
       IN l[1] < level =>
            \/ size > l[3] * 256 \/ size * opened.picture[3] > l[2] * 256 \/ opened.kbps > l[4]

-----------------------------------------------------------------------------
\* The headers together: what is read is right or is not read, our own stream is
\* read, and the level announced fits the picture and is not above the declared.
HeadersSafety ==
  /\ NeverPlausibleAndWrong /\ OurStreamIsRead /\ TheSizeIsThePictures /\ ProtectionComesOut
  /\ ThePictureFitsTheLevel /\ NoLevelIsTooHigh
=============================================================================
