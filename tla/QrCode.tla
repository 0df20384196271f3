------------------------------- MODULE QrCode -------------------------------
(***************************************************************************)
(* internal/qr: a text becomes a square of dark modules, in one slice of   *)
(* the standard: bytes, correction level M, versions 1 to 6.  Each of the  *)
(* eight masks is drawn in full, and the one of least penalty is kept.     *)
(*                                                                         *)
(* A byte is the set of its bits that are one, and a matrix the set of its *)
(* dark modules.  The SVG is left out: it is the same set, written down.   *)
(***************************************************************************)
EXTENDS Integers, Sequences, FiniteSets
LOCAL INSTANCE SequencesExt

CONSTANTS Lengths    \* the lengths of the texts to be drawn

ASSUME QrAssumption == Lengths \subseteq Nat

Versions == <<[blocks |-> 1, data |-> 16, ec |-> 10], [blocks |-> 1, data |-> 28, ec |-> 16],
              [blocks |-> 1, data |-> 44, ec |-> 26], [blocks |-> 2, data |-> 32, ec |-> 18],
              [blocks |-> 2, data |-> 43, ec |-> 24], [blocks |-> 4, data |-> 27, ec |-> 16]>>
Capacity(v) == Versions[v].blocks * Versions[v].data
SizeOf(v) == 17 + (4 * v)

\* Some text of that many bytes.
TextOf(n) == [i \in 1..n |-> ((37 * i) + (11 * n)) % 256]

-----------------------------------------------------------------------------
\* pickVersion: the mode and the count take twelve bits, and so two bytes.
Header == 2

Fitting(n) == {v \in DOMAIN Versions : n <= Capacity(v) - Header}
VersionFor(n) == CHOOSE v \in Fitting(n) : \A w \in Fitting(n) : v <= w

Bits(value, width) == [i \in 1..width |-> (value \div (2 ^ (width - i))) % 2 = 1]
NoBits(n) == [i \in 1..n |-> FALSE]
Lesser(a, b) == IF a < b THEN a ELSE b
BytesOf(bits) ==
  [k \in 1..(Len(bits) \div 8) |-> {b \in 0..7 : bits[(8 * k) - b]}]

\* encodeBytes: the mode, the count, the text, the terminator, and padding.
Codewords(text, total) ==
  LET said == Bits(4, 4) \o Bits(Len(text), 8) \o FlattenSeq([i \in DOMAIN text |-> Bits(text[i], 8)])
      ended == said \o NoBits(IF Len(said) < 8 * total THEN Lesser(4, (8 * total) - Len(said)) ELSE 0)
      whole == BytesOf(ended \o NoBits((8 - (Len(ended) % 8)) % 8))
  IN whole \o BytesOf(FlattenSeq([i \in 1..(total - Len(whole)) |-> Bits(IF i % 2 = 1 THEN 236 ELSE 17, 8)]))

-----------------------------------------------------------------------------
\* The field of 256 bytes: addition is the difference of two sets, and the powers
\* of 2 are all the bytes but zero.

Xor(a, b) == (a \ b) \cup (b \ a)
Doubled(a) == LET s == {i + 1 : i \in a} IN IF 8 \in s THEN Xor(s, {8, 4, 3, 2, 0}) ELSE s
Powers == FoldLeft(LAMBDA powers, i : Append(powers, Doubled(powers[i])), <<{0}>>, [i \in 1..254 |-> i])
Exp(i) == Powers[(i % 255) + 1]
Log(a) == (CHOOSE i \in 1..255 : Powers[i] = a) - 1
Mul(a, b) == IF a = {} \/ b = {} THEN {} ELSE Exp(Log(a) + Log(b))

\* generator: the product of x - 2^i, the greatest degree first.
RootFromOne(i) == i + 1                                            \* mutant
Root(i) == i

TimesRoot(g, i) ==
  [j \in DOMAIN g |-> Xor(g[j], IF j > 1 THEN Mul(g[j - 1], Exp(Root(i))) ELSE {})] \o <<Mul(g[Len(g)], Exp(Root(i)))>>
Generator(n) == FoldLeft(TimesRoot, <<{0}>>, [i \in 1..n |-> i - 1])

\* reedSolomon: what is left of the data when the generator has divided it.
Divided(gen, rem, d) ==
  LET f == Xor(d, rem[1])
  IN Tail([i \in DOMAIN gen |-> Xor(IF i <= Len(rem) THEN rem[i] ELSE {}, Mul(gen[i], f))])
ReedSolomon(data, gen) == FoldLeft(LAMBDA rem, d : Divided(gen, rem, d), [i \in 1..(Len(gen) - 1) |-> {}], data)

\* splitAndCorrect and interleave: the blocks' first codewords, then the second ones.
InBlocks(data, v) ==
  [b \in 1..Versions[v].blocks |-> SubSeq(data, ((b - 1) * Versions[v].data) + 1, b * Versions[v].data)]
OneByOne(blocks, n) == FlattenSeq(blocks)                          \* mutant
ByTurns(blocks, n) == FlattenSeq([i \in 1..n |-> [b \in DOMAIN blocks |-> blocks[b][i]]])

StreamOf(text, v) ==
  LET blocks == InBlocks(Codewords(text, Capacity(v)), v)
      ec == [b \in DOMAIN blocks |-> ReedSolomon(blocks[b], Generator(Versions[v].ec))]
  IN ByTurns(blocks, Versions[v].data) \o ByTurns(ec, Versions[v].ec)

-----------------------------------------------------------------------------
\* The matrix: what is the same in every code of a version, and is taken.

Square(n) == (0..(n - 1)) \X (0..(n - 1))
Away(p, x, y) == <<p[1] - x, p[2] - y>>
Abs(n) == IF n < 0 THEN 0 - n ELSE n
RingOf(d) == IF Abs(d[1]) > Abs(d[2]) THEN Abs(d[1]) ELSE Abs(d[2])

\* Three finders with the light around them, two timing lines, an alignment pattern
\* from version 2, the dark module, and the room for the format.
Centres(size) == {<<3, 3>>, <<size - 4, 3>>, <<3, size - 4>>}
InFinder(p, size) == \E c \in Centres(size) : RingOf(Away(p, c[1], c[2])) <= 4
IsFinderDark(p, size) == \E c \in Centres(size) : RingOf(Away(p, c[1], c[2])) \in {0, 1, 3}
OnTiming(p) == p[1] = 6 \/ p[2] = 6
InAlignment(p, v) == v > 1 /\ RingOf(Away(p, SizeOf(v) - 7, SizeOf(v) - 7)) <= 2
ForFormat(p, size) ==
  \/ p[1] = 8 /\ (p[2] <= 8 \/ p[2] >= size - 8)
  \/ p[2] = 8 /\ (p[1] <= 8 \/ p[1] >= size - 8)
DarkModule(size) == <<8, size - 8>>

Taken(v) == {p \in Square(SizeOf(v)) : InFinder(p, SizeOf(v)) \/ OnTiming(p) \/ InAlignment(p, v) \/ ForFormat(p, SizeOf(v))}
Drawn(v) ==
  {p \in Taken(v) :
     \/ IsFinderDark(p, SizeOf(v))
     \/ OnTiming(p) /\ ~InFinder(p, SizeOf(v)) /\ (p[1] + p[2]) % 2 = 0
     \/ InAlignment(p, v) /\ RingOf(Away(p, SizeOf(v) - 7, SizeOf(v) - 7)) # 1
     \/ p = DarkModule(SizeOf(v))}

\* writeFormat: level M and the mask, ten bits of check, a fixed mask; twice.
FormatBits(mask) ==
  LET data == {10 + i : i \in {b \in 0..2 : Bits(mask, 3)[3 - b]}}
      Reduced(rem, i) == IF i \in rem THEN Xor(rem, {j + i - 10 : j \in {10, 8, 5, 4, 2, 1, 0}}) ELSE rem
      rem == FoldLeft(Reduced, data, <<14, 13, 12, 11, 10>>)
  IN Xor(data \cup rem, {14, 12, 10, 4, 1})

FirstCopy(i) == CASE i <= 5 -> <<8, i>> [] i = 6 -> <<8, 7>> [] i = 7 -> <<8, 8>> [] i = 8 -> <<7, 8>> [] OTHER -> <<14 - i, 8>>
OneTooFar(i, size) == IF i < 7 THEN <<size - 1 - i, 8>> ELSE <<8, size - 15 + i>>   \* mutant
SecondCopy(i, size) == IF i <= 7 THEN <<size - 1 - i, 8>> ELSE <<8, size - 15 + i>>

FormatModules(size) == {FirstCopy(i) : i \in 0..14} \cup {SecondCopy(i, size) : i \in 0..14}
FormatDrawn(mask, size) == {FirstCopy(i) : i \in FormatBits(mask)} \cup {SecondCopy(i, size) : i \in FormatBits(mask)}

\* writeData: the serpentine, two columns at a time, the timing column skipped.
GoesUp(pair) == pair % 2 = 0

Serpentine(size) ==
  [k \in 1..((size - 1) * size) |->
    LET pair == (k - 1) \div (2 * size)
        i == ((k - 1) % (2 * size)) \div 2
        right == IF size - 1 - (2 * pair) > 6 THEN size - 1 - (2 * pair) ELSE size - 2 - (2 * pair)
    IN <<right - ((k - 1) % 2), IF GoesUp(pair) THEN size - 1 - i ELSE i>>]
Free(v) == LET taken == Taken(v) IN SelectSeq(Serpentine(SizeOf(v)), LAMBDA p : p \notin taken)

MaskAt(n, x, y) ==
  CASE n = 0 -> (x + y) % 2 = 0 [] n = 1 -> y % 2 = 0 [] n = 2 -> x % 3 = 0 [] n = 3 -> (x + y) % 3 = 0
    [] n = 4 -> ((y \div 2) + (x \div 3)) % 2 = 0
    [] n = 5 -> ((x * y) % 2) + ((x * y) % 3) = 0
    [] n = 6 -> (((x * y) % 2) + ((x * y) % 3)) % 2 = 0
    [] OTHER -> (((x + y) % 2) + ((x * y) % 3)) % 2 = 0

StreamBit(stream, n) == n <= 8 * Len(stream) /\ (7 - ((n - 1) % 8)) \in stream[((n - 1) \div 8) + 1]
DataDrawn(stream, free, mask) ==
  {free[n] : n \in {m \in DOMAIN free : StreamBit(stream, m) # MaskAt(mask, free[m][1], free[m][2])}}

MatrixOf(stream, v, mask) ==
  (Drawn(v) \ FormatModules(SizeOf(v))) \cup FormatDrawn(mask, SizeOf(v)) \cup DataDrawn(stream, Free(v), mask)

-----------------------------------------------------------------------------
\* penalty: runs, blocks of four, look-alikes of a finder, and the balance.

Line(dark, size, k, across) == [i \in 1..size |-> (IF across THEN <<i - 1, k>> ELSE <<k, i - 1>>) \in dark]
\* A run of five or more is worth its length less two: one for each five in a row,
\* and two for the run.
RunPenalty(line) ==
  LET fives == {i \in 1..(Len(line) - 4) : \A m \in 1..4 : line[i + m] = line[i]}
  IN Cardinality(fives) + (2 * Cardinality({i \in fives : i - 1 \notin fives}))

LookAlikes == {<<TRUE, FALSE, TRUE, TRUE, TRUE, FALSE, TRUE, FALSE, FALSE, FALSE, FALSE>>,
               <<FALSE, FALSE, FALSE, FALSE, TRUE, FALSE, TRUE, TRUE, TRUE, FALSE, TRUE>>}
LastStartDown(size) == size - 12                                   \* mutant
LastStart(size) == size - 10

LookAlikePenalty(line, across) ==
  40 * Cardinality({i \in 1..(IF across THEN Len(line) - 10 ELSE LastStart(Len(line))) : SubSeq(line, i, i + 10) \in LookAlikes})

LinesPenalty(dark, size) ==
  FoldLeft(LAMBDA a, k :
      LET row == Line(dark, size, k, TRUE)  column == Line(dark, size, k, FALSE) IN
      a + RunPenalty(row) + RunPenalty(column) + LookAlikePenalty(row, TRUE) + LookAlikePenalty(column, FALSE),
    0, [k \in 1..size |-> k - 1])
FoursPenalty(dark, size) ==
  3 * Cardinality({p \in Square(size - 1) :
        Cardinality({q \in {p, <<p[1] + 1, p[2]>>, <<p[1], p[2] + 1>>, <<p[1] + 1, p[2] + 1>>} : q \in dark}) \in {0, 4}})
BalancePenalty(dark, size) ==
  LET percent == (Cardinality(dark) * 100) \div (size * size)
      below == (percent \div 5) * 5
  IN 10 * Lesser(Abs(below - 50) \div 5, Abs(below - 45) \div 5)

Penalty(dark, size) == LinesPenalty(dark, size) + FoursPenalty(dark, size) + BalancePenalty(dark, size)

-----------------------------------------------------------------------------
VARIABLES text, version,   \* the text to draw, and its version; 0 when it is refused
          stream,          \* the codewords, in the order they are written
          mask, matrix,    \* the mask being tried, and the code drawn with it
          best, penalties  \* the mask kept so far; history: what each was worth

qrVars == <<text, version, stream, mask, matrix, best, penalties>>

QrInit ==
  /\ \E n \in Lengths : text = TextOf(n)
  /\ version = 0 /\ stream = <<>> /\ mask = 0 - 1 /\ matrix = {} /\ best = 0 - 1 /\ penalties = <<>>

\* Encode: the text that fits no version is refused, never cut.
Encodes ==
  /\ version = 0 /\ Fitting(Len(text)) # {}
  /\ version' = VersionFor(Len(text)) /\ \E s \in {StreamOf(text, version')} : stream' = s
  /\ UNCHANGED <<text, mask, matrix, best, penalties>>

KeepsTheFirst(value) == best < 0                                   \* mutant
IsBetter(value) == best < 0 \/ value < penalties[best + 1]

Tries ==
  /\ version > 0 /\ mask < 7 /\ mask' = mask + 1
  /\ \E drawn \in {MatrixOf(stream, version, mask')} : \E value \in {Penalty(drawn, SizeOf(version))} :
       /\ matrix' = drawn /\ penalties' = Append(penalties, value)
       /\ best' = IF IsBetter(value) THEN mask' ELSE best
  /\ UNCHANGED <<text, version, stream>>

QrNext == Encodes \/ Tries

-----------------------------------------------------------------------------
\* What a reader does, written from the standard and not from the code.

\* Where a module comes in the order of reading: pairs of columns from the right,
\* up and down in turn, the right one first.
Rank(p, size) ==
  LET x == IF p[1] > 6 THEN p[1] ELSE p[1] + 1
      pair == (size - 1 - x) \div 2
  IN (((pair * size) + (IF pair % 2 = 0 THEN size - 1 - p[2] ELSE p[2])) * 2) + ((size - 1 - x) % 2)

\* The bits read, the mask taken off, in the order of reading.
ReadBits(dark, order, m) == [n \in DOMAIN order |-> (order[n] \in dark) # MaskAt(m, order[n][1], order[n][2])]
Number(bits) == FoldLeft(LAMBDA a, b : (2 * a) + (IF b THEN 1 ELSE 0), 0, bits)
ByteRead(bits, k) == SubSeq(bits, (8 * k) - 7, 8 * k)

\* A reader finds the text: the modules in its order, the blocks put back together,
\* the mode, the count and the bytes.
ItReadsBack == mask = 0 \/ mask = 5 =>
  LET size == SizeOf(version)
      blocks == Versions[version].blocks
      data == Versions[version].data
      order == Free(version)
      bits == ReadBits(matrix, order, mask)
      InBlock(b, i) == ByteRead(bits, ((i - 1) * blocks) + b)
      said == FlattenSeq([k \in 1..(blocks * data) |-> InBlock(((k - 1) \div data) + 1, ((k - 1) % data) + 1)])
  IN /\ \A n \in 1..(Len(order) - 1) : Rank(order[n], size) < Rank(order[n + 1], size)
     /\ Len(order) >= 8 * blocks * (data + Versions[version].ec)
     /\ SubSeq(said, 1, 4) = <<FALSE, TRUE, FALSE, FALSE>>
     /\ Number(SubSeq(said, 5, 12)) = Len(text)
     /\ \A i \in DOMAIN text : Number(SubSeq(said, 5 + (8 * i), 12 + (8 * i))) = text[i]

\* The correction corrects: every block has all its syndromes zero.
Syndrome(block, i) == FoldLeft(LAMBDA a, c : Xor(Mul(a, Exp(i)), c), {}, block)

TheCorrectionIsRight == version > 0 /\ mask = 0 - 1 =>
  LET v == Versions[version] IN
  \A b \in 1..v.blocks :
    LET block == [i \in 1..(v.data + v.ec) |-> stream[((i - 1) * v.blocks) + b]] IN
    \A i \in 0..(v.ec - 1) : Syndrome(block, i) = {}

\* The format is there twice and tells the mask, and nothing that is the same in
\* every code has been drawn over: the finders, the timing, the dark module.
TheFormatIsSaidTwice == mask >= 0 =>
  LET size == SizeOf(version)
      one == <<<<8, 0>>, <<8, 1>>, <<8, 2>>, <<8, 3>>, <<8, 4>>, <<8, 5>>, <<8, 7>>, <<8, 8>>, <<7, 8>>, <<5, 8>>,
               <<4, 8>>, <<3, 8>>, <<2, 8>>, <<1, 8>>, <<0, 8>>>>
      two == [i \in 1..15 |-> IF i <= 8 THEN <<size - i, 8>> ELSE <<8, size - 16 + i>>]
      Read(copy) == {i \in 0..14 : copy[i + 1] \in matrix}
      plain == Xor(Read(one), {14, 12, 10, 4, 1})
  IN /\ Read(one) = Read(two)
     /\ Number([i \in 1..5 |-> 15 - i \in plain]) = mask
     /\ DarkModule(size) \in matrix
     /\ \A p \in Taken(version) : InFinder(p, size) => (p \in matrix <=> p \in Drawn(version))

\* The mask that is kept is none worse than any that was tried.
TheBestIsKept == penalties # <<>> => \A i \in DOMAIN penalties : penalties[best + 1] <= penalties[i]

\* What a code is worth does not depend on which way it lies: rows and columns are
\* looked at alike, to the last one.
TheWorthIsOfTheWhole == mask >= 0 /\ version = 1 =>
  LinesPenalty(matrix, SizeOf(version)) = LinesPenalty({<<p[2], p[1]>> : p \in matrix}, SizeOf(version))

\* Together: a phone that follows the standard reads the text back from the drawn
\* code, with its correction and its format right, and the best mask is the one kept.
QrSafety == ItReadsBack /\ TheCorrectionIsRight /\ TheFormatIsSaidTwice /\ TheBestIsKept /\ TheWorthIsOfTheWhole
=============================================================================
