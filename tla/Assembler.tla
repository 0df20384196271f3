----------------------------- MODULE Assembler -----------------------------
(***************************************************************************)
(* The access units put back together from an Annex-B stream that arrives  *)
(* in pieces: findStartCodes and AUAssembler in internal/media/h264.go.  A *)
(* byte of the stream is one of 0 and 1, which make start codes, the first *)
(* byte of a NAL, which gives its type, the byte after it, which says of a *)
(* slice whether it opens a picture, and the body, of one byte here.       *)
(***************************************************************************)
EXTENDS Naturals, Sequences, SequencesExt

CONSTANTS Codes,     \* bytes of a start code: 3, 4 or both
          MaxUnits,  \* NALs in the stream: a bound
          MaxChunks  \* chunks that it comes in: a bound

ASSUME AssemblerAssumption == Codes \subseteq {3, 4} /\ MaxUnits \in Nat /\ MaxChunks \in Nat

\* "other" stands for parameter sets, delimiters and SEI.
Types == {"other", "idr", "slice"}
IsVCL(type) == type \in {"idr", "slice"}

\* A NAL as the encoder writes it: with which start code, and, of a slice,
\* whether it is the first of its picture.
Written == {n \in [type : Types, first : BOOLEAN, code : Codes] : n.first => IsVCL(n.type)}

Coded(n) == (IF n.code = 3 THEN <<"0", "0", "1">> ELSE <<"0", "0", "0", "1">>)
            \o <<n.type, IF n.first THEN "first" ELSE "more", "body">>

AsBytes(nals) == FlattenSeq([i \in DOMAIN nals |-> Coded(nals[i])])

VARIABLES
  nals,      \* the NALs the encoder writes, in order
  handed,      \* how many of their bytes have been written
  chunks,    \* Write calls so far: the instants
  buf, bufAt,            \* bytes not yet taken as NALs, and their instant
  pending, pendingAt,    \* the access unit under construction
  seenVCL, preFlushed,
  units,     \* the access units handed on
  born,      \* history: the chunk in which each byte of the stream came
  torn       \* history: two chunks had a start code, or the two bytes after it, cut

assembler == <<buf, bufAt, pending, pendingAt, seenVCL, preFlushed, units>>
assemblerVars == <<nals, handed, chunks, assembler, born, torn>>

\* A stream opens with its parameter set, and pictures open with a first slice.
AssemblerInit ==
  /\ nals \in UNION {[1..n -> Written] : n \in 1..MaxUnits}
  /\ nals[1].type = "other" /\ \A i \in DOMAIN nals : nals[i].code = nals[1].code
  /\ \A i \in 2..Len(nals) : IsVCL(nals[i].type) /\ ~IsVCL(nals[i - 1].type) => nals[i].first
  /\ handed = 0 /\ chunks = 0
  /\ buf = <<>> /\ bufAt = 0 /\ pending = <<>> /\ pendingAt = 0
  /\ seenVCL = FALSE /\ preFlushed = FALSE /\ units = <<>>
  /\ born = <<>> /\ torn = FALSE

\* Where start codes lie in b, in order: two zeros and a one, with the zero
\* that may be before them; and the byte of the NAL that each opens.
FindStartCodes(b) ==
  LET ends(i) == i > 2 /\ b[i] = "1" /\ b[i - 1] = "0" /\ b[i - 2] = "0"
      long(i) == i > 3 /\ b[i - 3] = "0"
      at == SelectSeq([i \in DOMAIN b |-> i], ends)
  IN [k \in DOMAIN at |-> [offset |-> IF long(at[k]) THEN at[k] - 3 ELSE at[k] - 2, payload |-> at[k] + 1]]

\* The state that the loop in Write and the look at the last NAL work on.
Work(p, at, seen, pre, out) == [pending |-> p, at |-> at, seen |-> seen, pre |-> pre, out |-> out]

EveryVCLIsOne(type, first, seen) == seen                           \* mutant
IsBoundary(type, first, seen) == seen /\ (IsVCL(type) => first)

\* flush: what is pending, if anything, is an access unit.
Flush(w) ==
  IF w.pending = <<>> THEN w
  ELSE Work(<<>>, w.at, FALSE, w.pre,
            Append(w.out, [units |-> w.pending, at |-> w.at,
                           keyframe |-> \E i \in DOMAIN w.pending : w.pending[i].type = "idr"]))

JudgedAgain(w, n) == IF IsBoundary(n.type, n.first, w.seen) THEN Flush(w) ELSE w   \* mutant
Closes(w, n) ==
  IF w.pre THEN [w EXCEPT !.pre = FALSE]
  ELSE IF IsBoundary(n.type, n.first, w.seen) THEN Flush(w) ELSE w

\* A complete NAL n, whose start code began at the instant at.
Takes(w, n, at) ==
  LET c == Closes(w, n)
  IN [c EXCEPT !.at = IF c.pending = <<>> THEN at ELSE @,
               !.pending = Append(@, n), !.seen = @ \/ IsVCL(n.type)]

\* The NAL still arriving closes the one before as soon as two bytes show it.
LooksAhead(w, n) ==
  IF ~w.pre /\ IsBoundary(n.type, n.first, w.seen) THEN [Flush(w) EXCEPT !.pre = TRUE] ELSE w

NAL(b, s) == [type |-> b[s.payload], first |-> b[s.payload + 1] = "first"]

\* The instant of a NAL by where its start code begins: among the bytes
\* carried over, or in this chunk.
TheLatest(offset, carried, before, now) == now                     \* mutant
NalAt(offset, carried, before, now) == IF offset <= carried THEN before ELSE now

Write(chunk) ==
  LET now == chunks + 1
      carried == Len(buf)
      before == IF carried = 0 THEN now ELSE bufAt
      all == buf \o chunk
      starts == FindStartCodes(all)
      last == starts[Len(starts)]
      whole == [k \in 1..(Len(starts) - 1) |-> starts[k]]
      taken == FoldLeft(LAMBDA w, s : Takes(w, NAL(all, s), NalAt(s.offset, carried, before, now)),
                        Work(pending, pendingAt, seenVCL, preFlushed, units), whole)
      Looked(w) == IF last.payload + 1 <= Len(all) THEN LooksAhead(w, NAL(all, last)) ELSE w
  IN IF Len(starts) < 2
     THEN /\ buf' = all /\ bufAt' = before
          /\ UNCHANGED <<pending, pendingAt, seenVCL, preFlushed, units>>
     ELSE \E closed \in {Looked(taken)} :
          /\ pending' = closed.pending /\ pendingAt' = closed.at
          /\ seenVCL' = closed.seen /\ preFlushed' = closed.pre /\ units' = closed.out
          /\ buf' = SubSeq(all, last.offset, Len(all))
          /\ bufAt' = NalAt(last.offset, carried, before, now)

CutsAHead(s, n) == n < Len(s) /\ s[n] \in {"0", "1"} \cup Types

Arrives ==
  LET stream == AsBytes(nals) IN
  /\ chunks < MaxChunks
  /\ \E k \in 1..(Len(stream) - handed) :
       /\ Write(SubSeq(stream, handed + 1, handed + k))
       /\ handed' = handed + k /\ chunks' = chunks + 1
       /\ born' = born \o [i \in 1..k |-> chunks + 1]
       /\ torn' = (torn \/ CutsAHead(stream, handed + k))
  /\ UNCHANGED nals

AssemblerNext == Arrives
AssemblerSpec == AssemblerInit /\ [][AssemblerNext]_assemblerVars

-----------------------------------------------------------------------------
AssemblerTypeOK ==
  /\ buf \in Seq({"0", "1", "first", "more", "body"} \cup Types) /\ {bufAt, pendingAt} \subseteq 0..chunks
  /\ {seenVCL, preFlushed, torn} \subseteq BOOLEAN
  /\ \A i \in DOMAIN units : units[i].at \in 1..chunks /\ units[i].keyframe \in BOOLEAN

Plain(n) == [type |-> n.type, first |-> n.first]

\* The pictures of the stream, as the standard splits it: what opens one is
\* its first slice or what comes before it, after the last slice of another.
Opens(i) ==
  \/ i = 1
  \/ /\ \E j \in 1..(i - 1) : IsVCL(nals[j].type)
     /\ IF IsVCL(nals[i].type) THEN nals[i].first /\ IsVCL(nals[i - 1].type) ELSE IsVCL(nals[i - 1].type)

Openings == SelectSeq([i \in DOMAIN nals |-> i], Opens)

\* Where the i-th NAL of the stream begins.
Offset(i) == 1 + (i - 1) * (nals[1].code + 3)

\* However the stream is cut, the access units handed on are its pictures:
\* each whole, each once, none joined with the next and none out of order.
PicturesAreWhole ==
  \A u \in DOMAIN units :
    /\ u < Len(Openings)
    /\ LET of == SubSeq(nals, Openings[u], Openings[u + 1] - 1)
       IN /\ units[u].units = [k \in DOMAIN of |-> Plain(of[k])]
          /\ units[u].keyframe = (\E k \in DOMAIN of : of[k].type = "idr")

\* A picture does not wait for the next to be complete: two bytes of it are
\* enough to hand on the one before, unless a cut fell among those.
NoPictureWaits ==
  ~torn => \A u \in DOMAIN Openings :
    u > 1 /\ handed >= Offset(Openings[u]) + nals[Openings[u]].code + 1 => Len(units) >= u - 1

\* A picture goes out with the instant of the chunk that it began in, never
\* that of the chunk that closed it, unless a cut fell where a NAL begins.
TheInstantIsItsOwn ==
  ~torn => \A u \in DOMAIN units : units[u].at = born[Offset(Openings[u])]

\* Together: however the stream is cut, whole pictures come out, none waits once the
\* next has begun, and each is dated when it began.
AssemblerSafety == AssemblerTypeOK /\ PicturesAreWhole /\ NoPictureWaits /\ TheInstantIsItsOwn
=============================================================================
