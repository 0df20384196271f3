---------------------------- MODULE FiguresProofs ----------------------------
(***************************************************************************)
(* Proofs about the governors: Bandwidth, Scale and the loop that runs     *)
(* them, for any preset, any network and any waits.                        *)
(*                                                                         *)
(* What a window of figures adds up to is a recursive function, and that   *)
(* it is a number for every window is shown by the least length that would *)
(* be an exception (TotalIsNatural).                                       *)
(***************************************************************************)
EXTENDS BitrateControl, WellFoundedInduction, TLAPS

LEMMA LeastOf ==
  ASSUME NEW T \in SUBSET Nat, T # {}
  PROVE  \E x \in T : \A y \in T : x <= y
<1> DEFINE R == OpToRel(<, Nat)
<1>1. IsWellFoundedOn(R, Nat)
  BY NatLessThanWellFounded
<1>2. PICK x \in T : \A y \in T : <<y, x>> \notin R
  <2> HIDE DEF R
  <2> QED
    BY <1>1, WFMin
<1>3. \A y \in T : ~(y < x)
  BY <1>2 DEF OpToRel
<1> QED
  BY <1>3

-----------------------------------------------------------------------------
\* The sum of a window.

TailSum(f, w) == IF w = <<>> THEN 0 ELSE Head(w) + f[Tail(w)]
SumsUpTo(f, n) ==
  f \in [Seq(Nat) -> Nat] /\ \A w \in Seq(Nat) : Len(w) <= n => f[w] = TailSum(f, w)

LEMMA TailIsShorter ==
  ASSUME NEW w \in Seq(Nat), w # <<>>
  PROVE  Head(w) \in Nat /\ Tail(w) \in Seq(Nat) /\ Len(Tail(w)) = Len(w) - 1 /\ Len(w) \in Nat \ {0}
  OBVIOUS

LEMMA TailSumIsNatural ==
  ASSUME NEW f \in [Seq(Nat) -> Nat], NEW w \in Seq(Nat)
  PROVE  TailSum(f, w) \in Nat
<1>1. CASE w = <<>>
  BY <1>1 DEF TailSum
<1>2. CASE w # <<>>
  <2>1. Head(w) \in Nat /\ f[Tail(w)] \in Nat
    BY <1>2, TailIsShorter
  <2> QED
    BY <1>2, <2>1 DEF TailSum
<1> QED
  BY <1>1, <1>2

LEMMA SumsExist ==
  ASSUME NEW n \in Nat
  PROVE  \E f : SumsUpTo(f, n)
<1> DEFINE T == {k \in Nat : ~ \E f : SumsUpTo(f, k)}
<1> SUFFICES ASSUME T # {} PROVE FALSE
  OBVIOUS
<1>1. PICK m \in T : \A k \in T : m <= k
  <2> HIDE DEF T
  <2> SUFFICES T \in SUBSET Nat
    BY LeastOf
  <2> QED
    BY DEF T
<1>2. CASE m = 0
  <2> DEFINE f == [w \in Seq(Nat) |-> 0]
  <2>1. SumsUpTo(f, 0)
    BY DEF SumsUpTo, TailSum
  <2> QED
    BY <1>2, <2>1
<1>3. CASE m # 0
  <2>1. m - 1 \in Nat /\ m - 1 \notin T
    BY <1>1, <1>3
  <2>2. PICK g : SumsUpTo(g, m - 1)
    BY <2>1
  <2> DEFINE f == [w \in Seq(Nat) |-> TailSum(g, w)]
  <2>3. f \in [Seq(Nat) -> Nat]
    BY <2>2, TailSumIsNatural DEF SumsUpTo
  <2>4. ASSUME NEW w \in Seq(Nat), Len(w) <= m PROVE f[w] = TailSum(f, w)
    <3>1. CASE w = <<>>
      BY <3>1 DEF TailSum
    <3>2. CASE w # <<>>
      <4>1. Tail(w) \in Seq(Nat) /\ Len(Tail(w)) <= m - 1
        BY <2>4, <3>2, <1>3, TailIsShorter
      <4>2. g[Tail(w)] = f[Tail(w)]
        BY <4>1, <2>2 DEF SumsUpTo
      <4> QED
        BY <3>2, <4>2 DEF TailSum
    <3> QED
      BY <3>1, <3>2
  <2>5. SumsUpTo(f, m)
    <3> HIDE DEF f
    <3> QED
      BY <2>3, <2>4 DEF SumsUpTo
  <2> QED
    BY <2>5
<1> QED
  BY <1>2, <1>3

LEMMA SumsAgree ==
  ASSUME NEW n \in Nat, NEW m \in Nat, NEW f, NEW g, SumsUpTo(f, n), SumsUpTo(g, m),
         NEW w \in Seq(Nat), Len(w) <= n, Len(w) <= m
  PROVE  f[w] = g[w]
<1> DEFINE T == {k \in Nat : \E v \in Seq(Nat) : Len(v) = k /\ Len(v) <= n /\ Len(v) <= m /\ f[v] # g[v]}
<1> SUFFICES ASSUME T # {} PROVE FALSE
  <2>1. Len(w) \in Nat
    OBVIOUS
  <2> QED
    BY <2>1
<1>1. PICK k \in T : \A j \in T : k <= j
  <2> HIDE DEF T
  <2> SUFFICES T \in SUBSET Nat
    BY LeastOf
  <2> QED
    BY DEF T
<1>2. PICK v \in Seq(Nat) : Len(v) = k /\ Len(v) <= n /\ Len(v) <= m /\ f[v] # g[v]
  BY <1>1
<1>3. f[v] = TailSum(f, v) /\ g[v] = TailSum(g, v)
  BY <1>2 DEF SumsUpTo
<1>4. v # <<>>
  BY <1>2, <1>3 DEF TailSum
<1>5. Tail(v) \in Seq(Nat) /\ Len(Tail(v)) = k - 1 /\ k \in Nat \ {0}
  BY <1>2, <1>4, TailIsShorter
<1>6. f[Tail(v)] = g[Tail(v)]
  <2> SUFFICES ASSUME f[Tail(v)] # g[Tail(v)] PROVE FALSE
    OBVIOUS
  <2>1. k - 1 \in Nat /\ Len(Tail(v)) <= n /\ Len(Tail(v)) <= m
    BY <1>2, <1>5
  <2>2. k - 1 \in T
    BY <1>5, <2>1
  <2> QED
    BY <1>1, <1>5, <2>2
<1> QED
  BY <1>2, <1>3, <1>4, <1>6 DEF TailSum

\* What a window adds up to is a natural, and the definition is what it says.
LEMMA TotalIsNatural ==
  /\ Total \in [Seq(Nat) -> Nat]
  /\ \A w \in Seq(Nat) : Total[w] = TailSum(Total, w)
<1> DEFINE One(n) == CHOOSE f : SumsUpTo(f, n)
<1> DEFINE F == [w \in Seq(Nat) |-> One(Len(w))[w]]
<1>1. ASSUME NEW n \in Nat PROVE SumsUpTo(One(n), n)
  BY SumsExist
<1>2. ASSUME NEW w \in Seq(Nat) PROVE Len(w) \in Nat /\ SumsUpTo(One(Len(w)), Len(w))
  <2>1. Len(w) \in Nat
    OBVIOUS
  <2> QED
    BY <1>1, <2>1
<1> HIDE DEF One
<1>3. F \in [Seq(Nat) -> Nat]
  BY <1>2 DEF SumsUpTo
<1>4. ASSUME NEW w \in Seq(Nat) PROVE F[w] = TailSum(F, w)
  <2>1. F[w] = TailSum(One(Len(w)), w)
    <3>1. Len(w) <= Len(w)
      OBVIOUS
    <3> QED
      BY <1>2, <3>1 DEF SumsUpTo
  <2>2. CASE w = <<>>
    BY <2>1, <2>2 DEF TailSum
  <2>3. CASE w # <<>>
    <3>1. Tail(w) \in Seq(Nat) /\ Len(Tail(w)) <= Len(w) /\ Len(Tail(w)) <= Len(Tail(w))
      BY <2>3, TailIsShorter
    <3>2. One(Len(Tail(w)))[Tail(w)] = One(Len(w))[Tail(w)]
      <4> DEFINE v == Tail(w)
      <4> DEFINE few == Len(v)
      <4> DEFINE many == Len(w)
      <4>1. few \in Nat /\ many \in Nat /\ SumsUpTo(One(few), few) /\ SumsUpTo(One(many), many)
        BY <1>2, <3>1
      <4>2. v \in Seq(Nat) /\ Len(v) <= few /\ Len(v) <= many
        BY <3>1
      <4> HIDE DEF v, few, many
      <4>3. One(few)[v] = One(many)[v]
        BY <4>1, <4>2, SumsAgree
      <4> QED
        BY <4>3 DEF v, few, many
    <3> QED
      BY <2>1, <2>3, <3>1, <3>2 DEF TailSum
  <2> QED
    BY <2>2, <2>3
<1>5. F = [w \in Seq(Nat) |-> IF w = <<>> THEN 0 ELSE Head(w) + F[Tail(w)]]
  <2> HIDE DEF F
  <2> QED
    BY <1>3, <1>4 DEF TailSum
<1>6. Total = [w \in Seq(Nat) |-> IF w = <<>> THEN 0 ELSE Head(w) + Total[Tail(w)]]
  <2> HIDE DEF F
  <2> QED
    BY <1>5 DEF Total
<1>7. \A w \in Seq(Nat) : Total[w] = TailSum(Total, w)
  BY <1>6 DEF TailSum
<1>8. Total = F
  <2> DEFINE T == {k \in Nat : \E v \in Seq(Nat) : Len(v) = k /\ Total[v] # F[v]}
  <2>1. ASSUME T # {} PROVE FALSE
    <3>1. PICK k \in T : \A j \in T : k <= j
      <4> HIDE DEF T
      <4> SUFFICES T \in SUBSET Nat
        BY <2>1, LeastOf
      <4> QED
        BY DEF T
    <3>2. PICK v \in Seq(Nat) : Len(v) = k /\ Total[v] # F[v]
      BY <3>1
    <3>3. Total[v] = TailSum(Total, v) /\ F[v] = TailSum(F, v)
      <4> HIDE DEF F
      <4> QED
        BY <1>4, <1>7
    <3>4. v # <<>>
      BY <3>2, <3>3 DEF TailSum
    <3>5. Tail(v) \in Seq(Nat) /\ Len(Tail(v)) = k - 1 /\ k \in Nat \ {0}
      BY <3>2, <3>4, TailIsShorter
    <3>6. Total[Tail(v)] = F[Tail(v)]
      <4> HIDE DEF F
      <4> SUFFICES ASSUME Total[Tail(v)] # F[Tail(v)] PROVE FALSE
        OBVIOUS
      <4>1. k - 1 \in Nat
        BY <3>5
      <4>2. k - 1 \in T
        BY <3>5, <4>1
      <4> QED
        BY <3>1, <3>5, <4>2
    <3> QED
      <4> HIDE DEF F
      <4> QED
        BY <3>2, <3>3, <3>4, <3>6 DEF TailSum
  <2>2. \A v \in Seq(Nat) : Total[v] = F[v]
    <3> HIDE DEF F
    <3> SUFFICES ASSUME NEW v \in Seq(Nat), Total[v] # F[v] PROVE FALSE
      OBVIOUS
    <3>1. Len(v) \in Nat
      OBVIOUS
    <3>2. Len(v) \in T
      BY <3>1
    <3> QED
      BY <2>1, <3>2
  <2> HIDE DEF F
  <2>3. Total = [w \in Seq(Nat) |-> Total[w]] /\ F = [w \in Seq(Nat) |-> F[w]]
    BY <1>3, <1>6
  <2> QED
    BY <2>2, <2>3
<1> QED
  <2> HIDE DEF F
  <2> QED
    BY <1>3, <1>7, <1>8

LEMMA MeanIsNatural ==
  ASSUME NEW w \in Seq(Nat), NEW speak \in Nat
  PROVE  MeanOf(w, speak) \in Nat
<1>1. Total[w] \in Nat /\ Len(w) \in Nat
  BY TotalIsNatural
<1>2. CASE Len(w) < AtLeast(speak, 1)
  BY <1>2 DEF MeanOf
<1>3. CASE ~(Len(w) < AtLeast(speak, 1))
  <2>1. Len(w) \in Nat \ {0}
    BY <1>1, <1>3 DEF AtLeast
  <2>2. \A a \in Nat, b \in Nat \ {0} : a \div b \in Nat
    OBVIOUS
  <2> QED
    BY <1>1, <1>3, <2>1, <2>2 DEF MeanOf
<1> QED
  BY <1>2, <1>3

LEMMA WindowsKeep ==
  ASSUME NEW w \in Seq(Nat), NEW sample \in Int, NEW keep \in Nat \ {0}, NEW ages \in BOOLEAN
  PROVE  RollingAdd(w, sample, keep, ages) \in Seq(Nat)
<1>1. sample > 0 => Append(w, sample) \in Seq(Nat) /\ Append(w, sample) # <<>>
  OBVIOUS
<1>2. sample > 0 => Tail(Append(w, sample)) \in Seq(Nat)
  BY <1>1, TailIsShorter
<1>3. w # <<>> => Tail(w) \in Seq(Nat)
  BY TailIsShorter
<1> QED
  BY <1>1, <1>2, <1>3 DEF RollingAdd

-----------------------------------------------------------------------------
\* Bandwidth: steps of fifty, and the top.

LEMMA Rounding ==
  ASSUME NEW k \in Nat
  PROVE  /\ RoundToStep(k) \in Nat /\ RoundToStep(RoundToStep(k)) = RoundToStep(k)
         /\ RoundToStep(k) <= k + 25 /\ k <= RoundToStep(k) + 24
         /\ \A j \in Nat : j <= k => RoundToStep(j) <= RoundToStep(k)
<1>1. \A j \in Nat : RoundToStep(j) = 50 * ((j + 25) \div 50)
  BY DEF RoundToStep, StepKbps
<1>2. RoundToStep(k) \in Nat /\ RoundToStep(k) <= k + 25 /\ k <= RoundToStep(k) + 24
  BY <1>1
<1>3. RoundToStep(RoundToStep(k)) = RoundToStep(k)
  BY <1>1, <1>2
<1>4. \A j \in Nat : j <= k => RoundToStep(j) <= RoundToStep(k)
  BY <1>1
<1> QED
  BY <1>2, <1>3, <1>4

LEMMA TheTop == Top \in Nat /\ Top >= KbpsFloor /\ (RoundToStep(Top) = Top \/ Top > 500)
<1>1. Ceiling \in Nat
  BY BandwidthAssumption
<1>2. \A j \in Nat : RoundToStep(j) = 50 * ((j + 25) \div 50)
  BY DEF RoundToStep, StepKbps
<1> QED
  BY <1>1, <1>2, CeilingAssumption DEF Top, AtLeast, KbpsFloor, StepKbps

LEMMA ClampedIsBetween ==
  ASSUME NEW k \in Int
  PROVE  /\ Clamped(k) \in KbpsFloor..Top
         /\ k \in KbpsFloor..Top => Clamped(k) = k
         /\ k >= Top => Clamped(k) = Top
         /\ k < Top => Clamped(k) >= k
         /\ k > KbpsFloor => Clamped(k) <= k
  BY TheTop DEF Clamped, AtMost, AtLeast, KbpsFloor

\* A governor as it is between two ticks: a whole step, or the top.
IsGovernor(g) ==
  /\ g = [current |-> g.current, rise |-> g.rise]
  /\ g.current \in KbpsFloor..Top /\ g.rise \in Never..RiseWait
  /\ g.current = Top \/ RoundToStep(g.current) = g.current

\* What target may do: nothing but let the wait begin, fall and wait, or rise after a
\* wait that is over.
LEMMA TheGovernorWaits ==
  ASSUME NEW g, IsGovernor(g), NEW kbps \in Int, NEW loss \in Nat
  PROVE  LET next == GovTarget(g, kbps, loss) IN
         /\ IsGovernor(next)
         /\ next.current > g.current => g.rise >= RiseWait /\ next.rise = 0
         /\ next.current < g.current => next.rise = 0 /\ (kbps < g.current \/ loss >= LossSevere)
         /\ next.rise = g.rise \/ next.rise = 0
         /\ next.current < g.current /\ loss < LossSevere => next.current + StepKbps > kbps
<1> DEFINE next == GovTarget(g, kbps, loss)
<1>0. RiseWait \in Nat \ {0} /\ Top \in Nat /\ Top >= 300 /\ (RoundToStep(Top) = Top \/ Top > 500)
  BY BandwidthAssumption, TheTop DEF KbpsFloor
<1>1. g.current \in 300..Top /\ g.current \in Nat /\ g.rise \in Int /\ g.rise >= -1 /\ g.rise <= RiseWait
  BY <1>0 DEF IsGovernor, KbpsFloor, Never
<1>2. CASE loss >= LossSevere
  <2> DEFINE cut == Cut(g, loss)
  <2>1. cut \in Nat /\ cut >= 300 /\ RoundToStep(cut) = cut
    <3> DEFINE part == (g.current * (200 - loss)) \div 200
    <3>1. part \in Int
      BY <1>1
    <3> HIDE DEF part
    <3>2. RoundToStep(part) \in Int /\ RoundToStep(RoundToStep(part)) = RoundToStep(part) /\ RoundToStep(300) = 300
      BY <3>1 DEF RoundToStep, StepKbps
    <3> QED
      BY <3>2 DEF Cut, AtLeast, KbpsFloor, part
  <2>2. next = IF cut >= g.current THEN g ELSE [current |-> cut, rise |-> 0]
    BY <1>2 DEF GovTarget, GovCuts, WaitsAgain
  <2> HIDE DEF cut, next
  <2>3. CASE cut >= g.current
    BY <2>2, <2>3, <1>1 DEF next
  <2>4. CASE ~(cut >= g.current)
    <3>1. next = [current |-> cut, rise |-> 0] /\ next.current = cut /\ next.rise = 0
      BY <2>2, <2>4
    <3>2. cut < g.current /\ cut \in 300..Top
      BY <2>1, <2>4, <1>1, <1>0
    <3> QED
      BY <3>1, <3>2, <2>1, <1>0, <1>1, <1>2 DEF IsGovernor, KbpsFloor, Never, LossSevere, next
  <2> QED
    BY <2>3, <2>4 DEF next
<1>3. CASE ~(loss >= LossSevere) /\ kbps <= 0
  <2>1. next = g
    BY <1>3 DEF GovTarget
  <2> QED
    BY <2>1, <1>1
<1>4. CASE ~(loss >= LossSevere) /\ ~(kbps <= 0)
  <2> DEFINE told == Clamped(kbps)
  <2> DEFINE wanted == Wants(g, told)
  <2> DEFINE want == Clamped(RoundToStep(wanted.current))
  <2>1. told \in Nat /\ told >= 300 /\ told <= Top /\ (kbps < Top => told >= kbps) /\ (kbps >= Top => told = Top)
    BY <1>0, ClampedIsBetween DEF KbpsFloor
  <2>2. next = IF IsAbsorbed(g, want) THEN [wanted EXCEPT !.current = g.current] ELSE [wanted EXCEPT !.current = want]
    BY <1>4 DEF GovTarget, GovFollows
  <2> HIDE DEF told, next
  \* It wants to fall to what it is told, to rise to it, or to stay.
  <2>3. \/ told < g.current /\ wanted = [current |-> told, rise |-> 0]
        \/ told > g.current /\ g.rise >= RiseWait /\ wanted = [current |-> told, rise |-> 0]
        \/ wanted = [current |-> g.current, rise |-> wanted.rise] /\ (wanted.rise = g.rise \/ wanted.rise = 0)
    <3>1. CASE told < g.current
      BY <3>1 DEF Wants, WaitsAgain
    <3>2. CASE ~(told < g.current) /\ IsRoom(g, told) /\ MayRise(g)
      <4>1. told > g.current
        BY <3>2, <2>1, <1>1 DEF IsRoom
      <4> QED
        BY <4>1, <3>2, <1>1 DEF Wants, MayRise, Never
    <3>3. CASE ~(told < g.current) /\ ~(IsRoom(g, told) /\ MayRise(g))
      <4>1. wanted = g \/ wanted = [g EXCEPT !.rise = 0]
        BY <3>3 DEF Wants, MayRise
      <4>2. g = [current |-> g.current, rise |-> g.rise]
        BY DEF IsGovernor
      <4> QED
        BY <4>1, <4>2
    <3> QED
      BY <3>1, <3>2, <3>3
  <2>4. /\ wanted = [current |-> wanted.current, rise |-> wanted.rise]
        /\ wanted.current \in Nat /\ wanted.current >= 300 /\ wanted.current <= Top
        /\ wanted.rise = g.rise \/ wanted.rise = 0
    BY <2>1, <2>3, <1>1
  <2> HIDE DEF wanted
  <2>5. /\ RoundToStep(wanted.current) \in Nat
        /\ RoundToStep(wanted.current) <= wanted.current + 25 /\ wanted.current <= RoundToStep(wanted.current) + 24
        /\ RoundToStep(RoundToStep(wanted.current)) = RoundToStep(wanted.current)
        /\ wanted.current <= g.current => RoundToStep(wanted.current) <= RoundToStep(g.current)
        /\ g.current <= wanted.current => RoundToStep(g.current) <= RoundToStep(wanted.current)
        /\ RoundToStep(g.current) \in Nat /\ RoundToStep(300) = 300
        /\ 300 <= RoundToStep(wanted.current)
    <3>1. RoundToStep(300) = 300
      BY DEF RoundToStep, StepKbps
    <3> QED
      BY <3>1, <2>4, <1>1, Rounding
  <2>6. want = IF RoundToStep(wanted.current) >= Top THEN Top ELSE RoundToStep(wanted.current)
    BY <2>5, <1>0 DEF Clamped, AtMost, AtLeast, KbpsFloor
  <2>7. want \in Nat /\ want >= 300 /\ want <= Top /\ (want = Top \/ RoundToStep(want) = want)
    BY <2>5, <2>6, <1>0
  <2>8. /\ next = [current |-> next.current, rise |-> wanted.rise] /\ next.rise = wanted.rise
        /\ next.current = IF IsAbsorbed(g, want) THEN g.current ELSE want
    BY <2>2, <2>4
  <2>9. IsGovernor(next)
    <3>1. g.current = Top \/ RoundToStep(g.current) = g.current
      BY DEF IsGovernor
    <3>2. next.current \in 300..Top /\ (next.current = Top \/ RoundToStep(next.current) = next.current)
      BY <2>7, <2>8, <3>1, <1>0, <1>1
    <3>3. next.rise \in -1..RiseWait
      BY <2>4, <2>8, <1>0, <1>1
    <3> QED
      BY <2>8, <3>2, <3>3 DEF IsGovernor, KbpsFloor, Never
  \* Where it wants to stay it stays: a top that is not a whole step is not left for the
  \* step below, which is too near.
  <2>10. wanted.current = g.current => next.current = g.current
    <3> SUFFICES ASSUME wanted.current = g.current PROVE next.current = g.current
      OBVIOUS
    <3>1. CASE RoundToStep(g.current) = g.current
      BY <3>1, <2>6, <2>8, <1>0, <1>1
    <3>2. CASE g.current = Top /\ Top > 500 /\ ~(want = Top)
      <4>1. want < g.current /\ g.current - want <= 25
        BY <3>2, <2>5, <2>6, <2>7, <1>0, <1>1
      <4>2. IsAbsorbed(g, want)
        BY <4>1, <3>2, <2>7, <1>1 DEF IsAbsorbed
      <4> QED
        BY <4>2, <2>8
    <3>3. CASE g.current = Top /\ want = Top
      BY <3>3, <2>8
    <3> QED
      BY <3>1, <3>2, <3>3, <1>0 DEF IsGovernor
  <2>11. CASE told < g.current /\ wanted = [current |-> told, rise |-> 0]
    <3>1. wanted.current = told /\ next.rise = 0
      BY <2>8, <2>11
    <3>2. want <= g.current
      <4>1. CASE g.current = Top
        BY <4>1, <2>7
      <4>2. CASE RoundToStep(g.current) = g.current
        BY <4>2, <3>1, <2>1, <2>5, <2>6, <2>11, <1>0, <1>1
      <4> QED
        BY <4>1, <4>2 DEF IsGovernor
    <3>3. next.current <= g.current
      BY <3>2, <2>8, <1>1
    <3>4. kbps < g.current
      BY <2>1, <2>11, <1>0, <1>1
    <3>5. next.current < g.current => next.current + 50 > kbps
      BY <3>1, <3>4, <2>1, <2>5, <2>6, <2>8, <1>0, <1>1
    <3> QED
      BY <2>9, <3>1, <3>3, <3>4, <3>5, <1>1, <2>7, <2>8 DEF StepKbps, next
  <2>12. CASE told > g.current /\ g.rise >= RiseWait /\ wanted = [current |-> told, rise |-> 0]
    <3>1. wanted.current = told /\ next.rise = 0 /\ RoundToStep(g.current) = g.current
      BY <2>1, <2>8, <2>12, <1>0, <1>1 DEF IsGovernor
    <3>2. want >= g.current
      BY <3>1, <2>1, <2>5, <2>6, <2>12, <1>0, <1>1
    <3>3. next.current >= g.current
      BY <3>2, <2>8, <1>1
    <3> QED
      BY <2>9, <2>12, <3>1, <3>3, <2>8, <1>1, <2>7 DEF next
  <2>13. CASE wanted = [current |-> g.current, rise |-> wanted.rise] /\ (wanted.rise = g.rise \/ wanted.rise = 0)
    <3>1. next.current = g.current /\ (next.rise = g.rise \/ next.rise = 0)
      BY <2>8, <2>10, <2>13
    <3> QED
      BY <2>9, <3>1, <1>1 DEF next
  <2> QED
    BY <2>3, <2>11, <2>12, <2>13
<1> QED
  BY <1>2, <1>3, <1>4

\* What is told is held to what arrived, where nothing is lost.
LEMMA ToldHolds ==
  ASSUME NEW video \in Nat, NEW avg \in Nat, NEW loss \in Nat, NEW current \in Nat
  PROVE  /\ Told(video, avg, loss, current) \in Nat
         /\ LET kbps == Told(video, avg, loss, current) IN
            loss < LossQuiet /\ kbps > 0 /\ kbps < current => kbps >= avg
<1>1. AtLeastDelivered(video, avg, loss) \in Nat
  BY DEF AtLeastDelivered, AtLeast
<1>2. loss < LossQuiet /\ video > 0 => AtLeastDelivered(video, avg, loss) >= avg
  BY DEF AtLeastDelivered, AtLeast
<1>3. video = 0 => AtLeastDelivered(video, avg, loss) = 0
  BY DEF AtLeastDelivered
<1>4. \/ Told(video, avg, loss, current) = current
      \/ Told(video, avg, loss, current) = AtLeastDelivered(video, avg, loss)
  BY DEF Told
<1> QED
  BY <1>1, <1>2, <1>3, <1>4

LEMMA VideoIsNatural ==
  ASSUME NEW said \in Nat
  PROVE  AvailableForVideo(said) \in Nat
<1>1. AudioKbps \in Nat
  BY BandwidthAssumption
<1>2. CASE said <= AudioKbps
  BY <1>2 DEF AvailableForVideo
<1>3. CASE ~(said <= AudioKbps)
  <2>1. said - AudioKbps \in Nat
    BY <1>1, <1>3
  <2>2. \A a \in Nat : (a * 95) \div 100 \in Nat
    OBVIOUS
  <2> QED
    BY <1>3, <2>1, <2>2 DEF AvailableForVideo
<1> QED
  BY <1>2, <1>3

IsLosses(l) ==
  /\ l = [worst |-> l.worst, age |-> l.age, fresh |-> l.fresh, uncut |-> l.uncut]
  /\ l.worst \in Nat /\ l.age \in Int /\ l.fresh \in Nat /\ l.uncut \in BOOLEAN

LEMMA LossesAreRecorded ==
  ASSUME NEW l, IsLosses(l), NEW loss \in Nat
  PROVE  /\ IsLosses(RecordLoss(l, loss)) /\ (RecordLoss(l, loss).uncut => l.uncut \/ loss >= LossSevere)
         /\ IsLosses(GivenUp(l)) /\ ~GivenUp(l).uncut
         /\ IsLosses([l EXCEPT !.age = Older(@, LossWindow + 1)])
         /\ [l EXCEPT !.age = Older(@, LossWindow + 1)].uncut = l.uncut
         /\ RecentLoss(l) \in Nat /\ LossToCut(l) \in Nat /\ (LossToCut(l) >= LossSevere => l.uncut)
<1>1. LossWindow \in Nat
  BY BandwidthAssumption
<1>2. Older(l.age, LossWindow + 1) \in Int
  BY <1>1 DEF IsLosses, Older, AtMost, Never
<1>3. IsLosses([l EXCEPT !.age = Older(@, LossWindow + 1)])
      /\ [l EXCEPT !.age = Older(@, LossWindow + 1)].uncut = l.uncut
  BY <1>2 DEF IsLosses
<1>4. IsLosses(GivenUp(l)) /\ ~GivenUp(l).uncut
  <2>1. GivenUp(l) = [worst |-> l.worst, age |-> l.age, fresh |-> l.fresh, uncut |-> FALSE]
    <3>1. l = [worst |-> l.worst, age |-> l.age, fresh |-> l.fresh, uncut |-> l.uncut]
      BY DEF IsLosses
    <3>2. GivenUp(l) = [l EXCEPT !.uncut = FALSE]
      BY DEF GivenUp
    <3> QED
      BY <3>1, <3>2, Zenon
  <2> QED
    BY <2>1 DEF IsLosses
<1>5. RecentLoss(l) \in Nat /\ LossToCut(l) \in Nat /\ (LossToCut(l) >= LossSevere => l.uncut)
  BY DEF IsLosses, RecentLoss, LossToCut, LossSevere
<1> DEFINE kept == IF l.age = Never \/ l.age > LossWindow \/ loss >= l.worst
                     THEN [l EXCEPT !.worst = loss, !.age = 0] ELSE l
<1>6. IsLosses(kept) /\ kept.uncut = l.uncut
  <2>1. CASE kept = l
    BY <2>1
  <2>2. CASE kept = [l EXCEPT !.worst = loss, !.age = 0]
    <3>1. kept = [worst |-> loss, age |-> 0, fresh |-> l.fresh, uncut |-> l.uncut]
      BY <2>2 DEF IsLosses
    <3> HIDE DEF kept
    <3> QED
      BY <3>1 DEF IsLosses
  <2> QED
    BY <2>1, <2>2
<1>7. RecordLoss(l, loss) = IF loss >= LossSevere THEN [kept EXCEPT !.fresh = loss, !.uncut = TRUE] ELSE kept
  BY DEF RecordLoss
<1> HIDE DEF kept
<1>8. CASE loss >= LossSevere
  <2>1. RecordLoss(l, loss) = [worst |-> kept.worst, age |-> kept.age, fresh |-> loss, uncut |-> TRUE]
    BY <1>6, <1>7, <1>8 DEF IsLosses
  <2>2. IsLosses(RecordLoss(l, loss))
    BY <2>1, <1>6 DEF IsLosses
  <2> QED
    BY <2>2, <1>3, <1>4, <1>5, <1>8
<1>9. CASE ~(loss >= LossSevere)
  <2>1. RecordLoss(l, loss) = kept
    BY <1>7, <1>9
  <2> QED
    BY <2>1, <1>3, <1>4, <1>5, <1>6
<1> QED
  BY <1>8, <1>9

-----------------------------------------------------------------------------
\* After a drop the wait before a rise is never shorter than the time since: only the
\* top, from which nothing rises, may have forgotten the drop.
TheWaitIsKept == sinceDrop # Never /\ gov.current # Top => gov.rise # Never /\ gov.rise <= sinceDrop

BandInv ==
  /\ IsGovernor(gov) /\ IsLosses(losses) /\ (losses.uncut => owed)
  /\ sentWindow \in Seq(Nat) /\ estimate \in Nat /\ watched \in BOOLEAN /\ owed \in BOOLEAN /\ inForce \in Nat
  /\ sinceDrop \in Int /\ sinceDrop >= Never /\ TheWaitIsKept

LEMMA BandStarts == BandInit => BandInv
<1> SUFFICES ASSUME BandInit PROVE BandInv
  OBVIOUS
<1>1. IsGovernor(gov)
  BY TheTop, BandwidthAssumption DEF BandInit, IsGovernor, Never
<1>2. IsLosses(losses) /\ ~losses.uncut
  BY DEF BandInit, IsLosses, NoLosses, Never
<1>3. sentWindow \in Seq(Nat) /\ inForce \in Nat
  BY TheTop DEF BandInit
<1>4. estimate \in Nat /\ sinceDrop \in Int /\ sinceDrop >= Never /\ TheWaitIsKept
  BY DEF BandInit, TheWaitIsKept, Never
<1>5. watched \in BOOLEAN /\ owed \in BOOLEAN
  BY DEF BandInit
<1> QED
  BY <1>1, <1>2, <1>3, <1>4, <1>5 DEF BandInv

\* A tick: what the governor is told, and what comes of it.
LEMMA BandTicks ==
  ASSUME BandInv, NEW measured \in MayComeOut, BandTick(measured)
  PROVE  /\ BandInv'
         /\ gov'.current < gov.current =>
              /\ LossToCut(losses) >= LossSevere => owed
              /\ \/ owed
                 \/ RecentLoss([losses EXCEPT !.age = Older(@, LossWindow + 1)]) >= LossQuiet
                 \/ gov'.current + StepKbps > delivered'
         /\ watched /\ gov'.current > gov.current => sinceDrop = Never \/ sinceDrop + 1 >= RiseWait
<1> DEFINE aged == [gov EXCEPT !.rise = Older(@, RiseWait)]
<1> DEFINE old == [losses EXCEPT !.age = Older(@, LossWindow + 1)]
<1> DEFINE came == SentAdd(sentWindow, measured)
<1> DEFINE kbps == Told(AvailableForVideo(estimate), SentMean(came), RecentLoss(old), gov.current)
<1> DEFINE next == IF watched THEN GovTarget(aged, kbps, LossToCut(old)) ELSE GovRelease(aged)
<1>0. RiseWait \in Nat \ {0} /\ SentSamples \in Nat \ {0} /\ Top \in Nat
  BY BandwidthAssumption, TheTop
<1>1. gov.current \in Nat /\ gov.rise \in Int /\ gov.rise >= -1 /\ gov.rise <= RiseWait /\ gov.current <= Top
  BY <1>0 DEF BandInv, IsGovernor, KbpsFloor, Never
<1>2. aged = [current |-> gov.current, rise |-> Older(gov.rise, RiseWait)]
  BY DEF BandInv, IsGovernor
<1>3. Older(gov.rise, RiseWait) \in Never..RiseWait
  BY <1>0, <1>1 DEF Older, AtMost, Never
<1>4. IsGovernor(aged) /\ aged.current = gov.current /\ aged.rise = Older(gov.rise, RiseWait)
  BY <1>2, <1>3 DEF BandInv, IsGovernor
<1>5. IsLosses(old) /\ old.uncut = losses.uncut /\ IsLosses(GivenUp(old)) /\ ~GivenUp(old).uncut
      /\ RecentLoss(old) \in Nat /\ LossToCut(old) \in Nat /\ (LossToCut(old) >= LossSevere => losses.uncut)
  <2>1. IsLosses(old) /\ old.uncut = losses.uncut
    BY LossesAreRecorded DEF BandInv
  <2> HIDE DEF old
  <2> QED
    BY <2>1, LossesAreRecorded
<1>6. measured \in Nat
  BY DEF BandInv, MayComeOut
<1>7. came \in Seq(Nat)
  <2>1. sentWindow \in Seq(Nat) /\ measured \in Int /\ TRUE \in BOOLEAN
    BY <1>6 DEF BandInv
  <2> QED
    BY <1>0, <2>1, WindowsKeep DEF SentAdd
<1>8. SentMean(came) \in Nat
  <2> HIDE DEF came
  <2> QED
    BY <1>7, MeanIsNatural DEF SentMean
<1>9. AvailableForVideo(estimate) \in Nat
  BY VideoIsNatural DEF BandInv
<1>10. kbps \in Nat /\ (RecentLoss(old) < LossQuiet /\ kbps > 0 /\ kbps < gov.current => kbps >= SentMean(came))
  <2> HIDE DEF came, old
  <2> QED
    BY <1>1, <1>5, <1>8, <1>9, ToldHolds
<1>11. /\ gov' = next /\ losses' = (IF watched THEN GivenUp(old) ELSE old)
       /\ inForce' = (IF next.current # gov.current \/ (~watched /\ inForce # next.current) THEN next.current ELSE inForce)
       /\ sentWindow' = (IF next.current # gov.current \/ (~watched /\ inForce # next.current) THEN <<>> ELSE came)
       /\ delivered' = SentMean(came)
       /\ owed' = (owed /\ ~watched)
       /\ sinceDrop' = (IF next.current < gov.current THEN 0 ELSE Older(sinceDrop, RiseWait))
       /\ estimate' = estimate /\ watched' = watched
  BY DEF BandTick
<1> HIDE DEF aged, old, came, kbps
<1>12. /\ IsGovernor(next)
       /\ next.current < gov.current => watched /\ next.rise = 0 /\ (LossToCut(old) < LossSevere => next.current + 50 > SentMean(came) \/ RecentLoss(old) >= LossQuiet)
       /\ next.current > gov.current /\ watched => aged.rise >= RiseWait
       /\ next.current = Top \/ next.rise = aged.rise \/ next.rise = 0
  <2>1. CASE watched
    <3>1. next = GovTarget(aged, kbps, LossToCut(old))
      BY <2>1
    <3> HIDE DEF next
    <3>2. /\ IsGovernor(next)
          /\ next.current > gov.current => aged.rise >= RiseWait /\ next.rise = 0
          /\ next.current < gov.current => next.rise = 0 /\ (kbps < gov.current \/ LossToCut(old) >= LossSevere)
          /\ next.rise = aged.rise \/ next.rise = 0
          /\ next.current < gov.current /\ LossToCut(old) < LossSevere => next.current + StepKbps > kbps
      BY <3>1, <1>4, <1>5, <1>10, TheGovernorWaits
    <3>3. next.current < gov.current /\ LossToCut(old) < LossSevere => kbps > 0
      <4> SUFFICES ASSUME next.current < gov.current, LossToCut(old) < LossSevere, kbps <= 0 PROVE FALSE
        BY <1>10
      <4>1. next = aged
        BY <3>1, <1>5 DEF GovTarget, LossSevere
      <4> QED
        BY <4>1, <1>1, <1>4
    <3>4. next.current \in Nat
      BY <3>2, <1>0 DEF IsGovernor, KbpsFloor
    <3>5. next.current < gov.current /\ LossToCut(old) < LossSevere =>
            next.current + 50 > SentMean(came) \/ RecentLoss(old) >= LossQuiet
      <4> SUFFICES ASSUME next.current < gov.current, LossToCut(old) < LossSevere, ~(RecentLoss(old) >= LossQuiet)
                   PROVE  next.current + 50 > SentMean(came)
        OBVIOUS
      <4>1. kbps < gov.current /\ kbps > 0 /\ next.current + 50 > kbps
        BY <3>2, <3>3, <1>5 DEF StepKbps, LossSevere
      <4>2. kbps >= SentMean(came)
        BY <4>1, <1>5, <1>10 DEF LossQuiet
      <4> QED
        BY <4>1, <4>2, <3>4, <1>8, <1>10
    <3> QED
      BY <2>1, <3>2, <3>5
  <2>2. CASE ~watched
    <3>1. next = GovRelease(aged)
      BY <2>2
    <3> HIDE DEF next
    <3>2. next.current = Top /\ IsGovernor(next)
      BY <3>1, <1>0, <1>4, TheTop DEF GovRelease, IsGovernor, Never
    <3> QED
      BY <2>2, <3>2, <1>0, <1>1
  <2> QED
    BY <2>1, <2>2 DEF BandInv
<1> HIDE DEF next
<1>13. next.current \in Nat /\ next.rise \in Int /\ next.current <= Top
  BY <1>0, <1>12 DEF IsGovernor, KbpsFloor, Never
<1>14. sinceDrop' \in Int /\ sinceDrop' >= Never
  BY <1>0, <1>11 DEF BandInv, Older, AtMost, Never
<1>15. TheWaitIsKept'
  <2>1. CASE next.current < gov.current
    BY <2>1, <1>11, <1>12 DEF TheWaitIsKept, Never
  <2>2. CASE ~(next.current < gov.current)
    <3> SUFFICES ASSUME sinceDrop' # Never, next.current # Top PROVE next.rise # Never /\ next.rise <= sinceDrop'
      BY <1>11 DEF TheWaitIsKept
    <3>1. sinceDrop' = Older(sinceDrop, RiseWait) /\ sinceDrop # Never
      BY <2>2, <1>11 DEF Older
    <3>2. gov.current # Top
      BY <2>2, <1>0, <1>13
    <3>3. gov.rise # Never /\ gov.rise <= sinceDrop
      BY <3>1, <3>2 DEF BandInv, TheWaitIsKept
    <3>4. aged.rise >= 0 /\ aged.rise <= sinceDrop' /\ sinceDrop' >= 0 /\ aged.rise \in Int
      BY <3>1, <3>3, <1>0, <1>1, <1>4 DEF Older, AtMost, Never, BandInv
    <3> QED
      BY <3>4, <1>12 DEF Never
  <2> QED
    BY <2>1, <2>2
<1>16. IsLosses(losses') /\ (losses'.uncut => owed')
  BY <1>5, <1>11 DEF BandInv
<1>17. inForce' \in Nat /\ sentWindow' \in Seq(Nat)
  BY <1>7, <1>11, <1>13 DEF BandInv
<1>18. BandInv'
  BY <1>11, <1>12, <1>14, <1>15, <1>16, <1>17 DEF BandInv
<1>19. gov'.current < gov.current =>
         /\ LossToCut(losses) >= LossSevere => owed
         /\ \/ owed
            \/ RecentLoss(old) >= LossQuiet
            \/ gov'.current + StepKbps > delivered'
  <2>1. LossToCut(losses) >= LossSevere => owed
    BY LossesAreRecorded DEF BandInv
  <2>2. LossToCut(old) >= LossSevere => owed
    BY <1>5 DEF BandInv
  <2>3. LossToCut(old) < LossSevere \/ LossToCut(old) >= LossSevere
    BY <1>5 DEF LossSevere
  <2> QED
    BY <1>11, <1>12, <2>1, <2>2, <2>3 DEF StepKbps
<1>20. watched /\ gov'.current > gov.current => sinceDrop = Never \/ sinceDrop + 1 >= RiseWait
  <2> SUFFICES ASSUME watched, next.current > gov.current, sinceDrop # Never PROVE sinceDrop + 1 >= RiseWait
    BY <1>11
  <2>1. aged.rise >= RiseWait
    BY <1>12
  <2>2. gov.current # Top
    BY <1>0, <1>13
  <2>3. gov.rise # Never /\ gov.rise <= sinceDrop
    BY <2>2 DEF BandInv, TheWaitIsKept
  <2> QED
    BY <2>1, <2>3, <1>0, <1>1, <1>4 DEF Older, AtMost, Never, BandInv
<1> QED
  BY <1>18, <1>19, <1>20 DEF old

LEMMA BandStep == BandInv /\ [BandNext]_bandVars => BandInv'
<1> SUFFICES ASSUME BandInv, [BandNext]_bandVars PROVE BandInv'
  OBVIOUS
<1>1. ASSUME NEW loss \in Losses, Reports(loss) PROVE BandInv'
  <2>1. loss \in Nat /\ loss \in Int
    BY BandwidthAssumption
  <2>2. IsLosses(losses') /\ (losses'.uncut => losses.uncut \/ loss >= LossSevere)
    BY <1>1, <2>1, LossesAreRecorded DEF Reports, BandInv
  <2>3. owed' \in BOOLEAN /\ (losses'.uncut => owed')
    BY <1>1, <2>2 DEF Reports, BandInv
  <2> QED
    BY <1>1, <2>2, <2>3 DEF Reports, BandInv, TheWaitIsKept
<1>2. CASE NetworkChanges
  <2>1. estimate' \in Nat /\ watched' \in BOOLEAN
    BY <1>2, BandwidthAssumption DEF NetworkChanges
  <2> QED
    BY <1>2, <2>1 DEF NetworkChanges, BandInv, TheWaitIsKept
<1>3. ASSUME NEW measured \in MayComeOut, BandTick(measured) PROVE BandInv'
  BY <1>3, BandTicks
<1>4. CASE UNCHANGED bandVars
  BY <1>4 DEF bandVars, BandInv, TheWaitIsKept
<1> QED
  BY <1>1, <1>2, <1>3, <1>4 DEF BandNext

\* Without losses the bitrate does not fall below what has been delivered, a report of
\* severe losses cuts once, and after a drop the network settles before it is pushed
\* again (target and RunBitrateControl of internal/rtc/bitrate.go), for any preset, any
\* estimates and any losses.
THEOREM TheGovernorIsPatient == BandSpec => WhatArrivedIsHeld /\ NoReportCutsTwice /\ NoRiseRightAfterADrop
<1>1. BandInv /\ [BandNext]_bandVars =>
        /\ [gov'.current < gov.current =>
              \/ owed
              \/ RecentLoss([losses EXCEPT !.age = Older(@, LossWindow + 1)]) >= LossQuiet
              \/ gov'.current + StepKbps > delivered']_bandVars
        /\ [gov'.current < gov.current /\ LossToCut(losses) >= LossSevere => owed]_bandVars
        /\ [watched /\ gov'.current > gov.current => sinceDrop = Never \/ sinceDrop + 1 >= RiseWait]_bandVars
  <2> SUFFICES ASSUME BandInv, BandNext
               PROVE  /\ gov'.current < gov.current =>
                           \/ owed
                           \/ RecentLoss([losses EXCEPT !.age = Older(@, LossWindow + 1)]) >= LossQuiet
                           \/ gov'.current + StepKbps > delivered'
                      /\ gov'.current < gov.current /\ LossToCut(losses) >= LossSevere => owed
                      /\ watched /\ gov'.current > gov.current => sinceDrop = Never \/ sinceDrop + 1 >= RiseWait
    OBVIOUS
  <2>1. gov' = gov => ~(gov'.current < gov.current) /\ ~(gov'.current > gov.current)
    BY TheTop DEF BandInv, IsGovernor, KbpsFloor
  <2>2. ASSUME NEW loss \in Losses, Reports(loss) PROVE gov' = gov
    BY <2>2 DEF Reports
  <2>3. CASE NetworkChanges
    BY <2>1, <2>3 DEF NetworkChanges
  <2>4. ASSUME NEW measured \in MayComeOut, BandTick(measured)
        PROVE  /\ gov'.current < gov.current =>
                    /\ LossToCut(losses) >= LossSevere => owed
                    /\ \/ owed
                       \/ RecentLoss([losses EXCEPT !.age = Older(@, LossWindow + 1)]) >= LossQuiet
                       \/ gov'.current + StepKbps > delivered'
               /\ watched /\ gov'.current > gov.current => sinceDrop = Never \/ sinceDrop + 1 >= RiseWait
    BY <2>4, BandTicks
  <2> QED
    BY <2>1, <2>2, <2>3, <2>4 DEF BandNext
<1> QED
  BY <1>1, BandStarts, BandStep, PTL DEF BandSpec, WhatArrivedIsHeld, NoReportCutsTwice, NoRiseRightAfterADrop

-----------------------------------------------------------------------------
\* Scale: the ladder has a step at least, and each is a format that can be sent.

Formats == [w : Nat \ {0}, h : Nat \ {0}, fps : Nat \ {0}]

LEMMA SizesAreFormats ==
  ASSUME NEW ladder \in Seq(Formats), NEW step, step \in [w : Nat, h : Nat, fps : Nat \ {0}]
  PROVE  /\ Distinct(ladder, step) \in Seq(Formats) /\ Len(Distinct(ladder, step)) >= Len(ladder)
         /\ ladder = <<>> /\ step.w > 0 /\ step.h > 0 => Len(Distinct(ladder, step)) = 1
<1>1. CASE step.w <= 0 \/ step.h <= 0
  BY <1>1 DEF Distinct
<1>2. CASE ladder # <<>> /\ ladder[Len(ladder)].w = step.w
  BY <1>2 DEF Distinct
<1>3. CASE ~(step.w <= 0 \/ step.h <= 0) /\ ~(ladder # <<>> /\ ladder[Len(ladder)].w = step.w)
  <2>1. Distinct(ladder, step) = Append(ladder, step)
    BY <1>3 DEF Distinct
  <2>2. step \in Formats
    BY <1>3 DEF Formats
  <2>3. Append(ladder, step) \in Seq(Formats) /\ Len(Append(ladder, step)) = Len(ladder) + 1 /\ Len(ladder) \in Nat
    BY <2>2
  <2>4. ladder = <<>> => Len(ladder) = 0
    OBVIOUS
  <2> QED
    BY <2>1, <2>3, <2>4
<1> QED
  BY <1>1, <1>2, <1>3

LEMMA SlowerAreFormats ==
  ASSUME NEW ladder \in Seq(Formats), Len(ladder) >= 1, NEW fps \in Nat \ {0}
  PROVE  Slower(ladder, fps) \in Seq(Formats) /\ Len(Slower(ladder, fps)) >= 1
<1> DEFINE last == ladder[Len(ladder)]
<1>1. last \in Formats
  OBVIOUS
<1>2. SlowedDown(last, fps) \in Formats
  <2> HIDE DEF last
  <2> QED
    BY <1>1 DEF SlowedDown, Formats
<1> DEFINE slow == SlowedDown(last, fps)
<1>3. Slower(ladder, fps) = ladder \/ Slower(ladder, fps) = Append(ladder, slow)
  BY DEF Slower
<1> HIDE DEF slow, last
<1>4. Append(ladder, slow) \in Seq(Formats) /\ Len(Append(ladder, slow)) = Len(ladder) + 1
  BY <1>2 DEF slow
<1> QED
  BY <1>3, <1>4

LEMMA TheLadderStands ==
  ASSUME NEW base \in Bases
  PROVE  Ladder[base] \in Seq(Formats) /\ Len(Ladder[base]) >= 1
<1>1. base.w \in Nat /\ base.h \in Nat /\ base.fps \in Nat \ {0} /\ base.w >= 16 /\ base.h >= 16
  BY ScaleAssumption
<1> DEFINE W(q) == Even16((base.w * q) \div 4)
<1> DEFINE H(q) == Even16((base.h * q) \div 4)
<1>2. W(4) \in Nat /\ H(4) \in Nat /\ W(3) \in Nat /\ H(3) \in Nat /\ W(2) \in Nat /\ H(2) \in Nat /\ W(4) > 0 /\ H(4) > 0
  <2>1. \A a \in Nat : a \div 4 \in Nat /\ a \div 16 \in Nat /\ (a * 4) \div 4 = a /\ (a >= 16 => a \div 16 > 0)
    OBVIOUS
  <2>2. base.w * 3 \in Nat /\ base.w * 2 \in Nat /\ base.h * 3 \in Nat /\ base.h * 2 \in Nat
        /\ base.w * 4 \in Nat /\ base.h * 4 \in Nat
    BY <1>1
  <2>3. (base.w * 4) \div 4 = base.w /\ (base.h * 4) \div 4 = base.h
    BY <1>1, <2>1
  <2>4. W(4) = 16 * (base.w \div 16) /\ H(4) = 16 * (base.h \div 16)
    BY <2>3 DEF Even16
  <2>5. base.w \div 16 \in Nat /\ base.w \div 16 > 0 /\ base.h \div 16 \in Nat /\ base.h \div 16 > 0
    BY <1>1, <2>1
  <2>6. \A a \in Nat : Even16(a) \in Nat
    BY <2>1 DEF Even16
  <2> QED
    BY <2>1, <2>2, <2>4, <2>5, <2>6
<1>3. \A q \in {4, 3, 2} : SizedDown(base, q) \in [w : Nat, h : Nat, fps : Nat \ {0}]
                            /\ SizedDown(base, q).w = W(q) /\ SizedDown(base, q).h = H(q)
  <2>1. \A q \in {4, 3, 2} : SizedDown(base, q) = [w |-> W(q), h |-> H(q), fps |-> base.fps]
    BY DEF SizedDown
  <2> HIDE DEF W, H
  <2> QED
    BY <2>1, <1>1, <1>2
<1> HIDE DEF W, H
<1> DEFINE one == Distinct(<<>>, SizedDown(base, 4))
<1> DEFINE two == Distinct(one, SizedDown(base, 3))
<1> DEFINE three == Distinct(two, SizedDown(base, 2))
<1>4. one \in Seq(Formats) /\ Len(one) = 1
  <2>1. <<>> \in Seq(Formats)
    OBVIOUS
  <2> QED
    BY <1>2, <1>3, <2>1, SizesAreFormats
<1> HIDE DEF one
<1>5. two \in Seq(Formats) /\ Len(two) >= 1
  BY <1>3, <1>4, SizesAreFormats
<1> HIDE DEF two
<1>6. three \in Seq(Formats) /\ Len(three) >= 1
  BY <1>3, <1>5, SizesAreFormats
<1>7. SizesOf(base) = three
  BY DEF SizesOf, one, two
<1> HIDE DEF three
<1>8. Slower(three, 5) \in Seq(Formats) /\ Len(Slower(three, 5)) >= 1
  BY <1>6, SlowerAreFormats
<1>9. Slower(Slower(three, 5), 2) \in Seq(Formats) /\ Len(Slower(Slower(three, 5), 2)) >= 1
  BY <1>8, SlowerAreFormats
<1> QED
  BY <1>7, <1>9 DEF Ladder, LadderOf

Steps(base) == {Ladder[base][i] : i \in 1..Len(Ladder[base])}

LEMMA StepsAreFormats ==
  ASSUME NEW base \in Bases
  PROVE  /\ Len(Ladder[base]) \in Nat \ {0} /\ DOMAIN Ladder[base] = 1..Len(Ladder[base])
         /\ \A i \in 1..Len(Ladder[base]) : Ladder[base][i] \in Formats /\ MinKbps[base][i] \in Int
         /\ NoFormat \notin Steps(base) /\ Ladder[base][1] \in Steps(base)
<1>1. Ladder[base] \in Seq(Formats) /\ Len(Ladder[base]) >= 1
  BY TheLadderStands
<1> DEFINE ladder == Ladder[base]
<1>2. DOMAIN ladder = 1..Len(ladder) /\ Len(ladder) \in Nat \ {0} /\ \A i \in 1..Len(ladder) : ladder[i] \in Formats
  <2> HIDE DEF ladder
  <2> QED
    BY <1>1 DEF ladder
<1>3. ASSUME NEW i \in 1..Len(ladder) PROVE MinKbps[base][i] \in Int
  <2>1. MinKbps[base][i] = MinKbpsOf(ladder[i], i <= Len(SizesOf(base)))
    BY <1>2 DEF MinKbps
  <2>2. ASSUME NEW s \in Formats, NEW full \in BOOLEAN PROVE MinKbpsOf(s, full) \in Int
    <3>1. s.w * s.h * s.fps \in Int
      BY DEF Formats
    <3> DEFINE pixels == s.w * s.h * s.fps
    <3>2. MinKbpsOf(s, full) = (pixels * IF full THEN 4 ELSE 8) \div 100000
      BY DEF MinKbpsOf
    <3> HIDE DEF pixels
    <3>3. pixels * (IF full THEN 4 ELSE 8) \in Int
      BY <3>1 DEF pixels
    <3> QED
      BY <3>2, <3>3
  <2>3. (i <= Len(SizesOf(base))) \in BOOLEAN
    OBVIOUS
  <2> QED
    BY <1>2, <2>1, <2>2, <2>3
<1>4. NoFormat \notin Formats
  BY DEF NoFormat, Formats
<1>5. NoFormat \notin Steps(base) /\ Ladder[base][1] \in Steps(base)
  BY <1>2, <1>4 DEF Steps
<1> QED
  BY <1>2, <1>3, <1>5

-----------------------------------------------------------------------------
\* scaleGovernor: what a step of it may do.

IsScale(sc) ==
  /\ sc = [base |-> sc.base, step |-> sc.step, changed |-> sc.changed, lastAvail |-> sc.lastAvail,
           below |-> sc.below, qps |-> sc.qps]
  /\ sc.base \in Bases /\ sc.step \in 1..Len(Ladder[sc.base]) /\ sc.changed \in Never..ScaleDwell

LEMMA WaitsAreNatural ==
  /\ ScaleSettle \in Nat \ {0} /\ ScaleDwell \in Nat \ {0} /\ ScaleSettle <= ScaleDwell
  /\ Never..ScaleDwell \subseteq Int /\ 0 \in Never..ScaleDwell /\ Never \in Never..ScaleDwell
  BY ScaleAssumption DEF Never

LEMMA ScaleMoves ==
  ASSUME NEW sc, IsScale(sc), NEW step \in 1..Len(Ladder[sc.base])
  PROVE  /\ IsScale(MovesTo(sc, step)) /\ MovesTo(sc, step).base = sc.base
         /\ MovesTo(sc, step).step = step /\ MovesTo(sc, step).changed = 0
<1>1. MovesTo(sc, step) = [base |-> sc.base, step |-> step, changed |-> 0, lastAvail |-> sc.lastAvail,
                           below |-> sc.below, qps |-> <<>>]
  <2>1. sc = [base |-> sc.base, step |-> sc.step, changed |-> sc.changed, lastAvail |-> sc.lastAvail,
              below |-> sc.below, qps |-> sc.qps]
    BY DEF IsScale
  <2>2. MovesTo(sc, step) = [[[sc EXCEPT !.step = step] EXCEPT !.changed = 0] EXCEPT !.qps = <<>>]
    BY DEF MovesTo
  <2> QED
    BY <2>1, <2>2
<1> QED
  BY <1>1, WaitsAreNatural DEF IsScale

LEMMA ScaleAges ==
  ASSUME NEW sc, IsScale(sc)
  PROVE  LET aged == [sc EXCEPT !.changed = Older(@, ScaleDwell)] IN
         /\ IsScale(aged) /\ aged.base = sc.base /\ aged.step = sc.step /\ FormatOf(aged) = FormatOf(sc)
         /\ aged.changed = Older(sc.changed, ScaleDwell)
<1> DEFINE aged == [sc EXCEPT !.changed = Older(@, ScaleDwell)]
<1>1. aged = [base |-> sc.base, step |-> sc.step, changed |-> Older(sc.changed, ScaleDwell),
              lastAvail |-> sc.lastAvail, below |-> sc.below, qps |-> sc.qps]
  BY DEF IsScale
<1>2. Older(sc.changed, ScaleDwell) \in Never..ScaleDwell
  BY WaitsAreNatural DEF IsScale, Older, AtMost, Never
<1> HIDE DEF aged
<1> QED
  BY <1>1, <1>2 DEF IsScale, FormatOf, aged

\* resync: the scale goes to the step that is sent, unless it is settling.
LEMMA ScaleAligns ==
  ASSUME NEW sc, IsScale(sc), NEW format
  PROVE  LET aligned == Resync(sc, format) IN
         /\ IsScale(aligned) /\ aligned.base = sc.base
         /\ aligned = sc \/ (aligned.changed = 0 /\ ~ScaleIsSettling(sc) /\ FormatOf(aligned) = format)
         /\ FormatOf(sc) = format => aligned = sc
         /\ format \in Steps(sc.base) /\ ~ScaleIsSettling(sc) => FormatOf(aligned) = format
<1> DEFINE steps == {i \in DOMAIN Ladder[sc.base] : Ladder[sc.base][i] = format}
<1>1. CASE ScaleIsSettling(sc) \/ FormatOf(sc) = format
  BY <1>1 DEF Resync
<1>2. CASE ~(ScaleIsSettling(sc) \/ FormatOf(sc) = format) /\ steps = {}
  <2>1. Resync(sc, format) = sc
    BY <1>2 DEF Resync
  <2>2. format \notin Steps(sc.base)
    BY <1>2, StepsAreFormats DEF Steps, IsScale
  <2> QED
    BY <2>1, <2>2, <1>2
<1>3. CASE ~(ScaleIsSettling(sc) \/ FormatOf(sc) = format) /\ steps # {}
  <2> DEFINE least == CHOOSE i \in steps : \A j \in steps : i <= j
  <2>1. steps \in SUBSET Nat
    BY StepsAreFormats DEF IsScale
  <2>2. \E i \in steps : \A j \in steps : i <= j
    <3> HIDE DEF steps
    <3> QED
      BY <1>3, <2>1, LeastOf
  <2>3. least \in steps
    <3> HIDE DEF steps
    <3> QED
      BY <2>2
  <2>4. Resync(sc, format) = MovesTo(sc, least)
    BY <1>3 DEF Resync
  <2> HIDE DEF least
  <2>5. least \in 1..Len(Ladder[sc.base]) /\ Ladder[sc.base][least] = format
    BY <2>3, StepsAreFormats DEF IsScale
  <2>6. /\ IsScale(MovesTo(sc, least)) /\ MovesTo(sc, least).base = sc.base
        /\ MovesTo(sc, least).step = least /\ MovesTo(sc, least).changed = 0
    BY <2>5, ScaleMoves
  <2> QED
    BY <1>3, <2>4, <2>5, <2>6 DEF FormatOf
<1> QED
  BY <1>1, <1>2, <1>3

\* As far down as it takes is further down, and there is such a step.
LEMMA ScaleDescends ==
  ASSUME NEW sc, IsScale(sc), NEW avail \in Nat,
         avail < MinKbps[sc.base][sc.step], sc.step < Len(Ladder[sc.base])
  PROVE  Downwards(sc, avail) \in 1..Len(Ladder[sc.base]) /\ Downwards(sc, avail) > sc.step
<1> DEFINE last == Len(Ladder[sc.base])
<1> DEFINE enough == {i \in sc.step..last : i = last \/ avail >= MinKbps[sc.base][i]}
<1>1. last \in Nat \ {0} /\ sc.step \in 1..last /\ \A i \in 1..last : MinKbps[sc.base][i] \in Int
  BY StepsAreFormats DEF IsScale
<1>2. last \in enough /\ enough \in SUBSET Nat
  <2> HIDE DEF last
  <2> QED
    BY <1>1
<1>3. \E i \in enough : \A j \in enough : i <= j
  <2> HIDE DEF enough
  <2> QED
    BY <1>2, LeastOf
<1>4. Downwards(sc, avail) \in enough
  <2>1. Downwards(sc, avail) = CHOOSE i \in enough : \A j \in enough : i <= j
    BY DEF Downwards
  <2> HIDE DEF enough
  <2> QED
    BY <1>3, <2>1
<1>5. sc.step \notin enough
  BY <1>1
<1> HIDE DEF last
<1>6. Downwards(sc, avail) \in sc.step..last /\ Downwards(sc, avail) # sc.step
  BY <1>4, <1>5
<1> QED
  BY <1>1, <1>6 DEF last

\* target: the step stays and so does its age, or it is left, and upwards only after
\* the dwell.
LEMMA ScaleDecides ==
  ASSUME NEW sc0, IsScale(sc0), NEW avail \in Nat, NEW credible, NEW qp, NEW maxBits
  PROVE  LET next == ScaleTarget(sc0, avail, credible, qp, maxBits) IN
         /\ IsScale(next) /\ next.base = sc0.base
         /\ \/ next.step = sc0.step /\ next.changed = sc0.changed
            \/ next.changed = 0 /\ next.step > sc0.step
            \/ next.changed = 0 /\ next.step < sc0.step /\ MayClimb(sc0)
<1> DEFINE sc == NotesQP(sc0, qp)
<1> DEFINE last == Len(Ladder[sc.base])
<1> DEFINE below == Shortfall(sc, avail, credible /\ ~HasPicture(sc, qp))
<1> DEFINE heard == [sc EXCEPT !.lastAvail = avail, !.below = below]
<1> DEFINE next == ScaleTarget(sc0, avail, credible, qp, maxBits)
<1>1. /\ IsScale(sc) /\ sc.base = sc0.base /\ sc.step = sc0.step /\ sc.changed = sc0.changed
  <2> DEFINE readings == IF qp > 0 THEN RollingAdd(sc0.qps, qp, ScaleWindow, FALSE)
                         ELSE IF sc0.qps = <<>> THEN sc0.qps ELSE Tail(sc0.qps)
  <2>1. sc = [sc0 EXCEPT !.qps = readings]
    BY DEF NotesQP
  <2> HIDE DEF sc, readings
  <2>2. sc = [base |-> sc0.base, step |-> sc0.step, changed |-> sc0.changed, lastAvail |-> sc0.lastAvail,
              below |-> sc0.below, qps |-> readings]
    BY <2>1 DEF IsScale
  <2> QED
    BY <2>2 DEF IsScale
<1> HIDE DEF sc, below
<1>2. /\ IsScale(heard) /\ heard.base = sc.base /\ heard.step = sc.step /\ heard.changed = sc.changed
  <2>1. heard = [base |-> sc.base, step |-> sc.step, changed |-> sc.changed, lastAvail |-> avail,
                 below |-> below, qps |-> sc.qps]
    <3>1. sc = [base |-> sc.base, step |-> sc.step, changed |-> sc.changed, lastAvail |-> sc.lastAvail,
                below |-> sc.below, qps |-> sc.qps]
      BY <1>1 DEF IsScale
    <3>2. heard = [[sc EXCEPT !.lastAvail = avail] EXCEPT !.below = below]
      OBVIOUS
    <3> HIDE DEF heard
    <3>3. [sc EXCEPT !.lastAvail = avail] = [base |-> sc.base, step |-> sc.step, changed |-> sc.changed,
                                             lastAvail |-> avail, below |-> sc.below, qps |-> sc.qps]
      BY <3>1
    <3> QED
      BY <3>2, <3>3
  <2> HIDE DEF heard
  <2> QED
    BY <2>1, <1>1 DEF IsScale
<1>3. \/ next = sc \/ next = heard
      \/ sc.step < last /\ next = MovesTo(sc, sc.step + 1)
      \/ sc.step < last /\ avail < MinKbps[sc.base][sc.step] /\ next = MovesTo(heard, Downwards(sc, avail))
      \/ sc.step > 1 /\ MayClimb(sc) /\ next = MovesTo(heard, sc.step - 1)
  BY DEF ScaleTarget, sc, below
<1> HIDE DEF heard, next
<1>4. last \in Nat \ {0} /\ sc.step \in 1..last
  BY <1>1, StepsAreFormats DEF IsScale
<1>5. CASE next = sc \/ next = heard
  BY <1>1, <1>2, <1>5 DEF next
<1>6. CASE sc.step < last /\ next = MovesTo(sc, sc.step + 1)
  <2>1. sc.step + 1 \in 1..last /\ sc.step + 1 > sc.step
    BY <1>4, <1>6
  <2>2. IsScale(next) /\ next.base = sc.base /\ next.step = sc.step + 1 /\ next.changed = 0
    BY <1>1, <1>6, <2>1, ScaleMoves
  <2> QED
    BY <1>1, <2>1, <2>2 DEF next
<1>7. CASE sc.step < last /\ avail < MinKbps[sc.base][sc.step] /\ next = MovesTo(heard, Downwards(sc, avail))
  <2>1. Downwards(sc, avail) \in 1..last /\ Downwards(sc, avail) > sc.step
    BY <1>1, <1>7, ScaleDescends
  <2>2. IsScale(next) /\ next.base = sc.base /\ next.step = Downwards(sc, avail) /\ next.changed = 0
    BY <1>2, <1>7, <2>1, ScaleMoves
  <2> QED
    BY <1>1, <2>1, <2>2 DEF next
<1>8. CASE sc.step > 1 /\ MayClimb(sc) /\ next = MovesTo(heard, sc.step - 1)
  <2>1. sc.step - 1 \in 1..last /\ sc.step - 1 < sc.step
    BY <1>4, <1>8
  <2>2. IsScale(next) /\ next.base = sc.base /\ next.step = sc.step - 1 /\ next.changed = 0
    BY <1>2, <1>8, <2>1, ScaleMoves
  <2>3. MayClimb(sc0)
    BY <1>1, <1>8 DEF MayClimb
  <2> QED
    BY <1>1, <2>1, <2>2, <2>3 DEF next
<1> QED
  BY <1>3, <1>5, <1>6, <1>7, <1>8

\* Pixels are not given up with bits to spare and bandwidth enough.
LEMMA PixelsGoForBits ==
  ASSUME NEW sc0, IsScale(sc0), NEW avail \in Nat, NEW credible, NEW qp, NEW maxBits,
         ~maxBits, ~(avail < MinKbps[sc0.base][sc0.step])
  PROVE  ScaleTarget(sc0, avail, credible, qp, maxBits).step <= sc0.step
<1> DEFINE sc == NotesQP(sc0, qp)
<1> DEFINE below == Shortfall(sc, avail, credible /\ ~HasPicture(sc, qp))
<1> DEFINE heard == [sc EXCEPT !.lastAvail = avail, !.below = below]
<1> DEFINE next == ScaleTarget(sc0, avail, credible, qp, maxBits)
<1>1. sc.base = sc0.base /\ sc.step = sc0.step /\ heard.step = sc0.step
  BY DEF NotesQP, IsScale
<1>2. next = sc \/ next = heard \/ next = MovesTo(heard, sc.step - 1)
  BY <1>1 DEF ScaleTarget, sc, below
<1> HIDE DEF heard, sc
<1>3. sc0.step \in Int
  BY StepsAreFormats DEF IsScale
<1>4. MovesTo(heard, sc.step - 1).step = sc.step - 1
  BY <1>1 DEF MovesTo, heard, sc, NotesQP, IsScale
<1> HIDE DEF next
<1>5. next.step <= sc0.step
  BY <1>1, <1>2, <1>3, <1>4
<1> QED
  BY <1>5 DEF next

\* cadenceGovernor: what is declared is within the limit it is given.
IsCadence(c) ==
  /\ c = [declared |-> c.declared, most |-> c.most, up |-> c.up, down |-> c.down]
  /\ c.declared \in Nat /\ c.most \in Nat /\ c.declared <= c.most

LEMMA CadenceKeepsToTheLimit ==
  ASSUME NEW c, IsCadence(c), NEW measured, NEW most \in Nat \ {0}
  PROVE  IsCadence(CadenceTarget(c, measured, most)) /\ CadenceTarget(c, measured, most).declared <= most
<1>1. CadenceToDeclare(measured, most) \in Nat /\ CadenceToDeclare(measured, most) <= most
  <2> DEFINE fit == {i \in DOMAIN CadenceSteps : CadenceSteps[i] * 10 >= measured - 5 /\ CadenceSteps[i] <= most}
  <2>1. CASE measured <= 0 \/ fit = {}
    BY <2>1 DEF CadenceToDeclare
  <2>2. CASE ~(measured <= 0 \/ fit = {})
    <3> DEFINE least == CHOOSE i \in fit : \A j \in fit : i <= j
    <3>1. DOMAIN CadenceSteps = 1..8 /\ \A i \in 1..8 : CadenceSteps[i] \in Nat
      BY DEF CadenceSteps
    <3>2. fit \in SUBSET Nat /\ \A i \in fit : CadenceSteps[i] \in Nat /\ CadenceSteps[i] <= most
      BY <3>1
    <3>3. CadenceToDeclare(measured, most) = CadenceSteps[least]
      BY <2>2 DEF CadenceToDeclare
    <3>4. least \in fit
      <4> HIDE DEF fit
      <4>1. \E i \in fit : \A j \in fit : i <= j
        BY <2>2, <3>2, LeastOf
      <4> QED
        BY <4>1
    <3> HIDE DEF least, fit
    <3> QED
      BY <3>2, <3>3, <3>4
  <2> QED
    BY <2>1, <2>2
<1> DEFINE next == CadenceTarget(c, measured, most)
<1> DEFINE wanted == CadenceToDeclare(measured, most)
<1>2. CASE most # c.most /\ (most > c.most \/ c.declared > most)
  <2>1. next = [declared |-> most, most |-> most, up |-> 0, down |-> 0]
    <3>1. next = FollowsTheLimit(c, most)
      BY <1>2 DEF CadenceTarget
    <3>2. c = [declared |-> c.declared, most |-> c.most, up |-> c.up, down |-> c.down]
      BY DEF IsCadence
    <3>3. FollowsTheLimit(c, most) =
            [[[[c EXCEPT !.most = most] EXCEPT !.declared = most] EXCEPT !.up = 0] EXCEPT !.down = 0]
      BY DEF FollowsTheLimit
    <3> QED
      BY <3>1, <3>2, <3>3
  <2> HIDE DEF next
  <2> QED
    BY <2>1 DEF IsCadence, next
<1>3. CASE ~(most # c.most /\ (most > c.most \/ c.declared > most))
  <2>1. c.declared <= most
    BY <1>3 DEF IsCadence
  <2> DEFINE more == wanted > c.declared
  <2> DEFINE less == wanted < c.declared /\ measured * 10 <= c.declared * 90
  <2> DEFINE longer == IF more THEN c.up + 1 ELSE 0
  <2> DEFINE shorter == IF less THEN c.down + 1 ELSE 0
  <2>2. \/ next = [declared |-> wanted, most |-> most, up |-> 0, down |-> 0]
        \/ next = [c EXCEPT !.most = most, !.up = longer, !.down = shorter]
    BY <1>3 DEF CadenceTarget
  <2> HIDE DEF longer, shorter
  <2> HIDE DEF next, wanted
  <2>3. CASE next = [declared |-> wanted, most |-> most, up |-> 0, down |-> 0]
    BY <1>1, <2>3 DEF IsCadence, next, wanted
  <2>4. CASE next = [c EXCEPT !.most = most, !.up = longer, !.down = shorter]
    <3>1. next = [declared |-> c.declared, most |-> most, up |-> longer, down |-> shorter]
      <4>1. c = [declared |-> c.declared, most |-> c.most, up |-> c.up, down |-> c.down]
        BY DEF IsCadence
      <4>2. next = [[[c EXCEPT !.most = most] EXCEPT !.up = longer] EXCEPT !.down = shorter]
        BY <2>4
      <4> QED
        BY <4>1, <4>2
    <3> QED
      BY <2>1, <3>1 DEF IsCadence, next
  <2> QED
    BY <2>2, <2>3, <2>4 DEF next
<1> QED
  BY <1>2, <1>3

-----------------------------------------------------------------------------
\* What goes out, or is about to, is where the scale believes to be; or the scale has
\* moved so lately that it does not look yet, and has moved since the last upset.
IsTrue == IF asked = NoFormat THEN sent = FormatOf(scale) ELSE asked = FormatOf(scale)
SoonTrue == IsTrue \/ calm = 0 \/ (scale.changed \in 0..(ScaleSettle - 1) /\ calm <= scale.changed)

\* How long the scale has been where it is is no longer than since it fell.
FallsAreRemembered == sinceFall # Never => scale.changed # Never /\ scale.changed <= sinceFall

ScaleInv ==
  /\ IsScale(scale) /\ IsCadence(cadence) /\ network \in Networks /\ calm \in Nat /\ upsets \in Nat
  /\ sent \in Steps(scale.base) /\ asked \in Steps(scale.base) \cup {NoFormat}
  /\ sinceFall \in Int /\ sinceFall >= Never /\ FallsAreRemembered
  /\ SoonTrue
  /\ calm > 0 => cadence.declared <= FormatOf(scale).fps

LEMMA FormatsAreSteps ==
  ASSUME NEW sc, IsScale(sc)
  PROVE  FormatOf(sc) \in Steps(sc.base) /\ FormatOf(sc) # NoFormat /\ FormatOf(sc).fps \in Nat \ {0}
<1>1. FormatOf(sc) \in Steps(sc.base) /\ FormatOf(sc) \in Formats /\ NoFormat \notin Steps(sc.base)
  BY StepsAreFormats DEF FormatOf, Steps, IsScale
<1> QED
  BY <1>1 DEF Formats

LEMMA ANewScale ==
  ASSUME NEW base \in Bases
  PROVE  /\ IsScale(NewScale(base)) /\ NewScale(base).base = base /\ NewScale(base).changed = Never
         /\ FormatOf(NewScale(base)) = Ladder[base][1] /\ Ladder[base][1] \in Steps(base)
<1>1. 1 \in 1..Len(Ladder[base]) /\ Ladder[base][1] \in Steps(base)
  BY StepsAreFormats
<1> QED
  BY <1>1, WaitsAreNatural DEF NewScale, IsScale, FormatOf

LEMMA ScaleStarts == ScaleInit => ScaleInv
<1> SUFFICES ASSUME ScaleInit PROVE ScaleInv
  OBVIOUS
<1>1. PICK base \in Bases : scale = NewScale(base) /\ cadence = NewCadence(base.fps) /\ sent = Ladder[base][1]
  BY DEF ScaleInit
<1>2. IsCadence(cadence)
  <2>1. base.fps \in Nat
    BY ScaleAssumption
  <2> QED
    BY <1>1, <2>1 DEF NewCadence, IsCadence
<1>3. IsScale(scale) /\ scale.base = base /\ sent = FormatOf(scale) /\ sent \in Steps(scale.base)
  BY <1>1, ANewScale
<1>4. asked = NoFormat /\ network \in Networks /\ sinceFall = Never /\ calm = 0
  BY DEF ScaleInit
<1>5. upsets \in Nat
  BY DEF ScaleInit
<1> QED
  BY <1>2, <1>3, <1>4, <1>5 DEF ScaleInv, SoonTrue, FallsAreRemembered, Never

\* A tick: align, decide, ask.
LEMMA ScaleTicks ==
  ASSUME ScaleInv, asked = NoFormat, ScaleTick
  PROVE  /\ ScaleInv'
         /\ sent = FormatOf(scale) /\ scale'.step < scale.step => sinceFall = Never \/ sinceFall + 1 >= ScaleDwell
<1> DEFINE aged == [scale EXCEPT !.changed = Older(@, ScaleDwell)]
<1> DEFINE aligned == Resync(aged, sent)
<1> DEFINE next == ScaleTarget(aligned, network.avail, network.credible, network.qp, network.maxBits)
<1> DEFINE declares == CadenceTarget(cadence, network.measured, FormatOf(next).fps)
<1>0. ScaleSettle \in Nat \ {0} /\ ScaleDwell \in Nat \ {0} /\ ScaleSettle <= ScaleDwell
  BY WaitsAreNatural
<1>1. /\ scale' = next /\ cadence' = declares
      /\ asked' = IF next.step # aligned.step \/ declares.declared # cadence.declared THEN FormatOf(next) ELSE asked
      /\ sinceFall' = IF next.step > scale.step THEN 0 ELSE Older(sinceFall, ScaleDwell)
      /\ calm' = AtMost(calm + 1, CalmLong)
      /\ sent' = sent /\ network' = network /\ upsets' = upsets
  BY DEF ScaleTick
<1>2. /\ IsScale(aged) /\ aged.base = scale.base /\ aged.step = scale.step /\ FormatOf(aged) = FormatOf(scale)
      /\ aged.changed = Older(scale.changed, ScaleDwell)
  BY ScaleAges DEF ScaleInv
<1> HIDE DEF aged
<1>3. /\ IsScale(aligned) /\ aligned.base = scale.base
      /\ aligned = aged \/ (aligned.changed = 0 /\ ~ScaleIsSettling(aged) /\ FormatOf(aligned) = sent)
      /\ FormatOf(aged) = sent => aligned = aged
      /\ ~ScaleIsSettling(aged) => FormatOf(aligned) = sent
  BY <1>2, ScaleAligns DEF ScaleInv
<1> HIDE DEF aligned
<1>4. network.avail \in Nat
  BY ScaleAssumption DEF ScaleInv, Networks
<1>5. /\ IsScale(next) /\ next.base = scale.base
      /\ \/ next.step = aligned.step /\ next.changed = aligned.changed
         \/ next.changed = 0 /\ next.step > aligned.step
         \/ next.changed = 0 /\ next.step < aligned.step /\ MayClimb(aligned)
  BY <1>3, <1>4, ScaleDecides
<1> HIDE DEF next
<1>6. FormatOf(next) \in Steps(scale.base) /\ FormatOf(next) # NoFormat /\ FormatOf(next).fps \in Nat \ {0}
  BY <1>5, FormatsAreSteps
<1>7. IsCadence(declares) /\ declares.declared <= FormatOf(next).fps
  BY <1>6, CadenceKeepsToTheLimit DEF ScaleInv
<1> HIDE DEF declares
<1>8. /\ scale.step \in Nat /\ aligned.step \in Nat /\ next.step \in Nat
      /\ scale.changed \in Int /\ scale.changed >= -1 /\ scale.changed <= ScaleDwell
  BY <1>0, <1>2, <1>3, <1>5, StepsAreFormats DEF IsScale, Never, ScaleInv
<1>9. calm' \in Nat /\ calm' <= calm + 1
  <2>1. CalmLong \in Nat
    BY <1>0 DEF CalmLong
  <2> QED
    BY <1>1, <2>1 DEF ScaleInv, AtMost
<1>10. asked' \in Steps(scale.base) \cup {NoFormat}
  BY <1>1, <1>6 DEF ScaleInv
<1>11. next.step > scale.step => next.changed = 0
  BY <1>2, <1>3, <1>5, <1>8
<1>12. next.changed = 0 \/ (next.changed = aged.changed /\ aligned = aged /\ next.step = aligned.step)
  BY <1>3, <1>5
<1>13. sinceFall' \in Int /\ sinceFall' >= Never
  BY <1>0, <1>1 DEF ScaleInv, Older, AtMost, Never
<1>14. FallsAreRemembered'
  <2>1. CASE next.step > scale.step
    BY <2>1, <1>1, <1>11 DEF FallsAreRemembered, Never
  <2>2. CASE ~(next.step > scale.step)
    <3> SUFFICES ASSUME sinceFall' # Never PROVE next.changed # Never /\ next.changed <= sinceFall'
      BY <1>1 DEF FallsAreRemembered
    <3>1. sinceFall' = Older(sinceFall, ScaleDwell) /\ sinceFall # Never
      BY <2>2, <1>1 DEF Older
    <3>2. scale.changed # Never /\ scale.changed <= sinceFall
      BY <3>1 DEF ScaleInv, FallsAreRemembered
    <3>3. aged.changed \in Int /\ aged.changed >= 0 /\ aged.changed <= sinceFall' /\ sinceFall' >= 0
      BY <3>1, <3>2, <1>0, <1>2, <1>8 DEF Older, AtMost, Never, ScaleInv
    <3> QED
      BY <3>3, <1>12 DEF Never
  <2> QED
    BY <2>1, <2>2
<1>15. SoonTrue'
  <2>1. CASE asked' # NoFormat
    <3>1. asked' = FormatOf(next)
      BY <2>1, <1>1
    <3> QED
      BY <2>1, <3>1, <1>1 DEF SoonTrue, IsTrue, FormatOf
  <2>2. CASE asked' = NoFormat /\ FormatOf(aligned) = sent
    <3>1. next.step = aligned.step
      BY <2>2, <1>1, <1>6
    <3>2. FormatOf(next) = FormatOf(aligned)
      BY <3>1, <1>3, <1>5 DEF FormatOf
    <3> QED
      BY <2>2, <3>2, <1>1 DEF SoonTrue, IsTrue, FormatOf
  <2>3. CASE asked' = NoFormat /\ FormatOf(aligned) # sent
    <3>1. next.step = aligned.step /\ next.changed = aged.changed
      BY <2>3, <1>1, <1>3, <1>5, <1>6, <1>8
    <3>2. ScaleIsSettling(aged) /\ aligned = aged
      BY <2>3, <1>3
    <3>3. aged.changed # Never /\ aged.changed < ScaleSettle
      BY <3>2 DEF ScaleIsSettling
    <3>4. FormatOf(scale) # sent
      BY <2>3, <3>2, <1>2
    <3>5. calm = 0 \/ calm <= scale.changed
      BY <3>4 DEF ScaleInv, SoonTrue, IsTrue
    <3>6. scale.changed # Never /\ aged.changed = scale.changed + 1 /\ aged.changed \in 0..(ScaleSettle - 1)
      BY <3>3, <1>0, <1>2, <1>8 DEF Older, AtMost, Never
    <3>7. calm' <= aged.changed
      BY <3>5, <3>6, <1>8, <1>9 DEF Never, ScaleInv
    <3> QED
      BY <3>1, <3>6, <3>7, <1>1 DEF SoonTrue
  <2> QED
    BY <2>1, <2>2, <2>3
<1>16. FormatOf(scale)' = FormatOf(next)
  BY <1>1 DEF FormatOf
<1>17. ScaleInv'
  BY <1>1, <1>5, <1>7, <1>9, <1>10, <1>13, <1>14, <1>15, <1>16 DEF ScaleInv
<1>18. sent = FormatOf(scale) /\ next.step < scale.step => sinceFall = Never \/ sinceFall + 1 >= ScaleDwell
  <2> SUFFICES ASSUME sent = FormatOf(scale), next.step < scale.step, sinceFall # Never PROVE sinceFall + 1 >= ScaleDwell
    OBVIOUS
  <2>1. aligned = aged
    BY <1>2, <1>3
  <2>2. MayClimb(aged)
    BY <2>1, <1>2, <1>5, <1>8
  <2>3. scale.changed # Never /\ scale.changed <= sinceFall
    BY DEF ScaleInv, FallsAreRemembered
  <2> QED
    BY <2>2, <2>3, <1>0, <1>2, <1>8 DEF MayClimb, Older, AtMost, Never, ScaleInv
<1> QED
  BY <1>1, <1>17, <1>18

LEMMA ScaleStep == ScaleInv /\ [ScaleNext]_scaleVars => ScaleInv'
<1> SUFFICES ASSUME ScaleInv, [ScaleNext]_scaleVars PROVE ScaleInv'
  OBVIOUS
<1>1. CASE asked = NoFormat /\ ScaleTick
  BY <1>1, ScaleTicks
<1>2. CASE FormatApplies
  <2>1. FormatOf(scale)' = FormatOf(scale) /\ sent' = asked /\ asked' = NoFormat /\ asked # NoFormat
        /\ UNCHANGED <<scale, cadence, network, sinceFall, calm, upsets>>
    BY <1>2 DEF FormatApplies, FormatOf
  <2>2. SoonTrue'
    BY <2>1 DEF ScaleInv, SoonTrue, IsTrue
  <2> QED
    BY <2>1, <2>2 DEF ScaleInv, FallsAreRemembered
<1>3. CASE FormatIsLost
  <2>1. /\ calm' = 0 /\ asked' = NoFormat /\ (sent' = sent \/ sent' = Ladder[scale.base][1])
        /\ UNCHANGED <<scale, cadence, network, sinceFall>> /\ upsets' \in Nat
    BY <1>3 DEF FormatIsLost, ScaleInv
  <2>2. sent' \in Steps(scale.base)
    BY <2>1, StepsAreFormats DEF ScaleInv, IsScale
  <2> QED
    BY <2>1, <2>2 DEF ScaleInv, SoonTrue, FallsAreRemembered
<1>4. CASE ScaleIsRebuilt
  <2>1. PICK base \in Bases \ {scale.base} : scale' = NewScale(base) /\ sent' = Ladder[base][1]
    BY <1>4 DEF ScaleIsRebuilt
  <2>2. IsScale(scale') /\ scale'.base = base /\ sent' \in Steps(scale'.base)
    BY <2>1, ANewScale
  <2>3. calm' = 0 /\ asked' = NoFormat /\ sinceFall' = Never /\ upsets' \in Nat /\ UNCHANGED <<cadence, network>>
    BY <1>4 DEF ScaleIsRebuilt, ScaleInv
  <2> QED
    BY <2>2, <2>3 DEF ScaleInv, SoonTrue, FallsAreRemembered, Never
<1>5. CASE NetworkTurns
  <2>1. calm' = 0 /\ network' \in Networks /\ UNCHANGED <<scale, cadence, sent, asked, sinceFall>> /\ upsets' \in Nat
    BY <1>5 DEF NetworkTurns, ScaleInv
  <2> QED
    BY <2>1 DEF ScaleInv, SoonTrue, FallsAreRemembered
<1>6. CASE ScaleIdles
  <2> DEFINE aged == [scale EXCEPT !.changed = Older(@, ScaleDwell)]
  <2> DEFINE aligned == Resync(aged, sent)
  <2>1. /\ calm' = 0 /\ scale' = ScaleRelease(aligned) /\ sinceFall' = Older(sinceFall, ScaleDwell)
        /\ UNCHANGED <<cadence, sent, asked, network>> /\ upsets' \in Nat
    BY <1>6 DEF ScaleIdles, ScaleInv
  <2>2. IsScale(aged) /\ aged.base = scale.base /\ aged.changed = Older(scale.changed, ScaleDwell)
    BY ScaleAges DEF ScaleInv
  <2> HIDE DEF aged
  <2>3. IsScale(aligned) /\ aligned.base = scale.base /\ (aligned = aged \/ aligned.changed = 0)
    BY <2>2, ScaleAligns
  <2> HIDE DEF aligned
  <2>4. IsScale(scale') /\ scale'.base = scale.base /\ scale'.changed = aligned.changed
    <3>1. aligned = [base |-> aligned.base, step |-> aligned.step, changed |-> aligned.changed,
                     lastAvail |-> aligned.lastAvail, below |-> aligned.below, qps |-> aligned.qps]
      BY <2>3 DEF IsScale
    <3>2. ScaleRelease(aligned) = [[[aligned EXCEPT !.qps = <<>>] EXCEPT !.lastAvail = 0] EXCEPT !.below = 0]
      BY DEF ScaleRelease
    <3>3. ScaleRelease(aligned) = [base |-> aligned.base, step |-> aligned.step, changed |-> aligned.changed,
                                   lastAvail |-> 0, below |-> 0, qps |-> <<>>]
      BY <3>1, <3>2
    <3> QED
      BY <3>3, <2>1, <2>3 DEF IsScale
  <2>5. sinceFall' \in Int /\ sinceFall' >= Never
    BY <2>1, WaitsAreNatural DEF ScaleInv, Older, AtMost, Never
  <2>6. FallsAreRemembered'
    <3> SUFFICES ASSUME sinceFall' # Never PROVE scale'.changed # Never /\ scale'.changed <= sinceFall'
      BY DEF FallsAreRemembered
    <3>1. sinceFall # Never
      BY <2>1 DEF Older
    <3>2. scale.changed # Never /\ scale.changed <= sinceFall
      BY <3>1 DEF ScaleInv, FallsAreRemembered
    <3>3. scale.changed \in Int /\ scale.changed >= -1
      BY WaitsAreNatural DEF ScaleInv, IsScale, Never
    <3>4. aged.changed \in Int /\ aged.changed >= 0 /\ aged.changed <= sinceFall' /\ sinceFall' >= 0
      BY <3>1, <3>2, <3>3, <2>1, <2>2, WaitsAreNatural DEF Older, AtMost, Never, ScaleInv
    <3> QED
      BY <3>4, <2>3, <2>4 DEF Never
  <2> QED
    BY <2>1, <2>4, <2>5, <2>6 DEF ScaleInv, SoonTrue
<1>7. CASE UNCHANGED scaleVars
  <2>1. FormatOf(scale)' = FormatOf(scale)
    BY <1>7 DEF scaleVars, FormatOf
  <2> QED
    BY <1>7, <2>1 DEF scaleVars, ScaleInv, SoonTrue, IsTrue, FallsAreRemembered
<1> QED
  BY <1>1, <1>2, <1>3, <1>4, <1>5, <1>6, <1>7 DEF ScaleNext

\* A request for a format that was lost is not lost for good: once nothing new has
\* happened for as long as the scale settles, what is sent is where the scale believes to
\* be (resync of internal/rtc/scale.go), and never is more declared than goes out
\* (internal/rtc/cadence.go).
THEOREM TheScaleIsTrue == ScaleSpec => [](TheScaleTellsTheTruth /\ TheDeclaredGoesOut)
<1>1. ScaleInv => TheScaleTellsTheTruth /\ TheDeclaredGoesOut
  <2> SUFFICES ASSUME ScaleInv PROVE TheScaleTellsTheTruth /\ TheDeclaredGoesOut
    OBVIOUS
  <2>1. TheScaleTellsTheTruth
    BY WaitsAreNatural DEF ScaleInv, SoonTrue, IsTrue, TheScaleTellsTheTruth
  <2>2. TheDeclaredGoesOut
    <3>1. Steadies[2] \in Nat
      BY ScaleAssumption
    <3> QED
      BY <3>1 DEF ScaleInv, TheDeclaredGoesOut
  <2> QED
    BY <2>1, <2>2
<1> QED
  BY <1>1, ScaleStarts, ScaleStep, PTL DEF ScaleSpec

\* What shrank stays so for the dwell: sizes do not go up and down with the network
\* (scaleGovernor.target of internal/rtc/scale.go), whatever it does.
THEOREM TheSizeHolds == ScaleSpec => TheSizeDoesNotFlap
<1>1. ScaleInv /\ [ScaleNext]_scaleVars =>
        [ScaleTick /\ sent = FormatOf(scale) /\ scale'.step < scale.step
           => sinceFall = Never \/ sinceFall + 1 >= ScaleDwell]_scaleVars
  <2> SUFFICES ASSUME ScaleInv, ScaleNext, ScaleTick, sent = FormatOf(scale), scale'.step < scale.step
               PROVE  sinceFall = Never \/ sinceFall + 1 >= ScaleDwell
    OBVIOUS
  <2>1. scale.step \in Nat
    BY StepsAreFormats DEF ScaleInv, IsScale
  <2>2. CASE asked = NoFormat
    BY <2>2, ScaleTicks
  <2>3. CASE asked # NoFormat
    <3>1. upsets' = upsets /\ upsets \in Nat
      BY DEF ScaleTick, ScaleInv
    <3>2. scale' # scale
      BY <2>1
    <3>3. ~FormatApplies /\ ~FormatIsLost /\ ~NetworkTurns
      BY <3>2 DEF FormatApplies, FormatIsLost, NetworkTurns
    <3>4. ~ScaleIsRebuilt /\ ~ScaleIdles
      BY <3>1 DEF ScaleIsRebuilt, ScaleIdles
    <3> QED
      BY <2>3, <3>3, <3>4 DEF ScaleNext
  <2> QED
    BY <2>2, <2>3
<1> QED
  BY <1>1, ScaleStarts, ScaleStep, PTL DEF ScaleSpec, TheSizeDoesNotFlap

-----------------------------------------------------------------------------
\* Quality: a number within what is granted, whatever is read.

IsQuality(q) ==
  /\ q = [current |-> q.current, moved |-> q.moved, throughput |-> q.throughput, qps |-> q.qps, wasFull |-> q.wasFull]
  /\ q.current \in Nat /\ q.throughput \in Seq(Nat) /\ q.qps \in Seq(Nat)

\* The readings after one more.
Noted(q, qp) == RollingAdd(q.qps, qp, QualityWindow, TRUE)

LEMMA PowersAreNumbers ==
  ASSUME NEW base \in Int, NEW t \in Int, t >= -60
  PROVE  TimesPower(base, t) \in Int
<1>1. \A i \in 1..12 : Twelfths[i] \in Int
  BY DEF Twelfths
<1>2. \A a \in Int : a \div 1000 \in Int /\ a \div 12 \in Int
  OBVIOUS
<1>3. CASE t >= 0
  <2> DEFINE k == t \div 12
  <2> DEFINE i == (t % 12) + 1
  <2>1. k \in Nat /\ i \in 1..12
    BY <1>3
  <2> HIDE DEF k, i
  <2>2. Twelfths[i] \in Int /\ 2 ^ k \in Int
    BY <1>1, <2>1
  <2> DEFINE part == base * Twelfths[i]
  <2>3. part \in Int
    BY <2>2
  <2> HIDE DEF part
  <2>4. (part * (2 ^ k)) + 500 \in Int
    BY <2>2, <2>3
  <2>5. TimesPower(base, t) = ((part * (2 ^ k)) + 500) \div 1000
    BY <1>3 DEF TimesPower, k, i, part
  <2> QED
    BY <1>2, <2>4, <2>5
<1>4. CASE ~(t >= 0)
  <2> DEFINE n == (11 - t) \div 12
  <2> DEFINE i == t + (12 * n) + 1
  <2>1. n \in 0..5 /\ i \in 1..12
    BY <1>4
  <2> HIDE DEF n, i
  <2>2. 2 ^ n \in Nat \ {0}
    <3>1. 2 ^ 0 \in Nat \ {0} /\ 2 ^ 1 \in Nat \ {0} /\ 2 ^ 2 \in Nat \ {0}
      OBVIOUS
    <3>2. 2 ^ 3 \in Nat \ {0} /\ 2 ^ 4 \in Nat \ {0} /\ 2 ^ 5 \in Nat \ {0}
      OBVIOUS
    <3>3. n = 0 \/ n = 1 \/ n = 2 \/ n = 3 \/ n = 4 \/ n = 5
      BY <2>1
    <3> QED
      BY <3>1, <3>2, <3>3
  <2> DEFINE m == 2 ^ n
  <2>3. m \in Nat \ {0} /\ Twelfths[i] \in Int
    BY <1>1, <2>1, <2>2
  <2> HIDE DEF m
  <2> DEFINE part == (base * Twelfths[i]) + (500 * m)
  <2> DEFINE whole == 1000 * m
  <2>4. part \in Int /\ whole \in Nat \ {0}
    BY <2>3
  <2>5. TimesPower(base, t) = part \div whole
    BY <1>4 DEF TimesPower, n, i, m
  <2> HIDE DEF part, whole
  <2>6. part \div whole \in Int
    BY <2>4
  <2> QED
    BY <2>5, <2>6
<1> QED
  BY <1>3, <1>4

LEMMA CeilingsLower ==
  ASSUME NEW q, q.current \in Nat, NEW want \in Int, NEW cap \in Nat, NEW mean \in Nat
  PROVE  ByteCeiling(q, want, cap, mean) \in Int /\ ByteCeiling(q, want, cap, mean) <= want
<1>1. CASE mean = 0
  BY <1>1 DEF ByteCeiling
<1>2. CASE mean # 0
  <2>1. \A a \in Int, b \in Nat \ {0} : a \div b \in Int
    OBVIOUS
  <2>2. q.current * cap \in Int
    OBVIOUS
  <2>3. (q.current * cap) \div mean \in Int
    BY <1>2, <2>1, <2>2
  <2>4. ByteCeiling(q, want, cap, mean) = want
        \/ ByteCeiling(q, want, cap, mean) = AtMost((q.current * cap) \div mean, want)
    BY DEF ByteCeiling
  <2> QED
    BY <2>3, <2>4 DEF AtMost
<1> QED
  BY <1>1, <1>2

\* The ceiling falls below what is asked for only where more than that comes out.
LEMMA CeilingsFall ==
  ASSUME NEW q, q.current \in Nat, NEW cap \in Nat, NEW mean \in Nat, q.current <= cap,
         ByteCeiling(q, cap, cap, mean) < q.current
  PROVE  mean > q.current
<1> DEFINE was == q.current
<1>1. mean # 0 /\ ByteCeiling(q, cap, cap, mean) = AtMost((was * cap) \div mean, cap)
  BY DEF ByteCeiling
<1>2. \A a \in Nat, b \in Nat \ {0}, c \in Nat : a \div b < c => a < b * c
  OBVIOUS
<1>3. \A a, b, c \in Nat : a * b < c * a => b < c
  OBVIOUS
<1>4. was * cap \in Nat /\ mean \in Nat \ {0} /\ was \in Nat
  BY <1>1
<1>5. (was * cap) \div mean < was
  BY <1>1, <1>4 DEF AtMost
<1>6. was * cap < mean * was
  BY <1>2, <1>4, <1>5
<1>7. cap < mean
  BY <1>3, <1>4, <1>6
<1> QED
  BY <1>7

\* What the quality's governor may do: stay within what is granted, keep no reading of
\* another size, and fall below what is granted only on a full window of readings or
\* because more comes out than is asked for.
Decided(q0, qp, cap, full, next) ==
  /\ IsQuality(next)
  /\ Len(next.qps) = 0 \/ (full /\ Len(next.qps) = Len(Noted(q0, qp)))
  /\ cap >= KbpsFloor => next.current <= cap
  /\ next.current < q0.current /\ q0.current <= cap =>
       Len(next.qps) >= QualityWindow \/ MeanOf(next.throughput, QualityWindow) > q0.current

LEMMA QualityDecides ==
  ASSUME NEW q0, IsQuality(q0), NEW qp \in -1..51, NEW produced \in Nat,
         NEW cap \in Nat, NEW full \in BOOLEAN, NEW stirred \in BOOLEAN
  PROVE  Decided(q0, qp, cap, full, QualityTarget(q0, qp, produced, cap, full, stirred))
<1> DEFINE throughput == RollingAdd(q0.throughput, produced, QualityWindow, FALSE)
<1> DEFINE mean == MeanOf(throughput, QualityWindow)
<1> DEFINE qps == IF Counts(q0, full) THEN Noted(q0, qp) ELSE <<>>
<1> DEFINE meanQP == Rounded(qps)
<1> DEFINE q == [q0 EXCEPT !.throughput = throughput, !.qps = qps, !.wasFull = full]
<1> DEFINE shortfall == meanQP - TargetQP
<1> DEFINE next == QualityTarget(q0, qp, produced, cap, full, stirred)
<1>0. QualityWindow \in Nat \ {0} /\ TargetQP \in 1..51
  BY QualityAssumption
<1>1. throughput \in Seq(Nat)
  <2>1. q0.throughput \in Seq(Nat) /\ produced \in Int /\ FALSE \in BOOLEAN
    BY DEF IsQuality
  <2> QED
    BY <1>0, <2>1, WindowsKeep
<1> HIDE DEF throughput
<1>2. mean \in Nat
  BY <1>0, <1>1, MeanIsNatural
<1> HIDE DEF mean
<1>3. qps \in Seq(Nat)
  <2>1. RollingAdd(q0.qps, qp, QualityWindow, TRUE) \in Seq(Nat) /\ <<>> \in Seq(Nat)
    <3>1. q0.qps \in Seq(Nat)
      BY DEF IsQuality
    <3>2. qp \in Int
      OBVIOUS
    <3>3. RollingAdd(q0.qps, qp, QualityWindow, TRUE) \in Seq(Nat)
      BY <1>0, <3>1, <3>2, TRUE \in BOOLEAN, WindowsKeep
    <3>4. <<>> \in Seq(Nat)
      OBVIOUS
    <3> QED
      BY <3>3, <3>4
  <2> QED
    BY <2>1 DEF Noted
<1>14. Len(qps) = 0 \/ (full /\ Len(qps) = Len(Noted(q0, qp)))
  <2>1. qps = <<>> \/ (full /\ qps = Noted(q0, qp))
    BY DEF Counts
  <2>2. Len(<<>>) = 0
    OBVIOUS
  <2> HIDE DEF qps
  <2> QED
    BY <2>1, <2>2
<1> HIDE DEF qps
<1>4. meanQP \in Nat /\ (meanQP > 0 => Len(qps) >= QualityWindow)
  <2>1. Total[qps] \in Nat /\ Len(qps) \in Nat
    BY <1>3, TotalIsNatural
  <2>2. CASE Len(qps) < QualityWindow
    <3>1. Rounded(qps) = 0
      BY <2>2 DEF Rounded
    <3> QED
      BY <3>1
  <2>3. CASE ~(Len(qps) < QualityWindow)
    <3>1. Len(qps) \in Nat \ {0}
      BY <2>1, <2>3, <1>0
    <3> DEFINE few == Len(qps)
    <3> DEFINE all == Total[qps] + (few \div 2)
    <3>2. all \in Nat /\ few \in Nat \ {0}
      <4> HIDE DEF few
      <4>1. few \in Nat \ {0}
        BY <3>1 DEF few
      <4>2. few \div 2 \in Nat
        BY <4>1
      <4> QED
        BY <4>1, <4>2, <2>1
    <3>3. Rounded(qps) = all \div few
      BY <2>3 DEF Rounded
    <3> HIDE DEF few, all
    <3>4. all \div few \in Nat
      BY <3>2
    <3> QED
      BY <3>3, <3>4, <2>1, <2>3, <1>0
  <2> QED
    BY <2>2, <2>3
<1> HIDE DEF meanQP
<1>5. IsQuality(q) /\ q.current = q0.current /\ q.throughput = throughput /\ q.qps = qps
  <2>1. q0 = [current |-> q0.current, moved |-> q0.moved, throughput |-> q0.throughput,
              qps |-> q0.qps, wasFull |-> q0.wasFull]
    BY DEF IsQuality
  <2> DEFINE q1 == [q0 EXCEPT !.throughput = throughput]
  <2> DEFINE q2 == [q1 EXCEPT !.qps = qps]
  <2>2. q1 = [current |-> q0.current, moved |-> q0.moved, throughput |-> throughput, qps |-> q0.qps, wasFull |-> q0.wasFull]
    BY <2>1
  <2>4. q = [q2 EXCEPT !.wasFull = full]
    OBVIOUS
  <2> HIDE DEF q1
  <2>5. q2 = [current |-> q0.current, moved |-> q0.moved, throughput |-> throughput, qps |-> qps, wasFull |-> q0.wasFull]
    BY <2>2
  <2> HIDE DEF q2
  <2>3. q = [current |-> q0.current, moved |-> q0.moved, throughput |-> throughput, qps |-> qps, wasFull |-> full]
    BY <2>4, <2>5
  <2> HIDE DEF q
  <2> QED
    BY <2>3, <1>1, <1>3 DEF IsQuality
<1>6. next = IF q.current > cap THEN [q EXCEPT !.current = cap, !.moved = 0]
             ELSE IF ~full \/ meanQP <= 0 THEN AtCap(q, cap, mean)
             ELSE IF stirred /\ q.current < cap THEN GivesBack(q, cap, mean)
             ELSE IF IsSettling(q) \/ shortfall \in -1..1 THEN q
             ELSE Moves(q, Fits(q, shortfall, produced, cap, mean))
  BY DEF QualityTarget, Noted, throughput, mean, qps, meanQP
<1> HIDE DEF q, next
<1> SUFFICES /\ IsQuality(next) /\ next.qps = qps /\ next.throughput = throughput
             /\ cap >= 300 => next.current <= cap
             /\ next.current < q.current /\ q.current <= cap => meanQP > 0 \/ mean > q.current
  BY <1>4, <1>5, <1>14 DEF next, mean, KbpsFloor, Decided
<1>7. q.current \in Nat
  BY <1>5 DEF IsQuality
\* A new number is taken as it is.
<1>8. ASSUME NEW kbps \in Nat, next = Moves(q, kbps) \/ next = [q EXCEPT !.current = kbps, !.moved = 0]
      PROVE  IsQuality(next) /\ next.current = kbps /\ next.qps = qps /\ next.throughput = throughput
  <2>1. q = [current |-> q.current, moved |-> q.moved, throughput |-> q.throughput, qps |-> q.qps, wasFull |-> q.wasFull]
    BY <1>5 DEF IsQuality
  <2>2. CASE next = q /\ kbps = q.current
    BY <2>2, <1>5, <1>8
  <2>3. CASE next = [q EXCEPT !.current = kbps, !.moved = 0]
    <3>1. next = [[q EXCEPT !.current = kbps] EXCEPT !.moved = 0]
      BY <2>3
    <3>2. next = [current |-> kbps, moved |-> 0, throughput |-> q.throughput, qps |-> q.qps, wasFull |-> q.wasFull]
      BY <2>1, <3>1
    <3> QED
      BY <3>2, <1>5, <1>8 DEF IsQuality
  <2> QED
    BY <1>8, <2>2, <2>3 DEF Moves
<1>9. CASE q.current > cap
  <2>1. next = [q EXCEPT !.current = cap, !.moved = 0]
    BY <1>6, <1>9
  <2>2. IsQuality(next) /\ next.current = cap /\ next.qps = qps /\ next.throughput = throughput
    BY <2>1, <1>8
  <2> QED
    BY <2>2, <1>7, <1>9
<1>10. CASE ~(q.current > cap) /\ next = q
  BY <1>5, <1>7, <1>10
<1>11. CASE ~(q.current > cap) /\ next = AtCap(q, cap, mean)
  <2>1. ByteCeiling(q, cap, cap, mean) \in Int /\ ByteCeiling(q, cap, cap, mean) <= cap
    BY <1>2, <1>7, CeilingsLower, cap \in Int
  <2> DEFINE kbps == AtLeast(ByteCeiling(q, cap, cap, mean), KbpsFloor)
  <2>2. kbps \in Nat /\ (cap >= 300 => kbps <= cap)
    BY <2>1, <1>7 DEF AtLeast, KbpsFloor
  <2>3. kbps < q.current => mean > q.current
    <3>1. kbps < q.current => ByteCeiling(q, cap, cap, mean) < q.current
      BY <2>1, <1>7 DEF AtLeast, KbpsFloor
    <3>2. ByteCeiling(q, cap, cap, mean) < q.current => mean > q.current
      BY <1>2, <1>7, <1>11, CeilingsFall
    <3> QED
      BY <3>1, <3>2
  <2>4. next = q \/ next = Moves(q, kbps)
    BY <1>11 DEF AtCap
  <2> HIDE DEF kbps
  <2>5. CASE next = q
    BY <2>5, <1>10, <1>11
  <2>6. CASE next = Moves(q, kbps)
    <3>1. IsQuality(next) /\ next.current = kbps /\ next.qps = qps /\ next.throughput = throughput
      BY <2>2, <2>6, <1>8
    <3> QED
      BY <3>1, <2>2, <2>3
  <2> QED
    BY <2>4, <2>5, <2>6
<1>12. CASE ~(q.current > cap) /\ next = GivesBack(q, cap, mean)
  <2> DEFINE kbps == ByteCeiling(q, cap, cap, mean)
  <2>1. kbps \in Int /\ kbps <= cap
    BY <1>2, <1>7, CeilingsLower, cap \in Int
  <2>2. next = q \/ (kbps > q.current /\ next = Moves(q, kbps))
    BY <1>12, <2>1, <1>7 DEF GivesBack
  <2> HIDE DEF kbps
  <2>3. CASE next = q
    BY <2>3, <1>10, <1>12
  <2>4. CASE kbps > q.current /\ next = Moves(q, kbps)
    <3>1. kbps \in Nat
      BY <2>4, <2>1, <1>7
    <3>2. IsQuality(next) /\ next.current = kbps /\ next.qps = qps /\ next.throughput = throughput
      BY <3>1, <2>4, <1>8
    <3> QED
      BY <3>2, <2>1, <2>4, <1>7
  <2> QED
    BY <2>2, <2>3, <2>4
<1>13. CASE ~(q.current > cap) /\ ~(meanQP <= 0) /\ next = Moves(q, Fits(q, shortfall, produced, cap, mean))
  <2> DEFINE out == IF produced <= 0 THEN q.current ELSE produced
  <2> DEFINE base == Base(q, shortfall, out)
  <2> DEFINE twelfths == IF shortfall > 0 THEN 2 * shortfall ELSE shortfall
  <2> DEFINE want == AtMost(TimesPower(base, twelfths), cap)
  <2> DEFINE kbps == AtMost(AtLeast(ByteCeiling(q, want, cap, mean), KbpsFloor), cap)
  <2>1. shortfall \in Int /\ shortfall >= -50
    BY <1>0, <1>4, <1>13
  <2> HIDE DEF shortfall
  <2>2. out \in Int
    BY <1>7
  <2> HIDE DEF out
  <2>3. base \in Int /\ twelfths \in Int /\ twelfths >= -60
    BY <2>1, <2>2, <1>7 DEF Base, AtLeast
  <2> HIDE DEF base, twelfths
  <2>4. want \in Int
    BY <2>3, PowersAreNumbers DEF AtMost
  <2>5. Fits(q, shortfall, produced, cap, mean) = kbps
    BY DEF Fits, want, base, twelfths, out
  <2> HIDE DEF want
  <2>6. ByteCeiling(q, want, cap, mean) \in Int
    BY <2>4, <1>2, <1>7, CeilingsLower
  <2>7. kbps \in Nat /\ kbps <= cap
    BY <2>6, <1>7 DEF AtMost, AtLeast, KbpsFloor
  <2> HIDE DEF kbps
  <2>8. IsQuality(next) /\ next.current = kbps /\ next.qps = qps /\ next.throughput = throughput
    BY <2>5, <2>7, <1>8, <1>13
  <2> QED
    BY <2>7, <2>8, <1>4, <1>13
<1> QED
  BY <1>6, <1>9, <1>10, <1>11, <1>12, <1>13 DEF next

\* A window is never longer than it is kept, and grows and ages by one.
LEMMA WindowsAreShort ==
  ASSUME NEW w \in Seq(Nat), NEW sample \in Int, NEW keep \in Nat \ {0}, Len(w) <= keep
  PROVE  LET longer == RollingAdd(w, sample, keep, TRUE) IN
         /\ Len(longer) \in Nat /\ Len(longer) <= keep
         /\ sample > 0 => Len(longer) <= Len(w) + 1
         /\ ~(sample > 0) => Len(longer) <= AtLeast(Len(w) - 1, 0)
<1> DEFINE longer == RollingAdd(w, sample, keep, TRUE)
<1> SUFFICES /\ Len(longer) \in Nat /\ Len(longer) <= keep
             /\ sample > 0 => Len(longer) <= Len(w) + 1
             /\ ~(sample > 0) => Len(longer) <= AtLeast(Len(w) - 1, 0)
  OBVIOUS
<1>1. Len(w) \in Nat
  OBVIOUS
<1>2. CASE sample > 0
  <2> DEFINE more == Append(w, sample)
  <2>1. more \in Seq(Nat) /\ more # <<>> /\ Len(more) = Len(w) + 1
    BY <1>2
  <2>2. Len(Tail(more)) = Len(w)
    BY <2>1, <1>1, TailIsShorter
  <2>3. longer = (IF Len(more) > keep THEN Tail(more) ELSE more)
    BY <1>2 DEF RollingAdd
  <2> HIDE DEF more, longer
  <2>4. CASE Len(more) > keep
    BY <2>1, <2>2, <2>3, <2>4, <1>1, <1>2
  <2>5. CASE ~(Len(more) > keep)
    BY <2>1, <2>3, <2>5, <1>1, <1>2
  <2> QED
    BY <2>4, <2>5
<1>3. CASE ~(sample > 0)
  <2>1. CASE w = <<>>
    <3>1. longer = w
      BY <1>3, <2>1 DEF RollingAdd
    <3> HIDE DEF longer
    <3>2. Len(w) = 0
      BY <2>1
    <3> QED
      BY <3>1, <3>2, <1>1, <1>3 DEF AtLeast
  <2>2. CASE w # <<>>
    <3>1. longer = Tail(w)
      BY <1>3, <2>2 DEF RollingAdd
    <3> HIDE DEF longer
    <3>2. Len(Tail(w)) = Len(w) - 1 /\ Len(w) \in Nat \ {0}
      BY <2>2, TailIsShorter
    <3> QED
      BY <3>1, <3>2, <1>1, <1>3 DEF AtLeast
  <2> QED
    BY <2>1, <2>2
<1> QED
  BY <1>2, <1>3

\* Every reading that counts was taken at full size, and so many ticks ago.
QualityInv ==
  /\ IsQuality(quality) /\ scene \in QualityScenes
  /\ fullFor \in 0..QualityWindow /\ Len(quality.qps) <= fullFor

LEMMA NewQualities ==
  ASSUME NEW kbps \in Nat
  PROVE  /\ IsQuality(NewQuality(kbps)) /\ NewQuality(kbps).current = kbps /\ Len(NewQuality(kbps).qps) = 0
         /\ \A q : /\ IsQuality(QualityRelease(q, kbps)) /\ QualityRelease(q, kbps).current = kbps
                   /\ Len(QualityRelease(q, kbps).qps) = 0
<1>1. <<>> \in Seq(Nat) /\ Len(<<>>) = 0
  OBVIOUS
<1> QED
  BY <1>1 DEF IsQuality, NewQuality, QualityRelease

LEMMA QualityAges ==
  ASSUME NEW q, IsQuality(q), NEW ago
  PROVE  LET aged == [q EXCEPT !.moved = ago] IN
         /\ IsQuality(aged) /\ aged.current = q.current /\ aged.qps = q.qps /\ aged.throughput = q.throughput
<1> DEFINE aged == [q EXCEPT !.moved = ago]
<1>1. aged = [current |-> q.current, moved |-> ago, throughput |-> q.throughput, qps |-> q.qps, wasFull |-> q.wasFull]
  <2>1. \A c, m, t, p, f :
          LET r == [current |-> c, moved |-> m, throughput |-> t, qps |-> p, wasFull |-> f] IN
          [r EXCEPT !.moved = ago] = [current |-> c, moved |-> ago, throughput |-> t, qps |-> p, wasFull |-> f]
    OBVIOUS
  <2>2. q = [current |-> q.current, moved |-> q.moved, throughput |-> q.throughput, qps |-> q.qps, wasFull |-> q.wasFull]
    BY DEF IsQuality
  <2> QED
    BY ONLY <2>1, <2>2, SMTT(30) DEF aged
<1> HIDE DEF aged
<1>2. IsQuality(aged) /\ aged.current = q.current /\ aged.qps = q.qps /\ aged.throughput = q.throughput
  BY <1>1 DEF IsQuality
<1> QED
  BY <1>2 DEF aged

LEMMA QualityTicks ==
  ASSUME QualityInv, QualityTick
  PROVE  /\ QualityInv'
         /\ quality'.current < quality.current /\ quality.current <= scene.cap =>
              fullFor' = QualityWindow \/ MeanOf(quality'.throughput, QualityWindow) > quality.current
<1> DEFINE aged == [quality EXCEPT !.moved = Older(@, QualitySettle)]
<1> DEFINE produced == (scene.halves * quality.current) \div 2
<1> DEFINE next == QualityTarget(aged, scene.qp, produced, scene.cap, scene.full, scene.stirred)
<1>0. QualityWindow \in Nat \ {0}
  BY QualityAssumption
<1>1. /\ scene.qp \in -1..51 /\ scene.halves \in 0..3 /\ scene.cap \in Nat
      /\ scene.full \in BOOLEAN /\ scene.stirred \in BOOLEAN
  BY QualityAssumption DEF QualityInv, QualityScenes
<1>2. /\ IsQuality(aged) /\ aged.current = quality.current /\ aged.qps = quality.qps
      /\ quality.current \in Nat /\ quality.qps \in Seq(Nat)
  BY QualityAges DEF QualityInv, IsQuality
<1>3. produced \in Nat
  <2>1. scene.halves * quality.current \in Nat
    BY <1>1, <1>2
  <2>2. \A a \in Nat : a \div 2 \in Nat
    OBVIOUS
  <2> QED
    BY <2>1, <2>2
<1>4. /\ quality' = next /\ scene' = scene
      /\ fullFor' = (IF scene.full /\ scene.qp > 0 THEN AtMost(fullFor + 1, QualityWindow)
                     ELSE IF scene.full /\ fullFor > 0 THEN fullFor - 1 ELSE 0)
  BY DEF QualityTick
<1> HIDE DEF aged, produced
<1>10. Decided(aged, scene.qp, scene.cap, scene.full, next)
  BY <1>1, <1>2, <1>3, QualityDecides
<1> HIDE DEF next
<1>5. /\ IsQuality(next)
      /\ Len(next.qps) = 0 \/ (scene.full /\ Len(next.qps) = Len(Noted(aged, scene.qp)))
      /\ next.current < aged.current /\ aged.current <= scene.cap =>
           Len(next.qps) >= QualityWindow \/ MeanOf(next.throughput, QualityWindow) > aged.current
  BY <1>10 DEF Decided
<1>6. Len(quality.qps) \in Nat /\ Len(quality.qps) <= fullFor /\ fullFor \in 0..QualityWindow
  BY <1>2 DEF QualityInv
<1>7. /\ fullFor' \in 0..QualityWindow
      /\ Len(next.qps) <= fullFor' /\ Len(next.qps) \in Nat
  <2> DEFINE longer == RollingAdd(quality.qps, scene.qp, QualityWindow, TRUE)
  <2>1. /\ Len(longer) \in Nat /\ Len(longer) <= QualityWindow
        /\ scene.qp > 0 => Len(longer) <= Len(quality.qps) + 1
        /\ ~(scene.qp > 0) => Len(longer) <= AtLeast(Len(quality.qps) - 1, 0)
    <3>1. scene.qp \in Int
      BY <1>1
    <3>2. Len(quality.qps) <= QualityWindow
      BY <1>0, <1>6
    <3> QED
      BY <1>0, <1>2, <3>1, <3>2, WindowsAreShort
  <2>2. Len(next.qps) = 0 \/ (scene.full /\ Len(next.qps) = Len(longer))
    BY <1>1, <1>2, <1>5 DEF Noted
  <2> HIDE DEF longer
  <2>4. fullFor' \in 0..QualityWindow
    BY <1>0, <1>4, <1>6 DEF AtMost
  <2>5. CASE scene.full /\ Len(next.qps) = Len(longer)
    BY <1>0, <1>1, <1>4, <1>6, <2>1, <2>4, <2>5 DEF AtMost, AtLeast
  <2>6. CASE Len(next.qps) = 0
    BY <2>4, <2>6
  <2> QED
    BY <2>2, <2>4, <2>5, <2>6
<1>8. QualityInv'
  BY <1>4, <1>5, <1>7 DEF QualityInv
<1>9. quality'.current < quality.current /\ quality.current <= scene.cap =>
        fullFor' = QualityWindow \/ MeanOf(quality'.throughput, QualityWindow) > quality.current
  BY <1>0, <1>2, <1>4, <1>5, <1>7
<1> QED
  BY <1>8, <1>9

LEMMA QualityStep == QualityInv /\ [QualityNext]_qualityVars => QualityInv'
<1> SUFFICES ASSUME QualityInv, [QualityNext]_qualityVars PROVE QualityInv'
  OBVIOUS
<1>0. QualityWindow \in Nat \ {0} /\ Caps \subseteq Nat
  BY QualityAssumption
<1>1. CASE QualityTick
  BY <1>1, QualityTicks
<1>2. CASE SceneChanges
  BY <1>2 DEF SceneChanges, QualityInv
<1>3. CASE QualityIdles
  <2>1. scene.cap \in Nat
    BY <1>0 DEF QualityInv, QualityScenes
  <2>2. IsQuality(quality') /\ Len(quality'.qps) = 0 /\ fullFor' = 0 /\ scene' = scene
    BY <1>3, <2>1, NewQualities DEF QualityIdles
  <2> QED
    BY <1>0, <2>2 DEF QualityInv
<1>4. CASE UNCHANGED qualityVars
  BY <1>4 DEF qualityVars, QualityInv
<1> QED
  BY <1>1, <1>2, <1>3, <1>4 DEF QualityNext

LEMMA QualityStarts == QualityInit => QualityInv
<1> SUFFICES ASSUME QualityInit PROVE QualityInv
  OBVIOUS
<1>1. QualityWindow \in Nat \ {0} /\ scene.cap \in Nat
  BY QualityAssumption DEF QualityInit, QualityScenes
<1>2. IsQuality(quality) /\ Len(quality.qps) = 0
  BY <1>1, NewQualities DEF QualityInit
<1> QED
  BY <1>1, <1>2 DEF QualityInit, QualityInv

\* The picture is asked for less than the network grants only after a whole window of
\* readings at this size, or because more came out than was asked for: Target of
\* quality.go, whatever the quantiser, the encoder, the cap, the size and the motion do.
THEOREM ADiscountIsEarned == QualitySpec => ADiscountRestsOnReadings
<1>1. QualityInv /\ [QualityNext]_qualityVars =>
        [QualityTick /\ quality'.current < quality.current /\ quality.current <= scene.cap =>
           \/ fullFor' = QualityWindow
           \/ MeanOf(quality'.throughput, QualityWindow) > quality.current]_qualityVars
  BY QualityTicks
<1> QED
  BY <1>1, QualityStarts, QualityStep, PTL DEF QualitySpec, ADiscountRestsOnReadings

-----------------------------------------------------------------------------
\* The loop: the governors one after the other, on one record.

IsControl(c) ==
  /\ c = [gov |-> c.gov, quality |-> c.quality, scale |-> c.scale, cadence |-> c.cadence,
          window |-> c.window, losses |-> c.losses, inForce |-> c.inForce]
  /\ IsGovernor(c.gov) /\ IsQuality(c.quality) /\ IsScale(c.scale)
  /\ c.window \in Seq(Nat) /\ IsLosses(c.losses) /\ c.inForce \in Nat

\* What is asked for is what both governors say.
Meant(c) == c.inForce = c.quality.current /\ c.inForce <= c.gov.current

\* Either the window begins anew, or nothing its samples depend on is another.
Continues(c, d) ==
  \/ d.window = <<>>
  \/ /\ d.window = c.window /\ d.inForce = c.inForce
     /\ d.scale.base = c.scale.base /\ d.scale.step = c.scale.step
     /\ d.cadence.declared = c.cadence.declared

LEMMA ContinuesOn ==
  ASSUME NEW c, NEW d, NEW e, Continues(c, d), Continues(d, e)
  PROVE  Continues(c, e)
  BY DEF Continues

LEMMA Readings ==
  ASSUME world \in Worlds
  PROVE  /\ world.base \in Bases /\ world.qp \in -1..51 /\ world.estimate \in Nat /\ world.halves \in Nat
         /\ world.watched \in BOOLEAN /\ world.stirred \in BOOLEAN /\ world.measured \in Nat
         /\ Ceiling >= KbpsFloor /\ Top = Ceiling /\ Top \in Nat
<1>1. Ceiling \in Nat /\ Ceiling >= KbpsFloor
  BY BandwidthAssumption, ControlAssumption
<1>2. Top = Ceiling
  BY <1>1 DEF Top, AtLeast, KbpsFloor
<1> QED
  BY <1>1, <1>2, ControlAssumption

\* Everything a second older.
LEMMA ControlAges ==
  ASSUME NEW c, IsControl(c)
  PROVE  LET aged == Aged(c) IN
         /\ IsControl(aged)
         /\ aged.gov.current = c.gov.current /\ aged.quality.current = c.quality.current
         /\ aged.window = c.window /\ aged.inForce = c.inForce /\ aged.cadence = c.cadence
         /\ aged.scale.base = c.scale.base /\ aged.scale.step = c.scale.step
<1> DEFINE bits == [c.gov EXCEPT !.rise = Older(@, RiseWait)]
<1> DEFINE qual == [c.quality EXCEPT !.moved = Older(@, QualitySettle)]
<1> DEFINE size == [c.scale EXCEPT !.changed = Older(@, ScaleDwell)]
<1> DEFINE lost == [c.losses EXCEPT !.age = Older(@, LossWindow + 1)]
<1> DEFINE aged == Aged(c)
<1>1. IsGovernor(bits) /\ bits.current = c.gov.current
  <2>0. RiseWait \in Nat \ {0}
    BY BandwidthAssumption
  <2>1. bits = [current |-> c.gov.current, rise |-> Older(c.gov.rise, RiseWait)]
    BY DEF IsControl, IsGovernor
  <2>2. Older(c.gov.rise, RiseWait) \in Never..RiseWait
    BY <2>0 DEF IsControl, IsGovernor, Older, AtMost, Never
  <2> HIDE DEF bits
  <2> QED
    BY <2>1, <2>2 DEF IsControl, IsGovernor
<1>2. IsQuality(qual) /\ qual.current = c.quality.current
  BY QualityAges DEF IsControl
<1>3. IsScale(size) /\ size.base = c.scale.base /\ size.step = c.scale.step
  BY ScaleAges DEF IsControl
<1>4. IsLosses(lost)
  BY LossesAreRecorded, 0 \in Nat DEF IsControl
<1>5. aged = [gov |-> bits, quality |-> qual, scale |-> size, cadence |-> c.cadence,
              window |-> c.window, losses |-> lost, inForce |-> c.inForce]
  <2>1. c = [gov |-> c.gov, quality |-> c.quality, scale |-> c.scale, cadence |-> c.cadence,
             window |-> c.window, losses |-> c.losses, inForce |-> c.inForce]
    BY DEF IsControl
  <2> DEFINE c1 == [c EXCEPT !.gov = bits]
  <2> DEFINE c2 == [c1 EXCEPT !.quality = qual]
  <2> DEFINE c3 == [c2 EXCEPT !.scale = size]
  <2>2. c1 = [gov |-> bits, quality |-> c.quality, scale |-> c.scale, cadence |-> c.cadence,
              window |-> c.window, losses |-> c.losses, inForce |-> c.inForce]
    BY <2>1
  <2>3. aged = [c3 EXCEPT !.losses = lost]
    BY DEF Aged
  <2> HIDE DEF c1, bits, qual, size, lost, aged
  <2>4. c2 = [gov |-> bits, quality |-> qual, scale |-> c.scale, cadence |-> c.cadence,
              window |-> c.window, losses |-> c.losses, inForce |-> c.inForce]
    BY <2>2
  <2> HIDE DEF c2
  <2>5. c3 = [gov |-> bits, quality |-> qual, scale |-> size, cadence |-> c.cadence,
              window |-> c.window, losses |-> c.losses, inForce |-> c.inForce]
    BY <2>4
  <2> HIDE DEF c3
  <2> QED
    BY <2>3, <2>5
<1> HIDE DEF bits, qual, size, lost
<1>6. c.window \in Seq(Nat) /\ c.inForce \in Nat
  BY DEF IsControl
<1> SUFFICES /\ IsControl(aged)
             /\ aged.gov.current = c.gov.current /\ aged.quality.current = c.quality.current
             /\ aged.window = c.window /\ aged.inForce = c.inForce /\ aged.cadence = c.cadence
             /\ aged.scale.base = c.scale.base /\ aged.scale.step = c.scale.step
  OBVIOUS
<1> HIDE DEF aged
<1> QED
  BY <1>1, <1>2, <1>3, <1>4, <1>5, <1>6 DEF IsControl

\* Another size captured: the scale begins anew.
LEMMA ControlRebuilds ==
  ASSUME world \in Worlds, NEW c, IsControl(c)
  PROVE  LET built == Rebuilds(c) IN
         /\ IsControl(built) /\ built.gov = c.gov /\ built.quality = c.quality
         /\ built.inForce = c.inForce /\ built.cadence = c.cadence
         /\ c.scale.base = world.base => built = c
<1> DEFINE fresh == NewScale(world.base)
<1> DEFINE built == Rebuilds(c)
<1>1. CASE c.scale.base = world.base
  BY <1>1 DEF Rebuilds
<1>2. CASE c.scale.base # world.base
  <2>1. IsScale(fresh)
    BY ANewScale, Readings
  <2>2. c = [gov |-> c.gov, quality |-> c.quality, scale |-> c.scale, cadence |-> c.cadence,
             window |-> c.window, losses |-> c.losses, inForce |-> c.inForce]
    BY DEF IsControl
  <2>3. built = [[c EXCEPT !.scale = fresh] EXCEPT !.window = <<>>]
    BY <1>2 DEF Rebuilds
  <2> HIDE DEF fresh, built
  <2>4. built = [gov |-> c.gov, quality |-> c.quality, scale |-> fresh, cadence |-> c.cadence,
                 window |-> <<>>, losses |-> c.losses, inForce |-> c.inForce]
    BY <2>2, <2>3
  <2>5. <<>> \in Seq(Nat)
    OBVIOUS
  <2>6. /\ IsControl(built) /\ built.gov = c.gov /\ built.quality = c.quality
        /\ built.inForce = c.inForce /\ built.cadence = c.cadence
    BY <2>1, <2>4, <2>5 DEF IsControl
  <2> QED
    BY <2>6, <1>2 DEF built
<1> QED
  BY <1>1, <1>2

LEMMA ControlMeasures ==
  ASSUME world \in Worlds, NEW c, IsControl(c)
  PROVE  LET measured == Measures(c) IN
         /\ IsControl(measured) /\ measured.gov = c.gov /\ measured.quality = c.quality
         /\ measured.scale = c.scale /\ measured.inForce = c.inForce /\ measured.cadence = c.cadence
<1> DEFINE came == (world.halves * c.inForce) \div 2
<1> DEFINE longer == SentAdd(c.window, came)
<1> DEFINE measured == Measures(c)
<1>1. came \in Int
  <2>1. world.halves * c.inForce \in Int
    BY Readings DEF IsControl
  <2>2. \A a \in Int : a \div 2 \in Int
    OBVIOUS
  <2> QED
    BY <2>1, <2>2
<1>2. measured = [c EXCEPT !.window = longer]
  BY DEF Measures
<1> HIDE DEF came, measured
<1>3. longer \in Seq(Nat)
  <2>1. c.window \in Seq(Nat) /\ SentSamples \in Nat \ {0} /\ TRUE \in BOOLEAN
    BY BandwidthAssumption DEF IsControl
  <2> QED
    BY <1>1, <2>1, WindowsKeep DEF SentAdd
<1> HIDE DEF longer
<1>4. measured = [gov |-> c.gov, quality |-> c.quality, scale |-> c.scale, cadence |-> c.cadence,
                  window |-> longer, losses |-> c.losses, inForce |-> c.inForce]
  BY <1>2 DEF IsControl
<1>5. /\ IsControl(measured) /\ measured.gov = c.gov /\ measured.quality = c.quality
      /\ measured.scale = c.scale /\ measured.inForce = c.inForce /\ measured.cadence = c.cadence
  BY <1>3, <1>4 DEF IsControl
<1> QED
  BY <1>5 DEF measured

\* What is sent is looked at.
LEMMA ControlAligns ==
  ASSUME NEW c, IsControl(c)
  PROVE  LET aligned == Aligns(c) IN
         /\ IsControl(aligned) /\ aligned.gov = c.gov /\ aligned.quality = c.quality
         /\ aligned.inForce = c.inForce /\ aligned.losses = c.losses /\ aligned.cadence = c.cadence
         /\ aligned.scale.base = c.scale.base /\ Continues(c, aligned)
<1> DEFINE size == Resync(c.scale, goesOut)
<1> DEFINE aligned == Aligns(c)
<1>1. IsScale(size) /\ size.base = c.scale.base
  BY ScaleAligns DEF IsControl
<1>2. CASE size = c.scale
  <2>1. aligned = c
    BY <1>2 DEF Aligns
  <2> QED
    BY <2>1 DEF Continues
<1>3. CASE size # c.scale
  <2>1. aligned = [[c EXCEPT !.scale = size] EXCEPT !.window = <<>>]
    BY <1>3 DEF Aligns
  <2>2. c = [gov |-> c.gov, quality |-> c.quality, scale |-> c.scale, cadence |-> c.cadence,
             window |-> c.window, losses |-> c.losses, inForce |-> c.inForce]
    BY DEF IsControl
  <2> HIDE DEF size, aligned
  <2>3. aligned = [gov |-> c.gov, quality |-> c.quality, scale |-> size, cadence |-> c.cadence,
                   window |-> <<>>, losses |-> c.losses, inForce |-> c.inForce]
    BY <2>1, <2>2
  <2>4. <<>> \in Seq(Nat)
    OBVIOUS
  <2>5. /\ IsControl(aligned) /\ aligned.gov = c.gov /\ aligned.quality = c.quality
        /\ aligned.inForce = c.inForce /\ aligned.losses = c.losses /\ aligned.cadence = c.cadence
        /\ aligned.scale.base = c.scale.base /\ aligned.window = <<>>
    BY <1>1, <2>3, <2>4 DEF IsControl
  <2> QED
    BY <2>5 DEF aligned, Continues
<1> QED
  BY <1>2, <1>3

\* Size and cadence.
LEMMA ControlSizes ==
  ASSUME world \in Worlds, NEW c, IsControl(c), NEW told \in Nat, NEW believed
  PROVE  LET sized == Sizes(c, told, believed) IN
         /\ IsControl(sized) /\ sized.gov = c.gov /\ sized.quality = c.quality
         /\ sized.inForce = c.inForce /\ sized.losses = c.losses
         /\ sized.scale.base = c.scale.base /\ Continues(c, sized)
<1> DEFINE scaled == ScaleTarget(c.scale, told, believed, world.qp, AllBitsInUse(c))
<1> DEFINE pace == CadenceTarget(c.cadence, world.measured, FormatOf(scaled).fps)
<1> DEFINE with == WithSize(c, scaled)
<1> DEFINE sized == Sizes(c, told, believed)
<1>1. CASE ~world.watched
  <2>1. sized = c
    BY <1>1 DEF Sizes
  <2> QED
    BY <2>1 DEF Continues
<1>2. CASE world.watched
  <2>1. IsScale(scaled) /\ scaled.base = c.scale.base
    BY ScaleDecides DEF IsControl
  <2>2. c = [gov |-> c.gov, quality |-> c.quality, scale |-> c.scale, cadence |-> c.cadence,
             window |-> c.window, losses |-> c.losses, inForce |-> c.inForce]
    BY DEF IsControl
  <2>3. with = [[c EXCEPT !.scale = scaled] EXCEPT !.cadence = pace]
    BY DEF WithSize
  <2>4. sized = NewWindow(c, with)
    BY <1>2 DEF Sizes
  <2> HIDE DEF scaled, pace, with, sized
  <2>5. with = [gov |-> c.gov, quality |-> c.quality, scale |-> scaled, cadence |-> pace,
                window |-> c.window, losses |-> c.losses, inForce |-> c.inForce]
    BY <2>2, <2>3
  <2>6. IsControl(with)
    BY <2>1, <2>5 DEF IsControl
  <2>7. CASE with.scale.step = c.scale.step /\ with.cadence.declared = c.cadence.declared
    <3>1. sized = with
      BY <2>4, <2>7 DEF NewWindow
    <3>2. /\ IsControl(sized) /\ sized.gov = c.gov /\ sized.quality = c.quality
          /\ sized.inForce = c.inForce /\ sized.losses = c.losses
          /\ sized.scale.base = c.scale.base /\ Continues(c, sized)
      BY <2>1, <2>5, <2>6, <2>7, <3>1 DEF Continues
    <3> QED
      BY <3>2 DEF sized
  <2>8. CASE ~(with.scale.step = c.scale.step /\ with.cadence.declared = c.cadence.declared)
    <3>1. sized = [with EXCEPT !.window = <<>>]
      BY <2>4, <2>8 DEF NewWindow
    <3>2. sized = [gov |-> c.gov, quality |-> c.quality, scale |-> scaled, cadence |-> pace,
                   window |-> <<>>, losses |-> c.losses, inForce |-> c.inForce]
      BY <2>5, <3>1
    <3>3. <<>> \in Seq(Nat)
      OBVIOUS
    <3>4. /\ IsControl(sized) /\ sized.gov = c.gov /\ sized.quality = c.quality
          /\ sized.inForce = c.inForce /\ sized.losses = c.losses
          /\ sized.scale.base = c.scale.base /\ sized.window = <<>>
      BY <2>1, <3>2, <3>3 DEF IsControl
    <3> QED
      BY <3>4 DEF sized, Continues
  <2> QED
    BY <2>7, <2>8
<1> QED
  BY <1>1, <1>2

\* The bitrate, with somebody watching: what is asked for is what is meant, however
\* the two governors decide.
LEMMA ControlAsks ==
  ASSUME world \in Worlds, NEW c, IsControl(c), Meant(c), NEW kbps \in Nat, NEW produced \in Nat
  PROVE  LET next == Bitrates(c, kbps, produced) IN
         /\ IsControl(next) /\ Meant(next)
         /\ next.window = c.window /\ next.scale = c.scale /\ next.cadence = c.cadence
<1> DEFINE loss == LossToCut(c.losses)
<1> DEFINE granted == GovTarget(c.gov, kbps, loss)
<1> DEFINE atFull == AtFullSize(c.scale)
<1> DEFINE needed == QualityTarget(c.quality, world.qp, produced, granted.current, atFull, world.stirred)
<1> DEFINE changed == granted.current # c.gov.current \/ needed.current # c.quality.current
<1> DEFINE force == Stored(c, granted, needed.current, changed)
<1> DEFINE given == GivenUp(c.losses)
<1> DEFINE next == Bitrates(c, kbps, produced)
<1>1. IsLosses(given) /\ loss \in Nat
  <2>1. IsLosses(c.losses)
    BY DEF IsControl
  <2> QED
    BY <2>1, LossesAreRecorded, 0 \in Nat
<1> HIDE DEF loss, given
<1>2. IsGovernor(granted)
  BY <1>1, TheGovernorWaits DEF IsControl
<1> HIDE DEF granted
<1>3. granted.current \in Nat /\ granted.current >= KbpsFloor /\ granted.current <= Top
  BY <1>2, TheTop DEF IsGovernor, KbpsFloor
<1>4. IsQuality(needed) /\ needed.current <= granted.current /\ needed.current \in Nat
  <2>1. atFull \in BOOLEAN
    BY DEF AtFullSize
  <2>2. Decided(c.quality, world.qp, granted.current, atFull, needed)
    <3> HIDE DEF atFull
    <3>1. IsQuality(c.quality) /\ world.qp \in -1..51 /\ world.stirred \in BOOLEAN
      BY Readings DEF IsControl
    <3> QED
      BY <1>3, <2>1, <3>1, QualityDecides
  <2> HIDE DEF needed
  <2> QED
    BY <2>2, <1>3 DEF Decided, IsQuality
<1>5. next = [[[[c EXCEPT !.gov = granted] EXCEPT !.quality = needed] EXCEPT !.losses = given] EXCEPT !.inForce = force]
  BY DEF Bitrates, granted, given, loss
<1> HIDE DEF needed, next
<1>6. force = needed.current
  BY DEF Stored, Meant
<1> HIDE DEF force
<1>7. next = [gov |-> granted, quality |-> needed, scale |-> c.scale, cadence |-> c.cadence,
              window |-> c.window, losses |-> given, inForce |-> force]
  <2>1. c = [gov |-> c.gov, quality |-> c.quality, scale |-> c.scale, cadence |-> c.cadence,
             window |-> c.window, losses |-> c.losses, inForce |-> c.inForce]
    BY DEF IsControl
  <2> QED
    BY <1>5, <2>1
<1>8. IsControl(next) /\ Meant(next) /\ next.window = c.window /\ next.scale = c.scale /\ next.cadence = c.cadence
  BY <1>1, <1>2, <1>4, <1>6, <1>7 DEF IsControl, Meant
<1> QED
  BY <1>8 DEF next

\* Nothing of whoever left is kept.
Afresh(c) ==
  /\ c.inForce = Top /\ c.quality.qps = <<>> /\ c.quality.throughput = <<>>
  /\ c.scale.qps = <<>> /\ c.scale.below = 0

\* ... and with nobody.
LEMMA ControlReleases ==
  ASSUME NEW c, IsControl(c)
  PROVE  LET next == ReleaseAll(c) IN
         /\ IsControl(next) /\ Meant(next) /\ Afresh(next)
         /\ next.window = c.window /\ next.cadence = c.cadence
         /\ next.scale.base = c.scale.base /\ next.scale.step = c.scale.step
<1> DEFINE bits == GovRelease(c.gov)
<1> DEFINE qual == QualityRelease(c.quality, Top)
<1> DEFINE size == ScaleRelease(c.scale)
<1> DEFINE next == ReleaseAll(c)
<1>0. Top \in Nat /\ Top >= KbpsFloor /\ RiseWait \in Nat
  BY TheTop, BandwidthAssumption
<1>1. IsGovernor(bits) /\ bits.current = Top
  BY <1>0 DEF IsControl, IsGovernor, GovRelease, Never, KbpsFloor
<1>2. IsQuality(qual) /\ qual.current = Top /\ qual.qps = <<>> /\ qual.throughput = <<>>
  <2>1. IsQuality(qual) /\ qual.current = Top
    BY <1>0, NewQualities
  <2>2. qual.qps = <<>> /\ qual.throughput = <<>>
    BY DEF QualityRelease
  <2> QED
    BY <2>1, <2>2
<1>3. IsScale(size) /\ size.base = c.scale.base /\ size.step = c.scale.step /\ size.qps = <<>> /\ size.below = 0
  <2>1. c.scale = [base |-> c.scale.base, step |-> c.scale.step, changed |-> c.scale.changed,
                   lastAvail |-> c.scale.lastAvail, below |-> c.scale.below, qps |-> c.scale.qps]
    BY DEF IsControl, IsScale
  <2>2. size = [[[c.scale EXCEPT !.qps = <<>>] EXCEPT !.lastAvail = 0] EXCEPT !.below = 0]
    BY DEF ScaleRelease
  <2> HIDE DEF size
  <2>3. size = [base |-> c.scale.base, step |-> c.scale.step, changed |-> c.scale.changed,
                lastAvail |-> 0, below |-> 0, qps |-> <<>>]
    BY <2>1, <2>2
  <2> QED
    BY <2>3 DEF IsControl, IsScale
<1>4. next = [[[[c EXCEPT !.gov = bits] EXCEPT !.quality = qual] EXCEPT !.scale = size] EXCEPT !.inForce = Top]
  BY DEF ReleaseAll
<1> HIDE DEF bits, qual, size, next
<1>5. next = [gov |-> bits, quality |-> qual, scale |-> size, cadence |-> c.cadence,
              window |-> c.window, losses |-> c.losses, inForce |-> Top]
  <2>1. c = [gov |-> c.gov, quality |-> c.quality, scale |-> c.scale, cadence |-> c.cadence,
             window |-> c.window, losses |-> c.losses, inForce |-> c.inForce]
    BY DEF IsControl
  <2> QED
    BY <1>4, <2>1
<1>6. IsControl(next) /\ Meant(next)
  BY <1>0, <1>1, <1>2, <1>3, <1>5 DEF IsControl, Meant
<1>7. /\ Afresh(next) /\ next.window = c.window /\ next.cadence = c.cadence
      /\ next.scale.base = c.scale.base /\ next.scale.step = c.scale.step
  BY <1>2, <1>3, <1>5 DEF Afresh
<1> QED
  BY <1>6, <1>7 DEF next

\* A request is a new window.
LEMMA ControlCommands ==
  ASSUME NEW c, NEW next, IsControl(next), Meant(next),
         next.window = c.window, next.cadence = c.cadence,
         next.scale.base = c.scale.base, next.scale.step = c.scale.step
  PROVE  LET done == Commands(c, next) IN
         /\ IsControl(done) /\ Meant(done) /\ (Afresh(next) => Afresh(done))
         /\ done.scale = next.scale /\ Continues(c, done)
<1> DEFINE done == Commands(c, next)
<1>1. CASE next.inForce = c.inForce
  <2>1. done = next
    BY <1>1 DEF Commands
  <2> QED
    BY <1>1, <2>1 DEF Continues
<1>2. CASE next.inForce # c.inForce
  <2>1. done = [next EXCEPT !.window = <<>>]
    BY <1>2 DEF Commands
  <2> HIDE DEF done
  <2>2. done = [gov |-> next.gov, quality |-> next.quality, scale |-> next.scale, cadence |-> next.cadence,
                window |-> <<>>, losses |-> next.losses, inForce |-> next.inForce]
    BY <2>1 DEF IsControl
  <2>3. <<>> \in Seq(Nat)
    OBVIOUS
  <2>4. IsControl(done) /\ Meant(done) /\ done.scale = next.scale /\ done.window = <<>>
    BY <2>2, <2>3 DEF IsControl, Meant
  <2>5. Afresh(next) => Afresh(done)
    BY <2>2 DEF Afresh
  <2> QED
    BY <2>4, <2>5 DEF done, Continues
<1> QED
  BY <1>1, <1>2

\* What is inductive: the three numbers agree between any two ticks, and the window is
\* of one request.
ControlInv ==
  /\ world \in Worlds /\ IsControl(ctl) /\ Meant(ctl) /\ samples = TRUE
  /\ idle \in BOOLEAN /\ (idle => Afresh(ctl))

LEMMA ControlStarts == ControlInit => ControlInv
<1> SUFFICES ASSUME ControlInit PROVE ControlInv
  OBVIOUS
<1>1. world \in Worlds /\ ctl = Begins(world.base) /\ samples = TRUE /\ idle = FALSE
  BY DEF ControlInit
<1>2. Top = Ceiling /\ Top \in Nat /\ world.base \in Bases /\ RiseWait \in Nat \ {0} /\ Ceiling >= KbpsFloor
  BY <1>1, Readings, BandwidthAssumption
<1>3. IsGovernor([current |-> Top, rise |-> Never])
  BY <1>2 DEF IsGovernor, Never, KbpsFloor
<1>4. IsQuality(NewQuality(Ceiling)) /\ NewQuality(Ceiling).current = Ceiling
  BY <1>2, NewQualities
<1>5. IsScale(NewScale(world.base))
  BY <1>2, ANewScale
<1>6. IsLosses(NoLosses)
  BY DEF IsLosses, NoLosses, Never
<1>7. <<>> \in Seq(Nat)
  OBVIOUS
<1>8. IsControl(ctl) /\ Meant(ctl)
  <2>1. ctl = [gov |-> [current |-> Top, rise |-> Never], quality |-> NewQuality(Ceiling),
               scale |-> NewScale(world.base), cadence |-> NewCadence(world.base.fps), window |-> <<>>,
               losses |-> NoLosses, inForce |-> Top]
    BY <1>1 DEF Begins
  <2> QED
    BY <2>1, <1>2, <1>3, <1>4, <1>5, <1>6, <1>7 DEF IsControl, Meant
<1> QED
  BY <1>1, <1>8 DEF ControlInv

LEMMA ControlTicks ==
  ASSUME ControlInv, ControlTick
  PROVE  ControlInv'
<1> DEFINE aged == Aged(ctl)
<1> DEFINE built == Rebuilds(aged)
<1> DEFINE measured == Measures(built)
<1> DEFINE aligned == Aligns(measured)
<1> DEFINE told == ForTheScale(measured)
<1> DEFINE believed == Believes(measured)
<1> DEFINE sized == Sizes(aligned, told, believed)
<1> DEFINE kbps == ForTheBitrate(measured)
<1> DEFINE produced == (world.halves * ctl.inForce) \div 2
<1> DEFINE next == IF world.watched THEN Bitrates(sized, kbps, produced) ELSE ReleaseAll(sized)
<1> DEFINE done == Commands(sized, next)
<1>1. /\ ctl' = done /\ idle' = ~world.watched /\ world' = world
      /\ samples' = (\/ done.window = <<>> \/ ctl.scale.base # world.base
                     \/ /\ samples /\ done.inForce = ctl.inForce
                        /\ FormatOf(done.scale) = FormatOf(ctl.scale) /\ done.cadence.declared = ctl.cadence.declared)
  BY DEF ControlTick
<1>2. world \in Worlds /\ IsControl(ctl) /\ Meant(ctl) /\ samples = TRUE
  BY DEF ControlInv
<1>3. /\ IsControl(aged) /\ aged.gov.current = ctl.gov.current /\ aged.quality.current = ctl.quality.current
      /\ aged.window = ctl.window /\ aged.inForce = ctl.inForce /\ aged.cadence = ctl.cadence
      /\ aged.scale.base = ctl.scale.base /\ aged.scale.step = ctl.scale.step
      /\ aged.quality.current = ctl.quality.current
  BY <1>2, ControlAges
<1> HIDE DEF aged
<1>4. /\ IsControl(built) /\ built.gov = aged.gov /\ built.quality = aged.quality
      /\ built.inForce = aged.inForce /\ built.cadence = aged.cadence
      /\ aged.scale.base = world.base => built = aged
  BY <1>2, <1>3, ControlRebuilds
<1> HIDE DEF built
<1>5. /\ IsControl(measured) /\ measured.gov = built.gov /\ measured.quality = built.quality
      /\ measured.scale = built.scale /\ measured.inForce = built.inForce /\ measured.cadence = built.cadence
  BY <1>2, <1>4, ControlMeasures
<1>6. /\ told \in Nat /\ kbps \in Nat
  <2>1. /\ Video \in Nat /\ AvgOf(measured) \in Nat /\ RecentLoss(measured.losses) \in Nat
        /\ measured.gov.current \in Nat
    <3>1. Video \in Nat
      BY <1>2, Readings, VideoIsNatural DEF Video
    <3>2. AvgOf(measured) \in Nat
      BY <1>5, MeanIsNatural, 2 \in Nat DEF AvgOf, SentMean, IsControl
    <3>3. RecentLoss(measured.losses) \in Nat
      BY <1>5, LossesAreRecorded, 0 \in Nat DEF IsControl
    <3>4. measured.gov.current \in Nat
      BY <1>5, TheTop DEF IsControl, IsGovernor, KbpsFloor
    <3> QED
      BY <3>1, <3>2, <3>3, <3>4
  <2>2. kbps \in Nat
    BY <2>1, ToldHolds DEF ForTheBitrate
  <2>3. told \in Nat
    BY <2>1 DEF ForTheScale, AtLeastDelivered, AtLeast
  <2> QED
    BY <2>2, <2>3
<1> HIDE DEF measured, told, kbps, believed
<1>7. /\ IsControl(aligned) /\ aligned.gov = measured.gov /\ aligned.quality = measured.quality
      /\ aligned.inForce = measured.inForce /\ aligned.scale.base = measured.scale.base
      /\ Continues(measured, aligned)
  BY <1>5, ControlAligns
<1> HIDE DEF aligned
<1>8. /\ IsControl(sized) /\ sized.gov = aligned.gov /\ sized.quality = aligned.quality
      /\ sized.inForce = aligned.inForce /\ sized.scale.base = aligned.scale.base
      /\ Continues(aligned, sized)
  BY <1>2, <1>6, <1>7, ControlSizes
<1> HIDE DEF sized
<1>9. Meant(sized)
  BY <1>2, <1>3, <1>4, <1>5, <1>7, <1>8 DEF Meant
<1>10. produced \in Nat
  <2>1. world.halves * ctl.inForce \in Nat
    BY <1>2, Readings DEF IsControl
  <2>2. \A a \in Nat : a \div 2 \in Nat
    OBVIOUS
  <2> QED
    BY <2>1, <2>2
<1> HIDE DEF produced
<1>11. /\ IsControl(next) /\ Meant(next) /\ (~world.watched => Afresh(next))
       /\ next.window = sized.window /\ next.cadence = sized.cadence
       /\ next.scale.base = sized.scale.base /\ next.scale.step = sized.scale.step
  <2>1. CASE world.watched
    <3>1. next = Bitrates(sized, kbps, produced)
      BY <2>1
    <3> HIDE DEF next
    <3>2. /\ IsControl(next) /\ Meant(next)
          /\ next.window = sized.window /\ next.scale = sized.scale /\ next.cadence = sized.cadence
      BY <1>2, <1>6, <1>8, <1>9, <1>10, <3>1, ControlAsks
    <3> QED
      BY <2>1, <3>2
  <2>2. CASE ~world.watched
    <3>1. next = ReleaseAll(sized)
      BY <2>2
    <3> HIDE DEF next
    <3> QED
      BY <1>8, <3>1, ControlReleases
  <2> QED
    BY <2>1, <2>2
<1> HIDE DEF next
<1>12. IsControl(done) /\ Meant(done) /\ (Afresh(next) => Afresh(done)) /\ Continues(sized, done)
  BY <1>11, ControlCommands
<1> HIDE DEF done
<1>13. Continues(measured, done)
  BY <1>7, <1>8, <1>12, ContinuesOn
\* What the window holds was measured under what is in force now.
<1>14. samples' = TRUE
  <2>1. CASE done.window = <<>> \/ ctl.scale.base # world.base
    BY <1>1, <2>1
  <2>2. CASE ~(done.window = <<>> \/ ctl.scale.base # world.base)
    <3>1. built = aged
      BY <1>3, <1>4, <2>2
    <3>2. /\ done.inForce = measured.inForce /\ done.scale.base = measured.scale.base
          /\ done.scale.step = measured.scale.step /\ done.cadence.declared = measured.cadence.declared
      BY <1>13, <2>2 DEF Continues
    <3>3. /\ done.inForce = ctl.inForce /\ done.scale.base = ctl.scale.base
          /\ done.scale.step = ctl.scale.step /\ done.cadence.declared = ctl.cadence.declared
      BY <3>1, <3>2, <1>3, <1>5
    <3>4. FormatOf(done.scale) = FormatOf(ctl.scale)
      BY <3>3 DEF FormatOf
    <3> QED
      BY <1>1, <1>2, <3>3, <3>4
  <2> QED
    BY <2>1, <2>2
<1>15. idle' \in BOOLEAN
  BY <1>1
<1>16. idle' => Afresh(done)
  BY <1>1, <1>11, <1>12
<1>17. idle' => Afresh(ctl)'
  BY <1>1, <1>16 DEF Afresh
<1>18. IsControl(ctl)' /\ Meant(ctl)' /\ (world \in Worlds)'
  BY <1>1, <1>2, <1>12 DEF IsControl, Meant
<1> QED
  BY <1>14, <1>15, <1>17, <1>18 DEF ControlInv

LEMMA ControlStep == ControlInv /\ [ControlNext]_controlVars => ControlInv'
<1> SUFFICES ASSUME ControlInv, [ControlNext]_controlVars PROVE ControlInv'
  OBVIOUS
<1>1. CASE ControlTick
  BY <1>1, ControlTicks
<1>2. CASE WorldShifts
  BY <1>2 DEF WorldShifts, ControlInv, Afresh, IsControl, Meant
<1>3. CASE LossIsReported
  <2>1. PICK loss \in Losses : ctl' = [ctl EXCEPT !.losses = RecordLoss(@, loss)]
    BY <1>3 DEF LossIsReported
  <2> DEFINE reported == RecordLoss(ctl.losses, loss)
  <2>2. IsLosses(reported)
    <3>1. loss \in Nat
      BY BandwidthAssumption
    <3> QED
      BY <3>1, LossesAreRecorded DEF ControlInv, IsControl
  <2>3. ctl' = [ctl EXCEPT !.losses = reported]
    BY <2>1
  <2> HIDE DEF reported
  <2>4. ctl' = [gov |-> ctl.gov, quality |-> ctl.quality, scale |-> ctl.scale, cadence |-> ctl.cadence,
                window |-> ctl.window, losses |-> reported, inForce |-> ctl.inForce]
    BY <2>3 DEF ControlInv, IsControl
  <2>5. IsControl(ctl)' /\ Meant(ctl)' /\ (Afresh(ctl) => Afresh(ctl)')
    BY <2>2, <2>4 DEF ControlInv, IsControl, Meant, Afresh
  <2> QED
    BY <1>3, <2>5 DEF LossIsReported, ControlInv
<1>4. CASE CaptureRestarts
  BY <1>4 DEF CaptureRestarts, ControlInv, Afresh, IsControl, Meant
<1>5. CASE UNCHANGED controlVars
  BY <1>5 DEF controlVars, ControlInv, Afresh, IsControl, Meant
<1> QED
  BY <1>1, <1>2, <1>3, <1>4, <1>5 DEF ControlNext

\* RunBitrateControl, whatever is measured, read and reported in its seconds: the bitrate
\* in force is the one the picture needs, within the one the network grants, although
\* the three are kept in three places; who arrives after an empty second finds the top
\* and no reading of another; and no mean is taken over two requests.
THEOREM TheLoopIsHonest ==
  ControlSpec => [](WhatIsAskedIsMeant /\ TheNextOneStartsAfresh /\ OneRequestIsAveraged)
<1>1. ControlInv => WhatIsAskedIsMeant /\ TheNextOneStartsAfresh /\ OneRequestIsAveraged
  BY DEF ControlInv, Meant, Afresh, WhatIsAskedIsMeant, TheNextOneStartsAfresh, OneRequestIsAveraged
<1> QED
  BY <1>1, ControlStarts, ControlStep, PTL DEF ControlSpec

LEMMA SizesAreScaled ==
  ASSUME NEW c, IsControl(c), NEW told \in Nat, NEW believed,
         ~AllBitsInUse(c), ~(told < MinKbps[c.scale.base][c.scale.step])
  PROVE  Sizes(c, told, believed).scale.step <= c.scale.step
<1> DEFINE scaled == ScaleTarget(c.scale, told, believed, world.qp, AllBitsInUse(c))
<1> DEFINE with == WithSize(c, scaled)
<1>1. scaled.step <= c.scale.step
  BY PixelsGoForBits DEF IsControl
<1>2. c.scale.step \in Int
  BY StepsAreFormats DEF IsControl, IsScale
<1>3. with.scale = scaled
  BY DEF WithSize, IsControl
<1>4. Sizes(c, told, believed) = c \/ Sizes(c, told, believed) = NewWindow(c, with)
  BY DEF Sizes
<1> HIDE DEF scaled, with
<1>5. NewWindow(c, with).scale = with.scale
  <2>1. [with EXCEPT !.window = <<>>].scale = with.scale
    BY DEF with, WithSize, IsControl
  <2> QED
    BY <2>1 DEF NewWindow
<1> QED
  BY <1>1, <1>2, <1>3, <1>4, <1>5

LEMMA PixelsAreKept ==
  ASSUME ControlInv, ControlTick, ctl'.scale.step > ctl.scale.step, ctl'.scale.base = ctl.scale.base,
         goesOut = FormatOf(ctl.scale)
  PROVE  ctl.inForce >= ctl.gov.current \/ Video < MinKbps[ctl.scale.base][ctl.scale.step]
<1> DEFINE aged == Aged(ctl)
<1> DEFINE built == Rebuilds(aged)
<1> DEFINE measured == Measures(built)
<1> DEFINE aligned == Aligns(measured)
<1> DEFINE told == ForTheScale(measured)
<1> DEFINE believed == Believes(measured)
<1> DEFINE sized == Sizes(aligned, told, believed)
<1> DEFINE kbps == ForTheBitrate(measured)
<1> DEFINE produced == (world.halves * ctl.inForce) \div 2
<1> DEFINE next == IF world.watched THEN Bitrates(sized, kbps, produced) ELSE ReleaseAll(sized)
<1> DEFINE done == Commands(sized, next)
<1>1. ctl' = done
  BY DEF ControlTick
<1>2. world \in Worlds /\ IsControl(ctl)
  BY DEF ControlInv
<1>3. /\ IsControl(aged) /\ aged.gov.current = ctl.gov.current /\ aged.inForce = ctl.inForce
      /\ aged.scale.base = ctl.scale.base /\ aged.scale.step = ctl.scale.step
      /\ aged.quality.current = ctl.quality.current
  BY <1>2, ControlAges
<1> HIDE DEF aged
<1>4. /\ IsControl(built) /\ built.gov = aged.gov /\ built.inForce = aged.inForce
      /\ aged.scale.base = world.base => built = aged
      /\ aged.scale.base # world.base => built.scale.base = world.base
  <2>1. aged.scale.base # world.base => built.scale.base = world.base
    <3>1. NewScale(world.base).base = world.base
      BY DEF NewScale
    <3>2. [aged EXCEPT !.scale = NewScale(world.base), !.window = <<>>].scale = NewScale(world.base)
      <4> DEFINE fresh == NewScale(world.base)
      <4> HIDE DEF fresh
      <4>1. [aged EXCEPT !.scale = fresh, !.window = <<>>].scale = fresh
        BY <1>3 DEF IsControl
      <4> QED
        BY <4>1 DEF fresh
    <3> QED
      BY <3>1, <3>2 DEF Rebuilds
  <2> QED
    BY <1>2, <1>3, <2>1, ControlRebuilds
<1> HIDE DEF built
<1>5. /\ IsControl(measured) /\ measured.gov = built.gov /\ measured.scale = built.scale
      /\ measured.inForce = built.inForce
  BY <1>2, <1>4, ControlMeasures
<1>6. /\ told \in Nat /\ told >= Video /\ kbps \in Nat /\ Video \in Nat
  <2>1. Video \in Nat
    BY <1>2, Readings, VideoIsNatural DEF Video
  <2>2. AvgOf(measured) \in Nat
    BY <1>5, MeanIsNatural, 2 \in Nat DEF AvgOf, SentMean, IsControl
  <2>3. RecentLoss(measured.losses) \in Nat
    BY <1>5, LossesAreRecorded, 0 \in Nat DEF IsControl
  <2>4. measured.gov.current \in Nat
    BY <1>5, TheTop DEF IsControl, IsGovernor, KbpsFloor
  <2>5. kbps \in Nat
    BY <2>1, <2>2, <2>3, <2>4, ToldHolds DEF ForTheBitrate
  <2>6. told \in Nat /\ told >= Video
    BY <2>1, <2>2, <2>3 DEF ForTheScale, AtLeastDelivered, AtLeast
  <2> QED
    BY <2>1, <2>5, <2>6
<1>7. aligned = measured \/ aligned.scale.base # measured.scale.base \/ measured.scale.base # ctl.scale.base
  <2>1. CASE measured.scale.base = ctl.scale.base
    <3>1. measured.scale = aged.scale
      BY <2>1, <1>3, <1>4, <1>5
    <3>2. FormatOf(measured.scale) = goesOut
      BY <3>1, <1>3 DEF FormatOf
    <3>3. Resync(measured.scale, goesOut) = measured.scale
      BY <3>2 DEF Resync
    <3> QED
      BY <3>3 DEF Aligns
  <2> QED
    BY <2>1
<1>8. IsControl(aligned) /\ aligned.scale.base = measured.scale.base
  BY <1>5, ControlAligns
<1> HIDE DEF measured, told, kbps, believed, aligned
<1>9. IsControl(sized) /\ sized.scale.base = aligned.scale.base /\ sized.inForce = aligned.inForce
      /\ sized.gov = aligned.gov /\ sized.quality = aligned.quality
  BY <1>2, <1>6, <1>8, ControlSizes
<1>10. done.scale.base = sized.scale.base /\ done.scale.step = sized.scale.step
  <2> HIDE DEF sized
  <2>1. produced \in Nat
    <3>1. world.halves * ctl.inForce \in Nat
      BY <1>2, Readings DEF IsControl
    <3>2. \A a \in Nat : a \div 2 \in Nat
      OBVIOUS
    <3> QED
      BY <3>1, <3>2
  <2> HIDE DEF produced
  <2>2. IsControl(next) /\ next.scale.base = sized.scale.base /\ next.scale.step = sized.scale.step
    <3>1. Meant(sized)
      <4>1. Meant(aged)
        BY <1>2, <1>3 DEF ControlInv, Meant
      <4>2. built.quality = aged.quality
        BY <1>2, <1>3, ControlRebuilds DEF built
      <4>3. measured.quality = built.quality
        BY <1>2, <1>4, ControlMeasures DEF measured
      <4>4. aligned.quality = measured.quality /\ aligned.gov = measured.gov /\ aligned.inForce = measured.inForce
        BY <1>5, ControlAligns DEF aligned
      <4> QED
        BY <4>1, <4>2, <4>3, <4>4, <1>4, <1>5, <1>9 DEF Meant
    <3>2. CASE world.watched
      <4>1. next = Bitrates(sized, kbps, produced)
        BY <3>2
      <4> HIDE DEF next
      <4>2. IsControl(next) /\ next.scale = sized.scale
        BY <1>2, <1>6, <1>9, <2>1, <3>1, <4>1, ControlAsks
      <4> QED
        BY <4>2
    <3>3. CASE ~world.watched
      <4>1. next = ReleaseAll(sized)
        BY <3>3
      <4> HIDE DEF next
      <4> QED
        BY <1>9, <4>1, ControlReleases
    <3> QED
      BY <3>2, <3>3
  <2> HIDE DEF next
  <2>3. done.scale = next.scale
    BY <2>2 DEF Commands, IsControl
  <2> QED
    BY <2>2, <2>3
<1> HIDE DEF done
<1>11. aligned = measured /\ measured.scale = aged.scale
  BY <1>1, <1>3, <1>4, <1>5, <1>7, <1>8, <1>9, <1>10
<1>12. sized.scale.step > aligned.scale.step /\ aligned.scale.step = ctl.scale.step
       /\ aligned.scale.base = ctl.scale.base
  BY <1>1, <1>3, <1>10, <1>11
<1>13. AllBitsInUse(aligned) \/ told < MinKbps[aligned.scale.base][aligned.scale.step]
  <2> SUFFICES ASSUME ~AllBitsInUse(aligned), ~(told < MinKbps[aligned.scale.base][aligned.scale.step])
               PROVE  FALSE
    OBVIOUS
  <2>1. sized.scale.step <= aligned.scale.step
    BY <1>6, <1>8, SizesAreScaled
  <2>2. sized.scale.step \in Int /\ aligned.scale.step \in Int
    BY <1>8, <1>9, StepsAreFormats DEF IsControl, IsScale
  <2> HIDE DEF sized
  <2> QED
    BY <1>12, <2>1, <2>2
<1>14. AllBitsInUse(aligned) <=> ctl.inForce >= ctl.gov.current
  BY <1>3, <1>4, <1>5, <1>11 DEF AllBitsInUse
<1>15. MinKbps[ctl.scale.base][ctl.scale.step] \in Int
  BY <1>2, StepsAreFormats DEF IsControl, IsScale
<1> QED
  BY <1>6, <1>12, <1>13, <1>14, <1>15

\* No pixel is given up while bits are left: the size falls when all that the network
\* grants is in use, or when a picture is delivered at less than the size can be sent
\* with; the order of the governors in RunBitrateControl, whatever is measured.
THEOREM PixelsAreGivenUpLast == ControlSpec => PixelsGoLast
<1>1. ControlInv /\ [ControlNext]_controlVars =>
        [ctl'.scale.step > ctl.scale.step /\ ctl'.scale.base = ctl.scale.base /\ goesOut = FormatOf(ctl.scale)
           => ctl.inForce >= ctl.gov.current \/ Video < MinKbps[ctl.scale.base][ctl.scale.step]]_controlVars
  <2> SUFFICES ASSUME ControlInv, ControlNext, ctl'.scale.step > ctl.scale.step,
                      ctl'.scale.base = ctl.scale.base, goesOut = FormatOf(ctl.scale)
               PROVE  ctl.inForce >= ctl.gov.current \/ Video < MinKbps[ctl.scale.base][ctl.scale.step]
    OBVIOUS
  <2>1. ctl.scale.step \in Int /\ IsControl(ctl)
    BY StepsAreFormats DEF ControlInv, IsControl, IsScale
  <2>2. CASE ControlTick
    BY <2>2, PixelsAreKept
  <2>3. CASE LossIsReported
    <3>1. ctl'.scale = ctl.scale
      BY <2>1, <2>3 DEF LossIsReported, IsControl
    <3> QED
      BY <2>1, <3>1
  <2>4. CASE WorldShifts \/ CaptureRestarts
    BY <2>1, <2>4 DEF WorldShifts, CaptureRestarts
  <2> QED
    BY <2>2, <2>3, <2>4 DEF ControlNext
<1> QED
  BY <1>1, ControlStarts, ControlStep, PTL DEF ControlSpec, PixelsGoLast

-----------------------------------------------------------------------------
\* Everything the governors may not do from one second to the next: cut below what
\* arrived, cut twice for one report, rise right after a cut, take a discount on no
\* readings, flap between two sizes, or give up pixels while bits are left.
THEOREM TheGovernorsMoveRightly ==
  BandSpec /\ QualitySpec /\ ScaleSpec /\ ControlSpec => GovernorsMoves
  BY TheGovernorIsPatient, ADiscountIsEarned, TheSizeHolds, PixelsAreGivenUpLast DEF GovernorsMoves
=============================================================================
