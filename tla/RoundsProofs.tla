---------------------------- MODULE RoundsProofs ----------------------------
(***************************************************************************)
(* Proofs about what is done every second and what comes of it: the news   *)
(* on its way to the phones (Notifier), the recogniser's verdicts          *)
(* (Recogniser), the watching round (WatchRound), for any codes, devices,  *)
(* news, slots, tries, intervals and graces, and the detectors (Detectors) *)
(* for any pictures, levels and samples.                                   *)
(*                                                                         *)
(* A news waits only for the one that was the latest of its code when it   *)
(* was dispatched.  That is enough because of a chain: everything of its   *)
(* code after that one and before itself was over already (Chain), and     *)
(* that one, once it has left the wait, had everything before it over      *)
(* (NeverBeside, by induction).  latest may be forgotten only by its owner *)
(* for the same reason (Newest).                                           *)
(*                                                                         *)
(* A cry's runs are counted against those there were (EachHadItsRuns); the *)
(* registry's ids are apart because ranks in a finite set are.             *)
(*                                                                         *)
(* Where nothing changes, what is left between the blend and the picture   *)
(* falls by a quarter a step until it is under a shade and a third, and    *)
(* when only the light changes it is the same at every pixel.  A burst     *)
(* under way is above the release, so a noise that lasts only grows.  A    *)
(* sum of blocks is compared with the sum of the whole at the least length *)
(* that would be an exception.                                             *)
(***************************************************************************)
EXTENDS Notifier, Recogniser, WatchRound, Detectors, FunctionTheorems, FiniteSetTheorems, SequenceTheorems,
        WellFoundedInduction, TLAPS

Over(n) == stage[n] = "over"
Moved(n) == stage[n] \in {"sending", "over"}

\* TypeOK, but for the bound of free, which is a matter of counting, and with
\* the time a pause has left.
Shape ==
  /\ subs \in SUBSET Devices /\ count \in 0..MaxNews
  /\ code \in [News -> Codes] /\ before \in [News -> 0..MaxNews]
  /\ latest \in [Codes -> 0..MaxNews] /\ overtaken \in SUBSET (0..MaxNews)
  /\ stage \in [News -> {"none", "waiting", "sending", "over"}]
  /\ todo \in [News -> SUBSET Devices]
  /\ delivery \in [News -> [Devices -> {"none", "ended"} \cup UnderWay]]
  /\ tries \in [News -> [Devices -> 0..MaxTries]]
  /\ free \in Nat
  /\ skipped \in SUBSET (News \X Devices)
  /\ taken \in [Devices -> [Codes -> 0..MaxNews]]
  /\ closing \in {"open", "waiting", "closed"}

PausesHaveTime ==
  \A n \in News, d \in Devices : delivery[n][d] = "pausing" => tries[n][d] < MaxTries

ShapeInv == Shape /\ PausesHaveTime

\* A change at one place of a function of two arguments.
LEMMA OnePlace ==
  ASSUME NEW A, NEW B, NEW S, NEW f, f \in [A -> [B -> S]], NEW a \in A, NEW b \in B,
         NEW x \in S, NEW g, g = [f EXCEPT ![a][b] = x]
  PROVE  /\ g \in [A -> [B -> S]]
         /\ g[a][b] = x
         /\ \A y \in A, z \in B : y # a \/ z # b => g[y][z] = f[y][z]
<1>1. g \in [A -> [B -> S]]
  OBVIOUS
<1>2. g[a][b] = x
  OBVIOUS
<1>3. \A y \in A, z \in B : y # a \/ z # b => g[y][z] = f[y][z]
  OBVIOUS
<1> QED
  BY <1>1, <1>2, <1>3

Placing == {"none", "ended"} \cup UnderWay

LEMMA DeliveriesKeep ==
  ASSUME NEW n \in News, NEW d \in Devices, NEW x \in Placing,
         delivery \in [News -> [Devices -> Placing]], delivery' = [delivery EXCEPT ![n][d] = x]
  PROVE  /\ delivery' \in [News -> [Devices -> Placing]]
         /\ delivery'[n][d] = x
         /\ \A y \in News, z \in Devices : y # n \/ z # d => delivery'[y][z] = delivery[y][z]
  BY OnePlace, Zenon

LEMMA TriesKeep ==
  ASSUME NEW n \in News, NEW d \in Devices, NEW x \in 0..MaxTries,
         tries \in [News -> [Devices -> 0..MaxTries]], tries' = [tries EXCEPT ![n][d] = x]
  PROVE  /\ tries' \in [News -> [Devices -> 0..MaxTries]]
         /\ \A y \in News, z \in Devices : y # n \/ z # d => tries'[y][z] = tries[y][z]
  BY OnePlace, Zenon

LEMMA ShapeHolds == Spec => []ShapeInv
<1> USE NotifierAssumption DEF News, UnderWay
<1>1. Init => ShapeInv
  BY DEF Init, ShapeInv, Shape, PausesHaveTime
<1>2. ShapeInv /\ [Next]_vars => ShapeInv'
  <2> SUFFICES ASSUME ShapeInv, [Next]_vars PROVE ShapeInv'
    OBVIOUS
  <2> USE DEF ShapeInv
  <2>1. ASSUME NEW d \in Devices, Subscribe(d) \/ Unsubscribe(d) PROVE ShapeInv'
    BY <2>1 DEF Subscribe, Unsubscribe, news, deliveries, Shape, PausesHaveTime
  <2>2. ASSUME NEW c \in Codes, Dispatch(c) PROVE ShapeInv'
    <3>1. count' \in 1..MaxNews /\ count' \in 0..MaxNews
      BY <2>2 DEF Dispatch, Shape
    <3>2. Overtakes(c) \in SUBSET (0..MaxNews) /\ NewsBefore(c) \in 0..MaxNews
      BY DEF Overtakes, NewsBefore, Shape
    <3> QED
      BY <2>2, <3>1, <3>2 DEF Dispatch, store, deliveries, Shape, PausesHaveTime
  <2>3. ASSUME NEW n \in News, GoesOut(n) PROVE ShapeInv'
    BY <2>3 DEF GoesOut, store, Shape, PausesHaveTime
  <2>4. ASSUME NEW n \in News, WasOvertaken(n) \/ HasGoneOut(n) PROVE ShapeInv'
    <3>1. /\ Ends(n)
          /\ UNCHANGED <<store, count, code, before, overtaken, deliveries, closing>>
      BY <2>4 DEF WasOvertaken, HasGoneOut
    <3>2. latest' \in [Codes -> 0..MaxNews]
      <4>1. \A c \in Codes : (IF latest[c] = n THEN 0 ELSE latest[c]) \in 0..MaxNews
        BY DEF Shape
      <4> QED
        BY <3>1, <4>1 DEF Ends, Forgets
    <3>3. stage' \in [News -> {"none", "waiting", "sending", "over"}]
      BY <3>1 DEF Ends, Shape
    <3> QED
      BY <3>1, <3>2, <3>3 DEF store, deliveries, Shape, PausesHaveTime
  <2>5. ASSUME NEW n \in News, NEW d \in Devices, GivesADelivery(n, d) PROVE ShapeInv'
    <3>t. todo' \in [News -> SUBSET Devices]
      BY <2>5 DEF GivesADelivery, Shape
    <3>1. CASE free > 0
      <4>1. /\ delivery' = [delivery EXCEPT ![n][d] = "trying"] /\ "trying" \in Placing
            /\ tries' = [tries EXCEPT ![n][d] = 1] /\ 1 \in 0..MaxTries
        BY <2>5, <3>1 DEF GivesADelivery, Placing
      <4>2. /\ delivery \in [News -> [Devices -> Placing]]
            /\ tries \in [News -> [Devices -> 0..MaxTries]]
        BY DEF Shape, Placing
      <4>3. /\ delivery' \in [News -> [Devices -> Placing]]
            /\ delivery'[n][d] = "trying"
            /\ \A y \in News, z \in Devices :
                 y # n \/ z # d => delivery'[y][z] = delivery[y][z]
        BY <4>1, <4>2, DeliveriesKeep
      <4>4. /\ tries' \in [News -> [Devices -> 0..MaxTries]]
            /\ \A y \in News, z \in Devices : y # n \/ z # d => tries'[y][z] = tries[y][z]
        BY ONLY <4>1, <4>2, n \in News, d \in Devices, TriesKeep
      <4>5. Shape'
        <5>1. free' = free - 1 /\ UNCHANGED <<store, news, skipped, closing>>
          BY <2>5, <3>1 DEF GivesADelivery
        <5>2. free' \in Nat
          BY <3>1, <5>1 DEF Shape
        <5> QED
          BY <3>t, <4>3, <4>4, <5>1, <5>2 DEF store, news, Shape, Placing
      <4>6. PausesHaveTime'
        <5> SUFFICES ASSUME NEW y \in News, NEW z \in Devices, delivery'[y][z] = "pausing"
                     PROVE  tries'[y][z] < MaxTries
          BY DEF PausesHaveTime
        <5>1. y # n \/ z # d
          BY <4>3
        <5> QED
          BY <4>3, <4>4, <5>1 DEF PausesHaveTime
      <4> QED
        BY <4>5, <4>6
    <3>2. CASE ~(free > 0)
      <4>1. UNCHANGED <<store, news, closing, free, delivery, tries>>
        BY <2>5, <3>2 DEF GivesADelivery
      <4>2. skipped' \in SUBSET (News \X Devices)
        <5>1. skipped' = skipped \cup {<<n, d>>} /\ skipped \in SUBSET (News \X Devices)
          BY <2>5, <3>2 DEF GivesADelivery, Shape
        <5>2. <<n, d>> \in News \X Devices
          OBVIOUS
        <5> HIDE DEF News
        <5> QED
          BY <5>1, <5>2
      <4> QED
        BY <3>t, <4>1, <4>2 DEF store, news, Shape, PausesHaveTime
    <3> QED
      BY <3>1, <3>2
  <2>6. ASSUME NEW n \in News, NEW d \in Devices, Deliver(n, d) PROVE ShapeInv'
    <3>a. ASSUME NEW x \in Placing, delivery' = [delivery EXCEPT ![n][d] = x]
          PROVE  /\ delivery' \in [News -> [Devices -> Placing]]
                 /\ delivery'[n][d] = x
                 /\ \A y \in News, z \in Devices :
                      y # n \/ z # d => delivery'[y][z] = delivery[y][z]
      <4>1. delivery \in [News -> [Devices -> Placing]]
        BY DEF Shape, Placing
      <4> QED
        BY <3>a, <4>1, DeliveriesKeep
    <3>b. /\ UNCHANGED <<count, code, before, latest, overtaken, stage, todo, skipped, closing>>
          /\ subs' \in SUBSET Devices
      BY <2>6 DEF Deliver, Delivered, Gone, Refused, Unavailable, TriesAgain, PauseIsCut,
                  Leaves, store, news, Shape
    <3>c. free' \in Nat
      BY <2>6 DEF Deliver, Delivered, Gone, Refused, Unavailable, TriesAgain, PauseIsCut,
                  Leaves, Shape
    <3>d. taken' \in [Devices -> [Codes -> 0..MaxNews]]
      <4>1. CASE UNCHANGED taken
        BY <4>1 DEF Shape
      <4>2. CASE Takes(n, d)
        BY <4>2, OnePlace DEF Takes, Shape
      <4> QED
        BY <2>6, <4>1, <4>2 DEF Deliver, Delivered, Gone, Refused, Unavailable, TriesAgain,
                                PauseIsCut, Leaves, store
    <3>1. CASE UNCHANGED tries
      <4>1. PICK x \in Placing : /\ delivery' = [delivery EXCEPT ![n][d] = x]
                                 /\ x = "pausing" => tries[n][d] < MaxTries
        <5>1. CASE Delivered(n, d) \/ Gone(n, d) \/ Refused(n, d) \/ PauseIsCut(n, d)
          <6>1. delivery' = [delivery EXCEPT ![n][d] = "leaving"]
            BY <5>1 DEF Delivered, Gone, Refused, PauseIsCut
          <6> QED
            BY <6>1 DEF Placing
        <5>2. CASE Unavailable(n, d)
          BY <5>2 DEF Unavailable, Placing
        <5>3. CASE TriesAgain(n, d)
          <6>1. delivery' = [delivery EXCEPT ![n][d] = "trying"]
            BY <5>3 DEF TriesAgain
          <6> QED
            BY <6>1 DEF Placing
        <5>4. CASE Leaves(n, d)
          <6>1. delivery' = [delivery EXCEPT ![n][d] = "ended"]
            BY <5>4 DEF Leaves
          <6> QED
            BY <6>1 DEF Placing
        <5> QED
          BY <2>6, <5>1, <5>2, <5>3, <5>4 DEF Deliver
      <4>2. Shape'
        BY <3>1, <3>a, <3>b, <3>c, <3>d, <4>1 DEF Shape, Placing
      <4>3. PausesHaveTime'
        BY <3>1, <3>a, <4>1 DEF PausesHaveTime
      <4> QED
        BY <4>2, <4>3
    <3>2. CASE TriesAgain(n, d)
      <4>1. delivery' = [delivery EXCEPT ![n][d] = "trying"] /\ "trying" \in Placing
        BY <3>2 DEF TriesAgain, Placing
      <4>t. tries \in [News -> [Devices -> 0..MaxTries]] /\ tries[n][d] < MaxTries
        BY <3>2 DEF TriesAgain, PausesHaveTime, Shape
      <4>s. tries[n][d] \in 0..MaxTries
        BY <4>t
      <4>2. tries[n][d] + 1 \in 0..MaxTries /\ tries \in [News -> [Devices -> 0..MaxTries]]
        BY <4>s, <4>t
      <4>3. tries' = [tries EXCEPT ![n][d] = tries[n][d] + 1]
        BY <3>2 DEF TriesAgain
      <4>4. /\ tries' \in [News -> [Devices -> 0..MaxTries]]
            /\ \A y \in News, z \in Devices : y # n \/ z # d => tries'[y][z] = tries[y][z]
        BY <4>2, <4>3, OnePlace, Zenon
      <4>5. Shape'
        BY <3>a, <3>b, <3>c, <3>d, <4>1, <4>4 DEF Shape, Placing
      <4>6. PausesHaveTime'
        <5> SUFFICES ASSUME NEW y \in News, NEW z \in Devices, delivery'[y][z] = "pausing"
                     PROVE  tries'[y][z] < MaxTries
          BY DEF PausesHaveTime
        <5>1. y # n \/ z # d
          BY <3>a, <4>1
        <5>2. delivery'[y][z] = delivery[y][z] /\ tries'[y][z] = tries[y][z]
          BY <3>a, <4>1, <4>4, <5>1
        <5> QED
          BY <5>2 DEF PausesHaveTime
      <4> QED
        BY <4>5, <4>6
    <3> QED
      BY <2>6, <3>1, <3>2 DEF Deliver, Delivered, Gone, Refused, Unavailable, PauseIsCut, Leaves
  <2>7. ASSUME CloseCancels \/ CloseReturns PROVE ShapeInv'
    BY <2>7 DEF CloseCancels, CloseReturns, store, news, deliveries, Shape, PausesHaveTime
  <2>8. CASE UNCHANGED vars
    BY <2>8 DEF vars, store, news, deliveries, Shape, PausesHaveTime
  <2> QED
    BY <2>1, <2>2, <2>3, <2>4, <2>5, <2>6, <2>7, <2>8 DEF Next, OneNews
<1> QED
  BY <1>1, <1>2, PTL DEF Spec

-----------------------------------------------------------------------------
\* The order of the news.

Numbered == \A n \in News : stage[n] = "none" <=> n > count

Newest ==
  \A c \in Codes :
    /\ latest[c] # 0 => latest[c] <= count /\ code[latest[c]] = c
    /\ \A n \in News : n <= count /\ code[n] = c /\ n > latest[c] => Over(n)

Chain ==
  \A n \in News : n <= count =>
    /\ before[n] < n
    /\ before[n] # 0 => code[before[n]] = code[n]
    /\ \A m \in News : m < n /\ code[m] = code[n] /\ m > before[n] => Over(m)

OrderInv == Numbered /\ Newest /\ Chain /\ NeverBeside

\* A dispatch keeps the order: the new news comes after the latest of its code.
LEMMA DispatchKeepsOrder ==
  ASSUME Shape, OrderInv, NEW c \in Codes, Dispatch(c)
  PROVE  OrderInv'
<1> USE NotifierAssumption DEF News
<1> DEFINE k == count + 1
<1>1. /\ k \in News /\ count' = k /\ count \in Nat
      /\ code' = [code EXCEPT ![k] = c]
      /\ before' = [before EXCEPT ![k] = latest[c]]
      /\ latest' = [latest EXCEPT ![c] = k]
      /\ stage' = [stage EXCEPT ![k] = "waiting"]
  BY DEF Dispatch, NewsBefore, Shape
<1>2. /\ code'[k] = c /\ before'[k] = latest[c] /\ stage'[k] = "waiting" /\ latest'[c] = k
      /\ \A n \in News \ {k} : code'[n] = code[n] /\ before'[n] = before[n]
                               /\ stage'[n] = stage[n]
      /\ \A x \in Codes \ {c} : latest'[x] = latest[x]
  BY <1>1 DEF Shape
<1>t. /\ \A n \in News : before[n] \in 0..MaxNews
      /\ \A x \in Codes : latest[x] \in 0..MaxNews
  BY DEF Shape
<1> HIDE DEF k
<1>k. k = count + 1
  BY DEF k
<1>3. Numbered'
  BY <1>1, <1>2, <1>k DEF OrderInv, Numbered
<1>4. Newest'
  <2> SUFFICES ASSUME NEW x \in Codes
      PROVE /\ latest'[x] # 0 => latest'[x] <= count' /\ code'[latest'[x]] = x
            /\ \A n \in News : n <= count' /\ code'[n] = x /\ n > latest'[x] => Over(n)'
    BY DEF Newest
  <2>1. CASE x = c
    BY <2>1, <1>1, <1>2
  <2>2. CASE x # c
    BY <2>2, <1>1, <1>2, <1>k, <1>t DEF OrderInv, Newest, Over
  <2> QED
    BY <2>1, <2>2
<1>5. Chain'
  <2> SUFFICES ASSUME NEW n \in News, n <= count'
      PROVE /\ before'[n] < n
            /\ before'[n] # 0 => code'[before'[n]] = code'[n]
            /\ \A m \in News : m < n /\ code'[m] = code'[n] /\ m > before'[n] => Over(m)'
    BY DEF Chain
  <2>1. CASE n = k
    BY <2>1, <1>1, <1>2, <1>k, <1>t DEF OrderInv, Newest, Over
  <2>2. CASE n # k
    BY <2>2, <1>1, <1>2, <1>k, <1>t DEF OrderInv, Chain, Over
  <2> QED
    BY <2>1, <2>2
<1>6. NeverBeside'
  BY <1>1, <1>2, <1>k DEF OrderInv, NeverBeside
<1> QED
  BY <1>3, <1>4, <1>5, <1>6 DEF OrderInv

\* News that may go has everything of its code before it over.
LEMMA TurnComesInOrder ==
  ASSUME Shape, OrderInv, NEW n \in News, ItsTurn(n)
  PROVE  n <= count /\ \A m \in News : m < n /\ code[m] = code[n] => Over(m)
<1> USE NotifierAssumption DEF News
<1>1. n <= count /\ before[n] \in 0..MaxNews /\ count \in Nat
  BY DEF ItsTurn, OrderInv, Numbered, Shape
<1>2. CASE before[n] = 0
  BY <1>1, <1>2 DEF OrderInv, Chain
<1>3. CASE before[n] # 0
  <2>1. /\ before[n] \in News /\ stage[before[n]] = "over" /\ code[before[n]] = code[n]
        /\ before[n] <= count
    BY <1>1, <1>3 DEF ItsTurn, OrderInv, Chain
  <2>2. \A m \in News : m < before[n] /\ code[m] = code[n] => Over(m)
    BY <2>1 DEF OrderInv, NeverBeside, Over
  <2>3. \A m \in News : m < n /\ m > before[n] /\ code[m] = code[n] => Over(m)
    BY <1>1 DEF OrderInv, Chain
  <2> QED
    BY <1>1, <2>1, <2>2, <2>3 DEF Over
<1> QED
  BY <1>1, <1>2, <1>3

\* News whose predecessors are over may end.
LEMMA EndKeepsOrder ==
  ASSUME Shape, OrderInv, NEW n \in News, n <= count, Ends(n),
         \A m \in News : m < n /\ code[m] = code[n] => Over(m),
         UNCHANGED <<count, code, before>>
  PROVE  OrderInv'
<1> USE NotifierAssumption DEF News
<1>1. /\ stage'[n] = "over"
      /\ \A m \in News \ {n} : stage'[m] = stage[m]
      /\ \A c \in Codes : latest'[c] = IF latest[c] = n THEN 0 ELSE latest[c]
      /\ \A c \in Codes : latest[c] \in 0..MaxNews
      /\ count \in Nat
  BY DEF Ends, Forgets, Shape
<1>2. \A m \in News : Over(m) => Over(m)'
  BY <1>1 DEF Over
<1>3. Numbered' /\ Chain' /\ NeverBeside'
  BY <1>1, <1>2 DEF OrderInv, Numbered, Chain, NeverBeside, Over
<1>4. Newest'
  <2> SUFFICES ASSUME NEW c \in Codes
      PROVE /\ latest'[c] # 0 => latest'[c] <= count' /\ code'[latest'[c]] = c
            /\ \A m \in News : m <= count' /\ code'[m] = c /\ m > latest'[c] => Over(m)'
    BY DEF Newest
  <2>1. CASE latest[c] = n
    <3>1. code[n] = c /\ \A m \in News : m <= count /\ code[m] = c /\ m > n => Over(m)
      BY <2>1 DEF OrderInv, Newest
    <3> QED
      BY <1>1, <1>2, <2>1, <3>1 DEF Over
  <2>2. CASE latest[c] # n
    BY <1>1, <1>2, <2>2 DEF OrderInv, Newest
  <2> QED
    BY <2>1, <2>2
<1> QED
  BY <1>3, <1>4 DEF OrderInv

LEMMA OrderHolds == Spec => []OrderInv
<1> USE NotifierAssumption DEF News
<1>1. Init => OrderInv
  BY DEF Init, OrderInv, Numbered, Newest, Chain, NeverBeside, Over
<1>2. Shape /\ OrderInv /\ [Next]_vars => OrderInv'
  <2> SUFFICES ASSUME Shape, OrderInv, [Next]_vars PROVE OrderInv'
    OBVIOUS
  <2>1. ASSUME UNCHANGED news PROVE OrderInv'
    BY <2>1 DEF news, OrderInv, Numbered, Newest, Chain, NeverBeside, Over
  <2>2. ASSUME NEW c \in Codes, Dispatch(c) PROVE OrderInv'
    BY <2>2, DispatchKeepsOrder
  <2>3. ASSUME NEW n \in News, GoesOut(n) PROVE OrderInv'
    <3>1. n <= count /\ \A m \in News : m < n /\ code[m] = code[n] => Over(m)
      BY <2>3, TurnComesInOrder DEF GoesOut
    <3>2. /\ UNCHANGED <<count, code, before, latest>>
          /\ stage'[n] = "sending" /\ stage[n] = "waiting"
          /\ \A m \in News \ {n} : stage'[m] = stage[m]
      BY <2>3 DEF GoesOut, ItsTurn, Shape
    <3>3. \A m \in News : Over(m) => Over(m)'
      BY <3>2 DEF Over
    <3>4. Numbered' /\ Newest' /\ Chain'
      BY <3>1, <3>2, <3>3 DEF OrderInv, Numbered, Newest, Chain, Shape
    <3>5. NeverBeside'
      BY <3>1, <3>2 DEF OrderInv, NeverBeside, Over
    <3> QED
      BY <3>4, <3>5 DEF OrderInv
  <2>4. ASSUME NEW n \in News, WasOvertaken(n) PROVE OrderInv'
    BY <2>4, TurnComesInOrder, EndKeepsOrder DEF WasOvertaken
  <2>5. ASSUME NEW n \in News, HasGoneOut(n) PROVE OrderInv'
    <3>1. n <= count /\ \A m \in News : m < n /\ code[m] = code[n] => Over(m)
      BY <2>5 DEF HasGoneOut, OrderInv, Numbered, NeverBeside, Over, Shape
    <3> QED
      BY <2>5, <3>1, EndKeepsOrder DEF HasGoneOut
  <2>6. \/ \E c \in Codes : Dispatch(c)
        \/ \E n \in News : GoesOut(n) \/ WasOvertaken(n) \/ HasGoneOut(n)
        \/ UNCHANGED news
    BY DEF Next, OneNews, Deliver, vars, Subscribe, Unsubscribe, GivesADelivery, Delivered,
           Gone, Refused, Unavailable, TriesAgain, PauseIsCut, Leaves, CloseCancels,
           CloseReturns
  <2> QED
    BY <2>1, <2>2, <2>3, <2>4, <2>5, <2>6
<1>3. Spec => []Shape
  BY ShapeHolds, PTL DEF ShapeInv
<1> QED
  BY <1>1, <1>2, <1>3, PTL DEF Spec

\* News on a code goes out after the news before it, never beside it: the wait
\* of dispatch for the one news it found in `latest` is enough.
THEOREM NewsGoesInOrder == Spec => []NeverBeside
BY OrderHolds, PTL DEF OrderInv

-----------------------------------------------------------------------------
\* The deliveries.
\* Only a news that is sending has deliveries under way, nothing is left once
\* Close has returned, and what a service took is a news of that code that was
\* sent, and what was cancelled has a newer news on its code.
Sending ==
  \A n \in News, d \in Devices : delivery[n][d] \in UnderWay => stage[n] = "sending"

Quiet == closing = "closed" => \A n \in News : stage[n] \in {"none", "over"}

Reached ==
  \A d \in Devices, c \in Codes :
    taken[d][c] # 0 => code[taken[d][c]] = c /\ stage[taken[d][c]] \in {"sending", "over"}

Stale ==
  \A n \in News : n \in overtaken =>
    n <= count /\ \E m \in News : n < m /\ m <= count /\ code[m] = code[n]

\* A delivery is given once, to a device the loop has not come to.
Fresh ==
  \A n \in News, d \in Devices :
    stage[n] \in {"none", "waiting"} \/ d \in todo[n] => delivery[n][d] = "none"

ReachInv == Sending /\ Quiet /\ Reached /\ Stale /\ Fresh

\* A step of a delivery: it was under way, nothing of the news changes, and its
\* service may take the message.
LEMMA DeliverSteps ==
  ASSUME Shape, NEW n \in News, NEW d \in Devices, Deliver(n, d)
  PROVE  /\ delivery[n][d] \in UnderWay
         /\ UNCHANGED <<count, code, before, latest, overtaken, stage, closing, todo>>
         /\ \E x \in Placing : delivery' = [delivery EXCEPT ![n][d] = x]
         /\ \A m \in News, e \in Devices :
              m # n \/ e # d => delivery'[m][e] = delivery[m][e]
         /\ taken' = taken \/ Takes(n, d)
<1>1. \E x \in Placing : delivery' = [delivery EXCEPT ![n][d] = x]
  BY DEF Deliver, Delivered, Gone, Refused, Unavailable, TriesAgain, PauseIsCut, Leaves,
         Placing, UnderWay
<1>2. \A m \in News, e \in Devices : m # n \/ e # d => delivery'[m][e] = delivery[m][e]
  <2>1. delivery \in [News -> [Devices -> Placing]]
    BY DEF Shape, Placing
  <2>2. PICK x \in Placing : delivery' = [delivery EXCEPT ![n][d] = x]
    BY <1>1
  <2> QED
    BY <2>1, <2>2, OnePlace, Zenon
<1>3. delivery[n][d] \in UnderWay
  BY DEF Deliver, Delivered, Gone, Refused, Unavailable, TriesAgain, PauseIsCut, Leaves,
         UnderWay
<1> QED
  BY <1>1, <1>2, <1>3 DEF Deliver, Delivered, Gone, Refused, Unavailable, TriesAgain,
                         PauseIsCut, Leaves, store, news

\* The same of a turn of the loop that gives deliveries.
LEMMA GivesSteps ==
  ASSUME Shape, NEW n \in News, NEW d \in Devices, GivesADelivery(n, d)
  PROVE  /\ stage[n] = "sending"
         /\ UNCHANGED <<count, code, before, latest, overtaken, stage, closing, taken>>
         /\ d \in todo[n] /\ d \notin todo'[n]
         /\ \A m \in News : todo'[m] \in SUBSET todo[m]
         /\ \A m \in News, e \in Devices :
              m # n \/ e # d => delivery'[m][e] = delivery[m][e]
<1>1. \A m \in News, e \in Devices : m # n \/ e # d => delivery'[m][e] = delivery[m][e]
  <2>1. CASE free > 0
    <3>1. delivery' = [delivery EXCEPT ![n][d] = "trying"] /\ "trying" \in Placing
      BY <2>1 DEF GivesADelivery, Placing, UnderWay
    <3>2. delivery \in [News -> [Devices -> Placing]]
      BY DEF Shape, Placing
    <3> QED
      BY <3>1, <3>2, OnePlace, Zenon
  <2>2. CASE ~(free > 0)
    <3>1. delivery' = delivery
      BY <2>2 DEF GivesADelivery
    <3> QED
      BY <3>1
  <2> QED
    BY <2>1, <2>2
<1>2. d \in todo[n] /\ todo' = [todo EXCEPT ![n] = todo[n] \ {d}]
  BY DEF GivesADelivery
<1>3. d \notin todo'[n] /\ \A m \in News : todo'[m] \in SUBSET todo[m]
  BY <1>2 DEF Shape
<1> QED
  BY <1>1, <1>2, <1>3 DEF GivesADelivery, store, news

LEMMA ReachHolds == Spec => []ReachInv
<1> USE NotifierAssumption
<1>1. Init => ReachInv
  BY DEF Init, ReachInv, Sending, Quiet, Reached, Stale, Fresh, UnderWay
<1>2. Shape /\ OrderInv /\ ReachInv /\ [Next]_vars => ReachInv'
  <2> SUFFICES ASSUME Shape, OrderInv, ReachInv, [Next]_vars PROVE ReachInv'
    OBVIOUS
  <2> USE DEF ReachInv
  <2>t. /\ \A d \in Devices, c \in Codes : taken[d][c] \in 0..MaxNews
        /\ \A d \in Devices, c \in Codes : taken[d][c] # 0 => taken[d][c] \in News
    BY DEF Shape, News
  <2>1. ASSUME UNCHANGED <<delivery, taken, count, code, overtaken, stage, closing, todo>>
        PROVE  ReachInv'
    BY <2>1 DEF Sending, Quiet, Reached, Stale, Fresh
  <2>2. ASSUME NEW c \in Codes, Dispatch(c) PROVE ReachInv'
    <3> DEFINE k == count + 1
    <3>1. /\ k \in News /\ count' = k /\ count \in Nat /\ closing = "open"
          /\ overtaken' = overtaken \cup {latest[c]}
          /\ latest[c] \in 0..MaxNews
          /\ stage[k] = "none"
          /\ UNCHANGED <<delivery, taken, closing, todo>>
      BY <2>2 DEF Dispatch, Overtakes, Shape, News, store, deliveries, OrderInv, Numbered
    <3>2. /\ code'[k] = c /\ stage'[k] = "waiting"
          /\ \A n \in News \ {k} : code'[n] = code[n] /\ stage'[n] = stage[n]
      BY <2>2, <3>1 DEF Dispatch, Shape
    <3>k. k = count + 1
      OBVIOUS
    <3> HIDE DEF k
    <3>3. Sending'
      BY <3>1, <3>2 DEF Sending
    <3>4. Quiet'
      BY <3>1 DEF Quiet
    <3>5. Reached'
      BY <2>t, <3>1, <3>2 DEF Reached
    <3>6. Stale'
      <4> SUFFICES ASSUME NEW n \in News, n \in overtaken'
                   PROVE  n <= count' /\ \E m \in News : n < m /\ m <= count' /\ code'[m] = code'[n]
        BY DEF Stale
      <4>1. CASE n \in overtaken
        <5>1. PICK m \in News : n < m /\ m <= count /\ code[m] = code[n]
          BY <4>1 DEF Stale
        <5>2. n <= count' /\ n < m /\ m <= count' /\ n # k /\ m # k
          BY <3>1, <3>k, <5>1 DEF News
        <5> QED
          BY <3>2, <5>1, <5>2
      <4>2. CASE n = latest[c]
        <5>1. n <= count /\ code[n] = c
          BY <4>2 DEF OrderInv, Newest, News
        <5>2. n <= count' /\ n < k /\ k <= count' /\ n # k
          BY <3>1, <3>k, <5>1 DEF News
        <5> QED
          BY <3>1, <3>2, <5>1, <5>2
      <4> QED
        BY <3>1, <4>1, <4>2
    <3>7. Fresh'
      BY <3>1, <3>2 DEF Fresh
    <3> QED
      BY <3>3, <3>4, <3>5, <3>6, <3>7
  <2>3. ASSUME NEW n \in News, GoesOut(n) PROVE ReachInv'
    <3>1. /\ stage[n] = "waiting" /\ stage'[n] = "sending" /\ closing = "open"
          /\ \A m \in News \ {n} : stage'[m] = stage[m]
          /\ UNCHANGED <<delivery, taken, count, code, overtaken, closing>>
      BY <2>3 DEF GoesOut, ItsTurn, Superseded, Shape, store
    <3>2. Fresh'
      <4>1. \A m \in News \ {n} : todo'[m] = todo[m]
        BY <2>3 DEF GoesOut, Shape
      <4> QED
        BY <3>1, <4>1 DEF Fresh
    <3> QED
      BY <2>t, <3>1, <3>2 DEF Sending, Quiet, Reached, Stale
  <2>4. ASSUME NEW n \in News, WasOvertaken(n) \/ HasGoneOut(n) PROVE ReachInv'
    <3>1. /\ stage'[n] = "over"
          /\ \A m \in News \ {n} : stage'[m] = stage[m]
          /\ UNCHANGED <<delivery, taken, count, code, overtaken, closing, todo>>
      BY <2>4 DEF WasOvertaken, HasGoneOut, Ends, Shape, store, deliveries
    <3>2. \A d \in Devices : delivery[n][d] \notin UnderWay
      BY <2>4 DEF WasOvertaken, ItsTurn, HasGoneOut, Sending, UnderWay
    <3> QED
      BY <2>t, <3>1, <3>2 DEF Sending, Quiet, Reached, Stale, Fresh
  <2>5. ASSUME NEW n \in News, NEW d \in Devices, GivesADelivery(n, d) PROVE ReachInv'
    <3>1. Sending' /\ Quiet' /\ Reached' /\ Stale'
      BY <2>5, GivesSteps DEF Sending, Quiet, Reached, Stale
    <3>2. Fresh'
      <4> SUFFICES ASSUME NEW m \in News, NEW e \in Devices,
                          stage'[m] \in {"none", "waiting"} \/ e \in todo'[m]
                   PROVE  delivery'[m][e] = "none"
        BY DEF Fresh
      <4>1. /\ stage[m] \in {"none", "waiting"} \/ e \in todo[m]
            /\ m # n \/ e # d
        BY <2>5, GivesSteps
      <4>2. delivery'[m][e] = delivery[m][e]
        BY <2>5, <4>1, GivesSteps
      <4> QED
        BY <4>1, <4>2 DEF Fresh
    <3> QED
      BY <3>1, <3>2
  <2>6. ASSUME NEW n \in News, NEW d \in Devices, Deliver(n, d) PROVE ReachInv'
    <3>1. /\ delivery[n][d] \in UnderWay /\ stage[n] = "sending"
          /\ UNCHANGED <<count, code, overtaken, stage, closing, todo>>
          /\ \A m \in News, e \in Devices :
               m # n \/ e # d => delivery'[m][e] = delivery[m][e]
          /\ taken' = taken \/ Takes(n, d)
      BY <2>6, DeliverSteps DEF Sending
    <3>2. Sending' /\ Quiet' /\ Stale' /\ Fresh'
      BY <3>1 DEF Sending, Quiet, Stale, Fresh, UnderWay
    <3>3. Reached'
      <4>1. CASE taken' = taken
        BY <3>1, <4>1 DEF Reached
      <4>2. CASE Takes(n, d)
        <5>1. \A e \in Devices, c \in Codes :
                taken'[e][c] = IF e = d /\ c = code[n] THEN n ELSE taken[e][c]
          BY <4>2 DEF Takes, Shape
        <5> QED
          BY <3>1, <5>1 DEF Reached
      <4> QED
        BY <3>1, <4>1, <4>2
    <3> QED
      BY <3>2, <3>3
  <2>7. ASSUME CloseReturns PROVE ReachInv'
    BY <2>7 DEF CloseReturns, store, news, deliveries, Sending, Quiet, Reached, Stale, Fresh
  <2>8. ASSUME CloseCancels PROVE ReachInv'
    BY <2>8 DEF CloseCancels, store, news, deliveries, Sending, Quiet, Reached, Stale, Fresh
  <2>9. ASSUME NEW d \in Devices, Subscribe(d) \/ Unsubscribe(d) PROVE ReachInv'
    BY <2>1, <2>9 DEF Subscribe, Unsubscribe, news, deliveries
  <2>10. CASE UNCHANGED vars
    BY <2>1, <2>10 DEF vars, store, news, deliveries
  <2> QED
    BY <2>2, <2>3, <2>4, <2>5, <2>6, <2>7, <2>8, <2>9, <2>10 DEF Next, OneNews
<1>3. Spec => []Shape
  BY ShapeHolds, PTL DEF ShapeInv
<1>4. Spec => []OrderInv
  BY OrderHolds
<1> QED
  BY <1>1, <1>2, <1>3, <1>4, PTL DEF Spec

\* Once Close has returned no delivery is under way, in whatever state it found
\* the news: what it waits for covers every goroutine they started.
THEOREM NothingOutlivesClose == Spec => []CloseWaits
<1>1. ReachInv => CloseWaits
  BY DEF ReachInv, Sending, Quiet, CloseWaits
<1> QED
  BY <1>1, ReachHolds, PTL

\* What the service of a device took last on a code only gets newer: a fault is
\* never handed over after its own recovery.
THEOREM PhonesGoForward == Spec => NeverBackwards
<1> USE NotifierAssumption
<1>1. Shape /\ OrderInv /\ ReachInv /\ [Next]_vars =>
        [\A d \in Devices, c \in Codes : taken'[d][c] >= taken[d][c]]_vars
  <2> SUFFICES ASSUME Shape, OrderInv, ReachInv, Next, NEW e \in Devices, NEW c \in Codes
               PROVE  taken'[e][c] >= taken[e][c] \/ UNCHANGED vars
    OBVIOUS
  <2>t. taken[e][c] \in 0..MaxNews /\ (taken[e][c] # 0 => taken[e][c] \in News)
    BY DEF Shape, News
  <2>1. CASE UNCHANGED taken
    BY <2>1, <2>t
  <2>2. ASSUME NEW n \in News, NEW d \in Devices, Deliver(n, d), Takes(n, d)
        PROVE  taken'[e][c] >= taken[e][c]
    <3>1. taken'[e][c] = IF e = d /\ c = code[n] THEN n ELSE taken[e][c]
      BY <2>2 DEF Takes, Shape
    <3>2. CASE ~(e = d /\ c = code[n])
      BY <2>t, <3>1, <3>2
    <3>3. CASE e = d /\ c = code[n]
      <4>1. stage[n] = "sending"
        BY <2>2, DeliverSteps DEF ReachInv, Sending
      <4>2. ASSUME taken[e][c] > n PROVE FALSE
        <5> DEFINE t == taken[e][c]
        <5>1. t \in News /\ code[t] = code[n] /\ stage[t] \in {"sending", "over"}
          BY <2>t, <3>3, <4>2 DEF ReachInv, Reached, News
        <5>2. n < t /\ t <= count /\ stage[t] # "waiting"
          <6>1. t > n /\ ~(t > count)
            BY <4>2, <5>1 DEF OrderInv, Numbered
          <6>2. count \in Nat /\ n \in Nat /\ t \in Nat
            BY <5>1 DEF Shape, News
          <6>3. stage[t] # "waiting"
            BY <5>1
          <6> HIDE DEF t
          <6> QED
            BY <6>1, <6>2, <6>3
        <5> HIDE DEF t
        <5>3. stage[n] = "over"
          BY <5>1, <5>2 DEF OrderInv, NeverBeside
        <5> QED
          BY <4>1, <5>3
      <4> QED
        BY <2>t, <3>1, <3>3, <4>2 DEF News
    <3> QED
      BY <3>2, <3>3
  <2>3. \/ UNCHANGED taken
        \/ \E n \in News, d \in Devices : Deliver(n, d)
    BY DEF Next, OneNews, Subscribe, Unsubscribe, Dispatch, GoesOut, WasOvertaken,
           HasGoneOut, GivesADelivery, CloseCancels, CloseReturns, store
  <2> QED
    BY <2>1, <2>2, <2>3, DeliverSteps
<1>2. Spec => []Shape
  BY ShapeHolds, PTL DEF ShapeInv
<1>3. Spec => []OrderInv /\ []ReachInv
  BY OrderHolds, ReachHolds
<1> QED
  BY <1>1, <1>2, <1>3, PTL DEF Spec, NeverBackwards

\* News that waited is passed over only for newer news on its own code, or
\* because the monitor is closing.
THEOREM OnlyStaleIsPassedOver == Spec => OnlyStaleIsDropped
<1>1. Shape /\ ReachInv /\ [Next]_vars =>
        [\A n \in News :
           stage[n] = "waiting" /\ stage'[n] = "over" =>
             closing # "open" \/ \E m \in News : n < m /\ m <= count /\ code[m] = code[n]]_vars
  <2> SUFFICES ASSUME Shape, ReachInv, Next, NEW n \in News,
                      stage[n] = "waiting", stage'[n] = "over", closing = "open"
               PROVE  \E m \in News : n < m /\ m <= count /\ code[m] = code[n]
    OBVIOUS
  <2>1. \/ UNCHANGED stage
        \/ \E c \in Codes : Dispatch(c)
        \/ \E k \in News : GoesOut(k) \/ WasOvertaken(k) \/ HasGoneOut(k)
    BY DEF Next, OneNews, Deliver, Subscribe, Unsubscribe, GivesADelivery, Delivered,
           Gone, Refused, Unavailable, TriesAgain, PauseIsCut, Leaves, CloseCancels,
           CloseReturns, news
  <2>2. ASSUME NEW c \in Codes, Dispatch(c) PROVE FALSE
    BY <2>2 DEF Dispatch, Shape
  <2>3. ASSUME NEW k \in News, GoesOut(k) \/ HasGoneOut(k) PROVE FALSE
    BY <2>3 DEF GoesOut, HasGoneOut, Ends, Shape
  <2>4. ASSUME NEW k \in News, WasOvertaken(k)
        PROVE  \E m \in News : n < m /\ m <= count /\ code[m] = code[n]
    <3>1. k = n /\ n \in overtaken
      BY <2>4 DEF WasOvertaken, Ends, Superseded, Shape
    <3> QED
      BY <3>1 DEF ReachInv, Stale
  <2> QED
    BY <2>1, <2>2, <2>3, <2>4
<1>2. Spec => []Shape
  BY ShapeHolds, PTL DEF ShapeInv
<1> QED
  BY <1>1, <1>2, ReachHolds, PTL DEF Spec, OnlyStaleIsDropped

-----------------------------------------------------------------------------
\* The slots.

LEMMA SlotsHold == Spec => [](SlotsComeBack /\ IsFiniteSet(InFlight))
<1> USE NotifierAssumption
<1> DEFINE Held == SlotsComeBack /\ IsFiniteSet(InFlight)
<1>1. Init => Held
  <2> SUFFICES ASSUME Init PROVE Held
    OBVIOUS
  <2>1. InFlight = {}
    BY DEF Init, InFlight, UnderWay
  <2> QED
    BY <2>1, FS_EmptySet DEF Init, SlotsComeBack
<1>2. Shape /\ ReachInv /\ Held /\ [Next]_vars => Held'
  <2> SUFFICES ASSUME Shape, ReachInv, Held, [Next]_vars PROVE Held'
    OBVIOUS
  <2>c. Cardinality(InFlight) \in Nat /\ free \in Nat /\ Slots \in Nat
    BY FS_CardinalityType DEF Shape
  <2>1. ASSUME UNCHANGED <<delivery, free>> PROVE Held'
    <3>1. InFlight' = InFlight
      BY <2>1 DEF InFlight
    <3> QED
      BY <2>1, <3>1 DEF SlotsComeBack
  <2>2. ASSUME NEW n \in News, NEW d \in Devices, GivesADelivery(n, d) PROVE Held'
    <3>1. CASE free > 0
      <4>1. free' = free - 1 /\ delivery' = [delivery EXCEPT ![n][d] = "trying"]
        BY <2>2, <3>1 DEF GivesADelivery
      <4>2. delivery'[n][d] = "trying" /\ delivery[n][d] = "none"
        BY <2>2, <4>1, GivesSteps DEF Shape, ReachInv, Fresh
      <4>3. <<n, d>> \notin InFlight
        BY <4>2 DEF InFlight, UnderWay
      <4>4. InFlight' = InFlight \cup {<<n, d>>}
        BY <2>2, <4>2, GivesSteps DEF InFlight, UnderWay
      <4>5. IsFiniteSet(InFlight') /\ Cardinality(InFlight') = Cardinality(InFlight) + 1
        BY <4>3, <4>4, FS_AddElement
      <4> QED
        BY <2>c, <4>1, <4>5 DEF SlotsComeBack
    <3>2. CASE ~(free > 0)
      BY <2>1, <2>2, <3>2 DEF GivesADelivery
    <3> QED
      BY <3>1, <3>2
  <2>3. ASSUME NEW n \in News, NEW d \in Devices, Leaves(n, d) PROVE Held'
    <3>1. free' = free + 1 /\ delivery' = [delivery EXCEPT ![n][d] = "ended"]
      BY <2>3 DEF Leaves
    <3>2. delivery'[n][d] = "ended" /\ <<n, d>> \in InFlight
      BY <2>3, <3>1 DEF Leaves, Shape, InFlight, UnderWay
    <3>3. InFlight' = InFlight \ {<<n, d>>}
      BY <2>3, <3>2, DeliverSteps DEF Deliver, InFlight, UnderWay
    <3>4. IsFiniteSet(InFlight') /\ Cardinality(InFlight') = Cardinality(InFlight) - 1
      BY <3>2, <3>3, FS_RemoveElement
    <3> QED
      BY <2>c, <3>1, <3>4 DEF SlotsComeBack
  <2>4. ASSUME NEW n \in News, NEW d \in Devices, Deliver(n, d), ~Leaves(n, d)
        PROVE  Held'
    <3>1. /\ free' = free
          /\ \E x \in UnderWay : delivery' = [delivery EXCEPT ![n][d] = x]
      BY <2>4 DEF Deliver, Delivered, Gone, Refused, Unavailable, TriesAgain, PauseIsCut,
                  UnderWay
    <3>2. delivery'[n][d] \in UnderWay
      BY <3>1, <2>4 DEF Shape
    <3>3. InFlight' = InFlight
      BY <2>4, <3>2, DeliverSteps DEF InFlight
    <3> QED
      BY <3>1, <3>3 DEF SlotsComeBack
  <2>5. \/ UNCHANGED <<delivery, free>>
        \/ \E n \in News, d \in Devices : GivesADelivery(n, d) \/ Deliver(n, d)
    BY DEF Next, OneNews, Subscribe, Unsubscribe, Dispatch, GoesOut, WasOvertaken,
           HasGoneOut, CloseCancels, CloseReturns, deliveries, vars
  <2> HIDE DEF Held
  <2> QED
    BY <2>1, <2>2, <2>3, <2>4, <2>5
<1>3. Spec => []Shape
  BY ShapeHolds, PTL DEF ShapeInv
<1> QED
  BY <1>1, <1>2, <1>3, ReachHolds, PTL DEF Spec

\* A slot nobody is using is free, whatever road the deliveries took out.
THEOREM NoSlotIsLost == Spec => []SlotsComeBack
BY SlotsHold, PTL

\* Every variable has its type, and the slots are never more than there are.
THEOREM TypeCorrect == Spec => []TypeOK
<1>1. Shape /\ SlotsComeBack /\ IsFiniteSet(InFlight) => TypeOK
  <2> SUFFICES ASSUME Shape, SlotsComeBack, IsFiniteSet(InFlight) PROVE TypeOK
    OBVIOUS
  <2>1. free \in 0..Slots
    BY NotifierAssumption, FS_CardinalityType DEF Shape, SlotsComeBack
  <2> QED
    BY <2>1 DEF Shape, TypeOK
<1>2. Spec => []Shape
  BY ShapeHolds, PTL DEF ShapeInv
<1> QED
  BY <1>1, <1>2, SlotsHold, PTL
-----------------------------------------------------------------------------
\* Nobody is crowded out.
\* Places that the deliveries of different codes to different devices may take.
Places == CodesUsed \X DevicesTold

LEMMA PlacesAreFinite ==
  Shape => /\ IsFiniteSet(Places) /\ Cardinality(Places) \in Nat
           /\ Cardinality(Places) = Cardinality(CodesUsed) * Cardinality(DevicesTold)
<1> SUFFICES ASSUME Shape
             PROVE  /\ IsFiniteSet(Places) /\ Cardinality(Places) \in Nat
                    /\ Cardinality(Places) = Cardinality(CodesUsed) * Cardinality(DevicesTold)
  OBVIOUS
<1>1. IsFiniteSet(1..count)
  BY FS_Interval, NotifierAssumption DEF Shape
<1>2. IsFiniteSet(CodesUsed)
  <2> DEFINE f == [n \in 1..count |-> code[n]]
  <2>1. f \in Surjection(1..count, CodesUsed)
    BY DEF Surjection, CodesUsed
  <2> QED
    BY <1>1, <2>1, FS_Surjection
<1>3. IsFiniteSet(DevicesTold)
  BY NotifierAssumption, FS_Subset DEF DevicesTold
<1> QED
  BY <1>2, <1>3, FS_Product, FS_CardinalityType DEF Places

\* Those who are in the air, and one more who is to be, each have a place of
\* their own: of a code only one news is sending.
LEMMA EachHasAPlace ==
  ASSUME Shape, OrderInv, ReachInv, IsFiniteSet(InFlight),
         NEW n \in News, NEW d \in Devices, GivesADelivery(n, d), ~(free > 0)
  PROVE  Cardinality(InFlight) + 1 <= Cardinality(Places')
<1> DEFINE Air == InFlight \cup {<<n, d>>}
<1> DEFINE f == [p \in Air |-> <<code[p[1]], p[2]>>]
<1>0. /\ Shape' /\ UNCHANGED <<delivery, stage, code, count>> /\ skipped' = skipped \cup {<<n, d>>}
      /\ stage[n] = "sending" /\ delivery[n][d] = "none"
  <2>1. /\ UNCHANGED <<delivery, tries, free, store, news, closing>>
        /\ skipped' = skipped \cup {<<n, d>>} /\ stage[n] = "sending" /\ d \in todo[n]
        /\ todo' = [todo EXCEPT ![n] = todo[n] \ {d}]
    BY DEF GivesADelivery
  <2>2. todo' \in [News -> SUBSET Devices] /\ <<n, d>> \in News \X Devices
    BY <2>1 DEF Shape
  <2>3. skipped' \in SUBSET (News \X Devices)
    <3> HIDE DEF News
    <3> QED
      BY <2>1, <2>2 DEF Shape
  <2> QED
    BY <2>1, <2>2, <2>3 DEF Shape, ReachInv, Fresh, store, news
<1>1. <<n, d>> \notin InFlight
  BY <1>0 DEF InFlight, UnderWay
<1>2. /\ IsFiniteSet(Air) /\ Cardinality(Air) = Cardinality(InFlight) + 1
  BY <1>1, FS_AddElement
<1>3. \A p \in Air : /\ p = <<p[1], p[2]>> /\ p[1] \in News /\ p[2] \in Devices
                     /\ stage[p[1]] = "sending" /\ p[1] <= count
                     /\ code[p[1]] \in CodesUsed' /\ p[2] \in DevicesTold'
  <2> SUFFICES ASSUME NEW p \in Air
               PROVE  /\ p = <<p[1], p[2]>> /\ p[1] \in News /\ p[2] \in Devices
                      /\ stage[p[1]] = "sending" /\ p[1] <= count
                      /\ code[p[1]] \in CodesUsed' /\ p[2] \in DevicesTold'
    OBVIOUS
  <2>1. /\ p = <<p[1], p[2]>> /\ p[1] \in News /\ p[2] \in Devices
        /\ stage[p[1]] = "sending"
        /\ p[2] \in DevicesTold'
    <3>1. CASE p = <<n, d>>
      BY <1>0, <3>1 DEF DevicesTold
    <3>2. CASE p \in InFlight
      <4>1. /\ p = <<p[1], p[2]>> /\ p[1] \in News /\ p[2] \in Devices
            /\ delivery[p[1]][p[2]] \in UnderWay
        <5> HIDE DEF News
        <5> QED
          BY <3>2 DEF InFlight
      <4> QED
        BY <1>0, <4>1 DEF ReachInv, Sending, DevicesTold, UnderWay
    <3> QED
      BY <3>1, <3>2
  <2>2. p[1] <= count /\ p[1] \in 1..count
    BY <2>1 DEF OrderInv, Numbered, News, Shape
  <2> QED
    BY <1>0, <2>1, <2>2 DEF CodesUsed
<1>4. \A p, q \in Air : code[p[1]] = code[q[1]] /\ p[2] = q[2] => p = q
  <2> SUFFICES ASSUME NEW p \in Air, NEW q \in Air, code[p[1]] = code[q[1]], p[2] = q[2]
               PROVE  p = q
    OBVIOUS
  <2>1. p[1] \in Nat /\ q[1] \in Nat
    BY <1>3 DEF News
  <2>2. ~(p[1] < q[1]) /\ ~(q[1] < p[1])
    BY <1>3 DEF OrderInv, NeverBeside
  <2> QED
    BY <1>3, <2>1, <2>2
<1>5. f \in Injection(Air, Places')
  <2>1. f \in [Air -> Places']
    BY <1>3 DEF Places
  <2>2. \A p, q \in Air : f[p] = f[q] => p = q
    BY <1>4
  <2> QED
    BY <2>1, <2>2 DEF Injection, IsInjective
<1>6. IsFiniteSet(Places')
  <2>1. (Shape => IsFiniteSet(Places))'
    BY PlacesAreFinite, PTL
  <2> QED
    BY <1>0, <2>1
<1> QED
  BY <1>2, <1>5, <1>6, FS_Injection

\* A delivery that was given leaves its trace.
LEMMA DeliverLeavesATrace ==
  ASSUME Shape, NEW n \in News, NEW d \in Devices, Deliver(n, d)
  PROVE  delivery'[n][d] # "none"
<1>1. PICK x \in Placing \ {"none"} : delivery' = [delivery EXCEPT ![n][d] = x]
  <2>1. CASE Delivered(n, d) \/ Gone(n, d) \/ Refused(n, d) \/ PauseIsCut(n, d)
    <3>1. delivery' = [delivery EXCEPT ![n][d] = "leaving"]
      BY <2>1 DEF Delivered, Gone, Refused, PauseIsCut
    <3> QED
      BY <3>1 DEF Placing, UnderWay
  <2>2. CASE Unavailable(n, d)
    BY <2>2 DEF Unavailable, Placing, UnderWay
  <2>3. CASE TriesAgain(n, d)
    <3>1. delivery' = [delivery EXCEPT ![n][d] = "trying"]
      BY <2>3 DEF TriesAgain
    <3> QED
      BY <3>1 DEF Placing, UnderWay
  <2>4. CASE Leaves(n, d)
    <3>1. delivery' = [delivery EXCEPT ![n][d] = "ended"]
      BY <2>4 DEF Leaves
    <3> QED
      BY <3>1 DEF Placing, UnderWay
  <2> QED
    BY <2>1, <2>2, <2>3, <2>4 DEF Deliver
<1> QED
  BY <1>1 DEF Shape

\* What was told stays told: the places only become more.
LEMMA PlacesGrow == Shape /\ [Next]_vars => Places \subseteq Places'
<1> SUFFICES ASSUME Shape, [Next]_vars PROVE Places \subseteq Places'
  OBVIOUS
<1>1. CodesUsed \subseteq CodesUsed'
  <2>1. CASE UNCHANGED <<code, count>>
    BY <2>1 DEF CodesUsed
  <2>2. ASSUME NEW c \in Codes, Dispatch(c) PROVE CodesUsed \subseteq CodesUsed'
    <3>1. count \in Nat /\ count' = count + 1 /\ count' \in News
          /\ code' = [code EXCEPT ![count'] = c]
      BY <2>2, NotifierAssumption DEF Dispatch, Shape, News
    <3>2. \A n \in 1..count : n \in 1..count' /\ code'[n] = code[n]
      BY <3>1 DEF Shape, News
    <3> QED
      BY <3>2 DEF CodesUsed
  <2>3. UNCHANGED <<code, count>> \/ \E c \in Codes : Dispatch(c)
    BY DEF Next, OneNews, Deliver, vars, news, Subscribe, Unsubscribe, GoesOut, WasOvertaken,
           HasGoneOut, GivesADelivery, Delivered, Gone, Refused, Unavailable, TriesAgain,
           PauseIsCut, Leaves, CloseCancels, CloseReturns
  <2> QED
    BY <2>1, <2>2, <2>3
<1>2. DevicesTold \subseteq DevicesTold'
  <2>1. CASE UNCHANGED <<delivery, skipped>>
    BY <2>1 DEF DevicesTold
  <2>2. ASSUME NEW n \in News, NEW d \in Devices, GivesADelivery(n, d)
        PROVE  DevicesTold \subseteq DevicesTold'
    <3>1. CASE free > 0
      <4>1. skipped' = skipped /\ delivery' = [delivery EXCEPT ![n][d] = "trying"]
        BY <2>2, <3>1 DEF GivesADelivery
      <4>2. \A m \in News, e \in Devices : delivery[m][e] # "none" => delivery'[m][e] # "none"
        <5>1. delivery'[n][d] = "trying"
          BY <4>1 DEF Shape
        <5> QED
          BY <2>2, <5>1, GivesSteps
      <4> QED
        BY <4>1, <4>2 DEF DevicesTold
    <3>2. CASE ~(free > 0)
      BY <2>2, <3>2 DEF GivesADelivery, DevicesTold
    <3> QED
      BY <3>1, <3>2
  <2>3. ASSUME NEW n \in News, NEW d \in Devices, Deliver(n, d)
        PROVE  DevicesTold \subseteq DevicesTold'
    <3>1. skipped' = skipped
      BY <2>3 DEF Deliver, Delivered, Gone, Refused, Unavailable, TriesAgain, PauseIsCut, Leaves
    <3>2. \A m \in News, e \in Devices : delivery[m][e] # "none" => delivery'[m][e] # "none"
      BY <2>3, DeliverSteps, DeliverLeavesATrace
    <3> QED
      BY <3>1, <3>2 DEF DevicesTold
  <2>4. \/ UNCHANGED <<delivery, skipped>>
        \/ \E n \in News, d \in Devices : GivesADelivery(n, d) \/ Deliver(n, d)
    BY DEF Next, OneNews, vars, deliveries, Subscribe, Unsubscribe, Dispatch, GoesOut,
           WasOvertaken, HasGoneOut, CloseCancels, CloseReturns
  <2> QED
    BY <2>1, <2>2, <2>3, <2>4
<1> QED
  BY <1>1, <1>2 DEF Places

\* With room for every device of every code there was news of, no delivery is
\* ever refused for want of a slot.
THEOREM ThereIsRoomForAll == Spec => []NobodyIsCrowdedOut
<1> DEFINE Short == skipped # {} => Slots + 1 <= Cardinality(Places)
<1> USE NotifierAssumption
<1>1. Init => Short
  BY DEF Init
<1>2. Shape /\ Shape' /\ OrderInv /\ ReachInv /\ SlotsComeBack /\ IsFiniteSet(InFlight)
        /\ Short /\ [Next]_vars => Short'
  <2> SUFFICES ASSUME Shape, Shape', OrderInv, ReachInv, SlotsComeBack, IsFiniteSet(InFlight),
                      Short, [Next]_vars, skipped' # {}
               PROVE  Slots + 1 <= Cardinality(Places')
    OBVIOUS
  <2>1. /\ IsFiniteSet(Places) /\ Cardinality(Places) \in Nat
        /\ IsFiniteSet(Places') /\ Cardinality(Places') \in Nat
    <3>1. (Shape => IsFiniteSet(Places) /\ Cardinality(Places) \in Nat)'
      BY PlacesAreFinite, PTL
    <3> QED
      BY <3>1, PlacesAreFinite
  <2>2. CASE skipped # {}
    <3>1. Cardinality(Places) <= Cardinality(Places')
      BY <2>1, PlacesGrow, FS_Subset
    <3>2. Slots + 1 <= Cardinality(Places)
      BY <2>2
    <3>3. Slots \in Nat
      OBVIOUS
    <3> HIDE DEF Short
    <3> QED
      BY <2>1, <3>1, <3>2, <3>3
  <2>3. CASE skipped = {}
    <3>1. PICK n \in News, d \in Devices : GivesADelivery(n, d)
      BY <2>3 DEF Next, OneNews, Deliver, vars, deliveries, Subscribe, Unsubscribe, Dispatch,
         GoesOut, WasOvertaken, HasGoneOut, Delivered, Gone, Refused, Unavailable, TriesAgain,
         PauseIsCut, Leaves, CloseCancels, CloseReturns
    <3>2. ~(free > 0)
      BY <2>3, <3>1 DEF GivesADelivery
    <3>3. Cardinality(InFlight) = Slots
      BY <3>2, FS_CardinalityType DEF Shape, SlotsComeBack
    <3> QED
      BY <3>1, <3>2, <3>3, EachHasAPlace
  <2> QED
    BY <2>2, <2>3
<1>3. Shape /\ Short => NobodyIsCrowdedOut
  <2> SUFFICES ASSUME Shape, Short, Slots >= Cardinality(CodesUsed) * Cardinality(DevicesTold)
               PROVE  skipped = {}
    BY DEF NobodyIsCrowdedOut
  <2>1. Slots >= Cardinality(Places) /\ Cardinality(Places) \in Nat
    BY PlacesAreFinite
  <2> QED
    BY <2>1
<1> HIDE DEF Short
<1>4. Spec => []Shape
  BY ShapeHolds, PTL DEF ShapeInv
<1> QED
  BY <1>1, <1>2, <1>3, <1>4, OrderHolds, ReachHolds, SlotsHold, PTL DEF Spec

\* The whole safety of the notifier, as the run checks it.
THEOREM NotifierIsSafe == Spec => []NotifierSafety
BY TypeCorrect, NewsGoesInOrder, NoSlotIsLost, NothingOutlivesClose, ThereIsRoomForAll, PTL
   DEF NotifierSafety

\* And the order of the news, as the run checks it.
THEOREM NewsIsInOrder == Spec => NewsInOrder
BY PhonesGoForward, OnlyStaleIsPassedOver, PTL DEF NewsInOrder

-----------------------------------------------------------------------------
(*                             The recogniser                              *)

\* The result that the next round will draw a verdict from says cry.
CryIsNews == IsNews /\ last.cry

RecTypes ==
  /\ worker \in {"idle", "waits", "listens", "gone"} /\ sinceRun \in 0..Interval
  /\ last \in [id : 0..MaxRuns, cry : BOOLEAN, bark : BOOLEAN, failed : BOOLEAN]
  /\ cryLeft \in 0..VerdictHold /\ barkLeft \in 0..VerdictHold /\ runs \in 0..MaxRuns
  /\ cries \in Nat /\ cryRuns \in Nat

\* Fewer wait than make a cry.
TooFewWait == hits \subseteq 0..CryWindow /\ Cardinality(hits) < CryHits

\* The cries that were begun, those that wait and the one that is news have each
\* had runs of their own.
EachHadItsRuns == CryHits * cries + Cardinality(hits) + (IF CryIsNews THEN 1 ELSE 0) <= cryRuns

RecInv == RecTypes /\ TooFewWait /\ EachHadItsRuns /\ NoQuestionIsLost

-----------------------------------------------------------------------------
(*                            The watching round                           *)

WatchTypes ==
  /\ ready \in BOOLEAN /\ camRefused \in BOOLEAN /\ others \subseteq Conditions
  /\ upFor \in 0..(StartGrace + 1) /\ frameAge \in Never..Stall /\ openAge \in Never..(StartGrace + 1)
  /\ dumps \in 0..1 /\ lastId \in Nat

\* The hub is ready from the first frame on.
ReadyWithAFrame == ready <=> frameAge # Never

\* The registry: what is shown has an id that was given out, and no other has it.
EachHasItsId ==
  /\ active = [c \in DOMAIN active |-> active[c]] /\ DOMAIN active \subseteq AlertCodes
  /\ \A c \in DOMAIN active : active[c] \in 1..lastId
  /\ \A c, d \in DOMAIN active : c # d => active[c] # active[d]

\* A picture that has stopped, and is announced, has its dump: the one announced
\* before the first frame is taken back in the round after it.
TheStoppedIsDumped ==
  ~simulates /\ "capture-stopped" \in DOMAIN active /\ ready /\ frameAge > 0 => dumps = 1

WatchInv ==
  /\ WatchTypes /\ ReadyWithAFrame /\ EachHasItsId /\ told = DOMAIN active
  /\ (simulated => simulates) /\ TheStoppedIsDumped /\ TheDumpIsKept
  /\ TheDarkIsTold /\ AConsentIsNotAFault
  /\ lasting = DOMAIN active \cap Events /\ clips = begun

-----------------------------------------------------------------------------
\* Ages that grow by one are no more than they were.
LEMMA AgedAreAsMany ==
  ASSUME NEW S, IsFiniteSet(S), S \subseteq Nat
  PROVE  LET T == {age + 1 : age \in S}
         IN  IsFiniteSet(T) /\ Cardinality(T) \in Nat /\ Cardinality(T) <= Cardinality(S) /\ T \subseteq Nat
<1> DEFINE T == {age + 1 : age \in S}
           f == [age \in S |-> age + 1]
<1>1. f \in Surjection(S, T)
  BY DEF Surjection
<1>2. IsFiniteSet(T) /\ Cardinality(T) <= Cardinality(S)
  BY <1>1, FS_Surjection
<1>3. T \subseteq Nat
  OBVIOUS
<1> QED
  BY <1>2, <1>3, FS_CardinalityType

\* Of ages, those within the window are some.
LEMMA RecentAreSome ==
  ASSUME NEW S, IsFiniteSet(S), S \subseteq Nat
  PROVE  /\ Recent(S) \subseteq 0..CryWindow /\ IsFiniteSet(Recent(S))
         /\ Cardinality(Recent(S)) \in Nat /\ Cardinality(Recent(S)) <= Cardinality(S) /\ Cardinality(S) \in Nat
<1>1. Recent(S) \in SUBSET S
  BY DEF Recent
<1>2. Recent(S) \subseteq 0..CryWindow
  <2>1. \A age \in S : age \in Nat
    OBVIOUS
  <2>2. CryWindow \in Nat
    BY RecogniserAssumption
  <2>3. \A age \in S : age <= CryWindow => age \in 0..CryWindow
    BY <2>1, <2>2
  <2> QED
    BY <2>3 DEF Recent
<1> QED
  BY <1>1, <1>2, FS_Subset, FS_CardinalityType

\* A round draws its verdict from each result once.
LEMMA DrawsStep ==
  ASSUME RecInv, Rounds PROVE RecInv'
<1> USE RecogniserAssumption
<1> DEFINE aged == {age + 1 : age \in hits}
           drawn == IF IsNews /\ last.cry THEN Recent(aged) \cup {0} ELSE aged
           begins == IsNews /\ last.cry /\ Cardinality(drawn) >= CryHits
           most == Cardinality(hits) + (IF CryIsNews THEN 1 ELSE 0)
<1>1. IsFiniteSet(hits) /\ hits \subseteq Nat /\ Cardinality(hits) \in Nat /\ Cardinality(hits) < CryHits
  <2>1. hits \in SUBSET (0..CryWindow) /\ Cardinality(hits) < CryHits
    BY DEF RecInv, TooFewWait
  <2>2. IsFiniteSet(0..CryWindow) /\ CryWindow \in Nat
    BY FS_Interval
  <2>3. IsFiniteSet(hits)
    BY <2>1, <2>2, FS_Subset
  <2>4. hits \subseteq Nat
    <3>1. 0..CryWindow \subseteq Nat
      BY <2>2
    <3> QED
      BY <2>1, <3>1
  <2> QED
    BY <2>1, <2>3, <2>4, FS_CardinalityType
<1>2. /\ CryHits \in Nat /\ CryHits >= 1 /\ cries \in Nat /\ cryRuns \in Nat
      /\ CryHits * cries + most <= cryRuns /\ last.cry \in BOOLEAN
  <2>1. CryHits * cries + Cardinality(hits) + (IF CryIsNews THEN 1 ELSE 0) <= cryRuns
    BY DEF RecInv, EachHadItsRuns
  <2>2. CryHits \in Nat /\ CryHits >= 1 /\ cries \in Nat /\ cryRuns \in Nat /\ last.cry \in BOOLEAN
    BY DEF RecInv, RecTypes
  <2>3. CryHits * cries \in Nat
    BY <2>2
  <2> QED
    BY <1>1, <2>1, <2>2, <2>3
<1>3. IsFiniteSet(aged) /\ Cardinality(aged) \in Nat /\ Cardinality(aged) <= Cardinality(hits) /\ aged \subseteq Nat
  BY <1>1, AgedAreAsMany
<1> HIDE DEF aged
<1>4. IsFiniteSet(drawn) /\ Cardinality(drawn) \in Nat /\ Cardinality(drawn) <= most /\ drawn \subseteq Nat
  <2>1. CASE CryIsNews
    <3>1. /\ IsFiniteSet(Recent(aged)) /\ Cardinality(Recent(aged)) \in Nat /\ Recent(aged) \subseteq 0..CryWindow
          /\ Cardinality(Recent(aged)) <= Cardinality(hits)
      <4>1. /\ IsFiniteSet(Recent(aged)) /\ Cardinality(Recent(aged)) \in Nat /\ Recent(aged) \subseteq 0..CryWindow
            /\ Cardinality(Recent(aged)) <= Cardinality(aged)
        BY <1>3, RecentAreSome
      <4>2. Cardinality(Recent(aged)) <= Cardinality(hits)
        BY <1>1, <1>3, <4>1
      <4> QED
        BY <4>1, <4>2
    <3>2. /\ IsFiniteSet(Recent(aged) \cup {0}) /\ Cardinality(Recent(aged) \cup {0}) \in Nat
          /\ Cardinality(Recent(aged) \cup {0}) <= Cardinality(Recent(aged)) + 1
      <4>1. IsFiniteSet(Recent(aged) \cup {0})
        BY <3>1, FS_AddElement
      <4>2. Cardinality(Recent(aged) \cup {0}) \in Nat
        BY <4>1, FS_CardinalityType
      <4>3. Cardinality(Recent(aged) \cup {0}) \in {Cardinality(Recent(aged)), Cardinality(Recent(aged)) + 1}
        BY <3>1, FS_AddElement
      <4> QED
        BY <3>1, <4>1, <4>2, <4>3
    <3>3. drawn = Recent(aged) \cup {0} /\ most = Cardinality(hits) + 1
      BY <2>1 DEF CryIsNews
    <3>4. drawn \subseteq Nat
      BY <3>1, <3>3
    <3> QED
      BY <1>1, <3>1, <3>2, <3>3, <3>4
  <2>2. CASE ~CryIsNews
    <3>1. drawn = aged /\ most = Cardinality(hits)
      BY <1>1, <2>2 DEF CryIsNews
    <3> QED
      BY <1>1, <1>3, <3>1
  <2> QED
    BY <2>1, <2>2
<1>5. /\ hits' = IF begins THEN {} ELSE Recent(drawn)
      /\ cries' = cries + (IF begins THEN 1 ELSE 0)
      /\ cryLeft' = IF begins THEN VerdictHold ELSE IF cryLeft > 0 THEN cryLeft - 1 ELSE 0
      /\ barkLeft' = IF IsNews /\ last.bark THEN VerdictHold ELSE IF barkLeft > 0 THEN barkLeft - 1 ELSE 0
      /\ seen' = last.id /\ UNCHANGED <<filled, token, worker, last, closed, runs, unheard, cryRuns>>
      /\ sinceRun' = IF sinceRun < Interval THEN sinceRun + 1 ELSE sinceRun
  BY DEF Rounds, Draws, aged
<1>6. ~CryIsNews'
  BY <1>5 DEF CryIsNews, IsNews
<1>7. begins <=> CryIsNews /\ Cardinality(drawn) >= CryHits
  BY DEF CryIsNews
<1>8. ~CryIsNews => Cardinality(drawn) < CryHits
  BY <1>1, <1>2, <1>4 DEF CryIsNews
<1> HIDE DEF drawn
<1>9. RecTypes'
  <2>1. cryLeft' \in 0..VerdictHold /\ barkLeft' \in 0..VerdictHold /\ sinceRun' \in 0..Interval
    BY <1>5 DEF RecInv, RecTypes
  <2>2. cries' \in Nat
    BY <1>2, <1>5
  <2> QED
    BY <1>5, <2>1, <2>2 DEF RecInv, RecTypes
<1>10. TooFewWait' /\ EachHadItsRuns'
  <2>1. CASE begins
    <3>1. hits' = {} /\ Cardinality(hits') = 0 /\ cries' = cries + 1
      BY <1>2, <1>5, <2>1, FS_EmptySet
    <3>2. CryHits * (cries + 1) = CryHits * cries + CryHits /\ CryHits * cries \in Nat
      BY <1>2
    <3>3. CryHits <= most /\ most \in Nat
      BY <1>1, <1>2, <1>4, <1>7, <2>1
    <3>4. CryHits * (cries + 1) <= cryRuns
      BY <1>2, <3>2, <3>3
    <3> HIDE DEF begins, most
    <3>5. CryHits * cries' + 0 + 0 <= cryRuns'
      BY <1>2, <1>5, <3>1, <3>2, <3>4
    <3>6. EachHadItsRuns'
      BY <1>6, <3>1, <3>5 DEF EachHadItsRuns
    <3> QED
      BY <1>2, <3>1, <3>6 DEF TooFewWait
  <2>2. CASE ~begins
    <3>1. hits' = Recent(drawn) /\ cries' = cries
      BY <1>2, <1>5, <2>2
    <3>2. /\ hits' \subseteq 0..CryWindow /\ Cardinality(hits') \in Nat /\ Cardinality(hits') <= Cardinality(drawn)
      BY <1>4, <3>1, RecentAreSome
    <3>3. Cardinality(drawn) < CryHits
      BY <1>2, <1>4, <1>7, <1>8, <2>2
    <3>4. CryHits * cries \in Nat /\ most \in Nat
      BY <1>1, <1>2
    <3> HIDE DEF begins, most
    <3>5. CryHits * cries' + Cardinality(hits') + 0 <= cryRuns'
      BY <1>2, <1>4, <1>5, <3>1, <3>2, <3>4
    <3>6. EachHadItsRuns'
      BY <1>6, <3>5 DEF EachHadItsRuns
    <3> QED
      BY <1>2, <1>4, <3>2, <3>3, <3>6 DEF TooFewWait
  <2> QED
    BY <2>1, <2>2
<1> QED
  BY <1>5, <1>9, <1>10 DEF RecInv, NoQuestionIsLost

\* The gate, the worker and the rounds keep the recogniser's invariant.
LEMMA RecStep == RecInv /\ [RecNext]_recVars => RecInv'
<1> SUFFICES ASSUME RecInv, [RecNext]_recVars PROVE RecInv'
  OBVIOUS
<1> USE RecogniserAssumption DEF verdictVars
<1>0. ASSUME UNCHANGED <<last, runs, cryRuns, seen, hits, cryLeft, barkLeft, cries>>,
             worker' \in {"idle", "waits", "listens", "gone"}, sinceRun' = sinceRun, NoQuestionIsLost'
      PROVE  RecInv'
  BY <1>0 DEF RecInv, RecTypes, TooFewWait, EachHadItsRuns, CryIsNews, IsNews
<1>1. CASE Feeds
  BY <1>0, <1>1 DEF Feeds, RecInv, RecTypes, NoQuestionIsLost
<1>2. CASE RateChanges
  BY <1>0, <1>2 DEF RateChanges, RecInv, RecTypes, NoQuestionIsLost
<1>3. CASE Asks
  BY <1>0, <1>3 DEF Asks, IsKept, RecInv, RecTypes, NoQuestionIsLost
<1>4. CASE TakesTheQuestion
  <2>1. runs' \in 0..MaxRuns
    BY <1>4 DEF TakesTheQuestion, RecInv, RecTypes
  <2>3. worker' \in {"waits", "listens"} /\ (unheard' => worker' = "waits")
    BY <1>4 DEF TakesTheQuestion
  <2>2. UNCHANGED <<sinceRun, last, cryRuns, seen, hits, cryLeft, barkLeft, cries>>
    BY <1>4 DEF TakesTheQuestion
  <2> QED
    BY <2>1, <2>2, <2>3 DEF RecInv, RecTypes, TooFewWait, EachHadItsRuns, CryIsNews, IsNews, NoQuestionIsLost
<1>5. CASE Snapshots
  BY <1>0, <1>5 DEF Snapshots, NoQuestionIsLost
<1>6. CASE Publishes
  <2>1. PICK cry \in BOOLEAN, bark \in BOOLEAN, failed \in BOOLEAN :
          /\ last' = [id |-> runs, cry |-> cry, bark |-> bark, failed |-> failed]
          /\ cryRuns' = cryRuns + (IF cry THEN 1 ELSE 0)
    BY <1>6 DEF Publishes
  <2>2. /\ worker = "listens" /\ worker' = "idle" /\ sinceRun' = 0
        /\ UNCHANGED <<token, runs, unheard, seen, hits, cryLeft, barkLeft, cries>>
    BY <1>6 DEF Publishes
  <2>3. last' \in [id : 0..MaxRuns, cry : BOOLEAN, bark : BOOLEAN, failed : BOOLEAN] /\ last'.cry = cry
    BY <2>1 DEF RecInv, RecTypes
  <2>4. CryHits * cries + Cardinality(hits) <= cryRuns /\ CryHits * cries \in Nat /\ Cardinality(hits) \in Nat
    <3>1. hits \in SUBSET (0..CryWindow) /\ IsFiniteSet(0..CryWindow)
      BY FS_Interval DEF RecInv, TooFewWait
    <3>2. Cardinality(hits) \in Nat
      BY <3>1, FS_Subset, FS_CardinalityType
    <3>3. CryHits * cries \in Nat /\ cryRuns \in Nat
      BY DEF RecInv, RecTypes
    <3> QED
      BY <3>2, <3>3 DEF RecInv, EachHadItsRuns
  <2>5. RecTypes'
    BY <2>1, <2>2, <2>3 DEF RecInv, RecTypes
  <2>6. CryHits * cries' + Cardinality(hits') + (IF CryIsNews' THEN 1 ELSE 0) <= cryRuns'
    <3>1. CryIsNews' => cry
      BY <2>3 DEF CryIsNews
    <3>2. cryRuns \in Nat
      BY DEF RecInv, RecTypes
    <3> QED
      BY <2>1, <2>2, <2>4, <3>1, <3>2
  <2>7. NoQuestionIsLost'
    BY <2>2 DEF RecInv, NoQuestionIsLost
  <2> QED
    BY <2>2, <2>5, <2>6, <2>7 DEF RecInv, TooFewWait, EachHadItsRuns
<1>7. CASE Rounds
  BY <1>7, DrawsStep
<1>8. CASE Stops
  BY <1>0, <1>8 DEF Stops, RecInv, RecTypes, NoQuestionIsLost
<1>9. CASE WorkerEnds
  BY <1>0, <1>9 DEF WorkerEnds, NoQuestionIsLost
<1>10. CASE UNCHANGED recVars
  BY <1>0, <1>10 DEF recVars, RecInv, RecTypes, NoQuestionIsLost
<1> QED
  BY <1>1, <1>2, <1>3, <1>4, <1>5, <1>6, <1>7, <1>8, <1>9, <1>10 DEF RecNext

\* A question put is a question heard, and a cry is never declared on fewer runs
\* than it takes, whatever the interval, the window and the number of hits
\* (Stream.serve of internal/ced/stream.go, recogniser.apply of
\* cmd/pat-monitor/recognise.go).
THEOREM TheRecogniserIsSafe == RecInit /\ [][RecNext]_recVars => []RecogniserSafety
<1> USE RecogniserAssumption
<1>1. RecInit => RecInv
  <2> SUFFICES ASSUME RecInit PROVE RecInv
    OBVIOUS
  <2>1. RecTypes
    <3>1. last \in [id : 0..MaxRuns, cry : BOOLEAN, bark : BOOLEAN, failed : BOOLEAN]
      BY DEF RecInit, NoResult
    <3> QED
      BY <3>1 DEF RecInit, RecTypes
  <2>2. Cardinality(hits) = 0 /\ ~CryIsNews /\ CryHits * cries = 0 /\ cryRuns = 0
    BY FS_EmptySet DEF RecInit, CryIsNews, IsNews, NoResult
  <2>3. TooFewWait /\ EachHadItsRuns
    BY <2>2 DEF RecInit, TooFewWait, EachHadItsRuns
  <2> QED
    BY <2>1, <2>3 DEF RecInit, RecInv, NoQuestionIsLost
<1>2. RecInv => RecogniserSafety
  <2> SUFFICES ASSUME RecInv PROVE RecogniserSafety
    OBVIOUS
  <2>1. RecTypeOK
    BY DEF RecInv, RecTypes, TooFewWait, RecTypeOK
  <2>2. ACryTakesItsRuns
    <3>1. hits \in SUBSET (0..CryWindow) /\ IsFiniteSet(0..CryWindow)
      BY FS_Interval DEF RecInv, TooFewWait
    <3>2. Cardinality(hits) \in Nat
      BY <3>1, FS_Subset, FS_CardinalityType
    <3>3. CryHits * cries \in Nat /\ cryRuns \in Nat
      BY DEF RecInv, RecTypes
    <3> QED
      BY <3>2, <3>3 DEF RecInv, EachHadItsRuns, ACryTakesItsRuns
  <2> QED
    BY <2>1, <2>2 DEF RecInv, RecogniserSafety
<1> QED
  BY <1>1, <1>2, RecStep, PTL

-----------------------------------------------------------------------------
\* Every code has its own place in the list.
LEMMA PlaceIs ==
  /\ \A c \in AlertCodes : Place[c] \in 1..12
  /\ \A c, d \in AlertCodes : Place[c] = Place[d] => c = d
<1>1. DOMAIN AsListed = 1..12
  BY DEF AsListed
<1>2. \A c \in AlertCodes : \E i \in DOMAIN AsListed : AsListed[i] = c
  <2>1. /\ AsListed[1] = "camera-denied" /\ AsListed[2] = "capture-stopped" /\ AsListed[3] = "mic-denied"
        /\ AsListed[4] = "mic-missing" /\ AsListed[5] = "mic-muted" /\ AsListed[6] = "mic-silent"
        /\ AsListed[7] = "camera-other" /\ AsListed[8] = "remote-down" /\ AsListed[9] = "disk-full"
        /\ AsListed[10] = "motion" /\ AsListed[11] = "cry" /\ AsListed[12] = "bark"
    BY DEF AsListed
  <2> QED
    BY <1>1, <2>1 DEF AlertCodes, Faults, Notices, Events
<1>3. \A c \in AlertCodes : Place[c] \in DOMAIN AsListed /\ AsListed[Place[c]] = c
  BY <1>2 DEF Place
<1> QED
  BY <1>1, <1>3

\* There are finitely many codes.
LEMMA FewCodes == IsFiniteSet(AlertCodes)
<1>1. Place \in [AlertCodes -> 1..12]
  BY PlaceIs DEF Place
<1>2. Place \in Injection(AlertCodes, 1..12)
  BY <1>1, PlaceIs, Fun_IsInj
<1>3. IsFiniteSet(1..12)
  <2>1. 1 \in Int /\ 12 \in Int
    OBVIOUS
  <2>2. \A a, b \in Int : IsFiniteSet(a..b)
    BY FS_Interval
  <2> QED
    BY <2>1, <2>2, Zenon
<1> QED
  BY <1>2, <1>3, FS_Injection

\* The ids given in a round: each a number of its own, after those of before.
LEMMA IdsAreApart ==
  ASSUME NEW T, T \subseteq AlertCodes
  PROVE  LET Rank(c) == Cardinality({d \in T : Place[d] <= Place[c]})
         IN  /\ Cardinality(T) \in Nat
             /\ \A c \in T : Rank(c) \in 1..Cardinality(T)
             /\ \A c, e \in T : c # e => Rank(c) # Rank(e)
<1> DEFINE Upto(c) == {d \in T : Place[d] <= Place[c]}
<1>1. IsFiniteSet(T) /\ Cardinality(T) \in Nat
  BY FewCodes, FS_Subset, FS_CardinalityType
<1>2. \A c \in T : IsFiniteSet(Upto(c)) /\ Cardinality(Upto(c)) \in Nat /\ Cardinality(Upto(c)) <= Cardinality(T)
  BY <1>1, FS_Subset, FS_CardinalityType
<1>3. \A c \in T : Cardinality(Upto(c)) \in 1..Cardinality(T)
  <2> SUFFICES ASSUME NEW c \in T PROVE Cardinality(Upto(c)) \in 1..Cardinality(T)
    OBVIOUS
  <2>1. c \in Upto(c)
    BY PlaceIs
  <2>2. Upto(c) # {}
    BY <2>1
  <2>3. Cardinality(Upto(c)) # 0
    BY <1>2, <2>2, FS_EmptySet
  <2> HIDE DEF Upto
  <2> QED
    BY <1>1, <1>2, <2>3
<1>4. \A c, e \in T : Place[c] < Place[e] => Cardinality(Upto(c)) # Cardinality(Upto(e))
  <2> SUFFICES ASSUME NEW c \in T, NEW e \in T, Place[c] < Place[e]
               PROVE  Cardinality(Upto(c)) # Cardinality(Upto(e))
    OBVIOUS
  <2>0. \A d \in T : Place[d] \in Int
    BY PlaceIs
  <2>1. Upto(c) \in SUBSET Upto(e)
    BY <2>0
  <2>2. e \in Upto(e) /\ e \notin Upto(c)
    BY <2>0
  <2>3. IsFiniteSet(Upto(e))
    BY <1>2
  <2> HIDE DEF Upto
  <2> QED
    BY <2>1, <2>2, <2>3, FS_Subset
<1>5. \A c, e \in T : c # e => Place[c] < Place[e] \/ Place[e] < Place[c]
  BY PlaceIs
<1>6. \A c, e \in T : c # e => Cardinality(Upto(c)) # Cardinality(Upto(e))
  BY <1>4, <1>5
<1> QED
  BY <1>1, <1>3, <1>6

\* Codes and conditions: what is not a code is not shown.
LEMMA PresentAreCodes ==
  ASSUME others \subseteq Conditions
  PROVE  /\ PresentAlerts \cup SimulatedFaults \subseteq AlertCodes
         /\ "capture-stopped" \notin MicCodes \cup OtherCodes
         /\ SimulatedFaults \cap Events = {}
BY DEF PresentAlerts, SimulatedFaults, CameraCodes, MicCodes, OtherCodes, AlertCodes, Faults, Notices, Events, Conditions

\* What the registry makes of a round.
LEMMA TheRegistryKeeps ==
  ASSUME EachHasItsId, lastId \in Nat, NEW present, present \subseteq AlertCodes,
         Update(present, present \ DOMAIN active)
  PROVE  EachHasItsId' /\ lastId' \in Nat /\ DOMAIN active' = present
<1> DEFINE T == present \ DOMAIN active
           Rank(c) == Cardinality({d \in T : Place[d] <= Place[c]})
<1>1. /\ Cardinality(T) \in Nat
      /\ \A c \in T : Rank(c) \in 1..Cardinality(T)
      /\ \A c, e \in T : c # e => Rank(c) # Rank(e)
  <2>1. T \subseteq AlertCodes
    OBVIOUS
  <2> HIDE DEF T
  <2> QED
    BY <2>1, IdsAreApart
<1>2. /\ lastId' = lastId + Cardinality(T)
      /\ active' = [c \in present |-> IF c \in T THEN lastId + Rank(c) ELSE active[c]]
  BY DEF Update
<1> HIDE DEF Rank
<1>3. \A c \in present : c \notin T => c \in DOMAIN active
  OBVIOUS
<1>4. T \subseteq present
  OBVIOUS
<1> HIDE DEF T
<1>5. DOMAIN active' = present
  BY <1>2
<1>6. \A c \in present : active'[c] = IF c \in T THEN lastId + Rank(c) ELSE active[c]
  BY <1>2
<1>7. \A c \in present : active'[c] \in 1..lastId'
  BY <1>1, <1>2, <1>3, <1>6 DEF EachHasItsId
<1>8. \A c \in present : IF c \in T THEN active'[c] > lastId ELSE active'[c] <= lastId
  BY <1>1, <1>3, <1>6 DEF EachHasItsId
<1>9. \A c, e \in present : c # e => active'[c] # active'[e]
  <2> SUFFICES ASSUME NEW c \in present, NEW e \in present, c # e PROVE active'[c] # active'[e]
    OBVIOUS
  <2>1. CASE c \in T /\ e \in T
    BY <1>1, <1>6, <2>1
  <2>2. CASE c \notin T /\ e \notin T
    BY <1>3, <1>6, <2>2 DEF EachHasItsId
  <2>3. CASE ~(c \in T <=> e \in T)
    BY <1>7, <1>8, <1>2, <1>1, <2>3
  <2> QED
    BY <2>1, <2>2, <2>3
<1>10. active' = [c \in DOMAIN active' |-> active'[c]]
  BY <1>2, <1>5
<1>11. lastId' \in Nat
  BY <1>1, <1>2
<1> QED
  BY <1>5, <1>7, <1>9, <1>10, <1>11 DEF EachHasItsId

\* What happens between two rounds is not told yet.
LEMMA BetweenRounds ==
  ASSUME WatchInv, UNCHANGED roundVars, ReadyWithAFrame', simulated' => simulates,
         ready' \in BOOLEAN, camRefused' \in BOOLEAN, others' \subseteq Conditions,
         frameAge' \in Never..Stall, openAge' \in Never..(StartGrace + 1),
         frameAge' \in {0, frameAge} /\ (frameAge' = frameAge => ready' = ready)
  PROVE  WatchInv'
<1>1. UNCHANGED <<upFor, simulates, active, lastId, told, dumps, clips, dark, stalls, asking, begun, lasting>>
  BY DEF roundVars
<1>2. WatchTypes'
  BY <1>1 DEF WatchInv, WatchTypes
<1>3. TheStoppedIsDumped'
  <2>1. CASE frameAge' = 0
    <3>1. ~(frameAge' > 0)
      BY <2>1
    <3> QED
      BY <3>1 DEF TheStoppedIsDumped
  <2>2. CASE frameAge' = frameAge
    BY <1>1, <2>2 DEF WatchInv, TheStoppedIsDumped
  <2> QED
    BY <2>1, <2>2
<1> QED
  BY <1>1, <1>2, <1>3 DEF WatchInv, EachHasItsId, TheDumpIsKept, TheDarkIsTold, AConsentIsNotAFault

\* A round tells what it found, and keeps the registry, the phones, the dump and
\* the clips together.
LEMMA RoundStep == ASSUME WatchInv, Round PROVE WatchInv'
<1> USE WatchRoundAssumption
<1> DEFINE present == PresentAlerts \cup SimulatedFaults
           appeared == present \ DOMAIN active
<1>1. /\ Update(present, appeared)
      /\ told' = Alerted(appeared, DOMAIN active \ present)
      /\ dumps' = IF "capture-stopped" \in appeared /\ StalledAfterStarting /\ dumps = 0 THEN 1 ELSE dumps
      /\ clips' = clips + Cardinality(IsNew(present, appeared) \cap Events)
      /\ dark' = (GraceIsOver /\ frameAge = Stall) /\ stalls' = (stalls \/ dark')
      /\ asking' = (micState = "opening")
      /\ begun' = begun + Cardinality((PresentAlerts \cap Events) \ lasting)
      /\ lasting' = PresentAlerts \cap Events
      /\ Ages
      /\ UNCHANGED <<ready, camState, camRefused, micState4, others, simulates, simulated, happens>>
  BY DEF Round
<1>2. /\ WatchTypes /\ ReadyWithAFrame /\ EachHasItsId /\ told = DOMAIN active
      /\ simulated => simulates
      /\ lasting = DOMAIN active \cap Events /\ clips = begun
  BY DEF WatchInv
<1>3. /\ present \subseteq AlertCodes /\ SimulatedFaults \cap Events = {}
      /\ "capture-stopped" \notin MicCodes \cup OtherCodes
  BY <1>2, PresentAreCodes DEF WatchTypes
<1>4. EachHasItsId' /\ lastId' \in Nat /\ DOMAIN active' = present
  <2> HIDE DEF present
  <2> QED
    BY <1>1, <1>2, <1>3, TheRegistryKeeps DEF WatchTypes
<1>5. told' = DOMAIN active'
  BY <1>1, <1>2, <1>4 DEF Alerted
<1>6. /\ upFor' \in 0..(StartGrace + 1) /\ frameAge' \in Never..Stall /\ openAge' \in Never..(StartGrace + 1)
      /\ frameAge' = Never <=> frameAge = Never
      /\ frameAge' > 0 /\ frameAge # Never => frameAge >= 0
  BY <1>1, <1>2 DEF WatchTypes, Ages, Ageing, Never
<1>7. WatchTypes' /\ ReadyWithAFrame'
  <2>1. dumps' \in 0..1
    BY <1>1, <1>2 DEF WatchTypes
  <2>2. ready' \in BOOLEAN /\ camRefused' \in BOOLEAN /\ others' \subseteq Conditions
    BY <1>1, <1>2 DEF WatchTypes
  <2> QED
    BY <1>1, <1>2, <1>4, <1>6, <2>1, <2>2 DEF WatchTypes, ReadyWithAFrame
<1>8. TheDarkIsTold'
  <2>1. ASSUME dark' PROVE present \cap {"capture-stopped", "camera-denied"} # {}
    <3>1. GraceIsOver /\ frameAge = Stall
      BY <1>1, <2>1
    <3>2. ready
      BY <1>2, <3>1 DEF ReadyWithAFrame, Never
    <3>3. CaptureStopped
      BY <3>1, <3>2 DEF CaptureStopped, GraceOfTheStarted
    <3>4. CameraCodes \subseteq PresentAlerts
      BY <3>1 DEF PresentAlerts
    <3> QED
      BY <3>3, <3>4 DEF CameraCodes
  <2> HIDE DEF present
  <2> QED
    BY <1>4, <2>1 DEF TheDarkIsTold
<1>9. AConsentIsNotAFault'
  <2>1. ASSUME asking' PROVE present \cap MicFaults \subseteq {"mic-denied"}
    <3>1. MicCodes \subseteq {"mic-denied"}
      BY <1>1, <2>1 DEF MicCodes, MicMissing, MicMuted, MicSilent, NotOpening
    <3>2. (CameraCodes \cup OtherCodes \cup SimulatedFaults) \cap MicFaults = {}
      BY <1>2 DEF CameraCodes, OtherCodes, SimulatedFaults, MicFaults, WatchTypes, Conditions
    <3> QED
      BY <3>1, <3>2 DEF PresentAlerts
  <2> HIDE DEF present
  <2> QED
    BY <1>4, <2>1 DEF AConsentIsNotAFault
<1>10. /\ "capture-stopped" \in present /\ ~simulates => CaptureStopped /\ GraceIsOver
       /\ CaptureStopped /\ ready => frameAge = Stall
       /\ CaptureStopped /\ ready => StalledAfterStarting /\ GraceIsOver
  <2>1. "capture-stopped" \in present /\ ~simulates => CaptureStopped /\ GraceIsOver
    BY <1>2, <1>3 DEF PresentAlerts, SimulatedFaults, CameraCodes
  <2>2. CaptureStopped /\ ready => frameAge = Stall /\ GraceIsOver
    BY <1>2 DEF CaptureStopped, WatchTypes, ReadyWithAFrame, Never
  <2>3. CaptureStopped /\ ready => StalledAfterStarting
    BY <1>2 DEF StalledAfterStarting, ReadyWithAFrame
  <2> QED
    BY <2>1, <2>2, <2>3
<1>11. ready /\ ~simulates /\ "capture-stopped" \in present => dumps' = 1
  <2> SUFFICES ASSUME ready, ~simulates, "capture-stopped" \in present PROVE dumps' = 1
    OBVIOUS
  <2>1. StalledAfterStarting /\ frameAge = Stall
    BY <1>10
  <2>2. dumps \in 0..1
    BY <1>2 DEF WatchTypes
  <2>3. CASE "capture-stopped" \in appeared
    BY <1>1, <2>1, <2>2, <2>3
  <2>4. CASE "capture-stopped" \in DOMAIN active
    <3>1. dumps = 1
      BY <2>1, <2>4 DEF WatchInv, TheStoppedIsDumped
    <3> QED
      BY <1>1, <3>1
  <2> QED
    BY <2>3, <2>4
<1>12. TheStoppedIsDumped'
  <2> HIDE DEF present
  <2> QED
    BY <1>1, <1>4, <1>11 DEF TheStoppedIsDumped
<1>13. TheDumpIsKept'
  <2>1. dumps' = 1 => stalls'
    <3>1. CASE dumps = 1
      BY <1>1, <3>1 DEF WatchInv, TheDumpIsKept
    <3>2. CASE dumps # 1 /\ dumps' = 1
      <4>1. StalledAfterStarting
        BY <1>1, <3>2
      <4>2. CaptureStopped /\ ready
        BY <4>1 DEF StalledAfterStarting
      <4> QED
        BY <1>1, <1>10, <4>2
    <3> QED
      BY <3>1, <3>2
  <2>2. dark' => ready
    <3>1. Stall # Never
      BY DEF Never
    <3> QED
      BY <1>1, <1>2, <3>1 DEF ReadyWithAFrame
  <2>3. dark' /\ ~simulates' /\ "capture-stopped" \in DOMAIN active' => dumps' = 1
    <3> HIDE DEF present
    <3> QED
      BY <1>1, <1>4, <1>11, <2>2
  <2> QED
    BY <2>1, <2>3 DEF TheDumpIsKept
<1>14. lasting' = DOMAIN active' \cap Events /\ clips' = begun'
  <2>1. lasting' = DOMAIN active' \cap Events
    BY <1>1, <1>3, <1>4
  <2>2. IsNew(present, appeared) \cap Events = (PresentAlerts \cap Events) \ lasting
    BY <1>2, <1>3 DEF IsNew
  <2> QED
    BY <1>1, <1>2, <2>1, <2>2
<1>15. simulated' => simulates'
  BY <1>1, <1>2
<1> QED
  BY <1>4, <1>5, <1>7, <1>8, <1>9, <1>12, <1>13, <1>14, <1>15 DEF WatchInv

\* Whatever happens between two rounds, and the rounds, keep the invariant.
LEMMA WatchStep == WatchInv /\ [WatchNext]_watchVars => WatchInv'
<1> SUFFICES ASSUME WatchInv, [WatchNext]_watchVars PROVE WatchInv'
  OBVIOUS
<1> USE WatchRoundAssumption
<1>0. /\ ReadyWithAFrame /\ ready \in BOOLEAN /\ camRefused \in BOOLEAN /\ others \subseteq Conditions
      /\ frameAge \in Never..Stall /\ openAge \in Never..(StartGrace + 1) /\ (simulated => simulates)
  BY DEF WatchInv, WatchTypes
<1>same. ASSUME UNCHANGED <<roundVars, ready, frameAge>>, simulated' => simulates, camRefused' \in BOOLEAN,
                others' \subseteq Conditions, openAge' \in Never..(StartGrace + 1)
         PROVE  WatchInv'
  <2>1. ReadyWithAFrame'
    BY <1>0, <1>same DEF ReadyWithAFrame
  <2> QED
    BY <1>0, <1>same, <2>1, BetweenRounds
<1>1. CASE CameraAsks
  BY <1>0, <1>1, <1>same DEF CameraAsks, Happens
<1>2. CASE CameraOpens
  <2>1. 0 \in Never..(StartGrace + 1)
    BY DEF Never
  <2> QED
    BY <1>0, <1>2, <1>same, <2>1 DEF CameraOpens, Happens
<1>3. CASE CameraFails
  <2>1. camRefused' \in BOOLEAN
    BY <1>3 DEF CameraFails
  <2> QED
    BY <1>0, <1>3, <1>same, <2>1 DEF CameraFails, Happens
<1>4. CASE Films
  <2>1. /\ ready' = TRUE /\ frameAge' = 0 /\ UNCHANGED roundVars /\ (~ready \/ frameAge > 0)
        /\ UNCHANGED <<openAge, camRefused, others, simulated>>
    BY <1>4 DEF Films
  <2>2. 0 \in Never..Stall /\ 0 # Never
    BY DEF Never
  <2>3. ReadyWithAFrame' /\ frameAge' \in Never..Stall
    BY <2>1, <2>2 DEF ReadyWithAFrame
  <2>4. frameAge' = frameAge => ready' = ready
    <3>1. frameAge' = frameAge => ~(frameAge > 0) /\ frameAge # Never
      BY <2>1, <2>2
    <3> QED
      BY <1>0, <2>1, <3>1 DEF ReadyWithAFrame
  <2> QED
    BY <1>0, <2>1, <2>3, <2>4, BetweenRounds
<1>5. CASE MicAsks
  BY <1>0, <1>5, <1>same DEF MicAsks, Happens, camState5
<1>6. CASE MicAnswers
  BY <1>0, <1>6, <1>same DEF MicAnswers, Happens, camState5
<1>7. CASE MicChanges
  BY <1>0, <1>7, <1>same DEF MicChanges, Happens, camState5
<1>8. CASE OthersChange
  <2>1. others' \subseteq Conditions
    BY <1>0, <1>8 DEF OthersChange
  <2> QED
    BY <1>0, <1>8, <1>same, <2>1 DEF OthersChange, Happens, camState5
<1>9. CASE SimulationTurns
  BY <1>0, <1>9, <1>same DEF SimulationTurns, Happens, camState5
<1>10. CASE Round
  BY <1>10, RoundStep
<1>11. CASE UNCHANGED watchVars
  BY <1>0, <1>11, <1>same DEF watchVars, roundVars
<1> QED
  BY <1>1, <1>2, <1>3, <1>4, <1>5, <1>6, <1>7, <1>8, <1>9, <1>10, <1>11 DEF WatchNext

\* The icon of a state says what the alerts of that state do.
LEMMA TheIconFollows == others \subseteq Conditions => TheIconAgrees
<1> SUFFICES ASSUME others \subseteq Conditions, NEW password \in BOOLEAN, NEW filtered \in BOOLEAN, NEW published \in BOOLEAN
             PROVE  LET phase == TrayPhase(password, filtered, published) IN
                      /\ phase \in {"home", "outside"} => PresentAlerts \subseteq Events
                      /\ phase = "fault" /\ GraceIsOver => PresentAlerts \cap {"camera-denied", "capture-stopped"} # {}
  BY DEF TheIconAgrees
<1> DEFINE phase == TrayPhase(password, filtered, published)
<1>1. ASSUME phase \in {"home", "outside"} PROVE PresentAlerts \subseteq Events
  <2>1. /\ ~camRefused /\ ~CaptureStopped /\ ~micRefused /\ ~MicSilent /\ ~MicMissing /\ ~MicMuted
        /\ "camera-other" \notin others /\ ~RemoteDown /\ "disk-full" \notin others
    BY <1>1 DEF TrayPhase, DownOrWarned
  <2>2. CameraCodes = {} /\ MicCodes = {}
    BY <2>1 DEF CameraCodes, MicCodes
  <2>3. OtherCodes \subseteq Events
    BY <2>1 DEF OtherCodes, RemoteDown, Conditions, AlertCodes, Faults, Notices, Events
  <2> QED
    BY <2>2, <2>3 DEF PresentAlerts
<1>2. ASSUME phase = "fault", GraceIsOver PROVE PresentAlerts \cap {"camera-denied", "capture-stopped"} # {}
  <2>1. camRefused \/ CaptureStopped
    BY <1>2 DEF TrayPhase
  <2> QED
    BY <1>2, <2>1 DEF PresentAlerts, CameraCodes
<1> QED
  BY <1>1, <1>2

\* The dark is told, a question of Windows is no fault of the microphone, the
\* phones, the icon and the registry agree, the dump is of a picture that stopped
\* and an event is one clip: for any grace, any stall and whatever the devices do
\* (the watching round of cmd/pat-monitor/main.go, Registry.Update).
THEOREM TheRoundIsSafe == WatchInit /\ [][WatchNext]_watchVars => []RoundSafety
<1> USE WatchRoundAssumption
<1>1. WatchInit => WatchInv
  <2> SUFFICES ASSUME WatchInit PROVE WatchInv
    OBVIOUS
  <2>1. active = [c \in {} |-> 0] /\ DOMAIN active = {} /\ told = {} /\ lasting = {}
    BY DEF WatchInit
  <2>2. EachHasItsId
    BY <2>1 DEF EachHasItsId
  <2>3. Never \in Never..Stall /\ Never \in Never..(StartGrace + 1) /\ 0 \in 0..(StartGrace + 1) /\ 0 \in 0..1
    BY DEF Never
  <2>4. ReadyWithAFrame
    BY DEF WatchInit, ReadyWithAFrame
  <2>5. WatchTypes
    BY <2>3 DEF WatchInit, WatchTypes
  <2> QED
    BY <2>1, <2>2, <2>4, <2>5 DEF WatchInit, WatchInv, TheStoppedIsDumped, TheDumpIsKept, TheDarkIsTold, AConsentIsNotAFault
<1>2. WatchInv => RoundSafety
  <2> SUFFICES ASSUME WatchInv PROVE RoundSafety
    OBVIOUS
  <2>1. WatchTypeOK /\ ThePhonesKnow
    BY DEF WatchInv, WatchTypes, EachHasItsId, WatchTypeOK, ThePhonesKnow
  <2>2. TheIconAgrees
    BY TheIconFollows DEF WatchInv, WatchTypes
  <2> QED
    BY <2>1, <2>2 DEF WatchInv, RoundSafety, AnEventIsOneClip
<1> QED
  BY <1>1, <1>2, WatchStep, PTL

-----------------------------------------------------------------------------
(*                                The detectors                            *)

LEMMA SetsHaveALeast ==
  ASSUME NEW T \in SUBSET Nat, T # {}
  PROVE  \E x \in T : \A y \in T : x <= y
<1> DEFINE R == OpToRel(<, Nat)
<1>1. IsWellFoundedOn(R, Nat)
  BY NatLessThanWellFounded
<1>2. PICK x \in T : \A y \in T : <<y, x>> \notin R
  <2> HIDE DEF R
  <2> QED
    BY <1>1, WFMin
<1>3. \A y \in T : ~(y < x)
  BY <1>2 DEF OpToRel
<1> QED
  BY <1>3

\* What a picture adds up to is between as many of its least and as many
\* of its greatest; the shift is then one of what lies between.

IsSumTo(g, f, n) ==
  /\ g \in [0..Pixels -> Int] /\ g[0] = 0
  /\ \A k \in 1..Pixels : k <= n => g[k] = g[k - 1] + f[k]

LEMMA PixelsAreCounted == Pixels \in Nat \ {0} /\ 0..Pixels \subseteq Int
BY DetectorsAssumption

LEMMA SumsToExist ==
  ASSUME NEW f \in [1..Pixels -> Int]
  PROVE  \E g : IsSumTo(g, f, Pixels)
<1> USE PixelsAreCounted
<1> DEFINE T == {k \in 0..Pixels : ~ \E g : IsSumTo(g, f, k)}
<1> SUFFICES ASSUME T # {} PROVE FALSE
  OBVIOUS
<1>1. PICK m \in T : \A k \in T : m <= k
  <2>1. T \in SUBSET Nat
    OBVIOUS
  <2> HIDE DEF T
  <2> QED
    BY <2>1, SetsHaveALeast
<1>2. CASE m = 0
  <2>1. IsSumTo([k \in 0..Pixels |-> 0], f, 0)
    BY DEF IsSumTo
  <2> QED
    BY <1>2, <2>1
<1>3. CASE m # 0
  <2>1. m \in 1..Pixels /\ m - 1 \in 0..Pixels /\ m - 1 \notin T
    BY <1>1, <1>3
  <2>2. PICK g : IsSumTo(g, f, m - 1)
    BY <2>1
  <2> DEFINE h == [k \in 0..Pixels |-> IF k = m THEN g[m - 1] + f[m] ELSE g[k]]
  <2>3. IsSumTo(h, f, m)
    <3>1. g[m - 1] \in Int /\ f[m] \in Int /\ g \in [0..Pixels -> Int] /\ g[0] = 0
      BY <2>1, <2>2 DEF IsSumTo
    <3>2. h \in [0..Pixels -> Int] /\ h[0] = 0 /\ h[m] = g[m - 1] + f[m]
      BY <2>1, <3>1
    <3>3. ASSUME NEW k \in 1..Pixels, k <= m PROVE h[k] = h[k - 1] + f[k]
      <4>1. k - 1 \in 0..Pixels /\ k - 1 # m /\ h[k - 1] = g[k - 1]
        BY <2>1, <3>3
      <4>2. CASE k = m
        BY <3>2, <4>1, <4>2
      <4>3. CASE k # m
        <5>1. k <= m - 1 /\ h[k] = g[k]
          BY <2>1, <3>3, <4>3
        <5> QED
          BY <2>2, <4>1, <5>1 DEF IsSumTo
      <4> QED
        BY <4>2, <4>3
    <3> HIDE DEF h
    <3> QED
      BY <3>2, <3>3 DEF IsSumTo
  <2> QED
    BY <2>1, <2>3
<1> QED
  BY <1>2, <1>3

\* The definition of the sum is what it says.
LEMMA SumsToIs ==
  ASSUME NEW f \in [1..Pixels -> Int]
  PROVE  SumsTo(f) = [n \in 0..Pixels |-> IF n = 0 THEN 0 ELSE SumsTo(f)[n - 1] + f[n]]
<1> USE PixelsAreCounted
<1>1. PICK g : IsSumTo(g, f, Pixels)
  BY SumsToExist
<1>2. g = [n \in 0..Pixels |-> IF n = 0 THEN 0 ELSE g[n - 1] + f[n]]
  <2>1. \A n \in 0..Pixels : g[n] = IF n = 0 THEN 0 ELSE g[n - 1] + f[n]
    BY <1>1 DEF IsSumTo
  <2>2. g = [n \in 0..Pixels |-> g[n]]
    BY <1>1 DEF IsSumTo
  <2> QED
    BY <2>1, <2>2
<1> QED
  BY <1>2 DEF SumsTo

LEMMA SumIsBetween ==
  ASSUME NEW f \in [1..Pixels -> Int], NEW a \in Int, NEW b \in Int, \A i \in 1..Pixels : f[i] \in a..b
  PROVE  SumOf(f) \in Int /\ Pixels * a <= SumOf(f) /\ SumOf(f) <= Pixels * b
<1> USE PixelsAreCounted
<1> DEFINE s == SumsTo(f)
<1> DEFINE Bad == {k \in 0..Pixels : ~(s[k] \in Int /\ k * a <= s[k] /\ s[k] <= k * b)}
<1>1. \A n \in 0..Pixels : s[n] = IF n = 0 THEN 0 ELSE s[n - 1] + f[n]
  <2>1. s = [n \in 0..Pixels |-> IF n = 0 THEN 0 ELSE s[n - 1] + f[n]]
    BY SumsToIs
  <2> HIDE DEF s
  <2> QED
    BY <2>1
<1> HIDE DEF s
<1>2. ASSUME Bad # {} PROVE FALSE
  <2>1. PICK m \in Bad : \A k \in Bad : m <= k
    <3>1. Bad \in SUBSET Nat
      OBVIOUS
    <3> HIDE DEF Bad
    <3> QED
      BY <1>2, <3>1, SetsHaveALeast
  <2>2. m \in 0..Pixels /\ m # 0
    BY <1>1, <2>1
  <2>3. m - 1 \in 0..Pixels /\ m - 1 \notin Bad
    BY <2>1, <2>2
  <2>4. /\ s[m - 1] \in Int /\ (m - 1) * a <= s[m - 1] /\ s[m - 1] <= (m - 1) * b
        /\ s[m] = s[m - 1] + f[m] /\ f[m] \in a..b
    BY <1>1, <2>2, <2>3
  <2>5. (m - 1) * a = m * a - a /\ (m - 1) * b = m * b - b /\ m * a \in Int /\ m * b \in Int
    BY <2>2
  <2>6. s[m] \in Int /\ m * a <= s[m] /\ s[m] <= m * b
    BY <2>4, <2>5
  <2> QED
    BY <2>1, <2>6
<1> QED
  BY <1>2 DEF SumOf, s

\* A quotient lies where the multiples of the divisor say.
LEMMA QuotientIsBetween ==
  ASSUME NEW n \in Nat \ {0}, NEW s \in Int, NEW a \in Int, NEW b \in Int, n * a <= s, s <= n * b
  PROVE  a <= s \div n /\ s \div n <= b /\ s \div n \in Int
<1> DEFINE q == s \div n
<1>1. q \in Int /\ n * q <= s /\ s < n * q + n
  BY Z3
<1> HIDE DEF q
<1>2. n * (q + 1) = n * q + n
  BY <1>1
<1>3. n * a < n * (q + 1) /\ n * q <= n * b
  BY <1>1, <1>2
<1>4. a < q + 1 /\ q <= b
  BY <1>1, <1>3
<1> QED
  BY <1>1, <1>4 DEF q

LiesIn(f, a, b) == \A i \in 1..Pixels : f[i] \in a..b

LEMMA ShiftIsBetween ==
  ASSUME NEW f \in [1..Pixels -> Int], NEW a \in Int, NEW b \in Int, LiesIn(f, a, b)
  PROVE  Shift(f) \in a..b
<1> USE PixelsAreCounted
<1> DEFINE s == SumOf(f)
<1>1. s \in Int /\ Pixels * a <= s /\ s <= Pixels * b
  BY SumIsBetween DEF LiesIn
<1> HIDE DEF s
<1>2. a <= s \div Pixels /\ s \div Pixels <= b /\ s \div Pixels \in Int
  BY <1>1, QuotientIsBetween
<1>3. Pixels * (-b) <= -s /\ -s <= Pixels * (-a)
  BY <1>1
<1>4. -b <= (-s) \div Pixels /\ (-s) \div Pixels <= -a /\ (-s) \div Pixels \in Int
  BY <1>1, <1>3, QuotientIsBetween
<1> QED
  BY <1>2, <1>4 DEF Shift, s

\* No pixel is beyond the threshold when all of them moved nearly alike.
AlikeFrom(f, a) == \A i \in 1..Pixels : a <= f[i] - previous[i] /\ f[i] - previous[i] <= a + 2047

LEMMA NothingIsBeyond ==
  ASSUME NEW f \in [1..Pixels -> Int], previous \in [1..Pixels -> Int], NEW a \in Int, AlikeFrom(f, a)
  PROVE  Beyond(f) = {}
<1> DEFINE b == a + 2047
<1> DEFINE moved == [i \in 1..Pixels |-> f[i] - previous[i]]
<1>1. moved \in [1..Pixels -> Int] /\ LiesIn(moved, a, b)
  <2>1. \A i \in 1..Pixels : f[i] \in Int /\ previous[i] \in Int
    OBVIOUS
  <2> QED
    BY <2>1 DEF AlikeFrom, LiesIn
<1>z. b \in Int /\ b - a <= 2047
  OBVIOUS
<1> HIDE DEF b
<1>2. Shift(moved) \in a..b
  <2> HIDE DEF moved
  <2> QED
    BY ONLY <1>1, a \in Int, <1>z, ShiftIsBetween
<1>3. 256 * Threshold >= 2048 /\ 256 * Threshold \in Int
  BY ThresholdAssumption
<1>4. ASSUME NEW i \in 1..Pixels PROVE ~(Magnitude(moved[i] - Shift(moved)) > 256 * Threshold)
  <2>1. moved[i] \in a..b
    BY <1>1 DEF LiesIn
  <2> HIDE DEF moved
  <2> QED
    BY <1>z, <1>2, <1>3, <2>1 DEF Magnitude
<1> QED
  BY <1>4 DEF Beyond

\* How far the blend may still be from a picture that has not changed for some steps.
RestAt(k) ==
  CASE k = 0 -> 65280 [] k = 1 -> 48960 [] k = 2 -> 36720 [] k = 3 -> 27540 [] k = 4 -> 20655
    [] k = 5 -> 15492 [] k = 6 -> 11619 [] k = 7 -> 8715 [] k = 8 -> 6537 [] k = 9 -> 4903
    [] OTHER -> 3678

LEMMA RestFalls ==
  ASSUME NEW k \in Nat
  PROVE  /\ RestAt(k) \in Nat /\ 4 * RestAt(k + 1) >= 3 * RestAt(k) /\ RestAt(0) = 65280
         /\ RestAt(k + 1) <= RestAt(k) /\ (k >= 10 => RestAt(k) = 3678)
  BY DEF RestAt

\* A step of the blend: a quarter of what is left, rounded down.
LEMMA AQuarterIsTaken ==
  ASSUME NEW d \in Int, NEW r \in Nat, NEW s \in Nat, -r <= d, d <= r, 4 * s >= 3 * r
  PROVE  /\ d \div 4 \in Int /\ -s <= d - (d \div 4) /\ d - (d \div 4) <= s
         /\ d \div 4 >= -((r + 3) \div 4) /\ d \div 4 <= r \div 4
  OBVIOUS

LEMMA AQuarterIsBetween ==
  ASSUME NEW v \in Int, NEW w \in Int, NEW m \in Int, 0 <= v, v <= m, 0 <= w, w <= m
  PROVE  LET q == (w - v) \div 4 IN q \in Int /\ 0 <= v + q /\ v + q <= m
<1> DEFINE q == (w - v) \div 4
<1>1. q \in Int /\ 4 * q <= w - v /\ w - v < 4 * q + 4
  OBVIOUS
<1> HIDE DEF q
<1>2. 0 <= v + q /\ v + q <= m
  BY <1>1
<1> QED
  BY <1>1, <1>2 DEF q

White == 65280
Gap(i) == 256 * frame[i] - smooth[i]

\* What the watch for motion rests on: how far the blend still is from the
\* picture, the same everywhere when only the light has changed; and that a
\* picture that has been still for so long has been quiet for nearly as long.
MotionInv ==
  /\ frame \in [1..Pixels -> Shades] /\ smooth \in [1..Pixels -> Int] /\ previous = smooth
  /\ \A i \in 1..Pixels : 0 <= smooth[i] /\ smooth[i] <= White
  /\ moving \in BOOLEAN /\ swaying \in BOOLEAN /\ stillFor \in NoAge..MotionSettle /\ stillSteps \in 0..LongStill
  /\ \A i \in 1..Pixels : -RestAt(stillSteps) <= Gap(i) /\ Gap(i) <= RestAt(stillSteps)
  /\ ~swaying => \A i \in 1..Pixels : Gap(i) = Gap(1)
  /\ moving => swaying
  /\ stillSteps >= 11 /\ moving => stillFor >= stillSteps - 11 /\ stillSteps < LongStill

LEMMA ShadesAreBytes == \A s \in Shades : s \in Int /\ 0 <= 256 * s /\ 256 * s <= White
  BY DetectorsAssumption DEF White

LEMMA MotionConstants ==
  /\ Pixels \in Nat \ {0} /\ 1 \in 1..Pixels /\ StartCount \in Nat \ {0} /\ StopCount \in Nat \ {0}
  /\ MotionSettle \in Nat \ {0} /\ LongStill \in Nat /\ LongStill = 12 + MotionSettle
  BY DetectorsAssumption DEF LongStill

LEMMA MotionInitial == MotionInit => MotionInv
<1> SUFFICES ASSUME MotionInit PROVE MotionInv
  OBVIOUS
<1> USE MotionConstants, ShadesAreBytes
<1>1. \A i \in 1..Pixels : frame[i] \in Shades /\ smooth[i] = 256 * frame[i]
  BY DEF MotionInit, Fixed
<1>2. smooth \in [1..Pixels -> Int] /\ previous = smooth /\ frame \in [1..Pixels -> Shades]
  BY <1>1 DEF MotionInit, Fixed
<1>3. ASSUME NEW i \in 1..Pixels PROVE Gap(i) = 0 /\ 0 <= smooth[i] /\ smooth[i] <= White
  BY <1>1 DEF Gap
<1>4. 0 \in Nat /\ RestAt(0) = White /\ 0 <= White /\ RestAt(0) \in Nat
  BY RestFalls DEF White
<1>5. -RestAt(0) <= 0 /\ 0 <= RestAt(0) /\ stillSteps = 0 /\ stillSteps \in 0..LongStill
  BY <1>4 DEF MotionInit
<1>6. \A i \in 1..Pixels : -RestAt(stillSteps) <= Gap(i) /\ Gap(i) <= RestAt(stillSteps) /\ Gap(i) = Gap(1)
  BY <1>3, <1>5
<1>7. moving = FALSE /\ swaying = FALSE /\ stillFor \in NoAge..MotionSettle
  BY DEF MotionInit, NoAge
<1> QED
  BY <1>2, <1>3, <1>5, <1>6, <1>7 DEF MotionInv

\* A picture that begins anew, or that changes, is at most white away from the blend.
LEMMA MotionRestartsKeeps == MotionInv /\ MotionRestarts => MotionInv'
<1> SUFFICES ASSUME MotionInv, MotionRestarts PROVE MotionInv'
  OBVIOUS
<1> USE MotionConstants, ShadesAreBytes
<1>1. PICK f \in [1..Pixels -> Shades] : frame' = f /\ smooth' = Fixed(f) /\ previous' = Fixed(f)
  BY DEF MotionRestarts
<1>2. \A i \in 1..Pixels : frame'[i] \in Shades /\ smooth'[i] = 256 * frame'[i]
  BY <1>1 DEF Fixed
<1>3. smooth' \in [1..Pixels -> Int] /\ previous' = smooth' /\ frame' \in [1..Pixels -> Shades]
  BY <1>1, <1>2 DEF Fixed
<1>4. ASSUME NEW i \in 1..Pixels PROVE Gap(i)' = 0 /\ 0 <= smooth'[i] /\ smooth'[i] <= White
  BY <1>2 DEF Gap
<1>5. stillSteps' = 0 /\ 0 \in Nat /\ -RestAt(0) <= 0 /\ 0 <= RestAt(0) /\ UNCHANGED <<moving, stillFor, swaying>>
  BY RestFalls DEF MotionRestarts
<1>6. \A i \in 1..Pixels : -RestAt(stillSteps') <= Gap(i)' /\ Gap(i)' <= RestAt(stillSteps') /\ Gap(i)' = Gap(1)'
  BY <1>4, <1>5
<1>7. /\ moving' \in BOOLEAN /\ swaying' \in BOOLEAN /\ stillFor' \in NoAge..MotionSettle /\ (moving' => swaying')
      /\ stillSteps' \in 0..LongStill /\ ~(stillSteps' >= 11)
  BY <1>5 DEF MotionInv
<1> QED
  BY ONLY <1>3, <1>4, <1>6, <1>7 DEF MotionInv

LEMMA SomethingMovesKeeps == MotionInv /\ SomethingMoves => MotionInv'
<1> SUFFICES ASSUME MotionInv, SomethingMoves PROVE MotionInv'
  OBVIOUS
<1> USE MotionConstants, ShadesAreBytes
<1>1. /\ frame' \in [1..Pixels -> Shades] /\ stillSteps' = 0 /\ UNCHANGED <<smooth, previous, moving, stillFor>>
      /\ swaying' = (swaying \/ \E i \in 2..Pixels : frame'[i] - frame[i] # frame'[1] - frame[1])
  BY DEF SomethingMoves
<1>2. ASSUME NEW i \in 1..Pixels
      PROVE  /\ 0 <= smooth[i] /\ smooth[i] <= White /\ smooth[i] \in Int /\ frame[i] \in Int
             /\ frame'[i] \in Int /\ 0 <= 256 * frame'[i] /\ 256 * frame'[i] <= White
             /\ Gap(i)' = 256 * frame'[i] - smooth[i]
  <2>1. /\ 0 <= smooth[i] /\ smooth[i] <= White /\ smooth[i] \in Int
        /\ frame[i] \in Shades /\ frame'[i] \in Shades
    BY <1>1 DEF MotionInv
  <2>2. Gap(i)' = 256 * frame'[i] - smooth[i]
    BY <1>1 DEF Gap
  <2> QED
    BY <2>1, <2>2
<1>3. 0 \in Nat /\ RestAt(0) = White /\ White \in Int
  BY RestFalls DEF White
<1>4. ASSUME NEW i \in 1..Pixels PROVE -RestAt(stillSteps') <= Gap(i)' /\ Gap(i)' <= RestAt(stillSteps')
  <2>1. -White <= Gap(i)' /\ Gap(i)' <= White
    BY <1>2, <1>3
  <2>2. RestAt(stillSteps') = White
    BY <1>1, <1>3
  <2> QED
    BY <2>1, <2>2
<1>5. ASSUME ~swaying', NEW i \in 1..Pixels PROVE Gap(i)' = Gap(1)'
  <2>1. ~swaying /\ Gap(i) = Gap(1) /\ \A k \in 2..Pixels : frame'[k] - frame[k] = frame'[1] - frame[1]
    BY <1>1, <1>5 DEF MotionInv
  <2>2. frame'[i] - frame[i] = frame'[1] - frame[1]
    <3>1. CASE i = 1
      BY <3>1
    <3>2. CASE i # 1
      <4>1. i \in 2..Pixels
        BY <3>2
      <4> QED
        BY <2>1, <4>1
    <3> QED
      BY <3>1, <3>2
  <2>3. Gap(i) = 256 * frame[i] - smooth[i] /\ Gap(1) = 256 * frame[1] - smooth[1]
    BY DEF Gap
  <2> QED
    BY <1>2, <2>1, <2>2, <2>3
<1>6. swaying' \in BOOLEAN /\ (moving' => swaying')
  BY <1>1 DEF MotionInv
<1>7. stillSteps' \in 0..LongStill /\ ~(stillSteps' >= 11)
  BY <1>1
<1>8. /\ smooth' \in [1..Pixels -> Int] /\ previous' = smooth'
      /\ (\A i \in 1..Pixels : 0 <= smooth'[i] /\ smooth'[i] <= White)
      /\ moving' \in BOOLEAN /\ stillFor' \in NoAge..MotionSettle
  BY <1>1 DEF MotionInv
<1> QED
  BY ONLY <1>1, <1>4, <1>5, <1>6, <1>7, <1>8 DEF MotionInv

\* A step of the blend: where it goes, and what is left.
LEMMA TheBlendComesNearer ==
  ASSUME MotionInv, NEW i \in 1..Pixels
  PROVE  LET b == Blend(frame)
             r == RestAt(stillSteps)
             d == 256 * frame[i] - b[i]
         IN /\ b[i] \in Int /\ 0 <= b[i] /\ b[i] <= White /\ b[i] - previous[i] = Gap(i) \div 4
            /\ -((r + 3) \div 4) <= b[i] - previous[i] /\ b[i] - previous[i] <= r \div 4
            /\ -RestAt(stillSteps + 1) <= d /\ d <= RestAt(stillSteps + 1) /\ d = Gap(i) - (Gap(i) \div 4)
<1> USE MotionConstants, ShadesAreBytes
<1> DEFINE r == RestAt(stillSteps)
<1> DEFINE s == RestAt(stillSteps + 1)
<1> DEFINE q == Gap(i) \div 4
<1>1. /\ 0 <= smooth[i] /\ smooth[i] <= White /\ smooth[i] \in Int /\ frame[i] \in Int
      /\ 0 <= 256 * frame[i] /\ 256 * frame[i] <= White /\ previous[i] = smooth[i]
      /\ Gap(i) = 256 * frame[i] - smooth[i] /\ -r <= Gap(i) /\ Gap(i) <= r
  BY DEF MotionInv, Gap
<1>2. Blend(frame)[i] = smooth[i] + q
  BY <1>1 DEF Blend
<1>3. r \in Nat /\ s \in Nat /\ 4 * s >= 3 * r
  <2>1. stillSteps \in Nat
    BY DEF MotionInv
  <2>2. RestAt(stillSteps + 1) \in Nat
    BY <2>1, RestFalls
  <2> QED
    BY <2>1, <2>2, RestFalls
<1>4. White \in Int /\ Gap(i) \in Int
  BY <1>1 DEF White
<1> HIDE DEF r, s
<1>5. q \in Int /\ 0 <= smooth[i] + q /\ smooth[i] + q <= White
  BY <1>1, <1>4, AQuarterIsBetween
<1>6. /\ -s <= Gap(i) - q /\ Gap(i) - q <= s /\ q >= -((r + 3) \div 4) /\ q <= r \div 4
  BY <1>1, <1>3, <1>4, AQuarterIsTaken
<1> HIDE DEF q
<1> QED
  BY <1>1, <1>2, <1>5, <1>6 DEF r, s, q

\* When nothing but the light has changed, or for long nothing, nothing is beyond.
LEMMA NothingMoves ==
  ASSUME MotionInv, ~swaying \/ stillSteps >= 10
  PROVE  Beyond(Blend(frame)) = {}
<1> USE MotionConstants
<1> DEFINE b == Blend(frame)
<1>1. b \in [1..Pixels -> Int] /\ previous \in [1..Pixels -> Int]
  BY TheBlendComesNearer DEF Blend, MotionInv
<1>2. CASE ~swaying
  <2> DEFINE c == Gap(1) \div 4
  <2>1. \A i \in 1..Pixels : b[i] - previous[i] = c /\ b[i] - previous[i] \in Int
    <3>1. \A i \in 1..Pixels : Gap(i) = Gap(1)
      BY <1>2 DEF MotionInv
    <3>2. \A i \in 1..Pixels : b[i] - previous[i] = Gap(i) \div 4 /\ b[i] - previous[i] \in Int
      BY <1>1, TheBlendComesNearer
    <3> QED
      BY <3>1, <3>2
  <2> HIDE DEF c, b
  <2>2. c \in Int /\ AlikeFrom(b, c)
    BY <2>1 DEF AlikeFrom
  <2>3. Beyond(b) = {}
    BY ONLY <1>1, <2>2, NothingIsBeyond
  <2> QED
    BY <2>3 DEF b
<1>3. CASE stillSteps >= 10
  <2>1. RestAt(stillSteps) = 3678
    BY <1>3, RestFalls DEF MotionInv
  <2>2. \A i \in 1..Pixels : -920 <= b[i] - previous[i] /\ b[i] - previous[i] <= 919
    BY <2>1, TheBlendComesNearer
  <2> HIDE DEF b
  <2>3. -920 \in Int /\ AlikeFrom(b, -920)
    BY <1>1, <2>2 DEF AlikeFrom
  <2>4. Beyond(b) = {}
    BY ONLY <1>1, <2>3, NothingIsBeyond
  <2> QED
    BY <2>4 DEF b
<1> QED
  BY <1>2, <1>3

\* A step of the watch for motion.
LEMMA MotionFeedsKeeps == MotionInv /\ MotionFeeds => MotionInv'
<1> SUFFICES ASSUME MotionInv, MotionFeeds PROVE MotionInv'
  OBVIOUS
<1> USE MotionConstants
<1> DEFINE b == Blend(frame)
<1> DEFINE beyond == Cardinality(Beyond(b))
<1>1. /\ smooth' = b /\ previous' = b /\ UNCHANGED <<frame, swaying>>
      /\ moving' = IF moving THEN StaysMoving(beyond, stillFor >= MotionSettle) ELSE beyond >= StartCount
      /\ stillFor' = IF ~moving \/ ~IsQuiet(beyond) THEN NoAge
                     ELSE IF stillFor = NoAge THEN 0 ELSE GrowsOld(stillFor, MotionSettle)
      /\ stillSteps' = GrowsOld(stillSteps, LongStill)
  BY DEF MotionFeeds, Decides
<1>z. /\ moving' \in BOOLEAN
      /\ moving => (moving' <=> (~(stillFor >= MotionSettle) \/ ~IsQuiet(beyond)))
      /\ ~moving => (moving' <=> beyond >= StartCount)
  <2>1. (beyond >= StartCount) \in BOOLEAN /\ StaysMoving(beyond, stillFor >= MotionSettle) \in BOOLEAN
    BY DEF StaysMoving
  <2>2. StaysMoving(beyond, stillFor >= MotionSettle) <=> (~(stillFor >= MotionSettle) \/ ~IsQuiet(beyond))
    BY Zenon DEF StaysMoving
  <2> HIDE DEF beyond
  <2>3. CASE moving
    <3>1. moving' = StaysMoving(beyond, stillFor >= MotionSettle)
      BY <1>1, <2>3
    <3> QED
      BY <2>1, <2>2, <2>3, <3>1, Zenon
  <2>4. CASE ~moving
    <3>1. moving' = (beyond >= StartCount)
      BY <1>1, <2>4
    <3> QED
      BY <2>1, <2>4, <3>1, Zenon
  <2> QED
    BY <2>3, <2>4
<1>2. /\ stillSteps \in Nat /\ stillSteps' \in 0..LongStill
      /\ stillSteps' = (IF stillSteps < LongStill THEN stillSteps + 1 ELSE stillSteps)
  BY <1>1 DEF MotionInv, GrowsOld, NoAge
<1>3. /\ moving \in BOOLEAN /\ moving' \in BOOLEAN /\ stillFor \in NoAge..MotionSettle
      /\ stillFor' \in NoAge..MotionSettle
  <2>1. moving \in BOOLEAN /\ stillFor \in NoAge..MotionSettle
    BY DEF MotionInv
  <2> HIDE DEF beyond
  <2>2. moving' \in BOOLEAN
    BY <1>z
  <2>3. stillFor' \in NoAge..MotionSettle
    BY <1>1, <2>1 DEF GrowsOld, NoAge
  <2> QED
    BY <2>1, <2>2, <2>3
<1>4. smooth' \in [1..Pixels -> Int] /\ previous' = smooth'
  BY <1>1, TheBlendComesNearer DEF Blend
<1>5. ASSUME NEW i \in 1..Pixels
      PROVE  /\ 0 <= smooth'[i] /\ smooth'[i] <= White /\ Gap(i)' = Gap(i) - (Gap(i) \div 4)
             /\ -RestAt(stillSteps') <= Gap(i)' /\ Gap(i)' <= RestAt(stillSteps')
  <2>1. /\ b[i] \in Int /\ 0 <= b[i] /\ b[i] <= White
        /\ -RestAt(stillSteps + 1) <= 256 * frame[i] - b[i] /\ 256 * frame[i] - b[i] <= RestAt(stillSteps + 1)
        /\ 256 * frame[i] - b[i] = Gap(i) - (Gap(i) \div 4)
    BY TheBlendComesNearer
  <2>2. Gap(i)' = 256 * frame[i] - b[i]
    BY <1>1 DEF Gap
  <2>3. RestAt(stillSteps + 1) = RestAt(stillSteps')
    <3>1. CASE stillSteps < LongStill
      BY <1>2, <3>1
    <3>2. CASE ~(stillSteps < LongStill)
      <4>1. stillSteps' = stillSteps /\ stillSteps >= 10 /\ stillSteps + 1 >= 10 /\ stillSteps + 1 \in Nat
        BY <1>2, <3>2
      <4> QED
        BY <1>2, <4>1, RestFalls
    <3> QED
      BY <3>1, <3>2
  <2> QED
    BY <1>1, <2>1, <2>2, <2>3
<1>6. ASSUME ~swaying', NEW i \in 1..Pixels PROVE Gap(i)' = Gap(1)'
  BY <1>1, <1>5, <1>6 DEF MotionInv
<1>7. moving' => swaying'
  <2> SUFFICES ASSUME ~swaying PROVE ~moving'
    BY <1>1
  <2>1. beyond = 0
    BY NothingMoves, FS_EmptySet
  <2>2. ~moving
    BY DEF MotionInv
  <2> HIDE DEF beyond
  <2> QED
    BY <1>z, <2>1, <2>2
<1>8. ASSUME stillSteps' >= 11, moving' PROVE stillFor' >= stillSteps' - 11 /\ stillSteps' < LongStill
  <2>1. stillSteps >= 10
    BY <1>2, <1>8
  <2>2. beyond = 0
    BY <2>1, NothingMoves, FS_EmptySet
  <2> HIDE DEF beyond
  <2>3. moving /\ ~(stillFor >= MotionSettle)
    BY <1>z, <1>3, <1>8, <2>2 DEF IsQuiet
  <2>4. stillFor' = stillFor + 1
    BY <1>1, <1>3, <2>2, <2>3 DEF IsQuiet, GrowsOld, NoAge
  <2>5. stillSteps >= 11 => stillFor >= stillSteps - 11 /\ stillSteps < LongStill
    BY <2>3 DEF MotionInv
  <2>6. stillFor >= -1 /\ stillFor < MotionSettle /\ stillFor \in Int
    BY <1>3, <2>3 DEF NoAge
  <2>7. CASE stillSteps = 10
    BY <1>2, <2>4, <2>6, <2>7
  <2>8. CASE stillSteps # 10
    BY <1>2, <2>1, <2>4, <2>5, <2>6, <2>8
  <2> QED
    BY <2>7, <2>8
<1> QED
  BY <1>1, <1>2, <1>3, <1>4, <1>5, <1>6, <1>7, <1>8 DEF MotionInv

LEMMA MotionHolds == MotionSpec => []MotionInv
<1>1. MotionInv /\ [MotionNext]_motionVars => MotionInv'
  <2> SUFFICES ASSUME MotionInv, [MotionNext]_motionVars PROVE MotionInv'
    OBVIOUS
  <2>1. CASE UNCHANGED motionVars
    BY <2>1 DEF motionVars, MotionInv, Gap
  <2> QED
    BY <2>1, MotionFeedsKeeps, MotionRestartsKeeps, SomethingMovesKeeps DEF MotionNext
<1> QED
  BY <1>1, MotionInitial, PTL DEF MotionSpec

-----------------------------------------------------------------------------
(*                        The detectors: what sounds                       *)

SaidAtMost(n) == IF n - 1 >= SoundSettle THEN 0 ELSE SoundSettle - (n - 1)

\* What the watch for sounds rests on: a burst under way is above the release
\* while what is heard is the same, so that none of it ends as a cry or a bark;
\* what is still said is of before.
SoundTypes ==
  /\ level \in Levels /\ inBand \in BOOLEAN /\ loud \in BOOLEAN /\ voiced \in BOOLEAN /\ spoke \in BOOLEAN
  /\ floor \in (FloorMin..FloorMax) \cup Levels \cup {NoFloor} /\ burst \in 0..MaxBurst
  /\ cryFor \in 0..SoundSettle /\ barkFor \in 0..SoundSettle /\ sameFor \in 0..LongSame
SoundInv ==
  /\ SoundTypes
  /\ loud => floor # NoFloor
  /\ loud /\ sameFor >= 1 => level >= floor + Release
  /\ sameFor >= 1 => cryFor <= SaidAtMost(sameFor) /\ barkFor <= SaidAtMost(sameFor)
  /\ voiced => spoke
  /\ cryFor > 0 \/ barkFor > 0 => spoke

LEMMA SoundConstants ==
  /\ MaxBurst \in Nat \ {0} /\ SoundSettle \in Nat \ {0} /\ LongSame \in Nat /\ LongSame > SoundSettle + 1
  /\ Trigger \in Int /\ Release \in Int /\ Release < Trigger /\ FloorMin \in Int /\ FloorMax \in Int
  /\ FloorMin < FloorMax /\ FloorMax <= 0 /\ Levels \subseteq Int /\ (\A l \in Levels : l <= 0) /\ NoFloor = 1
  BY DetectorsAssumption DEF LongSame, NoFloor

LEMMA TheFloorIsWithin ==
  ASSUME NEW f \in Int
  PROVE  Within(f) \in FloorMin..FloorMax /\ Within(f) # NoFloor
  BY SoundConstants DEF Within

LEMMA FloorsAreIntegers == SoundTypes => floor \in Int /\ level \in Int
  BY SoundConstants DEF SoundTypes

\* What is said dies away.
LEMMA ItDiesAway ==
  ASSUME NEW said \in 0..SoundSettle
  PROVE  Less(said) \in 0..SoundSettle /\ Less(said) <= said /\ (Less(said) > 0 => said > 0)
  BY SoundConstants DEF Less

LEMMA SaidIsOfBefore ==
  ASSUME NEW said \in 0..SoundSettle, NEW n \in 0..LongSame, n >= 1 => said <= SaidAtMost(n)
  PROVE  /\ GrowsOld(n, LongSame) \in 0..LongSame /\ GrowsOld(n, LongSame) >= 1
         /\ Less(said) <= SaidAtMost(GrowsOld(n, LongSame))
         /\ (n = 0 => SoundSettle <= SaidAtMost(GrowsOld(n, LongSame)))
  BY SoundConstants DEF Less, SaidAtMost, GrowsOld, NoAge

LEMMA SoundFeedsKeeps == SoundInv /\ SoundFeeds => SoundInv'
<1> SUFFICES ASSUME SoundInv, SoundFeeds PROVE SoundInv'
  OBVIOUS
<1> USE SoundConstants
<1>1. /\ sameFor' = GrowsOld(sameFor, LongSame) /\ spoke' = (spoke \/ inBand) /\ UNCHANGED <<level, inBand>>
  BY DEF SoundFeeds
<1>2. /\ floor \in Int /\ level \in Int /\ SoundTypes /\ level \in Levels /\ sameFor \in 0..LongSame
      /\ cryFor \in 0..SoundSettle /\ barkFor \in 0..SoundSettle /\ burst \in 0..MaxBurst
  BY FloorsAreIntegers DEF SoundInv, SoundTypes
<1>3. /\ sameFor' \in 0..LongSame /\ sameFor' >= 1
      /\ Less(cryFor) <= SaidAtMost(sameFor') /\ Less(barkFor) <= SaidAtMost(sameFor')
      /\ sameFor = 0 => SoundSettle <= SaidAtMost(sameFor')
  BY <1>1, <1>2, SaidIsOfBefore DEF SoundInv
<1>4. spoke' \in BOOLEAN /\ (spoke => spoke') /\ (inBand => spoke') /\ inBand \in BOOLEAN
  BY <1>1, <1>2 DEF SoundTypes
<1>5. ASSUME NothingIsSaid
      PROVE  /\ cryFor' \in 0..SoundSettle /\ barkFor' \in 0..SoundSettle
             /\ cryFor' <= SaidAtMost(sameFor') /\ barkFor' <= SaidAtMost(sameFor')
             /\ (cryFor' > 0 \/ barkFor' > 0 => spoke')
  <2>1. cryFor' = Less(cryFor) /\ barkFor' = Less(barkFor)
    BY <1>5 DEF NothingIsSaid
  <2> QED
    BY <1>2, <1>3, <1>4, <2>1, ItDiesAway DEF SoundInv
<1>6. ASSUME NothingIsSaid, UNCHANGED <<loud, burst, voiced>>, ~loud,
             floor' \in (FloorMin..FloorMax) \cup Levels \cup {NoFloor}
      PROVE  SoundInv'
  BY <1>1, <1>2, <1>3, <1>4, <1>5, <1>6 DEF SoundInv, SoundTypes
<1>7. CASE FirstSound
  <2>1. ~loud /\ NothingIsSaid /\ UNCHANGED <<loud, burst, voiced>>
    BY <1>7 DEF FirstSound, SoundInv
  <2>2. floor' = NoFloor \/ floor' = level
    BY <1>7 DEF FirstSound
  <2> QED
    BY <1>2, <1>6, <2>1, <2>2
<1>8. CASE FloorFollows
  <2>1. ~loud /\ NothingIsSaid /\ UNCHANGED <<loud, burst, voiced>>
    BY <1>8 DEF FloorFollows
  <2>2. floor' = floor \/ \E f \in Int : floor' = Within(f)
    BY <1>2, <1>8 DEF FloorFollows, Lower, Larger
  <2>3. floor' \in (FloorMin..FloorMax) \cup Levels \cup {NoFloor}
    BY <1>2, <2>2, TheFloorIsWithin DEF SoundTypes
  <2> QED
    BY <1>6, <2>1, <2>3
<1>9. CASE floor # NoFloor /\ BurstBegins
  <2>1. /\ level >= floor + Trigger /\ loud' = TRUE /\ burst' = 0 /\ voiced' = inBand /\ NothingIsSaid
        /\ floor' = floor
    BY <1>9 DEF BurstBegins
  <2>2. level' >= floor' + Release
    BY <1>1, <1>2, <2>1
  <2>3. SoundTypes'
    BY <1>1, <1>2, <1>3, <1>4, <1>5, <2>1 DEF SoundTypes
  <2> QED
    BY <1>3, <1>4, <1>5, <1>9, <2>1, <2>2, <2>3 DEF SoundInv
<1>10. CASE floor # NoFloor /\ BurstEnds
  <2>1. /\ loud /\ level < floor + Release /\ loud' = FALSE /\ burst' = 0 /\ Classifies(burst + 1)
        /\ UNCHANGED <<floor, voiced>>
    BY <1>10 DEF BurstEnds
  <2>2. sameFor = 0
    <3>1. ~(level >= floor + Release)
      BY <1>2, <2>1
    <3> QED
      BY <1>2, <2>1, <3>1 DEF SoundInv
  <2>3. /\ cryFor' = Less(cryFor) \/ (voiced /\ cryFor' = SoundSettle)
        /\ barkFor' = Less(barkFor) \/ (voiced /\ barkFor' = SoundSettle)
    BY <2>1 DEF Classifies, HasVoice
  <2>4. voiced => spoke'
    BY <1>4 DEF SoundInv
  <2>5. /\ cryFor' \in 0..SoundSettle /\ barkFor' \in 0..SoundSettle
        /\ cryFor' <= SaidAtMost(sameFor') /\ barkFor' <= SaidAtMost(sameFor')
        /\ (cryFor' > 0 \/ barkFor' > 0 => spoke')
    BY <1>2, <1>3, <1>4, <2>2, <2>3, <2>4, ItDiesAway DEF SoundInv
  <2>6. SoundTypes'
    <3>1. /\ level' \in Levels /\ inBand' \in BOOLEAN /\ loud' \in BOOLEAN /\ voiced' \in BOOLEAN
          /\ burst' \in 0..MaxBurst
      <4>1. level' \in Levels /\ inBand' \in BOOLEAN /\ voiced' \in BOOLEAN /\ burst' \in 0..MaxBurst
        BY <1>1, <1>2, <1>4, <2>1 DEF SoundTypes
      <4>2. loud' \in BOOLEAN
        BY <2>1, Zenon
      <4> QED
        BY ONLY <4>1, <4>2
    <3>2. floor' \in (FloorMin..FloorMax) \cup Levels \cup {NoFloor}
      BY <1>2, <2>1 DEF SoundTypes
    <3> QED
      BY ONLY <1>3, <1>4, <2>5, <3>1, <3>2 DEF SoundTypes
  <2> QED
    BY <2>1, <2>4, <2>5, <2>6 DEF SoundInv
<1>11. CASE floor # NoFloor /\ NoiseIsTheFloor
  <2>1. loud' = FALSE /\ burst' = 0 /\ floor' = Within(level) /\ NothingIsSaid /\ voiced' = voiced
    BY <1>11 DEF NoiseIsTheFloor, IsNoBurst
  <2>2. floor' \in FloorMin..FloorMax
    BY <1>2, <2>1, TheFloorIsWithin
  <2>3. SoundTypes'
    <3>1. /\ level' \in Levels /\ inBand' \in BOOLEAN /\ loud' \in BOOLEAN /\ voiced' \in BOOLEAN
          /\ burst' \in 0..MaxBurst
      <4>1. level' \in Levels /\ inBand' \in BOOLEAN /\ voiced' \in BOOLEAN /\ burst' \in 0..MaxBurst
        BY <1>1, <1>2, <1>4, <2>1 DEF SoundTypes
      <4>2. loud' \in BOOLEAN
        BY <2>1, Zenon
      <4> QED
        BY ONLY <4>1, <4>2
    <3>2. floor' \in (FloorMin..FloorMax) \cup Levels \cup {NoFloor}
      BY <2>2
    <3>3. cryFor' \in 0..SoundSettle /\ barkFor' \in 0..SoundSettle
      BY <1>5, <2>1
    <3> QED
      BY ONLY <1>3, <1>4, <3>1, <3>2, <3>3 DEF SoundTypes
  <2> QED
    BY <1>4, <1>5, <2>1, <2>3 DEF SoundInv
<1>12. CASE floor # NoFloor /\ BurstGoesOn
  <2>1. /\ level >= floor + Release /\ burst < MaxBurst /\ burst' = burst + 1 /\ voiced' = (voiced \/ inBand)
        /\ NothingIsSaid /\ UNCHANGED <<loud, floor>>
    BY <1>12 DEF BurstGoesOn
  <2>2. voiced' \in BOOLEAN /\ (voiced' => spoke')
    BY <1>2, <1>4, <2>1 DEF SoundInv, SoundTypes
  <2>3. burst' \in 0..MaxBurst
    BY <1>2, <2>1
  <2>4. SoundTypes'
    BY <1>1, <1>2, <1>3, <1>4, <1>5, <2>1, <2>2, <2>3 DEF SoundTypes
  <2> QED
    BY <1>1, <1>4, <1>5, <2>1, <2>2, <2>4 DEF SoundInv
<1> QED
  BY <1>7, <1>8, <1>9, <1>10, <1>11, <1>12 DEF SoundFeeds

LEMMA SoundHolds == SoundSpec => []SoundInv
<1> USE SoundConstants
<1>1. SoundInit => SoundInv
  <2> SUFFICES ASSUME SoundInit PROVE SoundInv
    OBVIOUS
  <2>1. /\ level \in Levels /\ inBand \in BOOLEAN /\ loud = FALSE /\ voiced = FALSE /\ spoke = FALSE
        /\ floor = NoFloor /\ burst = 0 /\ cryFor = 0 /\ barkFor = 0 /\ sameFor = 0
    BY DEF SoundInit
  <2>2. loud \in BOOLEAN /\ voiced \in BOOLEAN /\ spoke \in BOOLEAN
    BY ONLY <2>1, Zenon
  <2>3. SoundTypes
    BY <2>1, <2>2 DEF SoundTypes
  <2> QED
    BY <2>1, <2>3 DEF SoundInv
<1>2. SoundInv /\ [SoundNext]_soundVars => SoundInv'
  <2> SUFFICES ASSUME SoundInv, [SoundNext]_soundVars PROVE SoundInv'
    OBVIOUS
  <2>1. CASE UNCHANGED soundVars
    BY <2>1 DEF soundVars, SoundInv, SoundTypes
  <2>2. CASE RoomSounds
    <3>1. /\ level' \in Levels /\ inBand' \in BOOLEAN /\ sameFor' = 0
          /\ UNCHANGED <<floor, loud, burst, voiced, cryFor, barkFor, spoke>>
      BY <2>2 DEF RoomSounds
    <3> QED
      BY <3>1 DEF SoundInv, SoundTypes
  <2> QED
    BY <2>1, <2>2, SoundFeedsKeeps DEF SoundNext
<1> QED
  BY <1>1, <1>2, PTL DEF SoundSpec

-----------------------------------------------------------------------------
(*                     The detectors: the sums of a block                  *)

SumRecords == [n : Int, zeros : Int, crossings : Int, sum : Int, sumSq : Int, peak : Int, first : Int, last : Int]
IsSums(s) == s \in SumRecords /\ s.peak >= 0 /\ (s.first = 0 <=> s.last = 0)

LEMMA NoSumsAreSums == IsSums(NoSums)
  BY DEF IsSums, SumRecords, NoSums

LEMMA OneMoreIsSums ==
  ASSUME NEW s, IsSums(s), NEW v \in Int
  PROVE  IsSums(OneMore(s, v))
<1>1. /\ s.n \in Int /\ s.zeros \in Int /\ s.crossings \in Int /\ s.sum \in Int /\ s.sumSq \in Int
      /\ s.peak \in Int /\ s.first \in Int /\ s.last \in Int /\ s.peak >= 0 /\ (s.first = 0 <=> s.last = 0)
  BY DEF IsSums, SumRecords
<1>2. v * v \in Int /\ Larger(s.peak, Abs16(v)) \in Int /\ Larger(s.peak, Abs16(v)) >= 0
  BY <1>1 DEF Larger, Abs16, Magnitude
<1>3. OneMore(s, v) \in SumRecords
  BY <1>1, <1>2 DEF OneMore, SumRecords
<1>4. OneMore(s, v).peak >= 0 /\ (OneMore(s, v).first = 0 <=> OneMore(s, v).last = 0)
  BY <1>1, <1>2 DEF OneMore
<1> QED
  BY <1>3, <1>4 DEF IsSums

LEMMA JoiningNothing ==
  ASSUME NEW s, IsSums(s)
  PROVE  JoinSums(s, NoSums) = s
<1>1. /\ s.n \in Int /\ s.zeros \in Int /\ s.crossings \in Int /\ s.sum \in Int /\ s.sumSq \in Int
      /\ s.peak \in Int /\ s.first \in Int /\ s.last \in Int /\ s.peak >= 0
  BY DEF IsSums, SumRecords
<1>2. s = [n |-> s.n, zeros |-> s.zeros, crossings |-> s.crossings, sum |-> s.sum, sumSq |-> s.sumSq,
           peak |-> s.peak, first |-> s.first, last |-> s.last]
  BY DEF IsSums, SumRecords
<1>3. CrossingBetween(s.last, 0) = 0 /\ Larger(s.peak, 0) = s.peak
  BY <1>1 DEF CrossingBetween, Crosses, Larger
<1>4. JoinSums(s, NoSums) = [n |-> s.n, zeros |-> s.zeros, crossings |-> s.crossings, sum |-> s.sum, sumSq |-> s.sumSq,
                             peak |-> s.peak, first |-> s.first, last |-> s.last]
  BY <1>1, <1>3 DEF JoinSums, NoSums
<1> QED
  BY <1>2, <1>4

\* A sample more of the second block is a sample more of the two joined.
LEMMA JoiningOneMore ==
  ASSUME NEW a, NEW c, IsSums(a), IsSums(c), NEW v \in Int
  PROVE  OneMore(JoinSums(a, c), v) = JoinSums(a, OneMore(c, v))
<1>1. /\ a.n \in Int /\ a.zeros \in Int /\ a.crossings \in Int /\ a.sum \in Int /\ a.sumSq \in Int
      /\ a.peak \in Int /\ a.first \in Int /\ a.last \in Int /\ (a.first = 0 <=> a.last = 0)
  BY DEF IsSums, SumRecords
<1>2. /\ c.n \in Int /\ c.zeros \in Int /\ c.crossings \in Int /\ c.sum \in Int /\ c.sumSq \in Int
      /\ c.peak \in Int /\ c.first \in Int /\ c.last \in Int /\ (c.first = 0 <=> c.last = 0)
  BY DEF IsSums, SumRecords
<1> DEFINE j == JoinSums(a, c)
<1> DEFINE o == OneMore(c, v)
<1>3. /\ j.n = a.n + c.n /\ j.zeros = a.zeros + c.zeros
      /\ j.crossings = a.crossings + c.crossings + CrossingBetween(a.last, c.first)
      /\ j.sum = a.sum + c.sum /\ j.sumSq = a.sumSq + c.sumSq /\ j.peak = Larger(a.peak, c.peak)
      /\ j.first = (IF a.first = 0 THEN c.first ELSE a.first) /\ j.last = (IF c.last = 0 THEN a.last ELSE c.last)
  BY DEF JoinSums
<1>4. /\ o.n = c.n + 1 /\ o.zeros = c.zeros + (IF v = 0 THEN 1 ELSE 0)
      /\ o.crossings = c.crossings + (IF Crosses(c.last, v) THEN 1 ELSE 0)
      /\ o.sum = c.sum + v /\ o.sumSq = c.sumSq + (v * v) /\ o.peak = Larger(c.peak, Abs16(v))
      /\ o.first = (IF c.first = 0 THEN v ELSE c.first) /\ o.last = (IF v = 0 THEN c.last ELSE v)
  BY DEF OneMore
<1> HIDE DEF j, o
<1>5. j.n + 1 = a.n + o.n /\ j.sum + v = a.sum + o.sum
  <2>1. j.n + 1 = a.n + o.n
    BY ONLY <1>1, <1>2, <1>3, <1>4
  <2>2. j.sum + v = a.sum + o.sum
    BY ONLY v \in Int, <1>1, <1>2, <1>3, <1>4
  <2> QED
    BY <2>1, <2>2
<1>6. j.zeros + (IF v = 0 THEN 1 ELSE 0) = a.zeros + o.zeros
  BY <1>1, <1>2, <1>3, <1>4
<1>7. j.sumSq + (v * v) = a.sumSq + o.sumSq
  <2> DEFINE q == v * v
  <2>1. q \in Int
    OBVIOUS
  <2> HIDE DEF q
  <2>2. j.sumSq + q = a.sumSq + (c.sumSq + q)
    BY <1>1, <1>2, <1>3, <2>1
  <2> QED
    BY <1>4, <2>2 DEF q
<1>8. Larger(j.peak, Abs16(v)) = Larger(a.peak, o.peak)
  BY <1>1, <1>2, <1>3, <1>4 DEF Larger, Abs16, Magnitude
<1>9. /\ (IF j.first = 0 THEN v ELSE j.first) = (IF a.first = 0 THEN o.first ELSE a.first)
      /\ (IF v = 0 THEN j.last ELSE v) = (IF o.last = 0 THEN a.last ELSE o.last)
  BY <1>1, <1>2, <1>3, <1>4
<1>10. j.crossings + (IF Crosses(j.last, v) THEN 1 ELSE 0) = a.crossings + o.crossings + CrossingBetween(a.last, o.first)
  <2>1. CASE c.last = 0
    <3>1. c.first = 0 /\ j.last = a.last /\ o.first = v /\ ~Crosses(c.last, v) /\ ~Crosses(a.last, c.first)
      BY <1>2, <1>3, <1>4, <2>1 DEF Crosses
    <3>2. j.crossings = a.crossings + c.crossings /\ o.crossings = c.crossings
      BY <1>1, <1>2, <1>3, <1>4, <3>1 DEF CrossingBetween
    <3> QED
      BY <1>1, <1>2, <3>1, <3>2 DEF CrossingBetween
  <2>2. CASE c.last # 0
    <3>1. c.first # 0 /\ j.last = c.last /\ o.first = c.first
      BY <1>2, <1>3, <1>4, <2>2
    <3>2. CrossingBetween(a.last, c.first) \in Int
      BY DEF CrossingBetween
    <3> HIDE DEF CrossingBetween
    <3> QED
      BY <1>1, <1>2, <1>3, <1>4, <3>1, <3>2
  <2> QED
    BY <2>1, <2>2
<1>11. JoinSums(a, o) = OneMore(j, v)
  BY <1>5, <1>6, <1>7, <1>8, <1>9, <1>10 DEF JoinSums, OneMore
<1> QED
  BY <1>11 DEF j, o

\* One step of the definition.
BlockSums(f, w) == IF w = <<>> THEN NoSums ELSE OneMore(f[SubSeq(w, 1, Len(w) - 1)], w[Len(w)])
BlocksUpTo(f, n) == f \in [Seq(Int) -> {s \in SumRecords : IsSums(s)}] /\ \A w \in Seq(Int) : Len(w) <= n => f[w] = BlockSums(f, w)

LEMMA TheLastIsOne ==
  ASSUME NEW w \in Seq(Int), w # <<>>
  PROVE  /\ Len(w) \in Nat \ {0} /\ w[Len(w)] \in Int
         /\ SubSeq(w, 1, Len(w) - 1) \in Seq(Int) /\ Len(SubSeq(w, 1, Len(w) - 1)) = Len(w) - 1
         /\ \A i \in 1..(Len(w) - 1) : SubSeq(w, 1, Len(w) - 1)[i] = w[i]
<1> DEFINE n == Len(w)
<1>1. n \in Nat \ {0} /\ \A i \in 1..n : w[i] \in Int
  OBVIOUS
<1> HIDE DEF n
<1>2. 1 \in Int /\ n - 1 \in Int /\ \A i \in 1..(n - 1) : w[i] \in Int
  BY <1>1
<1>3. /\ SubSeq(w, 1, n - 1) \in Seq(Int)
      /\ Len(SubSeq(w, 1, n - 1)) = IF 1 <= n - 1 THEN (n - 1) - 1 + 1 ELSE 0
      /\ \A i \in 1..((n - 1) - 1 + 1) : SubSeq(w, 1, n - 1)[i] = w[1 + i - 1]
  BY ONLY <1>2, SubSeqProperties
<1>4. Len(SubSeq(w, 1, n - 1)) = n - 1 /\ \A i \in 1..(n - 1) : SubSeq(w, 1, n - 1)[i] = w[i]
  BY ONLY <1>1, <1>3
<1> QED
  BY <1>1, <1>3, <1>4 DEF n

LEMMA BlockSumsAreSums ==
  ASSUME NEW f \in [Seq(Int) -> {s \in SumRecords : IsSums(s)}], NEW w \in Seq(Int)
  PROVE  BlockSums(f, w) \in {s \in SumRecords : IsSums(s)}
<1>1. CASE w = <<>>
  BY <1>1, NoSumsAreSums DEF BlockSums, IsSums
<1>2. CASE w # <<>>
  <2> DEFINE c == f[SubSeq(w, 1, Len(w) - 1)]
  <2>1. w[Len(w)] \in Int /\ IsSums(c)
    BY <1>2, TheLastIsOne
  <2>2. IsSums(OneMore(c, w[Len(w)]))
    <3> HIDE DEF c
    <3> QED
      BY <2>1, OneMoreIsSums
  <2>3. OneMore(c, w[Len(w)]) \in SumRecords
    BY <2>2 DEF IsSums
  <2> QED
    BY <1>2, <2>2, <2>3 DEF BlockSums
<1> QED
  BY <1>1, <1>2

LEMMA BlocksExist ==
  ASSUME NEW n \in Nat
  PROVE  \E f : BlocksUpTo(f, n)
<1> DEFINE T == {k \in Nat : ~ \E f : BlocksUpTo(f, k)}
<1> SUFFICES ASSUME T # {} PROVE FALSE
  OBVIOUS
<1>1. PICK m \in T : \A k \in T : m <= k
  <2> HIDE DEF T
  <2> SUFFICES T \in SUBSET Nat
    BY SetsHaveALeast
  <2> QED
    BY DEF T
<1>2. CASE m = 0
  <2> DEFINE f == [w \in Seq(Int) |-> NoSums]
  <2>1. BlocksUpTo(f, 0)
    <3>1. \A w \in Seq(Int) : Len(w) <= 0 => w = <<>>
      OBVIOUS
    <3>2. f \in [Seq(Int) -> {s \in SumRecords : IsSums(s)}]
      BY NoSumsAreSums DEF IsSums
    <3> QED
      BY <3>1, <3>2 DEF BlocksUpTo, BlockSums
  <2> QED
    BY <1>2, <2>1
<1>3. CASE m # 0
  <2>1. m - 1 \in Nat /\ m - 1 \notin T
    BY <1>1, <1>3
  <2>2. PICK g : BlocksUpTo(g, m - 1)
    BY <2>1
  <2> DEFINE f == [w \in Seq(Int) |-> BlockSums(g, w)]
  <2>3. f \in [Seq(Int) -> {s \in SumRecords : IsSums(s)}]
    BY <2>2, BlockSumsAreSums DEF BlocksUpTo
  <2>4. ASSUME NEW w \in Seq(Int), Len(w) <= m PROVE f[w] = BlockSums(f, w)
    <3>1. CASE w = <<>>
      BY <3>1 DEF BlockSums
    <3>2. CASE w # <<>>
      <4> DEFINE u == SubSeq(w, 1, Len(w) - 1)
      <4>1. u \in Seq(Int) /\ Len(u) <= m - 1
        BY <2>4, <3>2, <1>3, TheLastIsOne
      <4>2. g[u] = f[u]
        BY <4>1, <2>2 DEF BlocksUpTo
      <4> QED
        BY <3>2, <4>2 DEF BlockSums
    <3> QED
      BY <3>1, <3>2
  <2>5. BlocksUpTo(f, m)
    <3> HIDE DEF f
    <3> QED
      BY <2>3, <2>4 DEF BlocksUpTo
  <2> QED
    BY <2>5
<1> QED
  BY <1>2, <1>3

LEMMA BlocksAgree ==
  ASSUME NEW n \in Nat, NEW m \in Nat, NEW f, NEW g, BlocksUpTo(f, n), BlocksUpTo(g, m),
         NEW w \in Seq(Int), Len(w) <= n, Len(w) <= m
  PROVE  f[w] = g[w]
<1> DEFINE T == {k \in Nat : \E v \in Seq(Int) : Len(v) = k /\ Len(v) <= n /\ Len(v) <= m /\ f[v] # g[v]}
<1> SUFFICES ASSUME T # {} PROVE FALSE
  <2>1. Len(w) \in Nat
    OBVIOUS
  <2> QED
    BY <2>1
<1>1. PICK k \in T : \A j \in T : k <= j
  <2> HIDE DEF T
  <2> SUFFICES T \in SUBSET Nat
    BY SetsHaveALeast
  <2> QED
    BY DEF T
<1>2. PICK v \in Seq(Int) : Len(v) = k /\ Len(v) <= n /\ Len(v) <= m /\ f[v] # g[v]
  BY <1>1
<1>3. f[v] = BlockSums(f, v) /\ g[v] = BlockSums(g, v)
  BY <1>2 DEF BlocksUpTo
<1>4. v # <<>>
  BY <1>2, <1>3 DEF BlockSums
<1> DEFINE u == SubSeq(v, 1, Len(v) - 1)
<1>5. u \in Seq(Int) /\ Len(u) = k - 1 /\ k \in Nat \ {0}
  BY <1>2, <1>4, TheLastIsOne
<1>6. f[u] = g[u]
  <2> SUFFICES ASSUME f[u] # g[u] PROVE FALSE
    OBVIOUS
  <2> HIDE DEF u
  <2>1. k - 1 \in Nat /\ Len(u) <= n /\ Len(u) <= m
    BY <1>2, <1>5
  <2>2. k - 1 \in T
    BY <1>5, <2>1
  <2> QED
    BY <1>1, <1>5, <2>2
<1> QED
  BY <1>2, <1>3, <1>4, <1>6 DEF BlockSums

\* The definition of a block's sums is what it says.
LEMMA SumsOfIs == \A w \in Seq(Int) : SumsOf[w] = BlockSums(SumsOf, w)
<1> DEFINE One(n) == CHOOSE f : BlocksUpTo(f, n)
<1> DEFINE F == [w \in Seq(Int) |-> One(Len(w))[w]]
<1>1. ASSUME NEW n \in Nat PROVE BlocksUpTo(One(n), n)
  BY BlocksExist
<1>2. ASSUME NEW w \in Seq(Int) PROVE Len(w) \in Nat /\ BlocksUpTo(One(Len(w)), Len(w))
  <2>1. Len(w) \in Nat
    OBVIOUS
  <2> QED
    BY <1>1, <2>1
<1> HIDE DEF One
<1>3. F \in [Seq(Int) -> {s \in SumRecords : IsSums(s)}]
  BY <1>2 DEF BlocksUpTo
<1>4. ASSUME NEW w \in Seq(Int) PROVE F[w] = BlockSums(F, w)
  <2>1. F[w] = BlockSums(One(Len(w)), w)
    <3>1. Len(w) <= Len(w)
      OBVIOUS
    <3> QED
      BY <1>2, <3>1 DEF BlocksUpTo
  <2>2. CASE w = <<>>
    BY <2>1, <2>2 DEF BlockSums
  <2>3. CASE w # <<>>
    <3> DEFINE u == SubSeq(w, 1, Len(w) - 1)
    <3>1. u \in Seq(Int) /\ Len(u) <= Len(w) /\ Len(u) <= Len(u)
      BY <2>3, TheLastIsOne
    <3>2. One(Len(u))[u] = One(Len(w))[u]
      <4> HIDE DEF u
      <4> QED
        BY <3>1, <1>2, BlocksAgree
    <3>3. F[u] = One(Len(w))[u]
      BY <3>1, <3>2
    <3> QED
      BY <2>1, <2>3, <3>3 DEF BlockSums
  <2> QED
    BY <2>2, <2>3
<1>5. F = [w \in Seq(Int) |-> IF w = <<>> THEN NoSums ELSE OneMore(F[SubSeq(w, 1, Len(w) - 1)], w[Len(w)])]
  <2>1. F = [w \in Seq(Int) |-> F[w]]
    OBVIOUS
  <2> HIDE DEF F
  <2> QED
    BY <1>4, <2>1 DEF BlockSums
<1> HIDE DEF F
<1>6. SumsOf = [w \in Seq(Int) |-> IF w = <<>> THEN NoSums ELSE OneMore(SumsOf[SubSeq(w, 1, Len(w) - 1)], w[Len(w)])]
  BY <1>5 DEF SumsOf
<1>7. \A w \in Seq(Int) : SumsOf[w] = BlockSums(SumsOf, w)
  BY <1>6 DEF BlockSums
<1> QED
  BY <1>7

LEMMA SumsOfAreSums ==
  ASSUME NEW w \in Seq(Int)
  PROVE  IsSums(SumsOf[w])
<1> DEFINE T == {k \in Nat : \E v \in Seq(Int) : Len(v) = k /\ ~IsSums(SumsOf[v])}
<1> SUFFICES ASSUME T # {} PROVE FALSE
  <2>1. Len(w) \in Nat
    OBVIOUS
  <2> QED
    BY <2>1
<1>1. PICK k \in T : \A j \in T : k <= j
  <2> HIDE DEF T
  <2> SUFFICES T \in SUBSET Nat
    BY SetsHaveALeast
  <2> QED
    BY DEF T
<1>2. PICK v \in Seq(Int) : Len(v) = k /\ ~IsSums(SumsOf[v])
  BY <1>1
<1>3. SumsOf[v] = BlockSums(SumsOf, v)
  BY SumsOfIs
<1>4. v # <<>>
  BY <1>2, <1>3, NoSumsAreSums DEF BlockSums
<1> DEFINE u == SubSeq(v, 1, Len(v) - 1)
<1>5. u \in Seq(Int) /\ Len(u) = k - 1 /\ k \in Nat \ {0} /\ v[Len(v)] \in Int
  BY <1>2, <1>4, TheLastIsOne
<1>6. IsSums(SumsOf[u])
  <2> HIDE DEF u
  <2> SUFFICES ASSUME ~IsSums(SumsOf[u]) PROVE FALSE
    OBVIOUS
  <2>1. k - 1 \in T
    BY <1>5
  <2> QED
    BY <1>1, <1>5, <2>1
<1>7. IsSums(OneMore(SumsOf[u], v[Len(v)]))
  <2> HIDE DEF u
  <2> QED
    BY <1>5, <1>6, OneMoreIsSums
<1> QED
  BY <1>2, <1>3, <1>4, <1>7 DEF BlockSums

\* The last sample of two blocks joined is the second's.
LEMMA JoinedBlocks ==
  ASSUME NEW a \in Seq(Int), NEW b \in Seq(Int), b # <<>>
  PROVE  LET c == SubSeq(b, 1, Len(b) - 1)
         IN /\ a \o b \in Seq(Int) /\ a \o b # <<>> /\ (a \o b)[Len(a \o b)] = b[Len(b)]
            /\ SubSeq(a \o b, 1, Len(a \o b) - 1) = a \o c
<1> DEFINE c == SubSeq(b, 1, Len(b) - 1)
<1> DEFINE j == a \o b
<1> DEFINE d == SubSeq(j, 1, Len(j) - 1)
<1> DEFINE e == a \o c
<1>1. /\ c \in Seq(Int) /\ Len(c) = Len(b) - 1 /\ Len(b) \in Nat \ {0} /\ Len(a) \in Nat
      /\ \A i \in 1..(Len(b) - 1) : c[i] = b[i]
  BY TheLastIsOne
<1>2. /\ j \in Seq(Int) /\ Len(j) = Len(a) + Len(b)
      /\ \A i \in 1..(Len(a) + Len(b)) : j[i] = IF i <= Len(a) THEN a[i] ELSE b[i - Len(a)]
  BY ConcatProperties
<1> HIDE DEF j
<1>3. j # <<>> /\ j[Len(j)] = b[Len(b)]
  <2>1. Len(j) # 0
    BY <1>1, <1>2
  <2>2. j # <<>>
    BY <2>1
  <2>3. j[Len(j)] = b[Len(j) - Len(a)]
    <3>1. Len(j) \in 1..(Len(a) + Len(b)) /\ ~(Len(j) <= Len(a))
      BY <1>1, <1>2
    <3> QED
      BY <1>2, <3>1
  <2> QED
    BY <1>1, <1>2, <2>2, <2>3
<1>4. /\ d \in Seq(Int) /\ Len(d) = Len(j) - 1 /\ \A i \in 1..(Len(j) - 1) : d[i] = j[i]
  BY <1>2, <1>3, TheLastIsOne
<1> HIDE DEF c, d
<1>5. /\ e \in Seq(Int) /\ Len(e) = Len(a) + Len(c)
      /\ \A i \in 1..(Len(a) + Len(c)) : e[i] = IF i <= Len(a) THEN a[i] ELSE c[i - Len(a)]
  BY <1>1, ConcatProperties
<1> HIDE DEF e
<1>6. Len(d) = Len(e)
  BY <1>1, <1>2, <1>4, <1>5
<1>7. ASSUME NEW i \in 1..Len(d) PROVE d[i] = e[i]
  <2>1. d[i] = j[i] /\ i \in 1..(Len(a) + Len(b)) /\ i \in 1..(Len(a) + Len(c))
    <3>1. Len(d) = Len(a) + Len(b) - 1 /\ Len(c) = Len(b) - 1 /\ Len(j) - 1 = Len(d) /\ Len(d) \in Nat
      BY <1>1, <1>2, <1>4
    <3>2. d[i] = j[i]
      BY <1>4, <3>1
    <3>3. Len(a) + Len(c) = Len(d) /\ Len(a) + Len(b) = Len(d) + 1
      BY <1>1, <3>1
    <3> QED
      BY <3>1, <3>2, <3>3
  <2>2. CASE i <= Len(a)
    BY <1>2, <1>5, <2>1, <2>2
  <2>3. CASE ~(i <= Len(a))
    <3>1. i - Len(a) \in 1..(Len(b) - 1)
      BY <1>1, <2>1, <2>3
    <3>2. c[i - Len(a)] = b[i - Len(a)]
      BY <1>1, <3>1
    <3> QED
      BY <1>2, <1>5, <2>1, <2>3, <3>2
  <2> QED
    BY <2>2, <2>3
<1>8. d = e
  BY <1>4, <1>5, <1>6, <1>7, SeqEqual
<1> QED
  BY <1>2, <1>3, <1>8 DEF c, d, e, j

\* A block cut in two adds up to the two joined.
LEMMA BlocksJoin ==
  ASSUME NEW x \in Seq(Int), NEW y \in Seq(Int)
  PROVE  SumsOf[x \o y] = JoinSums(SumsOf[x], SumsOf[y])
<1> DEFINE Joins(a, b) == SumsOf[a \o b] = JoinSums(SumsOf[a], SumsOf[b])
<1> DEFINE T == {k \in Nat : \E a, b \in Seq(Int) : Len(b) = k /\ ~Joins(a, b)}
<1> SUFFICES ASSUME T # {} PROVE FALSE
  <2>1. Len(y) \in Nat
    OBVIOUS
  <2> QED
    BY <2>1
<1>1. PICK k \in T : \A j \in T : k <= j
  <2> HIDE DEF T
  <2> SUFFICES T \in SUBSET Nat
    BY SetsHaveALeast
  <2> QED
    BY DEF T
<1>2. PICK a \in Seq(Int), b \in Seq(Int) : Len(b) = k /\ ~Joins(a, b)
  BY <1>1
<1>3. b # <<>>
  <2> SUFFICES ASSUME b = <<>> PROVE FALSE
    OBVIOUS
  <2>1. a \o b = a
    BY ConcatEmptySeq
  <2>2. b \in Seq(Int) /\ SumsOf[b] = NoSums
    BY SumsOfIs DEF BlockSums
  <2>3. JoinSums(SumsOf[a], NoSums) = SumsOf[a]
    BY SumsOfAreSums, JoiningNothing
  <2> QED
    BY <1>2, <2>1, <2>2, <2>3
<1> DEFINE c == SubSeq(b, 1, Len(b) - 1)
<1> DEFINE v == b[Len(b)]
<1>4. c \in Seq(Int) /\ Len(c) = k - 1 /\ k \in Nat \ {0} /\ v \in Int
  BY <1>2, <1>3, TheLastIsOne
<1>5. Joins(a, c)
  <2> HIDE DEF c
  <2> SUFFICES ASSUME ~Joins(a, c) PROVE FALSE
    OBVIOUS
  <2>1. k - 1 \in T
    BY <1>4
  <2> QED
    BY <1>1, <1>4, <2>1
<1>6. SumsOf[b] = OneMore(SumsOf[c], v)
  BY <1>3, SumsOfIs DEF BlockSums
<1>7. SumsOf[a \o b] = OneMore(SumsOf[a \o c], v)
  <2>1. /\ a \o b \in Seq(Int) /\ a \o b # <<>> /\ (a \o b)[Len(a \o b)] = v
        /\ SubSeq(a \o b, 1, Len(a \o b) - 1) = a \o c
    BY <1>3, JoinedBlocks
  <2> HIDE DEF c, v
  <2> QED
    BY <2>1, SumsOfIs DEF BlockSums
<1>8. OneMore(JoinSums(SumsOf[a], SumsOf[c]), v) = JoinSums(SumsOf[a], OneMore(SumsOf[c], v))
  <2> HIDE DEF c, v
  <2>1. IsSums(SumsOf[a]) /\ IsSums(SumsOf[c])
    BY <1>4, SumsOfAreSums
  <2> QED
    BY <1>4, <2>1, JoiningOneMore
<1> HIDE DEF c, v
<1> QED
  BY <1>2, <1>5, <1>6, <1>7, <1>8

LEMMA SumsHold == SumsSpec => [](heard \in Seq(Int) /\ sums = SumsOf[heard])
<1> DEFINE I == heard \in Seq(Int) /\ sums = SumsOf[heard]
<1>1. SumsInit => I
  <2>1. <<>> \in Seq(Int)
    OBVIOUS
  <2>2. SumsOf[<<>>] = NoSums
    BY <2>1, SumsOfIs DEF BlockSums
  <2> QED
    BY <2>1, <2>2 DEF SumsInit
<1>2. I /\ [Adds]_sumVars => I'
  <2> SUFFICES ASSUME I, [Adds]_sumVars PROVE I'
    OBVIOUS
  <2>1. CASE UNCHANGED sumVars
    BY <2>1 DEF sumVars
  <2>2. CASE Adds
    <3>k. PICK k \in 0..(MaxHeard - Len(heard)) : \E pcm \in [1..k -> Samples] :
            sums' = JoinSums(sums, SumsOf[pcm]) /\ heard' = heard \o pcm
      BY <2>2 DEF Adds
    <3>1. PICK pcm \in [1..k -> Samples] : sums' = JoinSums(sums, SumsOf[pcm]) /\ heard' = heard \o pcm
      BY <3>k
    <3>2. pcm \in Seq(Int)
      <4>1. k \in Nat
        <5>1. MaxHeard \in Nat /\ Len(heard) \in Nat
          BY DetectorsAssumption
        <5> QED
          BY <5>1
      <4>2. pcm \in [1..k -> Int]
        <5>1. Samples \subseteq Int
          BY DetectorsAssumption
        <5> QED
          BY ONLY <5>1, pcm \in [1..k -> Samples]
      <4> QED
        BY ONLY <4>1, <4>2, SeqDef
    <3>3. heard' \in Seq(Int)
      BY <3>1, <3>2, ConcatProperties
    <3> QED
      BY <3>1, <3>2, <3>3, BlocksJoin
  <2> QED
    BY <2>1, <2>2
<1> QED
  BY <1>1, <1>2, PTL DEF SumsSpec

\* A change of light is no motion and stillness ends it, a noise that does not
\* end is no event and only a voice is one, and the blocks a sound is cut into
\* do not matter (internal/detect).
THEOREM TheDetectorsAreRight ==
  MotionSpec /\ SoundSpec /\ SumsSpec => []DetectorsSafety
<1> DEFINE SumsInv == heard \in Seq(Int) /\ sums = SumsOf[heard]
<1>1. MotionInv /\ SoundInv /\ SumsInv => DetectorsSafety
  <2> SUFFICES ASSUME MotionInv, SoundInv, SumsInv PROVE DetectorsSafety
    OBVIOUS
  <2>1. ASSUME NEW i \in 1..Pixels PROVE smooth[i] \in 0..MaxUint16 /\ previous[i] \in 0..MaxUint16
    <3>1. White <= MaxUint16 /\ White \in Int /\ MaxUint16 \in Int
      BY DEF White, MaxUint16
    <3>2. smooth[i] \in Int /\ 0 <= smooth[i] /\ smooth[i] <= White /\ previous[i] = smooth[i]
      BY DEF MotionInv
    <3> QED
      BY ONLY <3>1, <3>2
  <2>2. /\ moving \in BOOLEAN /\ swaying \in BOOLEAN /\ loud \in BOOLEAN /\ voiced \in BOOLEAN
        /\ inBand \in BOOLEAN /\ spoke \in BOOLEAN
    BY DEF MotionInv, SoundInv, SoundTypes
  <2>3. /\ stillFor \in NoAge..MotionSettle
        /\ floor \in (FloorMin..FloorMax) \cup Levels \cup {NoFloor} /\ burst \in 0..MaxBurst
        /\ cryFor \in 0..SoundSettle /\ barkFor \in 0..SoundSettle /\ sameFor \in 0..LongSame
    BY DEF MotionInv, SoundInv, SoundTypes
  <2>4. DetectorsTypeOK
    BY <2>1, <2>2, <2>3, Zenon DEF DetectorsTypeOK
  <2>5. LightIsNotMotion
    BY DEF MotionInv, LightIsNotMotion
  <2>6. StillnessIsSeen
    <3> SUFFICES ASSUME stillSteps = LongStill, moving PROVE FALSE
      BY DEF StillnessIsSeen
    <3>1. stillSteps >= 11
      BY MotionConstants
    <3> QED
      BY <3>1, MotionConstants DEF MotionInv
  <2>7. ALastingNoiseIsSilent
    <3> SUFFICES ASSUME sameFor = LongSame PROVE cryFor = 0 /\ barkFor = 0
      BY DEF ALastingNoiseIsSilent
    <3>1. LongSame >= 1 /\ SaidAtMost(LongSame) = 0
      BY SoundConstants DEF SaidAtMost
    <3>2. cryFor <= 0 /\ barkFor <= 0
      BY <3>1 DEF SoundInv
    <3> QED
      BY <2>3, <3>2, SoundConstants
  <2>8. OnlyAVoiceIsReported
    BY <2>3, SoundConstants DEF SoundInv, OnlyAVoiceIsReported
  <2>9. BlocksDoNotMatter
    BY DEF BlocksDoNotMatter
  <2> QED
    BY <2>4, <2>5, <2>6, <2>7, <2>8, <2>9 DEF DetectorsSafety
<1> QED
  BY <1>1, MotionHolds, SoundHolds, SumsHold, PTL
=============================================================================
