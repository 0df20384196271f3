--------------------------- MODULE WatchingProofs ---------------------------
(***************************************************************************)
(* Proofs about Talkback, for any viewers, any supply of outputs and any   *)
(* durations that satisfy TalkbackAssumption, and about Viewers, for any   *)
(* number of sessions and any bound.                                       *)
(*                                                                         *)
(* The counters of Viewers are compared with the cardinality of sets of    *)
(* sessions, so each step is shown to leave the set alone or to change it  *)
(* by one element; which one follows from Placed, which ties where a       *)
(* session's handler is to what it holds and to how far its Close has got. *)
(***************************************************************************)
EXTENDS TalkbackHistory, Viewers, FiniteSetTheorems, TLAPS

\* The helpers on ages stay within the naturals.
LEMMA AgesAreNatural ==
  ASSUME NEW a \in Nat, NEW b \in Nat
  PROVE  /\ Older(a, b) \in Nat /\ Sooner(a) \in Nat
         /\ AtMost(a, b) \in Nat /\ Left(a, b) \in Nat
  BY DEF Older, Sooner, AtMost, Left

\* A function changed at one place keeps its type.
LEMMA ExceptType ==
  ASSUME NEW S, NEW T, NEW f \in [S -> T], NEW x \in S, NEW y \in T
  PROVE  [f EXCEPT ![x] = y] \in [S -> T]
  OBVIOUS

LEMMA ConstantsAreNatural ==
  Idle \in Nat /\ TalkMax \in Nat /\ Cooldown \in Nat /\ Retry \in Nat /\ AskedCap \in Nat
  BY TalkbackAssumption DEF AskedCap

-----------------------------------------------------------------------------

\* Every action keeps the types.
LEMMA TypeStep == TypeOK /\ [Next]_vars => TypeOK'
<1> SUFFICES ASSUME TypeOK, [Next]_vars PROVE TypeOK'
  OBVIOUS
<1> USE ConstantsAreNatural, AgesAreNatural
<1>1. CASE UNCHANGED vars
  BY <1>1 DEF TypeOK, vars, shared, ages, receiver, expiry
<1>2. CASE Tick
  <2>1. /\ pktAge' \in Nat /\ stretchAge' \in Nat /\ endAge' \in Nat
        /\ spentAge' \in Nat /\ quiet' \in Nat /\ retry' \in Nat
    BY <1>2 DEF TypeOK, Tick, Older, Sooner
  <2>2. asked' \in [Viewers -> Nat]
    <3>1. ASSUME NEW v \in Viewers PROVE Older(asked[v], AskedCap) \in Nat
      BY DEF TypeOK
    <3> QED
      BY <1>2, <3>1 DEF TypeOK, Tick
  <2> QED
    BY <1>2, <2>1, <2>2 DEF TypeOK, Tick, shared
<1>3. ASSUME NEW v \in Viewers, Receive(v) PROVE TypeOK'
  <2>1. CASE TrackOpens(v)
    BY <2>1 DEF TypeOK, TrackOpens, shared, ages, expiry
  <2>2. CASE PacketOfTheSpeaker(v)
    BY <2>2 DEF TypeOK, PacketOfTheSpeaker, shared, expiry
  <2>3. CASE PacketOfTheSpent(v)
    BY <2>3 DEF TypeOK, PacketOfTheSpent, shared, receiver, expiry
  <2>4. CASE PacketRefused(v)
    <3>1. spent' \in Viewers \cup {Nobody} /\ spentAge' \in Nat
      <4>1. CASE spent = v
        BY <2>4, <4>1 DEF PacketRefused, ForgiveSpent
      <4>2. CASE spent # v
        BY <2>4, <4>2 DEF TypeOK, PacketRefused, ForgiveSpent
      <4> QED
        BY <4>1, <4>2
    <3> QED
      BY <2>4, <3>1 DEF TypeOK, PacketRefused, receiver, expiry
  <2>5. CASE PacketAsksForTheFloor(v)
    <3>1. spent' \in Viewers \cup {Nobody} /\ spentAge' \in Nat
      <4>1. CASE spent = v
        BY <2>5, <4>1 DEF PacketAsksForTheFloor, ForgiveSpent
      <4>2. CASE spent # v
        BY <2>5, <4>2 DEF TypeOK, PacketAsksForTheFloor, ForgiveSpent
      <4> QED
        BY <4>1, <4>2
    <3> QED
      <4>1. (endAge >= Cooldown) \in BOOLEAN
        OBVIOUS
      <4>2. fresh' \in [Viewers -> BOOLEAN]
        BY <2>5, <4>1, Zenon DEF TypeOK, PacketAsksForTheFloor
      <4> QED
        BY <2>5, <3>1, <4>2 DEF TypeOK, PacketAsksForTheFloor, expiry
  <2>6. ASSUME NEW o \in Outputs, OutputOpens(v, o) PROVE TypeOK'
    BY <2>6 DEF TypeOK, OutputOpens, StretchAgeAtGrant, expiry
  <2>7. CASE OutputRefuses(v)
    BY <2>7 DEF TypeOK, OutputRefuses, expiry
  <2>8. CASE OutputPanics(v)
    BY <2>8 DEF TypeOK, OutputPanics, shared, ages, expiry
  <2>9. CASE PacketPlayed(v)
    BY <2>9 DEF TypeOK, PacketPlayed, shared, ages, expiry
  <2>10. CASE TrackCloses(v)
    <3>1. /\ speaker' \in Viewers \cup {Nobody} /\ player' \in Outputs \cup {NoOutput} /\ endAge' \in Nat
          /\ \E o \in Outputs \cup {NoOutput} : rout' = [rout EXCEPT ![v] = o]
          /\ \E where \in {"closing", "gone"} : rpc' = [rpc EXCEPT ![v] = where]
      BY <2>10 DEF TypeOK, TrackCloses, TakeTheFloorAway
    <3>2. UNCHANGED <<opening, spent, pktAge, stretchAge, spentAge, quiet, retry, out, asked, fresh, expiry>>
      BY <2>10 DEF TrackCloses
    <3>3. rout' \in [Viewers -> Outputs \cup {NoOutput}]
      BY <3>1, ExceptType DEF TypeOK
    <3>4. rpc' \in [Viewers -> {"gone", "reading", "opening", "writing", "closing"}]
      BY <3>1, ExceptType DEF TypeOK
    <3> QED
      BY ONLY TypeOK, <3>1, <3>2, <3>3, <3>4 DEF TypeOK, expiry
  <2>11. CASE ReceiverClosesOutput(v)
    BY <2>11 DEF TypeOK, ReceiverClosesOutput, shared, ages, expiry
  <2> QED
    BY <1>3, <2>1, <2>2, <2>3, <2>4, <2>5, <2>6, <2>7, <2>8, <2>9, <2>10, <2>11
       DEF Receive
<1>4. ASSUME NEW v \in Viewers, Expire(v) PROVE TypeOK'
  <2>1. CASE ExpiryLooks(v)
    <3>1. \/ epc' = [epc EXCEPT ![v] = "idle"] /\ etarget' = [etarget EXCEPT ![v] = Nobody]
          \/ /\ speaker \in Viewers
             /\ etarget' = [etarget EXCEPT ![v] = speaker]
             /\ \E where \in {"release", "limit"} : epc' = [epc EXCEPT ![v] = where]
      BY <2>1 DEF TypeOK, ExpiryLooks, Verdict
    <3>2. /\ epc' \in [Viewers -> {"idle", "limit", "release", "closing"}]
          /\ etarget' \in [Viewers -> Viewers \cup {Nobody}]
          /\ \A y \in Viewers : epc'[y] \in {"limit", "release"} => etarget'[y] \in Viewers
      <4>1. epc' \in [Viewers -> {"idle", "limit", "release", "closing"}]
        BY ONLY TypeOK, <3>1 DEF TypeOK
      <4>2. etarget' \in [Viewers -> Viewers \cup {Nobody}]
        BY ONLY TypeOK, <3>1 DEF TypeOK
      <4>3. ASSUME NEW y \in Viewers, epc'[y] \in {"limit", "release"} PROVE etarget'[y] \in Viewers
        BY ONLY TypeOK, <3>1, <4>3 DEF TypeOK
      <4> QED
        BY ONLY <4>1, <4>2, <4>3
    <3>3. /\ UNCHANGED <<shared, ages, out, receiver, eout>>
          /\ looked' \in SUBSET Viewers
      BY <2>1 DEF TypeOK, ExpiryLooks
    <3>4. UNCHANGED <<speaker, player, opening, spent, pktAge, stretchAge, endAge, spentAge, quiet, retry,
                      out, rpc, rout, asked, fresh, eout>>
      BY ONLY <3>3 DEF shared, ages, receiver
    <3> QED
      BY ONLY TypeOK, <3>2, <3>3, <3>4 DEF TypeOK
  <2>2. CASE ExpiryMarksSpent(v)
    BY <2>2 DEF TypeOK, ExpiryMarksSpent, receiver
  <2>3. CASE ExpiryReleases(v)
    <3>1. /\ speaker' \in Viewers \cup {Nobody} /\ player' \in Outputs \cup {NoOutput}
          /\ endAge' \in Nat /\ eout' \in [Viewers -> Outputs \cup {NoOutput}]
      <4>1. CASE speaker = etarget[v]
        BY <2>3, <4>1 DEF TypeOK, ExpiryReleases, TakeTheFloorAway
      <4>2. CASE speaker # etarget[v]
        BY <2>3, <4>2 DEF TypeOK, ExpiryReleases
      <4> QED
        BY <4>1, <4>2
    <3>2. /\ etarget' = [etarget EXCEPT ![v] = Nobody]
          /\ \E where \in {"closing", "idle"} : epc' = [epc EXCEPT ![v] = where]
          /\ UNCHANGED <<opening, spent, pktAge, stretchAge, spentAge, quiet, retry,
                         out, receiver, looked>>
      BY <2>3 DEF ExpiryReleases
    <3>3. /\ epc' \in [Viewers -> {"idle", "limit", "release", "closing"}]
          /\ etarget' \in [Viewers -> Viewers \cup {Nobody}]
          /\ \A y \in Viewers : epc'[y] \in {"limit", "release"} => etarget'[y] \in Viewers
      <4>1. epc' \in [Viewers -> {"idle", "limit", "release", "closing"}]
        BY ONLY TypeOK, <3>2 DEF TypeOK
      <4>2. etarget' \in [Viewers -> Viewers \cup {Nobody}]
        BY ONLY TypeOK, <3>2 DEF TypeOK
      <4>3. ASSUME NEW y \in Viewers, epc'[y] \in {"limit", "release"} PROVE etarget'[y] \in Viewers
        BY ONLY TypeOK, <3>2, <4>3 DEF TypeOK
      <4> QED
        BY ONLY <4>1, <4>2, <4>3
    <3>4. UNCHANGED <<opening, spent, pktAge, stretchAge, spentAge, quiet, retry, out,
                      rpc, rout, asked, fresh, looked>>
      BY ONLY <3>2 DEF receiver
    <3> QED
      BY ONLY TypeOK, <3>1, <3>3, <3>4 DEF TypeOK
  <2>4. CASE ExpiryClosesOutput(v)
    BY <2>4 DEF TypeOK, ExpiryClosesOutput, shared, ages, receiver
  <2> QED
    BY <1>4, <2>1, <2>2, <2>3, <2>4 DEF Expire
<1> QED
  BY <1>1, <1>2, <1>3, <1>4 DEF Next

\* Every variable has its type, in every behaviour.
THEOREM TypeCorrect == Spec => []TypeOK
<1>1. Init => TypeOK
  <2> SUFFICES ASSUME Init PROVE TypeOK
    OBVIOUS
  <2>1. /\ pktAge \in Nat /\ stretchAge \in Nat /\ endAge \in Nat
        /\ spentAge \in Nat /\ quiet \in Nat /\ retry \in Nat
        /\ asked \in [Viewers -> Nat]
    BY ConstantsAreNatural DEF Init
  <2>2. /\ fresh \in [Viewers -> BOOLEAN] /\ opening \in BOOLEAN
        /\ out \in [Outputs -> {"open", "closed"}]
    BY Zenon DEF Init
  <2> QED
    BY <2>1, <2>2 DEF Init, TypeOK
<1> QED
  BY <1>1, TypeStep, PTL DEF Spec

-----------------------------------------------------------------------------

\* The device is asked for by one packet at a time.  The step holds because the
\* check beside `opening` and its setting are one lock section: an opener finds
\* nobody opening, and nobody can hold the floor before it is done.
LEMMA OneAskerStep == TypeOK /\ OneAsker /\ [Next]_vars => OneAsker'
<1> SUFFICES ASSUME TypeOK, OneAsker, [Next]_vars PROVE OneAsker'
  OBVIOUS
<1> USE DEF OneAsker, Openers, TypeOK
<1>1. CASE UNCHANGED vars
  BY <1>1 DEF vars, shared, receiver
<1>2. CASE Tick
  BY <1>2 DEF Tick, shared
<1>3. ASSUME NEW v \in Viewers, Receive(v) PROVE OneAsker'
  <2>1. CASE TrackOpens(v)
    BY <2>1 DEF TrackOpens, shared
  <2>2. CASE PacketOfTheSpeaker(v)
    BY <2>2 DEF PacketOfTheSpeaker, shared
  <2>3. CASE PacketOfTheSpent(v)
    BY <2>3 DEF PacketOfTheSpent, shared, receiver
  <2>4. CASE PacketRefused(v)
    BY <2>4 DEF PacketRefused, receiver
  <2>5. CASE PacketAsksForTheFloor(v)
    BY <2>5 DEF PacketAsksForTheFloor, FloorIsFree
  <2>6. ASSUME NEW o \in Outputs, OutputOpens(v, o) PROVE OneAsker'
    BY <2>6 DEF OutputOpens
  <2>7. CASE OutputRefuses(v)
    BY <2>7 DEF OutputRefuses
  <2>8. CASE OutputPanics(v)
    BY <2>8 DEF OutputPanics, shared
  <2>9. CASE PacketPlayed(v)
    BY <2>9 DEF PacketPlayed, shared
  <2>10. CASE TrackCloses(v)
    BY <2>10 DEF TrackCloses, TakeTheFloorAway
  <2>11. CASE ReceiverClosesOutput(v)
    BY <2>11 DEF ReceiverClosesOutput, shared
  <2> QED
    BY <1>3, <2>1, <2>2, <2>3, <2>4, <2>5, <2>6, <2>7, <2>8, <2>9, <2>10, <2>11
       DEF Receive
<1>4. ASSUME NEW v \in Viewers, Expire(v) PROVE OneAsker'
  BY <1>4 DEF Expire, ExpiryLooks, ExpiryMarksSpent, ExpiryReleases,
              ExpiryClosesOutput, TakeTheFloorAway, shared, receiver
<1> QED
  BY <1>1, <1>2, <1>3, <1>4 DEF Next

\* At most one packet at a time asks for the device, never while somebody holds
\* the floor, whatever the opening does (it may refuse, last, or panic).
THEOREM FloorIsExclusive == Spec => []OneAsker
<1>1. Init => OneAsker
  BY DEF Init, OneAsker, Openers
<1> QED
  BY <1>1, OneAskerStep, TypeCorrect, PTL DEF Spec

-----------------------------------------------------------------------------

\* Outputs are accounted for.  Needed beside NoOutputLeaks itself: whoever opens
\* finds no player (OneAsker), and a new output is one nobody names.
LEMMA LeaksStep == TypeOK /\ OneAsker /\ NoOutputLeaks /\ [Next]_vars => NoOutputLeaks'
<1> SUFFICES ASSUME TypeOK, OneAsker, NoOutputLeaks, [Next]_vars PROVE NoOutputLeaks'
  OBVIOUS
<1> USE TalkbackAssumption DEF NoOutputLeaks, HandedToReceiver, HandedToExpiry, TypeOK
<1>1. CASE UNCHANGED vars
  BY <1>1 DEF vars, shared, receiver, expiry
<1>2. CASE Tick
  BY <1>2 DEF Tick, shared
<1>3. ASSUME NEW v \in Viewers, Receive(v) PROVE NoOutputLeaks'
  <2>1. CASE TrackOpens(v)
    BY <2>1 DEF TrackOpens, shared, expiry
  <2>2. CASE PacketOfTheSpeaker(v)
    BY <2>2 DEF PacketOfTheSpeaker, shared, expiry
  <2>3. CASE PacketOfTheSpent(v)
    BY <2>3 DEF PacketOfTheSpent, shared, receiver, expiry
  <2>4. CASE PacketRefused(v)
    BY <2>4 DEF PacketRefused, receiver, expiry
  <2>5. CASE PacketAsksForTheFloor(v)
    BY <2>5 DEF PacketAsksForTheFloor, expiry
  <2>6. ASSUME NEW o \in Outputs, OutputOpens(v, o) PROVE NoOutputLeaks'
    <3>1. speaker = Nobody /\ player = NoOutput
      BY <2>6 DEF OutputOpens, OneAsker, Openers
    <3>2. /\ \A w \in Viewers : rout[w] # o /\ eout[w] # o
          /\ o # NoOutput /\ v # Nobody
      BY <2>6 DEF OutputOpens, Named
    <3> QED
      BY <2>6, <3>1, <3>2 DEF OutputOpens, expiry
  <2>7. CASE OutputRefuses(v)
    BY <2>7 DEF OutputRefuses, expiry
  <2>8. CASE OutputPanics(v)
    BY <2>8 DEF OutputPanics, shared, expiry
  <2>9. CASE PacketPlayed(v)
    BY <2>9 DEF PacketPlayed, shared, expiry
  <2>10. CASE TrackCloses(v)
    <3>1. CASE speaker = v
      <4>1. /\ player \in Outputs /\ player' = NoOutput /\ speaker' = Nobody
            /\ rout' = [rout EXCEPT ![v] = player]
            /\ rpc' = [rpc EXCEPT ![v] = "closing"]
            /\ UNCHANGED <<out, epc, eout>>
        BY <2>10, <3>1 DEF TrackCloses, TakeTheFloorAway, expiry
      <4>2. HandedToReceiver' = HandedToReceiver \cup {v} /\ HandedToExpiry' = HandedToExpiry
        BY <4>1
      <4>3. /\ rout'[v] = player
            /\ \A w \in HandedToReceiver :
                 w # v /\ rout'[w] = rout[w] /\ rout[w] \in Outputs \ {player}
        BY <2>10, <4>1 DEF TrackCloses
      <4>4. \A w \in HandedToExpiry : eout'[w] = eout[w] /\ eout[w] \in Outputs \ {player}
        BY <4>1
      <4>5. \A o \in Outputs : out'[o] = "open" =>
              \/ \E w \in HandedToReceiver' : rout'[w] = o
              \/ \E w \in HandedToExpiry' : eout'[w] = o
        <5> SUFFICES ASSUME NEW o \in Outputs, out[o] = "open", o # player
                     PROVE  \/ \E w \in HandedToReceiver' : rout'[w] = o
                            \/ \E w \in HandedToExpiry' : eout'[w] = o
          BY <4>1, <4>2, <4>3
        <5>1. CASE \E w \in HandedToReceiver : rout[w] = o
          BY <5>1, <4>2, <4>3
        <5>2. CASE \E w \in HandedToExpiry : eout[w] = o
          BY <5>2, <4>2, <4>4
        <5> QED
          BY <5>1, <5>2
      <4>6. /\ \A w, x \in HandedToReceiver' : rout'[w] = rout'[x] => w = x
            /\ \A w, x \in HandedToExpiry' : eout'[w] = eout'[x] => w = x
            /\ \A w \in HandedToReceiver', x \in HandedToExpiry' : rout'[w] # eout'[x]
        BY <4>2, <4>3, <4>4
      <4>7. /\ \A w \in HandedToReceiver' : rout'[w] \in Outputs \ {player'}
            /\ \A w \in HandedToExpiry' : eout'[w] \in Outputs \ {player'}
        BY <4>1, <4>2, <4>3, <4>4
      <4> HIDE DEF HandedToReceiver, HandedToExpiry, TypeOK
      <4> QED
        BY <4>1, <4>5, <4>6, <4>7
    <3>2. CASE speaker # v
      BY <2>10, <3>2 DEF TrackCloses, expiry
    <3> QED
      BY <3>1, <3>2
  <2>11. CASE ReceiverClosesOutput(v)
    BY <2>11 DEF ReceiverClosesOutput, shared, expiry
  <2> QED
    BY <1>3, <2>1, <2>2, <2>3, <2>4, <2>5, <2>6, <2>7, <2>8, <2>9, <2>10, <2>11
       DEF Receive
<1>4. ASSUME NEW v \in Viewers, Expire(v) PROVE NoOutputLeaks'
  <2>1. CASE ExpiryLooks(v)
    BY <2>1 DEF ExpiryLooks, Verdict, shared, receiver
  <2>2. CASE ExpiryMarksSpent(v)
    BY <2>2 DEF ExpiryMarksSpent, receiver
  <2>3. CASE ExpiryReleases(v)
    <3>1. CASE speaker = etarget[v] /\ speaker # Nobody
      <4>1. /\ player \in Outputs /\ player' = NoOutput /\ speaker' = Nobody
            /\ eout' = [eout EXCEPT ![v] = player]
            /\ epc' = [epc EXCEPT ![v] = "closing"]
            /\ UNCHANGED <<out, rpc, rout>>
        BY <2>3, <3>1 DEF ExpiryReleases, TakeTheFloorAway, receiver
      <4>2. HandedToExpiry' = HandedToExpiry \cup {v} /\ HandedToReceiver' = HandedToReceiver
        BY <4>1
      <4>3. /\ eout'[v] = player
            /\ \A w \in HandedToExpiry :
                 w # v /\ eout'[w] = eout[w] /\ eout[w] \in Outputs \ {player}
        BY <2>3, <4>1 DEF ExpiryReleases
      <4>4. \A w \in HandedToReceiver : rout'[w] = rout[w] /\ rout[w] \in Outputs \ {player}
        BY <4>1
      <4>5. \A o \in Outputs : out'[o] = "open" =>
              \/ \E w \in HandedToReceiver' : rout'[w] = o
              \/ \E w \in HandedToExpiry' : eout'[w] = o
        <5> SUFFICES ASSUME NEW o \in Outputs, out[o] = "open", o # player
                     PROVE  \/ \E w \in HandedToReceiver' : rout'[w] = o
                            \/ \E w \in HandedToExpiry' : eout'[w] = o
          BY <4>1, <4>2, <4>3
        <5>1. CASE \E w \in HandedToReceiver : rout[w] = o
          BY <5>1, <4>2, <4>4
        <5>2. CASE \E w \in HandedToExpiry : eout[w] = o
          BY <5>2, <4>2, <4>3
        <5> QED
          BY <5>1, <5>2
      <4>6. /\ \A w, x \in HandedToReceiver' : rout'[w] = rout'[x] => w = x
            /\ \A w, x \in HandedToExpiry' : eout'[w] = eout'[x] => w = x
            /\ \A w \in HandedToReceiver', x \in HandedToExpiry' : rout'[w] # eout'[x]
        BY <4>2, <4>3, <4>4
      <4>7. /\ \A w \in HandedToReceiver' : rout'[w] \in Outputs \ {player'}
            /\ \A w \in HandedToExpiry' : eout'[w] \in Outputs \ {player'}
        BY <4>1, <4>2, <4>3, <4>4
      <4> HIDE DEF HandedToReceiver, HandedToExpiry, TypeOK
      <4> QED
        BY <4>1, <4>5, <4>6, <4>7
    <3>2. CASE speaker # etarget[v]
      BY <2>3, <3>2 DEF ExpiryReleases, receiver
    <3>3. etarget[v] # Nobody
      BY <2>3, TalkbackAssumption DEF ExpiryReleases
    <3> QED
      BY <3>1, <3>2, <3>3
  <2>4. CASE ExpiryClosesOutput(v)
    BY <2>4 DEF ExpiryClosesOutput, shared, receiver
  <2> QED
    BY <1>4, <2>1, <2>2, <2>3, <2>4 DEF Expire
<1> QED
  BY <1>1, <1>2, <1>3, <1>4 DEF Next

\* Whatever output is open belongs to the speaker or is in the hands of exactly
\* one goroutine about to close it, and the speaker's is never being closed.
THEOREM OutputsAreAccountedFor == Spec => []NoOutputLeaks
<1>1. Init => NoOutputLeaks
  BY DEF Init, NoOutputLeaks, HandedToReceiver, HandedToExpiry
<1> QED
  BY <1>1, LeaksStep, TypeCorrect, FloorIsExclusive, PTL DEF Spec

-----------------------------------------------------------------------------

\* Two voices never reach the room together.  The argument is on the output a
\* writer carries: it is the floor's, or its closing has begun or is over, and a
\* closed output is not opened again while somebody carries it.
LEMMA OneVoiceStep ==
  TypeOK /\ OneAsker /\ NoOutputLeaks /\ OneVoice /\ [Next]_vars => OneVoice'
<1> SUFFICES ASSUME TypeOK, OneAsker, NoOutputLeaks, OneVoice, [Next]_vars
             PROVE  OneVoice'
  OBVIOUS
<1> USE TalkbackAssumption DEF OneVoice, HandedToExpiry, TypeOK
<1>1. CASE UNCHANGED vars
  BY <1>1 DEF vars, shared, receiver, expiry
<1>2. CASE Tick
  BY <1>2 DEF Tick, shared
<1>3. ASSUME NEW v \in Viewers, Receive(v) PROVE OneVoice'
  <2>1. CASE TrackOpens(v)
    BY <2>1 DEF TrackOpens, shared, expiry
  <2>2. CASE PacketOfTheSpeaker(v)
    BY <2>2 DEF PacketOfTheSpeaker, NoOutputLeaks, shared, expiry
  <2>3. CASE PacketOfTheSpent(v)
    BY <2>3 DEF PacketOfTheSpent, shared, receiver, expiry
  <2>4. CASE PacketRefused(v)
    BY <2>4 DEF PacketRefused, receiver, expiry
  <2>5. CASE PacketAsksForTheFloor(v)
    BY <2>5 DEF PacketAsksForTheFloor, expiry
  <2>6. ASSUME NEW o \in Outputs, OutputOpens(v, o) PROVE OneVoice'
    <3>1. speaker = Nobody
      BY <2>6 DEF OutputOpens, OneAsker, Openers
    <3>2. \A w \in Viewers : rout[w] # o
      BY <2>6 DEF OutputOpens, Named
    <3> QED
      BY <2>6, <3>1, <3>2 DEF OutputOpens, expiry
  <2>7. CASE OutputRefuses(v)
    BY <2>7 DEF OutputRefuses, expiry
  <2>8. CASE OutputPanics(v)
    BY <2>8 DEF OutputPanics, shared, expiry
  <2>9. CASE PacketPlayed(v)
    BY <2>9 DEF PacketPlayed, shared, expiry
  <2>10. CASE TrackCloses(v)
    BY <2>10 DEF TrackCloses, TakeTheFloorAway, expiry
  <2>11. CASE ReceiverClosesOutput(v)
    BY <2>11 DEF ReceiverClosesOutput, shared, expiry
  <2> QED
    BY <1>3, <2>1, <2>2, <2>3, <2>4, <2>5, <2>6, <2>7, <2>8, <2>9, <2>10, <2>11
       DEF Receive
<1>4. ASSUME NEW v \in Viewers, Expire(v) PROVE OneVoice'
  <2>1. CASE ExpiryLooks(v)
    BY <2>1 DEF ExpiryLooks, Verdict, shared, receiver
  <2>2. CASE ExpiryMarksSpent(v)
    BY <2>2 DEF ExpiryMarksSpent, receiver
  <2>3. CASE ExpiryReleases(v)
    <3>1. CASE speaker = etarget[v]
      <4>1. /\ eout' = [eout EXCEPT ![v] = player] /\ epc' = [epc EXCEPT ![v] = "closing"]
            /\ UNCHANGED <<out, rpc, rout>>
        BY <2>3, <3>1 DEF ExpiryReleases, TakeTheFloorAway, receiver
      <4>2. v \in HandedToExpiry' /\ eout'[v] = player
        BY <4>1
      <4>3. \A w \in HandedToExpiry : w \in HandedToExpiry' /\ eout'[w] = eout[w]
        BY <2>3, <4>1 DEF ExpiryReleases
      <4> QED
        BY <4>1, <4>2, <4>3
    <3>2. CASE speaker # etarget[v]
      BY <2>3, <3>2 DEF ExpiryReleases, receiver
    <3> QED
      BY <3>1, <3>2
  <2>4. CASE ExpiryClosesOutput(v)
    BY <2>4 DEF ExpiryClosesOutput, shared, receiver
  <2> QED
    BY <1>4, <2>1, <2>2, <2>3, <2>4 DEF Expire
<1> QED
  BY <1>1, <1>2, <1>3, <1>4 DEF Next

\* A packet never reaches the room beside another viewer's turn.
THEOREM VoicesDoNotOverlap == Spec => []OneVoice
<1>1. Init => OneVoice
  BY DEF Init, OneVoice
<1> QED
  BY <1>1, OneVoiceStep, TypeCorrect, FloorIsExclusive, OutputsAreAccountedFor, PTL
     DEF Spec

-----------------------------------------------------------------------------
\* Refinement of the abstract floor.
\* With one opener at most, Asker names it.
LEMMA AskerIsTheOpener ==
  ASSUME OneAsker
  PROVE  /\ \A v \in Openers : Asker = v
         /\ Openers = {} => Asker = Nobody
  BY DEF OneAsker, Asker, Openers

\* A step that moves neither speaker nor openers is a stutter of the floor.
LEMMA SameOpenersSameAsker ==
  ASSUME Openers' = Openers
  PROVE  Asker' = Asker
  BY DEF Asker

LEMMA FloorStep ==
  TypeOK /\ OneAsker /\ OneAsker' /\ [Next]_vars
    => [AbstractFloor!Next]_<<speaker, Asker>>
<1> SUFFICES ASSUME TypeOK, OneAsker, OneAsker', [Next]_vars
             PROVE  [AbstractFloor!Next]_<<speaker, Asker>>
  OBVIOUS
<1> DEFINE Stutters == speaker' = speaker /\ Openers' = Openers
<1>1. Stutters => [AbstractFloor!Next]_<<speaker, Asker>>
  BY SameOpenersSameAsker
<1>2. Openers' = {} => Asker' = Nobody
  BY DEF OneAsker, Asker, Openers
<1>3. ASSUME NEW v \in Openers PROVE Asker = v /\ v # Nobody /\ Openers = {v}
  BY AskerIsTheOpener, TalkbackAssumption DEF Openers, OneAsker
<1>4. CASE UNCHANGED vars
  BY <1>1, <1>4 DEF vars, shared, receiver, Openers
<1>5. CASE Tick
  BY <1>1, <1>5 DEF Tick, shared, Openers
<1>6. ASSUME NEW v \in Viewers, Receive(v)
      PROVE  [AbstractFloor!Next]_<<speaker, Asker>>
  <2>1. CASE TrackOpens(v)
    BY <1>1, <2>1 DEF TrackOpens, shared, Openers, TypeOK
  <2>2. CASE PacketOfTheSpeaker(v)
    BY <1>1, <2>2 DEF PacketOfTheSpeaker, shared, Openers, TypeOK
  <2>3. CASE PacketOfTheSpent(v)
    BY <1>1, <2>3 DEF PacketOfTheSpent, shared, receiver, Openers
  <2>4. CASE PacketRefused(v)
    BY <1>1, <2>4 DEF PacketRefused, receiver, Openers
  <2>5. CASE PacketAsksForTheFloor(v)
    <3>1. Openers = {} /\ Asker = Nobody
      BY <2>5, AskerIsTheOpener DEF PacketAsksForTheFloor, FloorIsFree, OneAsker
    <3>2. Openers' = {v}
      BY <2>5, <3>1 DEF PacketAsksForTheFloor, Openers, TypeOK
    <3>3. Asker' = v
      BY <3>2 DEF Asker, Openers
    <3>4. AbstractFloor!Ask(v)
      BY <2>5, <3>1, <3>3 DEF PacketAsksForTheFloor, FloorIsFree, AbstractFloor!Ask
    <3> QED
      BY <3>4 DEF AbstractFloor!Next
  <2>6. ASSUME NEW o \in Outputs, OutputOpens(v, o)
        PROVE  [AbstractFloor!Next]_<<speaker, Asker>>
    <3>1. v \in Openers
      BY <2>6 DEF OutputOpens, Openers
    <3>2. Openers' = {}
      BY <1>3, <2>6, <3>1 DEF OutputOpens, Openers, TypeOK
    <3>3. AbstractFloor!Grant(v)
      BY <1>2, <1>3, <2>6, <3>1, <3>2 DEF OutputOpens, AbstractFloor!Grant
    <3> QED
      BY <3>3 DEF AbstractFloor!Next
  <2>7. CASE OutputRefuses(v) \/ OutputPanics(v)
    <3>1. v \in Openers /\ speaker' = speaker
      BY <2>7 DEF OutputRefuses, OutputPanics, Openers, shared
    <3>2. Openers' = {}
      BY <1>3, <2>7, <3>1 DEF OutputRefuses, OutputPanics, Openers, TypeOK
    <3>3. AbstractFloor!Refuse
      BY <1>2, <1>3, <3>1, <3>2 DEF AbstractFloor!Refuse
    <3> QED
      BY <3>3 DEF AbstractFloor!Next
  <2>8. CASE PacketPlayed(v)
    BY <1>1, <2>8 DEF PacketPlayed, shared, Openers, TypeOK
  <2>9. CASE TrackCloses(v)
    <3>1. Openers' = Openers
      BY <2>9 DEF TrackCloses, Openers, TypeOK
    <3>2. CASE speaker = v
      <4>1. AbstractFloor!PutDown
        BY <2>9, <3>1, <3>2, SameOpenersSameAsker, TalkbackAssumption
           DEF TrackCloses, TakeTheFloorAway, AbstractFloor!PutDown
      <4> QED
        BY <4>1 DEF AbstractFloor!Next
    <3>3. CASE speaker # v
      BY <1>1, <2>9, <3>1, <3>3 DEF TrackCloses
    <3> QED
      BY <3>2, <3>3
  <2>10. CASE ReceiverClosesOutput(v)
    BY <1>1, <2>10 DEF ReceiverClosesOutput, shared, Openers, TypeOK
  <2> QED
    BY <1>6, <2>1, <2>2, <2>3, <2>4, <2>5, <2>6, <2>7, <2>8, <2>9, <2>10 DEF Receive
<1>7. ASSUME NEW v \in Viewers, Expire(v)
      PROVE  [AbstractFloor!Next]_<<speaker, Asker>>
  <2>1. Openers' = Openers
    BY <1>7 DEF Expire, ExpiryLooks, ExpiryMarksSpent, ExpiryReleases,
                ExpiryClosesOutput, receiver, Openers
  <2>2. CASE ExpiryReleases(v) /\ speaker = etarget[v]
    <3>1. AbstractFloor!PutDown
      BY <2>1, <2>2, SameOpenersSameAsker, TalkbackAssumption
         DEF ExpiryReleases, TakeTheFloorAway, TypeOK, AbstractFloor!PutDown
    <3> QED
      BY <3>1 DEF AbstractFloor!Next
  <2>3. CASE ~(ExpiryReleases(v) /\ speaker = etarget[v])
    BY <1>1, <1>7, <2>1, <2>3 DEF Expire, ExpiryLooks, ExpiryMarksSpent,
       ExpiryReleases, ExpiryClosesOutput, shared
  <2> QED
    BY <2>2, <2>3
<1> QED
  BY <1>4, <1>5, <1>6, <1>7 DEF Next

\* The talk-back implements the abstract floor: it grants only what was asked,
\* to whoever asked, and only once the floor has been put down.
THEOREM TalkbackImplementsFloor == Spec => ImplementsFloor
<1>1. Init => AbstractFloor!Init
  BY DEF Init, AbstractFloor!Init, Asker, Openers
<1> QED
  BY <1>1, FloorStep, TypeCorrect, FloorIsExclusive, PTL
     DEF Spec, ImplementsFloor, AbstractFloor!Spec
-----------------------------------------------------------------------------
\* The pause after a cut.  Whoever is to be cut was past the cap when it was
\* looked at, and no time has passed since: the look, the mark and the release
\* are in one unit.  The floor may have changed hands meanwhile, but then the
\* last turn ended within Idle of its last packet, and the next one goes on
\* with its stretch.
CutIsStillDue ==
  \A w \in Viewers : epc[w] = "limit" =>
    /\ stretchAge > TalkMax /\ pktAge <= Idle
    /\ speaker = Nobody => endAge <= Idle
    /\ \A v \in Openers : asked[v] = 0 /\ ~fresh[v]

\* Nobody who may start a new stretch is at the door during the pause.
PauseIsPastTheCap ==
  quiet > 0 => stretchAge > TalkMax /\ \A v \in Openers : ~fresh[v]

PauseInv == CutIsStillDue /\ PauseIsPastTheCap

LEMMA PauseStep ==
  TypeOK /\ OneAsker /\ PauseInv /\ [Next]_vars => PauseInv'
<1> SUFFICES ASSUME TypeOK, OneAsker, PauseInv, [Next]_vars PROVE PauseInv'
  OBVIOUS
<1> USE TalkbackAssumption, ConstantsAreNatural
    DEF PauseInv, CutIsStillDue, PauseIsPastTheCap, Openers, TypeOK
<1>1. CASE UNCHANGED vars
  BY <1>1 DEF vars, shared, ages, receiver, expiry
<1>2. CASE Tick
  <2>1. \A w \in Viewers : epc'[w] = "idle"
    BY <1>2 DEF Tick
  <2>2. quiet' > 0 => quiet > 0
    BY <1>2 DEF Tick, Sooner
  <2>3. stretchAge > TalkMax => stretchAge' > TalkMax
    BY <1>2 DEF Tick, Older, AskedCap
  <2> QED
    BY <1>2, <2>1, <2>2, <2>3 DEF Tick
<1>3. ASSUME NEW v \in Viewers, Receive(v) PROVE PauseInv'
  <2>1. CASE TrackOpens(v)
    BY <2>1 DEF TrackOpens, shared, ages, expiry
  <2>2. CASE PacketOfTheSpeaker(v)
    BY <2>2 DEF PacketOfTheSpeaker, shared, expiry
  <2>3. CASE PacketOfTheSpent(v)
    BY <2>3 DEF PacketOfTheSpent, shared, receiver, expiry
  <2>4. CASE PacketRefused(v)
    BY <2>4 DEF PacketRefused, receiver, expiry
  <2>5. CASE PacketAsksForTheFloor(v)
    <3>1. /\ quiet' = 0 /\ speaker = Nobody
          /\ UNCHANGED <<stretchAge, pktAge, endAge, speaker, epc>>
          /\ asked' = [asked EXCEPT ![v] = 0]
          /\ rpc' = [rpc EXCEPT ![v] = "opening"]
      BY <2>5 DEF PacketAsksForTheFloor, FloorIsFree, expiry
    <3>2. fresh' = [fresh EXCEPT ![v] = endAge >= Cooldown]
      BY <2>5 DEF PacketAsksForTheFloor
    <3>3. ASSUME NEW w \in Viewers, epc[w] = "limit"
          PROVE  \A x \in Openers' : asked'[x] = 0 /\ ~fresh'[x]
      <4>1. ~(endAge >= Cooldown)
        BY <3>1, <3>3
      <4>2. ~fresh'[v]
        <5>1. fresh'[v] = (endAge >= Cooldown)
          BY <3>2, Zenon
        <5> QED
          BY <4>1, <5>1, Zenon
      <4> QED
        BY <3>1, <3>2, <3>3, <4>2
    <3> QED
      BY <3>1, <3>3
  <2>6. ASSUME NEW o \in Outputs, OutputOpens(v, o) PROVE PauseInv'
    <3>1. /\ v \in Openers
          /\ pktAge' = AtMost(asked[v], Cooldown)
          /\ stretchAge' = StretchAgeAtGrant(v)
          /\ speaker' = v /\ v # Nobody
          /\ UNCHANGED <<epc, quiet, endAge>>
          /\ Openers' \subseteq Openers
      BY <2>6 DEF OutputOpens, expiry
    <3>2. \A x \in Openers' : asked'[x] = asked[x] /\ fresh'[x] = fresh[x]
      BY <2>6 DEF OutputOpens
    <3>3. ~fresh[v] => stretchAge' = stretchAge
      BY <3>1 DEF StretchAgeAtGrant
    <3>4. asked[v] = 0 => pktAge' <= Idle
      BY <3>1 DEF AtMost
    <3> HIDE DEF Openers, TypeOK
    <3> QED
      BY <3>1, <3>2, <3>3, <3>4
  <2>7. CASE OutputRefuses(v)
    BY <2>7 DEF OutputRefuses, expiry
  <2>8. CASE OutputPanics(v)
    BY <2>8 DEF OutputPanics, shared, ages, expiry
  <2>9. CASE PacketPlayed(v)
    BY <2>9 DEF PacketPlayed, shared, ages, expiry
  <2>10. CASE TrackCloses(v)
    BY <2>10 DEF TrackCloses, TakeTheFloorAway, expiry
  <2>11. CASE ReceiverClosesOutput(v)
    BY <2>11 DEF ReceiverClosesOutput, shared, ages, expiry
  <2> QED
    BY <1>3, <2>1, <2>2, <2>3, <2>4, <2>5, <2>6, <2>7, <2>8, <2>9, <2>10, <2>11
       DEF Receive
<1>4. ASSUME NEW v \in Viewers, Expire(v) PROVE PauseInv'
  <2>1. CASE ExpiryLooks(v)
    <3>1. epc'[v] = "limit" => speaker # Nobody /\ pktAge <= Idle /\ stretchAge > TalkMax
      BY <2>1 DEF ExpiryLooks, Verdict
    <3>2. speaker # Nobody => Openers = {}
      BY DEF OneAsker
    <3>3. /\ UNCHANGED <<shared, ages, receiver>>
          /\ \A w \in Viewers \ {v} : epc'[w] = epc[w]
      BY <2>1 DEF ExpiryLooks
    <3> QED
      BY <3>1, <3>2, <3>3 DEF shared, ages, receiver
  <2>2. CASE ExpiryMarksSpent(v)
    BY <2>2 DEF ExpiryMarksSpent, receiver
  <2>3. CASE ExpiryReleases(v)
    BY <2>3 DEF ExpiryReleases, TakeTheFloorAway, receiver
  <2>4. CASE ExpiryClosesOutput(v)
    BY <2>4 DEF ExpiryClosesOutput, shared, ages, receiver
  <2> QED
    BY <1>4, <2>1, <2>2, <2>3, <2>4 DEF Expire
<1> QED
  BY <1>1, <1>2, <1>3, <1>4 DEF Next

\* During the pause after a cut the floor is held only by somebody past the cap
\* too: nobody starts a stretch of their own in the time the room is owed.
THEOREM ThePauseIsOwed == Spec => []QuietIsHeard
<1>1. Init => PauseInv
  BY DEF Init, PauseInv, CutIsStillDue, PauseIsPastTheCap
<1>2. PauseInv => QuietIsHeard
  BY DEF PauseInv, PauseIsPastTheCap, QuietIsHeard
<1> QED
  BY <1>1, <1>2, PauseStep, TypeCorrect, FloorIsExclusive, PTL DEF Spec

\* The whole safety of the talk-back, as the run checks it.
THEOREM TalkbackIsSafe == Spec => []TalkbackSafety
  BY TypeCorrect, FloorIsExclusive, OutputsAreAccountedFor, VoicesDoNotOverlap,
     ThePauseIsOwed, PTL DEF TalkbackSafety
-----------------------------------------------------------------------------
\* What the room hears, for the observer of TalkbackHistory.
\* What is used of the pause: with half a cooldown and with Idle and a look it

\* still fits in a cooldown.
LEMMA PauseFits ==
  /\ WholePause \in Nat
  /\ WholePause + Idle + 1 <= Cooldown
  /\ WholePause + WholePause <= Cooldown
  BY TalkbackAssumption DEF WholePause

\* The observer's counters, and where the code's saturate.
CountersOK ==
  /\ heard \in Nat /\ muted \in Nat /\ turnAge \in Nat
  /\ heard <= Cooldown /\ endAge <= Cooldown /\ pktAge <= Cooldown

\* Whoever holds the floor has a Receive, and with it a ticker; and mutes the room.
TheSpeakerIsThere ==
  speaker # Nobody => rpc[speaker] \in {"reading", "writing"} /\ heard = 0

\* A turn that has lasted a unit, and that its ticker has looked at since the
\* last, is about to end if it was silent or past the cap.
ALookEnds ==
  /\ speaker # Nobody /\ turnAge >= 1 /\ speaker \in looked
  /\ stretchAge > TalkMax \/ pktAge > Idle
  => epc[speaker] \in {"limit", "release"} /\ etarget[speaker] = speaker

\* The stretch counts the room, but for less than a cooldown: the pauses.
TheStretchCounts ==
  /\ stretchAge <= TalkMax => muted + 1 <= stretchAge + Cooldown
  /\ speaker # Nobody /\ turnAge >= 2 =>
       muted + 1 <= stretchAge + Cooldown /\ stretchAge <= TalkMax + 1

\* The room is heard while the output opens, and whoever may start a stretch
\* has let it be heard for a pause, or it has been since the last reset.
OpeningIsHeard ==
  \A v \in Openers :
    /\ asked[v] <= heard \/ heard = Cooldown
    /\ fresh[v] => heard >= WholePause \/ muted <= heard + 1

\* What the code takes for silence was heard, but for what a turn's end and a
\* slow opening may lose of it.
SilenceIsHeard ==
  speaker = Nobody => endAge + WholePause <= heard + Cooldown \/ muted <= heard + 1

\* A turn's last packet is no older than that, while it lasts.
ATurnHasPackets ==
  speaker # Nobody =>
    /\ turnAge = 0 => pktAge + WholePause + 1 <= Cooldown \/ muted = 0
    /\ turnAge >= 1 => pktAge + WholePause <= Cooldown \/ (muted <= 1 /\ turnAge = 1)

RoomInv ==
  /\ CountersOK /\ TheSpeakerIsThere /\ ALookEnds /\ TheStretchCounts
  /\ OpeningIsHeard /\ SilenceIsHeard /\ ATurnHasPackets

\* A step that gives the floor to nobody new is not seen in the room.
LEMMA NobodyTakesIt ==
  ASSUME RoomStep, speaker' = speaker \/ speaker' = Nobody
  PROVE  UNCHANGED <<heard, muted, turnAge>>
  BY TalkbackAssumption DEF RoomStep, Taken, histVars

\* Two sums that grow together.
LEMMA SumsGrow ==
  ASSUME NEW a \in Nat, NEW b \in Nat, NEW c \in Nat, NEW d \in Nat, NEW e \in Nat,
         b <= a + 1, a + c <= d + e
  PROVE  b + c <= (d + 1) + e
  OBVIOUS

\* A unit of time keeps what the room hears.
LEMMA RoomTickStep ==
  TypeOK /\ TypeOK' /\ OneAsker /\ RoomInv /\ Tick /\ RoomTick => RoomInv'
<1> SUFFICES ASSUME TypeOK, TypeOK', OneAsker, RoomInv, Tick, RoomTick PROVE RoomInv'
  OBVIOUS
<1> USE TalkbackAssumption, ConstantsAreNatural, PauseFits DEF RoomInv, CountersOK
<1>n. /\ pktAge \in Nat /\ stretchAge \in Nat /\ endAge \in Nat
      /\ \A v \in Viewers : asked[v] \in Nat
  BY DEF TypeOK
<1>s. /\ UNCHANGED <<speaker, rpc, epc, etarget, fresh>> /\ Openers' = Openers
      /\ looked' = {} /\ \A v \in Viewers : epc[v] = "idle"
  BY DEF Tick, shared, Openers
<1>t. /\ pktAge' = Older(pktAge, Cooldown) /\ stretchAge' = Older(stretchAge, AskedCap)
      /\ endAge' = Older(endAge, Cooldown)
      /\ muted' = Older(muted, MutedCap)
      /\ speaker = Nobody => heard' = Older(heard, Cooldown) /\ turnAge' = 0
      /\ speaker # Nobody => heard' = 0 /\ turnAge' = Older(turnAge, 2)
  BY DEF Tick, RoomTick
<1>m. MutedCap \in Nat
  BY DEF MutedCap

\* A turn of a unit or more that survives this one was neither silent nor past the cap.
<1>l. speaker # Nobody /\ turnAge >= 1 => stretchAge <= TalkMax /\ pktAge <= Idle
  <2> SUFFICES ASSUME speaker # Nobody, turnAge >= 1 PROVE stretchAge <= TalkMax /\ pktAge <= Idle
    OBVIOUS
  <2>1. speaker \in Viewers /\ rpc[speaker] # "gone"
    BY DEF TypeOK, TheSpeakerIsThere
  <2>2. speaker \in looked /\ epc[speaker] = "idle"
    BY <2>1, <1>s DEF Tick, Live
  <2> QED
    BY <2>1, <2>2, <1>n DEF ALookEnds
<1>1. CountersOK'
  BY <1>n, <1>t, <1>m DEF Older
<1>2. TheSpeakerIsThere'
  BY <1>s, <1>t DEF TheSpeakerIsThere
<1>3. ALookEnds'
  BY <1>s DEF ALookEnds
<1>4. TheStretchCounts'
  <2>1. muted' <= muted + 1 /\ (stretchAge <= TalkMax => stretchAge' = stretchAge + 1)
    BY <1>n, <1>t, <1>m DEF Older, AskedCap
  <2>2. stretchAge' <= TalkMax => stretchAge <= TalkMax
    BY <1>n, <1>t DEF Older, AskedCap
  <2>3. speaker # Nobody /\ turnAge' >= 2 => turnAge >= 1
    BY <1>t DEF Older
  <2> QED
    BY <1>1, <1>n, <1>s, <1>l, <2>1, <2>2, <2>3 DEF TheStretchCounts
<1>5. OpeningIsHeard'
  <2> SUFFICES ASSUME NEW v \in Openers
               PROVE  /\ asked'[v] <= heard' \/ heard' = Cooldown
                      /\ fresh'[v] => heard' >= WholePause \/ muted' <= heard' + 1
    BY <1>s DEF OpeningIsHeard
  <2>1. v \in Viewers /\ speaker = Nobody /\ fresh'[v] = fresh[v]
    BY <1>s DEF OneAsker, Openers
  <2>2. asked'[v] = Older(asked[v], AskedCap)
    BY <2>1 DEF Tick, Openers
  <2>3. heard' = Older(heard, Cooldown) /\ muted' <= muted + 1
    BY <2>1, <1>t, <1>m DEF Older
  <2>4. asked'[v] <= heard' \/ heard' = Cooldown
    BY <2>1, <2>2, <2>3, <1>n DEF OpeningIsHeard, Older, AskedCap
  <2>5. fresh[v] => heard' >= WholePause \/ muted' <= heard' + 1
    BY <1>1, <2>3 DEF OpeningIsHeard, Older
  <2> QED
    BY <2>1, <2>4, <2>5
<1>6. SilenceIsHeard'
  <2> SUFFICES ASSUME speaker = Nobody
               PROVE  endAge' + WholePause <= heard' + Cooldown \/ muted' <= heard' + 1
    BY <1>s DEF SilenceIsHeard
  <2>1. /\ muted' <= muted + 1 /\ muted' \in Nat
        /\ endAge' <= endAge + 1 /\ endAge' <= Cooldown /\ endAge' \in Nat
    BY <1>n, <1>t, <1>m DEF Older
  <2>2. CASE heard = Cooldown
    BY <1>n, <1>t, <2>1, <2>2 DEF Older
  <2>3. CASE heard # Cooldown
    <3>1. heard' = heard + 1
      BY <1>t, <2>3 DEF Older
    <3>2. endAge + WholePause <= heard + Cooldown \/ muted <= heard + 1
      BY DEF SilenceIsHeard
    <3>3. /\ endAge \in Nat /\ heard \in Nat /\ muted \in Nat
          /\ Cooldown \in Nat /\ WholePause \in Nat
      BY <1>n
    <3>4. muted' <= muted + 1 /\ muted' \in Nat
      BY <2>1
    <3>5. endAge' <= endAge + 1 /\ endAge' \in Nat
      BY <2>1
    <3> HIDE TalkbackAssumption, ConstantsAreNatural, PauseFits DEF RoomInv, CountersOK
    <3>6. CASE muted <= heard + 1
      BY <3>1, <3>3, <3>4, <3>6
    <3>7. CASE endAge + WholePause <= heard + Cooldown
      <4>1. endAge' + WholePause <= (heard + 1) + Cooldown
        BY <3>3, <3>5, <3>7, SumsGrow
      <4> QED
        BY <3>1, <4>1
    <3> QED
      BY <3>2, <3>6, <3>7
  <2> QED
    BY <2>2, <2>3
<1>7. ATurnHasPackets'
  <2>1. muted' <= muted + 1
    BY <1>t, <1>m DEF Older
  <2> QED
    BY <1>1, <1>n, <1>s, <1>t, <1>l, <2>1 DEF ATurnHasPackets, Older
<1> QED
  BY <1>1, <1>2, <1>3, <1>4, <1>5, <1>6, <1>7

\* So does a step that takes the floor for nobody and asks for nothing, as long
\* as what it changes of a turn's end and of a look is as it should be.
LEMMA QuietSteps ==
  ASSUME TypeOK, TypeOK', RoomInv,
         UNCHANGED <<heard, muted, turnAge, stretchAge>>,
         pktAge' = pktAge \/ pktAge' = 0,
         \/ speaker' = speaker /\ endAge' = endAge
         \/ speaker # Nobody /\ speaker' = Nobody /\ endAge' = pktAge,
         speaker' # Nobody => rpc'[speaker'] \in {"reading", "writing"},
         \A v \in Openers' : v \in Openers /\ asked'[v] = asked[v] /\ fresh'[v] = fresh[v],
         ALookEnds'
  PROVE  RoomInv'
<1> USE TalkbackAssumption, ConstantsAreNatural, PauseFits DEF RoomInv
<1>n. /\ pktAge \in Nat /\ stretchAge \in Nat /\ endAge \in Nat
      /\ pktAge' \in Nat /\ stretchAge' \in Nat /\ endAge' \in Nat
  BY DEF TypeOK
<1>1. CountersOK'
  BY <1>n DEF CountersOK
<1>2. TheSpeakerIsThere'
  BY DEF TheSpeakerIsThere
<1>3. TheStretchCounts'
  BY DEF TheStretchCounts
<1>4. OpeningIsHeard'
  BY DEF OpeningIsHeard
<1>5. SilenceIsHeard'
  <2>1. CASE speaker' = speaker /\ endAge' = endAge
    BY <2>1 DEF SilenceIsHeard
  <2>2. CASE speaker # Nobody /\ speaker' = Nobody /\ endAge' = pktAge
    <3>1. heard = 0 /\ muted \in Nat /\ turnAge \in Nat
      BY <2>2 DEF TheSpeakerIsThere, CountersOK
    <3>2. pktAge + WholePause <= Cooldown \/ muted <= 1
      BY <1>n, <2>2, <3>1 DEF ATurnHasPackets
    <3> QED
      BY <1>n, <2>2, <3>1, <3>2 DEF SilenceIsHeard
  <2> QED
    BY <2>1, <2>2
<1>6. ATurnHasPackets'
  <2>1. CASE speaker' = speaker /\ pktAge' = pktAge
    BY <2>1 DEF ATurnHasPackets
  <2>2. CASE pktAge' = 0
    <3>1. WholePause + 1 <= Cooldown /\ WholePause <= Cooldown
      OBVIOUS
    <3>2. pktAge' + WholePause = WholePause
      BY <2>2
    <3> QED
      BY <3>1, <3>2 DEF ATurnHasPackets
  <2>3. CASE speaker' = Nobody
    BY <2>3 DEF ATurnHasPackets
  <2> QED
    BY <2>1, <2>2, <2>3
<1> QED
  BY <1>1, <1>2, <1>3, <1>4, <1>5, <1>6

\* The one step the room notices.
LEMMA GrantStep ==
  ASSUME TypeOK, TypeOK', OneAsker, OneAsker', RoomInv, RoomStep,
         NEW v \in Viewers, NEW o \in Outputs, OutputOpens(v, o)
  PROVE  RoomInv'
<1> USE TalkbackAssumption, ConstantsAreNatural, PauseFits DEF RoomInv
<1>1. /\ v \in Openers /\ speaker = Nobody /\ speaker' = v /\ v # Nobody
      /\ pktAge' = AtMost(asked[v], Cooldown)
      /\ stretchAge' = IF fresh[v] THEN asked[v] ELSE stretchAge
      /\ rpc'[v] = "writing"
      /\ UNCHANGED endAge
  BY DEF OutputOpens, StretchAgeAtGrant, Openers, OneAsker, TypeOK
<1>2. /\ heard' = 0 /\ turnAge' = 0
      /\ muted' = IF heard >= WholePause THEN 0 ELSE muted
  BY <1>1 DEF RoomStep, Taken
<1>n. /\ asked[v] \in Nat /\ stretchAge \in Nat /\ endAge \in Nat /\ endAge <= Cooldown
      /\ heard \in Nat /\ muted \in Nat
  BY <1>1 DEF TypeOK, CountersOK
<1>3. CountersOK'
  BY <1>n, <1>1, <1>2 DEF CountersOK, AtMost
<1>4. TheSpeakerIsThere'
  BY <1>1, <1>2 DEF TheSpeakerIsThere
<1>5. ALookEnds'
  BY <1>2 DEF ALookEnds
<1>6. TheStretchCounts'
  <2>1. CASE heard >= WholePause
    <3>1. muted' + 1 <= stretchAge' + Cooldown
      BY <1>n, <1>1, <1>2, <2>1
    <3> QED
      BY <1>2, <3>1 DEF TheStretchCounts
  <2>2. CASE ~(heard >= WholePause)
    <3>1. CASE fresh[v]
      <4>1. muted <= heard + 1
        BY <1>1, <2>2, <3>1 DEF OpeningIsHeard
      <4>2. heard + 2 <= Cooldown
        BY <1>n, <2>2
      <4>3. muted' + 1 <= Cooldown
        BY <1>n, <1>2, <2>2, <4>1, <4>2
      <4>4. muted' + 1 <= stretchAge' + Cooldown
        BY <1>n, <1>1, <1>2, <2>2, <3>1, <4>3
      <4> QED
        BY <1>2, <4>4 DEF TheStretchCounts
    <3>2. CASE ~fresh[v]
      BY <1>1, <1>2, <2>2, <3>2 DEF TheStretchCounts
    <3> QED
      BY <3>1, <3>2
  <2> QED
    BY <2>1, <2>2
<1>7. OpeningIsHeard'
  BY <1>1 DEF OneAsker, OpeningIsHeard
<1>8. SilenceIsHeard'
  BY <1>1 DEF SilenceIsHeard
<1>9. ATurnHasPackets'
  <2>1. CASE heard >= WholePause
    BY <1>1, <1>2, <2>1 DEF ATurnHasPackets
  <2>2. CASE ~(heard >= WholePause)
    <3>1. asked[v] <= heard
      BY <1>n, <1>1, <2>2 DEF OpeningIsHeard
    <3>2. pktAge' = asked[v] /\ asked[v] + 1 <= WholePause
      BY <1>n, <1>1, <2>2, <3>1 DEF AtMost
    <3>3. pktAge' + WholePause + 1 <= Cooldown
      BY <1>n, <3>2
    <3> QED
      BY <1>2, <3>3 DEF ATurnHasPackets
  <2> QED
    BY <2>1, <2>2
<1> QED
  BY <1>3, <1>4, <1>5, <1>6, <1>7, <1>8, <1>9

\* Whoever asks for the floor finds nobody there, and has the pause it counts.
LEMMA AskStep ==
  ASSUME TypeOK, TypeOK', OneAsker', RoomInv, UNCHANGED <<heard, muted, turnAge>>,
         NEW v \in Viewers, PacketAsksForTheFloor(v)
  PROVE  RoomInv'
<1> USE TalkbackAssumption, ConstantsAreNatural, PauseFits DEF RoomInv
<1>1. /\ speaker = Nobody /\ speaker' = Nobody
      /\ UNCHANGED <<pktAge, stretchAge, endAge>>
      /\ Openers' \subseteq {v} /\ asked'[v] = 0
  <2>1. v \in Openers'
    BY DEF PacketAsksForTheFloor, Openers, TypeOK
  <2> QED
    BY <2>1 DEF PacketAsksForTheFloor, FloorIsFree, OneAsker, TypeOK
<1>2. fresh'[v] = (endAge >= Cooldown)
  <2>1. fresh \in [Viewers -> BOOLEAN]
    BY DEF TypeOK
  <2>2. fresh' = [fresh EXCEPT ![v] = endAge >= Cooldown]
    BY Zenon DEF PacketAsksForTheFloor
  <2> QED
    BY <2>1, <2>2, Zenon
<1>3. OpeningIsHeard'
  <2>1. fresh'[v] => endAge >= Cooldown
    BY <1>2, Zenon
  <2>2. endAge \in Nat /\ heard \in Nat /\ muted \in Nat
    BY DEF TypeOK, CountersOK
  <2>3. endAge >= Cooldown => heard >= WholePause \/ muted <= heard + 1
    BY <1>1, <2>2 DEF SilenceIsHeard
  <2> QED
    BY <1>1, <2>1, <2>2, <2>3 DEF OpeningIsHeard
<1>4. CountersOK' /\ TheSpeakerIsThere' /\ ALookEnds' /\ TheStretchCounts'
  <2>1. CountersOK'
    BY <1>1 DEF CountersOK
  <2>2. TheSpeakerIsThere' /\ ALookEnds'
    BY <1>1 DEF TheSpeakerIsThere, ALookEnds
  <2>3. TheStretchCounts'
    BY <1>1 DEF TheStretchCounts
  <2> QED
    BY <2>1, <2>2, <2>3
<1>5. SilenceIsHeard' /\ ATurnHasPackets'
  <2>1. SilenceIsHeard'
    BY <1>1 DEF SilenceIsHeard
  <2>2. ATurnHasPackets'
    BY <1>1 DEF ATurnHasPackets
  <2> QED
    BY <2>1, <2>2
<1> QED
  BY <1>3, <1>4, <1>5

LEMMA RoomReceiveStep ==
  ASSUME TypeOK, TypeOK', OneAsker, OneAsker', RoomInv, RoomStep,
         NEW v \in Viewers, Receive(v)
  PROVE  RoomInv'
<1> DEFINE Unseen == UNCHANGED <<heard, muted, turnAge>>
<1>1. speaker' = speaker \/ speaker' = Nobody => Unseen
  BY NobodyTakesIt
<1>2. speaker \in Viewers => rpc[speaker] \in {"reading", "writing"}
  BY TalkbackAssumption DEF RoomInv, TheSpeakerIsThere
<1>3. CASE TrackOpens(v) \/ PacketOfTheSpent(v) \/ PacketPlayed(v)
  <2>1. /\ UNCHANGED <<speaker, pktAge, stretchAge, endAge, asked, fresh, epc, etarget, looked>>
        /\ Openers' = Openers
        /\ speaker # Nobody => rpc'[speaker] \in {"reading", "writing"}
    BY <1>2, <1>3 DEF TrackOpens, PacketOfTheSpent, PacketPlayed, shared, ages, receiver,
                      expiry, Openers, TypeOK
  <2>2. ALookEnds'
    BY <1>1, <2>1 DEF RoomInv, ALookEnds
  <2> QED
    BY <1>1, <2>1, <2>2, QuietSteps
<1>4. CASE PacketOfTheSpeaker(v)
  <2>1. /\ UNCHANGED <<speaker, stretchAge, endAge, asked, fresh, epc, etarget, looked>>
        /\ pktAge' = 0 /\ Openers' = Openers
        /\ speaker # Nobody => rpc'[speaker] \in {"reading", "writing"}
    BY <1>4 DEF PacketOfTheSpeaker, shared, expiry, Openers, TypeOK
  <2>2. ALookEnds'
    BY <1>1, <2>1, ConstantsAreNatural DEF RoomInv, ALookEnds
  <2> QED
    BY <1>1, <2>1, <2>2, QuietSteps
<1>5. CASE PacketRefused(v)
  <2>1. /\ UNCHANGED <<speaker, pktAge, stretchAge, endAge, rpc, asked, fresh, epc, etarget, looked>>
        /\ Openers' = Openers
    BY <1>5 DEF PacketRefused, receiver, expiry, Openers
  <2>2. ALookEnds'
    BY <1>1, <2>1 DEF RoomInv, ALookEnds
  <2>3. speaker' # Nobody => rpc'[speaker'] \in {"reading", "writing"}
    BY <1>2, <2>1 DEF TypeOK
  <2> QED
    BY <1>1, <2>1, <2>2, <2>3, QuietSteps
<1>6. CASE PacketAsksForTheFloor(v)
  <2>1. speaker' = speaker
    BY <1>6 DEF PacketAsksForTheFloor
  <2> QED
    BY <1>1, <1>6, <2>1, AskStep
<1>7. ASSUME NEW o \in Outputs, OutputOpens(v, o) PROVE RoomInv'
  BY <1>7, GrantStep
<1>8. CASE OutputRefuses(v) \/ OutputPanics(v)
  <2>1. /\ UNCHANGED <<speaker, pktAge, stretchAge, endAge, epc, etarget, looked>>
        /\ Openers' = {} /\ speaker = Nobody
    BY <1>8 DEF OutputRefuses, OutputPanics, shared, ages, expiry, Openers, OneAsker, TypeOK
  <2>2. ALookEnds'
    BY <2>1 DEF ALookEnds
  <2> QED
    BY <1>1, <2>1, <2>2, QuietSteps
<1>9. CASE TrackCloses(v)
  <2>1. /\ UNCHANGED <<pktAge, stretchAge, asked, fresh, epc, etarget, looked>>
        /\ Openers' = Openers
        /\ \/ speaker' = speaker /\ endAge' = endAge
           \/ speaker # Nobody /\ speaker' = Nobody /\ endAge' = pktAge
        /\ speaker' # Nobody => rpc'[speaker'] \in {"reading", "writing"}
    BY <1>2, <1>9, TalkbackAssumption
       DEF TrackCloses, TakeTheFloorAway, expiry, Openers, TypeOK
  <2>2. ALookEnds'
    BY <1>1, <2>1 DEF RoomInv, ALookEnds
  <2> QED
    BY <1>1, <2>1, <2>2, QuietSteps
<1>10. CASE ReceiverClosesOutput(v)
  <2>1. /\ UNCHANGED <<speaker, pktAge, stretchAge, endAge, asked, fresh, epc, etarget, looked>>
        /\ Openers' = Openers
        /\ speaker # Nobody => rpc'[speaker] \in {"reading", "writing"}
    BY <1>2, <1>10 DEF ReceiverClosesOutput, shared, ages, expiry, Openers, TypeOK
  <2>2. ALookEnds'
    BY <1>1, <2>1 DEF RoomInv, ALookEnds
  <2> QED
    BY <1>1, <2>1, <2>2, QuietSteps
<1> QED
  BY <1>3, <1>4, <1>5, <1>6, <1>7, <1>8, <1>9, <1>10 DEF Receive

LEMMA RoomExpireStep ==
  ASSUME TypeOK, TypeOK', OneAsker, RoomInv, RoomStep, NEW v \in Viewers, Expire(v)
  PROVE  RoomInv'
<1> USE TalkbackAssumption
<1>1. speaker' = speaker \/ speaker' = Nobody
  BY DEF Expire, ExpiryLooks, ExpiryMarksSpent, ExpiryReleases, ExpiryClosesOutput,
         TakeTheFloorAway, shared
<1>2. /\ UNCHANGED <<heard, muted, turnAge, pktAge, stretchAge, rpc, asked, fresh>>
      /\ Openers' = Openers
      /\ \/ speaker' = speaker /\ endAge' = endAge
         \/ speaker # Nobody /\ speaker' = Nobody /\ endAge' = pktAge
  <2>1. UNCHANGED <<heard, muted, turnAge>>
    BY <1>1, NobodyTakesIt
  <2>2. CASE ExpiryLooks(v) \/ ExpiryMarksSpent(v) \/ ExpiryClosesOutput(v)
    BY <2>1, <2>2 DEF ExpiryLooks, ExpiryMarksSpent, ExpiryClosesOutput, shared, ages,
                      receiver, Openers
  <2>3. CASE ExpiryReleases(v)
    BY <2>1, <2>3 DEF ExpiryReleases, TakeTheFloorAway, receiver, Openers, TypeOK
  <2> QED
    BY <2>2, <2>3 DEF Expire
<1>3. ALookEnds'
  <2> SUFFICES ASSUME speaker' # Nobody, turnAge >= 1, speaker \in looked',
                      stretchAge > TalkMax \/ pktAge > Idle
               PROVE  epc'[speaker] \in {"limit", "release"} /\ etarget'[speaker] = speaker
    BY <1>1, <1>2 DEF ALookEnds
  <2>0. speaker' = speaker /\ speaker # Nobody /\ speaker \in Viewers
    BY <1>1 DEF TypeOK
  <2>1. CASE ExpiryLooks(v)
    <3>1. CASE v = speaker
      <4>1. Verdict(pktAge, stretchAge) \in {"limit", "release"}
        BY <2>0 DEF Verdict, TypeOK
      <4> QED
        BY <2>0, <2>1, <3>1, <4>1 DEF ExpiryLooks, TypeOK
    <3>2. CASE v # speaker
      BY <2>0, <2>1, <3>2 DEF ExpiryLooks, RoomInv, ALookEnds, TypeOK
    <3> QED
      BY <3>1, <3>2
  <2>2. CASE ~ExpiryLooks(v)
    <3>1. looked' = looked
      BY <2>2 DEF Expire, ExpiryMarksSpent, ExpiryReleases, ExpiryClosesOutput
    <3>2. epc[speaker] \in {"limit", "release"} /\ etarget[speaker] = speaker
      BY <2>0, <3>1 DEF RoomInv, ALookEnds
    <3>3. CASE ExpiryMarksSpent(v)
      BY <2>0, <3>2, <3>3 DEF ExpiryMarksSpent, TypeOK
    <3>4. CASE ExpiryReleases(v)
      <4>1. v # speaker
        BY <2>0, <3>2, <3>4 DEF ExpiryReleases, TakeTheFloorAway
      <4> QED
        BY <2>0, <3>2, <3>4, <4>1 DEF ExpiryReleases, TypeOK
    <3>5. CASE ExpiryClosesOutput(v)
      BY <2>0, <3>2, <3>5 DEF ExpiryClosesOutput, TypeOK
    <3> QED
      BY <2>2, <3>3, <3>4, <3>5 DEF Expire
  <2> QED
    BY <2>1, <2>2
<1>4. speaker' # Nobody => rpc'[speaker'] \in {"reading", "writing"}
  BY <1>1, <1>2 DEF RoomInv, TheSpeakerIsThere
<1> QED
  BY <1>2, <1>3, <1>4, QuietSteps

\* The observer never gets in the way: what it sees is the talk-back.
LEMMA TheObserverOnlyLooks == HSpec => Spec
<1>1. HInit => Init
  BY DEF HInit
<1>2. [HNext]_<<vars, histVars>> => [Next]_vars
  BY DEF HNext, Next
<1> QED
  BY <1>1, <1>2, PTL DEF HSpec, Spec

\* The cap counts on the room, for any viewers and durations: handing the floor
\* to each other, pausing for a breath or opening the output slowly, two pages
\* do not mute the room for longer than the cap and a cooldown, but for the unit
\* in which the last turn is being cut.
THEOREM TheCapCountsOnTheRoom == HSpec => []TheRoomIsCapped
<1> USE TalkbackAssumption, ConstantsAreNatural, PauseFits
<1>1. HInit => RoomInv
  <2> SUFFICES ASSUME HInit PROVE RoomInv
    OBVIOUS
  <2>1. CountersOK
    BY DEF HInit, Init, CountersOK
  <2> QED
    BY <2>1 DEF HInit, Init, RoomInv, TheSpeakerIsThere, ALookEnds, TheStretchCounts,
                OpeningIsHeard, SilenceIsHeard, ATurnHasPackets, Openers
<1>2. TypeOK /\ TypeOK' /\ OneAsker /\ OneAsker' /\ RoomInv /\ [HNext]_<<vars, histVars>>
        => RoomInv'
  <2> SUFFICES ASSUME TypeOK, TypeOK', OneAsker, OneAsker', RoomInv,
                      [HNext]_<<vars, histVars>>
               PROVE  RoomInv'
    OBVIOUS
  <2>1. CASE UNCHANGED <<vars, histVars>>
    BY <2>1 DEF vars, shared, ages, receiver, expiry, histVars, RoomInv, CountersOK,
                TheSpeakerIsThere, ALookEnds, TheStretchCounts, OpeningIsHeard,
                SilenceIsHeard, ATurnHasPackets, Openers
  <2>2. CASE Tick /\ RoomTick
    BY <2>2, RoomTickStep
  <2>3. ASSUME NEW v \in Viewers, Receive(v), RoomStep PROVE RoomInv'
    BY <2>3, RoomReceiveStep
  <2>4. ASSUME NEW v \in Viewers, Expire(v), RoomStep PROVE RoomInv'
    BY <2>4, RoomExpireStep
  <2> QED
    BY <2>1, <2>2, <2>3, <2>4 DEF HNext
<1>3. TypeOK /\ RoomInv => TheRoomIsCapped
  <2> SUFFICES ASSUME TypeOK, RoomInv, speaker # Nobody, turnAge >= 2
               PROVE  muted <= TalkMax + Cooldown
    BY DEF RoomInv, CountersOK, TheRoomIsCapped
  <2> QED
    BY DEF TypeOK, RoomInv, CountersOK, TheStretchCounts
<1> QED
  BY <1>1, <1>2, <1>3, TheObserverOnlyLooks, TypeCorrect, FloorIsExclusive, PTL DEF HSpec

-----------------------------------------------------------------------------
(***************************************************************************)
(* Viewers.                                                                *)
(***************************************************************************)

Begun == {"idle", "refusing", "building", "made", "watched"}
Handed == {"signalling", "checking", "leaving", "over"}

\* HubTypeOK, but for the sign of the two counters, which is a matter of counting.
Shape ==
  /\ ready \in BOOLEAN /\ open \in Int /\ viewersNow \in Int
  /\ bwe \in SUBSET Sessions /\ left \in SUBSET Sessions
  /\ handler \in [Sessions -> {"idle", "refusing", "building", "made", "watched",
                               "failing", "signalling", "checking", "leaving", "over"}]
  /\ pc \in [Sessions -> {"none", "new", "connecting", "connected",
                          "disconnected", "failed", "closed"}]
  /\ seated \in [Sessions -> BOOLEAN] /\ counted \in [Sessions -> BOOLEAN]
  /\ up \in [Sessions -> Nat] /\ down \in [Sessions -> BOOLEAN]
  /\ closing \in [Sessions -> {"open", "seat", "count", "estimate", "connection", "done"}]

\* What a session holds, given where its handler and its Close are.
Placed(v) ==
  /\ handler[v] \in Begun => closing[v] = "open" /\ ~down[v] /\ v \notin bwe
  /\ handler[v] \in {"idle", "refusing", "building"} => pc[v] = "none" /\ ~seated[v]
  /\ handler[v] \in {"made", "watched"} => pc[v] = "new"
  /\ handler[v] = "failing" => pc[v] = "closed"
  /\ v \in bwe => handler[v] \in Handed
  /\ v \in bwe => closing[v] \in {"open", "seat", "count", "estimate"}
  /\ seated[v] => closing[v] \in {"open", "seat"}
  /\ pc[v] = "closed" /\ closing[v] # "done" =>
       v \notin bwe /\ (handler[v] = "failing" \/ (handler[v] = "over" /\ ~seated[v]))

PlaceInv == Shape /\ \A v \in Sessions : Placed(v)

\* Giving the seat back twice takes one off the counter once.
LEMMA GiveBackOnce ==
  ASSUME Shape, NEW v \in Sessions, GiveSeatBack(v)
  PROVE  /\ open' \in Int /\ seated' \in [Sessions -> BOOLEAN]
         /\ ~seated'[v] /\ \A w \in Sessions \ {v} : seated'[w] = seated[w]
         /\ open' = IF seated[v] THEN open - 1 ELSE open
<1>1. CASE seated[v]
  <2>1. seated' = [seated EXCEPT ![v] = FALSE] /\ open' = open - 1
    BY <1>1 DEF GiveSeatBack
  <2>2. seated' \in [Sessions -> BOOLEAN]
    BY <2>1, Zenon DEF Shape
  <2> QED
    BY <1>1, <2>1, <2>2 DEF Shape
<1>2. CASE ~seated[v]
  BY <1>2 DEF GiveSeatBack, Shape
<1> QED
  BY <1>1, <1>2

LEMMA PlaceInit == HubInit => PlaceInv
<1> SUFFICES ASSUME HubInit PROVE PlaceInv
  OBVIOUS
<1>1. Shape
  <2>1. seated \in [Sessions -> BOOLEAN] /\ counted \in [Sessions -> BOOLEAN]
        /\ down \in [Sessions -> BOOLEAN]
    BY Zenon DEF HubInit
  <2>2. ready \in BOOLEAN
    BY Zenon DEF HubInit
  <2> QED
    BY <2>1, <2>2, SMT DEF HubInit, Shape
<1>2. ASSUME NEW v \in Sessions PROVE Placed(v)
  BY DEF HubInit, Placed, Begun, Handed
<1> QED
  BY <1>1, <1>2 DEF PlaceInv

\* A step of session v keeps everybody in their place: the other sessions are
\* untouched, and v is looked at action by action.
LEMMA PlaceStep == PlaceInv /\ [HubNext]_hubVars => PlaceInv'
<1> SUFFICES ASSUME PlaceInv, [HubNext]_hubVars PROVE PlaceInv'
  OBVIOUS
<1> USE DEF PlaceInv
<1>1. CASE UNCHANGED hubVars
  BY <1>1 DEF hubVars, hub, viewer, Shape, Placed
<1>2. CASE StreamStarts
  BY <1>2 DEF StreamStarts, viewer, Shape, Placed
<1>3. ASSUME NEW v \in Sessions,
             NewViewer(v) \/ Signalling(v) \/ Callbacks(v) \/ Close(v)
               \/ PageLeaves(v) \/ Connects(v) \/ LosesThePeer(v)
      PROVE  PlaceInv'
  <2> USE DEF Shape, Goes, Placed, hub, viewer
  <2>1. CASE NewViewer(v)
    <3>1. CASE AskedTooEarly(v)
      BY <3>1 DEF AskedTooEarly, Begun, Handed
    <3>2. CASE TakesASeat(v)
      <4>1. Shape'
        BY <3>2 DEF TakesASeat, Over
      <4>2. Placed(v)'
        BY <3>2 DEF TakesASeat, Over, Begun, Handed
      <4>3. ASSUME NEW w \in Sessions \ {v} PROVE Placed(w)'
        BY <3>2 DEF TakesASeat, Over, Begun, Handed
      <4> QED
        BY <4>1, <4>2, <4>3
    <3>3. CASE SeatUndone(v)
      BY <3>3 DEF SeatUndone, Begun, Handed
    <3>4. CASE Made(v)
      BY <3>4 DEF Made, Begun, Handed
    <3>5. CASE MadeInVain(v)
      <4>1. Shape'
        BY <3>5 DEF MadeInVain
      <4>2. Placed(v)'
        BY <3>5 DEF MadeInVain, Begun, Handed
      <4>3. ASSUME NEW w \in Sessions \ {v} PROVE Placed(w)'
        BY <3>5 DEF MadeInVain, Begun, Handed
      <4> QED
        BY <4>1, <4>2, <4>3
    <3>6. CASE Watched(v)
      BY <3>6 DEF Watched, Begun, Handed
    <3>7. CASE OfferFails(v)
      <4>1. Shape'
        BY <3>7 DEF OfferFails
      <4>2. Placed(v)'
        BY <3>7 DEF OfferFails, Begun, Handed
      <4>3. ASSUME NEW w \in Sessions \ {v} PROVE Placed(w)'
        BY <3>7 DEF OfferFails, Begun, Handed
      <4> QED
        BY <4>1, <4>2, <4>3
    <3>8. CASE DeferredGiveBack(v)
      <4>0. GiveSeatBack(v)
        BY <3>8 DEF DeferredGiveBack
      <4> HIDE DEF GiveSeatBack
      <4>1. Shape'
        BY <3>8, <4>0, GiveBackOnce DEF DeferredGiveBack
      <4>2. Placed(v)'
        BY <3>8, <4>0, GiveBackOnce DEF DeferredGiveBack, Begun, Handed
      <4>3. ASSUME NEW w \in Sessions \ {v} PROVE Placed(w)'
        BY <3>8, <4>0, GiveBackOnce DEF DeferredGiveBack, Begun, Handed
      <4> QED
        BY <4>1, <4>2, <4>3
    <3>9. CASE HandedOver(v)
      <4>1. Shape'
        BY <3>9 DEF HandedOver
      <4>2. Placed(v)'
        BY <3>9 DEF HandedOver, Begun, Handed
      <4>3. ASSUME NEW w \in Sessions \ {v} PROVE Placed(w)'
        BY <3>9 DEF HandedOver, Begun, Handed
      <4> QED
        BY <4>1, <4>2, <4>3
    <3> QED
      BY <2>1, <3>1, <3>2, <3>3, <3>4, <3>5, <3>6, <3>7, <3>8, <3>9 DEF NewViewer
  <2>2. CASE Signalling(v)
    <3>1. CASE AnswerArrives(v)
      BY <3>1 DEF AnswerArrives, Begun, Handed
    <3>2. CASE SignallingEnds(v)
      BY <3>2 DEF SignallingEnds, Begun, Handed
    <3>3. CASE MediaIsAsked(v)
      BY <3>3 DEF MediaIsAsked, Begun, Handed
    <3>4. CASE HandlerCloses(v)
      <4>1. Shape'
        BY <3>4 DEF HandlerCloses, EntersClose
      <4>2. Placed(v)'
        BY <3>4 DEF HandlerCloses, EntersClose, Begun, Handed
      <4>3. ASSUME NEW w \in Sessions \ {v} PROVE Placed(w)'
        BY <3>4 DEF HandlerCloses, EntersClose, Begun, Handed
      <4> QED
        BY <4>1, <4>2, <4>3
    <3> QED
      BY <2>2, <3>1, <3>2, <3>3, <3>4 DEF Signalling
  <2>3. CASE Callbacks(v)
    <3>1. CASE ConnectedRuns(v)
      BY <3>1 DEF ConnectedRuns, Begun, Handed
    <3>2. CASE EndRuns(v)
      <4>1. Shape'
        BY <3>2 DEF EndRuns, EntersClose
      <4>2. Placed(v)'
        BY <3>2 DEF EndRuns, EntersClose, Begun, Handed
      <4>3. ASSUME NEW w \in Sessions \ {v} PROVE Placed(w)'
        BY <3>2 DEF EndRuns, EntersClose, Begun, Handed
      <4> QED
        BY <4>1, <4>2, <4>3
    <3> QED
      BY <2>3, <3>1, <3>2 DEF Callbacks
  <2>4. CASE Close(v)
    <3>1. CASE CloseGivesTheSeatBack(v)
      <4>0. GiveSeatBack(v)
        BY <3>1 DEF CloseGivesTheSeatBack
      <4> HIDE DEF GiveSeatBack
      <4>1. Shape'
        BY <3>1, <4>0, GiveBackOnce DEF CloseGivesTheSeatBack, Closes
      <4>2. Placed(v)'
        BY <3>1, <4>0, GiveBackOnce DEF CloseGivesTheSeatBack, Closes, Begun, Handed
      <4>3. ASSUME NEW w \in Sessions \ {v} PROVE Placed(w)'
        BY <3>1, <4>0, GiveBackOnce DEF CloseGivesTheSeatBack, Closes, Begun, Handed
      <4> QED
        BY <4>1, <4>2, <4>3
    <3>2. CASE CloseUncounts(v)
      BY <3>2 DEF CloseUncounts, Closes, Begun, Handed
    <3>3. CASE CloseForgetsTheEstimate(v)
      BY <3>3 DEF CloseForgetsTheEstimate, Closes, Begun, Handed
    <3>4. CASE CloseTheConnection(v)
      <4>1. Shape'
        BY <3>4 DEF CloseTheConnection, Closes
      <4>2. Placed(v)'
        BY <3>4 DEF CloseTheConnection, Closes, Begun, Handed
      <4>3. ASSUME NEW w \in Sessions \ {v} PROVE Placed(w)'
        BY <3>4 DEF CloseTheConnection, Closes, Begun, Handed
      <4> QED
        BY <4>1, <4>2, <4>3
    <3> QED
      BY <2>4, <3>1, <3>2, <3>3, <3>4 DEF Close
  <2>5. CASE PageLeaves(v)
    BY <2>5 DEF PageLeaves, Begun, Handed
  <2>6. ASSUME NEW state \in {"connected", "disconnected", "failed"},
               pc[v] \in {"connecting", "connected", "disconnected"}, Moves(v, state)
        PROVE  PlaceInv'
    <3>1. up' \in [Sessions -> Nat]
      BY <2>6, SMT DEF Moves, ConnectedAgain
    <3>2. down' \in [Sessions -> BOOLEAN]
      BY <2>6, Zenon DEF Moves, EndAnnounced
    <3>3. /\ pc' \in [Sessions -> {"none", "new", "connecting", "connected",
                                 "disconnected", "failed", "closed"}]
          /\ pc'[v] = state /\ \A w \in Sessions \ {v} : pc'[w] = pc[w]
      BY <2>6 DEF Moves
    <3>4. UNCHANGED <<ready, open, viewersNow, bwe, handler, seated, counted, closing, left>>
      BY <2>6 DEF Moves
    <3>5. Shape'
      BY <3>1, <3>2, <3>3, <3>4
    <3>6. down'[v] = (down[v] \/ state \in Ends) /\ \A w \in Sessions \ {v} : down'[w] = down[w]
      BY <2>6 DEF Moves, EndAnnounced
    <3>7. handler[v] \notin Begun
      BY <2>6 DEF Begun
    <3>8. Placed(v)'
      BY <2>6, <3>3, <3>4, <3>7 DEF Begun, Handed
    <3>9. ASSUME NEW w \in Sessions \ {v} PROVE Placed(w)'
      BY <3>3, <3>4, <3>6 DEF Begun, Handed
    <3> QED
      BY <3>5, <3>8, <3>9
  <2>7. CASE Connects(v)
    BY <2>6, <2>7 DEF Connects
  <2>8. CASE LosesThePeer(v)
    BY <2>6, <2>8 DEF LosesThePeer
  <2> QED
    BY <1>3, <2>1, <2>2, <2>3, <2>4, <2>5, <2>7, <2>8
<1> QED
  BY <1>1, <1>2, <1>3 DEF HubNext

-----------------------------------------------------------------------------
\* What a session holds, in every behaviour.
LEMMA PlaceCorrect == HubSpec => []PlaceInv
BY PlaceInit, PlaceStep, PTL DEF HubSpec

LEMMA ShapeCorrect == HubSpec => []Shape
BY PlaceCorrect, PTL DEF PlaceInv

-----------------------------------------------------------------------------
\* The seats.

Seats == LetIn \cup TurnedAway

LEMMA SeatsAreFinite ==
  /\ IsFiniteSet(Seats) /\ IsFiniteSet(LetIn)
  /\ Cardinality(LetIn) \in Nat /\ Cardinality(Seats) \in Nat
  /\ Cardinality(LetIn) <= Cardinality(Seats)
<1>1. LetIn \subseteq Seats /\ Seats \subseteq Sessions
  BY DEF Seats, LetIn, TurnedAway
<1>2. IsFiniteSet(Seats)
  BY <1>1, FS_Subset, ViewersAssumption
<1> QED
  BY <1>1, <1>2, FS_Subset, FS_CardinalityType

\* One session fewer: the set and the counter go down together.
LEMMA SeatLess ==
  ASSUME NEW v \in Seats, SeatsAddUp, SeatsAreBounded,
         Seats' = Seats \ {v}, LetIn' \subseteq LetIn, open' = open - 1
  PROVE  SeatsAddUp' /\ SeatsAreBounded'
<1>1. Cardinality(Seats') = Cardinality(Seats) - 1
  BY SeatsAreFinite, FS_RemoveElement
<1>2. Cardinality(LetIn') <= Cardinality(LetIn) /\ Cardinality(LetIn') \in Nat
  BY SeatsAreFinite, FS_Subset, FS_CardinalityType
<1> QED
  BY <1>1, <1>2, SeatsAreFinite, ViewersAssumption DEF SeatsAddUp, SeatsAreBounded, Seats

\* A step that moves nobody in or out.
LEMMA SeatsKept ==
  ASSUME SeatsAddUp, SeatsAreBounded,
         LetIn' = LetIn, TurnedAway' = TurnedAway, open' = open
  PROVE  SeatsAddUp' /\ SeatsAreBounded'
BY DEF SeatsAddUp, SeatsAreBounded

LEMMA SeatStep ==
  PlaceInv /\ SeatsAddUp /\ SeatsAreBounded /\ [HubNext]_hubVars
    => SeatsAddUp' /\ SeatsAreBounded'
<1> SUFFICES ASSUME PlaceInv, SeatsAddUp, SeatsAreBounded, [HubNext]_hubVars
             PROVE  SeatsAddUp' /\ SeatsAreBounded'
  OBVIOUS
<1> Shape /\ \A v \in Sessions : Placed(v)
  BY DEF PlaceInv
<1>1. CASE UNCHANGED hubVars \/ StreamStarts
  <2>1. UNCHANGED <<handler, seated, open>>
    BY <1>1 DEF hubVars, hub, viewer, StreamStarts
  <2> QED
    BY <2>1, SeatsKept DEF LetIn, TurnedAway
<1>2. ASSUME NEW v \in Sessions, TakesASeat(v) PROVE SeatsAddUp' /\ SeatsAreBounded'
  <2>1. v \notin Seats /\ Seats' = Seats \cup {v} /\ open' = open + 1
    BY <1>2 DEF TakesASeat, Goes, Seats, LetIn, TurnedAway, Shape, viewer, Placed
  <2>2. Cardinality(Seats') = Cardinality(Seats) + 1
    BY <2>1, SeatsAreFinite, FS_AddElement
  <2>3. SeatsAddUp'
    BY <2>1, <2>2, SeatsAreFinite DEF SeatsAddUp, Seats
  <2>4. CASE Over(open + 1)
    <3>1. LetIn' = LetIn
      BY <1>2, <2>4 DEF TakesASeat, Goes, LetIn, Shape, viewer
    <3> QED
      BY <2>3, <3>1 DEF SeatsAreBounded
  <2>5. CASE ~Over(open + 1)
    <3>1. LetIn' \subseteq Seats'
      BY DEF Seats
    <3>2. IsFiniteSet(Seats')
      BY <2>1, SeatsAreFinite, FS_AddElement
    <3>3. Cardinality(LetIn') <= Cardinality(Seats') /\ Cardinality(LetIn') \in Nat
      BY <3>1, <3>2, FS_Subset, FS_CardinalityType
    <3>4. Cardinality(Seats') = open + 1
      BY <2>2 DEF SeatsAddUp, Seats
    <3>5. open + 1 <= MaxOpen
      BY <2>5, ViewersAssumption DEF Over, Shape
    <3> QED
      BY <2>3, <3>3, <3>4, <3>5, ViewersAssumption DEF SeatsAreBounded, Shape
  <2> QED
    BY <2>4, <2>5
<1>3. ASSUME NEW v \in Sessions, SeatUndone(v) PROVE SeatsAddUp' /\ SeatsAreBounded'
  <2>1. /\ v \in Seats /\ Seats' = Seats \ {v} /\ open' = open - 1
        /\ LetIn' \subseteq LetIn
    BY <1>3 DEF SeatUndone, Goes, Seats, LetIn, TurnedAway, Shape, viewer, Placed
  <2> QED
    BY <2>1, SeatLess
<1>4. ASSUME NEW v \in Sessions, GiveSeatBack(v),
             handler[v] \notin {"idle", "refusing", "building"},
             handler'[v] \notin {"idle", "refusing", "building"},
             \A w \in Sessions \ {v} : handler'[w] = handler[w]
      PROVE  SeatsAddUp' /\ SeatsAreBounded'
  <2>1. /\ ~seated'[v] /\ \A w \in Sessions \ {v} : seated'[w] = seated[w]
        /\ open' = IF seated[v] THEN open - 1 ELSE open
    BY <1>4, GiveBackOnce
  <2>2. LetIn' = LetIn \ {v} /\ TurnedAway' = TurnedAway /\ v \notin TurnedAway
    BY <1>4, <2>1 DEF LetIn, TurnedAway
  <2>3. CASE seated[v]
    <3>1. v \in Seats /\ Seats' = Seats \ {v}
      BY <2>2, <2>3 DEF Seats, LetIn
    <3> QED
      BY <2>1, <2>2, <2>3, <3>1, SeatLess
  <2>4. CASE ~seated[v]
    <3>1. LetIn' = LetIn
      BY <1>4, <2>2, <2>4 DEF LetIn
    <3> QED
      BY <2>1, <2>2, <2>4, <3>1, SeatsKept
  <2> QED
    BY <2>3, <2>4
<1>5. ASSUME NEW v \in Sessions, DeferredGiveBack(v) \/ CloseGivesTheSeatBack(v)
      PROVE  SeatsAddUp' /\ SeatsAreBounded'
  <2>1. CASE DeferredGiveBack(v)
    <3>1. /\ GiveSeatBack(v) /\ handler[v] = "failing" /\ handler'[v] = "over"
          /\ \A w \in Sessions \ {v} : handler'[w] = handler[w]
      BY <2>1 DEF DeferredGiveBack, Goes, Shape
    <3> QED
      BY <1>4, <3>1
  <2>2. CASE CloseGivesTheSeatBack(v)
    <3>1. GiveSeatBack(v) /\ handler' = handler /\ closing[v] = "seat"
      BY <2>2 DEF CloseGivesTheSeatBack, Closes
    <3>2. handler[v] \notin {"idle", "refusing", "building"}
      BY <3>1 DEF Placed, Begun
    <3> QED
      BY <1>4, <3>1, <3>2
  <2> QED
    BY <1>5, <2>1, <2>2
<1>6. ASSUME NEW v \in Sessions, Made(v) PROVE SeatsAddUp' /\ SeatsAreBounded'
  <2>1. LetIn' = LetIn /\ TurnedAway' = TurnedAway /\ open' = open
    BY <1>6 DEF Made, Goes, LetIn, TurnedAway, Shape, hub
  <2> QED
    BY <2>1, SeatsKept
<1>7. ASSUME NEW v \in Sessions, UNCHANGED <<seated, open>>,
             handler' = handler \/ (/\ handler[v] \notin {"refusing", "building"}
                                    /\ handler'[v] \notin {"refusing", "building"}
                                    /\ \A w \in Sessions \ {v} : handler'[w] = handler[w])
      PROVE  SeatsAddUp' /\ SeatsAreBounded'
  <2>1. LetIn' = LetIn /\ TurnedAway' = TurnedAway
    BY <1>7 DEF LetIn, TurnedAway
  <2> QED
    BY <1>7, <2>1, SeatsKept
<1>8. ASSUME NEW v \in Sessions,
             \/ AskedTooEarly(v) \/ MadeInVain(v) \/ Watched(v) \/ OfferFails(v)
             \/ HandedOver(v) \/ Signalling(v) \/ Callbacks(v)
             \/ CloseUncounts(v) \/ CloseForgetsTheEstimate(v) \/ CloseTheConnection(v)
             \/ PageLeaves(v) \/ Connects(v) \/ LosesThePeer(v)
      PROVE  SeatsAddUp' /\ SeatsAreBounded'
  <2>1. UNCHANGED <<seated, open>>
    BY <1>8 DEF AskedTooEarly, MadeInVain, Watched, OfferFails, HandedOver, Signalling,
       AnswerArrives, SignallingEnds, MediaIsAsked, HandlerCloses, Callbacks,
       ConnectedRuns, EndRuns, CloseUncounts, CloseForgetsTheEstimate,
       CloseTheConnection, PageLeaves, Connects, LosesThePeer, Moves, hub, viewer
  <2>2. handler' = handler \/ (/\ handler[v] \notin {"refusing", "building"}
                               /\ handler'[v] \notin {"refusing", "building"}
                               /\ \A w \in Sessions \ {v} : handler'[w] = handler[w])
    BY <1>8 DEF AskedTooEarly, MadeInVain, Watched, OfferFails, HandedOver, Signalling,
       AnswerArrives, SignallingEnds, MediaIsAsked, HandlerCloses, Callbacks,
       ConnectedRuns, EndRuns, CloseUncounts, CloseForgetsTheEstimate,
       CloseTheConnection, PageLeaves, Connects, LosesThePeer, Moves, Goes, Shape
  <2> QED
    BY <1>7, <2>1, <2>2
<1> QED
  BY <1>1, <1>2, <1>3, <1>5, <1>6, <1>8 DEF HubNext, NewViewer, Close

LEMMA SeatInit == HubInit => SeatsAddUp /\ SeatsAreBounded
<1> SUFFICES ASSUME HubInit PROVE SeatsAddUp /\ SeatsAreBounded
  OBVIOUS
<1>1. LetIn = {} /\ TurnedAway = {}
  BY DEF HubInit, LetIn, TurnedAway
<1> QED
  BY <1>1, FS_EmptySet, ViewersAssumption DEF HubInit, SeatsAddUp, SeatsAreBounded

\* The counter is the sessions that are in and those being turned away,
\* whatever fails and however the give-back races the Closed callback.
THEOREM SeatsAreCounted == HubSpec => []SeatsAddUp
BY SeatInit, SeatStep, PlaceCorrect, PTL DEF HubSpec

\* No more sessions are let in than the bound, however many ask together.
THEOREM TheHouseIsBounded == HubSpec => []SeatsAreBounded
BY SeatInit, SeatStep, PlaceCorrect, PTL DEF HubSpec

-----------------------------------------------------------------------------
\* A session that is over holds neither a seat nor an estimate.
THEOREM TheDeadLetGo == HubSpec => []TheDeadHoldNothing
<1>1. PlaceInv => TheDeadHoldNothing
  BY DEF PlaceInv, Placed, TheDeadHoldNothing
<1> QED
  BY <1>1, PlaceCorrect, PTL

\* An estimate in the map is of a viewer whose Close is still to forget it.
THEOREM EstimatesLeave == HubSpec => []EstimatesAreOfTheLiving
<1>1. PlaceInv => EstimatesAreOfTheLiving
  BY DEF PlaceInv, Placed, EstimatesAreOfTheLiving, Shape, Handed
<1> QED
  BY <1>1, PlaceCorrect, PTL

-----------------------------------------------------------------------------
\* The count of who is watching.

Counted == {v \in Sessions : counted[v]}

LEMMA CountStep == Shape /\ CountIsRemembered /\ [HubNext]_hubVars => CountIsRemembered'
<1> SUFFICES ASSUME Shape, CountIsRemembered, [HubNext]_hubVars PROVE CountIsRemembered'
  OBVIOUS
<1>1. IsFiniteSet(Counted) /\ viewersNow = Cardinality(Counted)
  BY FS_Subset, ViewersAssumption DEF Counted, CountIsRemembered
<1>2. CASE UNCHANGED <<viewersNow, counted>>
  BY <1>2 DEF CountIsRemembered
<1>3. ASSUME NEW v \in Sessions, ConnectedRuns(v) PROVE CountIsRemembered'
  <2>1. Counted' = Counted \cup {v}
    BY <1>3 DEF ConnectedRuns, Counted, Shape
  <2>2. viewersNow' = IF v \in Counted THEN viewersNow ELSE viewersNow + 1
    BY <1>3 DEF ConnectedRuns, Counted
  <2>3. Cardinality(Counted') =
          IF v \in Counted THEN Cardinality(Counted) ELSE Cardinality(Counted) + 1
    BY <1>1, <2>1, FS_AddElement
  <2> QED
    BY <1>1, <2>2, <2>3 DEF CountIsRemembered, Counted
<1>4. ASSUME NEW v \in Sessions, CloseUncounts(v) PROVE CountIsRemembered'
  <2>1. Counted' = Counted \ {v}
    BY <1>4 DEF CloseUncounts, Counted, Shape
  <2>2. viewersNow' = IF v \in Counted THEN viewersNow - 1 ELSE viewersNow
    BY <1>4 DEF CloseUncounts, Counted
  <2>3. Cardinality(Counted') =
          IF v \in Counted THEN Cardinality(Counted) - 1 ELSE Cardinality(Counted)
    BY <1>1, <2>1, FS_RemoveElement
  <2> QED
    BY <1>1, <2>2, <2>3 DEF CountIsRemembered, Counted
<1>5. \/ UNCHANGED <<viewersNow, counted>>
      \/ \E v \in Sessions : ConnectedRuns(v) \/ CloseUncounts(v)
  BY DEF HubNext, hubVars, hub, viewer, StreamStarts, NewViewer, AskedTooEarly, TakesASeat,
     SeatUndone, Made, MadeInVain, Watched, OfferFails, DeferredGiveBack, HandedOver,
     Signalling, AnswerArrives, SignallingEnds, MediaIsAsked, HandlerCloses,
     Callbacks, EndRuns, Close, CloseGivesTheSeatBack, CloseForgetsTheEstimate,
     CloseTheConnection, PageLeaves, Connects, LosesThePeer, Moves
<1> QED
  BY <1>2, <1>3, <1>4, <1>5

\* No road out of a session takes one off the count without having put one on.
THEOREM TheCountIsHonest == HubSpec => []CountIsRemembered
<1>1. HubInit => CountIsRemembered
  <2> SUFFICES ASSUME HubInit PROVE CountIsRemembered
    OBVIOUS
  <2>1. {v \in Sessions : counted[v]} = {}
    BY DEF HubInit
  <2> QED
    BY <2>1, FS_EmptySet DEF HubInit, CountIsRemembered
<1> QED
  BY <1>1, CountStep, ShapeCorrect, PTL DEF HubSpec

\* Every variable has its type, the counters included: what they count is a set.
THEOREM HubTypeCorrect == HubSpec => []HubTypeOK
<1>1. Shape /\ SeatsAddUp /\ CountIsRemembered => HubTypeOK
  <2> SUFFICES ASSUME Shape, SeatsAddUp, CountIsRemembered PROVE HubTypeOK
    OBVIOUS
  <2>1. open \in Nat
    BY SeatsAreFinite DEF SeatsAddUp, Seats
  <2>2. viewersNow \in Nat
    <3>1. IsFiniteSet({v \in Sessions : counted[v]})
      BY FS_Subset, ViewersAssumption
    <3> QED
      BY <3>1, FS_CardinalityType DEF CountIsRemembered
  <2> QED
    BY <2>1, <2>2 DEF Shape, HubTypeOK
<1> QED
  BY <1>1, ShapeCorrect, SeatsAreCounted, TheCountIsHonest, PTL

\* All that a viewer's session owes the house, at once: the seats are those of
\* the living, the ceiling holds, the count is honest, the dead hold nothing and
\* only the living have an estimate.
THEOREM ViewersAreSafe == HubSpec => []ViewersSafety
<1>1. HubTypeOK /\ SeatsAddUp /\ SeatsAreBounded /\ CountIsRemembered /\ TheDeadHoldNothing
        /\ EstimatesAreOfTheLiving => ViewersSafety
  BY DEF ViewersSafety
<1> QED
  BY <1>1, HubTypeCorrect, SeatsAreCounted, TheHouseIsBounded, TheCountIsHonest, TheDeadLetGo,
     EstimatesLeave, PTL
=============================================================================
