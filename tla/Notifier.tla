------------------------------ MODULE Notifier ------------------------------
(***************************************************************************)
(* News on its way to the phones: dispatch, deliver and Close of           *)
(* internal/push/notifier.go and internal/push/send.go.                    *)
(*                                                                         *)
(* The watching round gives each piece of news a goroutine of its own and  *)
(* goes on.  The goroutine waits for the news before it on the same code,  *)
(* gives every device a delivery, each a goroutine again and each in one   *)
(* of a bounded number of slots, and waits for them.  A delivery is        *)
(* attempts with pauses between; newer news on the same code cuts the      *)
(* pauses short and no attempt.                                            *)
(*                                                                         *)
(* The news are numbered in the order they happened.  The life of a        *)
(* message, its TTL, is a number of attempts.                              *)
(***************************************************************************)
EXTENDS Naturals, FiniteSets

CONSTANTS Codes,    \* alert codes
          Devices,  \* endpoints that may subscribe
          MaxNews,  \* pieces of news: a bound
          Slots,    \* maxInFlight
          MaxTries  \* attempts a message's TTL leaves time for: a bound

ASSUME NotifierAssumption ==
  /\ Codes # {} /\ IsFiniteSet(Devices)
  /\ MaxNews \in Nat /\ Slots \in Nat /\ MaxTries \in Nat \ {0}

VARIABLES
  subs,      \* the store's list
  count,     \* how many pieces of news there have been
  code,      \* the code of each
  before,    \* the news under way on its code when each was dispatched, or 0
  latest,    \* Notifier.latest, or 0
  overtaken, \* the news whose `superseded` context was cancelled
  stage,     \* where each news is
  todo,      \* the devices its loop has still to give a delivery
  delivery,  \* where each delivery is
  tries,     \* the attempts each has begun
  free,      \* slots nobody holds
  skipped,   \* deliveries refused for want of a slot
  taken,     \* the last news each device's service took, for each code
  closing    \* where Close is

store == <<subs, taken>>
news == <<count, code, before, latest, overtaken, stage>>
deliveries == <<todo, delivery, tries, free, skipped>>
vars == <<store, news, deliveries, closing>>

News == 1..MaxNews
UnderWay == {"trying", "pausing", "leaving"}

Init ==
  /\ subs = {} /\ count = 0
  /\ code = [n \in News |-> CHOOSE c \in Codes : TRUE]
  /\ before = [n \in News |-> 0]
  /\ latest = [c \in Codes |-> 0]
  /\ overtaken = {}
  /\ stage = [n \in News |-> "none"]
  /\ todo = [n \in News |-> {}]
  /\ delivery = [n \in News |-> [d \in Devices |-> "none"]]
  /\ tries = [n \in News |-> [d \in Devices |-> 0]]
  /\ free = Slots
  /\ skipped = {}
  /\ taken = [d \in Devices |-> [c \in Codes |-> 0]]
  /\ closing = "open"

\* The context `superseded`: newer news, or the end of the monitor.
Superseded(n) == n \in overtaken \/ closing # "open"

-----------------------------------------------------------------------------
\* The store, as the pages and the answers change it.

Subscribe(d) ==
  /\ d \notin subs
  /\ subs' = subs \cup {d}
  /\ UNCHANGED <<taken, news, deliveries, closing>>

Unsubscribe(d) ==
  /\ d \in subs
  /\ subs' = subs \ {d}
  /\ UNCHANGED <<taken, news, deliveries, closing>>

-----------------------------------------------------------------------------
\* dispatch, called by the one goroutine of the watching round, which stops
\* before Close.  With nobody to tell nothing happens.

BesideTheOther(c) == 0                                             \* mutant
ItselfBefore(c) == count + 1                                       \* mutant
NewsBefore(c) == latest[c]

OvertakesEveryCode(c) == {latest[x] : x \in Codes}                  \* mutant
Overtakes(c) == {latest[c]}

Dispatch(c) ==
  /\ closing = "open" /\ count < MaxNews /\ subs # {}
  /\ count' = count + 1
  /\ code' = [code EXCEPT ![count'] = c]
  /\ before' = [before EXCEPT ![count'] = NewsBefore(c)]
  /\ latest' = [latest EXCEPT ![c] = count']
  /\ overtaken' = overtaken \cup Overtakes(c)
  /\ stage' = [stage EXCEPT ![count'] = "waiting"]
  /\ UNCHANGED <<store, deliveries, closing>>

\* The deferred end of a news: its entry goes if it is still the newest, and
\* the news after it may go.
ForgetsItsCode(n) == [latest EXCEPT ![code[n]] = 0]                  \* mutant
Forgets(n) == [c \in Codes |-> IF latest[c] = n THEN 0 ELSE latest[c]]

Ends(n) ==
  /\ stage' = [stage EXCEPT ![n] = "over"]
  /\ latest' = Forgets(n)

ItsTurn(n) ==
  stage[n] = "waiting" /\ \A m \in News : before[n] = m => stage[m] = "over"

GoesOut(n) ==
  /\ ItsTurn(n) /\ ~Superseded(n)
  /\ stage' = [stage EXCEPT ![n] = "sending"]
  /\ todo' = [todo EXCEPT ![n] = subs]
  /\ UNCHANGED <<store, count, code, before, latest, overtaken, delivery, tries,
                 free, skipped, closing>>

WasOvertaken(n) ==
  /\ ItsTurn(n) /\ Superseded(n)
  /\ Ends(n)
  /\ UNCHANGED <<store, count, code, before, overtaken, deliveries, closing>>

\* One turn of the loop over the devices: a slot, or none and no delivery.
GivesADelivery(n, d) ==
  /\ stage[n] = "sending" /\ d \in todo[n]
  /\ todo' = [todo EXCEPT ![n] = @ \ {d}]
  /\ IF free > 0
       THEN /\ free' = free - 1
            /\ delivery' = [delivery EXCEPT ![n][d] = "trying"]
            /\ tries' = [tries EXCEPT ![n][d] = 1]
            /\ UNCHANGED skipped
       ELSE /\ skipped' = skipped \cup {<<n, d>>}
            /\ UNCHANGED <<free, delivery, tries>>
  /\ UNCHANGED <<store, news, closing>>

\* each.Wait, and the report.
DoesNotWait(n) ==                                                  \* mutant
  /\ stage[n] = "sending" /\ todo[n] = {}
  /\ Ends(n)
  /\ UNCHANGED <<store, count, code, before, overtaken, deliveries, closing>>
HasGoneOut(n) ==
  /\ stage[n] = "sending" /\ todo[n] = {}
  /\ \A d \in Devices : delivery[n][d] \in {"none", "ended"}
  /\ Ends(n)
  /\ UNCHANGED <<store, count, code, before, overtaken, deliveries, closing>>

-----------------------------------------------------------------------------
\* deliver, and the settling of its answer.

\* The delivery has an answer: its deferred calls give the slot back, and only
\* then is the news told.
LeavesTheSlotTaken(n, d) ==                                         \* mutant
  /\ delivery[n][d] = "leaving"
  /\ delivery' = [delivery EXCEPT ![n][d] = "ended"]
  /\ UNCHANGED <<store, news, todo, tries, free, skipped, closing>>
Leaves(n, d) ==
  /\ delivery[n][d] = "leaving"
  /\ free' = free + 1
  /\ delivery' = [delivery EXCEPT ![n][d] = "ended"]
  /\ UNCHANGED <<store, news, todo, tries, skipped, closing>>

Takes(n, d) == taken' = [taken EXCEPT ![d][code[n]] = n]

\* The service takes the message, and says so.
Delivered(n, d) ==
  /\ delivery[n][d] = "trying"
  /\ Takes(n, d)
  /\ delivery' = [delivery EXCEPT ![n][d] = "leaving"]
  /\ UNCHANGED <<subs, news, todo, tries, free, skipped, closing>>

\* The subscription has ended: it is removed.
Gone(n, d) ==
  /\ delivery[n][d] = "trying"
  /\ subs' = subs \ {d}
  /\ delivery' = [delivery EXCEPT ![n][d] = "leaving"]
  /\ UNCHANGED <<taken, news, todo, tries, free, skipped, closing>>

\* An answer that does not pass: refused, too large, not allowed.
Refused(n, d) ==
  /\ delivery[n][d] = "trying"
  /\ delivery' = [delivery EXCEPT ![n][d] = "leaving"]
  /\ UNCHANGED <<store, news, todo, tries, free, skipped, closing>>

\* An answer that passes, or none in time, in which case the service may have
\* taken the message: a pause, if the TTL leaves time for it and an attempt
\* after it.  A service that asks for a longer one is not tried again.
RetriesForGood(n, d) ==                                            \* mutant
  /\ delivery[n][d] = "trying"
  /\ delivery' = [delivery EXCEPT ![n][d] = "pausing"]
  /\ UNCHANGED <<store, news, todo, tries, free, skipped, closing>>
Unavailable(n, d) ==
  /\ delivery[n][d] = "trying"
  /\ Takes(n, d) \/ UNCHANGED taken
  /\ \E next \in {"pausing", "leaving"} :
       /\ next = "pausing" => tries[n][d] < MaxTries
       /\ delivery' = [delivery EXCEPT ![n][d] = next]
  /\ UNCHANGED <<subs, news, todo, tries, free, skipped, closing>>

\* The pause is over.  With the timer and the context both ready a select
\* takes either, so one more attempt may begin after the news was overtaken.
TriesAgain(n, d) ==
  /\ delivery[n][d] = "pausing"
  /\ delivery' = [delivery EXCEPT ![n][d] = "trying"]
  /\ tries' = [tries EXCEPT ![n][d] = @ + 1]
  /\ UNCHANGED <<store, news, todo, free, skipped, closing>>

PauseIsCut(n, d) ==
  /\ delivery[n][d] = "pausing" /\ Superseded(n)
  /\ delivery' = [delivery EXCEPT ![n][d] = "leaving"]
  /\ UNCHANGED <<store, news, todo, tries, free, skipped, closing>>

-----------------------------------------------------------------------------
\* Close: every context is cancelled, then every news waited for.

CloseCancels ==
  /\ closing = "open"
  /\ closing' = "waiting"
  /\ UNCHANGED <<store, news, deliveries>>

ReturnsAtOnce ==                                                   \* mutant
  /\ closing = "waiting"
  /\ closing' = "closed"
  /\ UNCHANGED <<store, news, deliveries>>
CloseReturns ==
  /\ closing = "waiting"
  /\ \A n \in News : stage[n] \in {"none", "over"}
  /\ closing' = "closed"
  /\ UNCHANGED <<store, news, deliveries>>

-----------------------------------------------------------------------------
Deliver(n, d) ==
  \/ Delivered(n, d) \/ Gone(n, d) \/ Refused(n, d) \/ Unavailable(n, d)
  \/ TriesAgain(n, d) \/ PauseIsCut(n, d) \/ Leaves(n, d)

OneNews(n) ==
  \/ GoesOut(n) \/ WasOvertaken(n) \/ HasGoneOut(n)
  \/ \E d \in Devices : GivesADelivery(n, d)

Next ==
  \/ \E d \in Devices : Subscribe(d) \/ Unsubscribe(d)
  \/ \E c \in Codes : Dispatch(c)
  \/ \E n \in News : OneNews(n) \/ \E d \in Devices : Deliver(n, d)
  \/ CloseCancels \/ CloseReturns

Spec == Init /\ [][Next]_vars

\* Some goroutine that can run does run, and an attempt ends: the client gives it
\* twenty seconds.  There is only so much to do, so nothing is asked of each.
Goroutines == CloseReturns \/ \E n \in News : OneNews(n) \/ \E d \in Devices : Deliver(n, d)
Fairness == WF_vars(Goroutines)

FairSpec == Spec /\ Fairness

-----------------------------------------------------------------------------
\* Every variable has its type, and the slots are never more than there are.
TypeOK ==
  /\ subs \in SUBSET Devices /\ count \in 0..MaxNews
  /\ code \in [News -> Codes] /\ before \in [News -> 0..MaxNews]
  /\ latest \in [Codes -> 0..MaxNews] /\ overtaken \in SUBSET (0..MaxNews)
  /\ stage \in [News -> {"none", "waiting", "sending", "over"}]
  /\ todo \in [News -> SUBSET Devices]
  /\ delivery \in [News -> [Devices -> {"none", "ended"} \cup UnderWay]]
  /\ tries \in [News -> [Devices -> 0..MaxTries]]
  /\ free \in 0..Slots
  /\ skipped \in SUBSET (News \X Devices)
  /\ taken \in [Devices -> [Codes -> 0..MaxNews]]
  /\ closing \in {"open", "waiting", "closed"}

\* News on a code goes out after the news before it, never beside it.
NeverBeside ==
  \A m, n \in News :
    m < n /\ n <= count /\ code[m] = code[n] /\ stage[n] # "waiting"
      => stage[m] = "over"

\* A fault never reaches a service after its own recovery: what a device's
\* service has taken last on a code only gets newer.
NeverBackwards ==
  [][\A d \in Devices, c \in Codes : taken'[d][c] >= taken[d][c]]_vars

\* A slot nobody is using is free: none is lost on any road out.
InFlight == {p \in News \X Devices : delivery[p[1]][p[2]] \in UnderWay}
SlotsComeBack == free + Cardinality(InFlight) = Slots

\* With room for every device of every code that there was news of, nobody is
\* skipped: what is still being retried never takes the slots of the news that
\* overtook it.
CodesUsed == {code[n] : n \in 1..count}
DevicesTold == {d \in Devices : \E n \in News : delivery[n][d] # "none" \/ <<n, d>> \in skipped}
NobodyIsCrowdedOut ==
  Slots >= Cardinality(CodesUsed) * Cardinality(DevicesTold) => skipped = {}

\* What a phone is told last is what holds: news that waited is passed over
\* only when there is newer news on its own code, or the monitor is closing.
OnlyStaleIsDropped ==
  [][\A n \in News :
       stage[n] = "waiting" /\ stage'[n] = "over" =>
         closing # "open" \/ \E m \in News : n < m /\ m <= count /\ code[m] = code[n]]_vars

\* Once Close has returned nothing is under way.
CloseWaits ==
  closing = "closed" =>
    \A n \in News, d \in Devices : delivery[n][d] \notin UnderWay

\* Every piece of news goes out or is passed over, and Close ends, whatever the
\* services answer: nothing waits for good.
EveryNewsEnds == []<>(closing # "waiting" /\ \A n \in News : stage[n] # "waiting")

\* Together: two deliveries of one code to one phone are never under way beside
\* each other, every slot is given back, closing waits for what is under way, and
\* a piece of news is not dropped for want of room that it could have had.
NotifierSafety == TypeOK /\ NeverBeside /\ SlotsComeBack /\ CloseWaits /\ NobodyIsCrowdedOut

\* And the order: no phone is taken back to older news of a code, and what is
\* dropped has newer news behind it.
NewsInOrder == NeverBackwards /\ OnlyStaleIsDropped
=============================================================================
