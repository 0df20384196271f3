----------------------------- MODULE Recogniser -----------------------------
(***************************************************************************)
(* The sound model and who asks it: the gate's questions, the worker of    *)
(* internal/ced/stream.go that listens to the last seconds, and the        *)
(* verdicts of cmd/pat-monitor/recognise.go, drawn once a round.           *)
(*                                                                         *)
(* A step of time is a watching round; a round finds one cry at most, so   *)
(* the cries that wait for another are known by their ages.                *)
(***************************************************************************)
EXTENDS Integers, FiniteSets

CONSTANTS Interval,    \* recogniseInterval
          CryHits,
          CryWindow,
          VerdictHold,
          MaxRuns

ASSUME RecogniserAssumption ==
  /\ Interval \in Nat \ {0} /\ MaxRuns \in Nat /\ CryHits \in 1..MaxRuns /\ CryWindow \in Nat \ {0} /\ VerdictHold \in Nat \ {0}

NoResult == [id |-> 0, cry |-> FALSE, bark |-> FALSE, failed |-> FALSE]

VARIABLES
  wanted,     \* a cry or a bark is asked for in the configuration
  filled,     \* there is something in the ring, at the model's rate
  token,      \* the channel of questions, of one
  worker,     \* "idle", "waits" for the interval, or "listens"
  sinceRun,   \* how long ago the last run ended
  last,       \* the last result
  seen,       \* the one the verdict was last drawn from
  hits,       \* the ages of the cries that wait for another
  cryLeft, barkLeft, \* how long each is still said
  closed,     \* "no", "asked", "done"
  runs,
  unheard,    \* history: something was asked about that no run has listened to
  cryRuns,    \* history: how many results said cry
  cries       \* history: how many cries were begun

recVars == <<wanted, filled, token, worker, sinceRun, last, seen, hits, cryLeft, barkLeft, closed, runs, unheard, cryRuns, cries>>

RecInit ==
  /\ wanted = FALSE /\ filled = FALSE /\ token = FALSE /\ worker = "idle" /\ sinceRun = Interval
  /\ last = NoResult /\ seen = 0 /\ hits = {} /\ cryLeft = 0 /\ barkLeft = 0
  /\ closed = "no" /\ runs = 0 /\ unheard = FALSE /\ cryRuns = 0 /\ cries = 0

verdictVars == <<seen, hits, cryLeft, barkLeft, cries>>

\* Level: the samples go into the ring, and the gate may ask.
Feeds ==
  /\ ~filled /\ filled' = TRUE
  /\ UNCHANGED <<wanted, token, worker, sinceRun, last, closed, runs, unheard, cryRuns, verdictVars>>

\* Another rate: what is in the ring is not the model's.
RateChanges ==
  /\ filled /\ filled' = FALSE /\ unheard' = FALSE
  /\ UNCHANGED <<wanted, token, worker, sinceRun, last, closed, runs, cryRuns, verdictVars>>

\* Ask: a question too many is dropped, the one before it will hear the same.
\* One is kept for a worker that is busy.
OnlyIfIdle == worker = "idle"                                      \* mutant
IsKept == TRUE

Asks ==
  /\ wanted /\ filled /\ closed = "no" /\ ~unheard
  /\ token' = (token \/ IsKept) /\ unheard' = TRUE
  /\ UNCHANGED <<wanted, filled, worker, sinceRun, last, closed, runs, cryRuns, verdictVars>>

\* serve: the interval is waited out first, and what is heard is taken after it.
TakesTheQuestion ==
  /\ worker = "idle" /\ token /\ token' = FALSE /\ runs < MaxRuns /\ runs' = runs + 1
  /\ LET waits == sinceRun < Interval IN
       /\ worker' = IF waits THEN "waits" ELSE "listens"
       /\ unheard' = (unheard /\ waits)
  /\ UNCHANGED <<wanted, filled, sinceRun, last, closed, cryRuns, verdictVars>>

Snapshots ==
  /\ worker = "waits" /\ sinceRun >= Interval
  /\ worker' = "listens" /\ unheard' = FALSE
  /\ UNCHANGED <<wanted, filled, token, sinceRun, last, closed, runs, cryRuns, verdictVars>>

Publishes ==
  /\ worker = "listens" /\ worker' = "idle" /\ sinceRun' = 0
  /\ \E cry \in BOOLEAN, bark \in BOOLEAN, failed \in BOOLEAN :
       /\ failed => ~cry /\ ~bark
       /\ last' = [id |-> runs, cry |-> cry, bark |-> bark, failed |-> failed]
       /\ cryRuns' = cryRuns + (IF cry THEN 1 ELSE 0)
  /\ UNCHANGED <<wanted, filled, token, closed, runs, unheard, verdictVars>>

\* A round: what is wanted is said, then the verdict is drawn, from a result once.
AnyResult == last.id # 0                                           \* mutant
IsNews == last.id # 0 /\ last.id # seen

Recent(ages) == {a \in ages : a <= CryWindow}

Draws ==
  LET aged == {age + 1 : age \in hits}
      now == IF IsNews /\ last.cry THEN Recent(aged) \cup {0} ELSE aged
      cries2 == IsNews /\ last.cry /\ Cardinality(now) >= CryHits
  IN /\ seen' = last.id
     /\ hits' = IF cries2 THEN {} ELSE Recent(now)
     /\ cryLeft' = IF cries2 THEN VerdictHold ELSE IF cryLeft > 0 THEN cryLeft - 1 ELSE 0
     /\ barkLeft' = IF IsNews /\ last.bark THEN VerdictHold ELSE IF barkLeft > 0 THEN barkLeft - 1 ELSE 0
     /\ cries' = cries + (IF cries2 THEN 1 ELSE 0)

Rounds ==
  /\ wanted' \in BOOLEAN /\ Draws
  /\ sinceRun' = IF sinceRun < Interval THEN sinceRun + 1 ELSE sinceRun
  /\ UNCHANGED <<filled, token, worker, last, closed, runs, unheard, cryRuns>>

\* Close waits for the worker, which stops between two runs or out of a wait.
OnAQuestion == worker = "waits"                                    \* mutant
MayStop == worker \in {"idle", "waits"}

Stops ==
  /\ closed = "no" /\ closed' = "asked"
  /\ UNCHANGED <<wanted, filled, token, worker, sinceRun, last, runs, unheard, cryRuns, verdictVars>>

WorkerEnds ==
  /\ closed = "asked" /\ MayStop /\ closed' = "done" /\ worker' = "gone" /\ unheard' = FALSE
  /\ UNCHANGED <<wanted, filled, token, sinceRun, last, runs, cryRuns, verdictVars>>

RecNext ==
  \/ Feeds \/ RateChanges \/ Asks \/ TakesTheQuestion \/ Snapshots \/ Publishes
  \/ Rounds \/ Stops \/ WorkerEnds

Worker == TakesTheQuestion \/ Snapshots \/ Publishes \/ WorkerEnds

-----------------------------------------------------------------------------
RecTypeOK ==
  /\ worker \in {"idle", "waits", "listens", "gone"} /\ sinceRun \in 0..Interval /\ last.id \in 0..MaxRuns
  /\ Cardinality(hits) < CryHits /\ cryLeft \in 0..VerdictHold /\ barkLeft \in 0..VerdictHold /\ runs \in 0..MaxRuns

\* A sound the gate has asked about is in the seconds that some run will hear,
\* though the channel holds one question and the worker may be waiting.
NoQuestionIsLost == unheard => token \/ worker = "waits"

\* A cry is said after as many runs as it takes: no result is counted twice.
ACryTakesItsRuns == CryHits * cries <= cryRuns

\* Whoever closes the recogniser is let go, whatever the worker is at.
TheRecogniserCloses == closed = "asked" ~> closed = "done"

\* Together: a question put is a question heard, and a cry is never declared on
\* fewer runs than it takes.
RecogniserSafety == RecTypeOK /\ NoQuestionIsLost /\ ACryTakesItsRuns
=============================================================================
