----------------------------- MODULE PushStore -----------------------------
(***************************************************************************)
(* The list of subscriptions, in memory and in its file: Store of          *)
(* internal/push/store.go, with what the pages were answered.              *)
(*                                                                         *)
(* Every change but a delivery time writes the file whole, through a       *)
(* temporary name, so a write either replaces it or leaves it.  A delivery *)
(* time stays in memory, and `dirty` says there is one, until the next     *)
(* write or the Flush of an orderly end.  The change in memory comes       *)
(* before the write and stays if the write fails.                          *)
(***************************************************************************)
EXTENDS Naturals, FiniteSets

CONSTANTS Endpoints,
          PushKeys,             \* what a subscription may carry besides its endpoint
          Off,              \* no subscription
          MaxSubscriptions, \* the list's bound
          MaxDeliveries,    \* delivery times told apart: a bound
          MaxFailures       \* writes that fail: a bound

ASSUME PushStoreAssumption ==
  /\ Off \notin PushKeys
  /\ MaxSubscriptions \in Nat /\ MaxDeliveries \in Nat /\ MaxFailures \in Nat

VARIABLES
  subs,     \* Store.subs: the keys of each endpoint, or Off
  lastOK,   \* the delivery time of each, 0 before the first
  dirty,    \* a LastOK changed in memory and not yet on disk
  pushFile,     \* the file: the same two
  running,  \* the monitor runs
  answered, \* what each page was last told holds, or "nothing"
  failures  \* the writes that have failed

pushVars == <<subs, lastOK, dirty, pushFile, running, answered, failures>>

Memory == [subs |-> subs, lastOK |-> lastOK]
Listed == {e \in Endpoints : subs[e] # Off}
Written == {e \in Endpoints : pushFile.subs[e] # Off}

PushInit ==
  /\ subs = [e \in Endpoints |-> Off]
  /\ lastOK = [e \in Endpoints |-> 0]
  /\ dirty = FALSE
  /\ pushFile = Memory
  /\ running = TRUE
  /\ answered = [e \in Endpoints |-> "nothing"]
  /\ failures = 0

-----------------------------------------------------------------------------
\* save: the file is replaced, or it stays as it was and the caller is told.
Saved ==
  /\ pushFile' = Memory'
  /\ dirty' = FALSE
  /\ UNCHANGED failures

SaveFailed ==
  /\ failures < MaxFailures
  /\ failures' = failures + 1
  /\ UNCHANGED <<pushFile, dirty>>

Tells(e, what) == answered' = [answered EXCEPT ![e] = what]

-----------------------------------------------------------------------------
\* Put: a page hands its subscription over, as it does at every opening.

AddsPastTheBound(e, k) ==                                          \* mutant
  /\ running /\ subs[e] = Off
  /\ Cardinality(Listed) <= MaxSubscriptions
  /\ subs' = [subs EXCEPT ![e] = k]
  /\ UNCHANGED <<lastOK, running>>
  /\ Saved /\ Tells(e, k)
Add(e, k) ==
  /\ running /\ subs[e] = Off
  /\ Cardinality(Listed) < MaxSubscriptions
  /\ subs' = [subs EXCEPT ![e] = k]
  /\ lastOK' = [lastOK EXCEPT ![e] = 0]
  /\ (Saved /\ Tells(e, k)) \/ (SaveFailed /\ Tells(e, "nothing"))
  /\ UNCHANGED running

RefreshesInMemory(e, k) ==                                        \* mutant
  /\ running /\ subs[e] \notin {Off, k}
  /\ subs' = [subs EXCEPT ![e] = k]
  /\ Tells(e, k)
  /\ UNCHANGED <<lastOK, dirty, pushFile, running, failures>>
Refresh(e, k) ==
  /\ running /\ subs[e] \notin {Off, k}
  /\ subs' = [subs EXCEPT ![e] = k]
  /\ UNCHANGED <<lastOK, running>>
  /\ (Saved /\ Tells(e, k)) \/ (SaveFailed /\ Tells(e, "nothing"))

\* The same subscription again: nothing to write.
PutAgain(e, k) ==
  /\ running /\ subs[e] = k
  /\ Tells(e, k)
  /\ UNCHANGED <<subs, lastOK, dirty, pushFile, running, failures>>

\* Remove, for a page that asks; with no such subscription it says so.
Remove(e) ==
  /\ running /\ subs[e] # Off
  /\ subs' = [subs EXCEPT ![e] = Off]
  /\ lastOK' = [lastOK EXCEPT ![e] = 0]
  /\ (Saved /\ Tells(e, Off)) \/ (SaveFailed /\ Tells(e, "nothing"))
  /\ UNCHANGED running

RemoveAgain(e) ==
  /\ running /\ subs[e] = Off
  /\ Tells(e, Off)
  /\ UNCHANGED <<subs, lastOK, dirty, pushFile, running, failures>>

\* settle(Gone): the push service says the subscription has ended.
Ended(e) ==
  /\ running /\ subs[e] # Off
  /\ subs' = [subs EXCEPT ![e] = Off]
  /\ lastOK' = [lastOK EXCEPT ![e] = 0]
  /\ Saved \/ SaveFailed
  /\ Tells(e, "nothing")
  /\ UNCHANGED running

\* settle(Delivered).
NotDirty(e) ==                                                     \* mutant
  /\ running /\ subs[e] # Off /\ lastOK[e] < MaxDeliveries
  /\ lastOK' = [lastOK EXCEPT ![e] = @ + 1]
  /\ UNCHANGED <<subs, dirty, pushFile, running, answered, failures>>
Delivered(e) ==
  /\ running /\ subs[e] # Off /\ lastOK[e] < MaxDeliveries
  /\ lastOK' = [lastOK EXCEPT ![e] = @ + 1]
  /\ dirty' = TRUE
  /\ UNCHANGED <<subs, pushFile, running, answered, failures>>

-----------------------------------------------------------------------------
\* Flush, at the orderly end.
Stop ==
  /\ running /\ running' = FALSE
  /\ UNCHANGED <<subs, lastOK, answered>>
  /\ IF dirty THEN Saved \/ SaveFailed ELSE UNCHANGED <<pushFile, dirty, failures>>

\* The process is killed: what was in memory is gone.
Crash ==
  /\ running /\ running' = FALSE
  /\ UNCHANGED <<subs, lastOK, dirty, pushFile, answered, failures>>

\* OpenStore.  Past the bound it would leave the rest out.
Start ==
  /\ ~running /\ running' = TRUE
  /\ \E kept \in SUBSET Written :
       /\ Cardinality(kept) <= MaxSubscriptions
       /\ Cardinality(Written) <= MaxSubscriptions => kept = Written
       /\ subs' = [e \in Endpoints |-> IF e \in kept THEN pushFile.subs[e] ELSE Off]
       /\ lastOK' = [e \in Endpoints |-> IF e \in kept THEN pushFile.lastOK[e] ELSE 0]
  /\ dirty' = FALSE
  /\ UNCHANGED <<pushFile, answered, failures>>

PushNext ==
  \/ \E e \in Endpoints, k \in PushKeys : Add(e, k) \/ Refresh(e, k) \/ PutAgain(e, k)
  \/ \E e \in Endpoints : Remove(e) \/ RemoveAgain(e) \/ Ended(e) \/ Delivered(e)
  \/ Stop \/ Crash \/ Start
PushSpec == PushInit /\ [][PushNext]_pushVars

-----------------------------------------------------------------------------
\* Every variable has its type, and the list is within its bound on both sides.
PushTypeOK ==
  /\ subs \in [Endpoints -> PushKeys \cup {Off}]
  /\ lastOK \in [Endpoints -> 0..MaxDeliveries]
  /\ dirty \in BOOLEAN /\ running \in BOOLEAN
  /\ pushFile.subs \in [Endpoints -> PushKeys \cup {Off}]
  /\ pushFile.lastOK \in [Endpoints -> 0..MaxDeliveries]
  /\ answered \in [Endpoints -> PushKeys \cup {Off, "nothing"}]
  /\ failures \in 0..MaxFailures
  /\ Cardinality(Listed) <= MaxSubscriptions
  /\ Cardinality(Written) <= MaxSubscriptions

\* What a page was told holds of a device is in the file, and so survives a
\* crash: a subscription handed over is kept, and one turned off stays off.
AnswerIsKept(e) == answered[e] # "nothing" => pushFile.subs[e] = answered[e]

\* A write that fails costs the answers about one device and no other.
OneDevicePerFailure ==
  Cardinality({e \in Endpoints : ~AnswerIsKept(e)}) <= failures

\* While no write has failed, an orderly end leaves in the file everything that
\* was in memory, the delivery times too.
OrderlyEndKeepsAll == [][Stop /\ failures' = 0 => pushFile' = Memory]_pushVars

\* Together: the list and the file are lists of subscriptions, and a failure to
\* write leaves at most one device between them.
PushSafety == PushTypeOK /\ OneDevicePerFailure
=============================================================================
